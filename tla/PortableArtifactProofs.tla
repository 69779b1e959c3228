----------------------- MODULE PortableArtifactProofs -----------------------
(***************************************************************************)
(* A project started from a portable artifact, as theorems.  Whatever      *)
(* working tree the artifact was exported over, and whatever the user has  *)
(* done since, the sync of an import leaves the index of the tree there is *)
(* now, and every later call answers as if nothing had been imported.      *)
(*                                                                         *)
(* As in EnsureIndexFresh for the project layout and one caller at a time  *)
(* whom nothing disturbs, and for a project that has no meta file yet: an  *)
(* import leaves index.meta alone, so a key that an earlier call put there *)
(* would vouch for a database of another commit.                           *)
(***************************************************************************)
EXTENDS PortableArtifact, EnsureIndexFresh

\* The steps of an import of its own, and those it shares with a call.
ImportLabel == {"import", "import_fts", "sync", "synced"}

Syncing == Applying \cup FullOpen \cup {"commit", "sign", "full", "put_db"}

\* A store as a copy of an index of snapshot t, whatever its derived rows.
CopyOf(st, t) ==
    /\ st.chunks = [f \in Files |-> ChunksOf(t, f)]
    /\ st.edges \subseteq FullEdges(t)
    /\ st.states = t
    /\ st.commit \in Commit /\ history[st.commit] \in Tree
    /\ CleanCallsOnly => t = history[st.commit]
    /\ ~ CleanCallsOnly => st.commit = head

Copied(st) == st \in StoreType /\ \E t \in Tree : CopyOf(st, t)

Typed ==
    /\ RepoTypeOK
    /\ dbs \in [Path -> StoreType \cup {NONE}]
    /\ metas \in [Path -> Commit \cup {NONE}]
    /\ pc \in [Procs -> Label \cup ImportLabel]
    /\ call \in [Procs -> CallType]
    /\ scratch \in [Procs -> StoreType \cup {NONE}]
    /\ result \in [Procs -> StoreType \cup {NONE}]
    /\ seen \in [Procs -> SUBSET Tree]
    /\ moves \in 0..MaxMoves
    /\ crashes \in 0..MaxCrashes

\* Before the sync has chosen between a delta and a full index, and after either.
Arriving(p) ==
    LET c == call[p] IN
    /\ seen[p] = {tree} /\ c.key = head /\ ~ c.detached
    /\ CleanCallsOnly => tree = history[head]
    /\ \A x \in Path \ {0} : dbs[x] = NONE
    /\ pc[p] # "synced" => c.path = 0
    /\ pc[p] = "import" => artifact # NONE
    /\ pc[p] = "import_fts" => Copied(dbs[0])
    /\ pc[p] # "import_fts" => AtRest
    /\ pc[p] = "sync" => dbs[0] \in StoreType /\ \E t \in Tree : SettledAs(dbs[0], t)
    /\ pc[p] = "synced" => Rows(dbs[0], tree)

ImportFresh(p) ==
    /\ pc[p] \in ImportLabel \cup Syncing
    /\ metas[0] = NONE
    /\ pc[p] \in ImportLabel => Arriving(p)
    /\ pc[p] = "put_db" => call[p].path = NONE

ArtifactCopied == artifact # NONE => Copied(artifact)

\* A call is what EnsureIndexFresh says of it, and an import from its first
\* transaction of the sync to its last is such a call.
ImportInv ==
    /\ Typed /\ ArtifactCopied
    /\ importing \subseteq Procs
    /\ \A p \in importing : ImportFresh(p)
    /\ \A p \in Procs : pc[p] \in ImportLabel => p \in importing
    /\ importing = {} => SignaturesTaken
    /\ (\A p \in Procs : pc[p] \notin ImportLabel) => IInv /\ FreshInv

---------------------------------------------------------------------------
(* How the invariant is reached.                                           *)

LEMMA LabelsApart == Label \cap ImportLabel = {} /\ Syncing \subseteq Label
BY DEF Label, ImportLabel, DeltaOpen, Syncing, Applying, FullOpen

LEMMA BetweenImports ==
    ASSUME IInv', FreshInv', SignaturesTaken', ArtifactCopied', importing' = {}
    PROVE  ImportInv'
<1>1. Typed' /\ \A p \in Procs : pc'[p] \in Label
  BY DEF IInv, TypeOK, Typed
<1> QED
  BY <1>1, LabelsApart DEF ImportInv

LEMMA InsideSync ==
    ASSUME Undisturbed, NEW p \in Procs, importing' = {p}, ArtifactCopied',
           IInv', FreshInv', pc'[p] \in Syncing, metas'[0] = NONE,
           pc'[p] = "put_db" => call'[p].path = NONE
    PROVE  ImportInv'
<1>1. Typed' /\ \A q \in Procs : pc'[q] \in Label
  BY DEF IInv, TypeOK, Typed
<1>2. ImportFresh(p)'
  BY LabelsApart DEF ImportFresh
<1> QED
  BY <1>1, <1>2, LabelsApart DEF ImportInv

LEMMA InsideImport ==
    ASSUME Undisturbed, NEW p \in Procs, importing' = {p}, ArtifactCopied', Typed',
           pc'[p] \in ImportLabel, metas'[0] = NONE, Arriving(p)'
    PROVE  ImportInv'
<1>1. \A q \in Procs : q = p
  BY DEF Undisturbed
<1>2. ImportFresh(p)'
  BY DEF ImportFresh, ImportLabel
<1> QED
  BY <1>1, <1>2 DEF ImportInv

LEMMA CopyStays ==
    ASSUME NEW st, Copied(st),
           \A n \in Commit : history[n] \in Tree => history'[n] = history[n],
           ~ CleanCallsOnly => head' = head
    PROVE  Copied(st)'
BY DEF Copied, CopyOf

LEMMA ArtifactStays ==
    ASSUME ArtifactCopied, UNCHANGED <<artifact, history, head>>
    PROVE  ArtifactCopied'
BY DEF ArtifactCopied, Copied, CopyOf

\* What an artifact keeps of an index is enough to build the index again.
LEMMA StrippedCopies ==
    ASSUME NEW st \in StoreType, NEW t \in Tree, SettledAs(st, t)
    PROVE  Copied(Stripped(st))
<1>1. Stripped(st) \in StoreType
  BY StoreAssumption DEF Stripped, StoreType
<1>2. /\ Stripped(st).chunks = st.chunks /\ Stripped(st).edges = st.edges
      /\ Stripped(st).states = st.states /\ Stripped(st).commit = st.commit
  BY DEF Stripped, StoreType
<1>3. CopyOf(Stripped(st), t)
  BY <1>2 DEF CopyOf, SettledAs, Rows
<1> QED
  BY <1>1, <1>3 DEF Copied

LEMMA BuiltSettles ==
    ASSUME NEW st, Copied(st)
    PROVE  Bm25Build(st) \in StoreType /\ \E t \in Tree : SettledAs(Bm25Build(st), t)
<1>1. PICK t \in Tree : CopyOf(st, t)
  BY DEF Copied
<1>2. st \in StoreType /\ Bm25Build(st) \in StoreType
  BY BuildTyped DEF Copied
<1>3. /\ Bm25Build(st).chunks = st.chunks /\ Bm25Build(st).edges = st.edges
      /\ Bm25Build(st).states = st.states /\ Bm25Build(st).commit = st.commit
      /\ Bm25Build(st).fts = [i \in ChunkId |-> IF i \in AllChunks(st) THEN 1 ELSE 0]
  BY <1>2 DEF Bm25Build, StoreType
<1>4. \A i \in ChunkId : i \in AllChunks(st) <=> i \in Ids(t)
  <2>1. \A i : i \in AllChunks(st) <=> \E f \in Files : i \in ChunksOf(t, f)
    BY <1>1 DEF AllChunks, CopyOf
  <2> SUFFICES ASSUME NEW i \in ChunkId
               PROVE  (\E f \in Files : i \in ChunksOf(t, f)) <=> t[i[1]] = i[2]
    BY <2>1 DEF Ids
  <2>2. i[1] \in Files /\ i[2] # NONE /\ i = <<i[1], i[2]>>
    BY StoreAssumption DEF ChunkId
  <2> QED
    BY <2>2 DEF ChunksOf
<1>5. Bm25Build(st).fts = [i \in ChunkId |-> IF i \in Ids(t) THEN 1 ELSE 0]
  BY <1>3, <1>4
<1>6. SettledAs(Bm25Build(st), t)
  BY <1>1, <1>3, <1>5 DEF SettledAs, Rows, CopyOf
<1> QED
  BY <1>2, <1>6

---------------------------------------------------------------------------
(* Each action preserves it.  Outside imports: calls, the user, an export, *)
(* a reset.                                                                *)

LEMMA NoCallNoImport ==
    ASSUME ImportInv, Undisturbed, Idle
    PROVE  importing = {} /\ IInv /\ FreshInv /\ SignaturesTaken /\ AtRest
<1>1. \A p \in Procs : pc[p] = "idle"
  BY DEF Idle
<1>2. importing = {}
  BY <1>1 DEF ImportInv, ImportFresh, ImportLabel, Syncing, Applying, FullOpen
<1>3. IInv /\ FreshInv
  BY <1>1 DEF ImportInv, ImportLabel
<1> QED
  BY <1>1, <1>2, <1>3 DEF ImportInv, FreshInv, Resting, Undisturbed

LEMMA OrdinaryImports ==
    ASSUME ImportInv, Undisturbed, importing = {}, [Next]_vars, UNCHANGED artifactVars
    PROVE  ImportInv'
<1>1. IInv /\ FreshInv /\ SignaturesTaken
  BY DEF ImportInv
<1>2. IInv' /\ FreshInv' /\ SignaturesTaken'
  BY <1>1, NextTyped, FreshNext, SignaturesNext
<1>3. ArtifactCopied'
  <2>1. artifact' = artifact /\ ArtifactCopied
    BY DEF artifactVars, ImportInv
  <2>2. CASE User
    BY <1>1, <2>1, <2>2, CommitsStay, CopyStays DEF ArtifactCopied
  <2>3. CASE ~ User
    BY <2>1, <2>3, OnlyTheUserMoves, ArtifactStays DEF repoVars
  <2> QED
    BY <2>2, <2>3
<1> QED
  BY <1>2, <1>3, BetweenImports DEF artifactVars

LEMMA ExportImports ==
    ASSUME ImportInv, Undisturbed, ExportArtifact
    PROVE  ImportInv'
<1>1. /\ Idle /\ dbs[0] # NONE /\ artifact' = Stripped(dbs[0]) /\ importing' = importing
      /\ UNCHANGED vars
  BY OneDatabase DEF ExportArtifact, Dest
<1>2. importing = {} /\ IInv /\ FreshInv /\ SignaturesTaken /\ AtRest
  BY <1>1, NoCallNoImport
<1>3. IInv' /\ FreshInv' /\ SignaturesTaken'
  BY <1>1, <1>2, NextTyped, FreshNext, SignaturesNext
<1>4. PICK t \in Tree : SettledAs(dbs[0], t)
  BY <1>1, <1>2 DEF AtRest
<1>5. dbs[0] \in StoreType
  BY <1>1, <1>2, OneDatabase DEF IInv, TypeOK
<1>6. Copied(Stripped(dbs[0]))
  BY <1>4, <1>5, StrippedCopies
<1>7. ArtifactCopied'
  BY <1>1, <1>6, CopyStays DEF ArtifactCopied, Copied, CopyOf, vars, repoVars
<1> QED
  BY <1>1, <1>2, <1>3, <1>7, BetweenImports

LEMMA ResetProjectImports ==
    ASSUME ImportInv, Undisturbed, ResetProject
    PROVE  ImportInv'
<1>1. /\ Idle /\ dbs' = [dbs EXCEPT ![0] = NONE] /\ metas' = [metas EXCEPT ![0] = NONE]
      /\ UNCHANGED <<repoVars, procVars, seen, moves, crashes, artifactVars>>
  BY OneDatabase DEF ResetProject, Dest
<1>2. importing = {} /\ IInv /\ FreshInv
  BY <1>1, NoCallNoImport
<1>3. \A p \in Procs : pc[p] = "idle" /\ pc'[p] = "idle"
  BY <1>1 DEF Idle, procVars
<1>4. TypeOK'
  BY <1>1, <1>2 DEF IInv, TypeOK, RepoTypeOK, repoVars, procVars
<1>5. OpenHandles'
  BY <1>1, <1>2, <1>3 DEF IInv, OpenHandles, DeltaOpen, FullOpen, procVars
<1>6. FreshInv'
  <2>1. AtRest' /\ \A x \in Path \ {0} : dbs'[x] = NONE
    BY <1>1, <1>2, OneDatabase DEF AtRest, FreshInv, IInv, TypeOK
  <2>2. \A p \in Procs : CallFresh(p)'
    BY <1>3 DEF CallFresh, OnDatabase, Applying
  <2> QED
    BY <2>1, <2>2 DEF FreshInv
<1>7. SignaturesTaken'
  BY <1>3 DEF SignaturesTaken
<1>8. ArtifactCopied'
  BY <1>1, ArtifactStays DEF ImportInv, artifactVars, repoVars
<1> QED
  BY <1>1, <1>2, <1>4, <1>5, <1>6, <1>7, <1>8, BetweenImports DEF IInv, artifactVars

---------------------------------------------------------------------------
(* The import itself.                                                      *)

LEMMA BeginImports ==
    ASSUME ImportInv, Undisturbed, ~ Reimport, NEW p \in Procs, NEW cfg \in Configs,
           BeginImport(p, cfg)
    PROVE  ImportInv'
<1>1. /\ Idle /\ artifact # NONE /\ metas[0] = NONE
      /\ importing' = {p} /\ pc' = [pc EXCEPT ![p] = "import"]
      /\ call' = [call EXCEPT ![p] = [NoCall EXCEPT !.key = head, !.config = cfg, !.path = 0]]
      /\ seen' = [seen EXCEPT ![p] = {tree}]
      /\ CleanCallsOnly => Dirty = {}
      /\ UNCHANGED <<repoVars, diskVars, scratch, result, moves, crashes, artifact>>
  BY OneDatabase DEF BeginImport, Dest, Goto
<1>2. IInv /\ FreshInv /\ AtRest
  BY <1>1, NoCallNoImport
<1> DEFINE c == [NoCall EXCEPT !.key = head, !.config = cfg, !.path = 0]
<1>3. c \in CallType /\ c.key = head /\ c.path = 0 /\ ~ c.detached
  BY <1>2, NoCallTyped, OneDatabase DEF NoCall, CallType, IInv, TypeOK, RepoTypeOK
<1>4. call'[p] = c /\ pc'[p] = "import" /\ seen'[p] = {tree}
  BY <1>1, <1>2 DEF IInv, TypeOK
<1> HIDE DEF c
<1>5. Typed'
  <2>1. call' = [call EXCEPT ![p] = c]
    BY <1>1 DEF c
  <2> QED
    BY <1>1, <1>2, <1>3, <2>1 DEF IInv, TypeOK, RepoTypeOK, repoVars, diskVars, Typed, ImportLabel
<1>6. ASSUME CleanCallsOnly PROVE tree = history[head]
  <2>1. \A f \in Files : tree[f] = history[head][f]
    BY <1>1, <1>6 DEF Dirty
  <2> QED
    BY <1>2, <2>1 DEF IInv, TypeOK, RepoTypeOK, Tree
<1>7. AtRest'
  BY <1>1, <1>2, StillAtRest DEF repoVars, diskVars
<1>8. Arriving(p)'
  BY <1>1, <1>2, <1>3, <1>4, <1>6, <1>7 DEF Arriving, FreshInv, repoVars, diskVars
<1>9. ArtifactCopied'
  BY <1>1, ArtifactStays DEF ImportInv, repoVars
<1> QED
  BY <1>1, <1>4, <1>5, <1>8, <1>9, InsideImport DEF ImportLabel, diskVars

\* At a step of its own, the process that imports is the one there is.
LEMMA AtImport ==
    ASSUME ImportInv, Undisturbed, NEW p \in Procs, pc[p] \in ImportLabel
    PROVE  importing = {p} /\ ImportFresh(p) /\ Arriving(p) /\ metas[0] = NONE /\ Typed
<1>1. p \in importing /\ \A q \in importing : q = p
  BY DEF ImportInv, Undisturbed
<1> QED
  BY <1>1 DEF ImportInv, ImportFresh

LEMMA WriteImports ==
    ASSUME ImportInv, Undisturbed, NEW p \in Procs, WritePayload(p)
    PROVE  ImportInv'
<1>1. /\ pc[p] = "import" /\ dbs' = [dbs EXCEPT ![0] = artifact]
      /\ pc' = [pc EXCEPT ![p] = "import_fts"]
      /\ UNCHANGED <<repoVars, metas, call, scratch, result, seen, moves, crashes, artifactVars>>
  BY OneDatabase DEF WritePayload, At, Goto, Dest
<1>2. importing = {p} /\ Arriving(p) /\ metas[0] = NONE /\ Typed
  BY <1>1, AtImport DEF ImportLabel
<1>3. Copied(artifact)
  BY <1>1, <1>2 DEF Arriving, ImportInv, ArtifactCopied
<1>4. Typed'
  BY <1>1, <1>2, <1>3 DEF Typed, RepoTypeOK, repoVars, ImportLabel, Copied
<1>5. pc'[p] = "import_fts" /\ dbs'[0] = artifact /\ \A x \in Path \ {0} : dbs'[x] = NONE
  BY <1>1, <1>2, OneDatabase DEF Typed, Arriving
<1>6. Copied(dbs[0])'
  BY <1>1, <1>3, <1>5 DEF Copied, CopyOf, repoVars
<1>7. Arriving(p)'
  BY <1>1, <1>2, <1>5, <1>6 DEF Arriving, repoVars
<1>8. ArtifactCopied'
  BY <1>1, ArtifactStays DEF ImportInv, repoVars, artifactVars
<1> QED
  BY <1>1, <1>2, <1>4, <1>5, <1>7, <1>8, InsideImport DEF ImportLabel, artifactVars

LEMMA BuildImports ==
    ASSUME ImportInv, Undisturbed, NEW p \in Procs, BuildFts(p)
    PROVE  ImportInv'
<1> DEFINE st == Bm25Build(dbs[0])
<1>1. /\ pc[p] = "import_fts" /\ dbs' = [dbs EXCEPT ![0] = st]
      /\ pc' = [pc EXCEPT ![p] = "sync"]
      /\ UNCHANGED <<repoVars, metas, call, scratch, result, seen, moves, crashes, artifactVars>>
  BY OneDatabase DEF BuildFts, RebuildFts, At, Goto, Dest
<1>2. importing = {p} /\ Arriving(p) /\ metas[0] = NONE /\ Typed
  BY <1>1, AtImport DEF ImportLabel
<1>3. st \in StoreType /\ \E t \in Tree : SettledAs(st, t)
  BY <1>1, <1>2, BuiltSettles DEF Arriving
<1> HIDE DEF st
<1>4. Typed'
  BY <1>1, <1>2, <1>3 DEF Typed, RepoTypeOK, repoVars, ImportLabel
<1>5. pc'[p] = "sync" /\ dbs'[0] = st /\ \A x \in Path \ {0} : dbs'[x] = NONE
  BY <1>1, <1>2, OneDatabase DEF Typed, Arriving
<1>6. \E t \in Tree : SettledAs(dbs[0], t)'
  BY <1>1, <1>3, <1>5 DEF SettledAs, repoVars
<1>7. AtRest'
  BY <1>1, <1>2, <1>6 DEF AtRest
<1>8. Arriving(p)'
  BY <1>1, <1>2, <1>3, <1>5, <1>6, <1>7 DEF Arriving, repoVars
<1>9. ArtifactCopied'
  BY <1>1, ArtifactStays DEF ImportInv, repoVars, artifactVars
<1> QED
  BY <1>1, <1>2, <1>4, <1>5, <1>8, <1>9, InsideImport DEF ImportLabel, artifactVars

\* Change detection on an imported store leads from its snapshot to the tree.
LEMMA ImportedManifest ==
    ASSUME ImportInv, Undisturbed, NEW p \in Procs, pc[p] = "sync", NEW m \in SyncManifests
    PROVE  m \in ManifestType /\ \E t \in Tree : SettledAs(dbs[0], t) /\ Describes(m, t, tree)
<1>1. Arriving(p) /\ Typed
  BY AtImport DEF ImportLabel
<1>2. m \in WorkingTreeDeltas(dbs[0])
  BY OneDatabase DEF SyncManifests, Dest
<1>3. PICK t \in Tree : SettledAs(dbs[0], t)
  BY <1>1 DEF Arriving
<1>4. Describes(m, t, tree)
  BY <1>1, <1>2, <1>3, WorkingTreeDescribes DEF SettledAs, Typed, RepoTypeOK
<1>5. m \in ManifestType
  BY <1>2, DeltasTyped
<1> QED
  BY <1>3, <1>4, <1>5

LEMMA SyncCleanImports ==
    ASSUME ImportInv, Undisturbed, NEW p \in Procs, SyncClean(p)
    PROVE  ImportInv'
<1>1. /\ pc[p] = "sync" /\ NoChanges \in SyncManifests /\ pc' = [pc EXCEPT ![p] = "synced"]
      /\ UNCHANGED <<repoVars, diskVars, call, scratch, result, seen, moves, crashes, artifactVars>>
  BY DEF SyncClean, At, Goto
<1>2. importing = {p} /\ Arriving(p) /\ metas[0] = NONE /\ Typed
  BY <1>1, AtImport DEF ImportLabel
<1>3. Rows(dbs[0], tree)
  <2>1. PICK t \in Tree : SettledAs(dbs[0], t) /\ Describes(NoChanges, t, tree)
    BY <1>1, ImportedManifest
  <2>2. t = tree
    BY <1>2, <2>1, NothingDescribed DEF Typed, RepoTypeOK
  <2> QED
    BY <2>1, <2>2 DEF SettledAs
<1>4. Typed'
  BY <1>1, <1>2 DEF Typed, RepoTypeOK, repoVars, diskVars, ImportLabel
<1>5. pc'[p] = "synced" /\ UNCHANGED <<dbs, metas>>
  BY <1>1, <1>2 DEF Typed, diskVars
<1>6. AtRest'
  BY <1>1, <1>2, StillAtRest DEF Arriving, repoVars, diskVars
<1>7. Arriving(p)'
  BY <1>1, <1>2, <1>3, <1>5, <1>6 DEF Arriving, repoVars
<1>8. ArtifactCopied'
  BY <1>1, ArtifactStays DEF ImportInv, repoVars, artifactVars
<1> QED
  BY <1>1, <1>2, <1>4, <1>5, <1>7, <1>8, InsideImport DEF ImportLabel, artifactVars

\* The sync hands over to the steps of a call.
LEMMA SyncDeltaImports ==
    ASSUME ImportInv, Undisturbed, NEW p \in Procs, SyncDelta(p)
    PROVE  ImportInv'
<1>1. PICK m \in SyncManifests :
        /\ m # NoChanges
        /\ \/ pc' = [pc EXCEPT ![p] = "full"] /\ UNCHANGED call
           \/ /\ call' = [call EXCEPT ![p].manifest = m, ![p].renames = m.renamed,
                                      ![p].current = head, ![p].base = dbs[0].commit,
                                      ![p].rebuild = ~ HasData(dbs[0])]
              /\ pc' = [pc EXCEPT ![p] = "rename"]
  <2>1. Dest = 0
    BY OneDatabase DEF Dest
  <2>2. PICK m \in SyncManifests :
          /\ m # NoChanges
          /\ IF TooLarge(m)
             THEN Goto(p, "full") /\ UNCHANGED call
             ELSE /\ call' = [call EXCEPT ![p].manifest = m, ![p].renames = m.renamed,
                                          ![p].current = head, ![p].base = dbs[Dest].commit,
                                          ![p].rebuild = ~ HasData(dbs[Dest])]
                  /\ Goto(p, "rename")
    BY Zenon DEF SyncDelta
  <2> HIDE DEF Dest
  <2>3. CASE TooLarge(m)
    BY <2>2, <2>3, Zenon DEF Goto
  <2>4. CASE ~ TooLarge(m)
    <3>1. pc' = [pc EXCEPT ![p] = "rename"]
      BY <2>2, <2>4, Zenon DEF Goto
    <3>2. call' = [call EXCEPT ![p].manifest = m, ![p].renames = m.renamed,
                               ![p].current = head, ![p].base = dbs[0].commit,
                               ![p].rebuild = ~ HasData(dbs[0])]
      BY <2>1, <2>2, <2>4
    <3> QED
      BY <2>2, <3>1, <3>2, Zenon
  <2> QED
    BY <2>3, <2>4
<1>2. /\ pc[p] = "sync"
      /\ UNCHANGED <<repoVars, diskVars, scratch, result, seen, moves, crashes, artifactVars>>
  BY DEF SyncDelta, At
<1>3. importing = {p} /\ Arriving(p) /\ metas[0] = NONE /\ Typed
  BY <1>2, AtImport DEF ImportLabel
<1>4. PICK t \in Tree : SettledAs(dbs[0], t) /\ Describes(m, t, tree)
  BY <1>2, ImportedManifest
<1>5. m \in ManifestType /\ call[p] \in CallType /\ \A q \in Procs : q = p
  BY <1>2, <1>3, ImportedManifest DEF Typed, Undisturbed
<1>6. /\ tree' = tree /\ head' = head /\ history' = history
      /\ dbs' = dbs /\ metas' = metas /\ seen' = seen
  BY <1>2 DEF repoVars, diskVars
<1>7. AtRest'
  BY <1>2, <1>3, <1>6, StillAtRest DEF Arriving
<1>8. ArtifactCopied'
  BY <1>2, ArtifactStays DEF ImportInv, repoVars, artifactVars
<1>9. CASE pc' = [pc EXCEPT ![p] = "full"] /\ UNCHANGED call
  <2>1. pc'[p] = "full"
    BY <1>3, <1>9 DEF Typed
  <2>2. TypeOK'
    <3>1. pc' \in [Procs -> Label]
      BY <1>3, <1>5, <1>9 DEF Typed, Label
    <3> QED
      BY <1>2, <1>3, <1>9, <3>1 DEF TypeOK, Typed, RepoTypeOK, repoVars, diskVars
  <2>3. OpenHandles'
    BY <1>3, <1>5, <1>9, <2>1 DEF OpenHandles, Arriving, Typed, RepoTypeOK, DeltaOpen, FullOpen
  <2>4. CallFresh(p)'
    BY <1>3, <1>6, <1>9, <2>1 DEF CallFresh, Arriving, OnDatabase, Applying
  <2>5. FreshInv'
    BY <1>3, <1>6, <1>7, <2>4, OneCall DEF Arriving
  <2> QED
    BY <1>2, <1>3, <1>6, <1>8, <2>1, <2>2, <2>3, <2>5, InsideSync DEF IInv, Syncing, artifactVars
<1>10. CASE /\ call' = [call EXCEPT ![p].manifest = m, ![p].renames = m.renamed,
                                      ![p].current = head, ![p].base = dbs[0].commit,
                                      ![p].rebuild = ~ HasData(dbs[0])]
            /\ pc' = [pc EXCEPT ![p] = "rename"]
  <2> DEFINE c == call[p]
             d == [c EXCEPT !.manifest = m, !.renames = m.renamed, !.current = head,
                            !.base = dbs[0].commit, !.rebuild = ~ HasData(dbs[0])]
  <2>1. pc'[p] = "rename" /\ call' = [call EXCEPT ![p] = d] /\ call'[p] = d
    BY <1>3, <1>10 DEF Typed
  <2>2. /\ d \in CallType
        /\ d.path = c.path /\ d.key = c.key /\ d.detached = c.detached
        /\ d.manifest = m /\ d.renames = m.renamed /\ d.current = head
        /\ d.base = dbs[0].commit
    <3>1. /\ m.renamed \subseteq Files \X Files /\ head \in Commit /\ dbs[0].commit \in Commit
          /\ (~ HasData(dbs[0])) \in BOOLEAN
      BY <1>3, <1>4, <1>5 DEF ManifestType, SettledAs, Typed, RepoTypeOK
    <3> QED
      BY <1>5, <3>1 DEF CallType
  <2> HIDE DEF d
  <2>3. call'[p].path = 0 /\ call'[p].key = head /\ ~ call'[p].detached
    BY <1>2, <1>3, <2>1, <2>2 DEF Arriving
  <2>4. dbs[0] \in StoreType
    BY <1>2, <1>3 DEF Arriving
  <2>5. TypeOK'
    <3>1. pc' \in [Procs -> Label]
      BY <1>3, <1>5, <1>10 DEF Typed, Label, DeltaOpen
    <3> QED
      BY <1>2, <1>3, <2>1, <2>2, <3>1 DEF TypeOK, Typed, RepoTypeOK, repoVars, diskVars
  <2>6. OpenHandles'
    <3>1. Handle(p)' = dbs[0]
      BY <1>6, <2>3, OneDatabase DEF Handle, OwnFile
    <3> QED
      BY <1>3, <1>5, <2>1, <2>3, <2>4, <3>1 DEF OpenHandles, Typed, RepoTypeOK, DeltaOpen, FullOpen
  <2>7. Renaming(dbs[0], t, {})
    BY <1>4 DEF SettledAs, Rows, Renaming
  <2>8. Underway(p)'
    BY <1>4, <1>6, <2>1, <2>2, <2>7 DEF Underway
  <2>9. CallFresh(p)'
    BY <1>1, <1>3, <1>6, <2>1, <2>2, <2>3, <2>8
       DEF CallFresh, Arriving, OnDatabase, Applying, NothingToDo
  <2>10. FreshInv'
    BY <1>3, <1>6, <1>7, <2>9, OneCall DEF Arriving
  <2> QED
    BY <1>2, <1>3, <1>6, <1>8, <2>1, <2>5, <2>6, <2>10, InsideSync
       DEF IInv, Syncing, Applying, artifactVars
<1> QED
  BY <1>1, <1>9, <1>10

\* The steps an import shares with a call do to it what they do to a call.
LEMMA SyncStepImports ==
    ASSUME ImportInv, Undisturbed, NEW p \in Procs, SyncStep(p)
    PROVE  ImportInv'
<1>1. /\ p \in importing /\ (ApplyDelta(p) \/ FullIndex(p))
      /\ UNCHANGED <<repoVars, metas, artifactVars>>
  BY DEF SyncStep, ApplyDelta, FullIndex, RenamePath, DeleteRows, ForgetStates, ReadSources,
         RecordStates, SwapRows, UpdateBm25, SetCommit, FullRead, FullStates, FullCommit,
         FullSign, diskVars
<1>2. importing = {p} /\ \A q \in Procs : q = p
  BY <1>1 DEF ImportInv, Undisturbed
<1>3. pc[p] \in Syncing \ ImportLabel
  BY <1>1 DEF ApplyDelta, FullIndex, RenamePath, DeleteRows, ForgetStates, ReadSources,
              RecordStates, SwapRows, UpdateBm25, SetCommit, FullRead, FullStates, FullCommit,
              FullSign, At, Syncing, Applying, FullOpen, ImportLabel
<1>4. IInv /\ FreshInv /\ metas[0] = NONE
  BY <1>1, <1>2, <1>3 DEF ImportInv, ImportFresh
<1>5. IInv'
  BY <1>1, <1>4, StepTyped DEF Step, TryDelta
<1>6. FreshInv'
  BY <1>1, <1>4, RenameFresh, DeleteRowsFresh, ForgetFresh, ReadSourcesFresh, RecordStatesFresh,
     SwapRowsFresh, UpdateBm25Fresh, SetCommitFresh, FullFresh DEF ApplyDelta
<1>7. pc'[p] \in Syncing /\ (pc'[p] = "put_db" => FullSign(p))
  <2>1. CASE ApplyDelta(p)
    BY <1>3, <1>4, <2>1 DEF ApplyDelta, RenamePath, DeleteRows, ForgetStates, ReadSources,
       RecordStates, SwapRows, UpdateBm25, SetCommit, At, Goto, Syncing, Applying, FullOpen,
       IInv, TypeOK
  <2>2. CASE FullIndex(p)
    BY <1>3, <1>4, <2>2 DEF FullIndex, FullRead, FullStates, FullCommit, FullSign, At, Goto,
       Syncing, Applying, FullOpen, IInv, TypeOK
  <2> QED
    BY <1>1, <2>1, <2>2
<1>8. ASSUME pc'[p] = "put_db" PROVE call'[p].path = NONE
  BY <1>4, <1>7, <1>8 DEF FullSign, At, IInv, OpenHandles, FullOpen
<1>9. ArtifactCopied'
  BY <1>1, ArtifactStays DEF ImportInv, repoVars, artifactVars
<1> QED
  BY <1>1, <1>2, <1>4, <1>5, <1>6, <1>7, <1>8, <1>9, InsideSync DEF artifactVars

\* A delta and a full index both end with the database of the working tree.
LEMMA SyncEndsImports ==
    ASSUME ImportInv, Undisturbed, NEW p \in Procs, SyncApplied(p) \/ SyncReplaced(p)
    PROVE  ImportInv'
<1>1. /\ p \in importing /\ pc[p] \in {"sign", "put_db"} /\ pc' = [pc EXCEPT ![p] = "synced"]
      /\ UNCHANGED <<repoVars, metas, call, scratch, result, seen, moves, crashes, artifactVars>>
  BY DEF SyncApplied, SyncReplaced, At, Goto, diskVars
<1>2. importing = {p} /\ \A q \in Procs : q = p
  BY <1>1 DEF ImportInv, Undisturbed
<1>3. IInv /\ FreshInv /\ metas[0] = NONE /\ ImportFresh(p)
  BY <1>1, <1>2 DEF ImportInv, ImportFresh, ImportLabel
<1>4. CallFresh(p)
  BY <1>3 DEF FreshInv
<1> DEFINE st == Handle(p)
<1>5. /\ st \in StoreType /\ Rows(st, tree) /\ st.commit = head
      /\ dbs' = [dbs EXCEPT ![0] = st]
  <2>1. CASE SyncApplied(p)
    <3>1. pc[p] = "sign" /\ dbs' = dbs
      BY <2>1 DEF SyncApplied, At, diskVars
    <3>2. st = dbs[0] /\ st \in StoreType
      BY <1>3, <3>1, DeltaOnDatabase
    <3>3. dbs = [dbs EXCEPT ![0] = dbs[0]]
      BY <1>3 DEF IInv, TypeOK
    <3> HIDE DEF st
    <3> QED
      BY <1>4, <3>1, <3>2, <3>3 DEF CallFresh
  <2>2. CASE SyncReplaced(p)
    <3>1. pc[p] = "put_db" /\ dbs' = [dbs EXCEPT ![0] = scratch[p]]
      BY <2>2, OneDatabase DEF SyncReplaced, At, Dest
    <3>2. st = scratch[p] /\ st \in StoreType
      BY <1>3, <3>1 DEF ImportFresh, Handle, OwnFile, IInv, OpenHandles, DeltaOpen
    <3>3. Current(st)
      BY <1>4, <3>1 DEF CallFresh
    <3> HIDE DEF st
    <3> QED
      BY <3>1, <3>2, <3>3 DEF Current
  <2> QED
    BY <2>1, <2>2
<1> HIDE DEF st
<1>6. dbs'[0] = st /\ pc'[p] = "synced" /\ \A x \in Path \ {0} : dbs'[x] = NONE
  BY <1>1, <1>3, <1>5, OneDatabase DEF IInv, TypeOK, FreshInv
<1>7. Typed'
  BY <1>1, <1>3, <1>5 DEF IInv, TypeOK, Typed, RepoTypeOK, repoVars, ImportLabel
<1>8. /\ seen[p] = {tree} /\ call[p].key = head /\ ~ call[p].detached
      /\ CleanCallsOnly => tree = history[head]
      /\ tree \in Tree /\ head \in Commit /\ history[head] \in Tree
  BY <1>1, <1>3, <1>4 DEF CallFresh, IInv, TypeOK, RepoTypeOK
<1>9. Rows(dbs[0], tree)'
  BY <1>1, <1>5, <1>6 DEF Rows, repoVars
<1>10. AtRest'
  <2>1. SettledAs(dbs[0], tree)'
    BY <1>1, <1>5, <1>6, <1>8, <1>9 DEF SettledAs, repoVars
  <2> QED
    BY <1>1, <1>3, <1>8, <2>1 DEF AtRest, repoVars
<1>11. Arriving(p)'
  BY <1>1, <1>6, <1>8, <1>9, <1>10 DEF Arriving, repoVars
<1>12. ArtifactCopied'
  BY <1>1, ArtifactStays DEF ImportInv, repoVars, artifactVars
<1> QED
  BY <1>1, <1>2, <1>3, <1>6, <1>7, <1>11, <1>12, InsideImport DEF ImportLabel, artifactVars

LEMMA FinishImports ==
    ASSUME ImportInv, Undisturbed, NEW p \in Procs, SyncFails(p) \/ EndImport(p)
    PROVE  ImportInv'
<1>1. pc[p] \in {"sync", "synced"} /\ Reset(p) /\ importing' = {} /\ UNCHANGED <<artifact, crashes>>
  BY DEF SyncFails, EndImport, Finish, At
<1>2. Arriving(p) /\ Typed
  BY <1>1, AtImport DEF ImportLabel
<1>3. \A q \in Procs : q = p
  BY DEF Undisturbed
<1>4. pc'[p] = "idle" /\ call'[p] = NoCall
  BY <1>1, <1>2 DEF Reset, Goto, Typed
<1>5. TypeOK'
  <2>1. pc' \in [Procs -> Label]
    BY <1>1, <1>2, <1>3 DEF Reset, Goto, Typed, Label
  <2>2. /\ call' \in [Procs -> CallType] /\ scratch' \in [Procs -> StoreType \cup {NONE}]
        /\ result' \in [Procs -> StoreType \cup {NONE}] /\ seen' \in [Procs -> SUBSET Tree]
    BY <1>1, <1>2, NoCallTyped DEF Reset, Typed
  <2> QED
    BY <1>1, <1>2, <2>1, <2>2 DEF Reset, TypeOK, Typed, RepoTypeOK, repoVars, diskVars
<1>6. OpenHandles'
  BY <1>3, <1>4 DEF OpenHandles, DeltaOpen, FullOpen, NoCall
<1>7. FreshInv'
  <2>1. AtRest'
    BY <1>1, <1>2, StillAtRest DEF Arriving, Reset, repoVars, diskVars
  <2>2. CallFresh(p)'
    BY <1>4 DEF CallFresh, OnDatabase, Applying
  <2> QED
    BY <1>1, <1>2, <2>1, <2>2, OneCall DEF Arriving, Reset, diskVars
<1>8. SignaturesTaken'
  BY <1>3, <1>4 DEF SignaturesTaken
<1>9. ArtifactCopied'
  BY <1>1, ArtifactStays DEF ImportInv, Reset, repoVars
<1> QED
  BY <1>1, <1>5, <1>6, <1>7, <1>8, <1>9, BetweenImports DEF IInv

LEMMA ImportInit ==
    ASSUME Undisturbed, ArtifactInit
    PROVE  ImportInv
<1>1. IInv /\ FreshInv /\ \A p \in Procs : pc[p] = "idle"
  BY InitTyped, FreshInit DEF ArtifactInit, Init
<1>2. Typed
  BY <1>1 DEF IInv, TypeOK, Typed
<1> QED
  BY <1>1, <1>2 DEF ArtifactInit, ImportInv, ArtifactCopied, SignaturesTaken, ImportLabel

LEMMA ImportNext ==
    ASSUME ImportInv, Undisturbed, ~ Reimport, [ArtifactNext]_allVars
    PROVE  ImportInv'
<1>1. CASE Ordinary(Next)
  BY <1>1, OrdinaryImports DEF Ordinary
<1>2. CASE ExportArtifact \/ ResetProject
  BY <1>2, ExportImports, ResetProjectImports
<1>3. ASSUME NEW p \in Procs, NEW cfg \in Configs, BeginImport(p, cfg)
      PROVE  ImportInv'
  BY <1>3, BeginImports
<1>4. ASSUME NEW p \in Procs, Import(p)
      PROVE  ImportInv'
  BY <1>4, WriteImports, BuildImports, SyncDeltaImports, SyncCleanImports, SyncStepImports,
     SyncEndsImports, FinishImports DEF Import
<1>5. CASE UNCHANGED allVars
  <2>1. CASE importing = {}
    BY <1>5, <2>1, OrdinaryImports DEF allVars
  <2>2. CASE importing # {}
    <3>1. PICK p \in Procs : importing = {p} /\ ImportFresh(p)
      BY <2>2 DEF ImportInv, Undisturbed
    <3>2. /\ UNCHANGED vars /\ UNCHANGED artifactVars
          /\ UNCHANGED <<tree, history, head, dbs, metas, pc, call, scratch, result, seen, moves,
                         crashes, artifact, importing>>
      BY <1>5 DEF allVars, vars, repoVars, diskVars, procVars, artifactVars
    <3>3. ArtifactCopied'
      BY <3>2, ArtifactStays DEF ImportInv
    <3>4. CASE pc[p] \in ImportLabel
      <4>1. Arriving(p) /\ metas[0] = NONE /\ Typed
        BY <3>1, <3>4 DEF ImportFresh, ImportInv
      <4>2. Typed'
        BY <3>2, <4>1 DEF Typed, RepoTypeOK
      <4>3. AtRest => AtRest'
        BY <3>2, StillAtRest
      <4>4. Arriving(p)'
        BY <3>2, <4>1, <4>3 DEF Arriving, Copied, CopyOf, SettledAs
      <4> QED
        BY <3>1, <3>2, <3>3, <3>4, <4>1, <4>2, <4>4, InsideImport
    <3>5. CASE pc[p] \notin ImportLabel
      <4>1. IInv /\ FreshInv /\ pc[p] \in Syncing /\ metas[0] = NONE
            /\ (pc[p] = "put_db" => call[p].path = NONE)
        BY <3>1, <3>5 DEF ImportFresh, ImportInv, Undisturbed
      <4>2. IInv'
        BY <3>2, <4>1, NextTyped
      <4>3. FreshInv'
        BY <3>2, <4>1, FreshStutter
      <4> QED
        BY <3>1, <3>2, <3>3, <4>1, <4>2, <4>3, InsideSync
    <3> QED
      BY <3>4, <3>5
  <2> QED
    BY <2>1, <2>2
<1> QED
  BY <1>1, <1>2, <1>3, <1>4, <1>5 DEF ArtifactNext

LEMMA ImportsAlways ==
    ASSUME Undisturbed, ~ Reimport
    PROVE  ArtifactSpec => []ImportInv
<1>1. ArtifactInit => ImportInv
  BY ImportInit
<1>2. ImportInv /\ [ArtifactNext]_allVars => ImportInv'
  BY ImportNext
<1> QED
  BY <1>1, <1>2, PTL DEF ArtifactSpec

---------------------------------------------------------------------------
(* What an import leaves, and what calls answer before and after it.       *)

\* A project started from an artifact has the index of its own working tree once
\* the sync is through, wherever and over whatever the artifact was exported.
THEOREM ImportServesTheTree ==
    ASSUME Undisturbed, ~ Reimport
    PROVE  ArtifactSpec => []SyncedIsTheTree
<1>1. ImportInv => SyncedIsTheTree
  <2> SUFFICES ASSUME ImportInv, NEW p \in importing, pc[p] = "synced"
               PROVE  Serves(dbs[0], tree)
    BY OneDatabase DEF SyncedIsTheTree, Dest
  <2>1. p \in Procs /\ ImportFresh(p) /\ tree \in Tree
    BY DEF ImportInv, Typed, RepoTypeOK
  <2>2. Rows(dbs[0], tree)
    BY <2>1 DEF ImportFresh, ImportLabel, Arriving
  <2> QED
    BY <2>1, <2>2, RowsServe
<1> QED
  BY <1>1, ImportsAlways, PTL

\* At every moment there is an import at one of its own steps, or a call.
LEMMA ImportOrCall ==
    ASSUME ImportInv, Undisturbed
    PROVE  \/ IInv /\ FreshInv
           \/ \E p \in Procs :
                /\ Procs = {p} /\ tree \in Tree
                /\ pc[p] \in ImportLabel /\ Arriving(p)
<1>1. PICK p \in Procs : Procs = {p}
  BY DEF Undisturbed
<1>2. CASE pc[p] \in ImportLabel
  BY <1>1, <1>2, AtImport DEF Typed, RepoTypeOK
<1>3. CASE pc[p] \notin ImportLabel
  BY <1>1, <1>3 DEF ImportInv
<1> QED
  BY <1>2, <1>3

\* A call that finds an imported database answers from the working tree of its
\* own time, not from the one the artifact was exported over.
THEOREM AnswersAfterImport ==
    ASSUME Undisturbed, ~ Reimport
    PROVE  ArtifactSpec => []ReturnedIsFresh
<1>1. ImportInv => ReturnedIsFresh
  BY ImportOrCall, FreshReturned DEF ReturnedIsFresh, ImportLabel
<1> QED
  BY <1>1, ImportsAlways, PTL

\* Nor does it answer with an import edge that the tree does not have.
THEOREM EdgesAfterImport ==
    ASSUME Undisturbed, ~ Reimport
    PROVE  ArtifactSpec => []NoInventedEdges
<1>1. ImportInv => NoInventedEdges
  BY ImportOrCall, FreshEdges DEF NoInventedEdges, ImportLabel
<1> QED
  BY <1>1, ImportsAlways, PTL

\* A delta that starts from imported states misses no change of the tree.
THEOREM NothingIsMissedAfterImport ==
    ASSUME Undisturbed, ~ Reimport
    PROVE  ArtifactSpec => []HashConfirmed
<1>1. ImportInv => HashConfirmed
  BY ImportOrCall, FreshConfirmed DEF HashConfirmed, ImportLabel
<1> QED
  BY <1>1, ImportsAlways, PTL

\* No meta key vouches for an imported database until a call has put one there.
THEOREM HitsAfterImport ==
    ASSUME Undisturbed, ~ Reimport
    PROVE  ArtifactSpec => []HitIsOfCommit
<1>1. ImportInv => HitIsOfCommit
  BY ImportOrCall, FreshHits DEF HitIsOfCommit, Idle, ImportLabel
<1> QED
  BY <1>1, ImportsAlways, PTL

\* The payload replaces the rows of a database whole: none holds two versions
\* of a file, neither while the artifact is written nor while it is synced.
THEOREM VersionsAfterImport ==
    ASSUME Undisturbed, ~ Reimport
    PROVE  ArtifactSpec => []OneVersionPerFile
<1>1. ASSUME NEW p \in Procs, pc[p] \in ImportLabel, Arriving(p)
      PROVE  OneVersionPerFile
  <2> SUFFICES ASSUME NEW x \in Path, dbs[x] # NONE, NEW f \in Files
               PROVE  Cardinality(dbs[x].chunks[f]) <= 1
    BY DEF OneVersionPerFile
  <2>1. x = 0
    BY <1>1 DEF Arriving
  <2>2. dbs[0] # NONE => \E t \in Tree : dbs[0].chunks = [g \in Files |-> ChunksOf(t, g)]
    BY <1>1 DEF Arriving, Copied, CopyOf, AtRest, SettledAs, Rows
  <2>3. PICK t \in Tree : dbs[x].chunks[f] = ChunksOf(t, f)
    BY <2>1, <2>2
  <2> QED
    BY <2>3, OneVersionOf
<1>2. ImportInv => OneVersionPerFile
  BY <1>1, ImportOrCall, FreshVersions
<1> QED
  BY <1>2, ImportsAlways, PTL

\* An import that is not killed is whole before the next call begins: every
\* chunk in the project's database has its full-text row.
THEOREM ImportsAreWhole ==
    ASSUME Undisturbed, ~ Reimport
    PROVE  ArtifactSpec => []NeverPartial
<1>1. ImportInv => NeverPartial
  <2> SUFFICES ASSUME ImportInv, Idle, dbs[0] # NONE, NEW i \in AllChunks(dbs[0])
               PROVE  dbs[0].fts[i] > 0
    BY OneDatabase DEF NeverPartial, Dest
  <2>1. PICK t \in Tree : Rows(dbs[0], t)
    BY NoCallNoImport DEF AtRest, SettledAs
  <2>2. PICK f \in Files : i \in ChunksOf(t, f)
    BY <2>1 DEF AllChunks, Rows
  <2>3. i \in Ids(t)
    BY <2>2 DEF ChunksOf, Ids, ChunkId, Tree
  <2> QED
    BY <2>1, <2>3 DEF Rows, Ids
<1> QED
  BY <1>1, ImportsAlways, PTL

---------------------------------------------------------------------------
(* The configuration, and the abstract specification.                      *)

\* The configuration of an artifact is whatever it was exported under; the first
\* call for another one does not answer from it.
THEOREM ConfigAfterImport ==
    ASSUME Undisturbed, ~ Reimport
    PROVE  ArtifactSpec => []AnswersUnderItsConfig
<1> DEFINE Honoured == importing = {} => UnderConfig
<1>1. ArtifactInit => Honoured
  BY DEF ArtifactInit, Init, UnderConfig, DeltaOpen
<1>2. ImportInv /\ Honoured /\ [ArtifactNext]_allVars => Honoured'
  <2> SUFFICES ASSUME ImportInv, Honoured, [ArtifactNext]_allVars, importing' = {}
               PROVE  UnderConfig'
    OBVIOUS
  <2>1. ASSUME importing = {}, [Next]_vars
        PROVE  UnderConfig'
    BY <2>1, ConfigNext DEF ImportInv, Undisturbed, SoleCaller
  <2>2. ASSUME \A p \in Procs : pc'[p] = "idle"
        PROVE  UnderConfig'
    BY <2>2 DEF UnderConfig, DeltaOpen
  <2>3. CASE Ordinary(Next) \/ UNCHANGED allVars
    BY <2>1, <2>3 DEF Ordinary, allVars, artifactVars
  <2>4. CASE ExportArtifact \/ ResetProject
    BY <2>2, <2>4 DEF ExportArtifact, ResetProject, Idle, vars, procVars
  <2>5. ASSUME NEW p \in Procs, (\E cfg \in Configs : BeginImport(p, cfg)) \/ Import(p)
        PROVE  UnderConfig'
    <3>1. SyncFails(p) \/ EndImport(p)
      <4>1. \A cfg : ~ BeginImport(p, cfg)
        BY DEF BeginImport
      <4>2. CASE WritePayload(p) \/ BuildFts(p) \/ SyncDelta(p) \/ SyncClean(p)
        <5>1. pc[p] \in ImportLabel /\ importing' = importing
          BY <4>2 DEF WritePayload, BuildFts, SyncDelta, SyncClean, At, ImportLabel, artifactVars
        <5> QED
          BY <5>1 DEF ImportInv
      <4>3. CASE SyncStep(p) \/ SyncApplied(p) \/ SyncReplaced(p)
        BY <4>3 DEF SyncStep, SyncApplied, SyncReplaced, artifactVars
      <4> QED
        BY <2>5, <4>1, <4>2, <4>3 DEF Import
    <3>2. Reset(p) /\ DOMAIN pc = Procs
      BY <3>1 DEF SyncFails, EndImport, Finish, ImportInv, Typed
    <3> QED
      BY <2>2, <3>2 DEF Reset, Goto, Undisturbed
  <2> QED
    BY <2>3, <2>4, <2>5 DEF ArtifactNext
<1>3. ImportInv /\ Honoured => AnswersUnderItsConfig
  <2> SUFFICES ASSUME ImportInv, Honoured, NEW p \in Procs, pc[p] = "done"
               PROVE  result[p].config = call[p].config
    BY DEF AnswersUnderItsConfig
  <2>1. p \notin importing /\ importing = {}
    BY DEF ImportInv, ImportFresh, ImportLabel, Syncing, Applying, FullOpen, Undisturbed
  <2> QED
    BY <2>1 DEF UnderConfig
<1> HIDE DEF Honoured
<1> QED
  BY <1>1, <1>2, <1>3, ImportsAlways, PTL DEF ArtifactSpec

LEMMA ImportRefines ==
    ASSUME ImportInv, ImportInv', Undisturbed, [ArtifactNext]_allVars
    PROVE  [Fresh!Next]_Fresh!vars
<1>1. DOMAIN pc = Procs /\ DOMAIN result = Procs
  BY DEF ImportInv, Typed
<1>2. ASSUME importing = {}, [Next]_vars, UNCHANGED artifactVars
      PROVE  [Fresh!Next]_Fresh!vars
  <2>1. IInv /\ FreshInv
    BY <1>2 DEF ImportInv
  <2>2. FreshInv'
    BY <1>2, <2>1, FreshNext DEF ImportInv
  <2> QED
    BY <1>2, <2>1, <2>2, NextRefines
<1>3. ASSUME UNCHANGED <<tree, seen, pc, result>>
      PROVE  UNCHANGED Fresh!vars
  BY <1>3, FreshVarsKept DEF Phases, Answers
<1>4. CASE Ordinary(Next)
  BY <1>2, <1>4 DEF Ordinary
<1>5. CASE ExportArtifact \/ ResetProject \/ UNCHANGED allVars
  BY <1>3, <1>5 DEF ExportArtifact, ResetProject, allVars, vars, repoVars, procVars
<1>6. ASSUME NEW p \in Procs, NEW cfg \in Configs, BeginImport(p, cfg)
      PROVE  Fresh!Next
  <2>1. /\ pc[p] = "idle" /\ pc'[p] = "import" /\ \A q \in Procs : q # p => pc'[q] = pc[q]
        /\ UNCHANGED <<tree, result>> /\ seen' = [seen EXCEPT ![p] = {tree}]
    BY <1>1, <1>6 DEF BeginImport, Idle, Goto, repoVars
  <2> QED
    BY <2>1, CallBegins DEF Fresh!Next
<1>7. ASSUME NEW p \in Procs, SyncFails(p) \/ EndImport(p)
      PROVE  Fresh!Next
  <2>1. pc[p] # "idle" /\ Reset(p)
    BY <1>7 DEF SyncFails, EndImport, Finish, At
  <2> QED
    BY <1>1, <2>1, ResetEnds DEF Fresh!Next
<1>8. ASSUME NEW p \in Procs,
             \/ WritePayload(p) \/ BuildFts(p) \/ SyncDelta(p) \/ SyncClean(p)
             \/ SyncApplied(p) \/ SyncReplaced(p) \/ SyncStep(p)
      PROVE  UNCHANGED Fresh!vars
  <2>1. UNCHANGED <<tree, seen, result>> /\ pc[p] \notin {"idle", "done"}
        /\ \E label : label \notin {"idle", "done"} /\ pc' = [pc EXCEPT ![p] = label]
    <3>1. CASE WritePayload(p) \/ BuildFts(p) \/ SyncClean(p) \/ SyncApplied(p) \/ SyncReplaced(p)
      BY <3>1 DEF WritePayload, BuildFts, SyncClean, SyncApplied, SyncReplaced, At, Goto, repoVars
    <3>2. CASE SyncDelta(p)
      BY <3>2 DEF SyncDelta, At, Goto, repoVars
    <3>3. CASE SyncStep(p) /\ ~ RenamePath(p)
      BY <3>3 DEF SyncStep, ApplyDelta, FullIndex, DeleteRows, ForgetStates, ReadSources,
         RecordStates, SwapRows, UpdateBm25, SetCommit, FullRead, FullStates, FullCommit,
         FullSign, At, Goto, repoVars
    <3>4. CASE RenamePath(p)
      <4>1. pc[p] = "rename" /\ pc' = pc /\ UNCHANGED <<tree, seen, result>>
        BY <3>4 DEF RenamePath, At, repoVars
      <4>2. pc = [pc EXCEPT ![p] = "rename"]
        BY <4>1 DEF ImportInv, Typed
      <4> QED
        BY <4>1, <4>2
    <3> QED
      BY <1>8, <3>1, <3>2, <3>3, <3>4
  <2> QED
    BY <1>1, <2>1, WorkingStutters
<1> QED
  BY <1>4, <1>5, <1>6, <1>7, <1>8 DEF ArtifactNext, Import

\* With imports among the calls, the callers still see nothing that FreshIndex
\* would not show them: an import is a call that ends without an answer.
THEOREM ImportsImplementFreshIndex ==
    ASSUME Undisturbed, ~ Reimport
    PROVE  ArtifactSpec => Fresh!Init /\ [][Fresh!Next]_Fresh!vars
<1>1. ArtifactInit => Fresh!Init
  <2> SUFFICES ASSUME ArtifactInit PROVE Fresh!Init
    OBVIOUS
  <2>1. Phases = [q \in Procs |-> "idle"] /\ Answers = [q \in Procs |-> NONE]
    BY DEF ArtifactInit, Init, Phases, Answers, PhaseOf
  <2> QED
    BY <2>1, FreshVarsAre DEF ArtifactInit, Init, RepoInit
<1>2. ImportInv /\ ImportInv' /\ [ArtifactNext]_allVars => [Fresh!Next]_Fresh!vars
  BY ImportRefines
<1> QED
  BY <1>1, <1>2, ImportsAlways, PTL DEF ArtifactSpec

=============================================================================
