------------------------- MODULE EnsureIndexProofs -------------------------
(***************************************************************************)
(* Theorems about EnsureIndex, for any number of files, contents, commits, *)
(* callers and configurations and for either layout of the cache.          *)
(***************************************************************************)
EXTENDS EnsureIndex, FiniteSetTheorems, TLAPS

---------------------------------------------------------------------------
(* Every transaction of the store maps stores to stores.                   *)

LEMMA ChunksTyped ==
    ASSUME NEW t \in Tree, NEW f \in Files
    PROVE  ChunksOf(t, f) \subseteq ChunkId
BY DEF Tree, ChunksOf, ChunkId

LEMMA EdgesTyped ==
    ASSUME NEW t \in Tree, NEW f \in Files, NEW discovered \in SUBSET Files
    PROVE  EdgesOf(t, f, discovered) \subseteq Files \X Files
BY DEF EdgesOf

LEMMA EmptyStoreTyped == EmptyStore \in StoreType
BY StoreAssumption DEF EmptyStore, StoreType

LEMMA DeleteChunksTyped ==
    ASSUME NEW st \in StoreType, NEW paths
    PROVE  DeleteChunksForFiles(st, paths) \in StoreType
<1> DEFINE gone   == UNION {st.chunks[f] : f \in paths}
           chunks == [f \in Files |-> IF f \in paths THEN {} ELSE st.chunks[f]]
           fts    == [i \in ChunkId |-> IF i \in gone THEN 0 ELSE st.fts[i]]
<1>1. DeleteChunksForFiles(st, paths) = [st EXCEPT !.chunks = chunks, !.fts = fts]
  BY DEF DeleteChunksForFiles
<1>2. chunks \in [Files -> SUBSET ChunkId]
  BY DEF StoreType
<1>3. fts \in [ChunkId -> 0..MaxRows]
  BY StoreAssumption DEF StoreType
<1> HIDE DEF chunks, fts
<1> QED
  BY <1>1, <1>2, <1>3 DEF StoreType

LEMMA DeleteEdgesTyped ==
    ASSUME NEW st \in StoreType, NEW paths
    PROVE  DeleteEdgesForFiles(st, paths) \in StoreType
BY DEF DeleteEdgesForFiles, StoreType

LEMMA DeleteStatesTyped ==
    ASSUME NEW st \in StoreType, NEW paths
    PROVE  DeleteFileStates(st, paths) \in StoreType
BY DEF DeleteFileStates, StoreType

LEMMA UpsertStatesTyped ==
    ASSUME NEW st \in StoreType, NEW paths, NEW t \in Tree
    PROVE  UpsertFileStates(st, paths, t) \in StoreType
BY DEF UpsertFileStates, StoreType, Tree

LEMMA UpdatePathsTyped ==
    ASSUME NEW st \in StoreType, NEW r \in Files \X Files
    PROVE  UpdateFilePaths(st, r) \in StoreType
<1> DEFINE To(f)  == IF f = r[1] THEN r[2] ELSE f
           chunks == [f \in Files |-> UNION {st.chunks[o] : o \in {x \in Files : To(x) = f}}]
           states == [f \in Files |->
                        IF f = r[1] THEN NONE
                        ELSE IF f = r[2] /\ st.states[r[1]] # NONE THEN st.states[r[1]]
                        ELSE st.states[f]]
           edges  == {<<To(e[1]), To(e[2])>> : e \in st.edges}
<1>1. UpdateFilePaths(st, r) =
        [st EXCEPT !.chunks = chunks, !.states = states, !.edges = edges]
  BY DEF UpdateFilePaths
<1>2. chunks \in [Files -> SUBSET ChunkId]
  BY DEF StoreType
<1>3. states \in [Files -> Contents \cup {NONE}]
  BY DEF StoreType
<1>4. edges \subseteq Files \X Files
  BY DEF StoreType
<1> HIDE DEF chunks, states, edges
<1> QED
  BY <1>1, <1>2, <1>3, <1>4 DEF StoreType

LEMMA SwapTyped ==
    ASSUME NEW st \in StoreType, NEW paths, NEW sources \in SUBSET Files,
           NEW read \in Tree, NEW discovered \in SUBSET Files
    PROVE  DeleteAndInsertForFiles(st, paths, sources, read, discovered) \in StoreType
<1> DEFINE cut    == DeleteEdgesForFiles(DeleteChunksForFiles(st, paths), paths)
           new    == UNION {ChunksOf(read, f) : f \in sources}
           chunks == [f \in Files |-> (cut.chunks[f] \ new) \cup {i \in new : i[1] = f}]
           edges  == cut.edges \cup UNION {EdgesOf(read, f, discovered) : f \in sources}
<1>1. DeleteAndInsertForFiles(st, paths, sources, read, discovered) =
        [cut EXCEPT !.chunks = chunks, !.edges = edges]
  BY DEF DeleteAndInsertForFiles
<1>2. cut \in StoreType
  BY DeleteChunksTyped, DeleteEdgesTyped
<1>3. new \subseteq ChunkId
  BY ChunksTyped
<1> HIDE DEF cut, new
<1>4. chunks \in [Files -> SUBSET ChunkId]
  BY <1>2, <1>3 DEF StoreType
<1>5. edges \subseteq Files \X Files
  BY <1>2, EdgesTyped DEF StoreType
<1> HIDE DEF chunks, edges
<1> QED
  BY <1>1, <1>2, <1>4, <1>5 DEF StoreType

LEMMA BuildTyped ==
    ASSUME NEW st \in StoreType
    PROVE  Bm25Build(st) \in StoreType
BY StoreAssumption DEF Bm25Build, StoreType

LEMMA UpdateBm25Typed ==
    ASSUME NEW st \in StoreType, NEW sources, NEW read
    PROVE  Bm25Update(st, sources, read) \in StoreType
BY StoreAssumption DEF Bm25Update, InsertRow, StoreType

LEMMA GenerationTyped ==
    ASSUME NEW st \in StoreType, NEW cfg \in Configs \cup {NONE}
    PROVE  FinalizeGenerationId(st, cfg) \in StoreType
<1>1. FileCount(st) \in Nat
  <2>1. IsFiniteSet({f \in Files : st.chunks[f] # {}})
    BY FS_Subset, StoreAssumption
  <2> QED
    BY <2>1, FS_CardinalityType DEF FileCount
<1>2. ChunkCount(st) \in Nat
  <2>1. IsFiniteSet(ChunkId)
    BY FS_Product, StoreAssumption DEF ChunkId
  <2>2. AllChunks(st) \subseteq ChunkId
    BY DEF AllChunks, StoreType
  <2> QED
    BY <2>1, <2>2, FS_Subset, FS_CardinalityType DEF ChunkCount
<1> DEFINE id == ComputeGenerationId(st, cfg)
<1>3. id \in [commit : Commit \cup {NONE}, signature : SignatureType \cup {NONE},
              files : Nat, chunks : Nat, config : Configs \cup {NONE}]
  BY <1>1, <1>2 DEF ComputeGenerationId, StoreType
<1> HIDE DEF id
<1>4. FinalizeGenerationId(st, cfg) = [st EXCEPT !.generation = id]
  BY DEF FinalizeGenerationId, id
<1> QED
  BY <1>3, <1>4 DEF StoreType

LEMMA FullRowsTyped ==
    ASSUME NEW t \in Tree
    PROVE  FullRows(t) \in StoreType
<1> DEFINE chunks == [f \in Files |-> ChunksOf(t, f)]
           edges  == UNION {EdgesOf(t, f, Present(t)) : f \in Files}
           rows   == [EmptyStore EXCEPT !.chunks = chunks, !.edges = edges]
<1>1. chunks \in [Files -> SUBSET ChunkId]
  BY ChunksTyped
<1>2. edges \subseteq Files \X Files
  BY EdgesTyped, ZenonT(60) DEF Present
<1> HIDE DEF chunks, edges
<1>3. rows \in StoreType
  BY <1>1, <1>2, EmptyStoreTyped DEF StoreType
<1>4. FullRows(t) = Bm25Build(rows)
  BY DEF FullRows, chunks, edges
<1> HIDE DEF rows
<1> QED
  BY <1>3, <1>4, BuildTyped

---------------------------------------------------------------------------
(* The inductive invariant: a step that writes has a store open.           *)

FullOpen == {"full_states", "full_commit", "full_sign"}

OpenHandles ==
    \A p \in Procs :
        /\ pc[p] \in DeltaOpen \cup FullOpen => Handle(p) \in StoreType
        /\ pc[p] \in FullOpen => call[p].path = NONE
        /\ pc[p] = "manifest" => call[p].path \in Path
        /\ pc[p] \notin DeltaOpen \cup {"done"} => ~ call[p].detached
        /\ pc[p] # "idle" => call[p].key \in Commit

IInv == TypeOK /\ OpenHandles

\* Steps of a call that leave the cache directory and the open stores alone.
LEMMA ReadingStep ==
    ASSUME IInv, NEW p \in Procs, NEW label \in Label, NEW c \in CallType,
           call' = [call EXCEPT ![p] = c], pc' = [pc EXCEPT ![p] = label],
           label \notin DeltaOpen \cup FullOpen,
           label = "manifest" => c.path \in Path,
           label # "done" => ~ c.detached,
           label # "idle" => c.key \in Commit,
           result' \in [Procs -> StoreType \cup {NONE}],
           seen' \in [Procs -> SUBSET Tree],
           UNCHANGED <<repoVars, diskVars, scratch, moves, crashes>>
    PROVE  IInv'
<1>1. TypeOK'
  BY DEF IInv, TypeOK, RepoTypeOK, repoVars, diskVars
<1>2. OpenHandles'
  <2> SUFFICES ASSUME NEW q \in Procs
               PROVE  /\ pc'[q] \in DeltaOpen \cup FullOpen => Handle(q)' \in StoreType
                      /\ pc'[q] \in FullOpen => call'[q].path = NONE
                      /\ pc'[q] = "manifest" => call'[q].path \in Path
                      /\ pc'[q] \notin DeltaOpen \cup {"done"} => ~ call'[q].detached
                      /\ pc'[q] # "idle" => call'[q].key \in Commit
    BY DEF OpenHandles
  <2>1. CASE q = p
    BY <2>1 DEF IInv, TypeOK
  <2>2. CASE q # p
    BY <2>2 DEF IInv, TypeOK, OpenHandles, Handle, OwnFile, diskVars
  <2> QED
    BY <2>1, <2>2
<1> QED
  BY <1>1, <1>2 DEF IInv

\* A transaction of a delta on the store it has open.
LEMMA WritingStep ==
    ASSUME IInv, NEW p \in Procs, pc[p] \in DeltaOpen, NEW st \in StoreType,
           Write(p, st), NEW label \in DeltaOpen \cup {"done"},
           pc' = [pc EXCEPT ![p] = label], result' \in [Procs -> StoreType \cup {NONE}],
           UNCHANGED <<repoVars, metas, call, seen, moves, crashes>>
    PROVE  IInv'
<1>1. TypeOK'
  <2>1. dbs' \in [Path -> StoreType \cup {NONE}] /\ scratch' \in [Procs -> StoreType \cup {NONE}]
    BY DEF IInv, TypeOK, Write
  <2>2. pc' \in [Procs -> Label]
    BY DEF IInv, TypeOK, Label
  <2> QED
    BY <2>1, <2>2 DEF IInv, TypeOK, RepoTypeOK, repoVars
<1>2. OpenHandles'
  <2> SUFFICES ASSUME NEW q \in Procs
               PROVE  /\ pc'[q] \in DeltaOpen \cup FullOpen => Handle(q)' \in StoreType
                      /\ pc'[q] \in FullOpen => call'[q].path = NONE
                      /\ pc'[q] = "manifest" => call'[q].path \in Path
                      /\ pc'[q] \notin DeltaOpen \cup {"done"} => ~ call'[q].detached
                      /\ pc'[q] # "idle" => call'[q].key \in Commit
    BY DEF OpenHandles
  <2>1. CASE q = p
    BY <2>1 DEF IInv, TypeOK, OpenHandles, Handle, OwnFile, Write, CallType, DeltaOpen, FullOpen
  <2>2. CASE q # p
    BY <2>2 DEF IInv, TypeOK, OpenHandles, Handle, OwnFile, Write, CallType
  <2> QED
    BY <2>1, <2>2
<1> QED
  BY <1>1, <1>2 DEF IInv

\* A step of a full index on its scratch database.
LEMMA ScratchStep ==
    ASSUME IInv, NEW p \in Procs, NEW st \in StoreType, NEW c \in CallType,
           NEW label \in FullOpen \cup {"put_db"},
           scratch' = [scratch EXCEPT ![p] = st], call' = [call EXCEPT ![p] = c],
           pc' = [pc EXCEPT ![p] = label], c.path = NONE, ~ c.detached,
           c.key \in Commit,
           UNCHANGED <<repoVars, diskVars, result, seen, moves, crashes>>
    PROVE  IInv'
<1>1. TypeOK'
  <2>1. label \in Label
    BY DEF FullOpen, Label, DeltaOpen
  <2> QED
    BY <2>1 DEF IInv, TypeOK, RepoTypeOK, repoVars, diskVars
<1>2. OpenHandles'
  <2> SUFFICES ASSUME NEW q \in Procs
               PROVE  /\ pc'[q] \in DeltaOpen \cup FullOpen => Handle(q)' \in StoreType
                      /\ pc'[q] \in FullOpen => call'[q].path = NONE
                      /\ pc'[q] = "manifest" => call'[q].path \in Path
                      /\ pc'[q] \notin DeltaOpen \cup {"done"} => ~ call'[q].detached
                      /\ pc'[q] # "idle" => call'[q].key \in Commit
    BY DEF OpenHandles
  <2>1. CASE q = p
    BY <2>1 DEF IInv, TypeOK, Handle, OwnFile, FullOpen, DeltaOpen
  <2>2. CASE q # p
    BY <2>2 DEF IInv, TypeOK, OpenHandles, Handle, OwnFile, diskVars
  <2> QED
    BY <2>1, <2>2
<1> QED
  BY <1>1, <1>2 DEF IInv

\* Database files are replaced or unlinked under the calls that have them open.
LEMMA DetachingStep ==
    ASSUME IInv, NEW p \in Procs, NEW paths \in SUBSET Path, NEW label \in Label,
           dbs' \in [Path -> StoreType \cup {NONE}],
           \A x \in Path \ paths : dbs'[x] = dbs[x],
           metas' \in [Path -> Commit \cup {NONE}],
           Detach(p, paths), pc' = [pc EXCEPT ![p] = label],
           label \in DeltaOpen => Handle(p)' \in StoreType,
           label \notin FullOpen \cup {"manifest"},
           label \notin DeltaOpen \cup {"done"} => ~ call[p].detached,
           call[p].key \in Commit,
           result' \in [Procs -> StoreType \cup {NONE}],
           UNCHANGED <<repoVars, seen, moves, crashes>>
    PROVE  IInv'
<1>1. call' \in [Procs -> CallType]
  <2> SUFFICES ASSUME NEW q \in Procs PROVE call'[q] \in CallType
    BY DEF Detach
  <2>1. call'[q] = call[q] \/ call'[q] = [call[q] EXCEPT !.detached = TRUE]
    BY DEF Detach
  <2>2. call[q] \in CallType
    BY DEF IInv, TypeOK
  <2>3. [call[q] EXCEPT !.detached = TRUE] \in CallType
    BY <2>2 DEF CallType
  <2> QED
    BY <2>1, <2>2, <2>3
<1>2. scratch' \in [Procs -> StoreType \cup {NONE}]
  <2> SUFFICES ASSUME NEW q \in Procs PROVE scratch'[q] \in StoreType \cup {NONE}
    BY DEF Detach
  <2> QED
    BY DEF IInv, TypeOK, Detach, OwnFile, CallType
<1>3. TypeOK'
  BY <1>1, <1>2 DEF IInv, TypeOK, RepoTypeOK, repoVars
<1>4. OpenHandles'
  <2> SUFFICES ASSUME NEW q \in Procs
               PROVE  /\ pc'[q] \in DeltaOpen \cup FullOpen => Handle(q)' \in StoreType
                      /\ pc'[q] \in FullOpen => call'[q].path = NONE
                      /\ pc'[q] = "manifest" => call'[q].path \in Path
                      /\ pc'[q] \notin DeltaOpen \cup {"done"} => ~ call'[q].detached
                      /\ pc'[q] # "idle" => call'[q].key \in Commit
    BY DEF OpenHandles
  <2>1. CASE q = p
    BY <2>1 DEF IInv, TypeOK, Detach
  <2> DEFINE Loses == /\ q # p /\ pc[q] \in DeltaOpen
                      /\ ~ OwnFile(q) /\ call[q].path \in paths
  <2>2. CASE q # p /\ Loses
    <3>1. /\ call'[q] = [call[q] EXCEPT !.detached = TRUE]
          /\ scratch'[q] = dbs[call[q].path] /\ pc'[q] = pc[q]
      BY <2>2 DEF Detach, IInv, TypeOK
    <3>2. Handle(q)' = Handle(q)
      BY <3>1, <2>2 DEF Handle, OwnFile, IInv, TypeOK, CallType
    <3> QED
      BY <3>1, <3>2, <2>2 DEF IInv, TypeOK, OpenHandles, DeltaOpen, FullOpen, CallType
  <2>3. CASE q # p /\ ~ Loses
    <3>1. call'[q] = call[q] /\ scratch'[q] = scratch[q] /\ pc'[q] = pc[q]
      BY <2>3 DEF Detach, IInv, TypeOK
    <3>2. pc[q] \in DeltaOpen => Handle(q)' = Handle(q)
      BY <3>1, <2>3 DEF Handle, OwnFile, IInv, TypeOK, CallType
    <3>3. pc[q] \in FullOpen => Handle(q)' = Handle(q)
      BY <3>1 DEF Handle, OwnFile, IInv, OpenHandles
    <3> QED
      BY <3>1, <3>2, <3>3 DEF IInv, OpenHandles
  <2> QED
    BY <2>1, <2>2, <2>3
<1> QED
  BY <1>3, <1>4 DEF IInv

---------------------------------------------------------------------------
(* Each action preserves the invariant.                                    *)

LEMMA UserTyped ==
    ASSUME IInv, User
    PROVE  IInv'
<1>1. RepoTypeOK'
  <2>1. CASE UserEdits
    BY <2>1 DEF UserEdits, Edit, Moved, IInv, TypeOK, RepoTypeOK, Tree
  <2>2. CASE UserCommits
    <3>1. PICK paths \in SUBSET Dirty : GitCommit(paths)
      BY <2>2 DEF UserCommits
    <3>2. [f \in Files |-> IF f \in paths THEN tree[f] ELSE history[head][f]] \in Tree
      BY DEF IInv, TypeOK, RepoTypeOK, Tree
    <3> QED
      BY <3>1, <3>2 DEF GitCommit, IInv, TypeOK, RepoTypeOK
  <2>3. CASE UserChecksOut
    <3>1. PICK n \in Commit : Checkout(n)
      BY <2>3 DEF UserChecksOut
    <3>2. history[n] \in Tree
      BY <3>1 DEF Checkout, IInv, TypeOK, RepoTypeOK
    <3>3. tree' \in Tree
      BY <3>1, <3>2 DEF Checkout, IInv, TypeOK, RepoTypeOK, Tree
    <3> QED
      BY <3>1, <3>2, <3>3 DEF Checkout, IInv, TypeOK, RepoTypeOK
  <2> QED
    BY <2>1, <2>2, <2>3 DEF User
<1>2. Moved
  BY DEF User, UserEdits, UserCommits, UserChecksOut
<1>3. moves' \in 0..MaxMoves
  BY <1>2, EnsureIndexAssumption DEF Moved, IInv, TypeOK
<1>4. seen' \in [Procs -> SUBSET Tree]
  BY <1>1, <1>2 DEF Moved, RepoTypeOK, IInv, TypeOK
<1>5. TypeOK'
  BY <1>1, <1>2, <1>3, <1>4 DEF Moved, diskVars, procVars, IInv, TypeOK
<1>6. OpenHandles'
  BY <1>2 DEF Moved, diskVars, procVars, IInv, OpenHandles, Handle, OwnFile
<1> QED
  BY <1>5, <1>6 DEF IInv

LEMMA NoCallTyped == NoCall \in CallType
BY DEF NoCall, CallType, NoChanges, ManifestType, SignatureType, Tree

LEMMA SignatureTyped ==
    ASSUME RepoTypeOK
    PROVE  WorkingTreeSignature \in SignatureType
<1> SUFFICES ASSUME NEW f \in Files
             PROVE  <<f, history[head][f] # NONE, tree[f]>>
                        \in Files \X BOOLEAN \X (Contents \cup {NONE})
  BY DEF WorkingTreeSignature, SignatureType, Dirty
<1> QED
  BY DEF RepoTypeOK, Tree

LEMMA BeginTyped ==
    ASSUME IInv, NEW p \in Procs, NEW cfg \in Configs, Begin(p, cfg)
    PROVE  IInv'
<1> DEFINE c == [NoCall EXCEPT !.key = head, !.config = cfg]
<1>1. c \in CallType /\ ~ c.detached /\ c.key \in Commit
  BY NoCallTyped DEF CallType, IInv, TypeOK, RepoTypeOK, NoCall
<1>2. call' = [call EXCEPT ![p] = c] /\ pc' = [pc EXCEPT ![p] = "signature"]
  BY DEF Begin, Goto
<1>3. seen' \in [Procs -> SUBSET Tree]
  BY DEF Begin, IInv, TypeOK, RepoTypeOK
<1>4. UNCHANGED <<repoVars, diskVars, scratch, result, moves, crashes>>
  BY DEF Begin
<1> HIDE DEF c
<1> QED
  BY <1>1, <1>2, <1>3, <1>4, ReadingStep DEF Label, DeltaOpen, FullOpen, IInv, TypeOK

LEMMA TakeSignatureTyped ==
    ASSUME IInv, NEW p \in Procs, TakeSignature(p)
    PROVE  IInv'
<1> DEFINE c == [call[p] EXCEPT !.signature = WorkingTreeSignature]
<1>1. call[p] \in CallType
  BY DEF IInv, TypeOK
<1>2. WorkingTreeSignature \in SignatureType
  BY SignatureTyped DEF IInv, TypeOK
<1>3. c \in CallType /\ c.detached = call[p].detached /\ c.key = call[p].key
  BY <1>1, <1>2 DEF CallType
<1>4. ~ call[p].detached /\ call[p].key \in Commit
  BY DEF TakeSignature, At, IInv, OpenHandles, DeltaOpen
<1>5. call' = [call EXCEPT ![p] = c] /\ pc' = [pc EXCEPT ![p] = "lookup"]
  BY DEF TakeSignature, Goto
<1>6. UNCHANGED <<repoVars, diskVars, scratch, result, seen, moves, crashes>>
  BY DEF TakeSignature
<1> HIDE DEF c
<1> QED
  BY <1>3, <1>4, <1>5, <1>6, ReadingStep DEF Label, DeltaOpen, FullOpen, IInv, TypeOK

LEMMA DbPathTyped ==
    ASSUME NEW key \in Commit
    PROVE  DbPath(key) \in Path
BY RepositoryAssumption DEF DbPath, Path, Commit

LEMMA CacheHitTyped ==
    ASSUME IInv, NEW p \in Procs, CacheHit(p)
    PROVE  IInv'
<1>1. DbPath(call[p].key) \in Path /\ dbs[DbPath(call[p].key)] \in StoreType
  <2>1. call[p].key \in Commit
    BY DEF CacheHit, At, IInv, OpenHandles
  <2> QED
    BY <2>1, DbPathTyped DEF CacheHit, CacheGet, IInv, TypeOK
<1>2. result' \in [Procs -> StoreType \cup {NONE}]
  BY <1>1 DEF CacheHit, IInv, TypeOK
<1>3. call' = [call EXCEPT ![p] = call[p]] /\ pc' = [pc EXCEPT ![p] = "done"]
      /\ call[p].key \in Commit
  BY DEF CacheHit, At, Goto, IInv, TypeOK, OpenHandles
<1>4. UNCHANGED <<repoVars, diskVars, scratch, seen, moves, crashes>>
  BY DEF CacheHit
<1> QED
  BY <1>2, <1>3, <1>4, ReadingStep DEF Label, DeltaOpen, FullOpen, IInv, TypeOK

LEMMA NoUsableStoreTyped ==
    ASSUME IInv, NEW p \in Procs, NoUsableStore(p)
    PROVE  IInv'
<1>1. ~ call[p].detached /\ call[p].key \in Commit
  BY DEF NoUsableStore, At, IInv, OpenHandles, DeltaOpen
<1>2. call' = [call EXCEPT ![p] = call[p]] /\ pc' = [pc EXCEPT ![p] = "full"]
  BY DEF NoUsableStore, Goto, IInv, TypeOK
<1>3. UNCHANGED <<repoVars, diskVars, scratch, result, seen, moves, crashes>>
  BY DEF NoUsableStore
<1> QED
  BY <1>1, <1>2, <1>3, ReadingStep DEF Label, DeltaOpen, FullOpen, IInv, TypeOK

LEMMA FindStoreTyped ==
    ASSUME IInv, NEW p \in Procs, FindStore(p)
    PROVE  IInv'
<1>1. PICK path \in Published :
        call' = [call EXCEPT ![p].path = path, ![p].base = dbs[path].commit,
                             ![p].current = head]
  BY DEF FindStore
<1> DEFINE c == [call[p] EXCEPT !.path = path, !.base = dbs[path].commit, !.current = head]
<1>2. path \in Path /\ dbs[path] \in StoreType
  BY DEF Published, IInv, TypeOK
<1>3. dbs[path].commit \in Commit \cup {NONE} /\ head \in Commit
  BY <1>2 DEF StoreType, IInv, TypeOK, RepoTypeOK
<1>4. call[p] \in CallType
  BY DEF IInv, TypeOK
<1>5. c \in CallType /\ c.path = path /\ c.detached = call[p].detached
      /\ c.key = call[p].key
  BY <1>2, <1>3, <1>4 DEF CallType
<1>6. ~ call[p].detached /\ call[p].key \in Commit
  BY DEF FindStore, At, IInv, OpenHandles, DeltaOpen
<1>7. call' = [call EXCEPT ![p] = c]
  BY <1>1 DEF IInv, TypeOK
<1>8. pc' = [pc EXCEPT ![p] = "manifest"]
      /\ UNCHANGED <<repoVars, diskVars, scratch, result, seen, moves, crashes>>
  BY DEF FindStore, Goto
<1> HIDE DEF c
<1> QED
  BY <1>2, <1>5, <1>6, <1>7, <1>8, ReadingStep DEF Label, DeltaOpen, FullOpen, IInv, TypeOK


LEMMA CacheRejectTyped ==
    ASSUME IInv, NEW p \in Procs, CacheReject(p)
    PROVE  IInv'
<1> DEFINE path == DbPath(call[p].key)
<1>1. /\ call[p].key \in Commit /\ ~ call[p].detached
      /\ pc' = [pc EXCEPT ![p] = "find"]
      /\ UNCHANGED <<repoVars, result, seen, moves, crashes>>
  BY DEF CacheReject, At, Goto, IInv, OpenHandles, DeltaOpen
<1>2. path \in Path
  BY <1>1, DbPathTyped
<1>3. CASE /\ dbs' = [dbs EXCEPT ![path] = NONE]
           /\ metas' = [metas EXCEPT ![path] = NONE]
           /\ Detach(p, {path})
  <2>1. /\ dbs' \in [Path -> StoreType \cup {NONE}]
        /\ metas' \in [Path -> Commit \cup {NONE}]
        /\ \A x \in Path \ {path} : dbs'[x] = dbs[x]
    BY <1>3 DEF IInv, TypeOK
  <2>2. result' \in [Procs -> StoreType \cup {NONE}]
    BY <1>1 DEF IInv, TypeOK
  <2> HIDE DEF path
  <2> QED
    BY <1>1, <1>2, <1>3, <2>1, <2>2, DetachingStep DEF Label, DeltaOpen, FullOpen
<1>4. CASE UNCHANGED <<diskVars, call, scratch>>
  <2>1. call' = [call EXCEPT ![p] = call[p]] /\ call[p] \in CallType
    BY <1>4 DEF IInv, TypeOK
  <2>2. result' \in [Procs -> StoreType \cup {NONE}] /\ seen' \in [Procs -> SUBSET Tree]
    BY <1>1 DEF IInv, TypeOK
  <2> QED
    BY <1>1, <1>4, <2>1, <2>2, ReadingStep DEF Label, DeltaOpen, FullOpen
<1> QED
  BY <1>3, <1>4 DEF CacheReject

\* Whatever a manifest is computed from, it pairs and classifies known paths.
LEMMA ClassifiedTyped ==
    ASSUME NEW old, NEW new, NEW gone \in SUBSET Files, NEW come \in SUBSET Files,
           NEW both \in SUBSET Files, NEW R \in SUBSET (gone \X come)
    PROVE  Classified(old, new, gone, come, both, R) \in ManifestType
<1> DEFINE late == {r[2] : r \in {s \in R : old[s[1]] # new[s[2]]}}
<1>1. late \subseteq Files /\ R \subseteq Files \X Files
  OBVIOUS
<1> HIDE DEF late
<1>2. Classified(old, new, gone, come, both, R) =
        [modified |-> {f \in both : old[f] # new[f]} \cup late,
         added    |-> come \ {r[2] : r \in R},
         deleted  |-> gone \ {r[1] : r \in R},
         renamed  |-> R]
  BY DEF Classified, late
<1> QED
  BY <1>1, <1>2 DEF ManifestType

LEMMA DeltasTyped ==
    ASSUME NEW st, NEW m, m \in WorkingTreeDeltas(st)
    PROVE  m \in ManifestType
<1> DEFINE old  == st.states
           gone == Present(old) \ Present(tree)
           come == Present(tree) \ Present(old)
<1>1. CASE Present(old) = {}
  BY <1>1 DEF WorkingTreeDeltas, MtimeDeltas, ManifestType, Present
<1>2. CASE Present(old) # {}
  <2>1. PICK R \in Pairings(gone, come) :
          m = Classified(old, tree, gone, come, Present(old) \cap Present(tree), R)
    BY <1>2 DEF WorkingTreeDeltas
  <2>2. R \in SUBSET (gone \X come)
    BY DEF Pairings
  <2>3. Present(old) \subseteq Files /\ Present(tree) \subseteq Files
    BY DEF Present
  <2> HIDE DEF old
  <2> QED
    BY <2>1, <2>2, <2>3, ClassifiedTyped
<1> QED
  BY <1>1, <1>2

LEMMA ManifestTyped ==
    ASSUME NEW p \in Procs, NEW m \in Manifests(p)
    PROVE  m \in ManifestType
<1>1. ASSUME NEW base, NEW current, m \in GitDiffs(base, current)
      PROVE  m \in ManifestType
  <2> DEFINE old  == history[base]
             new  == history[current]
             gone == Present(old) \ Present(new)
             come == Present(new) \ Present(old)
  <2>1. PICK R \in Pairings(gone, come) :
          m = Classified(old, new, gone, come, Present(old) \cap Present(new), R)
    BY <1>1 DEF GitDiffs
  <2>2. R \in SUBSET (gone \X come)
    BY DEF Pairings
  <2>3. Present(old) \subseteq Files /\ Present(new) \subseteq Files
    BY DEF Present
  <2> HIDE DEF old, new
  <2> QED
    BY <2>1, <2>2, <2>3, ClassifiedTyped
<1> QED
  BY <1>1, DeltasTyped DEF Manifests

\* Computing a manifest may create the database file it was going to open.
LEMMA OpeningStep ==
    ASSUME IInv, NEW p \in Procs, NEW c \in CallType,
           NEW label \in {"full", "sign", "rename"},
           call' = [call EXCEPT ![p] = c], pc' = [pc EXCEPT ![p] = label],
           ~ c.detached, c.key \in Commit,
           \/ dbs' = dbs
           \/ \E path \in Path : dbs' = [dbs EXCEPT ![path] = Opened(path)],
           label # "full" => c.path \in Path /\ dbs'[c.path] \in StoreType,
           UNCHANGED <<repoVars, metas, scratch, result, seen, moves, crashes>>
    PROVE  IInv'
<1>1. /\ dbs' \in [Path -> StoreType \cup {NONE}]
      /\ \A x \in Path : dbs[x] # NONE => dbs'[x] = dbs[x]
  BY EmptyStoreTyped DEF Opened, IInv, TypeOK
<1>2. TypeOK'
  <2>1. label \in Label
    BY DEF Label, DeltaOpen
  <2> QED
    BY <1>1, <2>1 DEF IInv, TypeOK, RepoTypeOK, repoVars
<1>3. OpenHandles'
  <2> SUFFICES ASSUME NEW q \in Procs
               PROVE  /\ pc'[q] \in DeltaOpen \cup FullOpen => Handle(q)' \in StoreType
                      /\ pc'[q] \in FullOpen => call'[q].path = NONE
                      /\ pc'[q] = "manifest" => call'[q].path \in Path
                      /\ pc'[q] \notin DeltaOpen \cup {"done"} => ~ call'[q].detached
                      /\ pc'[q] # "idle" => call'[q].key \in Commit
    BY DEF OpenHandles
  <2>1. CASE q = p
    <3>1. call'[p] = c /\ pc'[p] = label
      BY DEF IInv, TypeOK
    <3>2. label # "full" => Handle(p)' = dbs'[c.path]
      BY <3>1, PathAssumption DEF Handle, OwnFile
    <3> QED
      BY <1>1, <2>1, <3>1, <3>2 DEF DeltaOpen, FullOpen
  <2>2. CASE q # p
    <3>1. call'[q] = call[q] /\ pc'[q] = pc[q] /\ call[q] \in CallType
      BY <2>2 DEF IInv, TypeOK
    <3>2. call[q].path # NONE => call[q].path \in Path
      BY <3>1 DEF CallType
    <3>3. Handle(q) \in StoreType => Handle(q)' \in StoreType
      BY <1>1, <3>1, <3>2 DEF Handle, OwnFile, IInv, TypeOK
    <3> QED
      BY <3>1, <3>3 DEF IInv, OpenHandles
  <2> QED
    BY <2>1, <2>2
<1> QED
  BY <1>2, <1>3 DEF IInv

LEMMA ComputeManifestTyped ==
    ASSUME IInv, NEW p \in Procs, ComputeManifest(p)
    PROVE  IInv'
<1> DEFINE path == call[p].path
<1>1. PICK m \in Manifests(p) :
        LET over == TooLarge(m) /\ ~ NothingToDo(p, m)
        IN  /\ IF over /\ call[p].base # call[p].current
               THEN UNCHANGED dbs
               ELSE dbs' = [dbs EXCEPT ![path] = Opened(path)]
            /\ call' = IF over THEN [call EXCEPT ![p].path = NONE]
                       ELSE [call EXCEPT ![p].manifest = m,
                                         ![p].renames = m.renamed,
                                         ![p].rebuild = ~ HasData(Opened(path))]
            /\ Goto(p, IF over THEN "full"
                       ELSE IF NothingToDo(p, m) THEN "sign" ELSE "rename")
  BY DEF ComputeManifest
<1>2. /\ UNCHANGED <<repoVars, metas, scratch, result, seen, moves, crashes>>
      /\ path \in Path /\ ~ call[p].detached /\ call[p].key \in Commit
  BY DEF ComputeManifest, At, IInv, OpenHandles, DeltaOpen
<1>3. call[p] \in CallType
  BY DEF IInv, TypeOK
<1>4. CASE TooLarge(m) /\ ~ NothingToDo(p, m)
  <2> DEFINE c == [call[p] EXCEPT !.path = NONE]
  <2>1. c \in CallType /\ c.key = call[p].key /\ c.detached = call[p].detached
    BY <1>3 DEF CallType
  <2>2. call' = [call EXCEPT ![p] = c] /\ pc' = [pc EXCEPT ![p] = "full"]
    BY <1>1, <1>4 DEF Goto
  <2>3. dbs' = dbs \/ dbs' = [dbs EXCEPT ![path] = Opened(path)]
    BY <1>1
  <2> HIDE DEF c, path
  <2> QED
    BY <1>2, <2>1, <2>2, <2>3, OpeningStep
<1>5. CASE ~ (TooLarge(m) /\ ~ NothingToDo(p, m))
  <2> DEFINE c     == [call[p] EXCEPT !.manifest = m, !.renames = m.renamed,
                                      !.rebuild = ~ HasData(Opened(path))]
             label == IF NothingToDo(p, m) THEN "sign" ELSE "rename"
  <2>1. m \in ManifestType /\ m.renamed \subseteq Files \X Files
    BY ManifestTyped DEF ManifestType
  <2>2. (~ HasData(Opened(path))) \in BOOLEAN
    BY DEF HasData
  <2>3. c \in CallType /\ c.key = call[p].key /\ c.detached = call[p].detached
        /\ c.path = path
    BY <1>3, <2>1, <2>2 DEF CallType
  <2>4. call' = [call EXCEPT ![p] = c] /\ pc' = [pc EXCEPT ![p] = label]
    BY <1>1, <1>5 DEF Goto
  <2>5. dbs' = [dbs EXCEPT ![path] = Opened(path)]
    BY <1>1, <1>5
  <2>6. dbs'[path] \in StoreType
    BY <1>2, <2>5, EmptyStoreTyped DEF Opened, IInv, TypeOK
  <2> HIDE DEF c, path
  <2> QED
    BY <1>2, <2>3, <2>4, <2>5, <2>6, OpeningStep
<1> QED
  BY <1>4, <1>5

LEMMA GitFailsTyped ==
    ASSUME IInv, NEW p \in Procs, GitFails(p)
    PROVE  IInv'
<1> DEFINE c == [call[p] EXCEPT !.path = NONE]
<1>1. call[p] \in CallType
  BY DEF IInv, TypeOK
<1>2. c \in CallType /\ c.key = call[p].key /\ c.detached = call[p].detached
  BY <1>1 DEF CallType
<1>3. /\ call[p].path \in Path /\ ~ call[p].detached /\ call[p].key \in Commit
      /\ call' = [call EXCEPT ![p] = c] /\ pc' = [pc EXCEPT ![p] = "full"]
      /\ \/ dbs' = dbs
         \/ dbs' = [dbs EXCEPT ![call[p].path] = Opened(call[p].path)]
      /\ UNCHANGED <<repoVars, metas, scratch, result, seen, moves, crashes>>
  BY DEF GitFails, At, Goto, IInv, OpenHandles, DeltaOpen
<1> HIDE DEF c
<1> QED
  BY <1>2, <1>3, OpeningStep

\* A rename is one transaction; the call then has one less to do.
LEMMA RenamePathTyped ==
    ASSUME IInv, NEW p \in Procs, RenamePath(p)
    PROVE  IInv'
<1>1. PICK r \in call[p].renames :
        /\ Write(p, UpdateFilePaths(Handle(p), r))
        /\ call' = [call EXCEPT ![p].renames = @ \ {r}]
  BY DEF RenamePath
<1> DEFINE c  == [call[p] EXCEPT !.renames = @ \ {r}]
           st == UpdateFilePaths(Handle(p), r)
<1>2. /\ UNCHANGED <<repoVars, metas, pc, result, seen, moves, crashes>>
      /\ Handle(p) \in StoreType /\ call[p].key \in Commit /\ pc[p] = "rename"
  BY DEF RenamePath, At, IInv, OpenHandles, DeltaOpen
<1>3. call[p] \in CallType
  BY DEF IInv, TypeOK
<1>4. call[p].renames \subseteq Files \X Files
  BY <1>3 DEF CallType
<1>5. /\ c \in CallType /\ c.key = call[p].key
      /\ c.path = call[p].path /\ c.detached = call[p].detached
  BY <1>3, <1>4 DEF CallType
<1>6. st \in StoreType
  BY <1>2, <1>4, UpdatePathsTyped
<1>7. call' = [call EXCEPT ![p] = c]
  BY <1>1 DEF IInv, TypeOK
<1> HIDE DEF c, st
<1>8. TypeOK'
  <2>1. dbs' \in [Path -> StoreType \cup {NONE}] /\ scratch' \in [Procs -> StoreType \cup {NONE}]
    BY <1>1, <1>6 DEF IInv, TypeOK, Write, st
  <2> QED
    BY <1>2, <1>5, <1>7, <2>1 DEF IInv, TypeOK, RepoTypeOK, repoVars
<1>9. OpenHandles'
  <2> SUFFICES ASSUME NEW q \in Procs
               PROVE  /\ pc'[q] \in DeltaOpen \cup FullOpen => Handle(q)' \in StoreType
                      /\ pc'[q] \in FullOpen => call'[q].path = NONE
                      /\ pc'[q] = "manifest" => call'[q].path \in Path
                      /\ pc'[q] \notin DeltaOpen \cup {"done"} => ~ call'[q].detached
                      /\ pc'[q] # "idle" => call'[q].key \in Commit
    BY DEF OpenHandles
  <2>1. call'[q].path = call[q].path /\ call'[q].detached = call[q].detached
        /\ call'[q].key = call[q].key
    BY <1>5, <1>7 DEF IInv, TypeOK
  <2>2. Handle(q) \in StoreType => Handle(q)' \in StoreType
    <3>1. Write(p, st)
      BY <1>1 DEF st
    <3>2. call[q].path # NONE => call[q].path \in Path
      BY DEF IInv, TypeOK, CallType
    <3>3. call[p].path # NONE => call[p].path \in Path
      BY <1>3 DEF CallType
    <3> QED
      BY <1>6, <2>1, <3>1, <3>2, <3>3 DEF Handle, OwnFile, Write, IInv, TypeOK
  <2> QED
    BY <1>2, <2>1, <2>2 DEF IInv, OpenHandles
<1> QED
  BY <1>8, <1>9 DEF IInv

LEMMA DeltaWritesTyped ==
    ASSUME IInv, NEW p \in Procs,
           \/ DeleteRows(p) \/ ForgetStates(p) \/ RecordStates(p) \/ SwapRows(p)
           \/ UpdateBm25(p) \/ SetCommit(p) \/ SetSignature(p)
    PROVE  IInv'
<1> DEFINE st == Handle(p)
           c  == call[p]
<1>1. /\ pc[p] \in DeltaOpen
      /\ UNCHANGED <<repoVars, metas, call, result, seen, moves, crashes>>
  BY DEF DeltaOpen, At, DeleteRows, ForgetStates, RecordStates, SwapRows, UpdateBm25,
         SetCommit, SetSignature
<1>2. st \in StoreType
  BY <1>1 DEF IInv, OpenHandles
<1>3. /\ c.manifest \in ManifestType /\ c.sources \in SUBSET Files /\ c.read \in Tree
      /\ c.discovered \in SUBSET Files /\ c.current \in Commit \cup {NONE}
      /\ c.signature \in SignatureType
  BY DEF IInv, TypeOK, CallType
<1>4. tree \in Tree
  BY DEF IInv, TypeOK, RepoTypeOK
<1> SUFFICES \E new \in StoreType, label \in DeltaOpen :
                Write(p, new) /\ pc' = [pc EXCEPT ![p] = label]
  BY <1>1, WritingStep DEF IInv, TypeOK
<1>5. CASE DeleteRows(p)
  BY <1>2, <1>5, DeleteChunksTyped, DeleteEdgesTyped DEF DeleteRows, Goto, DeltaOpen
<1>6. CASE ForgetStates(p)
  BY <1>2, <1>6, DeleteStatesTyped DEF ForgetStates, Goto, DeltaOpen
<1>7. CASE RecordStates(p)
  BY <1>2, <1>4, <1>7, UpsertStatesTyped DEF RecordStates, Goto, DeltaOpen
<1>8. CASE SwapRows(p)
  BY <1>2, <1>3, <1>8, SwapTyped DEF SwapRows, Goto, DeltaOpen
<1>9. CASE UpdateBm25(p)
  BY <1>2, <1>9, BuildTyped, UpdateBm25Typed DEF UpdateBm25, Goto, DeltaOpen
<1>10. CASE SetCommit(p)
  <2>1. [st EXCEPT !.commit = c.current] \in StoreType
    BY <1>2, <1>3 DEF StoreType
  <2> QED
    BY <1>10, <2>1 DEF SetCommit, Goto, DeltaOpen
<1>11. CASE SetSignature(p)
  <2>1. [st EXCEPT !.signature = c.signature] \in StoreType
    BY <1>2, <1>3 DEF StoreType
  <2> QED
    BY <1>11, <2>1 DEF SetSignature, Goto, DeltaOpen
<1> QED
  BY <1>5, <1>6, <1>7, <1>8, <1>9, <1>10, <1>11

LEMMA FinalizeTyped ==
    ASSUME IInv, NEW p \in Procs, Finalize(p)
    PROVE  IInv'
<1> DEFINE st == FinalizeGenerationId(Handle(p), call[p].config)
<1>1. pc[p] \in DeltaOpen /\ Handle(p) \in StoreType
  BY DEF Finalize, At, DeltaOpen, IInv, OpenHandles
<1>2. call[p].config \in Configs \cup {NONE}
  BY DEF IInv, TypeOK, CallType
<1>3. st \in StoreType
  BY <1>1, <1>2, GenerationTyped
<1>4. /\ Write(p, st)
      /\ \/ pc' = [pc EXCEPT ![p] = "done"] /\ result' = [result EXCEPT ![p] = st]
         \/ pc' = [pc EXCEPT ![p] = "put_db"] /\ UNCHANGED result
      /\ UNCHANGED <<repoVars, metas, call, seen, moves, crashes>>
  BY DEF Finalize, Goto
<1> HIDE DEF st
<1>5. result' \in [Procs -> StoreType \cup {NONE}]
  BY <1>3, <1>4 DEF IInv, TypeOK
<1> QED
  BY <1>1, <1>3, <1>4, <1>5, WritingStep DEF DeltaOpen

LEMMA ReadSourcesTyped ==
    ASSUME IInv, NEW p \in Procs, ReadSources(p)
    PROVE  IInv'
<1> DEFINE c == [call[p] EXCEPT !.discovered = Present(tree),
                                !.sources = Reprocess(call[p].manifest) \cap Present(tree),
                                !.read = tree]
<1>1. tree \in Tree /\ Present(tree) \in SUBSET Files /\ call[p] \in CallType
  BY DEF Present, IInv, TypeOK, RepoTypeOK
<1>2. /\ c \in CallType /\ c.path = call[p].path /\ c.detached = call[p].detached
      /\ c.key = call[p].key
  BY <1>1 DEF CallType
<1>3. /\ pc[p] = "read"
      /\ call' = [call EXCEPT ![p] = c] /\ pc' = [pc EXCEPT ![p] = "states"]
      /\ UNCHANGED <<repoVars, diskVars, scratch, result, seen, moves, crashes>>
  BY DEF ReadSources, At, Goto
<1> HIDE DEF c
<1>4. TypeOK'
  BY <1>2, <1>3 DEF IInv, TypeOK, RepoTypeOK, repoVars, diskVars, Label, DeltaOpen
<1>5. OpenHandles'
  <2> SUFFICES ASSUME NEW q \in Procs
               PROVE  /\ pc'[q] \in DeltaOpen \cup FullOpen => Handle(q)' \in StoreType
                      /\ pc'[q] \in FullOpen => call'[q].path = NONE
                      /\ pc'[q] = "manifest" => call'[q].path \in Path
                      /\ pc'[q] \notin DeltaOpen \cup {"done"} => ~ call'[q].detached
                      /\ pc'[q] # "idle" => call'[q].key \in Commit
    BY DEF OpenHandles
  <2>1. /\ call'[q].path = call[q].path /\ call'[q].detached = call[q].detached
        /\ call'[q].key = call[q].key
    BY <1>2, <1>3 DEF IInv, TypeOK
  <2>2. Handle(q)' = Handle(q)
    BY <1>3, <2>1 DEF Handle, OwnFile, diskVars
  <2>3. pc'[q] = pc[q] \/ (q = p /\ pc'[q] = "states")
    BY <1>3 DEF IInv, TypeOK
  <2> QED
    BY <1>3, <2>1, <2>2, <2>3 DEF IInv, OpenHandles, DeltaOpen, FullOpen
<1> QED
  BY <1>4, <1>5 DEF IInv

LEMMA FullIndexTyped ==
    ASSUME IInv, NEW p \in Procs, FullIndex(p)
    PROVE  IInv'
<1>1. /\ tree \in Tree /\ head \in Commit /\ call[p] \in CallType
      /\ WorkingTreeSignature \in SignatureType
  BY SignatureTyped DEF IInv, TypeOK, RepoTypeOK
<1>2. CASE FullRead(p)
  <2> DEFINE c == [call[p] EXCEPT !.path = NONE, !.sources = Present(tree)]
  <2>1. /\ c \in CallType /\ c.path = NONE /\ c.detached = call[p].detached
        /\ c.key = call[p].key
    BY <1>1 DEF CallType, Present
  <2>2. /\ ~ call[p].detached /\ call[p].key \in Commit
    BY <1>2 DEF FullRead, At, IInv, OpenHandles, DeltaOpen
  <2>3. /\ scratch' = [scratch EXCEPT ![p] = FullRows(tree)]
        /\ call' = [call EXCEPT ![p] = c] /\ pc' = [pc EXCEPT ![p] = "full_states"]
        /\ UNCHANGED <<repoVars, diskVars, result, seen, moves, crashes>>
    BY <1>2 DEF FullRead, Goto
  <2> HIDE DEF c
  <2> QED
    BY <1>1, <2>1, <2>2, <2>3, FullRowsTyped, ScratchStep DEF FullOpen
<1>3. CASE FullStates(p) \/ FullCommit(p) \/ FullSign(p)
  <2>1. pc[p] \in FullOpen /\ ~ call[p].detached /\ call[p].key \in Commit
    BY <1>3 DEF FullStates, FullCommit, FullSign, At, FullOpen, IInv, OpenHandles, DeltaOpen
  <2>2. call[p].path = NONE /\ scratch[p] \in StoreType
    BY <2>1 DEF IInv, OpenHandles, Handle, OwnFile
  <2>3. call' = [call EXCEPT ![p] = call[p]]
        /\ UNCHANGED <<repoVars, diskVars, result, seen, moves, crashes>>
    BY <1>3 DEF FullStates, FullCommit, FullSign, IInv, TypeOK
  <2> SUFFICES \E st \in StoreType, label \in FullOpen \cup {"put_db"} :
                  /\ scratch' = [scratch EXCEPT ![p] = st]
                  /\ pc' = [pc EXCEPT ![p] = label]
    BY <1>1, <2>1, <2>2, <2>3, ScratchStep
  <2>4. CASE FullStates(p)
    <3>1. UpsertFileStates(scratch[p], call[p].sources, tree) \in StoreType
      BY <1>1, <2>2, UpsertStatesTyped
    <3> QED
      BY <2>4, <3>1 DEF FullStates, Goto, FullOpen
  <2>5. CASE FullCommit(p)
    <3> DEFINE st == [scratch[p] EXCEPT !.config = call[p].config, !.commit = head]
    <3>1. call[p].config \in Configs \cup {NONE}
      BY <1>1 DEF CallType
    <3>2. st \in StoreType
      BY <1>1, <2>2, <3>1 DEF StoreType
    <3>3. scratch' = [scratch EXCEPT ![p] = st]
      BY <2>5 DEF FullCommit, IInv, TypeOK
    <3> QED
      BY <2>5, <3>2, <3>3 DEF FullCommit, Goto, FullOpen
  <2>6. CASE FullSign(p)
    <3> DEFINE st == [scratch[p] EXCEPT !.signature = WorkingTreeSignature]
    <3>1. st \in StoreType
      BY <1>1, <2>2 DEF StoreType
    <3>2. call[p].config \in Configs \cup {NONE}
      BY <1>1 DEF CallType
    <3>3. FinalizeGenerationId(st, call[p].config) \in StoreType
      BY <3>1, <3>2, GenerationTyped
    <3> QED
      BY <2>6, <3>3 DEF FullSign, Goto, FullOpen
  <2> QED
    BY <1>3, <2>4, <2>5, <2>6
<1> QED
  BY <1>2, <1>3 DEF FullIndex

LEMMA PutDbTyped ==
    ASSUME IInv, NEW p \in Procs, PutDb(p)
    PROVE  IInv'
<1> DEFINE dest == DbPath(call[p].key)
<1>1. /\ pc[p] = "put_db" /\ call[p].key \in Commit /\ Handle(p) \in StoreType
      /\ pc' = [pc EXCEPT ![p] = "put_meta"]
      /\ UNCHANGED <<repoVars, metas, result, seen, moves, crashes>>
  BY DEF PutDb, At, Goto, IInv, OpenHandles, DeltaOpen
<1>2. dest \in Path
  BY <1>1, DbPathTyped
<1>3. result' \in [Procs -> StoreType \cup {NONE}]
  BY <1>1 DEF IInv, TypeOK
<1>4. CASE call[p].path = dest
  <2>1. UNCHANGED <<dbs, call, scratch>>
    BY <1>4 DEF PutDb
  <2>2. Write(p, Handle(p))
    BY <1>2, <1>4, <2>1 DEF Write, Handle, IInv, TypeOK
  <2> QED
    BY <1>1, <1>3, <2>1, <2>2, WritingStep DEF DeltaOpen
<1>5. CASE call[p].path # dest
  <2>1. /\ PutSource(p) # NONE
        /\ dbs' = [dbs EXCEPT ![dest] = PutSource(p)]
        /\ Detach(p, {dest})
    BY <1>5 DEF PutDb
  <2>2. call[p].path # NONE => call[p].path \in Path
    BY DEF IInv, TypeOK, CallType
  <2>3. PutSource(p) \in StoreType
    BY <2>1, <2>2 DEF PutSource, IInv, TypeOK
  <2>4. /\ dbs' \in [Path -> StoreType \cup {NONE}]
        /\ \A x \in Path \ {dest} : dbs'[x] = dbs[x]
    BY <2>1, <2>3 DEF IInv, TypeOK
  <2>5. call'[p] = call[p] /\ scratch'[p] = scratch[p]
    BY <2>1 DEF Detach
  <2>6. Handle(p)' \in StoreType
    BY <1>1, <1>5, <2>2, <2>4, <2>5 DEF Handle, OwnFile
  <2>7. metas' \in [Path -> Commit \cup {NONE}]
    BY <1>1 DEF IInv, TypeOK
  <2> HIDE DEF dest
  <2> QED
    BY <1>1, <1>2, <1>3, <2>1, <2>4, <2>6, <2>7, DetachingStep DEF Label, DeltaOpen, FullOpen
<1> QED
  BY <1>4, <1>5

LEMMA PutMetaTyped ==
    ASSUME IInv, NEW p \in Procs, PutMeta(p)
    PROVE  IInv'
<1> DEFINE dest == DbPath(call[p].key)
<1>1. /\ pc[p] = "put_meta" /\ call[p].key \in Commit /\ Handle(p) \in StoreType
      /\ pc' = [pc EXCEPT ![p] = "done"]
      /\ result' = [result EXCEPT ![p] = Handle(p)]
      /\ UNCHANGED <<repoVars, seen, moves, crashes>>
  BY DEF PutMeta, At, Goto, IInv, OpenHandles, DeltaOpen
<1>2. PICK evicted \in SUBSET {x \in Path \ {dest} : dbs[x] # NONE} :
        /\ dbs' = [x \in Path |-> IF x \in evicted THEN NONE ELSE dbs[x]]
        /\ metas' = [x \in Path |-> IF x = dest THEN call[p].key
                                    ELSE IF x \in evicted THEN NONE ELSE metas[x]]
        /\ Detach(p, evicted)
  BY DEF PutMeta
<1>3. evicted \in SUBSET Path
  OBVIOUS
<1>4. /\ dbs' \in [Path -> StoreType \cup {NONE}]
      /\ metas' \in [Path -> Commit \cup {NONE}]
      /\ \A x \in Path \ evicted : dbs'[x] = dbs[x]
  BY <1>1, <1>2 DEF IInv, TypeOK
<1>5. result' \in [Procs -> StoreType \cup {NONE}]
  BY <1>1 DEF IInv, TypeOK
<1> HIDE DEF dest
<1> QED
  BY <1>1, <1>2, <1>3, <1>4, <1>5, DetachingStep DEF Label, DeltaOpen, FullOpen

LEMMA ResetTyped ==
    ASSUME IInv, NEW p \in Procs, Reset(p), crashes' \in 0..MaxCrashes
    PROVE  IInv'
<1>1. TypeOK'
  BY NoCallTyped DEF Reset, Goto, IInv, TypeOK, RepoTypeOK, repoVars, diskVars, Label
<1>2. OpenHandles'
  <2> SUFFICES ASSUME NEW q \in Procs
               PROVE  /\ pc'[q] \in DeltaOpen \cup FullOpen => Handle(q)' \in StoreType
                      /\ pc'[q] \in FullOpen => call'[q].path = NONE
                      /\ pc'[q] = "manifest" => call'[q].path \in Path
                      /\ pc'[q] \notin DeltaOpen \cup {"done"} => ~ call'[q].detached
                      /\ pc'[q] # "idle" => call'[q].key \in Commit
    BY DEF OpenHandles
  <2>1. CASE q = p
    <3>1. pc'[p] = "idle" /\ call'[p] = NoCall
      BY DEF Reset, Goto, IInv, TypeOK
    <3> QED
      BY <2>1, <3>1 DEF DeltaOpen, FullOpen, NoCall
  <2>2. CASE q # p
    <3>1. pc'[q] = pc[q] /\ call'[q] = call[q] /\ scratch'[q] = scratch[q] /\ dbs' = dbs
      BY <2>2 DEF Reset, Goto, diskVars, IInv, TypeOK
    <3> QED
      BY <3>1 DEF Handle, OwnFile, IInv, OpenHandles
  <2> QED
    BY <2>1, <2>2
<1> QED
  BY <1>1, <1>2 DEF IInv

---------------------------------------------------------------------------
\* The step of one call, whichever it is.
LEMMA StepTyped ==
    ASSUME IInv, NEW p \in Procs, Step(p)
    PROVE  IInv'
<1>1. CASE TryDelta(p)
  <2>1. CASE ApplyDelta(p)
    BY <2>1, RenamePathTyped, DeltaWritesTyped, ReadSourcesTyped DEF ApplyDelta
  <2>2. CASE RenameRaises(p)
    BY <2>2, ResetTyped DEF RenameRaises, IInv, TypeOK
  <2> QED
    BY <1>1, <2>1, <2>2, FindStoreTyped, NoUsableStoreTyped, ComputeManifestTyped,
       GitFailsTyped, DeltaWritesTyped, FinalizeTyped DEF TryDelta
<1>2. CASE PutRaises(p)
  BY <1>2, ResetTyped DEF PutRaises, IInv, TypeOK
<1> QED
  BY <1>1, <1>2, TakeSignatureTyped, CacheHitTyped, CacheRejectTyped, FullIndexTyped,
     PutDbTyped, PutMetaTyped DEF Step

LEMMA InitTyped == Init => IInv
<1> SUFFICES ASSUME Init PROVE IInv
  OBVIOUS
<1>1. RepoTypeOK
  BY RepositoryAssumption DEF Init, RepoInit, RepoTypeOK, Commit, Tree
<1>2. TypeOK
  BY <1>1, NoCallTyped, EnsureIndexAssumption DEF Init, TypeOK, Label
<1>3. OpenHandles
  BY DEF Init, OpenHandles, DeltaOpen, FullOpen, NoCall
<1> QED
  BY <1>2, <1>3 DEF IInv

LEMMA NextTyped == IInv /\ [Next]_vars => IInv'
<1> SUFFICES ASSUME IInv, [Next]_vars PROVE IInv'
  OBVIOUS
<1>1. CASE User
  BY <1>1, UserTyped
<1>2. ASSUME NEW p \in Procs, NEW cfg \in Configs, Begin(p, cfg)
      PROVE  IInv'
  BY <1>2, BeginTyped
<1>3. ASSUME NEW p \in Procs, Step(p)
      PROVE  IInv'
  BY <1>3, StepTyped
<1>4. ASSUME NEW p \in Procs, Close(p)
      PROVE  IInv'
  BY <1>4, ResetTyped DEF Close, IInv, TypeOK
<1>5. ASSUME NEW p \in Procs, Crash(p)
      PROVE  IInv'
  BY <1>5, ResetTyped, EnsureIndexAssumption DEF Crash, IInv, TypeOK
<1>6. CASE UNCHANGED vars
  BY <1>6 DEF vars, repoVars, diskVars, procVars, IInv, TypeOK, RepoTypeOK,
              OpenHandles, Handle, OwnFile
<1> QED
  BY <1>1, <1>2, <1>3, <1>4, <1>5, <1>6 DEF Next

\* In every run, for any number of callers, crashes and changes of the
\* repository, what the actions write into a database, its metadata and the
\* locals of a call has the type its readers expect.
THEOREM TypeCorrect == Spec => []TypeOK
<1>1. Init => IInv
  BY InitTyped
<1>2. IInv /\ [Next]_vars => IInv'
  BY NextTyped
<1>3. IInv => TypeOK
  BY DEF IInv
<1> QED
  BY <1>1, <1>2, <1>3, PTL DEF Spec

\* A call that writes always has a database to write to: one of the cache
\* directory, its scratch database, or the file it opened before it was replaced.
THEOREM HandlesOpen == Spec => []OpenHandles
<1>1. IInv => OpenHandles
  BY DEF IInv
<1> QED
  BY <1>1, InitTyped, NextTyped, PTL DEF Spec


---------------------------------------------------------------------------
(***************************************************************************)
(* NoOrphanChunks as a theorem: however many files there are, and however  *)
(* often a call dies between two of its transactions, no database ever     *)
(* holds rows of a path that change detection cannot see.  It is proved    *)
(* for one caller at a time on a tree that holds still while the caller    *)
(* runs; without either the code gives no such guarantee.                  *)
(***************************************************************************)
Serial == (\A p, q \in Procs : p = q) /\ ~ EditDuringCalls

Covered(st) == \A f \in Files : st.chunks[f] # {} => st.states[f] # NONE

\* What the transactions of a call have established for the ones after it.
CallCovered(p) ==
    /\ pc[p] \in DeltaOpen \cup {"full_commit", "full_sign"} => Covered(Handle(p))
    /\ pc[p] = "full_states" =>
        \A f \in Files : scratch[p].chunks[f] # {} =>
            f \in call[p].sources /\ tree[f] # NONE
    /\ pc[p] = "rename" => \A r \in call[p].renames : r[1] # r[2]
    /\ pc[p] = "forget" =>
        \A f \in call[p].manifest.deleted : Handle(p).chunks[f] = {}
    /\ pc[p] = "states" => call[p].read = tree
    /\ pc[p] = "swap" =>
        \A f \in call[p].sources :
            call[p].read[f] # NONE => Handle(p).states[f] # NONE

Orphanless == NoOrphanChunks /\ \A p \in Procs : CallCovered(p)

---------------------------------------------------------------------------
(* What the transactions of the store do to coverage.                      *)

LEMMA EmptyStoreCovered == Covered(EmptyStore)
BY DEF Covered, EmptyStore

LEMMA DeleteRowsCovered ==
    ASSUME NEW st \in StoreType, NEW paths, Covered(st)
    PROVE  LET new == DeleteEdgesForFiles(DeleteChunksForFiles(st, paths), paths)
           IN  /\ Covered(new)
               /\ \A f \in Files : f \in paths => new.chunks[f] = {}
               /\ \A f \in Files : f \notin paths => new.chunks[f] = st.chunks[f]
               /\ new.states = st.states
BY DEF DeleteEdgesForFiles, DeleteChunksForFiles, Covered, StoreType

LEMMA ForgetCovered ==
    ASSUME NEW st \in StoreType, NEW paths \in SUBSET Files, Covered(st),
           \A f \in paths : st.chunks[f] = {}
    PROVE  Covered(DeleteFileStates(st, paths))
BY DEF DeleteFileStates, Covered, StoreType

LEMMA UpsertCovered ==
    ASSUME NEW st \in StoreType, NEW paths, NEW t \in Tree
    PROVE  LET new == UpsertFileStates(st, paths, t)
           IN  /\ Covered(st) => Covered(new)
               /\ new.chunks = st.chunks
               /\ \A f \in Files : f \in paths /\ t[f] # NONE => new.states[f] # NONE
BY DEF UpsertFileStates, Covered, StoreType, Tree

LEMMA RenameCovered ==
    ASSUME NEW st \in StoreType, NEW r \in Files \X Files, r[1] # r[2], Covered(st)
    PROVE  Covered(UpdateFilePaths(st, r))
<1> DEFINE To(f)  == IF f = r[1] THEN r[2] ELSE f
           chunks == [f \in Files |-> UNION {st.chunks[o] : o \in {x \in Files : To(x) = f}}]
           states == [f \in Files |->
                        IF f = r[1] THEN NONE
                        ELSE IF f = r[2] /\ st.states[r[1]] # NONE THEN st.states[r[1]]
                        ELSE st.states[f]]
           edges  == {<<To(e[1]), To(e[2])>> : e \in st.edges}
<1>1. UpdateFilePaths(st, r) =
        [st EXCEPT !.chunks = chunks, !.states = states, !.edges = edges]
  BY DEF UpdateFilePaths
<1>2. ASSUME NEW f \in Files, chunks[f] # {}
      PROVE  states[f] # NONE
  <2>1. PICK o \in Files : To(o) = f /\ st.chunks[o] # {}
    BY <1>2
  <2>2. st.states[o] # NONE /\ f # r[1]
    BY <2>1 DEF Covered
  <2>3. CASE o = r[1]
    BY <2>1, <2>2, <2>3
  <2>4. CASE o # r[1]
    BY <2>1, <2>2, <2>4
  <2> QED
    BY <2>3, <2>4
<1> HIDE DEF chunks, states, edges
<1> QED
  BY <1>1, <1>2 DEF Covered, StoreType

LEMMA SwapCovered ==
    ASSUME NEW st \in StoreType, NEW paths, NEW sources \in SUBSET Files,
           NEW read \in Tree, NEW discovered \in SUBSET Files, Covered(st),
           \A f \in sources : read[f] # NONE => st.states[f] # NONE
    PROVE  Covered(DeleteAndInsertForFiles(st, paths, sources, read, discovered))
<1> DEFINE cut    == DeleteEdgesForFiles(DeleteChunksForFiles(st, paths), paths)
           new    == UNION {ChunksOf(read, f) : f \in sources}
           chunks == [f \in Files |-> (cut.chunks[f] \ new) \cup {i \in new : i[1] = f}]
           edges  == cut.edges \cup UNION {EdgesOf(read, f, discovered) : f \in sources}
<1>1. DeleteAndInsertForFiles(st, paths, sources, read, discovered) =
        [cut EXCEPT !.chunks = chunks, !.edges = edges]
  BY DEF DeleteAndInsertForFiles
<1>2. cut \in StoreType /\ Covered(cut) /\ cut.states = st.states
  BY DeleteChunksTyped, DeleteEdgesTyped, DeleteRowsCovered
<1>3. \A i \in new : i[1] \in sources /\ read[i[1]] # NONE
  BY DEF ChunksOf
<1> HIDE DEF cut, new
<1>4. ASSUME NEW f \in Files, chunks[f] # {}
      PROVE  cut.states[f] # NONE
  <2>1. CASE cut.chunks[f] # {}
    BY <1>2, <2>1 DEF Covered
  <2>2. CASE \E i \in new : i[1] = f
    BY <1>2, <1>3, <2>2
  <2> QED
    BY <1>4, <2>1, <2>2
<1> HIDE DEF chunks, edges
<1> QED
  BY <1>1, <1>2, <1>4 DEF Covered, StoreType

---------------------------------------------------------------------------
(* With one caller, a step is judged by its own call.                      *)

LEMMA OneCaller ==
    ASSUME Serial, NEW p \in Procs, NoOrphanChunks', CallCovered(p)'
    PROVE  Orphanless'
<1> SUFFICES ASSUME NEW q \in Procs PROVE CallCovered(q)'
  BY DEF Orphanless
<1>1. q = p
  BY DEF Serial
<1> QED
  BY <1>1

\* A transaction of a delta reaches one database, the one its call has open.
LEMMA WriteCovered ==
    ASSUME IInv, Orphanless, NEW p \in Procs, NEW st \in StoreType, Covered(st),
           Write(p, st), call'[p].path = call[p].path, call'[p].detached = call[p].detached
    PROVE  NoOrphanChunks' /\ Handle(p)' = st
<1>1. call[p].path # NONE => call[p].path \in Path
  BY DEF IInv, TypeOK, CallType
<1>2. Handle(p)' = st
  BY <1>1 DEF Handle, OwnFile, Write, IInv, TypeOK
<1>3. \A x \in Path : dbs'[x] = dbs[x] \/ dbs'[x] = st
  BY DEF Write, IInv, TypeOK
<1> QED
  BY <1>2, <1>3 DEF NoOrphanChunks, Orphanless, Covered

LEMMA RenameStep ==
    ASSUME IInv, Serial, Orphanless, NEW p \in Procs, RenamePath(p)
    PROVE  Orphanless'
<1>1. PICK r \in call[p].renames :
        /\ Write(p, UpdateFilePaths(Handle(p), r))
        /\ call' = [call EXCEPT ![p].renames = @ \ {r}]
  BY DEF RenamePath
<1>2. /\ pc[p] = "rename" /\ pc' = pc /\ call[p] \in CallType
      /\ Handle(p) \in StoreType /\ Covered(Handle(p)) /\ r[1] # r[2]
  BY DEF RenamePath, At, IInv, TypeOK, OpenHandles, DeltaOpen, Orphanless, CallCovered
<1>3. r \in Files \X Files
  BY <1>2 DEF CallType
<1>4. /\ call'[p].renames = call[p].renames \ {r} /\ call'[p].path = call[p].path
      /\ call'[p].detached = call[p].detached
  BY <1>1, <1>2 DEF CallType, IInv, TypeOK
<1> DEFINE st == UpdateFilePaths(Handle(p), r)
<1>5. st \in StoreType /\ Covered(st)
  BY <1>2, <1>3, UpdatePathsTyped, RenameCovered
<1>6. Write(p, st)
  BY <1>1
<1> HIDE DEF st
<1>7. NoOrphanChunks' /\ Handle(p)' = st
  BY <1>4, <1>5, <1>6, WriteCovered
<1>8. CallCovered(p)'
  BY <1>2, <1>4, <1>5, <1>7 DEF CallCovered, Orphanless
<1> QED
  BY <1>7, <1>8, OneCaller

LEMMA DeltaSteps ==
    ASSUME IInv, Serial, Orphanless, NEW p \in Procs,
           \/ DeleteRows(p) \/ ForgetStates(p) \/ RecordStates(p) \/ SwapRows(p)
           \/ UpdateBm25(p) \/ SetCommit(p) \/ SetSignature(p) \/ Finalize(p)
    PROVE  Orphanless'
<1> DEFINE st == Handle(p)
           c  == call[p]
<1>1. /\ pc[p] \in DeltaOpen /\ call' = call /\ UNCHANGED <<tree, metas>>
  BY DEF DeltaOpen, At, DeleteRows, ForgetStates, RecordStates, SwapRows, UpdateBm25,
         SetCommit, SetSignature, Finalize, repoVars
<1>2. st \in StoreType /\ Covered(st)
  BY <1>1 DEF IInv, OpenHandles, Orphanless, CallCovered
<1>3. /\ c.manifest.deleted \subseteq Files /\ c.sources \in SUBSET Files
      /\ c.read \in Tree /\ c.discovered \in SUBSET Files
      /\ c.current \in Commit \cup {NONE} /\ c.signature \in SignatureType
      /\ c.config \in Configs \cup {NONE}
  BY DEF IInv, TypeOK, CallType, ManifestType
<1>4. tree \in Tree
  BY DEF IInv, TypeOK, RepoTypeOK
<1> SUFFICES \E new \in StoreType, label \in Label :
                /\ Write(p, new) /\ Covered(new) /\ pc' = [pc EXCEPT ![p] = label]
                /\ label \notin {"full_states", "rename", "states"}
                /\ label = "forget" => \A f \in c.manifest.deleted : new.chunks[f] = {}
                /\ label = "swap" => \A f \in c.sources :
                                        c.read[f] # NONE => new.states[f] # NONE
  <2>1. PICK new \in StoreType, label \in Label :
          /\ Write(p, new) /\ Covered(new) /\ pc' = [pc EXCEPT ![p] = label]
          /\ label \notin {"full_states", "rename", "states"}
          /\ label = "forget" => \A f \in c.manifest.deleted : new.chunks[f] = {}
          /\ label = "swap" => \A f \in c.sources :
                                  c.read[f] # NONE => new.states[f] # NONE
    OBVIOUS
  <2>2. NoOrphanChunks' /\ Handle(p)' = new
    BY <1>1, <2>1, WriteCovered
  <2>3. pc'[p] = label
    BY <2>1 DEF IInv, TypeOK
  <2>4. CallCovered(p)'
    BY <1>1, <2>1, <2>2, <2>3 DEF CallCovered
  <2> QED
    BY <2>2, <2>4, OneCaller
<1>5. CASE DeleteRows(p)
  <2> DEFINE gone == c.manifest.deleted
             new  == DeleteEdgesForFiles(DeleteChunksForFiles(st, gone), gone)
  <2>1. new \in StoreType
    BY <1>2, DeleteChunksTyped, DeleteEdgesTyped
  <2>2. Covered(new) /\ \A f \in gone : new.chunks[f] = {}
    BY <1>2, <1>3, DeleteRowsCovered
  <2>3. Write(p, new) /\ pc' = [pc EXCEPT ![p] = "forget"]
    BY <1>5 DEF DeleteRows, Goto
  <2> HIDE DEF new
  <2> QED
    BY <2>1, <2>2, <2>3 DEF Label, DeltaOpen
<1>6. CASE ForgetStates(p)
  <2>1. \A f \in c.manifest.deleted : st.chunks[f] = {}
    BY <1>6 DEF ForgetStates, At, Orphanless, CallCovered
  <2>2. Covered(DeleteFileStates(st, c.manifest.deleted))
    BY <1>2, <1>3, <2>1, ForgetCovered
  <2>3. DeleteFileStates(st, c.manifest.deleted) \in StoreType
    BY <1>2, DeleteStatesTyped
  <2> QED
    BY <1>6, <2>2, <2>3 DEF ForgetStates, Goto, Label, DeltaOpen
<1>7. CASE RecordStates(p)
  <2>1. c.read = tree
    BY <1>7 DEF RecordStates, At, Orphanless, CallCovered
  <2> DEFINE new == UpsertFileStates(st, c.sources, tree)
  <2>2. new \in StoreType
    BY <1>2, <1>4, UpsertStatesTyped
  <2>3. Covered(new) /\ \A f \in c.sources : c.read[f] # NONE => new.states[f] # NONE
    BY <1>2, <1>3, <1>4, <2>1, UpsertCovered
  <2> QED
    BY <1>7, <2>2, <2>3 DEF RecordStates, Goto, Label, DeltaOpen
<1>8. CASE SwapRows(p)
  <2> DEFINE new == DeleteAndInsertForFiles(st, RemovePaths(c.manifest), c.sources,
                                            c.read, c.discovered)
  <2>1. \A f \in c.sources : c.read[f] # NONE => st.states[f] # NONE
    BY <1>8 DEF SwapRows, At, Orphanless, CallCovered
  <2>2. new \in StoreType /\ Covered(new)
    BY <1>2, <1>3, <2>1, SwapTyped, SwapCovered
  <2> QED
    BY <1>8, <2>2 DEF SwapRows, Goto, Label, DeltaOpen
<1>9. CASE UpdateBm25(p)
  <2> DEFINE new == IF c.rebuild THEN Bm25Build(st) ELSE Bm25Update(st, c.sources, c.read)
  <2>1. new \in StoreType
    BY <1>2, BuildTyped, UpdateBm25Typed
  <2>2. Covered(new)
    BY <1>2 DEF Covered, Bm25Build, Bm25Update, StoreType
  <2> QED
    BY <1>9, <2>1, <2>2 DEF UpdateBm25, Goto, Label, DeltaOpen
<1>10. CASE SetCommit(p)
  <2> DEFINE new == [st EXCEPT !.commit = c.current]
  <2>1. new \in StoreType /\ Covered(new)
    BY <1>2, <1>3 DEF StoreType, Covered
  <2> QED
    BY <1>10, <2>1 DEF SetCommit, Goto, Label, DeltaOpen
<1>11. CASE SetSignature(p)
  <2> DEFINE new == [st EXCEPT !.signature = c.signature]
  <2>1. new \in StoreType /\ Covered(new)
    BY <1>2, <1>3 DEF StoreType, Covered
  <2> QED
    BY <1>11, <2>1 DEF SetSignature, Goto, Label, DeltaOpen
<1>12. CASE Finalize(p)
  <2> DEFINE new == FinalizeGenerationId(st, c.config)
  <2>1. new \in StoreType
    BY <1>2, <1>3, GenerationTyped
  <2>2. Covered(new)
    BY <1>2 DEF FinalizeGenerationId, Covered, StoreType
  <2>3. Write(p, new) /\ \E label \in {"done", "put_db"} : pc' = [pc EXCEPT ![p] = label]
    BY <1>12 DEF Finalize, Goto
  <2> QED
    BY <2>1, <2>2, <2>3 DEF Label, DeltaOpen
<1> QED
  BY <1>5, <1>6, <1>7, <1>8, <1>9, <1>10, <1>11, <1>12

LEMMA ReadSourcesStep ==
    ASSUME IInv, Serial, Orphanless, NEW p \in Procs, ReadSources(p)
    PROVE  Orphanless'
<1>1. /\ pc[p] = "read" /\ pc'[p] = "states" /\ UNCHANGED <<dbs, scratch, tree>>
      /\ call[p] \in CallType
  BY DEF ReadSources, At, Goto, IInv, TypeOK, repoVars, diskVars
<1>2. /\ call'[p].path = call[p].path /\ call'[p].detached = call[p].detached
      /\ call'[p].read = tree
  BY <1>1 DEF ReadSources, CallType, IInv, TypeOK
<1>3. NoOrphanChunks'
  BY <1>1 DEF Orphanless, NoOrphanChunks
<1>4. Handle(p)' = Handle(p) /\ Covered(Handle(p))
  BY <1>1, <1>2 DEF Handle, OwnFile, Orphanless, CallCovered, DeltaOpen
<1>5. CallCovered(p)'
  BY <1>1, <1>2, <1>4 DEF CallCovered
<1> QED
  BY <1>3, <1>5, OneCaller

\* A manifest never renames a path to itself.
LEMMA ManifestRenames ==
    ASSUME NEW p \in Procs, NEW m \in Manifests(p), NEW r \in m.renamed
    PROVE  r[1] # r[2]
<1>1. ASSUME NEW gone, NEW come, gone \cap come = {}, NEW old, NEW new, NEW both,
             NEW R \in Pairings(gone, come), m = Classified(old, new, gone, come, both, R)
      PROVE  r[1] # r[2]
  <2>1. m.renamed = R
    BY <1>1 DEF Classified
  <2> QED
    BY <1>1, <2>1 DEF Pairings
<1>2. CASE m \in GitDiffs(call[p].base, call[p].current)
  <2> DEFINE old  == history[call[p].base]
             new  == history[call[p].current]
             gone == Present(old) \ Present(new)
             come == Present(new) \ Present(old)
  <2>1. \E R \in Pairings(gone, come) :
          m = Classified(old, new, gone, come, Present(old) \cap Present(new), R)
    BY <1>2 DEF GitDiffs
  <2>2. gone \cap come = {}
    OBVIOUS
  <2> HIDE DEF old, new, gone, come
  <2> QED
    BY <1>1, <2>1, <2>2
<1>3. CASE m \in WorkingTreeDeltas(Opened(call[p].path))
  <2> DEFINE st   == Opened(call[p].path)
             old  == st.states
             gone == Present(old) \ Present(tree)
             come == Present(tree) \ Present(old)
  <2>1. Present(old) # {}
    BY <1>3 DEF WorkingTreeDeltas, MtimeDeltas
  <2>2. \E R \in Pairings(gone, come) :
          m = Classified(old, tree, gone, come, Present(old) \cap Present(tree), R)
    BY <1>3, <2>1 DEF WorkingTreeDeltas
  <2>3. gone \cap come = {}
    OBVIOUS
  <2> HIDE DEF st, old, gone, come
  <2> QED
    BY <1>1, <2>2, <2>3
<1> QED
  BY <1>2, <1>3 DEF Manifests

LEMMA OpeningSteps ==
    ASSUME IInv, Serial, Orphanless, NEW p \in Procs,
           ComputeManifest(p) \/ GitFails(p)
    PROVE  Orphanless'
<1> DEFINE path == call[p].path
<1>1. path \in Path /\ ~ call[p].detached /\ call[p] \in CallType
  BY DEF ComputeManifest, GitFails, At, IInv, OpenHandles, DeltaOpen, TypeOK
<1>2. dbs' = dbs \/ dbs' = [dbs EXCEPT ![path] = Opened(path)]
  BY DEF ComputeManifest, GitFails
<1>3. NoOrphanChunks'
  <2>1. \A x \in Path : dbs'[x] = dbs[x] \/ dbs'[x] = EmptyStore
    BY <1>2 DEF Opened, IInv, TypeOK
  <2> QED
    BY <2>1, EmptyStoreCovered DEF NoOrphanChunks, Orphanless, Covered
<1>4. CallCovered(p)'
  <2>1. CASE GitFails(p)
    <3>1. pc'[p] = "full"
      BY <2>1 DEF GitFails, Goto, IInv, TypeOK
    <3> QED
      BY <3>1 DEF CallCovered, DeltaOpen
  <2>2. CASE ComputeManifest(p)
    <3>1. PICK m \in Manifests(p) :
            LET over == TooLarge(m) /\ ~ NothingToDo(p, m)
            IN  /\ IF over /\ call[p].base # call[p].current
                   THEN UNCHANGED dbs
                   ELSE dbs' = [dbs EXCEPT ![path] = Opened(path)]
                /\ call' = IF over THEN [call EXCEPT ![p].path = NONE]
                           ELSE [call EXCEPT ![p].manifest = m,
                                             ![p].renames = m.renamed,
                                             ![p].rebuild = ~ HasData(Opened(path))]
                /\ Goto(p, IF over THEN "full"
                           ELSE IF NothingToDo(p, m) THEN "sign" ELSE "rename")
      BY <2>2 DEF ComputeManifest
    <3>2. CASE TooLarge(m) /\ ~ NothingToDo(p, m)
      <4>1. pc'[p] = "full"
        BY <3>1, <3>2 DEF Goto, IInv, TypeOK
      <4> QED
        BY <4>1 DEF CallCovered, DeltaOpen
    <3>3. CASE ~ (TooLarge(m) /\ ~ NothingToDo(p, m))
      <4>1. pc'[p] \in {"sign", "rename"}
        BY <3>1, <3>3 DEF Goto, IInv, TypeOK
      <4>2. call'[p] = [call[p] EXCEPT !.manifest = m, !.renames = m.renamed,
                                       !.rebuild = ~ HasData(Opened(path))]
        BY <3>1, <3>3 DEF IInv, TypeOK
      <4>3. /\ call'[p].path = path /\ ~ call'[p].detached
            /\ call'[p].renames = m.renamed
        BY <1>1, <4>2 DEF CallType
      <4>4. Handle(p)' = Opened(path)
        <5>1. dbs' = [dbs EXCEPT ![path] = Opened(path)]
          BY <3>1, <3>3
        <5> QED
          BY <1>1, <4>3, <5>1, PathAssumption DEF Handle, OwnFile, IInv, TypeOK
      <4>5. Covered(Opened(path))
        BY <1>1, EmptyStoreCovered DEF Opened, Orphanless, NoOrphanChunks, Covered
      <4> QED
        BY <4>1, <4>3, <4>4, <4>5, ManifestRenames DEF CallCovered
    <3> QED
      BY <3>2, <3>3
  <2> QED
    BY <2>1, <2>2
<1> QED
  BY <1>3, <1>4, OneCaller

\* Steps that leave no store open for the call, and write no row.
LEMMA QuietStep ==
    ASSUME Serial, Orphanless, NEW p \in Procs, pc'[p] \notin DeltaOpen \cup FullOpen,
           \A x \in Path : dbs'[x] = dbs[x] \/ dbs'[x] = NONE
    PROVE  Orphanless'
<1>1. NoOrphanChunks'
  BY DEF Orphanless, NoOrphanChunks
<1>2. CallCovered(p)'
  BY DEF CallCovered, DeltaOpen, FullOpen
<1> QED
  BY <1>1, <1>2, OneCaller

LEMMA UserStep ==
    ASSUME IInv, Serial, Orphanless, User
    PROVE  Orphanless'
<1>1. Idle /\ pc' = pc /\ dbs' = dbs
  BY DEF User, UserEdits, UserCommits, UserChecksOut, Moved, Serial, procVars, diskVars
<1>2. NoOrphanChunks'
  BY <1>1 DEF Orphanless, NoOrphanChunks
<1>3. \A p \in Procs : CallCovered(p)'
  BY <1>1 DEF Idle, CallCovered, DeltaOpen
<1> QED
  BY <1>2, <1>3 DEF Orphanless

LEMMA QuietSteps ==
    ASSUME IInv, Serial, Orphanless, NEW p \in Procs,
           \/ \E cfg \in Configs : Begin(p, cfg)
           \/ TakeSignature(p) \/ CacheHit(p) \/ CacheReject(p) \/ FindStore(p)
           \/ NoUsableStore(p) \/ PutMeta(p) \/ Reset(p)
    PROVE  Orphanless'
<1>1. \E label \in {"idle", "signature", "lookup", "find", "manifest", "full", "done"} :
        pc' = [pc EXCEPT ![p] = label]
  BY DEF Begin, TakeSignature, CacheHit, CacheReject, FindStore, NoUsableStore, PutMeta,
         Reset, Goto
<1>2. pc'[p] \notin DeltaOpen \cup FullOpen
  BY <1>1 DEF IInv, TypeOK, DeltaOpen, FullOpen
<1>3. \A x \in Path : dbs'[x] = dbs[x] \/ dbs'[x] = NONE
  <2>1. CASE CacheReject(p)
    BY <2>1 DEF CacheReject, IInv, TypeOK, diskVars
  <2>2. CASE PutMeta(p)
    BY <2>2 DEF PutMeta
  <2>3. CASE ~ CacheReject(p) /\ ~ PutMeta(p)
    BY <2>3 DEF Begin, TakeSignature, CacheHit, FindStore, NoUsableStore, Reset, diskVars
  <2> QED
    BY <2>1, <2>2, <2>3
<1> QED
  BY <1>2, <1>3, QuietStep

LEMMA FullSteps ==
    ASSUME IInv, Serial, Orphanless, NEW p \in Procs, FullIndex(p)
    PROVE  Orphanless'
<1>1. NoOrphanChunks' /\ tree' = tree /\ tree \in Tree
  BY DEF FullIndex, FullRead, FullStates, FullCommit, FullSign, diskVars, repoVars,
         Orphanless, NoOrphanChunks, IInv, TypeOK, RepoTypeOK
<1>2. CASE FullRead(p)
  <2>1. /\ pc'[p] = "full_states" /\ scratch'[p] = FullRows(tree)
        /\ call'[p].sources = Present(tree)
    BY <1>2 DEF FullRead, Goto, IInv, TypeOK, CallType
  <2>2. \A f \in Files : FullRows(tree).chunks[f] # {} => tree[f] # NONE
    BY DEF FullRows, Bm25Build, EmptyStore, ChunksOf
  <2>3. CallCovered(p)'
    BY <1>1, <2>1, <2>2 DEF CallCovered, Present, DeltaOpen
  <2> QED
    BY <1>1, <2>3, OneCaller
<1>3. CASE FullStates(p) \/ FullCommit(p) \/ FullSign(p)
  <2>1. pc[p] \in FullOpen /\ call[p].path = NONE /\ call' = call
    BY <1>3 DEF FullStates, FullCommit, FullSign, At, FullOpen, IInv, OpenHandles
  <2>2. scratch[p] \in StoreType /\ Handle(p)' = scratch'[p] /\ Handle(p) = scratch[p]
    BY <2>1 DEF IInv, OpenHandles, Handle, OwnFile
  <2> SUFFICES Covered(scratch'[p]) /\ pc'[p] \in {"full_commit", "full_sign", "put_db"}
    BY <1>1, <2>2, OneCaller DEF CallCovered
  <2>3. CASE FullStates(p)
    <3> DEFINE new == UpsertFileStates(scratch[p], call[p].sources, tree)
    <3>1. \A f \in Files : scratch[p].chunks[f] # {} =>
            f \in call[p].sources /\ tree[f] # NONE
      BY <2>3 DEF FullStates, At, Orphanless, CallCovered
    <3>2. Covered(new)
      BY <1>1, <2>2, <3>1, UpsertCovered DEF Covered
    <3>3. scratch'[p] = new /\ pc'[p] = "full_commit"
      BY <2>3 DEF FullStates, Goto, IInv, TypeOK
    <3> QED
      BY <3>2, <3>3
  <2>4. CASE FullCommit(p) \/ FullSign(p)
    <3>1. Covered(scratch[p])
      BY <2>2, <2>4 DEF FullCommit, FullSign, At, Orphanless, CallCovered
    <3>2. scratch'[p].chunks = scratch[p].chunks /\ scratch'[p].states = scratch[p].states
      <4>1. CASE FullCommit(p)
        <5>1. scratch'[p] = [scratch[p] EXCEPT !.config = call[p].config, !.commit = head]
          BY <4>1 DEF FullCommit, IInv, TypeOK
        <5> QED
          BY <2>2, <5>1 DEF StoreType
      <4>2. CASE FullSign(p)
        <5>1. scratch'[p] = FinalizeGenerationId(
                  [scratch[p] EXCEPT !.signature = WorkingTreeSignature], call[p].config)
          BY <4>2 DEF FullSign, IInv, TypeOK
        <5> QED
          BY <2>2, <5>1 DEF FinalizeGenerationId, StoreType
      <4> QED
        BY <2>4, <4>1, <4>2
    <3>3. pc'[p] \in {"full_sign", "put_db"}
      BY <2>4 DEF FullCommit, FullSign, Goto, IInv, TypeOK
    <3> QED
      BY <3>1, <3>2, <3>3 DEF Covered
  <2> QED
    BY <1>3, <2>3, <2>4
<1> QED
  BY <1>2, <1>3 DEF FullIndex

LEMMA PutDbStep ==
    ASSUME IInv, Serial, Orphanless, NEW p \in Procs, PutDb(p)
    PROVE  Orphanless'
<1> DEFINE dest == DbPath(call[p].key)
<1>1. pc[p] = "put_db" /\ pc'[p] = "put_meta" /\ Covered(Handle(p))
  BY DEF PutDb, At, Goto, IInv, TypeOK, Orphanless, CallCovered, DeltaOpen
<1>2. call[p].path # NONE => call[p].path \in Path
  BY DEF IInv, TypeOK, CallType
<1>3. CASE call[p].path = dest
  <2>1. UNCHANGED <<dbs, call, scratch>>
    BY <1>3 DEF PutDb
  <2>2. NoOrphanChunks' /\ Handle(p)' = Handle(p)
    BY <2>1 DEF Orphanless, NoOrphanChunks, Handle, OwnFile
  <2>3. CallCovered(p)'
    BY <1>1, <2>2 DEF CallCovered
  <2> QED
    BY <2>2, <2>3, OneCaller
<1>4. CASE call[p].path # dest
  <2>1. /\ PutSource(p) # NONE
        /\ dbs' = [dbs EXCEPT ![dest] = PutSource(p)]
        /\ call'[p] = call[p] /\ scratch'[p] = scratch[p]
    BY <1>4 DEF PutDb, Detach
  <2>2. Covered(PutSource(p))
    <3>1. CASE call[p].path = NONE
      BY <1>1, <3>1 DEF PutSource, Handle, OwnFile
    <3>2. CASE call[p].path # NONE
      BY <1>2, <2>1, <3>2 DEF PutSource, Orphanless, NoOrphanChunks, Covered
    <3> QED
      BY <3>1, <3>2
  <2>3. \A x \in Path : dbs'[x] = dbs[x] \/ dbs'[x] = PutSource(p)
    BY <2>1 DEF IInv, TypeOK
  <2>4. NoOrphanChunks'
    BY <2>2, <2>3 DEF Orphanless, NoOrphanChunks, Covered
  <2>5. Handle(p)' = Handle(p)
    BY <1>2, <1>4, <2>1 DEF Handle, OwnFile, IInv, TypeOK
  <2>6. CallCovered(p)'
    BY <1>1, <2>5 DEF CallCovered
  <2> QED
    BY <2>4, <2>6, OneCaller
<1> QED
  BY <1>3, <1>4

---------------------------------------------------------------------------
LEMMA OrphanlessInit == Init => Orphanless
BY DEF Init, Orphanless, NoOrphanChunks, CallCovered, DeltaOpen

LEMMA OrphanlessNext ==
    ASSUME IInv, Serial, Orphanless, [Next]_vars
    PROVE  Orphanless'
<1>1. CASE User
  BY <1>1, UserStep
<1>2. ASSUME NEW p \in Procs, Step(p)
      PROVE  Orphanless'
  <2>1. CASE TryDelta(p)
    BY <2>1, QuietSteps, OpeningSteps, RenameStep, ReadSourcesStep, DeltaSteps
       DEF TryDelta, ApplyDelta, RenameRaises
  <2>2. CASE PutRaises(p)
    BY <2>2, QuietSteps DEF PutRaises
  <2> QED
    BY <1>2, <2>1, <2>2, QuietSteps, FullSteps, PutDbStep DEF Step
<1>3. ASSUME NEW p \in Procs,
             (\E cfg \in Configs : Begin(p, cfg)) \/ Close(p) \/ Crash(p)
      PROVE  Orphanless'
  BY <1>3, QuietSteps DEF Close, Crash
<1>4. CASE UNCHANGED vars
  BY <1>4 DEF vars, repoVars, diskVars, procVars, Orphanless, NoOrphanChunks,
              CallCovered, Handle, OwnFile
<1> QED
  BY <1>1, <1>2, <1>3, <1>4 DEF Next

\* A path that owns chunks owns a file state in every database at every moment:
\* between the transactions of a delta, after a crash there, after an eviction.
THEOREM NoOrphans ==
    ASSUME Serial
    PROVE  Spec => []NoOrphanChunks
<1>1. Init => IInv /\ Orphanless
  BY InitTyped, OrphanlessInit
<1>2. IInv /\ Orphanless /\ [Next]_vars => IInv' /\ Orphanless'
  BY NextTyped, OrphanlessNext
<1>3. Orphanless => NoOrphanChunks
  BY DEF Orphanless
<1> QED
  BY <1>1, <1>2, <1>3, PTL DEF Spec

===========================================================================
