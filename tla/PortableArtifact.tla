-------------------------- MODULE PortableArtifact --------------------------
(***************************************************************************)
(* The portable index artifact (index/artifact.py) and the command that    *)
(* starts a project from one (cli/init_cmd.py).  An artifact is a copy of  *)
(* an index database without the full-text tables.  `archex init           *)
(* --from-artifact` writes it over .archex/index.db, builds the full-text  *)
(* rows, and brings the store up to the working tree with apply_delta, the *)
(* very steps EnsureIndex takes for a delta, or with a full index.  It     *)
(* never touches .archex/index.meta.                                       *)
(*                                                                         *)
(* The artifact may be of any earlier state of this repository.  Its       *)
(* header checks and the decompression cap decide before anything is       *)
(* written whether there is an import at all.                              *)
(***************************************************************************)
EXTENDS EnsureIndex

CONSTANTS
    Reimport,      \* TRUE: also into a project that has an index already
    MaxImports     \* bound: init --from-artifact

ASSUME ArtifactAssumption ==
    ProjectLayout /\ Reimport \in BOOLEAN /\ MaxImports \in Nat

VARIABLES
    artifact,      \* the store an artifact file holds, or NONE
    importing,     \* the processes whose call is an init --from-artifact
    imports

artifactVars == <<artifact, importing, imports>>
allVars == <<vars, artifactVars>>

\* .archex/index.db
Dest == DbPath(head)

ArtifactInit == Init /\ artifact = NONE /\ importing = {} /\ imports = 0

\* What EnsureIndex does, as long as nobody imports.
Ordinary(A) == importing = {} /\ A /\ UNCHANGED artifactVars

---------------------------------------------------------------------------
\* VACUUM INTO a copy, without the tables that are derived from chunks.
Stripped(st) == [st EXCEPT !.fts = [i \in ChunkId |-> 0]]

\* `archex index --export-artifact`: refused for a store without a commit.
ExportArtifact ==
    /\ Idle /\ dbs[Dest] # NONE
    /\ dbs[Dest].commit # NONE
    /\ artifact # Stripped(dbs[Dest])
    /\ artifact' = Stripped(dbs[Dest])
    /\ UNCHANGED <<vars, importing, imports>>

\* `archex reset --force`, or a fresh clone of the repository.
ResetProject ==
    /\ Idle /\ dbs[Dest] # NONE
    /\ dbs' = [dbs EXCEPT ![Dest] = NONE]
    /\ metas' = [metas EXCEPT ![Dest] = NONE]
    /\ UNCHANGED <<repoVars, procVars, seen, moves, crashes, artifactVars>>

BeginImport(p, cfg) ==
    /\ Idle /\ imports < MaxImports
    /\ artifact # NONE
    /\ CleanCallsOnly => Dirty = {}
    /\ Reimport \/ metas[Dest] = NONE
    /\ imports' = imports + 1
    /\ importing' = {p}
    /\ call' = [call EXCEPT ![p] = [NoCall EXCEPT !.key = head, !.config = cfg, !.path = Dest]]
    /\ seen' = [seen EXCEPT ![p] = {tree}]
    /\ Goto(p, "import")
    /\ UNCHANGED <<repoVars, diskVars, scratch, result, moves, crashes, artifact>>

\* The old file, its -wal and its -shm give way to the payload.
WritePayload(p) ==
    /\ At(p, "import")
    /\ dbs' = [dbs EXCEPT ![Dest] = artifact]
    /\ Goto(p, "import_fts")
    /\ UNCHANGED <<repoVars, metas, call, scratch, result, seen, moves, crashes, artifactVars>>

\* Mutant of RebuildFts: the derived tables come back with the next update.
SkipFts(st) == st

RebuildFts(st) == Bm25Build(st)

BuildFts(p) ==
    /\ At(p, "import_fts")
    /\ dbs' = [dbs EXCEPT ![Dest] = RebuildFts(dbs[Dest])]
    /\ Goto(p, "sync")
    /\ UNCHANGED <<repoVars, metas, call, scratch, result, seen, moves, crashes, artifactVars>>

\* Mutant of SyncManifests: the commit of the artifact is compared with HEAD.
CommitManifests == GitDiffs(dbs[Dest].commit, head)

SyncManifests == WorkingTreeDeltas(dbs[Dest])

Finish(p) ==
    /\ importing' = {}
    /\ Reset(p)
    /\ UNCHANGED <<artifact, imports, crashes>>

\* No change: "clean", the metadata stays the artifact's.  Too many: a full
\* index.  Else apply_delta, whose manifest names HEAD.
SyncDelta(p) ==
    /\ At(p, "sync")
    /\ \E m \in SyncManifests :
        /\ m # NoChanges
        /\ IF TooLarge(m)
           THEN Goto(p, "full") /\ UNCHANGED call
           ELSE /\ call' = [call EXCEPT ![p].manifest = m, ![p].renames = m.renamed,
                                        ![p].current = head, ![p].base = dbs[Dest].commit,
                                        ![p].rebuild = ~ HasData(dbs[Dest])]
                /\ Goto(p, "rename")
    /\ UNCHANGED <<repoVars, diskVars, scratch, result, seen, moves, crashes, artifactVars>>

SyncClean(p) == At(p, "sync") /\ NoChanges \in SyncManifests /\ Goto(p, "synced")
    /\ UNCHANGED <<repoVars, diskVars, call, scratch, result, seen, moves, crashes, artifactVars>>

\* DeltaIndexError: the command reports it, and leaves the store as it is.
SyncFails(p) == At(p, "sync") /\ Finish(p)

\* sync_imported_artifact does not go on to signature, generation and put.
SyncApplied(p) ==
    /\ p \in importing /\ At(p, "sign")
    /\ Goto(p, "synced")
    /\ UNCHANGED <<repoVars, diskVars, call, scratch, result, seen, moves, crashes, artifactVars>>

\* _full_reindex_in_place copies the scratch database onto index.db.
SyncReplaced(p) ==
    /\ p \in importing /\ At(p, "put_db")
    /\ dbs' = [dbs EXCEPT ![Dest] = scratch[p]]
    /\ Goto(p, "synced")
    /\ UNCHANGED <<repoVars, metas, call, scratch, result, seen, moves, crashes, artifactVars>>

\* The command reports what it did, and ends.
EndImport(p) == At(p, "synced") /\ Finish(p)

ImportCrash(p) ==
    /\ p \in importing
    /\ Crash(p)
    /\ importing' = {}
    /\ UNCHANGED <<artifact, imports>>

\* The steps of EnsureIndex that an import takes as well.
SyncStep(p) ==
    /\ p \in importing
    /\ ApplyDelta(p) \/ FullIndex(p)
    /\ UNCHANGED artifactVars

Import(p) ==
    \/ WritePayload(p) \/ BuildFts(p)
    \/ SyncDelta(p) \/ SyncClean(p) \/ SyncFails(p) \/ SyncStep(p)
    \/ SyncApplied(p) \/ SyncReplaced(p) \/ EndImport(p)

ArtifactNext ==
    \/ Ordinary(Next)
    \/ ExportArtifact \/ ResetProject
    \/ \E p \in Procs :
        \/ \E cfg \in Configs : BeginImport(p, cfg)
        \/ Import(p)

ArtifactSpec == ArtifactInit /\ [][ArtifactNext]_allVars

\* The process of an import may also be killed.
ArtifactCrashSpec == ArtifactInit /\ [][ArtifactNext \/ \E p \in Procs : ImportCrash(p)]_allVars

ArtifactFairSpec ==
    /\ ArtifactSpec
    /\ \A p \in Procs : WF_allVars(Ordinary(Step(p) \/ Close(p)) \/ Import(p))

---------------------------------------------------------------------------
(* Properties.                                                             *)

\* Whatever state the artifact was exported from, dirty or at another commit,
\* once the sync has run the store serves the working tree (artifact.py
\* sync_imported_artifact: "bring a freshly-imported artifact store up to date").
SyncedIsTheTree ==
    \A p \in importing : pc[p] = "synced" => Serves(dbs[Dest], tree)

\* "a failed import is always loud and never partial" (artifact.py import_artifact,
\* whose first line promises "a ready-to-use store"): a store that lies in the
\* project while no call is at work has the full-text row of each of its chunks.
NeverPartial ==
    Idle /\ dbs[Dest] # NONE => \A i \in AllChunks(dbs[Dest]) : dbs[Dest].fts[i] > 0

=============================================================================
