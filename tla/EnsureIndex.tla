---------------------------- MODULE EnsureIndex ----------------------------
(***************************************************************************)
(* api.py _ensure_index: every query, scout, watch refresh and `archex     *)
(* index` obtains its index store through it.  A call tries, in order, the *)
(* exact cache hit, the in-place delta and the full rebuild.  One action   *)
(* is one committed effect on the shared cache directory, or one reading   *)
(* of the repository; between two actions the repository may change,       *)
(* another call may run, or the process may die.                           *)
(*                                                                         *)
(* The cache directory has one of two layouts: the project layout keeps    *)
(* one database for whatever commit was indexed last, the keyed layout one *)
(* database per commit.  A caller whose database file is replaced or       *)
(* unlinked keeps the file it had opened, as an open inode does.           *)
(***************************************************************************)
EXTENDS Repository

CONSTANTS
    Procs,           \* concurrent callers: CLI processes, server threads
    Configs,         \* index configurations a caller may ask for
    ProjectLayout,   \* TRUE: .archex/index.db, FALSE: <key>.db
    DeltaThreshold,  \* config.delta_threshold in percent of the files; above
                     \* 100: the files here are a few of a large repository
    Moves,           \* what the user does: "edit", "commit", "checkout"
    EditDuringCalls, \* TRUE: the user does not wait for running calls
    CleanCallsOnly,  \* TRUE: archex is only run on a clean checkout
    MaxMoves,        \* bound: moves of the user
    MaxCrashes       \* bound: processes killed in the middle of a call

ASSUME EnsureIndexAssumption ==
    /\ ProjectLayout \in BOOLEAN
    /\ EditDuringCalls \in BOOLEAN
    /\ CleanCallsOnly \in BOOLEAN
    /\ DeltaThreshold \in Nat
    /\ MaxMoves \in Nat
    /\ MaxCrashes \in Nat
    /\ Moves \subseteq {"edit", "commit", "checkout"}
    /\ NONE \notin Configs

VARIABLES
    dbs,      \* dbs[path]: the store in a database file, NONE if no file
    metas,    \* metas[path]: the cache key its .meta file records
    pc,       \* pc[p]: the step the call of process p is at
    call,     \* call[p]: the locals of the call
    scratch,  \* scratch[p]: the temporary database of a full index
    result,   \* result[p]: the store a finished call has returned
    seen,     \* seen[p]: history variable, the trees there were during the call
    moves, crashes

procVars == <<pc, call, scratch, result>>
diskVars == <<dbs, metas>>
vars == <<repoVars, diskVars, procVars, seen, moves, crashes>>

---------------------------------------------------------------------------
(* Paths in the cache directory.  0 is index.db; n > 0 is <key of n>.db.   *)

Path == 0..MaxCommits

ASSUME PathAssumption == NONE \notin Path

DbPath(key) == IF ProjectLayout THEN 0 ELSE key

\* Mutant of CacheGet: any database in the project layout is a hit.
CacheGetAnyCommit(key) == dbs[DbPath(key)] # NONE

\* CacheManager.get: the keyed layout trusts the file name, the project
\* layout the key in index.meta.
CacheGet(key) ==
    /\ dbs[DbPath(key)] # NONE
    /\ ProjectLayout => metas[DbPath(key)] = key

NoCall ==
    [key |-> NONE, signature |-> {}, config |-> NONE, path |-> NONE,
     base |-> NONE, current |-> NONE, manifest |-> NoChanges, renames |-> {},
     discovered |-> {}, sources |-> {}, read |-> [f \in Files |-> NONE],
     rebuild |-> FALSE, detached |-> FALSE]

Idle == \A p \in Procs : pc[p] = "idle"

Goto(p, label) == pc' = [pc EXCEPT ![p] = label]

At(p, label) == pc[p] = label

\* The store the call has open: its scratch database during a full index, the
\* cached file during a delta, or what that file was when it was taken away.
OwnFile(p) == call[p].path = NONE \/ call[p].detached

Handle(p) == IF OwnFile(p) THEN scratch[p] ELSE dbs[call[p].path]

Write(p, st) ==
    IF OwnFile(p)
    THEN scratch' = [scratch EXCEPT ![p] = st] /\ UNCHANGED dbs
    ELSE dbs' = [dbs EXCEPT ![call[p].path] = st] /\ UNCHANGED scratch

\* Opening a database file that is not there creates an empty one.
Opened(path) == IF dbs[path] = NONE THEN EmptyStore ELSE dbs[path]

DeltaOpen == {"rename", "forget", "read", "states", "swap", "bm25",
              "commit", "sign", "finalize", "put_db", "put_meta"}

\* Files at the given paths are replaced or unlinked by process p.
Detach(p, paths) ==
    LET Loses(q) == /\ q # p /\ pc[q] \in DeltaOpen
                    /\ ~ OwnFile(q) /\ call[q].path \in paths
    IN  /\ call' = [q \in Procs |->
                IF Loses(q) THEN [call[q] EXCEPT !.detached = TRUE] ELSE call[q]]
        /\ scratch' = [q \in Procs |->
                IF Loses(q) THEN dbs[call[q].path] ELSE scratch[q]]

Reprocess(m) == m.modified \cup m.added \cup Renamed(m)

\* Mutant of RemovePaths: rows of modified files are not removed first.
RemoveRenamedOnly(m) == Renamed(m)

RemovePaths(m) == m.modified \cup Renamed(m)

---------------------------------------------------------------------------
Init ==
    /\ RepoInit
    /\ dbs = [x \in Path |-> NONE]
    /\ metas = [x \in Path |-> NONE]
    /\ pc = [p \in Procs |-> "idle"]
    /\ call = [p \in Procs |-> NoCall]
    /\ scratch = [p \in Procs |-> NONE]
    /\ result = [p \in Procs |-> NONE]
    /\ seen = [p \in Procs |-> {}]
    /\ moves = 0 /\ crashes = 0

(***************************************************************************)
(* The repository changes.                                                 *)
(***************************************************************************)
Moved ==
    /\ moves < MaxMoves
    /\ moves' = moves + 1
    /\ EditDuringCalls \/ Idle
    /\ seen' = [p \in Procs |->
            IF pc[p] \in {"idle", "done"} THEN seen[p] ELSE seen[p] \cup {tree'}]
    /\ UNCHANGED <<diskVars, procVars, crashes>>

UserEdits == "edit" \in Moves /\ (\E f \in Files, c \in Contents \cup {NONE} : Edit(f, c)) /\ Moved

UserCommits == "commit" \in Moves /\ (\E paths \in SUBSET Dirty : GitCommit(paths)) /\ Moved

UserChecksOut == "checkout" \in Moves /\ (\E n \in Commit : Checkout(n)) /\ Moved

(***************************************************************************)
(* Entry: the cache key, then the working-tree signature.                  *)
(***************************************************************************)
Begin(p, cfg) ==
    /\ At(p, "idle")
    /\ CleanCallsOnly => Dirty = {}
    /\ call' = [call EXCEPT ![p] = [NoCall EXCEPT !.key = head, !.config = cfg]]
    /\ seen' = [seen EXCEPT ![p] = {tree}]
    /\ Goto(p, "signature")
    /\ UNCHANGED <<repoVars, diskVars, scratch, result, moves, crashes>>

TakeSignature(p) ==
    /\ At(p, "signature")
    /\ call' = [call EXCEPT ![p].signature = WorkingTreeSignature]
    /\ Goto(p, "lookup")
    /\ UNCHANGED <<repoVars, diskVars, scratch, result, seen, moves, crashes>>

(***************************************************************************)
(* Path 1, exact cache hit.                                                *)
(***************************************************************************)
SignatureMatches(p, st) == st.signature = call[p].signature

\* Mutant of ConfigMatches: the configuration of the store is not compared.
ConfigIgnored(p, st) == TRUE

ConfigMatches(p, st) == st.config = call[p].config

CacheHit(p) ==
    /\ At(p, "lookup")
    /\ CacheGet(call[p].key)
    /\ LET st == dbs[DbPath(call[p].key)]
       IN  /\ SignatureMatches(p, st)
           /\ ConfigMatches(p, st)
           /\ result' = [result EXCEPT ![p] = st]
    /\ Goto(p, "done")
    /\ UNCHANGED <<repoVars, diskVars, call, scratch, seen, moves, crashes>>

\* A database built with another configuration is invalidated; one that only
\* describes another working tree is left for the delta path.
CacheReject(p) ==
    /\ At(p, "lookup")
    /\ LET path == DbPath(call[p].key)
           hit  == CacheGet(call[p].key)
       IN  /\ ~ (hit /\ SignatureMatches(p, dbs[path]) /\ ConfigMatches(p, dbs[path]))
           /\ IF hit /\ ~ ConfigMatches(p, dbs[path])
              THEN /\ dbs' = [dbs EXCEPT ![path] = NONE]
                   /\ metas' = [metas EXCEPT ![path] = NONE]
                   /\ Detach(p, {path})
              ELSE UNCHANGED <<diskVars, call, scratch>>
    /\ Goto(p, "find")
    /\ UNCHANGED <<repoVars, result, seen, moves, crashes>>

(***************************************************************************)
(* Path 2, delta.  find_store_for_source takes the first database of this  *)
(* source the directory lists, for whatever commit.                        *)
(***************************************************************************)
\* A database names its source only once an indexing run has published it.
Published == {path \in Path : dbs[path] # NONE /\ dbs[path].commit # NONE}

FindStore(p) ==
    /\ At(p, "find")
    /\ \E path \in Published :
        /\ ConfigMatches(p, dbs[path])
        /\ call' = [call EXCEPT ![p].path = path,
                                ![p].base = dbs[path].commit,
                                ![p].current = head]
    /\ Goto(p, "manifest")
    /\ UNCHANGED <<repoVars, diskVars, scratch, result, seen, moves, crashes>>

NoUsableStore(p) ==
    /\ At(p, "find")
    /\ \/ Published = {}
       \/ \E path \in Published : ~ ConfigMatches(p, dbs[path])
    /\ Goto(p, "full")
    /\ UNCHANGED <<repoVars, diskVars, call, scratch, result, seen, moves, crashes>>

Manifests(p) ==
    IF call[p].base = call[p].current
    THEN WorkingTreeDeltas(Opened(call[p].path))
    ELSE GitDiffs(call[p].base, call[p].current)

TooLarge(m) ==
    \/ Present(tree) = {}
    \/ 100 * ChangeCount(m) >= DeltaThreshold * Cardinality(Present(tree))

NothingToDo(p, m) == m = NoChanges /\ call[p].base = call[p].current

\* Only git is asked when the commits differ, so only then may a rejected
\* delta leave the database file unopened.
ComputeManifest(p) ==
    /\ At(p, "manifest")
    /\ \E m \in Manifests(p) :
        LET path == call[p].path
            over == TooLarge(m) /\ ~ NothingToDo(p, m)
        IN  /\ IF over /\ call[p].base # call[p].current
               THEN UNCHANGED dbs
               ELSE dbs' = [dbs EXCEPT ![path] = Opened(path)]
            /\ call' = IF over THEN [call EXCEPT ![p].path = NONE]
                       ELSE [call EXCEPT ![p].manifest = m,
                                         ![p].renames = m.renamed,
                                         ![p].rebuild = ~ HasData(Opened(path))]
            /\ Goto(p, IF over THEN "full"
                       ELSE IF NothingToDo(p, m) THEN "sign" ELSE "rename")
    /\ UNCHANGED <<repoVars, metas, scratch, result, seen, moves, crashes>>

\* Mutant of GitFails: the delta is tried again, for ever if git stays broken.
GitFailsRetry(p) ==
    /\ At(p, "manifest")
    /\ Goto(p, "find")
    /\ UNCHANGED <<repoVars, diskVars, call, scratch, result, seen, moves, crashes>>

\* DeltaIndexError: git failed, timed out, or no longer knows the base commit.
GitFails(p) ==
    /\ At(p, "manifest")
    /\ IF call[p].base # call[p].current
       THEN UNCHANGED dbs
       ELSE dbs' = [dbs EXCEPT ![call[p].path] = Opened(call[p].path)]
    /\ call' = [call EXCEPT ![p].path = NONE]
    /\ Goto(p, "full")
    /\ UNCHANGED <<repoVars, metas, scratch, result, seen, moves, crashes>>

(***************************************************************************)
(* apply_delta, in place on the database that was found.                   *)
(***************************************************************************)
\* One transaction per rename, in the order the manifest lists them.
RenamePath(p) ==
    /\ At(p, "rename")
    /\ \E r \in call[p].renames :
        /\ ~ RenameConflict(Handle(p), r)
        /\ Write(p, UpdateFilePaths(Handle(p), r))
        /\ call' = [call EXCEPT ![p].renames = @ \ {r}]
    /\ UNCHANGED <<repoVars, metas, pc, result, seen, moves, crashes>>

DeleteRows(p) ==
    /\ At(p, "rename") /\ call[p].renames = {}
    /\ LET gone == call[p].manifest.deleted
           st   == Handle(p)
       IN  Write(p, DeleteEdgesForFiles(DeleteChunksForFiles(st, gone), gone))
    /\ Goto(p, "forget")
    /\ UNCHANGED <<repoVars, metas, call, result, seen, moves, crashes>>

ForgetStates(p) ==
    /\ At(p, "forget")
    /\ Write(p, DeleteFileStates(Handle(p), call[p].manifest.deleted))
    /\ Goto(p, "read")
    /\ UNCHANGED <<repoVars, metas, call, result, seen, moves, crashes>>

\* discover_files, parse, resolve imports, read the sources.
ReadSources(p) ==
    /\ At(p, "read")
    /\ call' = [call EXCEPT ![p].discovered = Present(tree),
                            ![p].sources = Reprocess(call[p].manifest) \cap Present(tree),
                            ![p].read = tree]
    /\ Goto(p, "states")
    /\ UNCHANGED <<repoVars, diskVars, scratch, result, seen, moves, crashes>>

\* The states are hashed from a second reading, and committed before the rows.
RecordStates(p) ==
    /\ At(p, "states")
    /\ Write(p, UpsertFileStates(Handle(p), call[p].sources, tree))
    /\ Goto(p, "swap")
    /\ UNCHANGED <<repoVars, metas, call, result, seen, moves, crashes>>

SwapRows(p) ==
    /\ At(p, "swap")
    /\ Write(p, DeleteAndInsertForFiles(Handle(p),
                    RemovePaths(call[p].manifest), call[p].sources,
                    call[p].read, call[p].discovered))
    /\ Goto(p, "bm25")
    /\ UNCHANGED <<repoVars, metas, call, result, seen, moves, crashes>>

UpdateBm25(p) ==
    /\ At(p, "bm25")
    /\ LET st == Handle(p)
       IN  Write(p, IF call[p].rebuild THEN Bm25Build(st)
                      ELSE Bm25Update(st, call[p].sources, call[p].read))
    /\ Goto(p, "commit")
    /\ UNCHANGED <<repoVars, metas, call, result, seen, moves, crashes>>

\* Mutant of SetCommit: the commit of the store is not brought forward.
SetCommitForgotten(p) ==
    /\ At(p, "commit")
    /\ Goto(p, "sign")
    /\ UNCHANGED <<repoVars, diskVars, call, scratch, result, seen, moves, crashes>>

SetCommit(p) ==
    /\ At(p, "commit")
    /\ Write(p, [Handle(p) EXCEPT !.commit = call[p].current])
    /\ Goto(p, "sign")
    /\ UNCHANGED <<repoVars, metas, call, result, seen, moves, crashes>>

(***************************************************************************)
(* Publishing a delta.  The signature is the one taken on entry.  A call   *)
(* that found nothing to do stops after the generation id.                 *)
(***************************************************************************)
SetSignature(p) ==
    /\ At(p, "sign")
    /\ Write(p, [Handle(p) EXCEPT !.signature = call[p].signature])
    /\ Goto(p, "finalize")
    /\ UNCHANGED <<repoVars, metas, call, result, seen, moves, crashes>>

Finalize(p) ==
    /\ At(p, "finalize")
    /\ LET st == FinalizeGenerationId(Handle(p), call[p].config)
       IN  /\ Write(p, st)
           /\ IF NothingToDo(p, call[p].manifest)
              THEN Goto(p, "done") /\ result' = [result EXCEPT ![p] = st]
              ELSE Goto(p, "put_db") /\ UNCHANGED result
    /\ UNCHANGED <<repoVars, metas, call, seen, moves, crashes>>

(***************************************************************************)
(* Path 3, full index into a scratch database.                             *)
(***************************************************************************)
FullRead(p) ==
    /\ At(p, "full")
    /\ scratch' = [scratch EXCEPT ![p] = FullRows(tree)]
    /\ call' = [call EXCEPT ![p].path = NONE, ![p].sources = Present(tree)]
    /\ Goto(p, "full_states")
    /\ UNCHANGED <<repoVars, diskVars, result, seen, moves, crashes>>

FullStates(p) ==
    /\ At(p, "full_states")
    /\ scratch' = [scratch EXCEPT ![p] = UpsertFileStates(@, call[p].sources, tree)]
    /\ Goto(p, "full_commit")
    /\ UNCHANGED <<repoVars, diskVars, call, result, seen, moves, crashes>>

\* HEAD, and then the signature, as they are once everything has been read.
FullCommit(p) ==
    /\ At(p, "full_commit")
    /\ scratch' = [scratch EXCEPT ![p].config = call[p].config, ![p].commit = head]
    /\ Goto(p, "full_sign")
    /\ UNCHANGED <<repoVars, diskVars, call, result, seen, moves, crashes>>

FullSign(p) ==
    /\ At(p, "full_sign")
    /\ LET st == [scratch[p] EXCEPT !.signature = WorkingTreeSignature]
       IN  scratch' = [scratch EXCEPT ![p] = FinalizeGenerationId(st, call[p].config)]
    /\ Goto(p, "put_db")
    /\ UNCHANGED <<repoVars, diskVars, call, result, seen, moves, crashes>>

(***************************************************************************)
(* CacheManager.put: the database, then its meta file, then eviction.      *)
(***************************************************************************)
\* The copy is of whatever file the source path names by now.
PutSource(p) == IF call[p].path = NONE THEN scratch[p] ELSE dbs[call[p].path]

PutDb(p) ==
    /\ At(p, "put_db")
    /\ LET dest == DbPath(call[p].key)
       IN  IF call[p].path = dest
           THEN UNCHANGED <<dbs, call, scratch>>
           ELSE /\ PutSource(p) # NONE
                /\ dbs' = [dbs EXCEPT ![dest] = PutSource(p)]
                /\ Detach(p, {dest})
    /\ Goto(p, "put_meta")
    /\ UNCHANGED <<repoVars, metas, result, seen, moves, crashes>>

\* Eviction spares the project layout.  Which other databases are older than
\* the age limit, or beyond max_entries, is up to the clock.
PutMeta(p) ==
    /\ At(p, "put_meta")
    /\ LET dest == DbPath(call[p].key)
       IN  \E evicted \in SUBSET {x \in Path \ {dest} : dbs[x] # NONE} :
            /\ ProjectLayout => evicted = {}
            /\ dbs' = [x \in Path |-> IF x \in evicted THEN NONE ELSE dbs[x]]
            /\ metas' = [x \in Path |-> IF x = dest THEN call[p].key
                                        ELSE IF x \in evicted THEN NONE ELSE metas[x]]
            /\ Detach(p, evicted)
    /\ result' = [result EXCEPT ![p] = Handle(p)]
    /\ Goto(p, "done")
    /\ UNCHANGED <<repoVars, seen, moves, crashes>>

(***************************************************************************)
(* The caller closes the store; an exception or a kill ends the call.      *)
(***************************************************************************)
Reset(p) ==
    /\ Goto(p, "idle")
    /\ call' = [call EXCEPT ![p] = NoCall]
    /\ scratch' = [scratch EXCEPT ![p] = NONE]
    /\ result' = [result EXCEPT ![p] = NONE]
    /\ seen' = [seen EXCEPT ![p] = {}]
    /\ UNCHANGED <<repoVars, diskVars, moves>>

Close(p) == At(p, "done") /\ Reset(p) /\ UNCHANGED crashes

\* sqlite3.IntegrityError out of update_file_paths is not a DeltaIndexError.
RenameRaises(p) ==
    /\ At(p, "rename")
    /\ \E r \in call[p].renames : RenameConflict(Handle(p), r)
    /\ Reset(p) /\ UNCHANGED crashes

\* FileNotFoundError: the file to copy was evicted or invalidated.
PutRaises(p) ==
    /\ At(p, "put_db")
    /\ call[p].path # DbPath(call[p].key)
    /\ PutSource(p) = NONE
    /\ Reset(p) /\ UNCHANGED crashes

Crash(p) ==
    /\ crashes < MaxCrashes
    /\ crashes' = crashes + 1
    /\ pc[p] \notin {"idle", "done"}
    /\ Reset(p)

---------------------------------------------------------------------------
FullIndex(p) == FullRead(p) \/ FullStates(p) \/ FullCommit(p) \/ FullSign(p)

ApplyDelta(p) ==
    \/ RenamePath(p) \/ DeleteRows(p) \/ ForgetStates(p) \/ ReadSources(p)
    \/ RecordStates(p) \/ SwapRows(p) \/ UpdateBm25(p) \/ SetCommit(p)

TryDelta(p) ==
    \/ FindStore(p) \/ NoUsableStore(p) \/ ComputeManifest(p) \/ GitFails(p)
    \/ ApplyDelta(p) \/ RenameRaises(p) \/ SetSignature(p) \/ Finalize(p)

\* A step of a running call.
Step(p) ==
    \/ TakeSignature(p) \/ CacheHit(p) \/ CacheReject(p) \/ TryDelta(p)
    \/ FullIndex(p) \/ PutDb(p) \/ PutRaises(p) \/ PutMeta(p)

User == UserEdits \/ UserCommits \/ UserChecksOut

Next ==
    \/ User
    \/ \E p \in Procs :
        \/ \E cfg \in Configs : Begin(p, cfg)
        \/ Step(p) \/ Close(p) \/ Crash(p)

Spec == Init /\ [][Next]_vars

\* Calls are straight-line code: once begun, a call is not abandoned.
Fairness == \A p \in Procs : WF_vars(Step(p) \/ Close(p))

FairSpec == Spec /\ Fairness

---------------------------------------------------------------------------
(* Properties.                                                             *)

StoreType ==
    [chunks : [Files -> SUBSET ChunkId],
     fts : [ChunkId -> 0..MaxRows],
     edges : SUBSET (Files \X Files),
     states : [Files -> Contents \cup {NONE}],
     commit : Commit \cup {NONE},
     signature : SignatureType \cup {NONE},
     generation : [commit : Commit \cup {NONE}, signature : SignatureType \cup {NONE},
                   files : Nat, chunks : Nat, config : Configs \cup {NONE}] \cup {NONE},
     config : Configs \cup {NONE}]

CallType ==
    [key : Commit \cup {NONE}, signature : SignatureType, config : Configs \cup {NONE},
     path : Path \cup {NONE}, base : Commit \cup {NONE}, current : Commit \cup {NONE},
     manifest : ManifestType, renames : SUBSET (Files \X Files), discovered : SUBSET Files, sources : SUBSET Files,
     read : Tree, rebuild : BOOLEAN, detached : BOOLEAN]

Label == DeltaOpen \cup {"idle", "signature", "lookup", "find", "manifest", "full",
                         "full_states", "full_commit", "full_sign", "done"}

TypeOK ==
    /\ RepoTypeOK
    /\ dbs \in [Path -> StoreType \cup {NONE}]
    /\ metas \in [Path -> Commit \cup {NONE}]
    /\ pc \in [Procs -> Label]
    /\ call \in [Procs -> CallType]
    /\ scratch \in [Procs -> StoreType \cup {NONE}]
    /\ result \in [Procs -> StoreType \cup {NONE}]
    /\ seen \in [Procs -> SUBSET Tree]
    /\ moves \in 0..MaxMoves
    /\ crashes \in 0..MaxCrashes

\* What lexical retrieval reads is that of a full index of snapshot t.
Serves(st, t) ==
    /\ st.chunks = FullRows(t).chunks
    /\ st.fts = FullRows(t).fts

\* A returned store answers from the working tree as it was at some moment of
\* the call, although no step of a delta looks at the files it keeps.
ReturnedIsFresh ==
    \A p \in Procs : pc[p] = "done" => \E t \in seen[p] : Serves(result[p], t)

\* compute_working_tree_delta is "a hash-confirmed delta between the persisted
\* index and working tree": when it finds nothing to do the rows are current.
HashConfirmed ==
    \A p \in Procs :
        pc[p] = "sign" /\ NothingToDo(p, call[p].manifest) => Serves(Handle(p), tree)

\* A path that owns chunks owns a file state, in every database at every moment:
\* change detection starts from the states, so an orphan would outlive its file.
NoOrphanChunks ==
    \A x \in Path : dbs[x] # NONE =>
        \A f \in Files : dbs[x].chunks[f] # {} => dbs[x].states[f] # NONE

\* A file answers with one version of itself, never with rows of two.
OneVersionPerFile ==
    \A x \in Path : dbs[x] # NONE =>
        \A f \in Files : Cardinality(dbs[x].chunks[f]) <= 1

\* An exact cache hit returns the store of that commit.
HitIsOfCommit ==
    \A n \in Commit : Idle /\ CacheGet(n) => dbs[DbPath(n)].commit = n

\* A delta never leaves an edge no full index of the tree would have.
NoInventedEdges ==
    \A p \in Procs : pc[p] = "done" =>
        \E t \in seen[p] : result[p].edges \subseteq FullRows(t).edges

\* A result was built under the index configuration its caller asked for.
AnswersUnderItsConfig ==
    \A p \in Procs : pc[p] = "done" => result[p].config = call[p].config

\* Equal generation ids are equal indexes: what is published under the id of a
\* full index of a tree is that index, its import edges included.
GenerationIdentifiesIndex ==
    \A p \in Procs : pc[p] = "done" => \A t \in seen[p] :
        LET full == [FullRows(t) EXCEPT !.commit = result[p].commit,
                                        !.signature = result[p].signature]
        IN  ComputeGenerationId(full, result[p].config) = result[p].generation
                => result[p].edges = full.edges

\* Every call returns or raises.
CallsEnd == \A p \in Procs : pc[p] # "idle" ~> pc[p] = "idle"

\* The promise of the module FreshIndex: the tree a result describes, if any.
Described(st) ==
    IF \E t \in Tree : Serves(st, t) THEN CHOOSE t \in Tree : Serves(st, t) ELSE NONE

Fresh == INSTANCE FreshIndex WITH
    phase  <- [p \in Procs |-> CASE pc[p] = "idle" -> "idle"
                                 [] pc[p] = "done" -> "answered"
                                 [] OTHER -> "working"],
    view   <- seen,
    answer <- [p \in Procs |-> IF pc[p] = "done" THEN Described(result[p]) ELSE NONE]

\* Calls implement FreshIndex: each answers, or raises, and an answer describes
\* one tree of the call, through hits, deltas and rebuilds alike.
ImplementsFreshIndex == Fresh!Spec

===========================================================================
