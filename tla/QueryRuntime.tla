--------------------------- MODULE QueryRuntime ---------------------------
(***************************************************************************)
(* Warm serving (serve/runtime.py) under concurrent query() calls of one   *)
(* MCP server (api.py query, integrations/mcp.py run_stdio_server).  Each  *)
(* tool call runs in a thread of the executor; the threads share one       *)
(* QueryRuntime, which keeps per cache key a snapshot: an open connection  *)
(* to the store and what was read through it, under the generation id the  *)
(* caller found in the store.                                              *)
(*                                                                         *)
(* _ensure_index, the subject of EnsureIndex, appears by what it does to   *)
(* the database file: nothing, a delta in place, which others see between  *)
(* any two of its transactions, or a new file put in the old one's place.  *)
(* A call of it works from one version of the tree.                        *)
(***************************************************************************)
EXTENDS Integers, FiniteSets

CONSTANTS
    Threads,     \* executor threads
    NoThread,
    Snapshots,   \* WarmSnapshot objects; one nothing refers to is used again
    NoSnapshot,
    Keys,        \* cache keys: one per HEAD
    Versions,    \* versions of the working tree
    KeyOf,       \* KeyOf[v]: the cache key of version v
    CountOf,     \* CountOf[r]: how many files and chunks the rows r are
    Shrinks,     \* pairs of versions of which the second lacks a file of the first
    Far,         \* versions that are more than a delta away from the others
    GitMayFail,  \* a delta may be given up because git fails
    MaxMoves,    \* bound: how often the working tree changes
    MaxCalls     \* bound: calls

HALF == "half"   \* the rows of a delta that has deleted and not yet inserted
NEVER == 0       \* the file of a connection that is closed

ASSUME RuntimeAssumption ==
    /\ NoThread \notin Threads
    /\ NoSnapshot \notin Snapshots
    /\ KeyOf \in [Versions -> Keys]
    /\ HALF \notin Versions
    /\ CountOf \in [Versions \cup {HALF} -> Nat]   \* versions may have the same
    /\ Shrinks \subseteq Versions \X Versions
    /\ Far \subseteq Versions /\ GitMayFail \in BOOLEAN
    /\ MaxMoves \in Nat /\ MaxCalls \in Nat
    /\ IsFiniteSet(Threads) /\ IsFiniteSet(Keys)
    /\ IsFiniteSet(Snapshots)   \* enough of them: one is always unused
    /\ Cardinality(Snapshots) >= Cardinality(Keys) + Cardinality(Threads)

VARIABLES
    tree,        \* the version the working tree is at
    file,        \* the file index.db names
    db,          \* db[f]: what is in file f
    snapshots,   \* QueryRuntime._snapshots
    registry,    \* who holds QueryRuntime._registry_lock
    warm,        \* warm[s]: the WarmSnapshot s
    pc,          \* pc[t]: the next step of thread t's call
    call,        \* call[t]: the locals of that call
    down,        \* the server has closed the runtime
    calls, moves,
    disturbed,   \* history: the tree has changed while a call was running
    overlapped,  \* history: a call has looked at a file that another was patching
    alone        \* history: the calls during which nothing else happened

runtimeVars == <<snapshots, registry, warm>>
storeVars   == <<file, db>>
history     == <<tree, down, calls, moves, disturbed, overlapped, alone>>
vars        == <<storeVars, runtimeVars, pc, call, history>>

File == 1..(MaxCalls + 1)   \* a call puts at most one file in place

Rows == Versions \cup {HALF}

\* The generation id: a hash of the signature and of counts of the rows as they
\* are when it is computed.
Id == [signature : Versions, count : Nat]

IdOf(v, rows) == [signature |-> v, count |-> CountOf[rows]]

\* fts: the rows of chunks_fts; HALF if they are not those of the chunks.
Database ==
    [states : Rows, rows : Rows, fts : Rows, commit : Keys, signature : Versions, generation : Id]

IndexOf(v) ==
    [states |-> v, rows |-> v, fts |-> v, commit |-> KeyOf[v], signature |-> v,
     generation |-> IdOf(v, v)]

Snapshot ==
    [generation : Id, graph : Rows, chunks : Rows,
     file : File \cup {NEVER}, lock : Threads \cup {NoThread}]

Call ==
    [key : Keys, target : Versions, file : File, generation : Id,
     snapshot : Snapshots \cup {NoSnapshot}, hits : Rows]

\* The locals of a thread that runs no call: any will do.
NoCall ==
    LET v == CHOOSE v \in Versions : TRUE
    IN  [key |-> KeyOf[v], target |-> v, file |-> 1, generation |-> IdOf(v, v),
         snapshot |-> NoSnapshot, hits |-> v]

Running  == {t \in Threads : pc[t] # "idle"}
Patching == {"delete", "states", "swap", "fts", "commit", "sign", "identify"}
Building == {"graph", "chunks", "register"}
Guarded  == {"searching", "ranking"}
Holding  == Building \cup Guarded \cup {"search", "rank", "receipts", "answered"}

Goto(t, label) == pc' = [pc EXCEPT ![t] = label]

GoIdle(t) == Goto(t, "idle") /\ call' = [call EXCEPT ![t] = NoCall]

---------------------------------------------------------------------------
\* The server starts on a repository that has been indexed before.
Init ==
    /\ tree \in Versions
    /\ file = 1
    /\ db = [f \in File |-> IndexOf(tree)]
    /\ snapshots = [k \in Keys |-> NoSnapshot]
    /\ registry = NoThread
    /\ warm = [s \in Snapshots |-> [generation |-> IdOf(tree, tree), graph |-> tree, chunks |-> tree,
                                    file |-> NEVER, lock |-> NoThread]]
    /\ pc = [t \in Threads |-> "idle"]
    /\ call = [t \in Threads |-> NoCall]
    /\ down = FALSE /\ calls = 0 /\ moves = 0
    /\ disturbed = FALSE /\ overlapped = FALSE /\ alone = {}

\* The user, or git, changes the working tree.
TreeMoves ==
    /\ moves < MaxMoves
    /\ tree' \in Versions \ {tree}
    /\ moves' = moves + 1
    /\ disturbed' = (disturbed \/ Running # {})
    /\ alone' = {}
    /\ UNCHANGED <<storeVars, runtimeVars, pc, call, down, calls, overlapped>>

\* query(): the cache key is taken once, before the index is refreshed.
Ask(t) ==
    /\ pc[t] = "idle" /\ ~ down /\ calls < MaxCalls
    /\ calls' = calls + 1
    /\ alone' = IF Running = {} THEN {t} ELSE {}
    /\ call' = [call EXCEPT ![t].key = KeyOf[tree]]
    /\ Goto(t, "ensure")
    /\ UNCHANGED <<storeVars, runtimeVars, tree, down, moves, disturbed, overlapped>>

---------------------------------------------------------------------------
(* _ensure_index.                                                          *)

Current == db[file].signature = tree

\* Somebody is between two transactions of a delta of the file.
BeingPatched == \E t \in Threads : pc[t] \in Patching /\ call[t].file = file

Looks ==
    /\ overlapped' = (overlapped \/ BeingPatched)
    /\ UNCHANGED <<tree, down, calls, moves, disturbed, alone>>

Hit(t) ==
    /\ pc[t] = "ensure" /\ Current
    /\ call' = [call EXCEPT ![t].file = file]
    /\ Goto(t, "opened")
    /\ Looks
    /\ UNCHANGED <<storeVars, runtimeVars>>

Miss(t) ==
    /\ pc[t] = "ensure" /\ ~ Current
    /\ call' = [call EXCEPT ![t].target = tree]
    /\ Goto(t, "manifest")
    /\ UNCHANGED <<storeVars, runtimeVars, history>>

\* The same commit, and every file has the hash its state records: only the
\* signature and the id are written.
NothingToDo(v) == db[file].commit = KeyOf[v] /\ db[file].states = v

NoChanges(t) ==
    /\ pc[t] = "manifest" /\ NothingToDo(call[t].target)
    /\ call' = [call EXCEPT ![t].file = file]
    /\ Goto(t, "sign")
    /\ Looks
    /\ UNCHANGED <<storeVars, runtimeVars>>

\* The change ratio between what is indexed and the tree reaches the threshold.
TooLarge(v) == (db[file].states \in Far) # (v \in Far)

\* A delta opens the database and works on that file, whatever replaces it.
BeginDelta(t) ==
    /\ pc[t] = "manifest"
    /\ ~ NothingToDo(call[t].target) /\ ~ TooLarge(call[t].target)
    /\ call' = [call EXCEPT ![t].file = file]
    /\ Goto(t, "delete")
    /\ Looks
    /\ UNCHANGED <<storeVars, runtimeVars>>

\* One transaction of a delta, on the database it has opened.
Patch(t, before, d, label) ==
    /\ pc[t] = before
    /\ db' = [db EXCEPT ![call[t].file] = d]
    /\ Goto(t, label)
    /\ UNCHANGED <<file, runtimeVars, call, history>>

Patched(t) == db[call[t].file]

\* Deletes what the tree no longer has, if there is something.
Without(rows, v) == IF <<rows, v>> \in Shrinks THEN HALF ELSE rows

DeleteRows(t) ==
    Patch(t, "delete",
          [Patched(t) EXCEPT !.rows   = Without(@, call[t].target),
                             !.fts    = Without(@, call[t].target),
                             !.states = Without(@, call[t].target)], "states")

WriteStates(t) ==
    Patch(t, "states", [Patched(t) EXCEPT !.states = call[t].target], "swap")

\* delete_and_insert_for_files takes the FTS rows of the changed files with it ...
SwapRows(t) ==
    Patch(t, "swap", [Patched(t) EXCEPT !.rows = call[t].target, !.fts = HALF], "fts")

\* ... which bm25.update inserts again.
InsertFts(t) ==
    Patch(t, "fts",
          [Patched(t) EXCEPT !.fts = IF Patched(t).rows = call[t].target THEN call[t].target ELSE HALF],
          "commit")

SetCommit(t) ==
    Patch(t, "commit", [Patched(t) EXCEPT !.commit = KeyOf[call[t].target]], "sign")

Sign(t) ==
    Patch(t, "sign", [Patched(t) EXCEPT !.signature = call[t].target], "identify")

\* finalize_generation_id; then put(), whose database is its own source.
Identify(t) ==
    Patch(t, "identify",
          [Patched(t) EXCEPT !.generation = IdOf(Patched(t).signature, Patched(t).rows)], "opened")

\* A full index is built aside ...
BeginFull(t) ==
    /\ pc[t] = "manifest" /\ (TooLarge(call[t].target) \/ GitMayFail)
    /\ Goto(t, "put")
    /\ UNCHANGED <<storeVars, runtimeVars, call, history>>

\* ... and put in place of index.db.  Who has the old file open keeps it.
PutDb(t) ==
    /\ pc[t] = "put" /\ file < MaxCalls + 1
    /\ file' = file + 1
    /\ db' = [db EXCEPT ![file'] = IndexOf(call[t].target)]
    /\ call' = [call EXCEPT ![t].file = file']
    /\ Goto(t, "opened")
    /\ UNCHANGED <<runtimeVars, history>>

\* index_repository returns here (archex index, the watch), and so does a query
\* whose budget takes the whole repository from the store it has just opened.
Leave(t) ==
    /\ pc[t] = "opened"
    /\ GoIdle(t)
    /\ UNCHANGED <<storeVars, runtimeVars, history>>

---------------------------------------------------------------------------
(* QueryRuntime.get_or_build and close.                                    *)

ReadGenerationId(t) ==
    /\ pc[t] = "opened"
    /\ call' = [call EXCEPT ![t].generation = db[call[t].file].generation]
    /\ Goto(t, "lookup")
    /\ UNCHANGED <<storeVars, runtimeVars, history>>

\* Mutant of Valid: whatever is cached is reused.
ValidAlways(k, g) == snapshots[k] # NoSnapshot

Valid(k, g) == snapshots[k] # NoSnapshot /\ warm[snapshots[k]].generation = g

Reuse(t) ==
    /\ pc[t] = "lookup" /\ registry = NoThread
    /\ Valid(call[t].key, call[t].generation)
    /\ call' = [call EXCEPT ![t].snapshot = snapshots[call[t].key]]
    /\ Goto(t, "search")
    /\ UNCHANGED <<storeVars, runtimeVars, history>>

\* Closed, in no call's hands and not registered.
Unused(s) ==
    /\ warm[s].file = NEVER
    /\ \A k \in Keys : snapshots[k] # s
    /\ \A t \in Threads : call[t].snapshot # s

\* The registry lock is kept until the snapshot is registered.
OpenSnapshot(t) ==
    /\ pc[t] = "lookup" /\ registry = NoThread
    /\ ~ Valid(call[t].key, call[t].generation)
    /\ \E s \in Snapshots : Unused(s)
    /\ LET s == CHOOSE s \in Snapshots : Unused(s)
       IN  /\ warm' = [warm EXCEPT ![s].generation = call[t].generation, ![s].file = file]
           /\ call' = [call EXCEPT ![t].snapshot = s]
    /\ registry' = t
    /\ Goto(t, "graph")
    /\ UNCHANGED <<storeVars, snapshots, history>>

RowsOf(s) == db[warm[s].file].rows

BuildGraph(t) ==
    /\ pc[t] = "graph"
    /\ warm' = [warm EXCEPT ![call[t].snapshot].graph = RowsOf(call[t].snapshot)]
    /\ Goto(t, "chunks")
    /\ UNCHANGED <<storeVars, snapshots, registry, call, history>>

GetChunks(t) ==
    /\ pc[t] = "chunks"
    /\ warm' = [warm EXCEPT ![call[t].snapshot].chunks = RowsOf(call[t].snapshot)]
    /\ Goto(t, "register")
    /\ UNCHANGED <<storeVars, snapshots, registry, call, history>>

\* close() takes no snapshot's lock: a thread may be searching through it.
Closed(S) == [s \in Snapshots |-> IF s \in S THEN [warm[s] EXCEPT !.file = NEVER] ELSE warm[s]]

\* Mutant of Superseded: the connection of the old snapshot is leaked.
NoneSuperseded(k) == {}

Superseded(k) == {snapshots[k]} \ {NoSnapshot}

Register(t) ==
    /\ pc[t] = "register"
    /\ warm' = Closed(Superseded(call[t].key))
    /\ snapshots' = [snapshots EXCEPT ![call[t].key] = call[t].snapshot]
    /\ registry' = NoThread
    /\ Goto(t, "search")
    /\ UNCHANGED <<storeVars, call, history>>

\* Mutant of Emptied: close() closes the snapshots and leaves them registered.
StillRegistered == snapshots

Emptied == [k \in Keys |-> NoSnapshot]

\* The finally clause of run_stdio_server; calls in the executor go on.
Close ==
    /\ ~ down /\ registry = NoThread
    /\ down' = TRUE
    /\ warm' = Closed({snapshots[k] : k \in Keys} \ {NoSnapshot})
    /\ snapshots' = Emptied
    /\ UNCHANGED <<storeVars, registry, pc, call, tree, calls, moves, disturbed, overlapped,
                   alone>>

---------------------------------------------------------------------------
(* The rest of query(), on the snapshot.                                   *)

Mine(t) == call[t].snapshot
IsOpen(s) == warm[s].file # NEVER

Locked(t, before, label) ==
    /\ pc[t] = before /\ warm[Mine(t)].lock = NoThread
    /\ warm' = [warm EXCEPT ![Mine(t)].lock = t]
    /\ Goto(t, label)
    /\ UNCHANGED <<storeVars, snapshots, registry, call, history>>

EnterSearch(t) == Locked(t, "search", "searching")
EnterRank(t)   == Locked(t, "rank", "ranking")

\* Mutant of Released: the lock is not given back on an exception.
ReleasedUnlessClosed(s) ==
    IF IsOpen(s) THEN [warm EXCEPT ![s].lock = NoThread] ELSE warm

Released(s) == [warm EXCEPT ![s].lock = NoThread]

\* BM25 search and boosts, under the lock and through the open connection: what
\* the FTS rows lead to among the chunks.
FoundIn(s) ==
    LET d == db[warm[s].file] IN IF d.fts = d.rows THEN d.rows ELSE HALF

Search(t) ==
    /\ pc[t] = "searching" /\ IsOpen(Mine(t))
    /\ call' = [call EXCEPT ![t].hits = FoundIn(Mine(t))]
    /\ warm' = Released(Mine(t))
    /\ Goto(t, "rank")
    /\ UNCHANGED <<storeVars, snapshots, registry, history>>

\* avg_idf, also under the lock; it counts rows only if vectors are on.
Rank(t) ==
    /\ pc[t] = "ranking"
    /\ warm' = Released(Mine(t))
    /\ Goto(t, "receipts")
    /\ UNCHANGED <<storeVars, snapshots, registry, call, history>>

\* The provider receipts, read without the lock.
ReadReceipts(t) ==
    /\ pc[t] = "receipts" /\ IsOpen(Mine(t))
    /\ Goto(t, "answered")
    /\ UNCHANGED <<storeVars, runtimeVars, call, history>>

\* sqlite3.ProgrammingError: the connection has been closed.  The client sees
\* the message; the lock is released on the way out.
UseOfClosed(t) ==
    /\ pc[t] \in {"searching", "ranking", "receipts"} /\ ~ IsOpen(Mine(t))
    /\ warm' = IF pc[t] \in Guarded THEN Released(Mine(t)) ELSE warm
    /\ GoIdle(t)
    /\ UNCHANGED <<storeVars, snapshots, registry, history>>

Return(t) ==
    /\ pc[t] = "answered"
    /\ GoIdle(t)
    /\ UNCHANGED <<storeVars, runtimeVars, history>>

---------------------------------------------------------------------------
Delta(t) ==
    \/ DeleteRows(t) \/ WriteStates(t) \/ SwapRows(t) \/ InsertFts(t)
    \/ SetCommit(t) \/ Sign(t) \/ Identify(t)

EnsureIndex(t) ==
    \/ Hit(t) \/ Miss(t) \/ NoChanges(t) \/ BeginDelta(t) \/ Delta(t)
    \/ BeginFull(t) \/ PutDb(t) \/ Leave(t)

GetOrBuild(t) ==
    \/ ReadGenerationId(t) \/ Reuse(t) \/ OpenSnapshot(t)
    \/ BuildGraph(t) \/ GetChunks(t) \/ Register(t)

Serve(t) ==
    \/ EnterSearch(t) \/ Search(t) \/ EnterRank(t) \/ Rank(t)
    \/ ReadReceipts(t) \/ UseOfClosed(t) \/ Return(t)

Work(t) == EnsureIndex(t) \/ GetOrBuild(t) \/ Serve(t)

Next == TreeMoves \/ Close \/ \E t \in Threads : Ask(t) \/ Work(t)

Spec == Init /\ [][Next]_vars

---------------------------------------------------------------------------
(* Properties.                                                             *)

TypeOK ==
    /\ tree \in Versions
    /\ file \in File
    /\ db \in [File -> Database]
    /\ snapshots \in [Keys -> Snapshots \cup {NoSnapshot}]
    /\ registry \in Threads \cup {NoThread}
    /\ warm \in [Snapshots -> Snapshot]
    /\ pc \in [Threads -> {"idle", "ensure", "manifest", "put", "opened", "lookup"}
                           \cup Patching \cup Holding]
    /\ call \in [Threads -> Call]
    /\ down \in BOOLEAN /\ disturbed \in BOOLEAN /\ overlapped \in BOOLEAN
    /\ calls \in Nat /\ moves \in Nat
    /\ alone \in SUBSET Threads

\* A connection is open only as the registered snapshot of some key, or as the
\* one being built by the holder of the registry lock: none is leaked.
NoLeakedConnection ==
    \A s \in Snapshots : IsOpen(s) =>
        \/ \E k \in Keys : snapshots[k] = s
        \/ \E t \in Threads : pc[t] \in Building /\ Mine(t) = s

\* get_or_build never hands out a snapshot that is closed already.
RegisteredIsOpen == \A k \in Keys : snapshots[k] # NoSnapshot => IsOpen(snapshots[k])

\* As long as the tree only changes between calls and nobody looks at a file that
\* is being patched, every answer is of the tree, with any number of threads that
\* refresh, rebuild, supersede and reuse snapshots.  The hits are if the connection
\* is to index.db itself: that file may have been replaced since the snapshot was
\* built.
AnswerIsOfTheTree ==
    ~ disturbed /\ ~ overlapped => \A t \in Threads : pc[t] = "answered" =>
        /\ warm[Mine(t)].graph = tree /\ warm[Mine(t)].chunks = tree
        /\ warm[Mine(t)].file = file => call[t].hits = tree

\* The same without the second hypothesis, and for the calls alone during which
\* nothing else happens, whatever has overlapped before: "Two builds with the same
\* generation ID are guaranteed to produce byte-identical retrieval output"
\* (serve/generation.py).
LoneAnswerIsOfTheTree ==
    ~ disturbed => \A t \in alone : pc[t] = "answered" =>
        {warm[Mine(t)].graph, warm[Mine(t)].chunks, call[t].hits} = {tree}

\* "callers must hold snapshot.lock for the duration of any operation that
\* touches snapshot.store" (serve/runtime.py): as long as the server is up,
\* nobody closes a store while another thread holds that lock.
NotClosedInUse ==
    [][\A s \in Snapshots :
          warm[s].lock # NoThread /\ IsOpen(s) /\ ~ down' => IsOpen(s)']_vars

\* What the next step of a call waits for.
Ready(t) ==
    CASE pc[t] = "put" -> file < MaxCalls + 1
      [] pc[t] = "lookup" ->
            /\ registry = NoThread
            /\ Valid(call[t].key, call[t].generation) \/ \E s \in Snapshots : Unused(s)
      [] pc[t] \in {"search", "rank"} -> warm[Mine(t)].lock = NoThread
      [] OTHER -> TRUE

SomeoneReady == Running # {} => \E t \in Running : Ready(t)

\* While calls run one of them can go on: the registry lock, held while a snapshot
\* is built, and the locks of the snapshots never wait for each other, and a call
\* that fails leaves none behind.
NoneStuck == SomeoneReady /\ \A t \in Running : Ready(t) => ENABLED Work(t)

===========================================================================
