# Verification of archex

archex builds a local index of a git repository (chunks, import graph, full-text
rows, file states) and answers questions from it: retrieval, graph queries, impact,
scouting. It does so from a command line, a Python library and an MCP server, for
coding agents that it also registers itself with. Two promises run through the
code. Whatever the user, git, other archex processes and the operating system do
between two calls, what a call reads is the repository as it is. And what a call
answers - within a budget, from caches, cut short - is what the index holds, with a
receipt that does not claim more. This directory states these promises, models the
code that is to keep them, checks the models with TLC and proves the central
invariants with TLAPS.

All source paths below are relative to `src/src/archex/` unless they begin with
`docs/`, `tests/` or `README.md`, which are below `src/`.

## 1. Inventory

| Component | State | Operations | What must hold |
|---|---|---|---|
| Index store (`index/store.py`, `index/bm25.py`) | one SQLite file: `chunks`, `chunks_fts`, `edges`, `file_states`, `metadata` | row replacement, deletion, rename, BM25 build/update, metadata | tables agree with each other after every transaction |
| Change detection (`index/delta.py`, `acquire/discovery.py`) | none of its own | working-tree signature, commit delta, working-tree delta, mtime delta, `apply_delta` | a manifest lists every difference between the rows and the tree |
| Index cache (`cache.py`) | `.archex/index.db` + `index.meta`, or `<key>.db` + `<key>.meta` | get, put, invalidate, evict, find_store_for_source | a hit is the index of the commit it is asked for |
| Index orchestration (`api.py` `_ensure_index`) | locals of one call | exact hit, delta, full index, in this order | the store returned is that of a full index of the tree |
| Generation identity (`serve/generation.py`) | one metadata row | compute, finalize, read | equal ids, equal retrieval |
| Portable artifact (`index/artifact.py`, `cli/init_cmd.py`) | a compressed copy of a store | export, import, sync, project reset | an imported and synced store is a full index of the tree |
| Warm serving (`serve/runtime.py`, `api.py` `query`) | one snapshot per cache key: an open connection and what was read through it; registry lock, snapshot locks | get or build, search, close | answers are of the tree; no connection leaked or used after it is closed; no thread stuck |
| MCP server (`integrations/mcp.py`) | watch: timer, two flags, a lock; disclosure gate and its pending announcement; LRU of parsed graph artifacts | debounce, refresh, re-arm; observe, announce; get or rebuild; metrics of a call | every change is followed by a refresh; the client learns of the wider tool list; no stale graph |
| Session ledger (`session/`, `integrations/hook.py`, `session_hook.py`, `cli/session_cmd.py`) | SQLite table of records | capture, supersede, invalidate, delete, render a primer, look up | one active task per worktree and branch; what is called fresh is of the tree |
| Metrics ledger (`metrics/`) | SQLite tables | register, record, prune, delete, report | nothing committed lost, counted twice or for another repository |
| Dependency graph (`index/graph.py`) | nodes, edges with confidence | build, densify, add evidence | one edge per pair, directed as imported |
| Analysis, impact and graph queries (`graph_artifact.py`, `graph_query.py`, `explain.py`, `impact.py`) | an exported artifact | export, nodes, neighbors, path, explain, impact, diff impact | the artifact explains what the index explains; searches are right although they are cut; a larger change is never safer |
| Context assembly (`serve/context.py`, `receipt.py`, `context_facade.py`) | one request | boost, fuse, expand, rank, pack, filter, receipt | within budget; the receipt is true |
| Scout (`scout.py`) | one map | rank, plan, trim, plan again, fetch | what is planned is what is fetched |
| Efficiency packing (`serve/packing.py`, `serve/compression.py`) | one bundle | decide, thin, rewrite | what was planned is delivered |
| Vectors, SPLADE, quantization, fusion, rerank (`index/`) | a file per mode beside the database, SPLADE tables | build, reuse, refresh, search | a leg searches what the text is now |
| Chunking and parsing (`pipeline/`, `parse/`) | none | parse in sequence or in a pool, chunk, resolve imports | no line lost, ids unique, every import at its file |
| Language adapters (`parse/adapters/`) | none | symbols, visibility, resolve_import | visible as written |
| Client setup and hooks (`client_setup.py`, `cli/setup_cmd.py`) | configuration files of the user | merge, strip, preview, write | converges; what is the user's stays |
| Project state and status (`project.py`, `status.py`) | none | decide fresh, stale or missing; reset | agrees with what a query would do |
| Retrieval profile and intent (`serve/intent.py`, ...) | none | classify a question, choose limits | - |
| Command line and configuration | none | parse options, reach an operation | - |
| Architecture analysis, precision lookups, evidence providers, explorer, doctor, onboarding, benchmarks and reports | - | - | not modelled, see section 7 |

How they interact. A query, `archex index`, scout, the watch refresh and the hooks
all call `_ensure_index`. It asks git and the file system (change detection), looks a
database up (cache), patches it in place (store) or builds a new one in a temporary
directory and copies it over (cache). Nothing holds a lock across a call: SQLite
makes each transaction atomic, and the file system each rename, and that is all. The
generation id is what warm serving trusts; the artifact carries it to another
project. The MCP server runs tool calls in executor threads beside its event loop,
its watch threads and its client; each call may record itself in the one usage ledger
of the machine. The session ledger reads status, index and branch one after the
other. Everything else reads one index and computes: from chunks and edges to hit
lists, bundles, receipts, maps and graphs.

`PROJECT.json` lists the components with their status, and under `hazards` the
places where the code is exposed.

## 2. Modules

| Module | Stands for | Extends |
|---|---|---|
| `IndexStore` | the store as a record, one operator per committed transaction | - |
| `Repository` | tree, commits, HEAD; signature and manifests; what user and git do | `IndexStore` |
| `EnsureIndex` | `_ensure_index`, `apply_delta`, `CacheManager`, processes and crashes | `Repository` |
| `FreshIndex` | the promise: a call answers, or raises, and an answer describes one tree of the call | - |
| `PortableArtifact` | artifact export and `archex init --from-artifact`, project reset | `EnsureIndex` |
| `QueryRuntime` | warm serving: executor threads, snapshots, shutdown, over the files `_ensure_index` patches and replaces | - |
| `IndexWatch` | the watch: observer thread, timer threads, lock | - |
| `ProjectSession` | the session ledger, its hooks, status and reset | - |
| `MetricsLedger` | `usage.sqlite`: recorders, metrics commands | - |
| `McpServer` | calls in flight, gate, announcements, client, graph query cache | `MetricsLedger` |
| `DependencyGraph` | the file graph; shared helpers on paths | - |
| `ArchGraph`, `GraphQuery`, `Impact`, `StructureCommands` | graph artifact and explain; the two searches, a step per turn of their loop; impact; the commands | `DependencyGraph` |
| `ContextAssembly`, `ContextQuery`, `Scout` | hits to a bundle and its receipt; the routes of a request; the map and its plan | `DependencyGraph` |
| `EfficiencyPacking` | the lanes that pack a bundle again | `DependencyGraph` |
| `Chunking`, `LanguageSymbols`, `ImportResolution`, `SourceIngest` | both chunkers; 13 adapters; import resolution; the stages from files to rows | `DependencyGraph` |
| `VectorLegs` | vector files and SPLADE rows under requests with different options | `DependencyGraph` |
| `ClientSetup` | configuration files of clients, jobs that write one after the other, the user's edits | - |
| `Commands` | a process that runs one of the commands of the six rows above, or the watch | all of them, `IndexWatch` |
| `MC...` | instances for TLC | |
| `...Proofs`, `EnsureIndexFresh` | theorems | the module they are named for |

### EnsureIndex

`dbs[path]` is a database file of the cache directory, `metas[path]` its `.meta`
file. `ProjectLayout` selects the layout: path 0 is `index.db`, path n is the file
of cache key n. A process p is at `pc[p]` of one call with the locals `call[p]`;
`scratch[p]` is the temporary database of a full index. A process that has a
database open when another one replaces or unlinks the file keeps writing to the
old inode: `Detach` moves that file into `scratch` and marks the call `detached`.

One action is one committed effect or one reading of the repository:

- `Begin`, `TakeSignature`: `cache_key` (HEAD) and `working_tree_signature`.
- `CacheHit`, `CacheReject`: path 1, with invalidation on another configuration.
- `FindStore` / `NoUsableStore`, `ComputeManifest` / `GitFails`: the start of
  `_try_delta_index`. `find_store_for_source` takes any database of the source.
- `RenamePath`, `DeleteRows`, `ForgetStates`, `ReadSources`, `RecordStates`,
  `SwapRows`, `UpdateBm25`, `SetCommit`: the transactions of `apply_delta`, in order.
- `SetSignature`, `Finalize`, then `PutDb`, `PutMeta`: publishing.
- `FullRead`, `FullStates`, `FullCommit`, `FullSign`: `_full_index`.
- `RenameRaises`, `PutRaises`: the exceptions nothing catches. `Crash`: a kill,
  and every other unhandled exception (git status fails, SQLite lock timeout).
- `UserEdits`, `UserCommits`, `UserChecksOut`: the repository. With
  `EditDuringCalls = FALSE` the user waits for running calls.

Abstractions. A chunk id is `<<path, content>>`: the real id is path, symbol and
line, so two versions of a file stand for texts that share no symbol at the same
line. `fts` counts the rows of `chunks_fts` per id up to `MaxRows`. The stat shortcut
is taken to be right: a file whose content changed has another size or mtime. git
pairs exact contents; the working-tree pairing depends on what was staged and is a
choice, as are directory order, the clock (eviction by age and count, mtimes) and
which paths git pairs. A committed transaction is in the database file: the WAL is
not separate.

### PortableArtifact

`artifact` is a store an artifact file holds; it may be exported at any state.
`BeginImport`, `WritePayload`, `BuildFts`, then the sync: `SyncDelta` enters the very
actions of `apply_delta` (`SyncStep`), `SyncClean` finds nothing, `SyncFails` raises,
`SyncApplied` and `SyncReplaced` publish. `ResetProject` removes the files.
`ImportCrash` (`ArtifactCrashSpec`) kills an import between two writes. Torn writes
of the payload, compression and header checks are not modelled.

### QueryRuntime

`run_stdio_server` makes one `QueryRuntime` and runs every tool call in a thread of
the executor. `pc[t]` and `call[t]` are the step and the locals of thread t's call
of `query`; `snapshots`, `registry` and `warm` are `_snapshots`, the holder of
`_registry_lock`, and the `WarmSnapshot` objects with their locks. An object that
nothing refers to is used again, so `Snapshots` is a pool, not a bound on how many
are ever built. `db[f]` is a database file, `file` the one `index.db` names now; a
connection keeps the file it was opened on.

- `Hit`; `Miss`; `NoChanges`; `BeginDelta`, then `DeleteRows`, `WriteStates`,
  `SwapRows`, `InsertFts`, `SetCommit`, `Sign`, `Identify`; `BeginFull`, `PutDb`:
  `_ensure_index` by what others see of it, one action per transaction. A database is
  a record of what its states, rows, full-text rows, commit, signature and generation
  id are of; `HALF` is rows of no one version. The id is a hash of the signature and of
  counts read when it is computed (`IdOf`), so two versions with equal counts and one
  signature have one id. `NoChanges` is the call that finds the recorded states equal
  to the tree and writes signature and id only. Each call works from one version of
  the tree, which is the subject of EnsureIndex and not repeated here. `Far` holds
  versions beyond the delta threshold; `GitMayFail` allows the fall through to a full
  index. `overlapped` is the history of calls that look at a file (hit it, or compare
  the tree with it) between two transactions of another call's delta.
- `Leave`: index commands that do not query, and queries answered by passthrough.
- `ReadGenerationId`, then `Reuse` or `OpenSnapshot`, `BuildGraph`, `GetChunks`,
  `Register`: `get_or_build`, which holds the registry lock throughout.
- `EnterSearch`, `Search`, `EnterRank`, `Rank` under the snapshot's lock,
  `ReadReceipts` without it. `UseOfClosed` is the exception of a closed connection.
- `Close`: the `finally` of the server; threads of the executor go on after it.

Left out: a store without generation id, for which `get_or_build` returns `None`;
the WAL file; the keyed layout.

### IndexWatch

`backlog` counts undelivered events by kind; `phase[t]` is the thread of a timer:
armed, fired (waiting for `_lock`), indexing, indexed. `Schedule`, `BeginRefresh`
and `EndRefresh` are the three critical sections. A refresh is a call of
`index_repository` that works from the tree of some moment of the call and writes
below the watched directory, or raises.

### ProjectSession

A version of the tree has a commit and a signature (`CommitOf`, `SignatureOf`). The
index is a record of what its file states, rows, commit and signature are of: a full
index puts all four in place at once (`PutIndex`), a delta writes them one after the
other into the file in use (`DeleteRows`, `DeleteStates`, `WriteStates`, `SwapRows`,
`SetCommit`, `Sign`). `refresh` is the one that runs, with what it read and whether it
has `wrote` something; a tree that moves before all files are read may leave it with
files of no single version (`Torn`). Status compares commit and signature
(`FreshFor`), the index revision is the hash of the states, a lookup searches the rows.
A call of process p - capture of a record, invalidation, deletion,
primer, lookup by a hook - walks through `pc[p]`: inspect the tree, the store, the
store again for its revision, the branch, and then one transaction on `ledger`, each
through a connection of its own. Between any two steps the user edits or switches
branch, a refresh takes its next step, another process commits, and `archex reset`
removes index and ledger. Session calls read; one refresh at a time writes, and what
two of them make of each other is the subject of QueryRuntime. `quiet[p]` and `lastTask` are history
variables. The size of a record stands for the primer budget it takes.

### McpServer and MetricsLedger

A call is at `call[c].step`: work, the graph route (token, lookup, build, store,
render), record (the steps of `MetricsLedger` in its thread), finish, announce.
`Finish` is the observation of the gate on the event loop; `Announce` and
`AnnounceLost` the notification, which may raise; `wire` is what is sent and not yet
received, `client` the list the client holds, `asked` its requests under way.
`CancelCall` is the client's cancellation: the thread goes on, the call does not
announce. `MetricsLedger` has one recorder per call: policy, lookup of the repository,
registration, one transaction with event, counters and pruning; against it the
metrics commands and the deletion of the file. `kept` is the history of what was
committed: a recorder whose first registration of a repository comes second hits
`UNIQUE(repo_root)`, gives up, and its event is dropped with a health warning
(`recorder.py:95`); nothing here promises otherwise. A graph artifact is a version, its modification stamp a token that
differs for each write.

### Structure

`index` is a graph with chunks. `GraphQuery` takes one node from the queue of a
search per step, in a fixed order, with the caps on edges and hub degrees of the
code; `Ask`, `Export`, `Explain` and `Impact` are one step each. The facts of files
that impact reads (tokens, entry points, centrality) are data of the tree.

### Context, scout, packing

A request goes through `ContextQuery`: route and budget (`api.query`, `context`),
exact handles, passthrough, or legs, fusion, expansion, ranking and packing in
`ContextAssembly`; then receipt and filters. What a leg finds is chosen from a set of
hit lists; scores are integers, a term's share is data. `Scout` takes an answered
request, ranks, plans, renders (a size), trims and plans again until nothing changes,
one step per round; the sizes of what it renders are constants of the run, where the
code renders again with the numbers of the new plan. `EfficiencyPacking` walks the regions of a bundle one by one,
optionally thins, and rewrites.

### Ingest and vectors

`SourceIngest` goes through discovery, parse (in sequence, or by a pool that may
break and workers that may die), second read, chunking and insertion; a file may go
away in between. A syntax tree is nodes of a grammar's types with the names,
modifiers and members an adapter looks at; `LanguageSymbols` translates each adapter.
`ImportResolution` translates `build_file_map` and each `resolve_import`. `VectorLegs`
runs whole requests with different options over one database, whose chunks an edit
changes under their ids. `overdue` is the history of the modes whose vectors were not
written since the chunks last changed: a delta or a full index by a request without
vectors, or in another mode, changes the chunks and leaves their file.

### ClientSetup

A configuration file is absent, broken, or a record of servers and hook groups. A
job writes its targets one after the other and stops at the first it cannot read;
the user edits, and the environment (`python`) moves, between jobs and between two
writes.

## 3. Runs

All bounds are constants of the cfg or definitions of the MC module. Two files `f`,
`g` and two contents, one of them importing the other file, are enough for a file to
be kept, modified, renamed, added or deleted next to one that is not, and for edges
in both directions. Two commits give "before" and "after"; three or four moves reach
edit, commit, edit, checkout. `MaxRows = 2` tells "once" from "more than once".
`DeltaThreshold = 51` puts one change of two files below the threshold and two above
it; 101 stands for a large repository of which the model has the files that change.

| Run | Instance | Checks | Shows |
|---|---|---|---|
| worktree | 2 files, 2 configurations, edits, project reset, 1 import of an artifact of any earlier state, threshold 51 % | NoInventedEdges, HashConfirmed, OneVersionPerFile, AnswersUnderItsConfig, SyncedIsTheTree, CallsEnd, ImplementsFreshIndex | hits, deltas, rebuilds, git failures and the import together keep the promise of FreshIndex; between any two transactions no file has two versions; every call ends |
| clean | 2 files, 2 commits, 4 moves, calls only on clean checkouts, 2 imports | ReturnedIsFresh, HitIsOfCommit | however HEAD travels, and from whichever commit the artifact is, the result has the chunks and full-text rows of a full index (edges are compared in `worktree`) |
| keyed | 2 processes on the keyed layout, 2 files, edits, commits and checkouts of a dirty tree, eviction, 1 kill | NoOrphanChunks | databases replaced, evicted and missing under running calls, renames that raise, half deltas |
| warm | 2 threads, 3 calls, 2 moves among 3 versions on 2 commits, shutdown any time | NoLeakedConnection, RegisteredIsOpen, AnswerIsOfTheTree, NoneStuck | snapshots reused, replaced and closed by threads that patch, transaction by transaction, and replace the databases below them |
| session | 2 processes, 2 calls of any kind with 2 moves and 1 refresh, or 3 with one of these, reset | OneActiveTask, LastTaskStands, QuietAnswerIsOfTheTree, PrimerOfOneRevision | the ledger under captures, hooks and a worktree that moves between the readings of one call; what is called fresh when the tree moves away from what a delta works from, and back |
| server | 2 calls in flight, 5 kinds of session, 1 export, a cache of one graph; 2 recordings of 2 repositories over 2 days, 1 deletion of the usage file | NobodyStranded, GraphAnswerIsCurrent, ReportIsHistory, ListReaches | lost announcements, cancelled calls and evictions; first recordings that race, and a usage file deleted and made again between two steps of one |
| commands | see below | RiskGrows, ArtifactExplains, SearchIsRight, BudgetHolds, CompleteMeansAll, SkippedForItsReason, PlanIsWhatIsFetched, PackedAsPlanned, EveryLineIsIndexed, VisibleAsWritten, ImportsMeetTheirFile, VectorsAreOfTheText, SetupConverges, OthersKept, NoLostChange, OneRefreshAtATime, EveryChangeRefreshed, ComesToRest | what a command answers is what the index holds; what index makes of a file loses nothing; setup leaves what is the user's; the debouncing of the watch loses nothing and ends |

Two bounds are constraints and not constants: in `keyed`, `OneFault` - once a call was
killed, one call runs at a time; with more than that, a kill among interleaved calls,
NoOrphanChunks fails (see "Met while modelling") - and in `session`, `ThirdCallIsQuiet`:
a third call is made only where the tree has moved or been indexed once at most. The processes of `keyed` and `session`
and the threads of `warm` are symmetric.

The instance of `commands` is in `MCCommands`, `MCIngest` and `MCPacking`:

- structure: four trees of three to five files (layered with a hub, an unresolved
  import and a cycle; without imports; a chain; a flat one), every pair of ends,
  paths and neighbors at depth 1 and 2, edge caps below and above the size, hub
  degrees that bite and not;
  every change of one or two paths, with hunks.
- context and scout: two trees with hit lists of up to three legs, budgets below,
  at and above what packing needs, pinned handles (also ones that do not resolve),
  filters, stale and current indexes; scout caps from "nothing fits" to "all fits".
- packing: every bundle of three of six regions, budgets 4, 9 and 14, every lane.
- ingest: every file of six lines with 0, 1 or 3 tokens a line over five arrangements
  of symbols (nested, sharing a line, with gaps), both chunkers, in sequence or in a
  pool that breaks; a tree of constructs for each of the 13 adapters; checkouts in
  which the same name occurs in several directories and kinds for each way imports
  are written, a module beside a settings file of its name among them.
- vectors: five worktrees that exchange texts between ids, requests that differ in
  embedder, quantization, mode and SPLADE, or ask for no vectors, in any order.
- setup: two jobs over four clients, files absent, broken, foreign or
  already ours, one edit of the user between any two writes.
- watch: three timers, four changes of the tree, two undelivered events of ignored paths.

Runs that TLC must refute, each quoting what it contradicts in `findings`:

| Run | Violates | The execution TLC finds |
|---|---|---|
| dirty_found | ReturnedIsFresh | the index is of a clean tree; a file is edited, which no call sees, and HEAD moves by an empty commit; the next call compares the two commits only, finds nothing and returns a store without the edit |
| artifact_found | NeverPartial | `archex init --from-artifact` dies after writing the payload: rows without full-text rows, under the metadata of a finished store |
| warm_found | LoneAnswerIsOfTheTree | the first call's delta has written its states; a second call finds them equal to the tree, publishes signature and id over the old rows and registers a snapshot with their graph; the first call ends with the same id (the counts are the same), and a later call, alone, reuses the snapshot |
| legs_found | CurrentIndexHasItsLegs | a full index with vectors and SPLADE rows, an edit, a delta by a request without them: the next request that wants them finds the index current, a vector file that loads and SPLADE rows that are there, all of the old texts |
| chunk_ids_found | ChunkIdsUnique | two chunks that start on one line with one name have one id, and the store keeps the last |

VectorsAreOfTheText, which `commands` checks, leaves out the files of an overdue mode,
and AnswerIsOfTheTree of `warm` the answers after a look at a half-written file; what
happens to these, legs_found and warm_found show. Three more properties leave a case out
that is stated as a property beside them and does not hold there: VisibleAsWritten (Ruby
methods that a later marker's own definition mentions: EarlierStaysVisible),
ImportsMeetTheirFile (the key a Python module shares with a file of another kind:
ModuleIsThePythonFile), QuietAnswerIsOfTheTree (a half-written delta:
FreshAnswerIsOfTheTree); section 5 has the executions. BudgetHolds is about the budget a
receipt names; that it is the caller's, BudgetIsCeiling says, and it is not.

Deadlock is checked except in `clean` (with the last move spent in a dirty tree a
caller that only runs on clean checkouts has nothing to do), `warm` and `session` (all
calls made), `commands` (the command has answered, the files are at rest and nothing is
armed) and the runs to be refuted on the same instances. That no thread of `warm` waits
for ever on a lock is NoneStuck.

In `warm`, two calls put a thread into every window of the other's call, and three
let a third call find what the first two left; four snapshots are one per key and
one per thread. In `session`, two calls race and the third reads what they left; going
away and coming back is two moves. In `server`, two calls overlap in every way, a cache of one makes each
second graph evict the first, and with two roots and two recorders the ids and counters
of one usage file could be mistaken for those of another repository or file.

### Fairness

- `FairSpec` of EnsureIndex and `ArtifactFairSpec`: weak fairness of the steps of
  each call. A call is straight-line code without waiting, so once begun it goes on
  until it returns or raises. Nothing is asked of the user, of the choice between git
  answering and git failing, or of crashes.
- `WatchFairness` of IndexWatch, in `commands` as `CommandsFairSpec`: weak fairness of the observer thread and of each timer
  thread; the operating system schedules both, `_lock` is held for a few assignments,
  and a timer's delay ends. That the files come to rest is the bound `MaxVersion`,
  without which debouncing may postpone a refresh for ever. The other commands may stop
  anywhere.
- `ServerFairSpec`: weak fairness of the event loop, the threads and the client.
  Strong fairness of `SkipRecording` and `Announce`: the agent goes on calling tools,
  its calls get past their recording and sending succeeds again and again, although
  either may fail any number of times. Without the second nothing could be promised:
  the announcement is retried with the next call, not by itself.

## 4. Theorems

The proofs hold for every number of files, contents, commits, processes, calls,
moves and crashes, in both layouts, unless a theorem says otherwise under its ASSUME,
and from the assumptions named in the modules (`StoreAssumption`,
`RepositoryAssumption`, `EnsureIndexAssumption`, `PathAssumption`, `WatchAssumption`,
`RuntimeAssumption`, `SessionAssumption`, `LedgerAssumption`, `ServerAssumption`,
`ArtifactAssumption`, `ImpactAssumption`, `TreesAssumption`, `ContextAssumption`).
These give the constants their types and say that a `NONE` is no value of the type it
stands in for (NONE is not a tree, not the content of the ledger file), that the
threads of a server and the rows of an index are finitely many, and nothing else.

- `EnsureIndexProofs!TypeCorrect`: `Spec => []TypeOK`. TypeOK alone is not
  inductive: that a transaction writes a store needs the store to be there.
  `OpenHandles` adds that: a call between opening and closing has a `Handle` that
  is a store, although databases are unlinked and replaced meanwhile (`Detach` hands
  it the inode), a full index has no path, no call is detached before it opens a
  file, and a running call has a key. `HandlesOpen` states it as a theorem.
  The argument: one lemma per store operator ("maps stores to stores"), five lemmas
  for the shapes of a step, one lemma per action or group of actions.
- `EnsureIndexProofs!NoOrphans`: one caller at a time and no edit during a call
  (`Serial`) give `Spec => []NoOrphanChunks`, crashes included. The strengthening
  `Orphanless` says what the transactions so far have set up: deleted paths have no
  chunks when their states are forgotten, the sources read are those of the tree
  when states are recorded, and every source that will get rows has a state when
  rows are swapped. This is why `apply_delta` must record states before rows - the
  very order that costs HashConfirmed when a call dies.
- `EnsureIndexFresh!AnswersAreFresh`, `EdgesAreReal`, `NothingIsMissed`,
  `VersionsDoNotMix`, `HitsAreOfTheirCommit`: the five promises of a call that nothing
  disturbs (`Undisturbed`): one caller, a tree that holds still while it runs, no kill,
  the project layout, every text file a language knows, and either clean checkouts only
  or one commit. Each conjunct is needed, and section 5 has the execution that refutes
  the promise without it. One inductive invariant, `FreshInv`, carries all five. Between
  calls (`AtRest`) the database is an index of some snapshot t (`SettledAs`): its rows
  are exactly those of t, and, where a meta key vouches for it, its signature is the one t
  has at its commit (`Signed`; `SignaturesTaken` says the same of the signature a call has
  read). During a delta
  nothing looks at the rows that are kept, so the invariant names the snapshot the
  database was of when the delta began and how far the rows of each file have come from
  t to the tree (`Renaming`, `Deleting`, `Kept`, ...), and that the manifest lists the
  whole difference of the two (`Describes`). That last fact is where the two kinds of
  delta differ and what the proof mostly consists of: a working-tree delta compares
  hashes with the recorded states, which are t; a commit delta trusts git, and is right
  because t is then the tree of the recorded commit. A full index is `Current` from its
  first row. One lemma per transaction says how it moves the rows.
- `EnsureIndexFresh!ConfigIsHonoured`: one caller (`SoleCaller`), edits, kills and both
  layouts allowed. Whoever holds a handle holds it on a store of its own configuration
  (`UnderConfig`): the check of the configuration and its use are apart, and only the
  next call of the same caller can come between them. With two callers it is false.
- `EnsureIndexFresh!CallsImplementFreshIndex`: `Undisturbed` gives
  `Spec => Fresh!Init /\ [][Fresh!Next]_Fresh!vars`, the safety half of the
  refinement. Each action of a call maps to a step of FreshIndex or a stutter; the one
  that returns needs FreshInv, for FreshIndex lets a call answer only with an index of a
  tree the call has seen.
- `PortableArtifactProofs`: the same promises for a project that also imports artifacts,
  for an undisturbed caller and `~ Reimport`: `ImportServesTheTree` (`ArtifactSpec =>
  []SyncedIsTheTree`), `AnswersAfterImport`, `EdgesAfterImport`,
  `NothingIsMissedAfterImport`, `HitsAfterImport`, `VersionsAfterImport`,
  `ConfigAfterImport`, `ImportsAreWhole` and the refinement `ImportsImplementFreshIndex`.
  The hypothesis on Reimport is not a convenience: an import leaves `index.meta` alone, so a
  key from an earlier call would vouch for the imported database (section 5), and
  `ImportFresh` is where the proof needs `metas[0] = NONE`. `ImportInv` has two halves. At
  the labels of an import of its own, `Arriving` says how far the payload has come: first a
  `CopyOf` the index of some snapshot, without full-text rows or signature, then a database
  at rest, then the tree's. From the first transaction of the sync to its last the import is
  a call of EnsureIndex and FreshInv holds of it as of any other, so that the lemmas about
  `apply_delta` and `_full_index` are used again and not proved again. That is why
  SettledAs says nothing of signatures: an import records none, and a call that finds the
  database afterwards must not trust it before it has compared the tree.
- `IndexWatchProofs!ChangesAreNotLost`, `RefreshesDoNotOverlap`: with `FlagsAgree`
  (the flag `_refreshing` is set exactly while a thread refreshes, and only then may
  a refresh be pending) both invariants are inductive together.
- `QueryRuntimeProofs!ConnectionsAccountedFor`, `RegisteredAreOpen`: for any number
  of threads, snapshots and versions. `Registration` adds who holds what: the
  registry lock is held exactly while a snapshot is built, a snapshot being built is
  nobody else's, and no snapshot is registered under two keys.
- `QueryRuntimeProofs!UndisturbedAnswers`: `Spec => []AnswerIsOfTheTree`, with every
  transaction of a delta a step of its own. While the tree holds still and nobody looks
  at a file that is being patched, a file has one patcher (`SolePatcher`), it is `Whole`,
  an index of the version it is signed with, whenever it has none (`SettledFile`), and
  `DeltaSoFar` says which of its parts are already of the tree at each step of the
  delta. A call that is past its refresh therefore reads the tree (`ReadsTree`), and a
  registered snapshot under the id of the tree is of it (`RegisteredMatch`). Both
  hypotheses are needed: `warm_found` refutes the second's omission, and not even calls
  that are alone are exempt, because the stale snapshot stays registered.
- `QueryRuntimeProofs!SomeoneGoesOn`: `Spec => []SomeoneReady`. Of the calls under way
  one waits for nothing. `LocksInUse` (a snapshot's lock is held by a call that reads
  through that snapshot, which then waits for nobody) and `BuilderHoldsRegistry` (whoever
  holds the registry lock builds, and waits for nobody) exclude the deadlock; a failed
  call gives its lock back in the same step. That a snapshot object is free when one is
  opened, and a file name when one is put in place, is counted (`OneIsUnused`,
  `FilesLeft`): these show that the two pools of the model bound nothing. `Ready` spells
  out the guard of a call's next step; that a call which is Ready has a step is the other
  half of NoneStuck, which TLC checks.
- `ProjectSessionProofs!TypeCorrect`, `TasksAreUnique`, `TasksStand`, `QuietAnswers`:
  any number of processes and calls. A capture supersedes what is active in its own
  transaction, so uniqueness needs no lock; what it does need, and `Stamped` adds, is
  that the row about to be inserted has an id no row and no other capture has - or an
  update by id would reach two. QuietAnswers is about an index of which states, rows,
  commit and signature are written apart. `IndexInv` says how far a refresh has come
  (`RefreshSoFar`) and that outside of a half-written delta, and unless a tree that moved
  has torn what was read, the four are of one version (`Whole`); commit and signature
  then tell which (`FreshIsCurrent`, from the assumption that they identify a version).
  `QuietInv` follows the tree through the readings of an undisturbed call (`Undisturbed`,
  one clause per step): each later reading is of the same version because nothing
  happened, and a call that found the index stale is not past its check. Without the
  proviso on the delta the statement is false (FreshAnswerIsOfTheTree, section 5).
- `ProjectSessionProofs!PrimersHoldTogether`: `Spec => []PrimerOfOneRevision`, for any
  sizes and budget. The loop of `_select_records` is stated by what it computes:
  a record is in if it is not stale and fits beside those before it that are in
  (`IsSelection`). `OneSelection` shows that at most one set is such, so the action leaves
  no choice. That there is one is an induction and not proved; with the loop written as a
  fold, the run has exactly the same states. The budget follows from the last record included (`LastOfAll`),
  for which the order must be total: ids name one record (`Apart`, kept by each
  transaction). That there is at most one task is OneActiveTask.
- `McpServerProofs!ClientIsNotStranded`: `ServerSpec => []NobodyStranded`, for any
  session and any number of calls. NobodyStranded says nothing of messages that a
  later answer makes obsolete, so `Informed` adds the order on the wire: an answer
  with an outdated list is followed by a notification, a further answer or a request.
  `Gate` keeps, per call, the list that was advertised when it began while the gate
  was shut, which is why a call that opens the gate and sees no difference owes no
  announcement; and only a call at "announced" may clear what is owed (`Owed`).

- `McpServerProofs!GraphAnswersAreCurrent`: `ServerSpec => []GraphAnswerIsCurrent`.
  Token, lookup, build and store of a graph query are separate steps, and a token is read
  of a file that may be half replaced. `Settled(token)` is the last export that is
  complete under a token; `Current` says, per step of a call, that what it holds is not
  behind what was settled when the call came in, and `Cache` that no entry is behind the
  token it is found by. A graph is stored under the token read before it was built, not
  the one of the moment it is stored; with the latter the invariant breaks.
- `McpServerProofs!LedgerIsHistory`: `ServerSpec => []ReportIsHistory`, for any
  recorders, repositories, days, retention and commands. The invariant `LedgerInv`
  relates the tables to the history of what was committed (`Balanced`), and keeps three
  things apart that the two connections of a recording could mix: ids of recordings
  under way are new to the file (`Fits`) and to each other (`Apart`), a repository id
  names one root (`Sound`), and no counter exists for an id no repository has. So a
  recorder that has found its repository, and whose file was deleted and made again
  meanwhile, cannot add to the wrong one. Pruning removes events only below the window
  ReportIsHistory looks at (`PrunedBooks`). What never was committed, as the event of the
  second of two first recordings, is not in the history.
- `CommandsProofs!ArtifactsExplain`: `StructureSpec => []ArtifactExplains`, for any
  parsed repository. The nodes and import edges of an artifact are taken apart by type
  (`SourceNodesAreFiles`, `ImportEdgesOfGraph`, `SymbolsOfFiles`): a node id carries the
  path it is made of, so different files have different ids and the import context read
  through ids is the one read through paths. The attempt showed that the property is
  false for symbols of visibility "internal" and not only for "private" ones (an artifact
  does not keep visibility), which the trees of `commands` do not have; the property now
  excludes both.
- `CommandsProofs!LargerChangesRiskMore`: `StructureSpec => []RiskGrows`, for any index of
  finitely many rows (`Countable`) and any threshold. Each reason is monotone in the change
  (`MoreReasons`), the two that count by the cardinalities of finite sets, and the level
  is monotone in the reasons. Both theorems are invariants of `StructureNext`, under
  `StructureInv`: an artifact is that of the index, a report that of a change asked about.
- `CommandsProofs!VectorsFollowTheText`: `VectorsSpec => []VectorsAreOfTheText`, for any
  set of requests, with and without vectors and of any modes. A file is always a build
  from nothing of some chunks by some configuration (`Sound`), even if it was put
  together from old vectors (`CachedBuild`), and it is a build of the chunks of the
  database if its mode is not overdue (`OfTheDatabase`), except between the two halves of
  an update. What happens to a mode that is overdue is `legs_found`. Here `Next` is
  that of the component, not of `Commands`, in which a behaviour is of one command and
  the vectors command is that `Next`.
- `CommandsProofs!BudgetsAreFair`: `ContextSpec => []BudgetFollowsRequest`, for any
  budgets, intents and sizes of a repository: the ramp grants at most half as much again
  as was asked for - so much is left of the ceiling its docstring names - and asking for
  more never gives less (MoreForMore, which is part of BudgetHolds). `BudgetInv`
  follows the budget of a request through every route, the filters and both receipts,
  and `BudgetIsFair` is arithmetic. The ramp is a quotient of products; that it grows
  (`RampGrows`) and lies between the budget and the whole tree (`RampBounds`) is what
  makes it meet the two regimes at its ends without a drop. The theorem is about whole
  numbers. The code computes in floats and cuts: for trees below 1500 tokens that costs
  one token at 31 of a million pairs (72 of 132 gives 106, not 107) and disturbs neither
  half of the property.

Only model-checked, and why:

- liveness (CallsEnd, EveryChangeRefreshed, ComesToRest, ListReaches, the liveness half
  of ImplementsFreshIndex) and ENABLED (the second half of NoneStuck): tlapm 1.4.5 has
  no rules for fairness or ENABLED;
- SetupConverges, the costs in BudgetHolds, SearchIsRight and the other invariants
  of `commands`, and OthersKept: what they say is computed by folds over the data of a
  request (or by RECURSIVE operators over syntax trees), and the induction theorems for
  these take an operator as parameter, which no installed prover instantiates. Most of
  them also go through `SelectSeq`, which tlapm neither expands nor has a fact about.

Stated in the modules and in no run: GenerationIdentifiesIndex (EnsureIndex),
NotClosedInUse (QueryRuntime), RemovedOnlyByDelete and FreshAnswerIsOfTheTree
(ProjectSession), TotalsBeforeCaps and BudgetIsCeiling (ContextQuery), TargetIsOfLanguage,
EarlierStaysVisible and ModuleIsThePythonFile (SourceIngest). Each of them
fails; section 5 says how to see it.

## 5. Met while modelling

What the models showed or the translation met, beyond the five findings. Where
constants are named, they reproduce it. None has a run of its own: the number of
runs is kept to one per question.

Index, cache and artifact:

- `put` writes `index.meta` after the database. A crash in between leaves the
  database of the new commit under the key of the old one (`cache.py:221`); set
  `MaxCrashes = 1` and `DeltaThreshold = 0` in `clean`: HitIsOfCommit fails.
- A call that dies after `upsert_file_states` and before the rows are swapped leaves
  stale rows that later deltas take for confirmed: `MaxCrashes = 1` in `worktree`
  refutes HashConfirmed, NoInventedEdges and the refinement.
- A kill among two interleaved calls can also leave rows without a file state, which
  no later delta removes: `keyed` without `OneFault`.
- Two callers with different configurations on one keyed database:
  AnswersUnderItsConfig fails in `keyed` with `Configs = {c1, c2}`. The check of the
  configuration and the use of the database are apart (`api.py:511`).
- On the keyed layout `apply_delta` rewrites the old commit's database in place before
  `put` copies it to the new key (`api.py:640`); checking the old commit out hits
  it, against `api.py:482`. Check HitIsOfCommit of EnsureIndex (`Spec`) with the constants
  of `clean` and `ProjectLayout = FALSE`.
- `remove_paths` leaves out added files. A file that was indexed while untracked and
  is committed with another content comes to have two versions
  (OneVersionPerFile in `keyed` with `MCContents` for `Contents`), and a commit delta
  repeated after a crash inserts FTS rows twice, against `index/bm25.py:183`.
- `delete_and_insert_for_files` drops the edges of the importers of a modified file,
  and counts and signature, hence the generation id, stay: GenerationIdentifiesIndex
  fails in `worktree`.
- A text file whose extension names no language is indexed but not part of the
  working-tree signature (`index/delta.py:81`): an edit of it is an exact hit. Set
  `Unlisted = {g}` in `worktree`: ReturnedIsFresh and the refinement fail.
- A rename onto a path that has a file state raises `IntegrityError`, which is not
  a `DeltaIndexError`: that call fails and so does each one after it.
- `apply_delta` writes under the generation id of the index it replaces, while
  `serve/generation.py:20` says the id is `None` for a store left mid-write.
- The sync of an import renews neither signature nor generation after a delta, and
  a clean sync leaves the commit of the artifact. With `Reimport = TRUE`, an import
  over a project that has an `index.meta` violates HitIsOfCommit.
- With `EditDuringCalls = TRUE`, or with two callers and edits, freshness is lost;
  no doc promises otherwise.

Warm serving:

- A thread registers the snapshot of a new generation and closes the old one while
  another thread searches through it: NotClosedInUse in `warm`.
- A snapshot may be built from other rows than those of the id it is registered
  under, when another call patches or replaces `index.db` between the two reads; each
  later caller of that id gets it (`serve/runtime.py`'s docstring names only the race
  of the search). And without interleaving: version A is queried, a small change
  patches the file to B, a large one replaces it, a large revert brings A's id back,
  and the cached snapshot's connection is to the patched file.
  The run `warm_found` has a third way, in which the file is not replaced at all.
- After `close` a call still in the executor registers a snapshot nobody closes.

Session, server, metrics:

- `archex reset --force` without `--all` removes `session.db` too (`project.py:206`,
  against `README.md:305`): RemovedOnlyByDelete in `session`.
- A delta replaces the file states, of which the index revision is the hash
  (`receipt.py:57`), long before commit and signature. If the user goes back to the
  indexed tree after that, status calls the index fresh, and the hook stamps rows of this
  tree with the revision of the other one (`hook.py:21` says the stamp is "the index
  revision"): FreshAnswerIsOfTheTree in `session` with one process, one call and two moves.
- The hook reads status and index in two statements of two connections; `created_at`
  is stamped before the write lock is taken, so order by time need not be order of
  commit.
- Of two first recordings of a repository the second is refused by `UNIQUE(repo_root)`
  and its event dropped (`registry.py:47`, `recorder.py:95`).
- A metrics recording is two connections: a deletion of the file in between registers
  the repository in the old file. Retention is enforced by recordings only, so
  metrics that are switched off keep what they have.
- `clear_graph_query_cache` is reached from tests only; the token of an artifact is
  what keeps the cache honest.

Vectors and SPLADE:

- The vectors of old texts that `legs_found` ends with are searched: content hashes are
  stored but not compared on load. A call that dies between `apply_delta` and the save
  of the vectors leaves the same.
- `_index_config_metadata_matches` looks at neither vectors, embedder, mode nor
  SPLADE. `archex index --splade` on a current index is a cache hit, so the remedy of
  the error at `api.py:908` does nothing. Module summaries are not refreshed by a
  delta; a quantized file is never reused; the uncached route of `query` writes no
  configuration, so the next refresh rebuilds.

Chunking, parsing, imports:

- The default chunker merges file-level candidates that are adjacent in its list,
  not in the file; groups joined by a newline may exceed `chunk_max_tokens`; the cast
  chunker drops what lies outside the structural ranges of languages it only chunks.
- A parse error other than `ParseError` ends a sequential index and is one file's
  error in the pool, unlogged; a sequential run never raises although every file
  fails; pool workers know adapters of entry points only if they inherit them by
  `fork` (`README.md:416`), and drop their files silently. A strict full index passes
  over a file that cannot be read the second time.
- Adapters: unbraced `extern "C"` declarations (C), top-level annotation types
  (Java), top-level properties (Kotlin, Swift), `init` and enum properties (Swift)
  and inline modules (Rust) yield no symbols; C# qualifies every type with the first
  namespace; Ruby's `private :name` also marks a singleton method of that name.
- Ruby looks for the names a marker is given in all descendants of its arguments
  (`ruby.py:111`), also in the body of a method defined there: a public `f`, then
  `private def k; send(:f); end`, and `f` is private. `tests/parse/adapters/test_ruby.py:163`
  has such a method "stay public". EarlierStaysVisible in `commands` with
  `Checkouts <- RubyCheckouts`.
- `build_file_map` gives files of every kind a dotted key without extension, and the last
  one listed has it (`imports.py:158`): with `b.py` and `b.yaml`, `import b` leads to
  `b.yaml`. ModuleIsThePythonFile in `commands` with `Checkouts <- SharedKeys`.
- Imports: Swift and Go take the first file of any kind in a matching directory
  (TargetIsOfLanguage, with `NamedFiles(".swift")` among the checkouts); Ruby's
  `require 'json'` meets a local `lib/x/json.rb`; `java.util.List` meets any `List.java`; Rust compares the ends of
  paths; Python's dots beyond the root stop there, and `from . import x` leads to the
  package only.

Context and scout:

- "``user_budget`` is a hard ceiling" (`api.py:1428`), and five lines below the same
  docstring has a "linear ramp from total down to budget", which is what the code
  computes (`api.py:1447`): for a tree of one to three times the budget more is granted
  and packed than the caller named. BudgetIsCeiling in `commands`: of a budget of 13 the
  ramp makes 17, and 15 are packed. BudgetFollowsRequest says what does hold. `query` builds the receipt again from the list
  the cap has already cut, so `skipped_total` is the cap, against
  `docs/CONTEXT_RECEIPTS.md:15`: TotalsBeforeCaps in `commands`.
- Sets are iterated in hash order where ties are broken (`seed_files`, the ids of
  fusion), against the determinism of `docs/OVERVIEW.md:72`.
- Filters leave a receipt "complete", and a search that finds nothing is complete, as
  are handles that do not resolve; skipped candidates cover chosen files only; the
  co-directory fallback of the cached path cannot run.
- Scout attaches its receipt after the cap was enforced; its size estimate leaves out
  strategy and guardrail; a scout receipt may say complete although the map omitted
  files.

Structure and setup:

- Impact counts `unresolved://` nodes; a deleted file is "unmapped"; an explanation
  from an artifact ignores semantic edges and configuration files and shows private and
  internal symbols as public; a neighbor query in
  both directions lists an edge twice; a delta does not collect semantic evidence
  again.
- Setup: `preflight` names every client as discovered, and a path other than the one
  written; `install-client --all-detected` stops at the first refused file; a
  `ValueError` of a hook write is not caught; a matching group whose hooks are not a
  list is overwritten; reinstalling moves our handler to the end; read, modify and
  write take no lock.

## 6. Plan

Done, in order: IndexStore, Repository, EnsureIndex, FreshIndex, IndexWatch and
QueryRuntime; ProjectSession, PortableArtifact, McpServer with MetricsLedger, the
structure, context, scout, setup, ingest, packing and vector modules, Commands.

What remains, in order of weight:

1. Theorems: SearchIsRight of GraphQuery, whose loop is a state machine of its own, for the
   part that needs no fold; OthersKept of ClientSetup, per job.
2. Evidence providers and the refresh of semantic edges by a delta, as further
   transactions of IndexStore.
3. The WAL file as part of a database, for `put` under an open connection.

## 7. Not modelled

- `needs_reindex` and schema migration, the rebuild of `chunks_fts` for the
  identifier-fragment option, a corrupt `.meta` file, repositories without git, remote
  sources, torn writes of a payload.
- Evidence providers (LSP, SCIP): external processes whose answers would be data.
- Architecture analysis (`analyze/`): heuristics and numeric clustering over one
  parsed tree. Explorer, doctor, onboarding and precision lookups: they read and
  format.
- Intent classification, scores, embeddings, quantization numerics, the cross
  encoder: floating point and word lists; the models take their results as data.
- The evaluation harness, its reports and the dogfood script; option parsing,
  configuration files, output.
- Query handlers of the MCP server beyond the steps of a call: they call what is
  modelled in the other modules.
