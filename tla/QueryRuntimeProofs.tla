------------------------ MODULE QueryRuntimeProofs ------------------------
(***************************************************************************)
(* Theorems about QueryRuntime, for any number of threads, snapshots, keys *)
(* and versions of the tree, with and without git failing.                 *)
(***************************************************************************)
EXTENDS QueryRuntime, FiniteSetTheorems, TLAPS

Rewriting  == {"delete", "states", "swap", "fts", "commit"}
Served     == {"search", "searching", "rank", "ranking", "receipts", "answered"}
Searched   == {"rank", "ranking", "receipts", "answered"}
Past       == {"opened", "lookup"} \cup Holding

---------------------------------------------------------------------------
(* Who holds what.                                                         *)

\* The registry lock is held exactly while a snapshot is built.
BuilderHoldsRegistry == \A t \in Threads : pc[t] \in Building <=> registry = t

\* From the lookup to its end a call has a snapshot.
CallHoldsSnapshot == \A t \in Threads : pc[t] \in Holding <=> Mine(t) \in Snapshots

\* The snapshot being built is open and nobody else's.
BuiltApart ==
    \A t \in Threads : pc[t] \in Building =>
        /\ IsOpen(Mine(t))
        /\ \A k \in Keys : snapshots[k] # Mine(t)
        /\ \A u \in Threads : u # t => Mine(u) # Mine(t)

OneKeyEach ==
    \A j, k \in Keys : snapshots[j] = snapshots[k] /\ snapshots[j] # NoSnapshot => j = k

Registration ==
    /\ BuilderHoldsRegistry /\ CallHoldsSnapshot /\ BuiltApart /\ OneKeyEach
    /\ NoLeakedConnection /\ RegisteredIsOpen

---------------------------------------------------------------------------
(* What is in the files.                                                   *)

\* No connection is to a file that is not there yet.
FilesExist ==
    /\ \A t \in Threads : call[t].file <= file
    /\ \A s \in Snapshots : warm[s].file <= file

\* A file that is an index of one version.
Whole(f, v) ==
    /\ db[f].states = v /\ db[f].rows = v /\ db[f].fts = v
    /\ db[f].commit = KeyOf[v] /\ db[f].signature = v /\ db[f].generation.signature = v

\* Nobody patches a file but the one who has begun to, and index.db is whole
\* when nobody does.
SolePatcher ==
    \A t, u \in Threads :
        pc[t] \in Patching /\ pc[u] \in Patching /\ t # u => call[t].file # call[u].file

SettledFile == ~ BeingPatched => Whole(file, db[file].signature)

\* What a call does to the files, it does for the tree as it is.
TargetsTree ==
    \A t \in Threads : pc[t] \in {"manifest", "put"} \cup Patching => call[t].target = tree

\* How far a delta has come, also one that has found nothing to do.
DeltaSoFar ==
    \A t \in Threads :
        LET d == db[call[t].file]
        IN  /\ pc[t] \in {"swap", "fts", "commit", "sign", "identify"} => d.states = tree
            /\ pc[t] \in {"fts", "commit", "sign", "identify"} => d.rows = tree
            /\ pc[t] \in {"commit", "sign", "identify"} => d.fts = tree
            /\ pc[t] \in {"sign", "identify"} => d.commit = KeyOf[tree]
            /\ pc[t] = "identify" => d.signature = tree
            /\ pc[t] = "opened" => d.generation.signature = tree

\* Who is past the refresh, or refreshes a file that has been replaced, has a whole
\* index of the tree at index.db, which no delta takes up any more.
DoneMeansCurrent ==
    \A t \in Threads :
        pc[t] \in Past \/ (pc[t] \in Patching /\ call[t].file # file) =>
            /\ Whole(file, tree)
            /\ \A u \in Threads : pc[u] \in Rewriting => call[u].file # file

\* What a call reads for a snapshot, or finds in one, is of the tree.
ReadsOf(t) ==
    /\ pc[t] = "lookup" => call[t].generation.signature = tree
    /\ pc[t] \in Holding => warm[Mine(t)].generation.signature = tree
    /\ pc[t] \in {"graph", "chunks"} =>
          /\ db[warm[Mine(t)].file].rows = tree
          /\ \A u \in Threads : pc[u] \in Rewriting => call[u].file # warm[Mine(t)].file
    /\ pc[t] \in {"chunks", "register"} \cup Served => warm[Mine(t)].graph = tree
    /\ pc[t] \in {"register"} \cup Served => warm[Mine(t)].chunks = tree
    /\ pc[t] \in Searched /\ warm[Mine(t)].file = file => call[t].hits = tree

ReadsTree == \A t \in Threads : ReadsOf(t)

RegisteredMatch ==
    \A k \in Keys : snapshots[k] # NoSnapshot =>
        LET w == warm[snapshots[k]]
        IN  w.graph = w.generation.signature /\ w.chunks = w.generation.signature

Refreshes   == SolePatcher /\ SettledFile /\ TargetsTree /\ DeltaSoFar /\ DoneMeansCurrent
Undisturbed == Refreshes /\ ReadsTree /\ RegisteredMatch

IInv == TypeOK /\ Registration /\ FilesExist /\ (~ disturbed /\ ~ overlapped => Undisturbed)

---------------------------------------------------------------------------
(* Types.                                                                  *)

LEMMA IdTyped == ASSUME NEW v \in Versions, NEW r \in Rows PROVE IdOf(v, r) \in Id
BY RuntimeAssumption DEF IdOf, Id, Rows

LEMMA IndexTyped == ASSUME NEW v \in Versions PROVE IndexOf(v) \in Database
<1>1. IdOf(v, v) \in Id /\ KeyOf[v] \in Keys
  BY IdTyped, RuntimeAssumption DEF Rows
<1> QED
  BY <1>1 DEF IndexOf, Database, Rows

LEMMA NoCallType == ASSUME Versions # {} PROVE NoCall \in Call
<1> DEFINE v == CHOOSE v \in Versions : TRUE
<1>1. v \in Versions
  OBVIOUS
<1>2. KeyOf[v] \in Keys
  BY <1>1, RuntimeAssumption
<1>3. 1 \in File
  BY RuntimeAssumption DEF File
<1> HIDE DEF v
<1> QED
  BY <1>1, <1>2, <1>3, IdTyped DEF NoCall, Call, v, Rows

LEMMA InitType == Init => TypeOK
<1> SUFFICES ASSUME Init PROVE TypeOK
  OBVIOUS
<1>1. 1 \in File /\ NoCall \in Call
  BY NoCallType, RuntimeAssumption DEF Init, File
<1>2. IndexOf(tree) \in Database
  BY IndexTyped DEF Init
<1>3. db \in [File -> Database] /\ call \in [Threads -> Call]
  BY <1>1, <1>2 DEF Init
<1>4. warm \in [Snapshots -> Snapshot]
  BY IdTyped DEF Init, Snapshot, Rows
<1>5. /\ snapshots \in [Keys -> Snapshots \cup {NoSnapshot}]
      /\ pc \in [Threads -> {"idle", "ensure", "manifest", "put", "opened", "lookup"}
                            \cup Patching \cup Holding]
  BY DEF Init
<1>6. /\ down \in BOOLEAN /\ disturbed \in BOOLEAN /\ overlapped \in BOOLEAN /\ calls \in Nat /\ moves \in Nat
      /\ tree \in Versions /\ file \in File /\ registry \in Threads \cup {NoThread}
      /\ alone \in SUBSET Threads
  BY <1>1 DEF Init
<1> QED
  BY <1>3, <1>4, <1>5, <1>6 DEF TypeOK

\* A snapshot given a generation and a file stays a snapshot.
LEMMA ReopenedTyped ==
    ASSUME NEW w \in [Snapshots -> Snapshot], NEW s \in Snapshots,
           NEW g \in Id, NEW f \in File
    PROVE  [w EXCEPT ![s].generation = g, ![s].file = f] \in [Snapshots -> Snapshot]
BY DEF Snapshot

\* What the steps of a delta have in common.
OneTransaction(t) ==
    /\ pc[t] \in Patching
    /\ \E label \in Patching \cup {"opened"} : pc' = [pc EXCEPT ![t] = label]
    /\ \E d \in Database : db' = [db EXCEPT ![call[t].file] = d]
    /\ UNCHANGED <<file, snapshots, registry, warm, call, tree, down, calls, moves, disturbed,
                   overlapped, alone>>

LEMMA DeltaStep ==
    ASSUME TypeOK, NEW t \in Threads, Delta(t)
    PROVE  OneTransaction(t)
<1> DEFINE old == Patched(t)
           v == call[t].target
<1>1. old \in Database /\ v \in Versions
  BY DEF TypeOK, Patched, Call
<1>2. ASSUME NEW before \in Patching, NEW label \in Patching \cup {"opened"}, NEW d \in Database,
             Patch(t, before, d, label)
      PROVE  OneTransaction(t)
  BY <1>2 DEF Patch, OneTransaction, Goto, runtimeVars, history
<1>3. ASSUME NEW rows \in Rows PROVE Without(rows, v) \in Rows
  BY <1>3 DEF Without, Rows
<1>4. v \in Rows /\ HALF \in Rows /\ KeyOf[v] \in Keys
  BY <1>1, RuntimeAssumption DEF Rows
<1>5. CASE DeleteRows(t)
  <2>1. [old EXCEPT !.rows = Without(@, v), !.fts = Without(@, v), !.states = Without(@, v)] \in Database
    BY <1>1, <1>3 DEF Database
  <2> QED
    BY <1>2, <1>5, <2>1 DEF DeleteRows, Patching
<1>6. CASE WriteStates(t)
  <2>1. [old EXCEPT !.states = v] \in Database
    BY <1>1, <1>4 DEF Database
  <2> QED
    BY <1>2, <1>6, <2>1 DEF WriteStates, Patching
<1>7. CASE SwapRows(t)
  <2>1. [old EXCEPT !.rows = v, !.fts = HALF] \in Database
    BY <1>1, <1>4 DEF Database
  <2> QED
    BY <1>2, <1>7, <2>1 DEF SwapRows, Patching
<1>8. CASE InsertFts(t)
  <2>1. [old EXCEPT !.fts = IF old.rows = v THEN v ELSE HALF] \in Database
    BY <1>1, <1>4 DEF Database
  <2> QED
    BY <1>2, <1>8, <2>1 DEF InsertFts, Patching
<1>9. CASE SetCommit(t)
  <2>1. [old EXCEPT !.commit = KeyOf[v]] \in Database
    BY <1>1, <1>4 DEF Database
  <2> QED
    BY <1>2, <1>9, <2>1 DEF SetCommit, Patching
<1>10. CASE Sign(t)
  <2>1. [old EXCEPT !.signature = v] \in Database
    BY <1>1 DEF Database
  <2> QED
    BY <1>2, <1>10, <2>1 DEF Sign, Patching
<1>11. CASE Identify(t)
  <2>1. IdOf(old.signature, old.rows) \in Id
    BY <1>1, IdTyped DEF Database
  <2>2. [old EXCEPT !.generation = IdOf(old.signature, old.rows)] \in Database
    BY <1>1, <2>1 DEF Database
  <2> QED
    BY <1>2, <1>11, <2>2 DEF Identify, Patching
<1> QED
  BY <1>5, <1>6, <1>7, <1>8, <1>9, <1>10, <1>11 DEF Delta

LEMMA NextType == TypeOK /\ CallHoldsSnapshot /\ BuiltApart /\ [Next]_vars => TypeOK'
<1> SUFFICES ASSUME TypeOK, CallHoldsSnapshot, BuiltApart, [Next]_vars PROVE TypeOK'
  OBVIOUS
<1> USE DEF TypeOK, storeVars, runtimeVars, history, Goto
<1>a. \A t \in Threads : pc[t] \in Holding => Mine(t) \in Snapshots
  BY DEF CallHoldsSnapshot
<1>b. \A s \in Snapshots : IsOpen(s) => RowsOf(s) \in Rows /\ FoundIn(s) \in Rows
  BY DEF IsOpen, RowsOf, FoundIn, Snapshot, Database, Rows
<1>1. ASSUME NEW t \in Threads, Hit(t) PROVE TypeOK'
  BY <1>1 DEF Hit, Looks, Call
<1>2. ASSUME NEW t \in Threads, NoChanges(t) \/ BeginDelta(t) PROVE TypeOK'
  <2>1. /\ pc[t] = "manifest" /\ pc'[t] \in {"sign", "delete"}
        /\ pc' = [pc EXCEPT ![t] = pc'[t]] /\ call' = [call EXCEPT ![t].file = file]
        /\ UNCHANGED <<tree, db, file, snapshots, registry, warm, down, calls, moves, disturbed, alone>>
        /\ overlapped' \in BOOLEAN
    <3>1. CASE NoChanges(t)
      BY <3>1 DEF NoChanges, Looks
    <3>2. CASE BeginDelta(t)
      BY <3>2 DEF BeginDelta, Looks
    <3> QED
      BY <1>2, <3>1, <3>2
  <2>2. call' \in [Threads -> Call]
    BY <2>1 DEF Call
  <2>3. pc' \in [Threads -> {"idle", "ensure", "manifest", "put", "opened", "lookup"}
                            \cup Patching \cup Holding]
    BY <2>1 DEF Patching
  <2> QED
    BY <2>1, <2>2, <2>3
<1>3. ASSUME NEW t \in Threads, Miss(t) PROVE TypeOK'
  BY <1>3 DEF Miss, Call
<1>4. ASSUME NEW t \in Threads, Delta(t) PROVE TypeOK'
  <2>1. PICK d \in Database : db' = [db EXCEPT ![call[t].file] = d]
    BY <1>4, DeltaStep DEF OneTransaction
  <2>2. db' \in [File -> Database]
    BY <2>1
  <2>3. pc' \in [Threads -> {"idle", "ensure", "manifest", "put", "opened", "lookup"}
                            \cup Patching \cup Holding]
    BY <1>4, DeltaStep DEF OneTransaction
  <2> QED
    BY <1>4, <2>2, <2>3, DeltaStep DEF OneTransaction
<1>6. ASSUME NEW t \in Threads, BeginFull(t) PROVE TypeOK'
  BY <1>6 DEF BeginFull, Call
<1>7. ASSUME NEW t \in Threads, PutDb(t) PROVE TypeOK'
  <2>1. file' \in File /\ IndexOf(call[t].target) \in Database
    BY <1>7, IndexTyped, RuntimeAssumption DEF PutDb, File, Call
  <2>2. db' \in [File -> Database]
    BY <1>7, <2>1 DEF PutDb
  <2>3. call' \in [Threads -> Call]
    BY <1>7, <2>1 DEF PutDb, Call
  <2> QED
    BY <1>7, <2>1, <2>2, <2>3 DEF PutDb
<1>8. ASSUME NEW t \in Threads, Leave(t) PROVE TypeOK'
  BY <1>8, NoCallType DEF Leave, GoIdle
<1>9. ASSUME NEW t \in Threads, ReadGenerationId(t) PROVE TypeOK'
  BY <1>9 DEF ReadGenerationId, Call, Database
<1>10. ASSUME NEW t \in Threads, Reuse(t) PROVE TypeOK'
  BY <1>10, <1>a DEF Reuse, Call, Valid, Holding
<1>11. ASSUME NEW t \in Threads, OpenSnapshot(t) PROVE TypeOK'
  <2>1. PICK s \in Snapshots :
            /\ warm' = [warm EXCEPT ![s].generation = call[t].generation, ![s].file = file]
            /\ call' = [call EXCEPT ![t].snapshot = s]
    BY <1>11 DEF OpenSnapshot
  <2>2. call' \in [Threads -> Call]
    BY <2>1 DEF Call
  <2>3. warm' \in [Snapshots -> Snapshot]
    <3>1. call[t].generation \in Id /\ file \in File /\ warm \in [Snapshots -> Snapshot]
      BY DEF Call
    <3> QED
      BY ONLY <2>1, <3>1, ReopenedTyped
  <2> QED
    BY <1>11, <2>2, <2>3 DEF OpenSnapshot, Holding, Building
<1>12. ASSUME NEW t \in Threads, BuildGraph(t) PROVE TypeOK'
  BY <1>12, <1>a, <1>b, ZenonT(60) DEF BuildGraph, Snapshot, Holding, Building, BuiltApart, Mine
<1>13. ASSUME NEW t \in Threads, GetChunks(t) PROVE TypeOK'
  <2>1. Mine(t) \in Snapshots /\ RowsOf(Mine(t)) \in Rows
    BY <1>13, <1>a, <1>b DEF GetChunks, Holding, Building, BuiltApart
  <2>2. warm' \in [Snapshots -> Snapshot]
    BY <1>13, <2>1 DEF GetChunks, Mine, Snapshot
  <2> QED
    BY <1>13, <2>2 DEF GetChunks, Holding, Building
<1>14. ASSUME NEW t \in Threads, Register(t) PROVE TypeOK'
  BY <1>14, <1>a, RuntimeAssumption DEF Register, Closed, Snapshot, Holding, Building, Mine
<1>15. ASSUME NEW t \in Threads, EnterSearch(t) PROVE TypeOK'
  BY <1>15, <1>a DEF EnterSearch, Locked, Snapshot, Holding, Guarded
<1>16. ASSUME NEW t \in Threads, Search(t) PROVE TypeOK'
  <2>1. Mine(t) \in Snapshots /\ FoundIn(Mine(t)) \in Rows
    BY <1>16, <1>a, <1>b DEF Search, Holding, Guarded
  <2>2. call' \in [Threads -> Call]
    BY <1>16, <2>1 DEF Search, Call
  <2>3. warm' \in [Snapshots -> Snapshot]
    BY <1>16, <2>1 DEF Search, Released, Snapshot
  <2> QED
    BY <1>16, <2>2, <2>3 DEF Search, Holding
<1>17. ASSUME NEW t \in Threads, EnterRank(t) PROVE TypeOK'
  BY <1>17, <1>a DEF EnterRank, Locked, Snapshot, Holding, Guarded
<1>18. ASSUME NEW t \in Threads, Rank(t) PROVE TypeOK'
  BY <1>18, <1>a, RuntimeAssumption DEF Rank, Released, Snapshot, Holding, Guarded
<1>19. ASSUME NEW t \in Threads, ReadReceipts(t) PROVE TypeOK'
  BY <1>19 DEF ReadReceipts, Holding
<1>20. ASSUME NEW t \in Threads, UseOfClosed(t) PROVE TypeOK'
  BY <1>20, <1>a, NoCallType DEF UseOfClosed, GoIdle, Released, Snapshot, Holding, Guarded
<1>21. ASSUME NEW t \in Threads, Return(t) PROVE TypeOK'
  BY <1>21, NoCallType DEF Return, GoIdle
<1>22. ASSUME NEW t \in Threads, Ask(t) PROVE TypeOK'
  BY <1>22, RuntimeAssumption DEF Ask, Call
<1>23. CASE TreeMoves
  BY <1>23 DEF TreeMoves
<1>24. CASE Close
  BY <1>24, RuntimeAssumption DEF Close, Closed, Snapshot, Emptied
<1>25. CASE UNCHANGED vars
  BY <1>25 DEF vars
<1> QED
  BY <1>1, <1>2, <1>3, <1>4, <1>6, <1>7, <1>8, <1>9, <1>10, <1>11, <1>12, <1>13, <1>14, <1>15, <1>16, <1>17, <1>18, <1>19, <1>20, <1>21, <1>22, <1>23, <1>24, <1>25 DEF Next, Work, EnsureIndex, GetOrBuild, Serve

---------------------------------------------------------------------------
(* Who holds what.                                                         *)

LEMMA InitRegistration == Init => Registration
<1> SUFFICES ASSUME Init PROVE Registration
  OBVIOUS
<1>1. BuilderHoldsRegistry /\ CallHoldsSnapshot /\ BuiltApart
  BY RuntimeAssumption DEF Init, BuilderHoldsRegistry, CallHoldsSnapshot, BuiltApart, Building,
                           Holding, Guarded, Mine, NoCall
<1>2. OneKeyEach /\ NoLeakedConnection /\ RegisteredIsOpen
  BY DEF Init, OneKeyEach, NoLeakedConnection, RegisteredIsOpen, IsOpen
<1> QED
  BY <1>1, <1>2 DEF Registration

\* A step that neither opens nor closes a snapshot nor passes one on.
LEMMA KeepsRegistration ==
    ASSUME TypeOK, Registration, UNCHANGED <<snapshots, registry>>,
           \A t \in Threads :
               /\ call'[t].snapshot = call[t].snapshot
               /\ pc'[t] \in Holding <=> pc[t] \in Holding
               /\ pc'[t] \in Building <=> pc[t] \in Building,
           \A s \in Snapshots : warm'[s].file = warm[s].file
    PROVE  Registration'
<1> USE DEF Holding, Building, Guarded
<1>1. BuilderHoldsRegistry'
  BY DEF Registration, BuilderHoldsRegistry
<1>2. CallHoldsSnapshot'
  BY DEF Registration, CallHoldsSnapshot, Mine
<1>3. BuiltApart'
  <2>1. \A t \in Threads : pc[t] \in Building => call[t].snapshot \in Snapshots
    BY DEF Registration, CallHoldsSnapshot, Mine
  <2> QED
    BY <2>1 DEF Registration, BuiltApart, Mine, IsOpen
<1>4. OneKeyEach'
  BY DEF Registration, OneKeyEach
<1>5. NoLeakedConnection'
  BY DEF Registration, NoLeakedConnection, Mine, IsOpen
<1>6. RegisteredIsOpen'
  BY DEF TypeOK, Registration, RegisteredIsOpen, IsOpen
<1> QED
  BY <1>1, <1>2, <1>3, <1>4, <1>5, <1>6 DEF Registration

\* A call that holds a served snapshot ends.
LEMMA EndsRegistration ==
    ASSUME TypeOK, Registration, UNCHANGED <<snapshots, registry>>,
           NEW t \in Threads, pc[t] \notin Building, GoIdle(t),
           \A s \in Snapshots : warm'[s].file = warm[s].file
    PROVE  Registration'
<1> USE DEF Goto, GoIdle, TypeOK
<1>1. call'[t].snapshot = NoSnapshot /\ \A u \in Threads \ {t} : call'[u] = call[u]
  BY DEF NoCall
<1>2. pc'[t] = "idle" /\ \A u \in Threads \ {t} : pc'[u] = pc[u]
  OBVIOUS
<1>3. BuilderHoldsRegistry'
  BY <1>2 DEF Registration, BuilderHoldsRegistry, Building
<1>4. CallHoldsSnapshot'
  BY <1>1, <1>2, RuntimeAssumption DEF Registration, CallHoldsSnapshot, Mine, Holding, Building,
                                       Guarded
<1>5. BuiltApart'
  <2>1. \A u \in Threads : pc[u] \in Building => call[u].snapshot \in Snapshots
    BY DEF Registration, CallHoldsSnapshot, Holding, Mine
  <2> QED
    BY <1>1, <1>2, <2>1, RuntimeAssumption DEF Registration, BuiltApart, Mine, IsOpen, Building
<1>6. OneKeyEach'
  BY DEF Registration, OneKeyEach
<1>7. NoLeakedConnection'
  BY <1>1, <1>2 DEF Registration, NoLeakedConnection, Mine, IsOpen
<1>8. RegisteredIsOpen'
  BY DEF Registration, RegisteredIsOpen, IsOpen
<1> QED
  BY <1>3, <1>4, <1>5, <1>6, <1>7, <1>8 DEF Registration

LEMMA ReuseRegistration ==
    ASSUME TypeOK, Registration, NEW t \in Threads, Reuse(t)
    PROVE  Registration'
<1> USE DEF Goto, TypeOK, Reuse, Valid, runtimeVars
<1> DEFINE s == snapshots[call[t].key]
<1>1. s \in Snapshots /\ call[t].key \in Keys
  BY DEF Call
<1>2. call'[t].snapshot = s /\ \A u \in Threads \ {t} : call'[u] = call[u]
  OBVIOUS
<1>3. pc'[t] = "search" /\ \A u \in Threads \ {t} : pc'[u] = pc[u]
  OBVIOUS
<1>4. BuilderHoldsRegistry'
  BY <1>3 DEF Registration, BuilderHoldsRegistry, Building
<1>5. CallHoldsSnapshot'
  BY <1>1, <1>2, <1>3 DEF Registration, CallHoldsSnapshot, Mine, Holding
<1>6. BuiltApart'
  BY <1>1, <1>2, <1>3, RuntimeAssumption DEF Registration, BuilderHoldsRegistry, BuiltApart, Mine,
                                             IsOpen, Building
<1>7. OneKeyEach' /\ RegisteredIsOpen'
  BY DEF Registration, OneKeyEach, RegisteredIsOpen, IsOpen
<1>8. NoLeakedConnection'
  BY <1>2, <1>3 DEF Registration, NoLeakedConnection, Mine, IsOpen, Building
<1> QED
  BY <1>4, <1>5, <1>6, <1>7, <1>8 DEF Registration

LEMMA OpenRegistration ==
    ASSUME TypeOK, Registration, NEW t \in Threads, OpenSnapshot(t)
    PROVE  Registration'
<1> USE DEF Goto, TypeOK
<1>1. PICK s \in Snapshots :
          /\ Unused(s)
          /\ warm' = [warm EXCEPT ![s].generation = call[t].generation, ![s].file = file]
          /\ call' = [call EXCEPT ![t].snapshot = s]
  BY DEF OpenSnapshot
<1>2. /\ registry = NoThread /\ registry' = t /\ UNCHANGED snapshots
      /\ pc'[t] = "graph" /\ \A u \in Threads \ {t} : pc'[u] = pc[u]
  BY DEF OpenSnapshot
<1>3. call'[t].snapshot = s /\ \A u \in Threads \ {t} : call'[u] = call[u]
  BY <1>1
<1>4. warm'[s].file = file /\ \A r \in Snapshots \ {s} : warm'[r] = warm[r]
  BY <1>1 DEF Snapshot
<1>5. file # NEVER
  BY DEF File, NEVER
<1>6. \A u \in Threads : pc[u] \notin Building
  BY <1>2, RuntimeAssumption DEF Registration, BuilderHoldsRegistry
<1>7. BuilderHoldsRegistry'
  BY <1>2, <1>6 DEF BuilderHoldsRegistry, Building
<1>8. CallHoldsSnapshot'
  BY <1>2, <1>3 DEF Registration, CallHoldsSnapshot, Mine, Holding, Building
<1>9. BuiltApart'
  BY <1>1, <1>2, <1>3, <1>4, <1>5, <1>6 DEF BuiltApart, Mine, IsOpen, Building, Unused
<1>10. OneKeyEach'
  BY <1>2 DEF Registration, OneKeyEach
<1>11. NoLeakedConnection'
  BY <1>2, <1>3, <1>4, <1>6 DEF Registration, NoLeakedConnection, Mine, IsOpen, Building
<1>12. RegisteredIsOpen'
  BY <1>1, <1>2, <1>4 DEF Registration, RegisteredIsOpen, IsOpen, Unused
<1> QED
  BY <1>7, <1>8, <1>9, <1>10, <1>11, <1>12 DEF Registration

LEMMA RegisterRegistration ==
    ASSUME TypeOK, Registration, NEW t \in Threads, Register(t)
    PROVE  Registration'
<1> USE DEF Goto, TypeOK
<1> DEFINE s == Mine(t)
           k == call[t].key
<1>1. /\ pc[t] = "register" /\ registry' = NoThread /\ UNCHANGED call
      /\ pc'[t] = "search" /\ \A u \in Threads \ {t} : pc'[u] = pc[u]
  BY DEF Register
<1>2. s \in Snapshots /\ k \in Keys
  BY <1>1 DEF Registration, CallHoldsSnapshot, Holding, Building, Call
<1>3. snapshots'[k] = s /\ \A j \in Keys \ {k} : snapshots'[j] = snapshots[j]
  BY <1>2 DEF Register, Mine
<1>4. \A r \in Snapshots : warm'[r].file = IF r = snapshots[k] THEN NEVER ELSE warm[r].file
  BY RuntimeAssumption DEF Register, Closed, Superseded, Snapshot
<1>5. /\ IsOpen(s) /\ \A j \in Keys : snapshots[j] # s
      /\ \A u \in Threads \ {t} : Mine(u) # s
  BY <1>1 DEF Registration, BuiltApart, Building
<1>6. \A u \in Threads \ {t} : pc[u] \notin Building
  BY <1>1 DEF Registration, BuilderHoldsRegistry, Building
<1> HIDE DEF s, k
<1>7. BuilderHoldsRegistry'
  BY <1>1, <1>6, RuntimeAssumption DEF BuilderHoldsRegistry, Building
<1>8. CallHoldsSnapshot'
  BY <1>1 DEF Registration, CallHoldsSnapshot, Mine, Holding, Building
<1>9. BuiltApart'
  BY <1>1, <1>6 DEF BuiltApart, Building
<1>10. OneKeyEach'
  BY <1>2, <1>3, <1>5 DEF Registration, OneKeyEach
<1>11. NoLeakedConnection'
  <2> SUFFICES ASSUME NEW r \in Snapshots, warm'[r].file # NEVER
               PROVE  \E j \in Keys : snapshots'[j] = r
    BY DEF NoLeakedConnection, IsOpen
  <2>1. r # snapshots[k] /\ warm[r].file # NEVER
    BY <1>4
  <2>2. CASE r = s
    BY <1>2, <1>3, <2>2
  <2>3. CASE r # s
    <3>1. PICK j \in Keys : snapshots[j] = r
      BY <1>1, <1>6, <2>1, <2>3 DEF Registration, NoLeakedConnection, IsOpen, s
    <3> QED
      BY <1>3, <2>1, <3>1
  <2> QED
    BY <2>2, <2>3
<1>12. RegisteredIsOpen'
  BY <1>2, <1>3, <1>4, <1>5 DEF Registration, RegisteredIsOpen, OneKeyEach, IsOpen
<1> QED
  BY <1>7, <1>8, <1>9, <1>10, <1>11, <1>12 DEF Registration

LEMMA CloseRegistration ==
    ASSUME TypeOK, Registration, Close
    PROVE  Registration'
<1> USE DEF TypeOK
<1>1. /\ registry = NoThread /\ UNCHANGED <<registry, pc, call>>
      /\ \A k \in Keys : snapshots'[k] = NoSnapshot
  BY DEF Close, Emptied
<1>2. \A s \in Snapshots : warm'[s].file = IF \E k \in Keys : snapshots[k] = s
                                            THEN NEVER ELSE warm[s].file
  BY RuntimeAssumption DEF Close, Closed, Snapshot
<1>3. \A t \in Threads : pc[t] \notin Building
  BY <1>1, RuntimeAssumption DEF Registration, BuilderHoldsRegistry
<1>4. BuilderHoldsRegistry' /\ CallHoldsSnapshot' /\ BuiltApart'
  BY <1>1, <1>3 DEF Registration, BuilderHoldsRegistry, CallHoldsSnapshot, BuiltApart, Mine
<1>5. OneKeyEach' /\ RegisteredIsOpen'
  BY <1>1 DEF OneKeyEach, RegisteredIsOpen
<1>6. NoLeakedConnection'
  BY <1>2, <1>3 DEF Registration, NoLeakedConnection, IsOpen
<1> QED
  BY <1>4, <1>5, <1>6 DEF Registration

LEMMA NextRegistration == TypeOK /\ Registration /\ [Next]_vars => Registration'
<1> SUFFICES ASSUME TypeOK, Registration, [Next]_vars PROVE Registration'
  OBVIOUS
<1> USE DEF TypeOK, Call, Snapshot, storeVars, runtimeVars, history, Goto, Building, Guarded, Holding
<1>1. ASSUME NEW t \in Threads, Hit(t) \/ Miss(t) PROVE Registration'
  BY <1>1, KeepsRegistration DEF Hit, Miss, Looks
<1>2. ASSUME NEW t \in Threads, NoChanges(t) \/ BeginDelta(t) PROVE Registration'
  BY <1>2, KeepsRegistration DEF NoChanges, BeginDelta, Looks
<1>3. ASSUME NEW t \in Threads, Delta(t) PROVE Registration'
  BY <1>3, DeltaStep, KeepsRegistration DEF OneTransaction, Patching
<1>6. ASSUME NEW t \in Threads, BeginFull(t) PROVE Registration'
  BY <1>6, KeepsRegistration DEF BeginFull
<1>7. ASSUME NEW t \in Threads, PutDb(t) PROVE Registration'
  BY <1>7, KeepsRegistration DEF PutDb
<1>8. ASSUME NEW t \in Threads, ReadGenerationId(t) PROVE Registration'
  BY <1>8, KeepsRegistration DEF ReadGenerationId
<1>9. ASSUME NEW t \in Threads, BuildGraph(t) PROVE Registration'
  BY <1>9, KeepsRegistration DEF BuildGraph
<1>10. ASSUME NEW t \in Threads, GetChunks(t) PROVE Registration'
  BY <1>10, KeepsRegistration DEF GetChunks
<1>11. ASSUME NEW t \in Threads, EnterSearch(t) PROVE Registration'
  BY <1>11, KeepsRegistration DEF EnterSearch, Locked
<1>12. ASSUME NEW t \in Threads, Search(t) PROVE Registration'
  BY <1>12, KeepsRegistration DEF Search, Released
<1>13. ASSUME NEW t \in Threads, EnterRank(t) PROVE Registration'
  BY <1>13, KeepsRegistration DEF EnterRank, Locked
<1>14. ASSUME NEW t \in Threads, Rank(t) PROVE Registration'
  BY <1>14, KeepsRegistration DEF Rank, Released
<1>15. ASSUME NEW t \in Threads, ReadReceipts(t) PROVE Registration'
  BY <1>15, KeepsRegistration DEF ReadReceipts
<1>16. ASSUME NEW t \in Threads, Ask(t) PROVE Registration'
  BY <1>16, KeepsRegistration DEF Ask
<1>17. ASSUME NEW t \in Threads, Leave(t) PROVE Registration'
  BY <1>17, EndsRegistration DEF Leave
<1>18. ASSUME NEW t \in Threads, Return(t) PROVE Registration'
  BY <1>18, EndsRegistration DEF Return
<1>19. ASSUME NEW t \in Threads, UseOfClosed(t) PROVE Registration'
  BY <1>19, EndsRegistration DEF UseOfClosed, Released
<1>20. CASE TreeMoves
  BY <1>20, KeepsRegistration DEF TreeMoves
<1>21. CASE UNCHANGED vars
  BY <1>21, KeepsRegistration DEF vars
<1> QED
  BY <1>1, <1>2, <1>3, <1>6, <1>7, <1>8, <1>9, <1>10, <1>11, <1>12, <1>13, <1>14, <1>15, <1>16, <1>17, <1>18, <1>19, <1>20, <1>21,
     ReuseRegistration, OpenRegistration, RegisterRegistration, CloseRegistration
     DEF Next, Work, EnsureIndex, GetOrBuild, Serve

---------------------------------------------------------------------------
(* What is in the files.                                                   *)

LEMMA InitFiles == Init => FilesExist
<1> SUFFICES ASSUME Init PROVE FilesExist
  OBVIOUS
<1> QED
  BY DEF Init, FilesExist, NoCall, NEVER

LEMMA NextFiles == TypeOK /\ FilesExist /\ [Next]_vars => FilesExist'
<1> SUFFICES ASSUME TypeOK, FilesExist, [Next]_vars PROVE FilesExist'
  OBVIOUS
<1> USE DEF TypeOK, FilesExist, Call, Snapshot, storeVars, runtimeVars, history, File, NEVER
<1>1. ASSUME NEW t \in Threads, Hit(t) \/ Miss(t) PROVE FilesExist'
  <2>1. UNCHANGED <<file, warm>> /\ \A u \in Threads : call'[u].file \in {call[u].file, file}
    <3>1. CASE Hit(t)
      BY <3>1 DEF Hit
    <3>2. CASE Miss(t)
      BY <3>2 DEF Miss
    <3> QED
      BY <1>1, <3>1, <3>2
  <2>2. file <= file
    OBVIOUS
  <2> QED
    BY ONLY <2>1, <2>2, FilesExist DEF FilesExist
<1>2. ASSUME NEW t \in Threads, NoChanges(t) \/ BeginDelta(t) PROVE FilesExist'
  <2>1. UNCHANGED <<file, warm>> /\ \A u \in Threads : call'[u].file \in {call[u].file, file}
    <3>1. CASE NoChanges(t)
      BY <3>1 DEF NoChanges
    <3>2. CASE BeginDelta(t)
      BY <3>2 DEF BeginDelta
    <3> QED
      BY <1>2, <3>1, <3>2
  <2>2. file <= file
    OBVIOUS
  <2> QED
    BY ONLY <2>1, <2>2, FilesExist DEF FilesExist
<1>3. ASSUME NEW t \in Threads, Delta(t) PROVE FilesExist'
  BY <1>3, DeltaStep DEF OneTransaction
<1>6. ASSUME NEW t \in Threads, BeginFull(t) PROVE FilesExist'
  BY <1>6 DEF BeginFull
<1>7. ASSUME NEW t \in Threads, PutDb(t) PROVE FilesExist'
  BY <1>7 DEF PutDb
<1>8. ASSUME NEW t \in Threads, Leave(t) PROVE FilesExist'
  BY <1>8 DEF Leave, GoIdle, NoCall
<1>9. ASSUME NEW t \in Threads, ReadGenerationId(t) PROVE FilesExist'
  BY <1>9 DEF ReadGenerationId
<1>10. ASSUME NEW t \in Threads, Reuse(t) PROVE FilesExist'
  BY <1>10 DEF Reuse
<1>11. ASSUME NEW t \in Threads, OpenSnapshot(t) PROVE FilesExist'
  BY <1>11 DEF OpenSnapshot
<1>12. ASSUME NEW t \in Threads, BuildGraph(t) PROVE FilesExist'
  BY <1>12 DEF BuildGraph
<1>13. ASSUME NEW t \in Threads, GetChunks(t) PROVE FilesExist'
  BY <1>13 DEF GetChunks
<1>14. ASSUME NEW t \in Threads, Register(t) PROVE FilesExist'
  BY <1>14 DEF Register, Closed
<1>15. ASSUME NEW t \in Threads, EnterSearch(t) PROVE FilesExist'
  BY <1>15 DEF EnterSearch, Locked
<1>16. ASSUME NEW t \in Threads, Search(t) PROVE FilesExist'
  BY <1>16 DEF Search, Released
<1>17. ASSUME NEW t \in Threads, EnterRank(t) PROVE FilesExist'
  BY <1>17 DEF EnterRank, Locked
<1>18. ASSUME NEW t \in Threads, Rank(t) PROVE FilesExist'
  BY <1>18 DEF Rank, Released
<1>19. ASSUME NEW t \in Threads, ReadReceipts(t) PROVE FilesExist'
  BY <1>19 DEF ReadReceipts
<1>20. ASSUME NEW t \in Threads, UseOfClosed(t) PROVE FilesExist'
  BY <1>20 DEF UseOfClosed, GoIdle, NoCall, Released
<1>21. ASSUME NEW t \in Threads, Return(t) PROVE FilesExist'
  BY <1>21 DEF Return, GoIdle, NoCall
<1>22. ASSUME NEW t \in Threads, Ask(t) PROVE FilesExist'
  BY <1>22 DEF Ask
<1>23. CASE TreeMoves
  BY <1>23 DEF TreeMoves
<1>24. CASE Close
  BY <1>24 DEF Close, Closed
<1>25. CASE UNCHANGED vars
  BY <1>25 DEF vars
<1> QED
  BY <1>1, <1>2, <1>3, <1>6, <1>7, <1>8, <1>9, <1>10, <1>11, <1>12, <1>13, <1>14, <1>15, <1>16, <1>17, <1>18, <1>19, <1>20, <1>21, <1>22, <1>23, <1>24, <1>25
     DEF Next, Work, EnsureIndex, GetOrBuild, Serve

---------------------------------------------------------------------------
(* Answers.                                                                *)

\* A step of a call that has no part in a refresh.
LEMMA KeepsRefreshes ==
    ASSUME TypeOK, Refreshes, UNCHANGED <<file, db, tree>>, NEW t \in Threads,
           \A u \in Threads \ {t} : pc'[u] = pc[u] /\ call'[u] = call[u],
           pc[t] \notin Patching, pc'[t] \notin Patching \cup {"manifest", "put", "opened"},
           pc'[t] \in Past => pc[t] \in Past
    PROVE  Refreshes'
<1> USE DEF Refreshes
<1>1. SolePatcher' /\ TargetsTree'
  BY DEF SolePatcher, TargetsTree
<1>2. BeingPatched' <=> BeingPatched
  BY DEF BeingPatched
<1>3. SettledFile'
  BY <1>2 DEF SettledFile, Whole
<1>4. DeltaSoFar'
  BY DEF DeltaSoFar, Patching
<1>5. DoneMeansCurrent'
  BY DEF DoneMeansCurrent, Whole, Rewriting, Patching
<1> QED
  BY <1>1, <1>3, <1>4, <1>5

\* A transaction of a delta, given what it does to the file it works on.
LEMMA DeltaKeepsRefreshes ==
    ASSUME TypeOK, Refreshes, NEW t \in Threads, OneTransaction(t),
           NEW f, f = call[t].file,
           /\ pc'[t] \in {"swap", "fts", "commit", "sign", "identify"} => db'[f].states = tree
           /\ pc'[t] \in {"fts", "commit", "sign", "identify"} => db'[f].rows = tree
           /\ pc'[t] \in {"commit", "sign", "identify"} => db'[f].fts = tree
           /\ pc'[t] \in {"sign", "identify"} => db'[f].commit = KeyOf[tree]
           /\ pc'[t] = "identify" => db'[f].signature = tree,
           db[f].generation.signature = tree => db'[f].generation.signature = tree,
           pc[t] \notin Rewriting /\ Whole(f, tree) => Whole(f, tree)',
           pc'[t] = "opened" => Whole(f, tree)',
           pc'[t] \in Rewriting => pc[t] \in Rewriting
    PROVE  Refreshes'
<1> USE DEF Refreshes
<1>1. /\ pc[t] \in Patching /\ pc'[t] \in Patching \cup {"opened"}
      /\ \A u \in Threads \ {t} : pc'[u] = pc[u]
      /\ UNCHANGED <<file, call, tree>>
  BY DEF OneTransaction, TypeOK
<1>2. \A g \in File \ {f} : db'[g] = db[g]
  BY DEF OneTransaction, TypeOK
<1>3. file \in File /\ \A u \in Threads : call[u].file \in File
  BY DEF TypeOK, Call
<1>4. SolePatcher' /\ TargetsTree'
  BY <1>1 DEF SolePatcher, TargetsTree, Patching
<1>5. SettledFile'
  <2>1. CASE file = f
    BY <1>1, <2>1 DEF SettledFile, BeingPatched, Whole
  <2>2. CASE file # f
    <3>1. BeingPatched' <=> BeingPatched
      BY <1>1, <2>2 DEF BeingPatched
    <3> QED
      BY <1>1, <1>2, <1>3, <2>2, <3>1 DEF SettledFile, Whole
  <2> QED
    BY <2>1, <2>2
<1>6. DeltaSoFar'
  <2> SUFFICES ASSUME NEW u \in Threads
               PROVE  LET d == db'[call[u].file]
                      IN  /\ pc'[u] \in {"swap", "fts", "commit", "sign", "identify"} => d.states = tree
                          /\ pc'[u] \in {"fts", "commit", "sign", "identify"} => d.rows = tree
                          /\ pc'[u] \in {"commit", "sign", "identify"} => d.fts = tree
                          /\ pc'[u] \in {"sign", "identify"} => d.commit = KeyOf[tree]
                          /\ pc'[u] = "identify" => d.signature = tree
                          /\ pc'[u] = "opened" => d.generation.signature = tree
    BY <1>1 DEF DeltaSoFar
  <2>1. CASE u = t
    BY <1>1, <2>1 DEF Whole
  <2>2. CASE u # t /\ call[u].file # f
    BY <1>1, <1>2, <1>3, <2>2 DEF DeltaSoFar
  <2>3. CASE u # t /\ call[u].file = f
    BY <1>1, <2>3 DEF DeltaSoFar, SolePatcher, Patching
  <2> QED
    BY <2>1, <2>2, <2>3
<1>7. DoneMeansCurrent'
  <2> SUFFICES ASSUME NEW u \in Threads,
                      pc'[u] \in Past \/ (pc'[u] \in Patching /\ call[u].file # file)
               PROVE  /\ Whole(file, tree)'
                      /\ \A r \in Threads : pc'[r] \in Rewriting => call[r].file # file
    BY <1>1 DEF DoneMeansCurrent
  <2>1. CASE pc[u] \in Past \/ (pc[u] \in Patching /\ call[u].file # file)
    <3>1. Whole(file, tree) /\ \A r \in Threads : pc[r] \in Rewriting => call[r].file # file
      BY <2>1 DEF DoneMeansCurrent
    <3>2. \A r \in Threads : pc'[r] \in Rewriting => pc[r] \in Rewriting
      BY <1>1
    <3>3. Whole(file, tree)'
      BY <1>1, <1>2, <1>3, <3>1 DEF Whole
    <3> QED
      BY <3>1, <3>2, <3>3
  <2>2. CASE ~ (pc[u] \in Past \/ (pc[u] \in Patching /\ call[u].file # file))
    \* It is t, which has come to the end of its delta of index.db.
    <3>1. u = t /\ pc'[t] = "opened" /\ f = file
      BY <1>1, <2>2 DEF Past, Holding, Building, Guarded, Patching
    <3>2. \A r \in Threads : pc'[r] \in Rewriting => call[r].file # file
      BY <1>1, <3>1 DEF SolePatcher, Rewriting, Patching
    <3> QED
      BY <1>1, <3>1, <3>2
  <2> QED
    BY <2>1, <2>2
<1> QED
  BY <1>4, <1>5, <1>6, <1>7

LEMMA DeltaRefreshes ==
    ASSUME TypeOK, Refreshes, NEW t \in Threads, Delta(t)
    PROVE  Refreshes'
<1>1. OneTransaction(t)
  BY DeltaStep
<1> PICK f \in File : f = call[t].file
  BY DEF TypeOK, Call
<1>2. db[f] \in Database /\ call[t].target = tree /\ UNCHANGED tree
  BY <1>1 DEF TypeOK, Call, Refreshes, TargetsTree, OneTransaction
<1>3. DeltaSoFar
  BY DEF Refreshes
<1> USE DEF Patch, Patched, Goto, TypeOK, Database, Rewriting, Whole
<1>4. CASE DeleteRows(t)
  <2>1. /\ pc[t] = "delete" /\ pc'[t] = "states"
        /\ db'[f].generation = db[f].generation
    BY <1>2, <1>4 DEF DeleteRows
  <2> QED
    BY <1>1, <2>1, DeltaKeepsRefreshes
<1>5. CASE WriteStates(t)
  <2>1. /\ pc[t] = "states" /\ pc'[t] = "swap" /\ db'[f].states = tree
        /\ db'[f].generation = db[f].generation
    BY <1>2, <1>5 DEF WriteStates
  <2> QED
    BY <1>1, <2>1, DeltaKeepsRefreshes
<1>6. CASE SwapRows(t)
  <2>1. /\ pc[t] = "swap" /\ pc'[t] = "fts" /\ db'[f].rows = tree /\ db'[f].states = db[f].states
        /\ db'[f].generation = db[f].generation
    BY <1>2, <1>6 DEF SwapRows
  <2> QED
    BY <1>1, <1>3, <2>1, DeltaKeepsRefreshes DEF DeltaSoFar
<1>7. CASE InsertFts(t)
  <2>1. /\ pc[t] = "fts" /\ pc'[t] = "commit" /\ db'[f].rows = db[f].rows
        /\ db'[f].states = db[f].states /\ db'[f].generation = db[f].generation
        /\ db[f].rows = tree => db'[f].fts = tree
    BY <1>2, <1>7 DEF InsertFts
  <2>2. db[f].rows = tree /\ db[f].states = tree
    BY <1>3, <2>1 DEF DeltaSoFar
  <2> QED
    BY <1>1, <2>1, <2>2, DeltaKeepsRefreshes
<1>8. CASE SetCommit(t)
  <2>1. /\ pc[t] = "commit" /\ pc'[t] = "sign" /\ db'[f].commit = KeyOf[tree]
        /\ db'[f].states = db[f].states /\ db'[f].rows = db[f].rows /\ db'[f].fts = db[f].fts
        /\ db'[f].generation = db[f].generation
    BY <1>2, <1>8 DEF SetCommit
  <2>2. db[f].rows = tree /\ db[f].states = tree /\ db[f].fts = tree
    BY <1>3, <2>1 DEF DeltaSoFar
  <2> QED
    BY <1>1, <2>1, <2>2, DeltaKeepsRefreshes
<1>9. CASE Sign(t)
  <2>1. /\ pc[t] = "sign" /\ pc'[t] = "identify" /\ db'[f].signature = tree
        /\ db'[f].states = db[f].states /\ db'[f].rows = db[f].rows /\ db'[f].fts = db[f].fts
        /\ db'[f].commit = db[f].commit /\ db'[f].generation = db[f].generation
    BY <1>2, <1>9 DEF Sign
  <2>2. db[f].rows = tree /\ db[f].states = tree /\ db[f].fts = tree /\ db[f].commit = KeyOf[tree]
    BY <1>3, <2>1 DEF DeltaSoFar
  <2>3. Whole(f, tree) => Whole(f, tree)'
    BY <1>2, <2>1
  <2> QED
    BY <1>1, <2>1, <2>2, <2>3, DeltaKeepsRefreshes
<1>10. CASE Identify(t)
  <2>1. /\ pc[t] = "identify" /\ pc'[t] = "opened"
        /\ db'[f].generation.signature = db[f].signature /\ db'[f].signature = db[f].signature
        /\ db'[f].states = db[f].states /\ db'[f].rows = db[f].rows /\ db'[f].fts = db[f].fts
        /\ db'[f].commit = db[f].commit
    BY <1>2, <1>10 DEF Identify, IdOf
  <2> QED
    BY <1>1, <1>2, <1>3, <2>1, DeltaKeepsRefreshes DEF DeltaSoFar
<1> QED
  BY <1>4, <1>5, <1>6, <1>7, <1>8, <1>9, <1>10 DEF Delta

LEMMA NextRefreshes ==
    ASSUME TypeOK, FilesExist, Undisturbed, [Next]_vars, ~ disturbed', ~ overlapped'
    PROVE  Refreshes'
<1> USE DEF Undisturbed, storeVars, runtimeVars, history, Goto
<1>a. /\ \A t \in Threads : pc[t] \in Patching => pc[t] \notin Past
      /\ \A t \in Threads : pc[t] = "ensure" => pc[t] \notin Patching \cup Past
      /\ \A t \in Threads : pc[t] = "manifest" => pc[t] \notin Patching \cup Past
  BY DEF Patching, Past, Holding, Building, Guarded
<1>1. ASSUME NEW t \in Threads, Hit(t) PROVE Refreshes'
  <2>1. /\ pc[t] = "ensure" /\ pc'[t] = "opened" /\ UNCHANGED <<file, db, tree>>
        /\ call'[t].file = file /\ call'[t].target = call[t].target
        /\ \A u \in Threads \ {t} : pc'[u] = pc[u] /\ call'[u] = call[u]
    BY <1>1 DEF Hit, Looks, TypeOK, Call
  <2>2. ~ BeingPatched /\ db[file].signature = tree
    BY <1>1, <1>a DEF Hit, Looks, Current
  <2>3. Whole(file, tree)
    BY <2>2 DEF Refreshes, SettledFile
  <2>4. SolePatcher' /\ TargetsTree'
    BY <2>1 DEF Refreshes, SolePatcher, TargetsTree, Patching
  <2>5. SettledFile'
    BY <2>1, <2>2, <2>3 DEF SettledFile, Whole
  <2>6. DeltaSoFar'
    BY <2>1, <2>3 DEF Refreshes, DeltaSoFar, Whole
  <2>7. DoneMeansCurrent'
    BY <2>1, <2>2, <2>3 DEF DoneMeansCurrent, Whole, BeingPatched, Rewriting, Patching
  <2> QED
    BY <2>4, <2>5, <2>6, <2>7 DEF Refreshes
<1>2. ASSUME NEW t \in Threads, NoChanges(t) \/ BeginDelta(t) PROVE Refreshes'
  <2>1. /\ pc[t] = "manifest" /\ pc'[t] \in {"sign", "delete"} /\ UNCHANGED <<file, db, tree>>
        /\ call'[t].file = file /\ call'[t].target = call[t].target
        /\ \A u \in Threads \ {t} : pc'[u] = pc[u] /\ call'[u] = call[u]
        /\ pc'[t] = "sign" <=> NothingToDo(call[t].target)
    BY <1>2 DEF NoChanges, BeginDelta, Looks, TypeOK, Call
  <2>2. ~ BeingPatched /\ call[t].target = tree
    BY <1>2, <2>1 DEF NoChanges, BeginDelta, Looks, Refreshes, TargetsTree
  <2>3. Whole(file, db[file].signature)
    BY <2>2 DEF Refreshes, SettledFile
  <2>4. pc'[t] = "sign" => Whole(file, tree)
    BY <2>1, <2>2, <2>3 DEF NothingToDo, Whole
  <2>5. SolePatcher' /\ TargetsTree'
    <3>1. \A u \in Threads : pc[u] \in Patching => call[u].file # file
      BY <2>2 DEF BeingPatched
    <3>2. SolePatcher'
      BY <1>a, <2>1, <3>1 DEF Refreshes, SolePatcher
    <3>3. TargetsTree'
      BY <2>1, <2>2 DEF Refreshes, TargetsTree
    <3> QED
      BY <3>2, <3>3
  <2>6. SettledFile'
    BY <2>1 DEF SettledFile, BeingPatched, Patching
  <2>7. DeltaSoFar'
    BY <2>1, <2>4 DEF Refreshes, DeltaSoFar, Whole
  <2>8. DoneMeansCurrent'
    <3> SUFFICES ASSUME NEW u \in Threads,
                        pc'[u] \in Past \/ (pc'[u] \in Patching /\ call'[u].file # file)
                 PROVE  Whole(file, tree) /\ \A r \in Threads : pc'[r] \in Rewriting => call'[r].file # file
      BY <2>1 DEF DoneMeansCurrent, Whole
    <3>1. u # t
      BY <2>1 DEF Past, Holding, Building, Guarded
    <3>2. Whole(file, tree) /\ \A r \in Threads : pc[r] \in Rewriting => call[r].file # file
      BY <2>1, <3>1 DEF Refreshes, DoneMeansCurrent
    <3>3. pc'[t] = "sign"
      BY <2>1, <2>2, <3>2 DEF NothingToDo, Whole
    <3> QED
      BY <2>1, <3>2, <3>3 DEF Rewriting
  <2> QED
    BY <2>5, <2>6, <2>7, <2>8 DEF Refreshes
<1>3. ASSUME NEW t \in Threads, Miss(t) \/ BeginFull(t) PROVE Refreshes'
  <2>1. /\ pc[t] \in {"ensure", "manifest"} /\ pc'[t] \in {"manifest", "put"} /\ UNCHANGED <<file, db, tree>>
        /\ call'[t].file = call[t].file
        /\ \A u \in Threads \ {t} : pc'[u] = pc[u] /\ call'[u] = call[u]
    BY <1>3 DEF Miss, BeginFull, TypeOK, Call
  <2>2. call'[t].target = tree
    BY <1>3 DEF Miss, BeginFull, TypeOK, Call, Refreshes, TargetsTree
  <2>3. SolePatcher' /\ TargetsTree'
    BY <2>1, <2>2 DEF Refreshes, SolePatcher, TargetsTree, Patching
  <2>4. BeingPatched' <=> BeingPatched
    BY <2>1 DEF BeingPatched, Patching
  <2>5. SettledFile' /\ DeltaSoFar'
    BY <2>1, <2>4 DEF Refreshes, SettledFile, DeltaSoFar, Whole
  <2>6. DoneMeansCurrent'
    BY <2>1 DEF Refreshes, DoneMeansCurrent, Whole, Patching, Rewriting, Past, Holding, Building, Guarded
  <2> QED
    BY <2>3, <2>5, <2>6 DEF Refreshes
<1>4. ASSUME NEW t \in Threads, PutDb(t) PROVE Refreshes'
  <2>1. file' = file + 1 /\ file \in File /\ file' \in File /\ UNCHANGED tree
    BY <1>4, RuntimeAssumption DEF PutDb, File, TypeOK
  <2>2. pc[t] = "put" /\ call[t].target = tree
    BY <1>4 DEF PutDb, Refreshes, TargetsTree
  <2>3. db'[file'] = IndexOf(tree) /\ \A g \in File : g <= file => db'[g] = db[g]
    BY <1>4, <2>1, <2>2 DEF PutDb, TypeOK, File
  <2>4. Whole(file, tree)'
    BY <2>1, <2>3 DEF Whole, IndexOf, IdOf
  <2>5. \A u \in Threads : call[u].file \in File /\ call[u].file <= file
    BY DEF FilesExist, TypeOK, Call
  <2>6. /\ pc'[t] = "opened" /\ call'[t].file = file'
        /\ \A u \in Threads \ {t} : pc'[u] = pc[u] /\ call'[u] = call[u]
    BY <1>4 DEF PutDb, TypeOK, Call
  <2>7. SolePatcher' /\ TargetsTree'
    BY <2>1, <2>6 DEF Refreshes, SolePatcher, TargetsTree, Patching
  <2>8. SettledFile'
    BY <2>1, <2>4 DEF SettledFile, Whole
  <2>9. DeltaSoFar'
    <3>1. \A u \in Threads \ {t} : db'[call'[u].file] = db[call[u].file]
      BY <2>3, <2>5, <2>6
    <3>2. db'[call'[t].file].generation.signature = tree
      BY <2>1, <2>4, <2>6 DEF Whole
    <3> QED
      BY <2>1, <2>6, <3>1, <3>2 DEF Refreshes, DeltaSoFar
  <2>10. \A u \in Threads : pc'[u] \in Rewriting => call'[u].file # file'
    BY <2>1, <2>5, <2>6 DEF Rewriting, File
  <2>11. DoneMeansCurrent'
    BY <2>1, <2>4, <2>10 DEF DoneMeansCurrent, Whole
  <2> QED
    BY <2>7, <2>8, <2>9, <2>11 DEF Refreshes
<1>5. ASSUME NEW t \in Threads, Leave(t) \/ Return(t) \/ UseOfClosed(t) \/ Ask(t) PROVE Refreshes'
  <2>1. /\ UNCHANGED <<file, db, tree>> /\ pc'[t] \in {"idle", "ensure"}
        /\ pc[t] \notin Patching
        /\ \A u \in Threads \ {t} : pc'[u] = pc[u] /\ call'[u] = call[u]
    BY <1>5 DEF Leave, Return, UseOfClosed, Ask, GoIdle, TypeOK, Patching
  <2> QED
    BY <2>1, KeepsRefreshes DEF Patching, Past, Holding, Building, Guarded
<1>6. ASSUME NEW t \in Threads, GetOrBuild(t) PROVE Refreshes'
  <2>1. /\ UNCHANGED <<file, db, tree>>
        /\ pc[t] \in {"opened", "lookup", "graph", "chunks", "register"}
        /\ pc'[t] \in {"lookup", "search", "graph", "chunks", "register"}
        /\ \A u \in Threads \ {t} : pc'[u] = pc[u] /\ call'[u] = call[u]
    BY <1>6 DEF GetOrBuild, ReadGenerationId, Reuse, OpenSnapshot, BuildGraph, GetChunks, Register, TypeOK
  <2> QED
    BY <2>1, KeepsRefreshes DEF Patching, Past, Holding, Building, Guarded
<1>7. ASSUME NEW t \in Threads,
             EnterSearch(t) \/ EnterRank(t) \/ Search(t) \/ Rank(t) \/ ReadReceipts(t)
      PROVE  Refreshes'
  <2>1. /\ UNCHANGED <<file, db, tree>>
        /\ pc[t] \in Served /\ pc'[t] \in Served
        /\ \A u \in Threads \ {t} : pc'[u] = pc[u] /\ call'[u] = call[u]
    BY <1>7 DEF EnterSearch, EnterRank, Locked, Search, Rank, ReadReceipts, TypeOK, Served
  <2> QED
    BY <2>1, KeepsRefreshes DEF Patching, Past, Holding, Building, Guarded, Served
<1>8. CASE TreeMoves
  <2>1. \A t \in Threads : pc[t] = "idle"
    BY <1>8 DEF TreeMoves, Running
  <2>2. UNCHANGED <<file, db, pc, call>>
    BY <1>8 DEF TreeMoves
  <2>3. SettledFile'
    BY <2>2 DEF Refreshes, SettledFile, BeingPatched, Whole
  <2>4. SolePatcher' /\ TargetsTree' /\ DeltaSoFar'
    BY <2>1, <2>2 DEF SolePatcher, TargetsTree, DeltaSoFar, Patching
  <2>5. DoneMeansCurrent'
    BY <2>1, <2>2 DEF DoneMeansCurrent, Patching, Past, Holding, Building, Guarded
  <2> QED
    BY <2>3, <2>4, <2>5 DEF Refreshes
<1>9. CASE Close \/ UNCHANGED vars
  <2>1. UNCHANGED <<file, db, pc, call, tree>>
    BY <1>9 DEF Close, vars
  <2>2. SolePatcher' /\ TargetsTree' /\ DeltaSoFar'
    BY <2>1 DEF Refreshes, SolePatcher, TargetsTree, DeltaSoFar
  <2>3. SettledFile' /\ DoneMeansCurrent'
    BY <2>1 DEF Refreshes, SettledFile, BeingPatched, DoneMeansCurrent, Whole
  <2> QED
    BY <2>2, <2>3 DEF Refreshes
<1> QED
  BY <1>1, <1>2, <1>3, <1>4, <1>5, <1>6, <1>7, <1>8, <1>9, DeltaRefreshes
     DEF Next, Work, EnsureIndex, Serve

\* A step that leaves the snapshots and the rows others read alone.
LEMMA KeepsReads ==
    ASSUME TypeOK, Registration, ReadsTree, RegisteredMatch, UNCHANGED <<file, warm, tree, snapshots>>,
           NEW t \in Threads, pc[t] \notin Holding, pc'[t] \notin Holding \cup {"lookup"},
           \A u \in Threads \ {t} : pc'[u] = pc[u] /\ call'[u] = call[u],
           \A u \in Threads : pc[u] \in {"graph", "chunks"} =>
               /\ db'[warm[Mine(u)].file].rows = db[warm[Mine(u)].file].rows
               /\ pc'[t] \in Rewriting => call'[t].file # warm[Mine(u)].file
    PROVE  (ReadsTree /\ RegisteredMatch)'
<1>1. RegisteredMatch'
  BY DEF RegisteredMatch
<1>2. ReadsTree'
  BY DEF ReadsTree, ReadsOf, Mine, Holding, Building, Guarded, Served, Searched
<1> QED
  BY <1>1, <1>2

\* A step leaves what the calls other than t hold as it is, but may close it.
OthersHold(t) ==
    \A u \in Threads \ {t} : pc[u] \in Holding =>
        /\ warm'[Mine(u)].generation = warm[Mine(u)].generation
        /\ warm'[Mine(u)].graph = warm[Mine(u)].graph
        /\ warm'[Mine(u)].chunks = warm[Mine(u)].chunks
        /\ \/ warm'[Mine(u)].file = warm[Mine(u)].file
           \/ warm'[Mine(u)].file = NEVER /\ pc[u] \notin {"graph", "chunks"}

LEMMA OthersRead ==
    ASSUME TypeOK, ReadsTree, UNCHANGED <<file, db, tree>>,
           NEW t \in Threads, pc'[t] \notin Rewriting, ReadsOf(t)',
           \A u \in Threads \ {t} : pc'[u] = pc[u] /\ call'[u] = call[u],
           OthersHold(t)
    PROVE  ReadsTree'
<1>1. ASSUME NEW u \in Threads, u # t PROVE ReadsOf(u)'
  <2>1. pc'[u] = pc[u] /\ call'[u] = call[u] /\ Mine(u)' = Mine(u) /\ ReadsOf(u)
    BY <1>1 DEF Mine, ReadsTree
  <2>2. \A r \in Threads : pc'[r] \in Rewriting => pc[r] \in Rewriting /\ call'[r].file = call[r].file
    OBVIOUS
  <2>3. file # NEVER
    BY DEF TypeOK, File, NEVER
  <2> QED
    BY <1>1, <2>1, <2>2, <2>3 DEF OthersHold, ReadsOf, Holding, Building, Guarded, Served, Searched
<1> QED
  BY <1>1 DEF ReadsTree

\* A step that changes no registered snapshot but its lock, or closes it.
LEMMA KeepsMatch ==
    ASSUME RegisteredMatch, UNCHANGED snapshots,
           \A k \in Keys : snapshots[k] # NoSnapshot =>
               /\ warm'[snapshots[k]].generation = warm[snapshots[k]].generation
               /\ warm'[snapshots[k]].graph = warm[snapshots[k]].graph
               /\ warm'[snapshots[k]].chunks = warm[snapshots[k]].chunks
    PROVE  RegisteredMatch'
BY DEF RegisteredMatch

LEMMA NextReads ==
    ASSUME TypeOK, Registration, FilesExist, Undisturbed, [Next]_vars, ~ disturbed'
    PROVE  (ReadsTree /\ RegisteredMatch)'
<1> USE DEF TypeOK, FilesExist, Call, Snapshot, Id, storeVars, runtimeVars,
            history, File, NEVER, Goto, Past, Holding, Building, Guarded, ReadsTree, ReadsOf, RegisteredMatch,
            Registration, CallHoldsSnapshot, BuiltApart, BuilderHoldsRegistry, Mine, IsOpen, Served, Searched
<1>a. ReadsTree /\ RegisteredMatch /\ TargetsTree /\ DeltaSoFar /\ DoneMeansCurrent
  BY DEF Undisturbed, Refreshes
<1>c. TypeOK
  OBVIOUS
<1>b. \A t \in Threads : pc[t] \in Past =>
          /\ Whole(file, tree) /\ \A u \in Threads : pc[u] \in Rewriting => call[u].file # file
  BY <1>a DEF DoneMeansCurrent
<1>1. ASSUME NEW t \in Threads, Hit(t) \/ Miss(t) \/ NoChanges(t) \/ BeginFull(t)
      PROVE  (ReadsTree /\ RegisteredMatch)'
  <2>1. /\ UNCHANGED <<file, db, warm, tree, snapshots>>
        /\ pc[t] \in {"ensure", "manifest"} /\ pc'[t] \in {"opened", "manifest", "sign", "put"}
        /\ \A u \in Threads \ {t} : pc'[u] = pc[u] /\ call'[u] = call[u]
    BY <1>1 DEF Hit, Miss, NoChanges, BeginFull, Looks
  <2>2. pc'[t] \notin Rewriting
    BY <2>1 DEF Rewriting
  <2> QED
    BY <1>a, <2>1, <2>2, KeepsReads
<1>2. ASSUME NEW t \in Threads, BeginDelta(t) PROVE (ReadsTree /\ RegisteredMatch)'
  \* Nobody reads: the index of the tree would be there already.
  <2>1. /\ UNCHANGED <<file, db, warm, tree, snapshots>>
        /\ pc[t] = "manifest" /\ pc'[t] = "delete"
        /\ \A u \in Threads \ {t} : pc'[u] = pc[u] /\ call'[u] = call[u]
    BY <1>2 DEF BeginDelta, Looks
  <2>2. ~ NothingToDo(tree)
    BY <1>2, <1>a DEF BeginDelta, TargetsTree
  <2>3. \A u \in Threads : pc[u] \notin Past
    BY <1>b, <2>2 DEF NothingToDo, Whole
  <2> QED
    BY <1>a, <2>1, <2>3, KeepsReads
<1>3. ASSUME NEW t \in Threads, Delta(t) PROVE (ReadsTree /\ RegisteredMatch)'
  <2>1. OneTransaction(t)
    BY <1>3, DeltaStep
  <2>2. /\ UNCHANGED <<file, warm, tree, snapshots, call>>
        /\ pc[t] \in Patching /\ pc'[t] \in Patching \cup {"opened"}
        /\ \A u \in Threads \ {t} : pc'[u] = pc[u] /\ call'[u] = call[u]
        /\ \A f \in File : f # call[t].file => db'[f] = db[f]
    BY <2>1 DEF OneTransaction
  <2>3. pc[t] \notin Rewriting => db'[call[t].file].rows = db[call[t].file].rows
    <3> USE DEF Patch, Patched, Rewriting, Database
    <3>1. CASE DeleteRows(t) \/ WriteStates(t) \/ SwapRows(t) \/ InsertFts(t) \/ SetCommit(t)
      BY <3>1 DEF DeleteRows, WriteStates, SwapRows, InsertFts, SetCommit
    <3>2. CASE Sign(t)
      BY <3>2 DEF Sign
    <3>3. CASE Identify(t)
      BY <3>3 DEF Identify
    <3> QED
      BY <1>3, <3>1, <3>2, <3>3 DEF Delta
  <2>4. pc'[t] \in Rewriting => pc[t] \in Rewriting
    BY <1>3 DEF Delta, DeleteRows, WriteStates, SwapRows, InsertFts, SetCommit, Sign, Identify, Patch, Rewriting
  <2>5. ASSUME NEW u \in Threads, pc[u] \in {"graph", "chunks"}
        PROVE  /\ db'[warm[Mine(u)].file].rows = db[warm[Mine(u)].file].rows
               /\ pc'[t] \in Rewriting => call'[t].file # warm[Mine(u)].file
    <3>1. warm[Mine(u)].file \in File
      BY <2>5
    <3>2. pc[t] \in Rewriting => call[t].file # warm[Mine(u)].file
      BY <1>a, <2>5
    <3> QED
      BY <2>2, <2>3, <2>4, <3>1, <3>2
  <2>6. pc[t] \notin Holding /\ pc'[t] \notin Holding \cup {"lookup"}
    BY <2>2 DEF Patching
  <2> QED
    BY <1>a, <2>2, <2>5, <2>6, KeepsReads
<1>4. ASSUME NEW t \in Threads, PutDb(t) PROVE (ReadsTree /\ RegisteredMatch)'
  <2>1. /\ file' = file + 1 /\ file \in File /\ file' \in File /\ UNCHANGED <<warm, tree, snapshots>>
        /\ pc[t] = "put" /\ pc'[t] = "opened"
        /\ \A u \in Threads \ {t} : pc'[u] = pc[u] /\ call'[u] = call[u]
    <3>1. file' = file + 1 /\ file \in File /\ file' \in File
      BY <1>4, RuntimeAssumption DEF PutDb
    <3>2. UNCHANGED <<warm, tree, snapshots>> /\ pc[t] = "put" /\ pc' = [pc EXCEPT ![t] = "opened"]
      BY <1>4 DEF PutDb
    <3>3. \A u \in Threads \ {t} : call'[u] = call[u]
      BY <1>4 DEF PutDb
    <3> QED
      BY <3>1, <3>2, <3>3
  <2>2. \A f \in File : f # file' => db'[f] = db[f]
    BY <1>4 DEF PutDb
  <2>3. \A s \in Snapshots : warm[s].file # file'
    BY <2>1
  <2>4. RegisteredMatch'
    BY <1>a, <2>1
  <2>5. ASSUME NEW u \in Threads, pc'[u] \in Holding \cup {"lookup"}
        PROVE  u # t /\ pc'[u] = pc[u] /\ call'[u] = call[u]
    BY <2>1, <2>5
  <2>6. ASSUME NEW u \in Threads, pc'[u] \in {"graph", "chunks"}
        PROVE  /\ db'[warm[Mine(u)].file].rows = tree
               /\ \A r \in Threads : pc'[r] \in Rewriting => call'[r].file # warm[Mine(u)].file
    <3>1. warm[Mine(u)].file \in File /\ Mine(u) \in Snapshots
      BY <2>5, <2>6
    <3> QED
      BY <1>a, <2>1, <2>2, <2>3, <2>5, <2>6, <3>1 DEF Rewriting
  <2>7. ASSUME NEW u \in Threads, pc'[u] \in Searched PROVE warm[Mine(u)].file # file'
    BY <2>3, <2>5, <2>7
  <2>8. ReadsTree'
    BY <1>a, <2>1, <2>5, <2>6, <2>7
  <2> QED
    BY <2>4, <2>8
<1>8. ASSUME NEW t \in Threads, Leave(t) PROVE (ReadsTree /\ RegisteredMatch)'
  BY <1>8, <1>a DEF Leave, GoIdle, NoCall, Rewriting
<1>9. ASSUME NEW t \in Threads, ReadGenerationId(t) PROVE (ReadsTree /\ RegisteredMatch)'
  <2>1. db[call[t].file].generation.signature = tree
    BY <1>9, <1>a DEF ReadGenerationId, DeltaSoFar
  <2> QED
    BY <1>9, <1>a, <2>1 DEF ReadGenerationId, Rewriting
<1>10. ASSUME NEW t \in Threads, Reuse(t) PROVE (ReadsTree /\ RegisteredMatch)'
  <2>1. /\ pc[t] = "lookup" /\ pc'[t] = "search" /\ UNCHANGED <<db, file, tree, snapshots, warm>>
        /\ \A u \in Threads \ {t} : pc'[u] = pc[u] /\ call'[u] = call[u]
    BY <1>10 DEF Reuse
  <2>2. /\ snapshots[call[t].key] # NoSnapshot /\ Mine(t)' = snapshots[call[t].key]
        /\ warm[snapshots[call[t].key]].generation = call[t].generation
    BY <1>10 DEF Reuse, Valid
  <2>3. /\ warm[Mine(t)'].generation.signature = tree
        /\ warm[Mine(t)'].graph = tree /\ warm[Mine(t)'].chunks = tree
    <3>1. call[t].key \in Keys
      OBVIOUS
    <3> QED
      BY <1>a, <2>1, <2>2, <3>1
  <2>4. ReadsOf(t)'
    BY <2>1, <2>3
  <2>5. ReadsTree'
    <3>1. OthersHold(t)
      BY <2>1 DEF OthersHold
    <3>2. pc'[t] \notin Rewriting /\ UNCHANGED <<file, db, tree>>
      BY <2>1 DEF Rewriting
    <3>3. t \in Threads /\ \A u \in Threads \ {t} : pc'[u] = pc[u] /\ call'[u] = call[u]
      BY <2>1
    <3> QED
      BY ONLY <1>a, <1>c, <3>1, <3>2, <3>3, <2>4, OthersRead
  <2> QED
    BY <1>a, <2>1, <2>5, KeepsMatch
<1>11. ASSUME NEW t \in Threads, OpenSnapshot(t) PROVE (ReadsTree /\ RegisteredMatch)'
  <2>1. PICK s \in Snapshots :
            /\ Unused(s)
            /\ warm' = [warm EXCEPT ![s].generation = call[t].generation, ![s].file = file]
            /\ call' = [call EXCEPT ![t].snapshot = s]
    BY <1>11 DEF OpenSnapshot
  <2>2. /\ pc[t] = "lookup" /\ pc'[t] = "graph" /\ UNCHANGED <<db, file, tree, snapshots>>
        /\ \A u \in Threads \ {t} : pc'[u] = pc[u] /\ call'[u] = call[u]
    BY <1>11, <2>1 DEF OpenSnapshot
  <2>3. /\ warm'[s].generation = call[t].generation /\ warm'[s].file = file
        /\ call'[t].snapshot = s /\ call'[t].file = call[t].file
        /\ \A r \in Snapshots \ {s} : warm'[r] = warm[r]
    BY <2>1
  <2>4. /\ call[t].generation.signature = tree /\ db[file].rows = tree
        /\ \A u \in Threads : pc[u] \in Rewriting => call[u].file # file
    BY <1>a, <1>b, <2>2 DEF Whole
  <2>5. \A u \in Threads \ {t} : pc[u] \in Holding => Mine(u) \in Snapshots \ {s}
    BY <2>1 DEF Unused
  <2>6. ReadsTree'
    <3> SUFFICES ASSUME NEW u \in Threads
                 PROVE  /\ pc'[u] = "lookup" => call'[u].generation.signature = tree
                        /\ pc'[u] \in Holding => warm'[Mine(u)'].generation.signature = tree
                        /\ pc'[u] \in {"graph", "chunks"} =>
                              /\ db[warm'[Mine(u)'].file].rows = tree
                              /\ \A r \in Threads : pc'[r] \in Rewriting =>
                                    call'[r].file # warm'[Mine(u)'].file
                        /\ pc'[u] \in {"chunks", "register"} \cup Served => warm'[Mine(u)'].graph = tree
                        /\ pc'[u] \in {"register"} \cup Served => warm'[Mine(u)'].chunks = tree
                        /\ pc'[u] \in Searched /\ warm'[Mine(u)'].file = file => call'[u].hits = tree
      BY <2>2
    <3>1. \A r \in Threads : pc'[r] \in Rewriting => pc[r] \in Rewriting /\ call'[r].file = call[r].file
      BY <2>2, <2>3 DEF Rewriting
    <3>2. CASE u = t
      BY <2>2, <2>3, <2>4, <3>1, <3>2
    <3>3. CASE u # t
      <4>1. pc'[u] = pc[u] /\ call'[u] = call[u] /\ (pc[u] \in Holding => warm'[Mine(u)] = warm[Mine(u)])
        BY <2>2, <2>3, <2>5, <3>3
      <4> QED
        BY <1>a, <3>1, <4>1
    <3> QED
      BY <3>2, <3>3
  <2>7. RegisteredMatch'
    BY <1>a, <2>1, <2>2, <2>3 DEF Unused
  <2> QED
    BY <2>6, <2>7
<1>12. ASSUME NEW t \in Threads, BuildGraph(t) PROVE (ReadsTree /\ RegisteredMatch)'
  <2>1. /\ pc[t] = "graph" /\ pc'[t] = "chunks" /\ UNCHANGED <<db, file, tree, snapshots, call>>
        /\ \A u \in Threads \ {t} : pc'[u] = pc[u] /\ call'[u] = call[u]
        /\ Mine(t) \in Snapshots
    BY <1>12 DEF BuildGraph
  <2>2. /\ warm'[Mine(t)] = [warm[Mine(t)] EXCEPT !.graph = db[warm[Mine(t)].file].rows]
        /\ \A s \in Snapshots \ {Mine(t)} : warm'[s] = warm[s]
    BY <1>12, <2>1 DEF BuildGraph, RowsOf
  <2>3. /\ db[warm[Mine(t)].file].rows = tree /\ warm[Mine(t)].generation.signature = tree
        /\ \A u \in Threads : pc[u] \in Rewriting => call[u].file # warm[Mine(t)].file
    BY <1>a, <2>1
  <2>4. ReadsOf(t)'
    BY <2>1, <2>2, <2>3 DEF Rewriting
  <2>5. \A u \in Threads \ {t} : pc[u] \in Holding => Mine(u) \in Snapshots \ {Mine(t)}
    BY <2>1
  <2>6. ReadsTree'
    <3>1. OthersHold(t)
      BY <2>2, <2>5 DEF OthersHold
    <3>2. pc'[t] \notin Rewriting /\ UNCHANGED <<file, db, tree>>
      BY <2>1 DEF Rewriting
    <3>3. t \in Threads /\ \A u \in Threads \ {t} : pc'[u] = pc[u] /\ call'[u] = call[u]
      BY <2>1
    <3> QED
      BY ONLY <1>a, <1>c, <3>1, <3>2, <3>3, <2>4, OthersRead
  <2>7. \A k \in Keys : snapshots[k] # NoSnapshot => snapshots[k] \in Snapshots \ {Mine(t)}
    BY <2>1
  <2>8. RegisteredMatch'
    BY <1>a, <2>1, <2>2, <2>7, KeepsMatch
  <2> QED
    BY <2>6, <2>8
<1>13. ASSUME NEW t \in Threads, GetChunks(t) PROVE (ReadsTree /\ RegisteredMatch)'
  <2>1. /\ pc[t] = "chunks" /\ pc'[t] = "register" /\ UNCHANGED <<db, file, tree, snapshots, call>>
        /\ \A u \in Threads \ {t} : pc'[u] = pc[u] /\ call'[u] = call[u]
        /\ Mine(t) \in Snapshots
    BY <1>13 DEF GetChunks
  <2>2. /\ warm'[Mine(t)] = [warm[Mine(t)] EXCEPT !.chunks = db[warm[Mine(t)].file].rows]
        /\ \A s \in Snapshots \ {Mine(t)} : warm'[s] = warm[s]
    BY <1>13, <2>1 DEF GetChunks, RowsOf
  <2>3. /\ db[warm[Mine(t)].file].rows = tree /\ warm[Mine(t)].generation.signature = tree
        /\ warm[Mine(t)].graph = tree
    BY <1>a, <2>1
  <2>4. ReadsOf(t)'
    BY <2>1, <2>2, <2>3
  <2>5. \A u \in Threads \ {t} : pc[u] \in Holding => Mine(u) \in Snapshots \ {Mine(t)}
    BY <2>1
  <2>6. ReadsTree'
    <3>1. OthersHold(t)
      BY <2>2, <2>5 DEF OthersHold
    <3>2. pc'[t] \notin Rewriting /\ UNCHANGED <<file, db, tree>>
      BY <2>1 DEF Rewriting
    <3>3. t \in Threads /\ \A u \in Threads \ {t} : pc'[u] = pc[u] /\ call'[u] = call[u]
      BY <2>1
    <3> QED
      BY ONLY <1>a, <1>c, <3>1, <3>2, <3>3, <2>4, OthersRead
  <2>7. \A k \in Keys : snapshots[k] # NoSnapshot => snapshots[k] \in Snapshots \ {Mine(t)}
    BY <2>1
  <2>8. RegisteredMatch'
    BY <1>a, <2>1, <2>2, <2>7, KeepsMatch
  <2> QED
    BY <2>6, <2>8
<1>14. ASSUME NEW t \in Threads, Register(t) PROVE (ReadsTree /\ RegisteredMatch)'
  <2>1. /\ pc[t] = "register" /\ pc'[t] = "search" /\ UNCHANGED <<db, file, tree, call>>
        /\ \A u \in Threads \ {t} : pc'[u] = pc[u] /\ call'[u] = call[u]
        /\ Mine(t) \in Snapshots /\ registry = t
        /\ snapshots' = [snapshots EXCEPT ![call[t].key] = Mine(t)]
    BY <1>14 DEF Register
  <2>2. \A s \in Snapshots : /\ warm'[s].generation = warm[s].generation
                             /\ warm'[s].graph = warm[s].graph /\ warm'[s].chunks = warm[s].chunks
                             /\ warm'[s].file \in {warm[s].file, NEVER}
    BY <1>14 DEF Register, Closed
  <2>3. /\ warm[Mine(t)].generation.signature = tree
        /\ warm[Mine(t)].graph = tree /\ warm[Mine(t)].chunks = tree
    BY <1>a, <2>1
  <2>4. ReadsOf(t)'
    BY <2>1, <2>2, <2>3
  <2>5. \A u \in Threads \ {t} : pc[u] \in Holding => Mine(u) \in Snapshots /\ pc[u] \notin {"graph", "chunks"}
    BY <2>1
  <2>6. ReadsTree'
    <3>1. OthersHold(t)
      BY <2>2, <2>5 DEF OthersHold
    <3>2. pc'[t] \notin Rewriting /\ UNCHANGED <<file, db, tree>>
      BY <2>1 DEF Rewriting
    <3>3. t \in Threads /\ \A u \in Threads \ {t} : pc'[u] = pc[u] /\ call'[u] = call[u]
      BY <2>1
    <3> QED
      BY ONLY <1>a, <1>c, <3>1, <3>2, <3>3, <2>4, OthersRead
  <2>7. ASSUME NEW k \in Keys, snapshots'[k] # NoSnapshot
        PROVE  /\ snapshots'[k] \in Snapshots
               /\ warm[snapshots'[k]].graph = warm[snapshots'[k]].generation.signature
               /\ warm[snapshots'[k]].chunks = warm[snapshots'[k]].generation.signature
    BY <1>a, <2>1, <2>3, <2>7
  <2>8. RegisteredMatch'
    BY <2>2, <2>7
  <2> QED
    BY <2>6, <2>8
<1>15. ASSUME NEW t \in Threads, EnterSearch(t) PROVE (ReadsTree /\ RegisteredMatch)'
  BY <1>15, <1>a DEF EnterSearch, Locked, Rewriting
<1>17. ASSUME NEW t \in Threads, EnterRank(t) PROVE (ReadsTree /\ RegisteredMatch)'
  BY <1>17, <1>a DEF EnterRank, Locked, Rewriting
<1>16. ASSUME NEW t \in Threads, Search(t) PROVE (ReadsTree /\ RegisteredMatch)'
  <2>1. warm[Mine(t)].file = file => FoundIn(Mine(t)) = tree
    BY <1>16, <1>b DEF Search, FoundIn, Whole
  <2>2. /\ pc[t] = "searching" /\ pc'[t] = "rank" /\ UNCHANGED <<db, file, tree, snapshots>>
        /\ \A u \in Threads \ {t} : pc'[u] = pc[u] /\ call'[u] = call[u]
        /\ Mine(t) \in Snapshots /\ Mine(t)' = Mine(t) /\ call'[t].hits = FoundIn(Mine(t))
    BY <1>16 DEF Search
  <2>3. \A s \in Snapshots : /\ warm'[s].generation = warm[s].generation
                             /\ warm'[s].graph = warm[s].graph /\ warm'[s].chunks = warm[s].chunks
                             /\ warm'[s].file = warm[s].file
    BY <1>16, <2>2 DEF Search, Released
  <2>4. /\ warm[Mine(t)].generation.signature = tree
        /\ warm[Mine(t)].graph = tree /\ warm[Mine(t)].chunks = tree
    BY <1>a, <2>2
  <2>5. ReadsOf(t)'
    BY <2>1, <2>2, <2>3, <2>4
  <2>6. ReadsTree'
    <3>1. OthersHold(t)
      BY <2>3 DEF OthersHold
    <3>2. pc'[t] \notin Rewriting /\ UNCHANGED <<file, db, tree>>
      BY <2>2 DEF Rewriting
    <3>3. t \in Threads /\ \A u \in Threads \ {t} : pc'[u] = pc[u] /\ call'[u] = call[u]
      BY <2>2
    <3> QED
      BY ONLY <1>a, <1>c, <3>1, <3>2, <3>3, <2>5, OthersRead
  <2>7. RegisteredMatch'
    BY <1>a, <2>2, <2>3, KeepsMatch
  <2> QED
    BY <2>6, <2>7
<1>18. ASSUME NEW t \in Threads, Rank(t) PROVE (ReadsTree /\ RegisteredMatch)'
  BY <1>18, <1>a DEF Rank, Released, Rewriting
<1>19. ASSUME NEW t \in Threads, ReadReceipts(t) PROVE (ReadsTree /\ RegisteredMatch)'
  BY <1>19, <1>a DEF ReadReceipts, Rewriting
<1>20. ASSUME NEW t \in Threads, UseOfClosed(t) PROVE (ReadsTree /\ RegisteredMatch)'
  <2>1. /\ pc[t] \in Served /\ pc'[t] = "idle" /\ UNCHANGED <<db, file, tree, snapshots>>
        /\ \A u \in Threads \ {t} : pc'[u] = pc[u] /\ call'[u] = call[u]
        /\ Mine(t) \in Snapshots
    BY <1>20 DEF UseOfClosed, GoIdle
  <2>2. \A s \in Snapshots : /\ warm'[s].generation = warm[s].generation
                             /\ warm'[s].graph = warm[s].graph /\ warm'[s].chunks = warm[s].chunks
                             /\ warm'[s].file = warm[s].file
    BY <1>20, <2>1 DEF UseOfClosed, Released
  <2>3. ReadsOf(t)'
    BY <2>1
  <2>4. ReadsTree'
    <3>1. OthersHold(t)
      BY <2>2 DEF OthersHold
    <3>2. pc'[t] \notin Rewriting /\ UNCHANGED <<file, db, tree>>
      BY <2>1 DEF Rewriting
    <3>3. t \in Threads /\ \A u \in Threads \ {t} : pc'[u] = pc[u] /\ call'[u] = call[u]
      BY <2>1
    <3> QED
      BY ONLY <1>a, <1>c, <3>1, <3>2, <3>3, <2>3, OthersRead
  <2>5. RegisteredMatch'
    BY <1>a, <2>1, <2>2, KeepsMatch
  <2> QED
    BY <2>4, <2>5
<1>21. ASSUME NEW t \in Threads, Return(t) PROVE (ReadsTree /\ RegisteredMatch)'
  BY <1>21, <1>a DEF Return, GoIdle, NoCall, Rewriting
<1>22. ASSUME NEW t \in Threads, Ask(t) PROVE (ReadsTree /\ RegisteredMatch)'
  BY <1>22, <1>a DEF Ask, Rewriting
<1>23. CASE TreeMoves
  BY <1>23, <1>a DEF TreeMoves, Running
<1>24. CASE Close
  BY <1>24, <1>a DEF Close, Closed, Emptied
<1>25. CASE UNCHANGED vars
  BY <1>25, <1>a DEF vars
<1> QED
  BY <1>1, <1>2, <1>3, <1>4, <1>8, <1>9, <1>10, <1>11, <1>12, <1>13, <1>14, <1>15, <1>16, <1>17, <1>18, <1>19, <1>20, <1>21, <1>22, <1>23, <1>24, <1>25
     DEF Next, Work, EnsureIndex, GetOrBuild, Serve

---------------------------------------------------------------------------
LEMMA InitInvariant == Init => IInv
<1> SUFFICES ASSUME Init PROVE IInv
  OBVIOUS
<1>1. TypeOK /\ Registration /\ FilesExist
  BY InitType, InitRegistration, InitFiles
<1>2. SolePatcher /\ TargetsTree /\ DeltaSoFar /\ DoneMeansCurrent
  BY DEF Init, SolePatcher, TargetsTree, DeltaSoFar, DoneMeansCurrent, Patching, Past, Holding,
         Building, Guarded
<1>3. SettledFile
  <2>1. db[file] = IndexOf(tree)
    BY <1>1 DEF Init, TypeOK
  <2> QED
    BY <2>1 DEF SettledFile, Whole, IndexOf, IdOf
<1>4. ReadsTree /\ RegisteredMatch
  BY DEF Init, ReadsTree, ReadsOf, RegisteredMatch, Holding, Building, Guarded, Served, Searched
<1> QED
  BY <1>1, <1>2, <1>3, <1>4 DEF IInv, Undisturbed, Refreshes

LEMMA NextInvariant == IInv /\ [Next]_vars => IInv'
<1> SUFFICES ASSUME IInv, [Next]_vars PROVE IInv'
  OBVIOUS
<1>1. TypeOK' /\ Registration' /\ FilesExist'
  BY NextType, NextRegistration, NextFiles DEF IInv, Registration
<1>2. (disturbed => disturbed') /\ (overlapped => overlapped')
  <2>1. CASE TreeMoves \/ Close \/ UNCHANGED vars
    <3>1. CASE TreeMoves
      BY <3>1, Zenon DEF TreeMoves
    <3>2. CASE Close \/ UNCHANGED vars
      BY <3>2 DEF Close, vars, history
    <3> QED
      BY <2>1, <3>1, <3>2
  <2>2. ASSUME NEW t \in Threads, Ask(t) PROVE UNCHANGED <<disturbed, overlapped>>
    BY <2>2 DEF Ask
  <2>3. ASSUME NEW t \in Threads, Hit(t) \/ NoChanges(t) \/ BeginDelta(t)
        PROVE  UNCHANGED disturbed /\ (overlapped => overlapped')
    BY <2>3 DEF Hit, NoChanges, BeginDelta, Looks
  <2>4. ASSUME NEW t \in Threads, Miss(t) \/ BeginFull(t) \/ PutDb(t) \/ Leave(t)
        PROVE  UNCHANGED <<disturbed, overlapped>>
    BY <2>4 DEF Miss, BeginFull, PutDb, Leave, history
  <2>5. ASSUME NEW t \in Threads, Delta(t) PROVE UNCHANGED <<disturbed, overlapped>>
    BY <2>5, DeltaStep DEF OneTransaction, IInv
  <2>6. ASSUME NEW t \in Threads, GetOrBuild(t) PROVE UNCHANGED <<disturbed, overlapped>>
    BY <2>6 DEF GetOrBuild, ReadGenerationId, Reuse, OpenSnapshot, BuildGraph, GetChunks, Register, history
  <2>7. ASSUME NEW t \in Threads, Serve(t) PROVE UNCHANGED <<disturbed, overlapped>>
    BY <2>7 DEF Serve, EnterSearch, EnterRank, Locked, Search, Rank, ReadReceipts, UseOfClosed, Return,
                history
  <2> QED
    BY <2>1, <2>2, <2>3, <2>4, <2>5, <2>6, <2>7 DEF Next, Work, EnsureIndex
<1>3. ~ disturbed' /\ ~ overlapped' => Undisturbed'
  BY <1>2, NextRefreshes, NextReads DEF IInv, Undisturbed
<1> QED
  BY <1>1, <1>3 DEF IInv

LEMMA InvariantHolds == Spec => []IInv
<1> QED
  BY InitInvariant, NextInvariant, PTL DEF Spec

\* TypeOK holds.
THEOREM TypeCorrect == Spec => []TypeOK
<1>1. IInv => TypeOK
  BY DEF IInv
<1> QED
  BY <1>1, InvariantHolds, PTL

\* get_or_build and close leak no connection to the store, whatever the threads,
\* the versions of the tree and the moment the server goes down.
THEOREM ConnectionsAccountedFor == Spec => []NoLeakedConnection
<1>1. IInv => NoLeakedConnection
  BY DEF IInv, Registration
<1> QED
  BY <1>1, InvariantHolds, PTL

\* A snapshot get_or_build finds registered is open.
THEOREM RegisteredAreOpen == Spec => []RegisteredIsOpen
<1>1. IInv => RegisteredIsOpen
  BY DEF IInv, Registration
<1> QED
  BY <1>1, InvariantHolds, PTL

\* query() answers from the tree as it is while the tree does not change under a
\* call and nobody looks at a file between two transactions of a delta: for any
\* number of threads, snapshots, keys and versions, which threads refresh, replace
\* and supersede in whatever order.
THEOREM UndisturbedAnswers == Spec => []AnswerIsOfTheTree
<1>1. IInv => AnswerIsOfTheTree
  BY DEF IInv, Undisturbed, ReadsTree, ReadsOf, AnswerIsOfTheTree, Served, Searched
<1> QED
  BY <1>1, InvariantHolds, PTL

---------------------------------------------------------------------------
(* Nobody waits for ever.                                                  *)

\* The lock of a snapshot is held by a call that reads through it.
LocksInUse ==
    \A s \in Snapshots, t \in Threads : warm[s].lock = t => pc[t] \in Guarded /\ Mine(t) = s

\* Calls that may still put a file in place.
Refreshers == {t \in Threads : pc[t] \in {"ensure", "manifest", "put"}}

FilesLeft == file + Cardinality(Refreshers) <= calls + 1 /\ calls <= MaxCalls

\* A thread that holds no lock goes on, and no lock changes hands.
LEMMA OthersKeepLocks ==
    ASSUME LocksInUse, NEW t \in Threads, pc[t] \notin Guarded,
           \A u \in Threads \ {t} : pc'[u] = pc[u] /\ call'[u].snapshot = call[u].snapshot,
           \A s \in Snapshots : warm'[s].lock = warm[s].lock
    PROVE  LocksInUse'
BY DEF LocksInUse, Mine

LEMMA LockTaken ==
    ASSUME TypeOK, LocksInUse, NEW t \in Threads, Mine(t) \in Snapshots,
           NEW before \in {"search", "rank"}, NEW label \in Guarded, Locked(t, before, label)
    PROVE  LocksInUse'
<1>1. \A s \in Snapshots : warm'[s].lock = IF s = Mine(t) THEN t ELSE warm[s].lock
  BY DEF Locked, TypeOK, Snapshot
<1>2. pc[t] \notin Guarded /\ pc'[t] = label /\ \A u \in Threads \ {t} : pc'[u] = pc[u]
  BY DEF Locked, Goto, TypeOK, Guarded
<1>3. UNCHANGED call
  BY DEF Locked
<1> QED
  BY <1>1, <1>2, <1>3 DEF LocksInUse, Mine

\* Whoever held the lock gives it back, whether the read has failed or not.
LEMMA LockReleased ==
    ASSUME TypeOK, LocksInUse, NEW t \in Threads, Mine(t) \in Snapshots, warm' = Released(Mine(t)),
           \A u \in Threads \ {t} : pc'[u] = pc[u] /\ call'[u].snapshot = call[u].snapshot
    PROVE  LocksInUse'
<1>1. \A s \in Snapshots : warm'[s].lock = IF s = Mine(t) THEN NoThread ELSE warm[s].lock
  BY DEF Released, TypeOK, Snapshot
<1> QED
  BY <1>1, RuntimeAssumption DEF LocksInUse, Mine

LEMMA NextLocks == TypeOK /\ CallHoldsSnapshot /\ LocksInUse /\ [Next]_vars => LocksInUse'
<1> SUFFICES ASSUME TypeOK, CallHoldsSnapshot, LocksInUse, [Next]_vars PROVE LocksInUse'
  OBVIOUS
<1> USE DEF storeVars, runtimeVars, history, Goto
<1>a. \A t \in Threads : pc[t] \in Holding => Mine(t) \in Snapshots
  BY DEF CallHoldsSnapshot
<1>1. ASSUME NEW t \in Threads, EnsureIndex(t) \/ Ask(t) PROVE LocksInUse'
  <2>1. pc[t] \notin Guarded /\ UNCHANGED warm
    BY <1>1, DeltaStep DEF EnsureIndex, Ask, Hit, Miss, NoChanges, BeginDelta, BeginFull, PutDb, Leave,
                           Guarded, OneTransaction, Patching
  <2>2. \A u \in Threads \ {t} : pc'[u] = pc[u] /\ call'[u] = call[u]
    BY <1>1, DeltaStep DEF TypeOK, EnsureIndex, Ask, Hit, Miss, NoChanges, BeginDelta, BeginFull, PutDb,
                           Leave, GoIdle, OneTransaction
  <2> QED
    BY <2>1, <2>2, OthersKeepLocks
<1>2. ASSUME NEW t \in Threads, GetOrBuild(t) PROVE LocksInUse'
  <2>1. pc[t] \notin Guarded
    BY <1>2 DEF GetOrBuild, ReadGenerationId, Reuse, OpenSnapshot, BuildGraph, GetChunks, Register, Guarded
  <2>2. \A u \in Threads \ {t} : pc'[u] = pc[u]
    BY <1>2 DEF TypeOK, GetOrBuild, ReadGenerationId, Reuse, OpenSnapshot, BuildGraph, GetChunks, Register
  <2>3. \A u \in Threads \ {t} : call'[u] = call[u]
    BY <1>2 DEF TypeOK, GetOrBuild, ReadGenerationId, Reuse, OpenSnapshot, BuildGraph, GetChunks, Register
  <2>4. \A s \in Snapshots : warm'[s].lock = warm[s].lock
    <3>1. CASE ReadGenerationId(t) \/ Reuse(t)
      BY <3>1 DEF ReadGenerationId, Reuse
    <3>2. CASE OpenSnapshot(t)
      <4>1. PICK s \in Snapshots :
                warm' = [warm EXCEPT ![s].generation = call[t].generation, ![s].file = file]
        BY <3>2 DEF OpenSnapshot
      <4> QED
        BY <4>1 DEF TypeOK, Snapshot
    <3>3. CASE BuildGraph(t)
      BY <3>3 DEF BuildGraph, TypeOK, Snapshot
    <3>4. CASE GetChunks(t)
      BY <3>4 DEF GetChunks, TypeOK, Snapshot
    <3>5. CASE Register(t)
      BY <3>5 DEF Register, Closed, TypeOK, Snapshot
    <3> QED
      BY <1>2, <3>1, <3>2, <3>3, <3>4, <3>5 DEF GetOrBuild
  <2> QED
    BY <2>1, <2>2, <2>3, <2>4, OthersKeepLocks
<1>3. ASSUME NEW t \in Threads, EnterSearch(t) \/ EnterRank(t) PROVE LocksInUse'
  <2>1. Mine(t) \in Snapshots
    BY <1>3, <1>a DEF EnterSearch, EnterRank, Locked, Holding
  <2> QED
    BY <1>3, <2>1, LockTaken DEF EnterSearch, EnterRank, Guarded
<1>4. ASSUME NEW t \in Threads, Search(t) \/ Rank(t) PROVE LocksInUse'
  <2>1. Mine(t) \in Snapshots /\ warm' = Released(Mine(t))
    BY <1>4, <1>a DEF Search, Rank, Holding, Guarded
  <2>2. \A u \in Threads \ {t} : pc'[u] = pc[u] /\ call'[u] = call[u]
    BY <1>4 DEF TypeOK, Search, Rank
  <2> QED
    BY <2>1, <2>2, LockReleased
<1>5. ASSUME NEW t \in Threads, UseOfClosed(t) PROVE LocksInUse'
  <2>1. \A u \in Threads \ {t} : pc'[u] = pc[u] /\ call'[u] = call[u]
    BY <1>5 DEF TypeOK, UseOfClosed, GoIdle
  <2>2. CASE pc[t] \in Guarded
    <3>1. Mine(t) \in Snapshots /\ warm' = Released(Mine(t))
      BY <1>5, <1>a, <2>2 DEF UseOfClosed, Holding
    <3> QED
      BY <2>1, <3>1, LockReleased
  <2>3. CASE pc[t] \notin Guarded
    BY <1>5, <2>1, <2>3, OthersKeepLocks DEF UseOfClosed
  <2> QED
    BY <2>2, <2>3
<1>6. ASSUME NEW t \in Threads, ReadReceipts(t) \/ Return(t) PROVE LocksInUse'
  <2>1. pc[t] \notin Guarded /\ UNCHANGED warm
    BY <1>6 DEF ReadReceipts, Return, Guarded
  <2>2. \A u \in Threads \ {t} : pc'[u] = pc[u] /\ call'[u] = call[u]
    BY <1>6 DEF TypeOK, ReadReceipts, Return, GoIdle
  <2> QED
    BY <2>1, <2>2, OthersKeepLocks
<1>7. CASE TreeMoves \/ Close \/ UNCHANGED vars
  <2>1. UNCHANGED <<pc, call>>
    BY <1>7 DEF TreeMoves, Close, vars
  <2>2. \A s \in Snapshots : warm'[s].lock = warm[s].lock
    BY <1>7 DEF TreeMoves, Close, vars, Closed, TypeOK, Snapshot
  <2> QED
    BY <2>1, <2>2 DEF LocksInUse, Mine
<1> QED
  BY <1>1, <1>2, <1>3, <1>4, <1>5, <1>6, <1>7 DEF Next, Work, Serve

---------------------------------------------------------------------------
(* A file for every refresh.                                               *)

LEMMA CountRefreshers ==
    /\ IsFiniteSet(Refreshers) /\ Cardinality(Refreshers) \in Nat
    /\ \A t \in Threads : t \in Refreshers => Cardinality(Refreshers) >= 1
<1>1. IsFiniteSet(Refreshers)
  BY FS_Subset, RuntimeAssumption DEF Refreshers
<1>2. \A t \in Refreshers : Cardinality(Refreshers) # 0
  BY <1>1, FS_EmptySet
<1> QED
  BY <1>1, <1>2, FS_CardinalityType

\* A thread that is done with its refresh, or starts one.
LEMMA OneRefresherLess ==
    ASSUME NEW t \in Refreshers, Refreshers' = Refreshers \ {t}
    PROVE  Cardinality(Refreshers') = Cardinality(Refreshers) - 1
BY CountRefreshers, FS_RemoveElement

LEMMA OneRefresherMore ==
    ASSUME NEW t, t \notin Refreshers, Refreshers' = Refreshers \cup {t}
    PROVE  Cardinality(Refreshers') = Cardinality(Refreshers) + 1
BY CountRefreshers, FS_AddElement

LEMMA NextFilesLeft == TypeOK /\ FilesLeft /\ [Next]_vars => FilesLeft'
<1> SUFFICES ASSUME TypeOK, FilesLeft, [Next]_vars PROVE FilesLeft'
  OBVIOUS
<1> USE DEF storeVars, runtimeVars, history, Goto
<1>a. file \in Nat /\ calls \in Nat /\ MaxCalls \in Nat /\ Cardinality(Refreshers) \in Nat
  BY CountRefreshers, RuntimeAssumption DEF TypeOK, File
<1>1. ASSUME NEW t \in Threads, Ask(t) PROVE FilesLeft'
  <2>1. t \notin Refreshers /\ Refreshers' = Refreshers \cup {t}
    BY <1>1 DEF Ask, TypeOK, Refreshers
  <2>2. calls < MaxCalls /\ calls' = calls + 1 /\ UNCHANGED file
    BY <1>1 DEF Ask
  <2>3. Cardinality(Refreshers') = Cardinality(Refreshers) + 1
    BY <2>1, OneRefresherMore
  <2> QED
    BY <1>a, <2>2, <2>3 DEF FilesLeft
<1>2. ASSUME NEW t \in Threads, Hit(t) \/ NoChanges(t) \/ BeginDelta(t) PROVE FilesLeft'
  <2>1. t \in Refreshers /\ Refreshers' = Refreshers \ {t}
    BY <1>2 DEF Hit, NoChanges, BeginDelta, TypeOK, Refreshers
  <2>2. UNCHANGED <<calls, file>>
    BY <1>2 DEF Hit, NoChanges, BeginDelta, Looks
  <2>3. Cardinality(Refreshers') = Cardinality(Refreshers) - 1
    BY <2>1, OneRefresherLess
  <2> QED
    BY <1>a, <2>2, <2>3 DEF FilesLeft
<1>3. ASSUME NEW t \in Threads, PutDb(t) PROVE FilesLeft'
  <2>1. t \in Refreshers /\ Refreshers' = Refreshers \ {t}
    BY <1>3 DEF PutDb, TypeOK, Refreshers
  <2>2. file' = file + 1 /\ UNCHANGED calls
    BY <1>3 DEF PutDb
  <2>3. Cardinality(Refreshers') = Cardinality(Refreshers) - 1
    BY <2>1, OneRefresherLess
  <2> QED
    BY <1>a, <2>2, <2>3 DEF FilesLeft
<1>4. ASSUME UNCHANGED <<calls, file>>, Refreshers' = Refreshers PROVE FilesLeft'
  BY <1>4 DEF FilesLeft
<1>5. ASSUME NEW t \in Threads,
             Miss(t) \/ Delta(t) \/ BeginFull(t) \/ Leave(t)
      PROVE  FilesLeft'
  <2>1. CASE Delta(t)
    BY <1>4, <2>1, DeltaStep DEF OneTransaction, Patching, TypeOK, Refreshers
  <2>2. CASE Miss(t) \/ BeginFull(t) \/ Leave(t)
    <3>1. Refreshers' = Refreshers
      BY <2>2 DEF Miss, BeginFull, Leave, GoIdle, TypeOK, Refreshers
    <3> QED
      BY <1>4, <2>2, <3>1 DEF Miss, BeginFull, Leave
  <2> QED
    BY <1>5, <2>1, <2>2
<1>6. ASSUME NEW t \in Threads, GetOrBuild(t) PROVE FilesLeft'
  <2>1. Refreshers' = Refreshers
    BY <1>6 DEF GetOrBuild, ReadGenerationId, Reuse, OpenSnapshot, BuildGraph, GetChunks, Register,
                TypeOK, Refreshers
  <2> QED
    BY <1>4, <1>6, <2>1 DEF GetOrBuild, ReadGenerationId, Reuse, OpenSnapshot, BuildGraph, GetChunks, Register
<1>7. ASSUME NEW t \in Threads, Serve(t) PROVE FilesLeft'
  <2>1. Refreshers' = Refreshers
    BY <1>7 DEF Serve, EnterSearch, EnterRank, Locked, Search, Rank, ReadReceipts, UseOfClosed, Return,
                GoIdle, TypeOK, Refreshers
  <2> QED
    BY <1>4, <1>7, <2>1 DEF Serve, EnterSearch, EnterRank, Locked, Search, Rank, ReadReceipts, UseOfClosed,
                            Return
<1>8. CASE TreeMoves \/ Close \/ UNCHANGED vars
  BY <1>4, <1>8 DEF TreeMoves, Close, vars, Refreshers
<1> QED
  BY <1>1, <1>2, <1>3, <1>5, <1>6, <1>7, <1>8 DEF Next, Work, EnsureIndex

---------------------------------------------------------------------------
(* A snapshot for every call.                                              *)

LEMMA ImageBound ==
    ASSUME NEW S, IsFiniteSet(S), NEW f, DOMAIN f = S
    PROVE  IsFiniteSet({f[x] : x \in S}) /\ Cardinality({f[x] : x \in S}) <= Cardinality(S)
<1> DEFINE T == {f[x] : x \in S}
           g == [x \in S |-> f[x]]
<1>1. g \in Surjection(S, T)
  BY DEF Surjection
<1> HIDE DEF T, g
<1>2. IsFiniteSet(T) /\ Cardinality(T) <= Cardinality(S)
  BY <1>1, FS_Surjection
<1> QED
  BY <1>2 DEF T

LEMMA OneIsUnused ==
    ASSUME TypeOK, Registration, registry = NoThread, NEW t \in Threads, pc[t] = "lookup"
    PROVE  \E s \in Snapshots : Unused(s)
<1> DEFINE registered == {snapshots[k] : k \in Keys}
           others     == Threads \ {t}
           held       == {call[u].snapshot : u \in others}
<1>1. IsFiniteSet(registered) /\ Cardinality(registered) <= Cardinality(Keys)
  <2>1. DOMAIN snapshots = Keys
    BY DEF TypeOK
  <2> QED
    BY <2>1, ImageBound, RuntimeAssumption
<1>2. IsFiniteSet(others) /\ Cardinality(others) = Cardinality(Threads) - 1
  BY FS_RemoveElement, RuntimeAssumption
<1>3. IsFiniteSet(held) /\ Cardinality(held) <= Cardinality(others)
  <2> DEFINE f == [u \in others |-> call[u].snapshot]
  <2>1. DOMAIN f = others /\ {f[u] : u \in others} = held
    OBVIOUS
  <2> HIDE DEF others, held, f
  <2>2. IsFiniteSet({f[u] : u \in others}) /\ Cardinality({f[u] : u \in others}) <= Cardinality(others)
    BY <1>2, <2>1, ImageBound
  <2> QED
    BY <2>1, <2>2
<1>4. /\ Cardinality(registered) \in Nat /\ Cardinality(held) \in Nat
      /\ Cardinality(Keys) \in Nat /\ Cardinality(Threads) \in Nat /\ Cardinality(Snapshots) \in Nat
  BY <1>1, <1>3, FS_CardinalityType, RuntimeAssumption
<1> HIDE DEF registered, others, held
<1>5. IsFiniteSet(registered \cup held)
      /\ Cardinality(registered \cup held) <= Cardinality(registered) + Cardinality(held)
  <2>1. registered \cap held \in SUBSET registered
    OBVIOUS
  <2>2. Cardinality(registered \cap held) \in Nat
    BY <1>1, <2>1, FS_Subset, FS_CardinalityType
  <2>3. IsFiniteSet(registered \cup held)
        /\ Cardinality(registered \cup held) =
              Cardinality(registered) + Cardinality(held) - Cardinality(registered \cap held)
    BY <1>1, <1>3, FS_Union
  <2> QED
    BY <1>4, <2>2, <2>3
<1>6. Cardinality(registered \cup held) < Cardinality(Snapshots)
  BY <1>1, <1>2, <1>3, <1>4, <1>5, FS_CardinalityType, RuntimeAssumption
<1>7. PICK s \in Snapshots : s \notin registered \cup held
  <2>1. ~ Snapshots \subseteq registered \cup held
    <3>1. SUFFICES ASSUME Snapshots \subseteq registered \cup held PROVE FALSE
      OBVIOUS
    <3>2. Cardinality(Snapshots) <= Cardinality(registered \cup held)
      BY <1>5, <3>1, FS_Subset
    <3> QED
      BY <1>4, <1>5, <1>6, <3>2, FS_CardinalityType
  <2> QED
    BY <2>1
<1>8. call[t].snapshot # s
  BY DEF Registration, CallHoldsSnapshot, Mine, Holding, Building, Guarded
<1>9. \A u \in Threads : call[u].snapshot # s
  BY <1>7, <1>8 DEF held, others
<1>10. \A k \in Keys : snapshots[k] # s
  BY <1>7 DEF registered
<1>11. ~ IsOpen(s)
  BY <1>9, <1>10 DEF Registration, NoLeakedConnection, Mine
<1> QED
  BY <1>9, <1>10, <1>11 DEF Unused, IsOpen

---------------------------------------------------------------------------
LEMMA WaitingFor ==
    ASSUME TypeOK, Registration, LocksInUse, FilesLeft
    PROVE  SomeoneReady
<1> SUFFICES ASSUME NEW t \in Threads, pc[t] # "idle"
             PROVE  \E u \in Threads : pc[u] # "idle" /\ Ready(u)
  BY DEF SomeoneReady, Running
<1>1. CASE pc[t] = "put"
  <2>1. t \in Refreshers
    BY <1>1 DEF Refreshers
  <2>2. Cardinality(Refreshers) >= 1 /\ Cardinality(Refreshers) \in Nat
    BY <2>1, CountRefreshers
  <2>3. file < MaxCalls + 1
    BY <2>2, RuntimeAssumption DEF FilesLeft, TypeOK, File
  <2> QED
    BY <1>1, <2>3 DEF Ready
<1>2. CASE pc[t] = "lookup" /\ registry = NoThread
  BY <1>2, OneIsUnused DEF Ready
<1>3. CASE pc[t] = "lookup" /\ registry # NoThread
  \* Whoever builds a snapshot waits for nobody.
  <2>1. registry \in Threads /\ pc[registry] \in Building
    BY <1>3 DEF TypeOK, Registration, BuilderHoldsRegistry
  <2>2. Ready(registry)
    BY <2>1 DEF Ready, Building
  <2> QED
    BY <2>1, <2>2 DEF Building
<1>4. CASE pc[t] \in {"search", "rank"}
  <2>1. Mine(t) \in Snapshots
    BY <1>4 DEF Registration, CallHoldsSnapshot, Holding, Guarded
  <2>2. CASE warm[Mine(t)].lock = NoThread
    BY <1>4, <2>2 DEF Ready
  <2>3. CASE warm[Mine(t)].lock # NoThread
    \* Whoever reads through a snapshot waits for nobody.
    <3> DEFINE u == warm[Mine(t)].lock
    <3>1. u \in Threads
      BY <2>1, <2>3 DEF TypeOK, Snapshot
    <3>2. pc[u] \in Guarded
      BY <2>1, <3>1 DEF LocksInUse
    <3> HIDE DEF u
    <3> QED
      BY <3>1, <3>2 DEF Ready, Guarded
  <2> QED
    BY <2>2, <2>3
<1>5. CASE pc[t] \notin {"put", "lookup", "search", "rank"}
  BY <1>5 DEF Ready
<1> QED
  BY <1>1, <1>2, <1>3, <1>4, <1>5

\* However many calls run, whatever they wait for, and whichever of them have
\* failed: one can go on.  Locks are taken in one order only, since whoever holds
\* one takes no other, and none is left behind (serve/runtime.py get_or_build,
\* api.py query).  That a call that is Ready has a step is left to TLC, which
\* checks both as NoneStuck.
THEOREM SomeoneGoesOn == Spec => []SomeoneReady
<1> DEFINE J == LocksInUse /\ FilesLeft
<1>1. Init => J
  <2> SUFFICES ASSUME Init PROVE J
    OBVIOUS
  <2>1. Refreshers = {}
    BY DEF Init, Refreshers
  <2>2. Cardinality(Refreshers) = 0
    BY <2>1, FS_EmptySet
  <2>3. FilesLeft
    BY <2>2, RuntimeAssumption DEF Init, FilesLeft
  <2>4. LocksInUse
    BY RuntimeAssumption DEF Init, LocksInUse
  <2> QED
    BY <2>3, <2>4
<1>2. IInv /\ J /\ [Next]_vars => J'
  BY NextLocks, NextFilesLeft DEF IInv, Registration
<1>3. IInv /\ J => SomeoneReady
  BY WaitingFor DEF IInv
<1> HIDE DEF J
<1> QED
  BY <1>1, <1>2, <1>3, InvariantHolds, PTL DEF Spec

===========================================================================
