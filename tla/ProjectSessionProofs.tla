------------------------ MODULE ProjectSessionProofs ------------------------
(***************************************************************************)
(* Theorems about ProjectSession, for any number of processes, versions of *)
(* the tree and branches.                                                  *)
(***************************************************************************)
EXTENDS ProjectSession, TLAPS, FiniteSetTheorems, WellFoundedInduction

Locals ==
    [op : Ops \cup {"none"}, kind : Kinds, anchored : BOOLEAN, size : Nat, id : Nat,
     version : Revisions \cup {NoRevision}, matches : Revisions, branch : Scopes]

IsRecord(p) == call[p].op = "record"

\* What a capture will insert is a record: an anchored one has a revision.
Recordable(p) ==
    /\ call[p].size \in Sizes
    /\ call[p].anchored /\ pc[p] \in {"branch", "ledger"} => call[p].version # NoRevision

CallsTyped ==
    /\ call \in [Procs -> Locals] /\ quiet \in [Procs -> BOOLEAN]
    /\ \A p \in Procs : IsRecord(p) => Recordable(p)

TypeInv == TypeOK /\ CallsTyped

\* A record about to be inserted has an id of its own.
Stamped ==
    /\ \A r \in ledger : r.id <= stamps
    /\ \A p \in Procs : IsRecord(p) =>
          IF pc[p] = "ledger"
          THEN call[p].id <= stamps /\ \A r \in ledger : r.id # call[p].id
          ELSE call[p].id = 0
    /\ \A p, q \in Procs :
          p # q /\ IsRecord(p) /\ IsRecord(q) /\ pc[p] = "ledger" /\ pc[q] = "ledger"
              => call[p].id # call[q].id

TaskInv == Stamped /\ OneActiveTask /\ LastTaskStands

\* What a refresh has done so far.  It may have signed what it has not read, but
\* then what it read is torn.
RefreshSoFar ==
    /\ refresh.at \in {"idle", "full"} => ~ refresh.wrote
    /\ refresh.at \in {"rows", "commit", "sign", "forget"} => refresh.wrote
    /\ refresh.at # "idle" => refresh.version \in Versions /\ refresh.files \in {refresh.version, Torn}
    /\ refresh.at \in {"rows", "commit", "sign"} => index.states = refresh.files
    /\ refresh.at \in {"commit", "sign"} => index.rows = refresh.files
    /\ refresh.at = "sign" => index.commit = refresh.version

\* No delta is half-way, and the rows are of one version.
Settled == ~ refresh.wrote /\ index.rows # Torn

IsOf(v) == index.states = v /\ index.rows = v /\ index.commit = v /\ index.signature = v

\* A settled index is all of one version.
Whole == Settled => \E v \in Versions \cup {NoIndex} : IsOf(v)

IndexInv == RefreshSoFar /\ Whole

\* What an undisturbed call has read so far is still so.
Undisturbed(p) ==
    /\ pc[p] \in {"store", "search", "revision"} => call[p].version = tree
    /\ pc[p] \in {"search", "revision"} /\ Settled => index.states = tree /\ index.rows = tree
    /\ pc[p] = "revision" /\ call[p].op = "lookup" /\ Settled => call[p].matches = tree
    /\ /\ pc[p] \in {"branch", "ledger"} /\ Settled
       /\ call[p].op \in {"prime", "session_start"} \/ (IsRecord(p) /\ call[p].anchored)
       => call[p].version = tree
    /\ pc[p] = "ledger" => call[p].branch = branch

QuietInv == QuietAnswerIsOfTheTree /\ \A p \in Procs : quiet[p] => Undisturbed(p)

---------------------------------------------------------------------------
(* The ledger transactions.                                                *)

\* A capture yields rows: old ones, superseded ones and its own.
LEMMA CapturedRows ==
    ASSUME NEW records \in SUBSET Record, NEW r \in Record
    PROVE  /\ Captured(r, records) \subseteq Record
           /\ \A x \in Captured(r, records) : x \in records \/ x = r \/
                 /\ x.state = "superseded" /\ r.kind = "active_task"
                 /\ \E o \in records : o.id = x.id /\ o.branch = r.branch /\ x.branch = r.branch
           /\ \A x \in Captured(r, records) :
                 x.state = "active" /\ x.kind = "active_task" /\ x # r =>
                     x \in records /\ (r.kind = "active_task" => x.branch # r.branch)
<1> DEFINE old == IF r.kind = "active_task" THEN SupersededBy(r.branch, records) ELSE {}
<1>1. Captured(r, records) = (records \ old) \cup WithState(old, "superseded") \cup {r}
  BY DEF Captured
<1>2. old \subseteq records /\ \A o \in old : r.kind = "active_task" /\ o.branch = r.branch
  BY DEF SupersededBy, Active, InScope, SameBranch
<1>3. \A o \in old : /\ [o EXCEPT !.state = "superseded"] \in Record
                     /\ [o EXCEPT !.state = "superseded"].state = "superseded"
                     /\ [o EXCEPT !.state = "superseded"].id = o.id
                     /\ [o EXCEPT !.state = "superseded"].branch = o.branch
  BY <1>2 DEF Record
<1>4. \A x \in WithState(old, "superseded") :
         \E o \in old : x = [o EXCEPT !.state = "superseded"]
  BY DEF WithState
<1>5. \A x \in WithState(old, "superseded") :
         /\ x \in Record /\ x.state = "superseded" /\ r.kind = "active_task"
         /\ \E o \in records : o.id = x.id /\ o.branch = r.branch /\ x.branch = r.branch
  BY <1>2, <1>3, <1>4
<1>6. \A x \in records \ old :
         x.state = "active" /\ x.kind = "active_task" /\ r.kind = "active_task" => x.branch # r.branch
  BY DEF SupersededBy, Active, InScope, SameBranch
<1> HIDE DEF old
<1> QED
  BY <1>1, <1>2, <1>5, <1>6

\* An invalidation yields rows, and none that is active was not so before.
LEMMA InvalidatedRows ==
    ASSUME NEW records \in SUBSET Record, NEW hit \in SUBSET records
    PROVE  /\ (records \ hit) \cup WithState(hit, "invalidated") \subseteq Record
           /\ \A x \in (records \ hit) \cup WithState(hit, "invalidated") :
                 x \in records \/ (x.state = "invalidated" /\ \E o \in records : o.id = x.id)
<1>1. \A o \in hit : /\ [o EXCEPT !.state = "invalidated"] \in Record
                     /\ [o EXCEPT !.state = "invalidated"].state = "invalidated"
                     /\ [o EXCEPT !.state = "invalidated"].id = o.id
  BY DEF Record
<1> QED
  BY <1>1 DEF WithState

---------------------------------------------------------------------------
(* Types.                                                                  *)

LEMMA InitTypes == Init => TypeInv
<1> SUFFICES ASSUME Init PROVE TypeInv
  OBVIOUS
<1>1. Idle \in Locals
  BY DEF Idle, Locals, Kinds, Revisions, Scopes, Ops
<1>2. index \in Index /\ refresh \in Refresh
  BY DEF Init, Revisions, Index, Refresh, NoRefresh, Absent, IndexOf
<1> QED
  BY <1>1, <1>2 DEF Init, TypeInv, TypeOK, CallsTyped, IsRecord, Idle

\* A call begins with fitting locals.
LEMMA BeginTypes ==
    ASSUME TypeInv, NEW p \in Procs, NEW c \in Locals, NEW label \in {"tree", "branch"},
           c.op = "record" => c.size \in Sizes /\ label = "tree",
           Begin(p, c, label)
    PROVE  TypeInv'
  BY DEF TypeInv, TypeOK, CallsTyped, Begin, Goto, IsRecord, Recordable, environment

\* A call that returns leaves what it has not written.
LEMMA ReturnTypes ==
    ASSUME TypeInv, NEW p \in Procs, NEW a, Return(p, a),
           UNCHANGED <<environment, counters>>,
           ledger' \subseteq Record, lastTask' \in [Scopes -> Nat]
    PROVE  TypeInv'
<1>1. Idle \in Locals /\ Idle.op = "none"
  BY DEF Idle, Locals, Kinds, Revisions, Scopes, Ops
<1> QED
  BY <1>1 DEF TypeInv, TypeOK, CallsTyped, Return, IsRecord, Recordable, environment, counters

\* A step within a call keeps its locals fitting.
LEMMA StepTypes ==
    ASSUME TypeInv, NEW p \in Procs, NEW c \in Locals,
           NEW label \in {"store", "search", "revision", "branch", "ledger"},
           call' = [call EXCEPT ![p] = c], Goto(p, label),
           c.op = "record" => /\ c.size \in Sizes
                              /\ c.anchored /\ label \in {"branch", "ledger"} => c.version # NoRevision,
           stamps' \in Nat, UNCHANGED <<environment, ledger, calls, history>>
    PROVE  TypeInv'
  BY DEF TypeInv, TypeOK, CallsTyped, Goto, IsRecord, Recordable, environment, history

LEMMA BeginningTypes ==
    ASSUME TypeInv, NEW p \in Procs,
           Capture(p) \/ Invalidate(p) \/ Delete(p) \/ Prime(p) \/ SessionStart(p) \/ PreToolUse(p)
    PROVE  TypeInv'
<1> USE DEF TypeInv, TypeOK
<1>1. Idle \in Locals /\ \A n \in Sizes : n \in Nat
  BY SessionAssumption DEF Idle, Locals, Kinds, Revisions, Scopes, Ops
<1>2. ASSUME NEW k \in Kinds, NEW anchored \in BOOLEAN, NEW n \in Sizes,
             Begin(p, [Idle EXCEPT !.op = "record", !.kind = k, !.anchored = anchored, !.size = n], "tree")
      PROVE  TypeInv'
  <2> DEFINE c == [Idle EXCEPT !.op = "record", !.kind = k, !.anchored = anchored, !.size = n]
  <2>1. c \in Locals /\ c.size \in Sizes
    BY <1>1 DEF Idle, Locals, Ops
  <2> HIDE DEF c
  <2> QED
    BY <1>2, <2>1, BeginTypes DEF c
<1>3. ASSUME NEW r \in ledger, NEW op \in {"invalidate", "delete"},
             Begin(p, [Idle EXCEPT !.op = op, !.id = r.id], "branch")
      PROVE  TypeInv'
  <2> DEFINE c == [Idle EXCEPT !.op = op, !.id = r.id]
  <2>1. c \in Locals /\ c.op # "record"
    BY <1>1 DEF Idle, Locals, Ops, Record
  <2> HIDE DEF c
  <2> QED
    BY <1>3, <2>1, BeginTypes DEF c
<1>4. ASSUME NEW op \in {"prime", "session_start", "lookup"}, Begin(p, [Idle EXCEPT !.op = op], "tree")
      PROVE  TypeInv'
  <2> DEFINE c == [Idle EXCEPT !.op = op]
  <2>1. c \in Locals /\ c.op # "record"
    BY <1>1 DEF Idle, Locals, Ops
  <2> HIDE DEF c
  <2> QED
    BY <1>4, <2>1, BeginTypes DEF c
<1> QED
  BY <1>2, <1>3, <1>4 DEF Capture, Invalidate, Delete, Prime, SessionStart, PreToolUse

LEMMA ReadingTypes ==
    ASSUME TypeInv, NEW p \in Procs,
           InspectTree(p) \/ InspectStore(p) \/ SearchSymbols(p) \/ IndexRevision(p) \/ CurrentBranch(p)
    PROVE  TypeInv'
<1> USE DEF TypeInv, TypeOK, CallsTyped
<1>1. call[p] \in Locals /\ NoRevision \notin Revisions /\ (IsRecord(p) => Recordable(p))
  BY SessionAssumption
<1>2. ASSUME Return(p, answer'), UNCHANGED <<environment, ledger, counters, lastTask>>
      PROVE  TypeInv'
  BY <1>2, ReturnTypes
<1>3. CASE InspectTree(p)
  <2> DEFINE c == [call[p] EXCEPT !.version = tree]
  <2>1. c \in Locals /\ (c.op = "record" => c.size \in Sizes) /\ call' = [call EXCEPT ![p] = c]
    BY <1>1, <1>3 DEF InspectTree, Locals, Revisions, IsRecord, Recordable
  <2> HIDE DEF c
  <2> QED
    BY <1>3, <2>1, StepTypes DEF InspectTree, counters, history, environment
<1>4. CASE InspectStore(p)
  <2>1. CASE IsFresh(p) /\ Goto(p, IF call[p].op = "lookup" THEN "search" ELSE "revision") /\ UNCHANGED <<call, quiet>>
    <3>1. call' = [call EXCEPT ![p] = call[p]]
      BY <2>1
    <3> QED
      BY <1>1, <1>4, <2>1, <3>1, StepTypes DEF InspectStore, counters, history, environment, IsRecord, Recordable
  <2>2. CASE /\ Unanchored(p) /\ call' = [call EXCEPT ![p].version = NoRevision]
             /\ Goto(p, "branch") /\ UNCHANGED quiet
    <3> DEFINE c == [call[p] EXCEPT !.version = NoRevision]
    <3>1. /\ c \in Locals /\ c.size \in Sizes /\ ~ c.anchored /\ call' = [call EXCEPT ![p] = c]
      BY <1>1, <2>2 DEF Locals, IsRecord, Recordable, Unanchored
    <3> HIDE DEF c
    <3> QED
      BY <1>4, <2>2, <3>1, StepTypes DEF InspectStore, counters, history, environment
  <2>3. CASE Return(p, NoAnswer)
    BY <1>4, <2>3, ReturnTypes DEF InspectStore, counters
  <2> QED
    BY <1>4, <2>1, <2>2, <2>3 DEF InspectStore
<1>5. CASE SearchSymbols(p)
  <2>1. CASE call' = [call EXCEPT ![p].matches = index.rows] /\ Goto(p, "revision") /\ UNCHANGED quiet
    <3> DEFINE c == [call[p] EXCEPT !.matches = index.rows]
    <3>1. c \in Locals /\ (c.op = "record" => c.size \in Sizes) /\ call' = [call EXCEPT ![p] = c]
      BY <1>1, <2>1 DEF Locals, IsRecord, Recordable, Index
    <3> HIDE DEF c
    <3> QED
      BY <1>5, <2>1, <3>1, StepTypes DEF SearchSymbols, counters, history, environment
  <2>2. CASE Return(p, NoAnswer)
    BY <1>5, <2>2, ReturnTypes DEF SearchSymbols, counters
  <2> QED
    BY <1>5, <2>1, <2>2 DEF SearchSymbols
<1>6. CASE IndexRevision(p)
  <2>1. CASE call[p].op = "lookup"
    BY <1>6, <2>1, ReturnTypes DEF IndexRevision, counters
  <2>2. CASE call[p].op # "lookup"
    <3> DEFINE c == [call[p] EXCEPT !.version = index.states]
    <3>1. /\ c \in Locals /\ (c.op = "record" => c.size \in Sizes) /\ c.version # NoRevision
          /\ call' = [call EXCEPT ![p] = c]
      BY <1>1, <1>6, <2>2 DEF IndexRevision, Locals, IsRecord, Recordable, Index
    <3> HIDE DEF c
    <3> QED
      BY <1>6, <2>2, <3>1, StepTypes DEF IndexRevision, counters, history, environment
  <2> QED
    BY <2>1, <2>2
<1>7. CASE CurrentBranch(p)
  <2> DEFINE c == [call[p] EXCEPT !.branch = branch, !.id = IF @ = 0 THEN stamps' ELSE @]
  <2>1. stamps' \in Nat
    BY <1>7 DEF CurrentBranch
  <2>2. /\ c \in Locals /\ call' = [call EXCEPT ![p] = c] /\ c.op = call[p].op
        /\ c.size = call[p].size /\ c.anchored = call[p].anchored /\ c.version = call[p].version
    BY <1>1, <1>7, <2>1 DEF CurrentBranch, Locals
  <2>3. c.op = "record" => /\ c.size \in Sizes
                           /\ c.anchored => c.version # NoRevision
    BY <1>1, <1>7, <2>2 DEF CurrentBranch, IsRecord, Recordable
  <2> HIDE DEF c
  <2> QED
    BY <1>7, <2>1, <2>2, <2>3, StepTypes DEF CurrentBranch, history, environment
<1> QED
  BY <1>3, <1>4, <1>5, <1>6, <1>7

\* The record a capture inserts.
NewRecord(p) ==
    [id |-> call[p].id, kind |-> call[p].kind, branch |-> call[p].branch, revision |-> call[p].version,
     anchored |-> call[p].anchored, size |-> call[p].size, state |-> "active"]

LEMMA NewRecordTyped ==
    ASSUME TypeInv, NEW p \in Procs, CaptureRecord(p)
    PROVE  NewRecord(p) \in Record
<1>1. /\ call[p] \in Locals /\ call[p].size \in Sizes
      /\ call[p].anchored => call[p].version # NoRevision
  BY DEF TypeInv, CallsTyped, IsRecord, Recordable, CaptureRecord
<1> QED
  BY <1>1 DEF NewRecord, Record, Locals

LEMMA LedgerTypes ==
    ASSUME TypeInv, NEW p \in Procs,
           CaptureRecord(p) \/ InvalidateRecord(p) \/ DeleteRecord(p) \/ RenderPrimer(p) \/ HookTimeout(p)
    PROVE  TypeInv'
<1> USE DEF TypeInv, TypeOK
<1>1. CASE CaptureRecord(p)
  <2>1. NewRecord(p) \in Record
    BY <1>1, NewRecordTyped
  <2>2. ledger' = Captured(NewRecord(p), ledger)
    BY <1>1 DEF CaptureRecord, NewRecord
  <2>3. ledger' \subseteq Record
    BY <2>1, <2>2, CapturedRows
  <2>4. lastTask' \in [Scopes -> Nat]
    BY <1>1, <2>1 DEF CaptureRecord, NewRecord, Record
  <2> QED
    BY <1>1, <2>3, <2>4, ReturnTypes DEF CaptureRecord, counters
<1>2. CASE InvalidateRecord(p)
  <2> DEFINE hit == {r \in Active(InScope(ledger, call[p].branch)) : r.id = call[p].id}
  <2>1. hit \subseteq ledger
    BY DEF Active, InScope
  <2>2. ledger' = (ledger \ hit) \cup WithState(hit, "invalidated")
    BY <1>2 DEF InvalidateRecord
  <2>3. ledger' \subseteq Record
    BY <2>1, <2>2, InvalidatedRows
  <2> QED
    BY <1>2, <2>3, ReturnTypes DEF InvalidateRecord, counters
<1>3. CASE DeleteRecord(p)
  BY <1>3, ReturnTypes DEF DeleteRecord, counters
<1>4. CASE RenderPrimer(p)
  BY <1>4, ReturnTypes DEF RenderPrimer, counters
<1>5. CASE HookTimeout(p)
  BY <1>5, ReturnTypes DEF HookTimeout, counters
<1> QED
  BY <1>1, <1>2, <1>3, <1>4, <1>5

LEMMA RefreshTypes ==
    ASSUME TypeInv, TreeMoves \/ RefreshStart \/ PutIndex \/ Delta \/ ResetProject
    PROVE  index' \in Index /\ refresh' \in Refresh
<1>1. index \in Index /\ refresh \in Refresh /\ tree \in Revisions
  BY DEF TypeInv, TypeOK, Revisions
<1>2. CASE TreeMoves
  BY <1>1, <1>2 DEF TreeMoves, Overtaken, Refresh, Revisions
<1>3. CASE RefreshStart
  BY <1>1, <1>3 DEF RefreshStart, Refresh, Revisions
<1>4. CASE PutIndex
  BY <1>1, <1>4 DEF PutIndex, Refreshes, IndexOf, NoRefresh, Index, Refresh, Revisions
<1>5. CASE Delta
  <2> USE <1>1 DEF Patch, Refreshes, Index, Refresh, Revisions
  <2>1. CASE DeleteRows
    BY <2>1 DEF DeleteRows
  <2>2. CASE DeleteStates
    BY <2>2 DEF DeleteStates
  <2>3. CASE WriteStates
    BY <2>3 DEF WriteStates
  <2>4. CASE SwapRows
    BY <2>4 DEF SwapRows
  <2>5. CASE SetCommit
    BY <2>5 DEF SetCommit
  <2>6. CASE Sign
    BY <2>6 DEF Sign, NoRefresh
  <2> QED
    BY <1>5, <2>1, <2>2, <2>3, <2>4, <2>5, <2>6 DEF Delta
<1>6. CASE ResetProject
  BY <1>1, <1>6 DEF ResetProject, Absent, IndexOf, NoRefresh, Index, Refresh, Revisions
<1> QED
  BY <1>2, <1>3, <1>4, <1>5, <1>6

\* What the steps of a refresh leave alone.
LEMMA DeltaFrame ==
    ASSUME PutIndex \/ Delta
    PROVE  /\ UNCHANGED <<tree, branch, moves, refreshes, ledger, pc, call, counters, lastTask>>
           /\ quiet' = [p \in Procs |-> FALSE] /\ answer' = NoAnswer
  BY DEF PutIndex, Delta, DeleteRows, DeleteStates, WriteStates, SwapRows, SetCommit, Sign, Patch,
         Refreshes, Disturb

LEMMA WorldTypes ==
    ASSUME TypeInv, TreeMoves \/ RefreshStart \/ PutIndex \/ Delta \/ ResetProject
    PROVE  TypeInv'
<1>1. index' \in Index /\ refresh' \in Refresh
  BY RefreshTypes
<1>2. /\ UNCHANGED <<pc, call, stamps, lastTask>>
      /\ tree' \in Versions /\ branch' \in Scopes /\ ledger' \subseteq Record
      /\ quiet' \in [Procs -> BOOLEAN]
  BY DeltaFrame DEF TypeInv, TypeOK, CallsTyped, TreeMoves, RefreshStart, ResetProject, Disturb,
                    Removed, counters, history
<1> QED
  BY <1>1, <1>2 DEF TypeInv, TypeOK, CallsTyped, IsRecord, Recordable

LEMMA StutterTypes == TypeInv /\ UNCHANGED vars => TypeInv'
  BY DEF TypeInv, TypeOK, CallsTyped, IsRecord, Recordable, vars, environment, counters, history

LEMMA NextTypes == TypeInv /\ [Next]_vars => TypeInv'
  BY BeginningTypes, ReadingTypes, LedgerTypes, WorldTypes, StutterTypes DEF Next, SessionCall, Hook

\* Every value stays in its type: in particular a record with an anchor has a
\* revision, whatever is refreshed or reset while it is captured.
THEOREM TypeCorrect == Spec => []TypeOK
<1>1. Spec => []TypeInv
  BY InitTypes, NextTypes, PTL DEF Spec
<1> QED
  BY <1>1, PTL DEF TypeInv

---------------------------------------------------------------------------
(* One active task.                                                        *)

LEMMA InitTasks == Init => TaskInv
  BY DEF Init, TaskInv, Stamped, OneActiveTask, LastTaskStands, Active, IsRecord, Idle

\* A step that writes neither the ledger nor a record's id.
LEMMA OtherTasks ==
    ASSUME TypeInv, TaskInv, NEW p \in Procs, UNCHANGED <<ledger, stamps, lastTask>>,
           \A q \in Procs : q # p => call'[q] = call[q] /\ pc'[q] = pc[q],
           call'[p].op = "record" =>
              \/ call'[p].id = 0 /\ pc'[p] # "ledger"
              \/ IsRecord(p) /\ call'[p].id = call[p].id /\ pc'[p] # "ledger" /\ pc[p] # "ledger"
    PROVE  TaskInv'
<1>1. \A q \in Procs : IsRecord(q)' /\ pc'[q] = "ledger" => IsRecord(q) /\ pc[q] = "ledger" /\ call'[q].id = call[q].id
  BY DEF IsRecord
<1>2. \A q \in Procs : IsRecord(q)' /\ pc'[q] # "ledger" => call'[q].id = 0
  BY DEF TaskInv, Stamped, IsRecord
<1>3. Stamped'
  BY <1>1, <1>2 DEF TaskInv, Stamped
<1> QED
  BY <1>3 DEF TaskInv, OneActiveTask, LastTaskStands, Active

LEMMA CurrentBranchTasks ==
    ASSUME TypeInv, TaskInv, NEW p \in Procs, CurrentBranch(p)
    PROVE  TaskInv'
<1> USE DEF TypeInv, TypeOK, CallsTyped
<1>1. /\ ledger' = ledger /\ lastTask' = lastTask /\ stamps \in Nat /\ stamps' >= stamps /\ stamps' \in Nat
      /\ IsRecord(p) => stamps' = stamps + 1
  BY DEF CurrentBranch, history, environment, IsRecord
<1> DEFINE c == [call[p] EXCEPT !.branch = branch, !.id = IF @ = 0 THEN stamps' ELSE @]
<1>c. /\ call[p] \in Locals /\ call' = [call EXCEPT ![p] = c] /\ c.op = call[p].op
      /\ call[p].id = 0 => c.id = stamps'
  BY DEF CurrentBranch, Locals
<1> HIDE DEF c
<1>2. /\ \A q \in Procs : q # p => call'[q] = call[q] /\ pc'[q] = pc[q]
      /\ call'[p] = c /\ pc'[p] = "ledger" /\ pc[p] = "branch"
  BY <1>c DEF CurrentBranch, Goto
<1>3. pc'[p] = "ledger" /\ call'[p].op = call[p].op /\ (IsRecord(p) => call'[p].id = stamps')
  BY <1>c, <1>2 DEF IsRecord, TaskInv, Stamped
<1>4. /\ \A r \in ledger : r.id \in Nat /\ r.id <= stamps
      /\ \A q \in Procs : call[q].id \in Nat
  BY DEF TaskInv, Stamped, Record, Locals
<1>5. \A q \in Procs : q # p /\ IsRecord(q) /\ pc[q] = "ledger" => call[q].id <= stamps
  BY DEF TaskInv, Stamped
<1>6. Stamped'
  <2>1. \A r \in ledger' : r.id <= stamps'
    BY <1>1, <1>4
  <2>2. \A q \in Procs : IsRecord(q)' =>
          IF pc'[q] = "ledger" THEN call'[q].id <= stamps' /\ \A r \in ledger' : r.id # call'[q].id
          ELSE call'[q].id = 0
    <3> TAKE q \in Procs
    <3>1. CASE q = p
      BY <1>1, <1>2, <1>3, <1>4, <3>1 DEF IsRecord
    <3>2. CASE q # p
      BY <1>1, <1>2, <1>4, <1>5, <3>2 DEF TaskInv, Stamped, IsRecord
    <3> QED
      BY <3>1, <3>2
  <2>3. \A q1, q2 \in Procs :
          q1 # q2 /\ IsRecord(q1)' /\ IsRecord(q2)' /\ pc'[q1] = "ledger" /\ pc'[q2] = "ledger"
              => call'[q1].id # call'[q2].id
    <3> TAKE q1, q2 \in Procs
    <3>1. CASE q1 = p \/ q2 = p
      BY <1>1, <1>2, <1>3, <1>4, <1>5, <3>1 DEF IsRecord
    <3>2. CASE q1 # p /\ q2 # p
      BY <1>2, <3>2 DEF TaskInv, Stamped, IsRecord
    <3> QED
      BY <3>1, <3>2
  <2> QED
    BY <2>1, <2>2, <2>3 DEF Stamped
<1> QED
  BY <1>1, <1>6 DEF TaskInv, OneActiveTask, LastTaskStands, Active

\* A transaction of p that keeps ids, and adds at most p's own.
LEMMA LedgerStamps ==
    ASSUME TypeInv, TaskInv, NEW p \in Procs, NEW a, Return(p, a), UNCHANGED stamps,
           \A x \in ledger' : (\E r \in ledger : r.id = x.id) \/ (IsRecord(p) /\ pc[p] = "ledger" /\ x.id = call[p].id)
    PROVE  Stamped'
<1> USE DEF TypeInv, TypeOK, CallsTyped
<1>1. ~ IsRecord(p)' /\ \A q \in Procs : q # p => call'[q] = call[q] /\ pc'[q] = pc[q]
  BY DEF Return, IsRecord, Idle
<1>2. \A q \in Procs : IsRecord(q)' => q # p /\ IsRecord(q)
  BY <1>1 DEF IsRecord
<1>3. \A x \in ledger' : x.id <= stamps
  BY DEF TaskInv, Stamped
<1>4. \A q \in Procs : IsRecord(q) /\ pc[q] = "ledger" /\ q # p => \A x \in ledger' : x.id # call[q].id
  BY DEF TaskInv, Stamped
<1> QED
  BY <1>1, <1>2, <1>3, <1>4 DEF TaskInv, Stamped

LEMMA CaptureTasks ==
    ASSUME TypeInv, TaskInv, NEW p \in Procs, CaptureRecord(p)
    PROVE  TaskInv'
<1> DEFINE r == NewRecord(p)
<1>1. r \in Record /\ ledger \in SUBSET Record
  BY NewRecordTyped DEF TypeInv, TypeOK
<1>2. /\ ledger' = Captured(r, ledger) /\ IsRecord(p) /\ pc[p] = "ledger" /\ UNCHANGED stamps
      /\ lastTask' = IF r.kind = "active_task" THEN [lastTask EXCEPT ![r.branch] = r.id] ELSE lastTask
      /\ r.id = call[p].id /\ r.state = "active"
  BY DEF CaptureRecord, NewRecord, IsRecord, counters
<1>3. \A x \in ledger : x.id # r.id
  BY <1>2 DEF TaskInv, Stamped
<1> HIDE DEF r
<1>4. /\ \A x \in ledger' : x \in ledger \/ x = r \/
            /\ x.state = "superseded" /\ r.kind = "active_task"
            /\ \E o \in ledger : o.id = x.id /\ o.branch = r.branch /\ x.branch = r.branch
      /\ \A x \in ledger' : x.state = "active" /\ x.kind = "active_task" /\ x # r =>
            x \in ledger /\ (r.kind = "active_task" => x.branch # r.branch)
  BY <1>1, <1>2, CapturedRows
<1>5. Stamped'
  <2>1. \A x \in ledger' : (\E o \in ledger : o.id = x.id) \/ x.id = call[p].id
    BY <1>2, <1>4
  <2> QED
    BY <1>2, <2>1, LedgerStamps DEF CaptureRecord
<1>6. OneActiveTask'
  BY <1>4 DEF OneActiveTask, Active, TaskInv
<1>7. LastTaskStands'
  <2> SUFFICES ASSUME NEW x \in ledger', x.id = lastTask'[x.branch] PROVE x.state # "superseded"
    BY DEF LastTaskStands
  <2>1. CASE x = r
    BY <1>2, <2>1
  <2>2. CASE r.kind = "active_task" /\ x.branch = r.branch /\ x # r
    <3>1. lastTask'[x.branch] = r.id
      BY <1>1, <1>2, <2>2 DEF TypeInv, TypeOK, Record
    <3> QED
      BY <1>3, <1>4, <2>2, <3>1
  <2>3. CASE x # r /\ ~ (r.kind = "active_task" /\ x.branch = r.branch)
    <3>1. x \in ledger
      BY <1>4, <2>3
    <3>2. lastTask'[x.branch] = lastTask[x.branch]
      BY <1>1, <1>2, <2>3, <3>1 DEF TypeInv, TypeOK, Record
    <3> QED
      BY <3>1, <3>2 DEF TaskInv, LastTaskStands
  <2> QED
    BY <2>1, <2>2, <2>3
<1> QED
  BY <1>5, <1>6, <1>7 DEF TaskInv

\* A transaction that only takes records away or invalidates them.
LEMMA RemovalTasks ==
    ASSUME TypeInv, TaskInv, NEW p \in Procs, InvalidateRecord(p) \/ DeleteRecord(p)
    PROVE  TaskInv'
<1>1. /\ UNCHANGED <<stamps, lastTask>> /\ Return(p, NoAnswer)
      /\ \A x \in ledger' : x \in ledger \/ (x.state = "invalidated" /\ \E o \in ledger : o.id = x.id)
  <2>1. CASE InvalidateRecord(p)
    <3> DEFINE hit == {r \in Active(InScope(ledger, call[p].branch)) : r.id = call[p].id}
    <3>1. hit \subseteq ledger /\ ledger \in SUBSET Record
      BY DEF Active, InScope, TypeInv, TypeOK
    <3>2. ledger' = (ledger \ hit) \cup WithState(hit, "invalidated")
      BY <2>1 DEF InvalidateRecord
    <3> HIDE DEF hit
    <3>3. \A x \in ledger' : x \in ledger \/ (x.state = "invalidated" /\ \E o \in ledger : o.id = x.id)
      BY <3>1, <3>2, InvalidatedRows
    <3> QED
      BY <2>1, <3>3 DEF InvalidateRecord, counters
  <2>2. CASE DeleteRecord(p)
    BY <2>2 DEF DeleteRecord, counters
  <2> QED
    BY <2>1, <2>2
<1>2. Stamped'
  BY <1>1, LedgerStamps
<1>3. OneActiveTask' /\ LastTaskStands'
  BY <1>1 DEF TaskInv, OneActiveTask, LastTaskStands, Active
<1> QED
  BY <1>2, <1>3 DEF TaskInv

LEMMA ResetTasks == TypeInv /\ TaskInv /\ ResetProject => TaskInv'
<1> SUFFICES ASSUME TypeInv, TaskInv, ResetProject PROVE TaskInv'
  OBVIOUS
<1>1. ledger' = {} /\ UNCHANGED <<stamps, call, pc>>
  BY DEF ResetProject, Removed, counters
<1> QED
  BY <1>1 DEF TaskInv, Stamped, OneActiveTask, LastTaskStands, Active, IsRecord

LEMMA UnchangedTasks ==
    TaskInv /\ UNCHANGED <<ledger, stamps, lastTask, call, pc>> => TaskInv'
  BY DEF TaskInv, Stamped, OneActiveTask, LastTaskStands, Active, IsRecord

LEMMA NextTasks == TypeInv /\ TaskInv /\ [Next]_vars => TaskInv'
<1> SUFFICES ASSUME TypeInv, TaskInv, [Next]_vars PROVE TaskInv'
  OBVIOUS
<1> USE DEF TypeInv, TypeOK, CallsTyped
<1>1. CASE TreeMoves \/ RefreshStart \/ PutIndex \/ Delta \/ UNCHANGED vars
  BY <1>1, UnchangedTasks, DeltaFrame DEF TreeMoves, RefreshStart, vars, counters, history, environment
<1>2. CASE ResetProject
  BY <1>2, ResetTasks
<1>3. ASSUME NEW p \in Procs, SessionCall(p) \/ Hook(p)
      PROVE  TaskInv'
  <2>1. CASE Capture(p) \/ Invalidate(p) \/ Delete(p) \/ Prime(p) \/ SessionStart(p) \/ PreToolUse(p)
    <3>1. /\ UNCHANGED <<ledger, stamps, lastTask>>
          /\ \A q \in Procs : q # p => call'[q] = call[q] /\ pc'[q] = pc[q]
          /\ call'[p].op = "record" => call'[p].id = 0 /\ pc'[p] # "ledger"
      <4>1. ASSUME NEW c, NEW label, Begin(p, c, label)
            PROVE  /\ UNCHANGED <<ledger, stamps, lastTask>>
                   /\ \A q \in Procs : q # p => call'[q] = call[q] /\ pc'[q] = pc[q]
                   /\ call'[p] = c /\ pc'[p] = label
        BY <4>1 DEF Begin, Goto
      <4>2. CASE Capture(p)
        <5>1. PICK k \in Kinds, anchored \in BOOLEAN, n \in Sizes :
                 Begin(p, [Idle EXCEPT !.op = "record", !.kind = k, !.anchored = anchored, !.size = n], "tree")
          BY <4>2 DEF Capture
        <5> DEFINE c == [Idle EXCEPT !.op = "record", !.kind = k, !.anchored = anchored, !.size = n]
        <5>2. c.id = 0 /\ Begin(p, c, "tree")
          BY <5>1 DEF Idle
        <5> HIDE DEF c
        <5> QED
          BY <4>1, <5>2
      <4>3. CASE Invalidate(p) \/ Delete(p)
        <5>1. PICK op \in {"invalidate", "delete"}, r \in ledger :
                 Begin(p, [Idle EXCEPT !.op = op, !.id = r.id], "branch")
          BY <4>3 DEF Invalidate, Delete
        <5>2. [Idle EXCEPT !.op = op, !.id = r.id].op = op
          BY DEF Idle
        <5> QED
          BY <4>1, <5>1, <5>2
      <4>4. CASE Prime(p) \/ SessionStart(p) \/ PreToolUse(p)
        <5>1. PICK op \in {"prime", "session_start", "lookup"} : Begin(p, [Idle EXCEPT !.op = op], "tree")
          BY <4>4 DEF Prime, SessionStart, PreToolUse
        <5>2. [Idle EXCEPT !.op = op].op = op
          BY DEF Idle
        <5> QED
          BY <4>1, <5>1, <5>2
      <4> QED
        BY <2>1, <4>2, <4>3, <4>4
    <3> QED
      BY <3>1, OtherTasks
  <2>2. CASE InspectTree(p) \/ InspectStore(p) \/ SearchSymbols(p) \/ IndexRevision(p) \/ RenderPrimer(p) \/ HookTimeout(p)
    <3>1. /\ UNCHANGED <<ledger, stamps, lastTask>>
          /\ \A q \in Procs : q # p => call'[q] = call[q] /\ pc'[q] = pc[q]
      BY <2>2 DEF InspectTree, InspectStore, SearchSymbols, IndexRevision, RenderPrimer, HookTimeout,
                  Return, Goto, counters, history, environment
    <3>2. call'[p].op = "record" => /\ IsRecord(p) /\ call'[p].id = call[p].id
                                    /\ pc'[p] # "ledger" /\ pc[p] # "ledger"
      BY <2>2 DEF InspectTree, InspectStore, SearchSymbols, IndexRevision, RenderPrimer, HookTimeout,
                  Return, Goto, Idle, IsRecord, Locals
    <3> QED
      BY <3>1, <3>2, OtherTasks
  <2> QED
    BY <1>3, <2>1, <2>2, CurrentBranchTasks, CaptureTasks, RemovalTasks DEF SessionCall, Hook
<1> QED
  BY <1>1, <1>2, <1>3 DEF Next

\* However the captures of any number of processes interleave with each other,
\* with invalidations, deletions and resets: no branch has two active tasks
\* (session/store.py capture).
THEOREM TasksAreUnique == Spec => []OneActiveTask
<1>1. Spec => [](TypeInv /\ TaskInv)
  BY InitTypes, NextTypes, InitTasks, NextTasks, PTL DEF Spec
<1> QED
  BY <1>1, PTL DEF TaskInv

\* Nothing but a later task of its branch supersedes a task, although the ids
\* are drawn before the ledger is locked (session/store.py capture).
THEOREM TasksStand == Spec => []LastTaskStands
<1>1. Spec => [](TypeInv /\ TaskInv)
  BY InitTypes, NextTypes, InitTasks, NextTasks, PTL DEF Spec
<1> QED
  BY <1>1, PTL DEF TaskInv

---------------------------------------------------------------------------
(* The index.                                                              *)

LEMMA InitIndex == Init => IndexInv
  BY SessionAssumption DEF Init, IndexInv, RefreshSoFar, Whole, Settled, IsOf, NoRefresh, Absent,
                           IndexOf

LEMMA DeltaIndex ==
    ASSUME TypeInv, IndexInv, Delta
    PROVE  IndexInv'
<1> USE DEF IndexInv, RefreshSoFar, Whole, Settled, IsOf, Patch, Refreshes, Index, Refresh
<1>1. index \in Index /\ refresh \in Refresh
  BY DEF TypeInv, TypeOK
<1>2. CASE DeleteRows
  BY <1>1, <1>2 DEF DeleteRows
<1>3. CASE DeleteStates
  BY <1>1, <1>3 DEF DeleteStates
<1>4. CASE WriteStates
  BY <1>1, <1>4 DEF WriteStates
<1>5. CASE SwapRows
  BY <1>1, <1>5 DEF SwapRows
<1>6. CASE SetCommit
  BY <1>1, <1>6 DEF SetCommit
<1>7. CASE Sign
  BY <1>1, <1>7 DEF Sign, NoRefresh
<1> QED
  BY <1>2, <1>3, <1>4, <1>5, <1>6, <1>7 DEF Delta

\* The other steps that write the index or begin or end a refresh.
LEMMA OtherIndex ==
    ASSUME TypeInv, IndexInv, TreeMoves \/ RefreshStart \/ PutIndex \/ ResetProject
    PROVE  IndexInv'
<1> USE DEF IndexInv, RefreshSoFar, Whole, Settled, IsOf
<1>1. index \in Index /\ refresh \in Refresh /\ tree \in Versions
  BY DEF TypeInv, TypeOK
<1>2. CASE TreeMoves
  <2>1. index' = index /\ (refresh' = refresh \/ refresh' = [refresh EXCEPT !.files = Torn])
    BY <1>2 DEF TreeMoves, Overtaken
  <2>2. refresh' # refresh => refresh.at \in {"full", "delete", "forget", "states"}
    BY <1>2 DEF TreeMoves, Overtaken
  <2>3. CASE refresh' = refresh
    BY <2>1, <2>3
  <2>4. CASE refresh' # refresh
    <3>1. /\ refresh'.at = refresh.at /\ refresh'.version = refresh.version
          /\ refresh'.wrote = refresh.wrote /\ refresh'.files = Torn
      BY <1>1, <2>1, <2>4 DEF Refresh
    <3> QED
      BY <2>1, <2>2, <2>4, <3>1
  <2> QED
    BY <2>3, <2>4
<1>3. CASE RefreshStart
  BY <1>1, <1>3 DEF RefreshStart
<1>4. CASE PutIndex
  BY <1>1, <1>4 DEF PutIndex, Refreshes, IndexOf, NoRefresh
<1>5. CASE ResetProject
  BY <1>1, <1>5 DEF ResetProject, Absent, IndexOf, NoRefresh
<1> QED
  BY <1>2, <1>3, <1>4, <1>5

\* Calls only read the index.
LEMMA CallFrame ==
    ASSUME NEW p \in Procs, SessionCall(p) \/ Hook(p)
    PROVE  UNCHANGED environment
  BY DEF SessionCall, Hook, Capture, Invalidate, Delete, Prime, SessionStart, PreToolUse, Begin,
         InspectTree, InspectStore, IndexRevision, CurrentBranch, CaptureRecord, InvalidateRecord,
         DeleteRecord, RenderPrimer, SearchSymbols, HookTimeout

LEMMA NextIndex == TypeInv /\ IndexInv /\ [Next]_vars => IndexInv'
<1> SUFFICES ASSUME TypeInv, IndexInv, [Next]_vars PROVE IndexInv'
  OBVIOUS
<1>1. ASSUME UNCHANGED <<index, refresh>> PROVE IndexInv'
  BY <1>1 DEF IndexInv, RefreshSoFar, Whole, Settled, IsOf
<1> QED
  BY <1>1, DeltaIndex, OtherIndex, CallFrame DEF Next, vars, environment

\* Status calls a settled index fresh only if it is of the tree.
LEMMA FreshIsCurrent ==
    ASSUME TypeInv, IndexInv, Settled, FreshFor(tree)
    PROVE  index.states = tree /\ index.rows = tree
<1>1. PICK v \in Versions \cup {NoIndex} : IsOf(v)
  BY DEF IndexInv, Whole
<1>2. v # NoIndex
  BY <1>1 DEF FreshFor, Absent, IndexOf, IsOf, TypeInv, TypeOK, Index
<1>3. v = tree
  BY <1>1, <1>2, SessionAssumption DEF FreshFor, IsOf, TypeInv, TypeOK
<1> QED
  BY <1>1, <1>3 DEF IsOf

---------------------------------------------------------------------------
(* Calls during which nothing moves.                                       *)

LEMMA InitQuiet == Init => QuietInv
  BY DEF Init, QuietInv, QuietAnswerIsOfTheTree, NoAnswer

\* A step of p that answers nothing and moves nothing: the other calls stay as they are.
LEMMA OtherQuiet ==
    ASSUME QuietInv, NEW p \in Procs, UNCHANGED <<tree, branch, index, refresh.wrote>>,
           \A q \in Procs : q # p => call'[q] = call[q] /\ pc'[q] = pc[q] /\ quiet'[q] = quiet[q],
           quiet'[p] => Undisturbed(p)', QuietAnswerIsOfTheTree'
    PROVE  QuietInv'
<1>1. ASSUME NEW q \in Procs, quiet'[q] PROVE Undisturbed(q)'
  <2>1. CASE q = p
    BY <1>1, <2>1
  <2>2. CASE q # p
    BY <1>1, <2>2 DEF QuietInv, Undisturbed, Settled, IsRecord
  <2> QED
    BY <2>1, <2>2
<1> QED
  BY <1>1 DEF QuietInv

LEMMA BeginQuiet ==
    ASSUME TypeInv, QuietInv, NEW p \in Procs, NEW c, NEW label, Begin(p, c, label),
           \/ label = "tree"
           \/ label = "branch" /\ c.op \in {"invalidate", "delete"}
    PROVE  QuietInv'
<1> USE DEF TypeInv, TypeOK, CallsTyped
<1>1. /\ UNCHANGED <<tree, branch, index, refresh.wrote>> /\ answer' = NoAnswer
      /\ \A q \in Procs : q # p => call'[q] = call[q] /\ pc'[q] = pc[q] /\ quiet'[q] = quiet[q]
      /\ call'[p] = c /\ pc'[p] = label
  BY DEF Begin, Goto, environment
<1>2. Undisturbed(p)'
  BY <1>1 DEF Undisturbed, IsRecord
<1>3. QuietAnswerIsOfTheTree'
  BY <1>1 DEF QuietAnswerIsOfTheTree, NoAnswer
<1> QED
  BY <1>1, <1>2, <1>3, OtherQuiet

LEMMA ReturnQuiet ==
    ASSUME TypeInv, QuietInv, NEW p \in Procs, NEW a, Return(p, a), UNCHANGED <<tree, branch, index, refresh.wrote>>,
           QuietAnswerIsOfTheTree'
    PROVE  QuietInv'
<1> USE DEF TypeInv, TypeOK, CallsTyped
<1>1. /\ \A q \in Procs : q # p => call'[q] = call[q] /\ pc'[q] = pc[q] /\ quiet'[q] = quiet[q]
      /\ ~ quiet'[p]
  BY DEF Return
<1> QED
  BY <1>1, OtherQuiet

LEMMA StepQuiet ==
    ASSUME TypeInv, QuietInv, NEW p \in Procs, NEW c, NEW label, Goto(p, label),
           call' = [call EXCEPT ![p] = c], UNCHANGED <<environment, quiet>>, answer' = NoAnswer,
           quiet[p] => Undisturbed(p)'
    PROVE  QuietInv'
<1> USE DEF TypeInv, TypeOK, CallsTyped
<1>1. /\ UNCHANGED <<tree, branch, index, refresh.wrote>>
      /\ \A q \in Procs : q # p => call'[q] = call[q] /\ pc'[q] = pc[q] /\ quiet'[q] = quiet[q]
      /\ quiet'[p] = quiet[p]
  BY DEF Goto, environment
<1>2. QuietAnswerIsOfTheTree'
  BY DEF QuietAnswerIsOfTheTree, NoAnswer
<1> QED
  BY <1>1, <1>2, OtherQuiet

LEMMA NoAnswerQuiet == answer' = NoAnswer => QuietAnswerIsOfTheTree'
  BY DEF QuietAnswerIsOfTheTree, NoAnswer

LEMMA ReadingQuiet ==
    ASSUME TypeInv, IndexInv, QuietInv, NEW p \in Procs,
           InspectTree(p) \/ InspectStore(p) \/ SearchSymbols(p) \/ IndexRevision(p) \/ CurrentBranch(p)
    PROVE  QuietInv'
<1> USE DEF TypeInv, TypeOK, CallsTyped
<1>1. call[p] \in Locals /\ p \in DOMAIN pc /\ p \in DOMAIN call /\ (quiet[p] => Undisturbed(p))
  BY DEF QuietInv
<1>2. CASE InspectTree(p)
  <2> DEFINE c == [call[p] EXCEPT !.version = tree]
  <2>1. call' = [call EXCEPT ![p] = c] /\ c.version = tree
    BY <1>1, <1>2 DEF InspectTree, Locals
  <2> HIDE DEF c
  <2>2. pc'[p] = "store" /\ call'[p] = c /\ tree' = tree /\ Goto(p, "store")
        /\ UNCHANGED <<environment, quiet>> /\ answer' = NoAnswer
    BY <1>1, <1>2, <2>1 DEF InspectTree, Goto, environment, history
  <2>3. Undisturbed(p)'
    BY <2>1, <2>2 DEF Undisturbed
  <2> QED
    BY <2>1, <2>2, <2>3, StepQuiet
<1>3. CASE InspectStore(p)
  <2>1. CASE IsFresh(p) /\ Goto(p, IF call[p].op = "lookup" THEN "search" ELSE "revision") /\ UNCHANGED <<call, quiet>> /\ answer' = NoAnswer
    <3> DEFINE label == IF call[p].op = "lookup" THEN "search" ELSE "revision"
    <3>1. /\ call' = [call EXCEPT ![p] = call[p]] /\ call'[p] = call[p] /\ pc'[p] = label /\ Goto(p, label)
          /\ UNCHANGED <<environment, quiet, tree, index, refresh, branch>>
      BY <1>1, <1>3, <2>1 DEF InspectStore, Goto, environment
    <3>2. quiet[p] => Undisturbed(p)'
      BY <1>1, <1>3, <2>1, <3>1, FreshIsCurrent DEF Undisturbed, InspectStore, IsFresh, Settled
    <3> HIDE DEF label
    <3> QED
      BY <2>1, <3>1, <3>2, StepQuiet
  <2>2. CASE /\ Unanchored(p) /\ call' = [call EXCEPT ![p].version = NoRevision]
             /\ Goto(p, "branch") /\ UNCHANGED quiet /\ answer' = NoAnswer
    <3> DEFINE c == [call[p] EXCEPT !.version = NoRevision]
    <3>1. call' = [call EXCEPT ![p] = c] /\ c.op = "record" /\ ~ c.anchored
      BY <1>1, <2>2 DEF Unanchored, Locals
    <3> HIDE DEF c
    <3>2. pc'[p] = "branch" /\ call'[p] = c /\ UNCHANGED environment
      BY <1>1, <1>3, <2>2, <3>1 DEF Goto, InspectStore, environment
    <3>3. Undisturbed(p)'
      BY <3>1, <3>2 DEF Undisturbed, IsRecord
    <3> QED
      BY <2>2, <3>1, <3>2, <3>3, StepQuiet
  <2>3. CASE Return(p, NoAnswer)
    BY <1>3, <2>3, ReturnQuiet, NoAnswerQuiet DEF InspectStore, Return, environment
  <2> QED
    BY <1>3, <2>1, <2>2, <2>3 DEF InspectStore
<1>4. CASE SearchSymbols(p)
  <2>1. CASE call' = [call EXCEPT ![p].matches = index.rows] /\ Goto(p, "revision") /\ UNCHANGED quiet /\ answer' = NoAnswer
    <3> DEFINE c == [call[p] EXCEPT !.matches = index.rows]
    <3>1. call' = [call EXCEPT ![p] = c] /\ c.matches = index.rows /\ c.version = call[p].version
      BY <1>1, <2>1 DEF Locals
    <3> HIDE DEF c
    <3>2. pc'[p] = "revision" /\ call'[p] = c /\ UNCHANGED <<environment, tree, index, refresh>>
      BY <1>1, <1>4, <2>1, <3>1 DEF Goto, SearchSymbols, environment
    <3>3. quiet[p] => Undisturbed(p)'
      BY <1>1, <1>4, <3>1, <3>2 DEF Undisturbed, SearchSymbols, Settled
    <3> QED
      BY <2>1, <3>1, <3>2, <3>3, StepQuiet
  <2>2. CASE Return(p, NoAnswer)
    BY <1>4, <2>2, ReturnQuiet, NoAnswerQuiet DEF SearchSymbols, Return, environment
  <2> QED
    BY <1>4, <2>1, <2>2 DEF SearchSymbols
<1>5. CASE IndexRevision(p)
  <2>1. CASE call[p].op = "lookup"
    <3>1. /\ Return(p, answer') /\ UNCHANGED <<tree, branch, index, refresh>>
          /\ answer' = [ready |-> TRUE, quiet |-> quiet[p], op |-> "lookup",
                         matches |-> call[p].matches, revision |-> index.states]
      BY <1>5, <2>1 DEF IndexRevision, Return, environment
    <3>2. quiet[p] /\ Settled => call[p].matches = tree /\ index.states = tree
      BY <1>1, <1>5, <2>1 DEF Undisturbed, IndexRevision
    <3>3. QuietAnswerIsOfTheTree'
      BY <3>1, <3>2 DEF QuietAnswerIsOfTheTree, OfTheTree, Settled
    <3> QED
      BY <3>1, <3>3, ReturnQuiet
  <2>2. CASE call[p].op # "lookup"
    <3> DEFINE c == [call[p] EXCEPT !.version = index.states]
    <3>1. call' = [call EXCEPT ![p] = c] /\ c.version = index.states
      BY <1>1, <1>5, <2>2 DEF IndexRevision, Locals
    <3> HIDE DEF c
    <3>2. /\ pc'[p] = "branch" /\ call'[p] = c /\ UNCHANGED <<environment, tree, index, refresh, quiet>>
          /\ Goto(p, "branch") /\ answer' = NoAnswer
      BY <1>1, <1>5, <2>2, <3>1 DEF Goto, IndexRevision, environment
    <3>3. quiet[p] => Undisturbed(p)'
      BY <1>1, <1>5, <3>1, <3>2 DEF Undisturbed, IndexRevision, Settled
    <3> QED
      BY <3>1, <3>2, <3>3, StepQuiet
  <2> QED
    BY <2>1, <2>2
<1>6. CASE CurrentBranch(p)
  <2> DEFINE c == [call[p] EXCEPT !.branch = branch, !.id = IF @ = 0 THEN stamps' ELSE @]
  <2>1. /\ call' = [call EXCEPT ![p] = c] /\ c.branch = branch /\ c.version = call[p].version
        /\ c.op = call[p].op /\ c.anchored = call[p].anchored
    BY <1>1, <1>6 DEF CurrentBranch, Locals
  <2> HIDE DEF c
  <2>2. /\ pc'[p] = "ledger" /\ call'[p] = c /\ UNCHANGED <<environment, tree, branch, index, refresh, quiet>>
        /\ Goto(p, "ledger") /\ answer' = NoAnswer
    BY <1>1, <1>6, <2>1 DEF Goto, CurrentBranch, environment, history
  <2>3. quiet[p] => Undisturbed(p)'
    BY <1>1, <1>6, <2>1, <2>2 DEF Undisturbed, CurrentBranch, IsRecord, Settled
  <2> QED
    BY <2>1, <2>2, <2>3, StepQuiet
<1> QED
  BY <1>2, <1>3, <1>4, <1>5, <1>6

LEMMA LedgerQuiet ==
    ASSUME TypeInv, QuietInv, NEW p \in Procs,
           CaptureRecord(p) \/ InvalidateRecord(p) \/ DeleteRecord(p) \/ RenderPrimer(p) \/ HookTimeout(p)
    PROVE  QuietInv'
<1>1. quiet[p] => Undisturbed(p)
  BY DEF QuietInv
<1>2. CASE InvalidateRecord(p) \/ DeleteRecord(p) \/ HookTimeout(p)
  BY <1>2, ReturnQuiet, NoAnswerQuiet DEF InvalidateRecord, DeleteRecord, HookTimeout, Return, environment
<1>3. CASE CaptureRecord(p)
  <2>1. /\ answer' = [ready |-> TRUE, quiet |-> quiet[p], op |-> "record", record |-> NewRecord(p)]
        /\ Return(p, answer') /\ UNCHANGED <<tree, branch, index, refresh>>
    BY <1>3 DEF CaptureRecord, Return, environment, NewRecord
  <2>2. quiet[p] /\ Settled =>
                    /\ NewRecord(p).branch = branch
                    /\ NewRecord(p).anchored => NewRecord(p).revision = tree
    BY <1>1, <1>3 DEF Undisturbed, CaptureRecord, IsRecord, NewRecord
  <2>3. QuietAnswerIsOfTheTree'
    BY <2>1, <2>2 DEF QuietAnswerIsOfTheTree, OfTheTree, Settled
  <2> QED
    BY <2>1, <2>3, ReturnQuiet
<1>4. CASE RenderPrimer(p)
  <2>1. PICK shown :
          answer' = [ready |-> TRUE, quiet |-> quiet[p], op |-> "prime", branch |-> call[p].branch,
                     revision |-> call[p].version, records |-> shown]
    BY <1>4 DEF RenderPrimer, Return
  <2>2. Return(p, answer') /\ UNCHANGED <<tree, branch, index, refresh>>
    BY <1>4 DEF RenderPrimer, Return, environment
  <2>3. quiet[p] /\ Settled => call[p].branch = branch /\ call[p].version = tree
    BY <1>1, <1>4 DEF Undisturbed, RenderPrimer
  <2>4. QuietAnswerIsOfTheTree'
    BY <2>1, <2>2, <2>3 DEF QuietAnswerIsOfTheTree, OfTheTree, Settled
  <2> QED
    BY <2>2, <2>4, ReturnQuiet
<1> QED
  BY <1>2, <1>3, <1>4

LEMMA WorldQuiet ==
    ASSUME TypeInv, IndexInv, QuietInv,
           TreeMoves \/ RefreshStart \/ PutIndex \/ Delta \/ ResetProject
    PROVE  QuietInv'
<1>1. answer' = NoAnswer
  BY DeltaFrame DEF TreeMoves, RefreshStart, ResetProject
<1>2. CASE RefreshStart
  <2>1. UNCHANGED <<tree, branch, index, pc, call, quiet>> /\ ~ refresh.wrote /\ ~ refresh'.wrote
    BY <1>2 DEF RefreshStart, history, IndexInv, RefreshSoFar
  <2> QED
    BY <1>1, <2>1, NoAnswerQuiet DEF QuietInv, Undisturbed, IsRecord, Settled
<1>3. CASE TreeMoves \/ PutIndex \/ Delta \/ ResetProject
  BY <1>1, <1>3, NoAnswerQuiet, DeltaFrame DEF QuietInv, Disturb, TreeMoves, ResetProject
<1> QED
  BY <1>2, <1>3

LEMMA NextQuiet == TypeInv /\ IndexInv /\ QuietInv /\ [Next]_vars => QuietInv'
<1> SUFFICES ASSUME TypeInv, IndexInv, QuietInv, [Next]_vars PROVE QuietInv'
  OBVIOUS
<1>1. CASE UNCHANGED vars
  BY <1>1 DEF vars, environment, counters, history, QuietInv, QuietAnswerIsOfTheTree, OfTheTree, Undisturbed, Settled, IsRecord
<1>2. ASSUME NEW p \in Procs,
             Capture(p) \/ Invalidate(p) \/ Delete(p) \/ Prime(p) \/ SessionStart(p) \/ PreToolUse(p)
      PROVE  QuietInv'
  <2>1. CASE Invalidate(p) \/ Delete(p)
    <3>1. PICK op \in {"invalidate", "delete"}, r \in ledger :
             Begin(p, [Idle EXCEPT !.op = op, !.id = r.id], "branch")
      BY <2>1 DEF Invalidate, Delete
    <3>2. [Idle EXCEPT !.op = op, !.id = r.id].op = op
      BY DEF Idle
    <3> QED
      BY <3>1, <3>2, BeginQuiet
  <2>2. CASE Capture(p) \/ Prime(p) \/ SessionStart(p) \/ PreToolUse(p)
    <3>1. \E c : Begin(p, c, "tree")
      BY <2>2 DEF Capture, Prime, SessionStart, PreToolUse
    <3> QED
      BY <3>1, BeginQuiet
  <2> QED
    BY <1>2, <2>1, <2>2
<1> QED
  BY <1>1, <1>2, ReadingQuiet, LedgerQuiet, WorldQuiet DEF Next, SessionCall, Hook

\* A record, a primer or a lookup of a call during which nothing moved is of the
\* tree and branch of its caller, although each was read apart
\* (session/service.py capture_session_record, render_session_primer; hook.py).
THEOREM QuietAnswers == Spec => []QuietAnswerIsOfTheTree
<1>1. Spec => [](TypeInv /\ IndexInv /\ QuietInv)
  BY InitTypes, NextTypes, InitIndex, NextIndex, InitQuiet, NextQuiet, PTL DEF Spec
<1> QED
  BY <1>1, PTL DEF QuietInv

---------------------------------------------------------------------------
(* Primers.                                                                *)

\* An id names one record.
Apart(records) == \A r, s \in records : r.id = s.id => r = s

PrimerInv == Apart(ledger) /\ PrimerOfOneRevision

LEMMA Restated ==
    ASSUME NEW r \in Record, NEW state
    PROVE  [r EXCEPT !.state = state].id = r.id
  BY DEF Record

\* Records that get another state stay apart.
LEMMA RestatedApart ==
    ASSUME NEW records \in SUBSET Record, Apart(records), NEW old \in SUBSET records, NEW state
    PROVE  /\ Apart((records \ old) \cup WithState(old, state))
           /\ \A x \in (records \ old) \cup WithState(old, state) : \E r \in records : r.id = x.id
<1>1. \A x \in WithState(old, state) :
         \E r \in old : x = [r EXCEPT !.state = state] /\ x.id = r.id
  <2>1. \A x \in WithState(old, state) : \E r \in old : x = [r EXCEPT !.state = state]
    BY DEF WithState
  <2>2. \A r \in old : [r EXCEPT !.state = state].id = r.id
    BY Restated
  <2> QED
    BY <2>1, <2>2, Zenon
<1>2. ASSUME NEW x \in (records \ old) \cup WithState(old, state),
             NEW y \in (records \ old) \cup WithState(old, state), x.id = y.id
      PROVE  x = y
  <2>1. CASE x \in records \ old /\ y \in records \ old
    BY <1>2, <2>1 DEF Apart
  <2>2. CASE x \in WithState(old, state) /\ y \in WithState(old, state)
    <3>1. PICK r \in old : x = [r EXCEPT !.state = state] /\ x.id = r.id
      BY <1>1, <2>2
    <3>2. PICK s \in old : y = [s EXCEPT !.state = state] /\ y.id = s.id
      BY <1>1, <2>2
    <3>3. r = s
      BY <1>2, <3>1, <3>2 DEF Apart
    <3> QED
      BY <3>1, <3>2, <3>3
  <2>3. CASE x \in records \ old /\ y \in WithState(old, state)
    BY <1>1, <1>2, <2>3 DEF Apart
  <2>4. CASE y \in records \ old /\ x \in WithState(old, state)
    BY <1>1, <1>2, <2>4 DEF Apart
  <2> QED
    BY <2>1, <2>2, <2>3, <2>4
<1> QED
  BY <1>1, <1>2 DEF Apart

LEMMA RowsStayApart ==
    ASSUME TypeInv, TaskInv, Apart(ledger), [Next]_vars
    PROVE  Apart(ledger')
<1>0. ledger \in SUBSET Record
  BY DEF TypeInv, TypeOK
<1>1. ASSUME NEW p \in Procs, CaptureRecord(p)
      PROVE  Apart(ledger')
  <2> DEFINE r == NewRecord(p)
             old == IF r.kind = "active_task" THEN SupersededBy(r.branch, ledger) ELSE {}
             kept == (ledger \ old) \cup WithState(old, "superseded")
  <2>1. ledger' = Captured(r, ledger) /\ IsRecord(p) /\ pc[p] = "ledger" /\ r.id = call[p].id
    BY <1>1 DEF CaptureRecord, NewRecord, IsRecord
  <2>2. ledger' = kept \cup {r}
    BY <2>1 DEF Captured
  <2>3. \A x \in ledger : x.id # r.id
    BY <2>1 DEF TaskInv, Stamped
  <2>4. old \in SUBSET ledger
    BY DEF SupersededBy, Active, InScope
  <2> HIDE DEF r, old
  <2>5. Apart(kept) /\ \A x \in kept : \E o \in ledger : o.id = x.id
    BY <1>0, <2>4, RestatedApart, ZenonT(60)
  <2> HIDE DEF kept
  <2> QED
    BY <2>2, <2>3, <2>5 DEF Apart
<1>2. ASSUME NEW p \in Procs, InvalidateRecord(p)
      PROVE  Apart(ledger')
  <2> DEFINE hit == {r \in Active(InScope(ledger, call[p].branch)) : r.id = call[p].id}
  <2>1. ledger' = (ledger \ hit) \cup WithState(hit, "invalidated")
    BY <1>2 DEF InvalidateRecord
  <2>2. hit \in SUBSET ledger
    BY DEF Active, InScope
  <2> HIDE DEF hit
  <2> QED
    BY <1>0, <2>1, <2>2, RestatedApart
<1>3. ASSUME NEW p \in Procs, DeleteRecord(p)
      PROVE  Apart(ledger')
  BY <1>3 DEF DeleteRecord, Apart
<1>4. ASSUME ResetProject PROVE Apart(ledger')
  BY <1>4 DEF ResetProject, Apart
<1>5. ASSUME UNCHANGED ledger PROVE Apart(ledger')
  BY <1>5
<1>6. CASE TreeMoves \/ RefreshStart \/ PutIndex \/ Delta \/ UNCHANGED vars
  BY <1>5, <1>6, DeltaFrame DEF TreeMoves, RefreshStart, vars
<1>7. ASSUME NEW p \in Procs,
             \/ Capture(p) \/ Invalidate(p) \/ Delete(p) \/ Prime(p) \/ SessionStart(p) \/ PreToolUse(p)
      PROVE  Apart(ledger')
  BY <1>5, <1>7 DEF Capture, Invalidate, Delete, Prime, SessionStart, PreToolUse, Begin
<1>8. ASSUME NEW p \in Procs,
             \/ InspectTree(p) \/ InspectStore(p) \/ IndexRevision(p) \/ CurrentBranch(p)
             \/ RenderPrimer(p) \/ SearchSymbols(p) \/ HookTimeout(p)
      PROVE  Apart(ledger')
  BY <1>5, <1>8 DEF InspectTree, InspectStore, IndexRevision, CurrentBranch, RenderPrimer,
                    SearchSymbols, HookTimeout
<1> QED
  BY <1>1, <1>2, <1>3, <1>4, <1>6, <1>7, <1>8 DEF Next, SessionCall, Hook

\* Of records with an id of their own, up to some bound, one is the latest.
LEMMA Latest ==
    ASSUME NEW S \in SUBSET Record, S # {}, NEW n \in Nat, \A r \in S : r.id <= n
    PROVE  \E m \in S : \A s \in S : s.id <= m.id
<1> DEFINE ages == {n - r.id : r \in S}
<1>1. \A r \in S : r.id \in Nat /\ n - r.id \in Nat
  BY DEF Record
<1>2. ages \subseteq Nat /\ ages # {}
  BY <1>1
<1>3. \A a \in ages : \E r \in S : a = n - r.id
  OBVIOUS
<1>a. \A r \in S : n - r.id \in ages
  OBVIOUS
<1> HIDE DEF ages
<1>4. PICK a \in ages : \A b \in ages : ~ (<<b, a>> \in OpToRel(<, Nat))
  BY <1>2, NatLessThanWellFounded, WFMin
<1>5. \A b \in ages : ~ (b < a)
  BY <1>2, <1>4 DEF OpToRel
<1>6. PICK m \in S : a = n - m.id
  BY <1>3
<1>7. \A s \in S : ~ (n - s.id < n - m.id)
  BY <1>5, <1>6, <1>a
<1> QED
  BY <1>1, <1>6, <1>7

\* The last of some records, in the order of a primer.
LEMMA LastOfAll ==
    ASSUME NEW S \in SUBSET Record, Apart(S), S # {}, NEW n \in Nat, \A r \in S : r.id <= n
    PROVE  \E m \in S : {s \in S : Before(s, m)} \cup {m} = S
<1> DEFINE decisions == {s \in S : s.kind # "active_task"}
<1>1. \A s \in S : s.kind \in {"active_task", "decision"} /\ s.id \in Nat
  BY DEF Record, Kinds
<1>2. \A r, s \in S : r # s => r.id # s.id
  BY DEF Apart
<1>3. CASE decisions = {}
  <2>1. PICK m \in S : \A s \in S : s.id <= m.id
    BY Latest
  <2>2. \A s \in S : s # m => Before(s, m)
    BY <1>1, <1>2, <1>3, <2>1 DEF Before
  <2> QED
    BY <2>2
<1>4. CASE decisions # {}
  <2>1. PICK m \in decisions : \A s \in decisions : s.id <= m.id
    BY <1>4, Latest
  <2>2. \A s \in S : s # m => Before(s, m)
    BY <1>1, <1>2, <2>1 DEF Before
  <2> QED
    BY <2>2
<1> QED
  BY <1>3, <1>4

LEMMA NothingCostsNothing == Cost({}) = 0
  BY ZenonT(60) DEF Cost, MapThenSumSet, MapThenFoldSet

\* A selection costs what its last record left of the budget.
LEMMA SelectionFits ==
    ASSUME NEW records \in SUBSET Record, Apart(records), NEW n \in Nat, \A r \in records : r.id <= n,
           NEW included \in SUBSET records, NEW revision, IsSelection(included, records, revision)
    PROVE  Cost(included) <= Budget
<1>1. CASE included = {}
  BY <1>1, NothingCostsNothing, SessionAssumption
<1>2. CASE included # {}
  <2>1. included \in SUBSET Record /\ Apart(included) /\ \A r \in included : r.id <= n
    BY DEF Apart
  <2>2. PICK m \in included : {s \in included : Before(s, m)} \cup {m} = included
    BY <1>2, <2>1, LastOfAll
  <2>3. Cost({s \in included : Before(s, m)} \cup {m}) <= Budget
    BY DEF IsSelection
  <2> QED
    BY <2>2, <2>3
<1> QED
  BY <1>1, <1>2

LEMMA Earliest ==
    ASSUME NEW S \in SUBSET Record, S # {}
    PROVE  \E m \in S : \A s \in S : m.id <= s.id
<1> DEFINE ids == {r.id : r \in S}
<1>1. \A r \in S : r.id \in Nat
  BY DEF Record
<1>2. ids \subseteq Nat /\ ids # {} /\ \A i \in ids : \E r \in S : i = r.id
  BY <1>1
<1>3. \A r \in S : r.id \in ids
  OBVIOUS
<1> HIDE DEF ids
<1>4. PICK i \in ids : \A j \in ids : ~ (<<j, i>> \in OpToRel(<, Nat))
  BY <1>2, NatLessThanWellFounded, WFMin
<1>5. \A j \in ids : ~ (j < i)
  BY <1>2, <1>4 DEF OpToRel
<1>6. PICK m \in S : i = m.id
  BY <1>2
<1> QED
  BY <1>1, <1>3, <1>5, <1>6

LEMMA FirstOfAll ==
    ASSUME NEW S \in SUBSET Record, S # {}
    PROVE  \E m \in S : \A s \in S : ~ Before(s, m)
<1> DEFINE tasks == {s \in S : s.kind = "active_task"}
<1>1. \A s \in S : s.kind \in {"active_task", "decision"} /\ s.id \in Nat
  BY DEF Record, Kinds
<1>2. CASE tasks = {}
  <2>1. PICK m \in S : \A s \in S : m.id <= s.id
    BY Earliest
  <2> QED
    BY <1>1, <1>2, <2>1 DEF Before
<1>3. CASE tasks # {}
  <2>1. PICK m \in tasks : \A s \in tasks : m.id <= s.id
    BY <1>3, Earliest
  <2> QED
    BY <1>1, <2>1 DEF Before
<1> QED
  BY <1>2, <1>3

\* There is at most one selection, as the loop of _select_records has one outcome.
LEMMA OneSelection ==
    ASSUME NEW records \in SUBSET Record, NEW revision,
           NEW a \in SUBSET records, IsSelection(a, records, revision),
           NEW b \in SUBSET records, IsSelection(b, records, revision)
    PROVE  a = b
<1> DEFINE apart == {r \in records : ~ (r \in a <=> r \in b)}
<1>1. CASE apart = {}
  BY <1>1
<1>2. CASE apart # {}
  <2>1. apart \in SUBSET Record
    OBVIOUS
  <2> HIDE DEF apart
  <2>2. PICK m \in apart : \A s \in apart : ~ Before(s, m)
    BY <1>2, <2>1, FirstOfAll
  <2> USE DEF apart
  <2>3. {s \in a : Before(s, m)} = {s \in b : Before(s, m)}
    BY <2>2
  <2>4. m \in a <=> Usable(m, revision) /\ Cost({s \in a : Before(s, m)} \cup {m}) <= Budget
    BY DEF IsSelection
  <2>5. m \in b <=> Usable(m, revision) /\ Cost({s \in b : Before(s, m)} \cup {m}) <= Budget
    BY DEF IsSelection
  <2>6. ~ (m \in a <=> m \in b)
    BY <2>2
  <2> HIDE DEF apart
  <2> QED
    BY <2>3, <2>4, <2>5, <2>6
<1> QED
  BY <1>1, <1>2

LEMMA PrimerStep ==
    ASSUME TypeInv, TaskInv, PrimerInv, [Next]_vars
    PROVE  PrimerOfOneRevision'
<1>1. ASSUME NEW p \in Procs, RenderPrimer(p)
      PROVE  PrimerOfOneRevision'
  <2> DEFINE records == Active(InScope(ledger, call[p].branch))
  <2>1. PICK included \in SUBSET records :
            /\ IsSelection(included, records, call[p].version)
            /\ answer' = [ready |-> TRUE, quiet |-> quiet[p], op |-> "prime", branch |-> call[p].branch,
                          revision |-> call[p].version, records |-> included]
    BY <1>1 DEF RenderPrimer, Return
  <2>2. \A r \in records : r \in ledger /\ r.state = "active" /\ r.branch = call[p].branch
    BY DEF Active, InScope, SameBranch
  <2>3. records \in SUBSET Record /\ Apart(records) /\ \A r \in records : r.id <= stamps
    BY <2>2 DEF TypeInv, TypeOK, TaskInv, Stamped, PrimerInv, Apart
  <2> HIDE DEF records
  <2>4. /\ answer'.records = included /\ answer'.branch = call[p].branch
        /\ answer'.revision = call[p].version
    BY <2>1
  <2>5. \A r \in included : r.state = "active" /\ r.branch = call[p].branch
                           /\ (r.anchored => r.revision = call[p].version)
    BY <2>1, <2>2 DEF IsSelection, Usable
  <2>6. Cardinality({r \in included : r.kind = "active_task"}) <= 1
    <3> DEFINE tasks == {r \in included : r.kind = "active_task"}
    <3>1. \A r, s \in tasks : r = s
      BY <2>1, <2>2 DEF TaskInv, OneActiveTask, Active
    <3>2. CASE tasks = {}
      BY <3>2, FS_EmptySet
    <3>3. CASE tasks # {}
      <4>1. PICK r \in tasks : TRUE
        BY <3>3
      <4>2. tasks = {r}
        BY <3>1, <4>1
      <4>3. Cardinality({r}) = 1
        BY FS_Singleton
      <4>4. Cardinality(tasks) = 1
        <5> HIDE DEF tasks
        <5> QED
          BY <4>2, <4>3
      <4> QED
        BY <4>4
    <3> QED
      BY <3>2, <3>3
  <2>7. Cost(included) <= Budget
    <3>1. stamps \in Nat
      BY DEF TypeInv, TypeOK
    <3> QED
      BY <2>1, <2>3, <3>1, SelectionFits
  <2> QED
    BY <2>4, <2>5, <2>6, <2>7 DEF PrimerOfOneRevision
<1>2. ASSUME ~ (answer'.ready /\ answer'.op = "prime") PROVE PrimerOfOneRevision'
  BY <1>2 DEF PrimerOfOneRevision
<1>3. ASSUME answer' = NoAnswer PROVE PrimerOfOneRevision'
  BY <1>2, <1>3 DEF NoAnswer
<1>4. CASE TreeMoves \/ RefreshStart \/ PutIndex \/ Delta \/ ResetProject
  BY <1>3, <1>4, DeltaFrame DEF TreeMoves, RefreshStart, ResetProject
<1>5. ASSUME NEW p \in Procs,
             \/ Capture(p) \/ Invalidate(p) \/ Delete(p) \/ Prime(p) \/ SessionStart(p) \/ PreToolUse(p)
      PROVE  PrimerOfOneRevision'
  BY <1>3, <1>5 DEF Capture, Invalidate, Delete, Prime, SessionStart, PreToolUse, Begin
<1>6. ASSUME NEW p \in Procs,
             \/ InspectTree(p) \/ InspectStore(p) \/ CurrentBranch(p) \/ SearchSymbols(p)
             \/ HookTimeout(p) \/ InvalidateRecord(p) \/ DeleteRecord(p)
      PROVE  PrimerOfOneRevision'
  BY <1>3, <1>6 DEF InspectTree, InspectStore, CurrentBranch, SearchSymbols,
                    HookTimeout, InvalidateRecord, DeleteRecord, Return
<1>7. ASSUME NEW p \in Procs, IndexRevision(p) \/ CaptureRecord(p)
      PROVE  PrimerOfOneRevision'
  BY <1>2, <1>3, <1>7 DEF IndexRevision, CaptureRecord, Return
<1>8. CASE UNCHANGED vars
  BY <1>8 DEF vars, PrimerInv, PrimerOfOneRevision
<1> QED
  BY <1>1, <1>4, <1>5, <1>6, <1>7, <1>8 DEF Next, SessionCall, Hook

\* Whatever other processes do to the ledger, the index and the tree meanwhile, a
\* primer shows active records of one branch, at most one of them a task, no
\* anchored one of another revision than it names, and keeps its budget
\* (session/service.py render_session_primer, _select_records).
THEOREM PrimersHoldTogether == Spec => []PrimerOfOneRevision
<1>1. Init => PrimerInv
  BY DEF Init, PrimerInv, Apart, PrimerOfOneRevision, NoAnswer
<1>2. TypeInv /\ TaskInv /\ PrimerInv /\ [Next]_vars => PrimerInv'
  BY RowsStayApart, PrimerStep DEF PrimerInv
<1>3. Spec => [](TypeInv /\ TaskInv /\ PrimerInv)
  BY <1>1, <1>2, InitTypes, NextTypes, InitTasks, NextTasks, PTL DEF Spec
<1> QED
  BY <1>3, PTL DEF PrimerInv

=============================================================================
