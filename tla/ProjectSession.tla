--------------------------- MODULE ProjectSession ---------------------------
(***************************************************************************)
(* The repo-local session ledger (session/store.py, session/service.py)    *)
(* and the hooks that read a project without being asked                   *)
(* (integrations/hook.py, integrations/session_hook.py).  A call inspects  *)
(* the working tree, then the index, then the index once more, then the    *)
(* branch, then the ledger, one after the other and each through a process *)
(* or connection of its own, while the user edits files and switches       *)
(* branches, another process refreshes the index, another one captures     *)
(* records, and `archex reset` removes files.                              *)
(*                                                                         *)
(* A version of the tree is known to status.py by two things, the commit   *)
(* of HEAD and the working tree signature.  The index keeps file states,   *)
(* the rows of its chunks and symbols, the commit and the signature, and a *)
(* delta writes them one after the other into the file in use; each is     *)
(* represented by the version it was taken from.  The revision of an index *)
(* is the hash of its file states.  Which route a refresh takes, and what  *)
(* it makes of an index whose rows are of several versions, is the subject *)
(* of EnsureIndex: here it may be either.                                  *)
(***************************************************************************)
EXTENDS Integers, FiniteSets, FiniteSetsExt

CONSTANTS
    Procs,        \* processes and threads that run session calls and hooks
    Versions,     \* versions of the working tree
    Branches,     \* what `git branch --show-current` prints
    NoBranch,     \* None: HEAD is detached
    CommitOf,     \* CommitOf[v]: the commit at HEAD in version v
    SignatureOf,  \* SignatureOf[v]: the working tree signature of version v
    NoIndex,      \* no index file, or an empty one
    Torn,         \* what was read, or written, of no single version
    NoRevision,   \* None
    Sizes,        \* token costs of a record's content
    Budget,       \* what a primer may cost beyond its header
    MaxCalls,     \* bound: calls
    MaxMoves,     \* bound: how often the worktree changes or the project is reset
    MaxRefreshes  \* bound: index refreshes

Kinds     == {"active_task", "decision"}   \* blocker and rationale are like decision
Scopes    == Branches \cup {NoBranch}
Revisions == Versions \cup {NoIndex, Torn}

ASSUME SessionAssumption ==
    /\ NoBranch \notin Branches
    /\ NoIndex \notin Versions /\ Torn \notin Versions /\ NoIndex # Torn
    /\ NoRevision \notin Revisions
    /\ \A v, w \in Versions :
          CommitOf[v] = CommitOf[w] /\ SignatureOf[v] = SignatureOf[w] => v = w
    /\ Sizes \subseteq Nat /\ Budget \in Nat
    /\ MaxCalls \in Nat /\ MaxMoves \in Nat /\ MaxRefreshes \in Nat

VARIABLES
    tree, branch,          \* the worktree
    index,                 \* .archex/index.db
    refresh,               \* the refresh that is running, and where it is
    ledger,                \* rows of session_records in .archex/session.db
    pc, call,              \* per process: next step and locals of its call
    answer,                \* what the last step returned to a caller, if it did
    stamps, calls, moves, refreshes,
    quiet,                 \* history: nothing has changed since p's call began
    lastTask               \* history: the task committed last, per branch

environment == <<tree, branch, index, refresh, moves, refreshes>>
counters    == <<stamps, calls>>
history     == <<quiet, lastTask>>
vars == <<environment, ledger, pc, call, answer, counters, history>>

Index == [states : Revisions, rows : Revisions, commit : Revisions, signature : Revisions]

IndexOf(v, files) == [states |-> files, rows |-> files, commit |-> v, signature |-> v]

Absent == IndexOf(NoIndex, NoIndex)

\* version: what it will sign; files: what it read in the files; wrote: a delta
\* has committed some of it.
Refresh ==
    [at : {"idle", "full", "delete", "forget", "states", "rows", "commit", "sign"},
     version : Revisions, files : Revisions, wrote : BOOLEAN]

NoRefresh == [at |-> "idle", version |-> NoIndex, files |-> NoIndex, wrote |-> FALSE]

\* created_at orders the records and, with the uuid, identifies them.
Record ==
    {r \in [id : Nat, kind : Kinds, branch : Scopes, revision : Revisions \cup {NoRevision},
            anchored : BOOLEAN, size : Sizes,
            state : {"active", "superseded", "invalidated"}] :
        r.anchored => r.revision # NoRevision}

Ops == {"record", "invalidate", "delete", "prime", "session_start", "lookup"}

\* Hooks run under hook_timeout_seconds and may give up at any moment.
Hooks == {"session_start", "lookup"}

NoAnswer == [ready |-> FALSE]

Idle ==
    [op |-> "none", kind |-> "decision", anchored |-> FALSE, size |-> 0, id |-> 0,
     version |-> NoRevision, matches |-> NoIndex, branch |-> NoBranch]

Init ==
    /\ tree \in Versions /\ branch \in Scopes
    /\ index \in {Absent, IndexOf(tree, tree)}
    /\ refresh = NoRefresh
    /\ ledger = {}
    /\ pc = [p \in Procs |-> "idle"]
    /\ call = [p \in Procs |-> Idle]
    /\ answer = NoAnswer
    /\ stamps = 0 /\ calls = 0 /\ moves = 0 /\ refreshes = 0
    /\ quiet = [p \in Procs |-> FALSE]
    /\ lastTask = [b \in Scopes |-> 0]

Disturb == quiet' = [p \in Procs |-> FALSE]

---------------------------------------------------------------------------
\* A refresh that has not yet read all files may find them changed.
Overtaken ==
    IF refresh.at \in {"full", "delete", "forget", "states"}
    THEN {refresh, [refresh EXCEPT !.files = Torn]}
    ELSE {refresh}

\* The user edits files, commits or switches branches.
TreeMoves ==
    /\ moves < MaxMoves
    /\ moves' = moves + 1
    /\ tree' \in Versions /\ branch' \in Scopes
    /\ <<tree', branch'>> # <<tree, branch>>
    /\ refresh' \in (IF tree' = tree THEN {refresh} ELSE Overtaken)
    /\ Disturb
    /\ answer' = NoAnswer
    /\ UNCHANGED <<index, refreshes, ledger, pc, call, counters, lastTask>>

\* What status.py calls fresh, of a tree that is at v.
FreshFor(v) ==
    /\ index # Absent
    /\ CommitOf[index.commit] = CommitOf[v]
    /\ SignatureOf[index.signature] = SignatureOf[v]

\* One process at a time refreshes the index: it takes the commit and signature,
\* and builds aside, or patches the index there is; if that was of no single
\* version, a delta may leave it so.
RefreshStart ==
    /\ refresh.at = "idle" /\ ~ FreshFor(tree) /\ refreshes < MaxRefreshes
    /\ \E at \in {"full", "delete", "states"}, files \in {tree} \cup ({index.rows} \cap {Torn}) :
          /\ at # "full" => index # Absent
          /\ at = "full" => files = tree
          /\ refresh' = [at |-> at, version |-> tree, files |-> files, wrote |-> FALSE]
    /\ refreshes' = refreshes + 1
    /\ answer' = NoAnswer
    /\ UNCHANGED <<tree, branch, index, moves, ledger, pc, call, counters, history>>

Refreshes(at, newIndex, newRefresh) ==
    /\ refresh.at = at
    /\ index' = newIndex
    /\ refresh' = newRefresh
    /\ Disturb
    /\ answer' = NoAnswer
    /\ UNCHANGED <<tree, branch, moves, refreshes, ledger, pc, call, counters, lastTask>>

\* A full index takes the place of the old file at once.
PutIndex == Refreshes("full", IndexOf(refresh.version, refresh.files), NoRefresh)

Patch(at, newIndex, next) ==
    Refreshes(at, newIndex, [refresh EXCEPT !.at = next, !.wrote = TRUE])

\* The transactions of a delta, in their order: of files that are gone or renamed
\* first the rows and then the states, ...
DeleteRows   == Patch("delete", [index EXCEPT !.rows = Torn], "forget")
DeleteStates == Patch("forget", [index EXCEPT !.states = Torn], "states")

\* ... then the states of the others, their rows, and what makes it current.
WriteStates == Patch("states", [index EXCEPT !.states = refresh.files], "rows")
SwapRows    == Patch("rows", [index EXCEPT !.rows = refresh.files], "commit")
SetCommit   == Patch("commit", [index EXCEPT !.commit = refresh.version], "sign")
Sign        == Refreshes("sign", [index EXCEPT !.signature = refresh.version], NoRefresh)

Delta == DeleteRows \/ DeleteStates \/ WriteStates \/ SwapRows \/ SetCommit \/ Sign

\* `archex reset --force`: the globs over .archex take session.db with the index.
\* A delta goes on in a file that has no name any more.
Removed(records) == records

ResetProject ==
    /\ moves < MaxMoves
    /\ moves' = moves + 1
    /\ index' = Absent
    /\ refresh' = IF refresh.at = "full" THEN refresh ELSE NoRefresh
    /\ ledger' = ledger \ Removed(ledger)
    /\ Disturb
    /\ answer' = NoAnswer
    /\ UNCHANGED <<tree, branch, refreshes, pc, call, counters, lastTask>>

---------------------------------------------------------------------------
Goto(p, label) == pc' = [pc EXCEPT ![p] = label]

\* p's call ends and returns a.
Return(p, a) ==
    /\ pc' = [pc EXCEPT ![p] = "idle"]
    /\ call' = [call EXCEPT ![p] = Idle]
    /\ answer' = a
    /\ quiet' = [quiet EXCEPT ![p] = FALSE]

Begin(p, c, label) ==
    /\ pc[p] = "idle" /\ calls < MaxCalls
    /\ calls' = calls + 1
    /\ call' = [call EXCEPT ![p] = c]
    /\ answer' = NoAnswer
    /\ quiet' = [quiet EXCEPT ![p] = TRUE]
    /\ Goto(p, label)
    /\ UNCHANGED <<environment, ledger, stamps, lastTask>>

Capture(p) ==
    \E k \in Kinds, anchored \in BOOLEAN, n \in Sizes :
        Begin(p, [Idle EXCEPT !.op = "record", !.kind = k, !.anchored = anchored, !.size = n],
              "tree")

Invalidate(p) ==
    \E r \in ledger : Begin(p, [Idle EXCEPT !.op = "invalidate", !.id = r.id], "branch")

Delete(p) ==
    \E r \in ledger : Begin(p, [Idle EXCEPT !.op = "delete", !.id = r.id], "branch")

Prime(p) == Begin(p, [Idle EXCEPT !.op = "prime"], "tree")

\* The SessionStart hook renders a primer, the search hooks look symbols up.
SessionStart(p) == Begin(p, [Idle EXCEPT !.op = "session_start"], "tree")
PreToolUse(p)   == Begin(p, [Idle EXCEPT !.op = "lookup"], "tree")

\* future.result(timeout=...) gives up and os._exit takes the lookup with it.
HookTimeout(p) ==
    /\ call[p].op \in Hooks
    /\ Return(p, NoAnswer)
    /\ UNCHANGED <<environment, ledger, counters, lastTask>>

---------------------------------------------------------------------------
\* inspect_project_status: HEAD and the signature of the tree, then the store.
InspectTree(p) ==
    /\ pc[p] = "tree"
    /\ call' = [call EXCEPT ![p].version = tree]
    /\ Goto(p, "store")
    /\ answer' = NoAnswer
    /\ UNCHANGED <<environment, ledger, counters, history>>

\* Mutant: an index that exists is taken for a fresh one.
HasIndex(p) == index # Absent

IsFresh(p) == FreshFor(call[p].version)

Unanchored(p) == call[p].op = "record" /\ ~ call[p].anchored

InspectStore(p) ==
    /\ pc[p] = "store"
    /\ \/ /\ IsFresh(p)
          /\ Goto(p, IF call[p].op = "lookup" THEN "search" ELSE "revision")
          /\ answer' = NoAnswer
          /\ UNCHANGED <<call, quiet>>
       \/ /\ ~ IsFresh(p)
          /\ Unanchored(p)
          /\ call' = [call EXCEPT ![p].version = NoRevision]
          /\ Goto(p, "branch")
          /\ answer' = NoAnswer
          /\ UNCHANGED quiet
       \/ /\ ~ IsFresh(p)       \* "anchored session records require a fresh index", no primer
          /\ ~ Unanchored(p)
          /\ Return(p, NoAnswer)
    /\ UNCHANGED <<environment, ledger, counters, lastTask>>

\* _lookup: the matches, and the revision for the receipt in another statement.
SearchSymbols(p) ==
    /\ pc[p] = "search"
    /\ \/ /\ call' = [call EXCEPT ![p].matches = index.rows]
          /\ Goto(p, "revision")
          /\ answer' = NoAnswer
          /\ UNCHANGED quiet
       \/ Return(p, NoAnswer)
    /\ UNCHANGED <<environment, ledger, counters, lastTask>>

\* index_revision_from_store, through a store opened for it.
IndexRevision(p) ==
    /\ pc[p] = "revision"
    /\ IF call[p].op = "lookup"
       THEN Return(p, [ready |-> TRUE, quiet |-> quiet[p], op |-> "lookup",
                       matches |-> call[p].matches, revision |-> index.states])
       ELSE /\ call' = [call EXCEPT ![p].version = index.states]
            /\ Goto(p, "branch")
            /\ answer' = NoAnswer
            /\ UNCHANGED quiet
    /\ UNCHANGED <<environment, ledger, counters, lastTask>>

\* git branch --show-current; created_at is taken before the ledger is opened and locked.
CurrentBranch(p) ==
    /\ pc[p] = "branch"
    /\ stamps' = stamps + (IF call[p].op = "record" THEN 1 ELSE 0)
    /\ call' = [call EXCEPT ![p].branch = branch,
                             ![p].id = IF @ = 0 THEN stamps' ELSE @]
    /\ Goto(p, "ledger")
    /\ answer' = NoAnswer
    /\ UNCHANGED <<environment, ledger, calls, history>>

---------------------------------------------------------------------------
\* The ledger: one transaction per call.

\* Mutant: branch = ?, which no NULL satisfies.
SameNamedBranch(b, c) == b # NoBranch /\ b = c

\* branch IS ?: None is a scope like any other.
SameBranch(b, c) == b = c

InScope(records, b) == {r \in records : SameBranch(r.branch, b)}

Active(records) == {r \in records : r.state = "active"}

SupersededBy(b, records) ==
    {r \in Active(InScope(records, b)) : r.kind = "active_task"}

WithState(records, state) == {[r EXCEPT !.state = state] : r \in records}

\* Mutant: the record is inserted before older tasks are superseded.
CapturedFirst(r, records) ==
    LET all == records \cup {r}
        old == IF r.kind = "active_task" THEN SupersededBy(r.branch, all) ELSE {}
    IN  (all \ old) \cup WithState(old, "superseded")

Captured(r, records) ==
    LET old == IF r.kind = "active_task" THEN SupersededBy(r.branch, records) ELSE {}
    IN  (records \ old) \cup WithState(old, "superseded") \cup {r}

CaptureRecord(p) ==
    LET c == call[p]
        r == [id |-> c.id, kind |-> c.kind, branch |-> c.branch, revision |-> c.version,
              anchored |-> c.anchored, size |-> c.size, state |-> "active"]
    IN  /\ pc[p] = "ledger" /\ c.op = "record"
        /\ ledger' = Captured(r, ledger)
        /\ lastTask' = IF r.kind = "active_task" THEN [lastTask EXCEPT ![r.branch] = r.id]
                       ELSE lastTask
        /\ Return(p, [ready |-> TRUE, quiet |-> quiet[p], op |-> "record", record |-> r])
        /\ UNCHANGED <<environment, counters>>

\* A KeyError when the scope has no such active record: nothing is written.
InvalidateRecord(p) ==
    LET hit == {r \in Active(InScope(ledger, call[p].branch)) : r.id = call[p].id}
    IN  /\ pc[p] = "ledger" /\ call[p].op = "invalidate"
        /\ ledger' = (ledger \ hit) \cup WithState(hit, "invalidated")
        /\ Return(p, NoAnswer)
        /\ UNCHANGED <<environment, counters, lastTask>>

DeleteRecord(p) ==
    LET hit == {r \in InScope(ledger, call[p].branch) : r.id = call[p].id}
    IN  /\ pc[p] = "ledger" /\ call[p].op = "delete"
        /\ ledger' = ledger \ hit
        /\ Return(p, NoAnswer)
        /\ UNCHANGED <<environment, counters, lastTask>>

\* _select_records: tasks first, then by age; what is stale or does not fit is skipped.
Before(r, s) ==
    IF r.kind = s.kind THEN r.id < s.id ELSE r.kind = "active_task"

\* Mutant: anchors are not compared with the index.
UsableAlways(r, revision) == TRUE

Usable(r, revision) == r.anchored => r.revision = revision

\* What a primer costs beyond its header.
Cost(records) == MapThenSumSet(LAMBDA r : r.size, records)

\* The records included are the ones that are not stale and fit beside those
\* included before them.
IsSelection(included, records, revision) ==
    \A r \in records :
        r \in included <=>
            /\ Usable(r, revision)
            /\ Cost({s \in included : Before(s, r)} \cup {r}) <= Budget

RenderPrimer(p) ==
    /\ pc[p] = "ledger" /\ call[p].op \in {"prime", "session_start"}
    /\ LET records == Active(InScope(ledger, call[p].branch))
       IN  \E included \in SUBSET records :
              /\ IsSelection(included, records, call[p].version)
              /\ Return(p, [ready |-> TRUE, quiet |-> quiet[p], op |-> "prime",
                            branch |-> call[p].branch, revision |-> call[p].version,
                            records |-> included])
    /\ UNCHANGED <<environment, ledger, counters, lastTask>>

---------------------------------------------------------------------------
SessionCall(p) ==
    \/ Capture(p) \/ Invalidate(p) \/ Delete(p) \/ Prime(p)
    \/ InspectTree(p) \/ InspectStore(p) \/ IndexRevision(p) \/ CurrentBranch(p)
    \/ CaptureRecord(p) \/ InvalidateRecord(p) \/ DeleteRecord(p) \/ RenderPrimer(p)

Hook(p) == SessionStart(p) \/ PreToolUse(p) \/ SearchSymbols(p) \/ HookTimeout(p)

Next ==
    \/ TreeMoves \/ RefreshStart \/ PutIndex \/ Delta \/ ResetProject
    \/ \E p \in Procs : SessionCall(p) \/ Hook(p)

Spec == Init /\ [][Next]_vars

---------------------------------------------------------------------------
(* Properties.                                                             *)

TypeOK ==
    /\ tree \in Versions /\ branch \in Scopes
    /\ index \in Index /\ refresh \in Refresh
    /\ ledger \subseteq Record
    /\ pc \in [Procs -> {"idle", "tree", "store", "search", "revision", "branch", "ledger"}]
    /\ stamps \in Nat /\ lastTask \in [Scopes -> Nat]

\* At any moment a branch of the worktree has at most one active task, however
\* the captures of several processes interleave (store.py capture).
OneActiveTask ==
    \A r, s \in Active(ledger) :
        r.kind = "active_task" /\ s.kind = "active_task" /\ r.branch = s.branch => r = s

\* Only a later capture supersedes a task: the task committed last on a branch is
\* active until it is invalidated or removed (store.py capture).
LastTaskStands ==
    \A r \in ledger : r.id = lastTask[r.branch] => r.state # "superseded"

OfTheTree(a) ==
    CASE a.op = "record" ->
             /\ a.record.branch = branch
             /\ a.record.anchored => a.record.revision = tree
      [] a.op = "prime"  -> a.branch = branch /\ a.revision = tree
      [] a.op = "lookup" -> a.matches = tree /\ a.revision = tree

\* "anchored session records require a fresh index", "stale indexes return no context"
\* (service.py): a record's anchor, a primer and a lookup of a call during which nothing
\* moved are of the tree and branch of the caller.
FreshAnswerIsOfTheTree == answer.ready /\ answer.quiet => OfTheTree(answer)

\* That is so unless a delta was half-way through its transactions all the while, or
\* the index has rows of several versions because the tree changed under a refresh: in
\* every other index the commit and signature status.py compares stand for its states
\* and its rows, whatever refreshes and resets came before (service.py
\* capture_session_record, render_session_primer; hook.py _lookup).
QuietAnswerIsOfTheTree ==
    answer.ready /\ answer.quiet /\ ~ refresh.wrote /\ index.rows # Torn => OfTheTree(answer)

\* Whatever moved meanwhile, a primer shows active records of one branch with at most
\* one task, anchored ones only of the revision it names, within its budget
\* (service.py _select_records).
PrimerOfOneRevision ==
    answer.ready /\ answer.op = "prime" =>
        /\ \A r \in answer.records :
              /\ r.state = "active" /\ r.branch = answer.branch
              /\ r.anchored => r.revision = answer.revision
        /\ Cardinality({r \in answer.records : r.kind = "active_task"}) <= 1
        /\ Cost(answer.records) <= Budget

\* A record leaves the ledger only by a delete call that names it.
RemovedOnlyByDelete ==
    [][\A r \in ledger : (\A s \in ledger' : s.id # r.id) =>
          \E p \in Procs : call[p].op = "delete" /\ call[p].id = r.id]_vars
=============================================================================
