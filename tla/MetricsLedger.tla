--------------------------- MODULE MetricsLedger ---------------------------
(***************************************************************************)
(* The usage ledger ~/.archex/usage.sqlite (metrics/), one file for every  *)
(* process of the machine.  A recorder is a process or server thread that  *)
(* has answered something and records it: it resolves the policy, looks    *)
(* its repository up, registers it if it is new, and inserts the event in  *)
(* one transaction with the daily counters and the pruning.  Meanwhile     *)
(* other recorders and the metrics commands work on the same file, and     *)
(* `archex metrics delete --all` takes it away.                            *)
(*                                                                         *)
(* Time is counted in days.  An event keeps its trace as a field, so that  *)
(* the cascade from event to trace needs no rows of its own.  The random   *)
(* ids a recording draws are the number of the recording.                  *)
(***************************************************************************)
EXTENDS Integers, FiniteSets

CONSTANTS
    Recorders,       \* processes and threads that record
    Roots,           \* repository roots
    NONE,
    RawRetention,    \* days an event is kept
    TraceRetention,  \* days a trace is kept
    MaxDay,          \* bound: days
    MaxEvents,       \* bound: recordings begun
    MaxDeletes       \* bound: metrics delete --all

RepoId == 1..MaxEvents
Day == 0..MaxDay

\* Rows of usage_events, with the expiry of their trace.
Event == [n : RepoId, repo : RepoId, day : Day, expires : Nat \cup {NONE}]

Ledgers ==
    [born : Nat, repos : [Roots -> RepoId \cup {NONE}], events : SUBSET Event,
     daily : [RepoId \X Day -> Nat],
     enabled : BOOLEAN, tracing : BOOLEAN, health : {"ok", "warning"}]

ASSUME LedgerAssumption ==
    /\ RawRetention \in Nat /\ TraceRetention \in Nat
    /\ MaxDay \in Nat /\ MaxEvents \in Nat /\ MaxDeletes \in Nat
    /\ NONE \notin Nat /\ NONE \notin Ledgers

VARIABLES
    ledger,      \* the tables of usage.sqlite, NONE if there is no file
    usageEnv,    \* ARCHEX_USAGE_METRICS of the recorders: "on", "off" or unset
    day,
    rec,         \* rec[p]: what recorder p is at
    begun,       \* recordings begun
    deletes,
    kept         \* history variable: events committed to this file, by root and day

ledgerVars == <<ledger, usageEnv, day, rec, begun, deletes, kept>>

\* The file as bootstrap leaves it.  born tells a file from the one before it.
Bootstrapped ==
    [born |-> deletes, repos |-> [r \in Roots |-> NONE], events |-> {},
     daily |-> [x \in RepoId \X Day |-> 0],
     enabled |-> FALSE, tracing |-> FALSE, health |-> "ok"]

\* connect() creates the file it does not find.
Connected == IF ledger = NONE THEN Bootstrapped ELSE ledger

AtRest == [step |-> "rest", n |-> 0, root |-> NONE, repo |-> NONE, file |-> NONE, tracing |-> FALSE,
           day |-> 0]

NoneKept == [r \in Roots |-> [d \in Day |-> 0]]

LedgerInit ==
    /\ ledger = NONE
    /\ usageEnv \in {"on", "off", "unset"}
    /\ day = 0 /\ begun = 0 /\ deletes = 0
    /\ rec = [p \in Recorders |-> AtRest]
    /\ kept = NoneKept

RecStep(p, s) == rec' = [rec EXCEPT ![p].step = s]

EndRecording(p) == rec' = [rec EXCEPT ![p] = AtRest]

---------------------------------------------------------------------------
(* Recording.                                                              *)

BeginRecording(p, root) ==
    /\ rec[p].step = "rest" /\ begun < MaxEvents
    /\ begun' = begun + 1
    /\ rec' = [rec EXCEPT ![p].step = "policy", ![p].n = begun + 1, ![p].root = root]
    /\ UNCHANGED <<ledger, usageEnv, day, deletes, kept>>

MetricsEnabled ==
    CASE usageEnv = "off" -> FALSE
      [] usageEnv = "on"  -> TRUE
      [] OTHER            -> ledger # NONE /\ ledger.enabled

TraceEnabled == ledger # NONE /\ ledger.tracing

ResolvePolicy(p) ==
    /\ rec[p].step = "policy"
    /\ IF MetricsEnabled
       THEN rec' = [rec EXCEPT ![p].step = "lookup", ![p].tracing = TraceEnabled]
       ELSE EndRecording(p)
    /\ UNCHANGED <<ledger, usageEnv, day, begun, deletes, kept>>

\* The SELECT opens no transaction: another process may insert before this one.
LookUpRepo(p) ==
    /\ rec[p].step = "lookup"
    /\ ledger' = Connected
    /\ LET repo == Connected.repos[rec[p].root]
       IN  rec' = [rec EXCEPT ![p].step = IF repo = NONE THEN "register" ELSE "insert",
                              ![p].repo = repo, ![p].file = Connected.born, ![p].day = day]
    /\ UNCHANGED <<usageEnv, day, begun, deletes, kept>>

\* Mutant of InsertedRepo: INSERT OR REPLACE, which takes the old id and, by
\* cascade, its rows away.
ReplacedRepo(l, root, id) ==
    [l EXCEPT !.repos[root] = id,
              !.events = {e \in l.events : e.repo # l.repos[root]},
              !.daily = [x \in RepoId \X Day |-> IF x[1] = l.repos[root] THEN 0 ELSE l.daily[x]]]

InsertedRepo(l, root, id) == IF l.repos[root] = NONE THEN [l EXCEPT !.repos[root] = id] ELSE l

\* UNIQUE(repo_root) refuses the second of two first recordings.  The
\* connection is the one of the lookup: to a file that has been deleted since,
\* the row goes and is lost.
RegisterRepo(p) ==
    /\ rec[p].step = "register"
    /\ LET open  == ledger # NONE /\ ledger.born = rec[p].file
           after == InsertedRepo(ledger, rec[p].root, rec[p].n)
       IN  IF open /\ after.repos[rec[p].root] # rec[p].n
           THEN RecStep(p, "fail") /\ UNCHANGED ledger
           ELSE /\ ledger' = IF open THEN after ELSE ledger
                /\ rec' = [rec EXCEPT ![p].step = "insert", ![p].repo = rec[p].n, ![p].day = day]
    /\ UNCHANGED <<usageEnv, day, begun, deletes, kept>>

Pruned(l, now) ==
    [l EXCEPT !.events =
        {[e EXCEPT !.expires = IF e.expires # NONE /\ e.expires < now THEN NONE ELSE e.expires] :
            e \in {x \in l.events : x.day >= now - RawRetention}}]

InsertedEvent(l, r) ==
    LET event == [n |-> r.n, repo |-> r.repo, day |-> r.day,
                  expires |-> IF r.tracing THEN r.day + TraceRetention ELSE NONE]
    IN  [l EXCEPT !.events = @ \cup {event},
                  !.daily[<<r.repo, r.day>>] = @ + 1]

\* One transaction: event, daily counters, trace, pruning as of the event, and
\* the health warning of an earlier failure cleared.  The event refers to a
\* repository, which a file created since does not have.
RecordEvent(p) ==
    /\ rec[p].step = "insert"
    /\ LET known == \E r \in Roots : Connected.repos[r] = rec[p].repo
       IN  IF known
           THEN /\ ledger' = [Pruned(InsertedEvent(Connected, rec[p]), rec[p].day)
                                EXCEPT !.health = "ok"]
                /\ kept' = [kept EXCEPT ![rec[p].root][rec[p].day] = @ + 1]
                /\ EndRecording(p)
           ELSE ledger' = Connected /\ RecStep(p, "fail") /\ UNCHANGED kept
    /\ UNCHANGED <<usageEnv, day, begun, deletes>>

\* Nothing is raised into the call that records.
RecordFailure(p) ==
    /\ rec[p].step = "fail"
    /\ ledger' = [Connected EXCEPT !.health = "warning"]
    /\ EndRecording(p)
    /\ UNCHANGED <<usageEnv, day, begun, deletes, kept>>

---------------------------------------------------------------------------
(* The metrics commands, each one transaction.                             *)

SetMetrics(b) ==
    /\ Connected.enabled # b
    /\ ledger' = [Connected EXCEPT !.enabled = b]
    /\ UNCHANGED <<usageEnv, day, rec, begun, deletes, kept>>

SetTrace(b) ==
    /\ Connected.tracing # b
    /\ ledger' = [Connected EXCEPT !.tracing = b]
    /\ UNCHANGED <<usageEnv, day, rec, begun, deletes, kept>>

\* summary, repos, inspect and export prune, unless recording is disabled,
\* before they read.
Report ==
    /\ ledger' = IF MetricsEnabled THEN Pruned(Connected, day) ELSE Connected
    /\ ledger' # ledger
    /\ UNCHANGED <<usageEnv, day, rec, begun, deletes, kept>>

Repair ==
    /\ ledger # NONE /\ ledger.health = "warning"
    /\ ledger' = [ledger EXCEPT !.health = "ok"]
    /\ UNCHANGED <<usageEnv, day, rec, begun, deletes, kept>>

DeleteLedger ==
    /\ ledger # NONE /\ deletes < MaxDeletes
    /\ ledger' = NONE
    /\ deletes' = deletes + 1
    /\ kept' = NoneKept
    /\ UNCHANGED <<usageEnv, day, rec, begun>>

DayPasses ==
    /\ day < MaxDay
    /\ day' = day + 1
    /\ UNCHANGED <<ledger, usageEnv, rec, begun, deletes, kept>>

MetricsCommand ==
    \/ \E b \in BOOLEAN : SetMetrics(b) \/ SetTrace(b)
    \/ Report \/ Repair \/ DeleteLedger

Record(p) ==
    ResolvePolicy(p) \/ LookUpRepo(p) \/ RegisterRepo(p) \/ RecordEvent(p) \/ RecordFailure(p)

---------------------------------------------------------------------------
(* Properties.                                                             *)

\* What export reads of the daily counters is every event committed since the
\* file was created, and what a report of the retention window reads of the
\* events is every one of them in it, each of its own repository: no event that
\* was committed is lost, counted twice or counted for another repository by
\* first recordings that race, by a file deleted under a recorder, by an event
\* older than one already there or by the pruning (metrics/recorder.py _record).
\* An event whose recording fails is not committed: of two racing first
\* recordings of a repository the second is refused (registry.py, UNIQUE) and its
\* event dropped with a health warning.
ReportIsHistory ==
    ledger # NONE =>
        \A r \in Roots : \A d \in Day :
            LET id == ledger.repos[r]
            IN  /\ kept[r][d] = IF id = NONE THEN 0 ELSE ledger.daily[<<id, d>>]
                /\ d >= day - RawRetention =>
                        kept[r][d] = Cardinality({e \in ledger.events : e.repo = id /\ e.day = d})

=============================================================================
