---------------------------- MODULE IndexWatch ----------------------------
(***************************************************************************)
(* `archex mcp --watch` (integrations/mcp.py _start_index_watch): file     *)
(* system events are debounced into refreshes of the index.  The threads   *)
(* are the observer, which delivers events one by one, and one per timer,  *)
(* which runs _refresh once its delay is over.  What happens under _lock   *)
(* is one action.                                                          *)
(*                                                                         *)
(* A refresh is one call of index_repository, the subject of EnsureIndex:  *)
(* here it only takes a version of the tree and writes index files, or     *)
(* raises.  Events carry no content: the backlog counts them by kind.      *)
(***************************************************************************)
EXTENDS Integers, FiniteSets

CONSTANTS
    Timers,      \* threading.Timer objects; one that is over is used again
    NoTimer,
    MaxVersion,  \* bound: changes of the working tree
    MaxNoise     \* bound: undelivered events of ignored paths

ASSUME WatchAssumption ==
    /\ NoTimer \notin Timers
    /\ MaxVersion \in Nat
    /\ MaxNoise \in Nat

Kind == {"source", "ignored"}

VARIABLES
    version,     \* how often the working tree has changed
    covered,     \* the version the last call of index_repository worked from
    backlog,     \* backlog[k]: events of kind k not yet delivered
    timer,       \* self._timer
    phase,       \* phase[t]: where the thread of timer t is
    pending,     \* self._pending_refresh
    refreshing   \* self._refreshing

watchVars == <<version, covered, backlog, timer, phase, pending, refreshing>>

Phase == {"over", "armed", "fired", "indexing", "indexed"}

WatchInit ==
    /\ version = 0 /\ covered = 0
    /\ backlog = [k \in Kind |-> 0]
    /\ timer = NoTimer
    /\ phase = [t \in Timers |-> "over"]
    /\ pending = FALSE
    /\ refreshing = FALSE

---------------------------------------------------------------------------
\* A file below the watched directory is created, changed, moved or deleted.
FileChanges ==
    /\ version < MaxVersion
    /\ version' = version + 1
    /\ backlog' = [backlog EXCEPT !["source"] = @ + 1]
    /\ UNCHANGED <<covered, timer, phase, pending, refreshing>>

\* Mutant of IgnoredWatchPath: the refresh is woken by its own writes.
NothingIgnored(kind) == FALSE

IgnoredWatchPath(kind) == kind = "ignored"

\* _arm_timer_locked, on the phases ph: a timer that has not fired is
\* cancelled, one whose thread already waits for the lock is not.
ArmTimer(ph) ==
    LET cancelled == [t \in Timers |->
                        IF t = timer /\ ph[t] = "armed" THEN "over" ELSE ph[t]]
    IN  \E t \in Timers :
            /\ cancelled[t] = "over"
            /\ phase' = [cancelled EXCEPT ![t] = "armed"]
            /\ timer' = t

\* Mutant of Schedule: an event during a refresh is taken to be covered by it.
ScheduleUnlessRefreshing ==
    /\ IF refreshing THEN UNCHANGED <<timer, phase>> ELSE ArmTimer(phase)
    /\ UNCHANGED pending

Schedule ==
    IF refreshing
    THEN pending' = TRUE /\ UNCHANGED <<timer, phase>>
    ELSE ArmTimer(phase) /\ UNCHANGED pending

\* on_any_event, in the observer's thread.
OnAnyEvent(kind) ==
    /\ backlog[kind] > 0
    /\ backlog' = [backlog EXCEPT ![kind] = @ - 1]
    /\ IF IgnoredWatchPath(kind)
       THEN UNCHANGED <<timer, phase, pending>>
       ELSE Schedule
    /\ UNCHANGED <<version, covered, refreshing>>

\* The delay is over and the timer was not cancelled.
Fire(t) ==
    /\ phase[t] = "armed"
    /\ phase' = [phase EXCEPT ![t] = "fired"]
    /\ UNCHANGED <<version, covered, backlog, timer, pending, refreshing>>

\* Mutant of BeginRefresh: two timers may refresh side by side.
BeginUnchecked(t) ==
    /\ phase[t] = "fired"
    /\ phase' = [phase EXCEPT ![t] = "indexing"]
    /\ refreshing' = TRUE
    /\ UNCHANGED <<version, covered, backlog, timer, pending>>

\* _refresh up to its first unlock; a refresh is not begun inside another.
BeginRefresh(t) ==
    /\ phase[t] = "fired"
    /\ phase' = [phase EXCEPT ![t] = IF refreshing THEN "over" ELSE "indexing"]
    /\ refreshing' = TRUE
    /\ UNCHANGED <<version, covered, backlog, timer, pending>>

\* index_repository works from the tree of some moment of the call.  It writes
\* below .archex, which is watched too, unless it hits the cache or raises.
IndexRepository(t) ==
    /\ phase[t] = "indexing"
    /\ covered' = version
    /\ phase' = [phase EXCEPT ![t] = "indexed"]
    /\ \/ UNCHANGED backlog
       \/ /\ backlog["ignored"] < MaxNoise
          /\ backlog' = [backlog EXCEPT !["ignored"] = @ + 1]
    /\ UNCHANGED <<version, timer, pending, refreshing>>

\* The finally clause: whatever came in during the refresh is scheduled now.
EndRefresh(t) ==
    /\ phase[t] = "indexed"
    /\ refreshing' = FALSE
    /\ pending' = FALSE
    /\ LET left == [phase EXCEPT ![t] = "over"]
       IN  IF pending THEN ArmTimer(left)
           ELSE phase' = left /\ UNCHANGED timer
    /\ UNCHANGED <<version, covered, backlog>>

Observer == \E kind \in Kind : OnAnyEvent(kind)

TimerThread(t) == Fire(t) \/ BeginRefresh(t) \/ IndexRepository(t) \/ EndRefresh(t)

WatchNext == FileChanges \/ Observer \/ \E t \in Timers : TimerThread(t)

WatchSpec == WatchInit /\ [][WatchNext]_watchVars

\* Every thread of the process keeps running, and files come to rest: the
\* bound on version makes them.
WatchFairness == WF_watchVars(Observer) /\ \A t \in Timers : WF_watchVars(TimerThread(t))

WatchFairSpec == WatchSpec /\ WatchFairness

---------------------------------------------------------------------------
(* Properties.                                                             *)

TypeOK ==
    /\ version \in Nat /\ covered \in 0..version
    /\ backlog \in [Kind -> Nat]
    /\ timer \in Timers \cup {NoTimer}
    /\ phase \in [Timers -> Phase]
    /\ pending \in BOOLEAN /\ refreshing \in BOOLEAN

Waiting == \E t \in Timers : phase[t] \in {"armed", "fired"}

\* A change no refresh has worked from is on its way to one: as an event, as a
\* timer that will not find a refresh running, in a refresh that has still to
\* read, or as the pending flag of one that has read.
NoLostChange ==
    covered # version =>
        \/ backlog["source"] > 0
        \/ Waiting /\ ~ refreshing
        \/ \E t \in Timers : phase[t] = "indexing"
        \/ pending /\ refreshing

\* Refreshes of one server never overlap, although a cancelled timer may have
\* fired already and run next to the one that replaced it.
OneRefreshAtATime ==
    \A s, t \in Timers :
        {phase[s], phase[t]} \subseteq {"indexing", "indexed"} => s = t

\* Every change is followed by a refresh that works from it or a later one.
EveryChangeRefreshed ==
    \A n \in 1..MaxVersion : version >= n ~> covered >= n

\* Once the files rest the watch does too: a refresh does not wake the next.
ComesToRest == <>[](~ Waiting /\ ~ refreshing)

===========================================================================
