------------------------- MODULE IndexWatchProofs -------------------------
(***************************************************************************)
(* Theorems about IndexWatch, for any number of timers and changes.        *)
(***************************************************************************)
EXTENDS IndexWatch, TLAPS

Refreshers == {t \in Timers : phase[t] \in {"indexing", "indexed"}}

\* The flag and the threads agree, and only a running refresh has a pending one.
FlagsAgree ==
    /\ refreshing <=> Refreshers # {}
    /\ pending => refreshing

IInv == TypeOK /\ FlagsAgree /\ OneRefreshAtATime /\ NoLostChange

---------------------------------------------------------------------------
\* Arming leaves one timer armed and touches none that is past its delay.
LEMMA Arming ==
    ASSUME NEW ph \in [Timers -> Phase], timer \in Timers \cup {NoTimer}, ArmTimer(ph)
    PROVE  /\ phase' \in [Timers -> Phase] /\ timer' \in Timers
           /\ \E t \in Timers : phase'[t] = "armed"
           /\ \A t \in Timers : ph[t] \notin {"over", "armed"} => phase'[t] = ph[t]
           /\ \A t \in Timers : ph[t] \in {"over", "armed"} => phase'[t] \in {"over", "armed"}
<1> DEFINE cancelled == [t \in Timers |->
                           IF t = timer /\ ph[t] = "armed" THEN "over" ELSE ph[t]]
<1>1. PICK t \in Timers : /\ cancelled[t] = "over"
                          /\ phase' = [cancelled EXCEPT ![t] = "armed"]
                          /\ timer' = t
  BY DEF ArmTimer
<1>2. cancelled \in [Timers -> Phase]
  BY DEF Phase
<1> QED
  BY <1>1, <1>2 DEF Phase

LEMMA InitInv == WatchInit => IInv
<1> SUFFICES ASSUME WatchInit PROVE IInv
  OBVIOUS
<1>1. TypeOK
  <2>1. version \in Nat /\ covered \in 0..version
    BY DEF WatchInit
  <2>2. backlog \in [Kind -> Nat] /\ phase \in [Timers -> Phase]
    BY DEF WatchInit, Phase
  <2> QED
    BY <2>1, <2>2 DEF WatchInit, TypeOK
<1>2. FlagsAgree /\ OneRefreshAtATime /\ NoLostChange
  BY DEF WatchInit, FlagsAgree, Refreshers, OneRefreshAtATime, NoLostChange
<1> QED
  BY <1>1, <1>2 DEF IInv

LEMMA NextInv == IInv /\ [WatchNext]_watchVars => IInv'
<1> SUFFICES ASSUME IInv, [WatchNext]_watchVars PROVE IInv'
  OBVIOUS
<1> USE DEF IInv, TypeOK
<1>1. CASE FileChanges
  BY <1>1 DEF FileChanges, FlagsAgree, Refreshers, OneRefreshAtATime, NoLostChange, Kind, Waiting
<1>2. ASSUME NEW kind \in Kind, OnAnyEvent(kind)
      PROVE  IInv'
  <2>1. /\ backlog' \in [Kind -> Nat] /\ UNCHANGED <<version, covered, refreshing>>
        /\ kind = "ignored" => backlog'["source"] = backlog["source"]
    BY <1>2 DEF OnAnyEvent, Kind
  <2>2. CASE UNCHANGED <<timer, phase, pending>> /\ kind = "ignored"
    BY <2>1, <2>2 DEF FlagsAgree, Refreshers, OneRefreshAtATime, NoLostChange, Waiting
  <2>3. CASE refreshing /\ pending' = TRUE /\ UNCHANGED <<timer, phase>>
    BY <2>1, <2>3 DEF FlagsAgree, Refreshers, OneRefreshAtATime, NoLostChange
  <2>4. CASE ~ refreshing /\ ArmTimer(phase) /\ UNCHANGED pending
    <3>1. /\ phase' \in [Timers -> Phase] /\ timer' \in Timers
          /\ \E t \in Timers : phase'[t] = "armed"
      BY <2>4, Arming
    <3>2. Refreshers = {} /\ Refreshers' = {}
      <4>1. Refreshers = {}
        BY <2>4 DEF FlagsAgree
      <4>2. \A t \in Timers : phase'[t] \notin {"indexing", "indexed"}
        BY <2>4, <4>1, Arming DEF Refreshers, Phase
      <4> QED
        BY <4>1, <4>2 DEF Refreshers
    <3>3. OneRefreshAtATime'
      BY <3>2 DEF OneRefreshAtATime, Refreshers
    <3> QED
      BY <2>1, <2>4, <3>1, <3>2, <3>3 DEF FlagsAgree, NoLostChange, Waiting
  <2> QED
    BY <1>2, <2>2, <2>3, <2>4 DEF OnAnyEvent, Schedule, IgnoredWatchPath
<1>3. ASSUME NEW t \in Timers, Fire(t)
      PROVE  IInv'
  BY <1>3 DEF Fire, Phase, FlagsAgree, Refreshers, OneRefreshAtATime, NoLostChange, Waiting
<1>4. ASSUME NEW t \in Timers, BeginRefresh(t)
      PROVE  IInv'
  BY <1>4 DEF BeginRefresh, Phase, FlagsAgree, Refreshers, OneRefreshAtATime, NoLostChange
<1>5. ASSUME NEW t \in Timers, IndexRepository(t)
      PROVE  IInv'
  <2>1. backlog' \in [Kind -> Nat]
    BY <1>5 DEF IndexRepository, Kind
  <2> QED
    BY <1>5, <2>1 DEF IndexRepository, Phase, FlagsAgree, Refreshers, OneRefreshAtATime,
                      NoLostChange
<1>6. ASSUME NEW t \in Timers, EndRefresh(t)
      PROVE  IInv'
  <2> DEFINE left == [phase EXCEPT ![t] = "over"]
  <2>1. /\ phase[t] = "indexed" /\ refreshing' = FALSE /\ pending' = FALSE
        /\ UNCHANGED <<version, covered, backlog>>
        /\ IF pending THEN ArmTimer(left) ELSE phase' = left /\ UNCHANGED timer
    BY <1>6 DEF EndRefresh
  <2>2. left \in [Timers -> Phase]
        /\ \A s \in Timers : left[s] \notin {"indexing", "indexed"}
    BY <2>1 DEF Phase, OneRefreshAtATime
  <2> HIDE DEF left
  <2>3. /\ phase' \in [Timers -> Phase] /\ timer' \in Timers \cup {NoTimer}
        /\ \A s \in Timers : phase'[s] \notin {"indexing", "indexed"}
        /\ pending => \E s \in Timers : phase'[s] = "armed"
    BY <2>1, <2>2, Arming DEF Phase
  <2>4. \A s \in Timers : phase[s] # "indexing"
    BY <2>1 DEF OneRefreshAtATime
  <2>5. FlagsAgree' /\ OneRefreshAtATime'
    BY <2>1, <2>3 DEF FlagsAgree, Refreshers, OneRefreshAtATime
  <2>6. refreshing
    BY <2>1 DEF FlagsAgree, Refreshers
  <2>7. NoLostChange'
    BY <2>1, <2>3, <2>4, <2>6 DEF NoLostChange, Waiting
  <2> QED
    BY <2>1, <2>3, <2>5, <2>7
<1>7. CASE UNCHANGED watchVars
  BY <1>7 DEF watchVars, FlagsAgree, Refreshers, OneRefreshAtATime, NoLostChange, Waiting
<1> QED
  BY <1>1, <1>2, <1>3, <1>4, <1>5, <1>6, <1>7 DEF WatchNext, Observer, TimerThread

---------------------------------------------------------------------------
\* No interleaving of events, timers and refreshes loses a change.
THEOREM ChangesAreNotLost == WatchSpec => []NoLostChange
<1>1. IInv => NoLostChange
  BY DEF IInv
<1> QED
  BY <1>1, InitInv, NextInv, PTL DEF WatchSpec

\* The flag _refreshing excludes every second refresh, however many timers
\* have fired before they could be cancelled.
THEOREM RefreshesDoNotOverlap == WatchSpec => []OneRefreshAtATime
<1>1. IInv => OneRefreshAtATime
  BY DEF IInv
<1> QED
  BY <1>1, InitInv, NextInv, PTL DEF WatchSpec

===========================================================================
