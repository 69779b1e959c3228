----------------------------- MODULE FreshIndex -----------------------------
(***************************************************************************)
(* What _ensure_index (src/archex/api.py) promises its callers, with no    *)
(* cache, delta or database in sight: a call that answers, answers from    *)
(* the working tree as it stood at one moment between its entry and its    *)
(* answer.  Calls may also raise.  A tree is opaque here.                  *)
(***************************************************************************)
CONSTANTS
    Procs,      \* callers
    Tree,       \* snapshots of the working tree
    NONE        \* no answer

VARIABLES
    tree,       \* the working tree
    phase,      \* phase[p]: "idle", "working" or "answered"
    view,       \* view[p]: the trees there were since the call of p began
    answer      \* answer[p]: the tree that the answer to p describes

vars == <<tree, phase, view, answer>>

Init ==
    /\ tree \in Tree
    /\ phase = [p \in Procs |-> "idle"]
    /\ view = [p \in Procs |-> {}]
    /\ answer = [p \in Procs |-> NONE]

Change(t) ==
    /\ tree' = t
    /\ view' = [p \in Procs |->
            IF phase[p] = "working" THEN view[p] \cup {t} ELSE view[p]]
    /\ UNCHANGED <<phase, answer>>

Begin(p) ==
    /\ phase[p] = "idle"
    /\ phase' = [phase EXCEPT ![p] = "working"]
    /\ view' = [view EXCEPT ![p] = {tree}]
    /\ UNCHANGED <<tree, answer>>

Answer(p) ==
    /\ phase[p] = "working"
    /\ phase' = [phase EXCEPT ![p] = "answered"]
    /\ \E t \in view[p] : answer' = [answer EXCEPT ![p] = t]
    /\ UNCHANGED <<tree, view>>

\* The caller closes the store it was given, or the call raised.
End(p) ==
    /\ phase[p] # "idle"
    /\ phase' = [phase EXCEPT ![p] = "idle"]
    /\ view' = [view EXCEPT ![p] = {}]
    /\ answer' = [answer EXCEPT ![p] = NONE]
    /\ UNCHANGED tree

Next ==
    \/ \E t \in Tree : Change(t)
    \/ \E p \in Procs : Begin(p) \/ Answer(p) \/ End(p)

Spec == Init /\ [][Next]_vars /\ \A p \in Procs : WF_vars(Answer(p) \/ End(p))

=============================================================================
