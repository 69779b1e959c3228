-------------------------- MODULE McpServerProofs --------------------------
(***************************************************************************)
(* Theorems about McpServer, for any number of calls in flight, any        *)
(* session, and whatever happens to the ledger and the graph artifacts.    *)
(***************************************************************************)
EXTENDS McpServer, SequenceTheorems, FiniteSetTheorems, TLAPS

Messages == [changed : BOOLEAN, tools : SUBSET Tools]

Fields == {"step", "tool", "before", "cancelled", "key", "token", "since", "answer"}

Shape ==
    /\ session \in Sessions /\ open \in BOOLEAN /\ pending \in BOOLEAN
    /\ asked \in Nat /\ wire \in Seq(Messages)
    /\ DOMAIN call = Calls
    /\ \A c \in Calls : call[c] = [x \in Fields |-> call[c][x]]

\* A call began under the list that is advertised until the gate opens, and
\* announcements are of an open gate.
Gate ==
    /\ pending => open
    /\ \A c \in Calls :
        /\ call[c].step \in {"announce", "announced"} => open
        /\ call[c].step # "free" /\ ~ open => call[c].before = Visible

\* A message after which the client holds, or asks for, the list advertised.
Tells(message) == message.changed \/ message.tools = Visible

\* Without a further announcement the client ends up with the list advertised.
Informed ==
    /\ client # Visible => asked > 0 \/ \E i \in 1..Len(wire) : Tells(wire[i])
    /\ \A i \in 1..Len(wire) :
          ~ Tells(wire[i]) => asked > 0 \/ \E j \in (i + 1)..Len(wire) : Tells(wire[j])

\* Only a call that has announced may take the announcement as made.
Owed ==
    /\ pending \/ Informed
    /\ \A c \in Calls : call[c].step = "announced" => Informed

Inv == Shape /\ Gate /\ Owed

---------------------------------------------------------------------------
LEMMA ScopeIsOfTools == Shape => Scope \subseteq Tools /\ Visible \subseteq Tools
  BY ServerAssumption DEF Shape, Scope, Visible

LEMMA InitInv == ServerInit => Inv
<1> SUFFICES ASSUME ServerInit PROVE Inv
  OBVIOUS
<1>1. session.disclosure \in BOOLEAN /\ session.scope \in SUBSET Tools
  BY ServerAssumption DEF ServerInit
<1>2. wire = <<>> /\ wire \in Seq(Messages) /\ Len(wire) = 0
  BY DEF ServerInit
<1>3. \A c \in Calls : call[c] = NoCall /\ NoCall = [x \in Fields |-> NoCall[x]] /\ NoCall.step = "free"
  BY DEF ServerInit, NoCall, Fields
<1>4. Shape
  <2>1. asked \in Nat
    <3>1. asked = 0 \/ asked = 1
      BY DEF ServerInit
    <3> QED
      BY <3>1
  <2>3. open \in BOOLEAN /\ pending \in BOOLEAN /\ session \in Sessions
    BY DEF ServerInit
  <2>2. DOMAIN call = Calls /\ \A c \in Calls : call[c] = [x \in Fields |-> call[c][x]]
    BY <1>3 DEF ServerInit
  <2> QED
    BY <1>2, <2>1, <2>2, <2>3 DEF Shape
<1>5. Gate
  BY <1>3 DEF ServerInit, Gate
<1>6. Informed
  <2>1. asked > 0 \/ client = Visible
    <3>1. CASE session.disclosure
      BY <3>1 DEF ServerInit
    <3>2. CASE ~ session.disclosure
      BY <3>2 DEF ServerInit, Visible
    <3> QED
      BY <3>1, <3>2
  <2> QED
    BY <1>2, <2>1 DEF Informed
<1> QED
  BY <1>3, <1>4, <1>5, <1>6 DEF Inv, Owed

\* What an update of a call's step, or of another field, leaves.
LEMMA Updated ==
    ASSUME Shape, NEW c \in Calls, NEW x \in Fields, NEW v,
           call' = [call EXCEPT ![c][x] = v]
    PROVE  /\ DOMAIN call' = Calls
           /\ \A d \in Calls : call'[d] = [y \in Fields |-> call'[d][y]]
           /\ \A d \in Calls : d # c => call'[d] = call[d]
           /\ call'[c][x] = v /\ \A y \in Fields : y # x => call'[c][y] = call[c][y]
  BY DEF Shape

LEMMA Untouched ==
    ASSUME Inv, UNCHANGED <<gateVars, clientVars, call>>
    PROVE  Inv'
<1>1. Visible' = Visible /\ (Informed' <=> Informed)
  BY DEF gateVars, clientVars, Visible, Scope, Informed, Tells
<1> QED
  BY <1>1 DEF Inv, Shape, Gate, Owed, gateVars, clientVars

LEMMA FreedShape ==
    ASSUME Shape, NEW c \in Calls, Free(c), UNCHANGED gateVars, asked' \in Nat, wire' \in Seq(Messages)
    PROVE  Shape' /\ call'[c].step = "free" /\ \A d \in Calls : d # c => call'[d] = call[d]
<1>1. NoCall = [x \in Fields |-> NoCall[x]] /\ NoCall.step = "free"
  BY DEF NoCall, Fields
<1> QED
  BY <1>1 DEF Shape, Free, gateVars

LEMMA FreedElsewhere ==
    ASSUME Inv, NEW c \in Calls, Free(c), UNCHANGED <<gateVars, clientVars>>
    PROVE  Inv'
<1>1. Shape' /\ call'[c].step = "free" /\ \A d \in Calls : d # c => call'[d] = call[d]
  BY FreedShape DEF Inv, Shape, clientVars
<1>2. Visible' = Visible /\ (Informed' <=> Informed)
  BY DEF gateVars, clientVars, Visible, Scope, Informed, Tells
<1>3. Gate'
  BY <1>1, <1>2 DEF Inv, Gate, gateVars
<1>4. Owed'
  BY <1>1, <1>2 DEF Inv, Owed, gateVars
<1> QED
  BY <1>1, <1>3, <1>4 DEF Inv

---------------------------------------------------------------------------
(* The client and its list.                                                *)

LEMMA ListToolsInv == Inv /\ ListTools => Inv'
<1> SUFFICES ASSUME Inv, ListTools PROVE Inv'
  OBVIOUS
<1> DEFINE m == [changed |-> FALSE, tools |-> Visible]
<1>1. m \in Messages /\ m.tools = Visible
  BY ScopeIsOfTools DEF Inv, Messages
<1> HIDE DEF m
<1>2. /\ wire' = Append(wire, m) /\ asked' = asked - 1 /\ asked > 0
      /\ UNCHANGED <<session, open, pending, call, client>>
  BY DEF ListTools, gateVars, m
<1>3. Visible' = Visible
  BY <1>2 DEF Visible, Scope
<1>4. /\ wire \in Seq(Messages) /\ wire' \in Seq(Messages) /\ Len(wire') = Len(wire) + 1
      /\ wire'[Len(wire) + 1] = m /\ \A i \in 1..Len(wire) : wire'[i] = wire[i]
  BY <1>1, <1>2 DEF Inv, Shape
<1>5. Shape'
  BY <1>2, <1>4 DEF Inv, Shape
<1>6. Len(wire) \in Nat /\ wire'[Len(wire')].tools = Visible'
  BY <1>1, <1>3, <1>4
<1>7. \A i \in 1..Len(wire') : ~ Tells(wire[i])' => Len(wire') \in (i + 1)..Len(wire')
  BY <1>4, <1>6 DEF Tells
<1>8. Tells(wire[Len(wire)])' /\ Len(wire') \in 1..Len(wire')
  BY <1>4, <1>6 DEF Tells
<1>9. Informed'
  BY <1>7, <1>8 DEF Informed
<1> QED
  BY <1>2, <1>3, <1>5, <1>9 DEF Inv, Gate, Owed

LEMMA ClientReceivesInv == Inv /\ ClientReceives => Inv'
<1> SUFFICES ASSUME Inv, ClientReceives PROVE Inv'
  OBVIOUS
<1>1. /\ wire # <<>> /\ wire' = Tail(wire) /\ UNCHANGED <<session, open, pending, call>>
      /\ IF Head(wire).changed THEN asked' = asked + 1 /\ UNCHANGED client
         ELSE client' = Head(wire).tools /\ UNCHANGED asked
  BY DEF ClientReceives, gateVars
<1>2. Visible' = Visible
  BY <1>1 DEF Visible, Scope
<1>3. /\ wire \in Seq(Messages) /\ Head(wire) = wire[1] /\ Len(wire) \in Nat /\ Len(wire) > 0
      /\ wire' \in Seq(Messages) /\ Len(wire') = Len(wire) - 1
      /\ \A i \in 1..Len(wire') : wire'[i] = wire[i + 1]
  BY <1>1 DEF Inv, Shape
<1>4. Shape'
  BY <1>1, <1>3 DEF Inv, Shape
<1>5. Informed => Informed'
  <2> SUFFICES ASSUME Informed PROVE Informed'
    OBVIOUS
  <2>0. asked \in Nat
    BY DEF Inv, Shape
  <2>1. CASE asked' > 0
    BY <2>1 DEF Informed
  <2>2. CASE ~ asked' > 0
    <3>1. asked = 0 /\ asked' = 0 /\ ~ wire[1].changed /\ client' = wire[1].tools
      BY <1>1, <1>3, <2>0, <2>2
    <3>2. \A i \in 1..Len(wire') : Tells(wire[i])' <=> Tells(wire[i + 1])
      BY <1>2, <1>3 DEF Tells
    <3>3. client' # Visible' => \E i \in 1..Len(wire') : Tells(wire[i])'
      <4> SUFFICES ASSUME client' # Visible' PROVE \E i \in 1..Len(wire') : Tells(wire[i])'
        OBVIOUS
      <4>1. ~ Tells(wire[1]) /\ 1 \in 1..Len(wire)
        BY <1>2, <1>3, <3>1 DEF Tells
      <4>2. PICK j \in 2..Len(wire) : Tells(wire[j])
        BY <3>1, <4>1 DEF Informed
      <4>3. j - 1 \in 1..Len(wire') /\ (j - 1) + 1 = j
        BY <1>3
      <4> QED
        BY <3>2, <4>2, <4>3
    <3>4. \A i \in 1..Len(wire') : ~ Tells(wire[i])' => \E j \in (i + 1)..Len(wire') : Tells(wire[j])'
      <4> SUFFICES ASSUME NEW i \in 1..Len(wire'), ~ Tells(wire[i])'
                   PROVE  \E j \in (i + 1)..Len(wire') : Tells(wire[j])'
        OBVIOUS
      <4>1. ~ Tells(wire[i + 1]) /\ i + 1 \in 1..Len(wire)
        BY <1>3, <3>2
      <4>2. PICK j \in (i + 2)..Len(wire) : Tells(wire[j])
        BY <3>1, <4>1 DEF Informed
      <4>3. j - 1 \in (i + 1)..Len(wire') /\ j - 1 \in 1..Len(wire') /\ (j - 1) + 1 = j
        BY <1>3
      <4> QED
        BY <3>2, <4>2, <4>3
    <3> QED
      BY <3>3, <3>4 DEF Informed
  <2> QED
    BY <2>1, <2>2
<1> QED
  BY <1>1, <1>2, <1>4, <1>5 DEF Inv, Gate, Owed

---------------------------------------------------------------------------
(* The gate and its announcement.                                          *)

LEMMA FinishInv == ASSUME Inv, NEW c \in Calls, Finish(c) PROVE Inv'
<1> DEFINE opens == ~ open /\ call[c].tool \in Core
<1>1. /\ UNCHANGED <<session, clientVars>> /\ call[c].step = "finish"
  BY DEF Finish, gateVars
<1>2. CASE Free(c) /\ UNCHANGED gateVars
  BY <1>1, <1>2, FreedElsewhere
<1>3. CASE /\ open' = (open \/ opens) /\ pending' = (pending \/ (opens /\ Scope # call[c].before))
           /\ IF pending' THEN Step(c, "announce") ELSE Free(c)
  <2>1. /\ Shape' /\ \A d \in Calls : d # c => call'[d] = call[d]
        /\ call'[c].step # "announced" /\ (call'[c].step = "announce" => pending')
        /\ call'[c].step # "free" => call'[c].before = call[c].before
    <3>0. open' \in BOOLEAN /\ pending' \in BOOLEAN
      BY <1>3
    <3>1. CASE Step(c, "announce") /\ pending'
      <4>1. call' = [call EXCEPT ![c]["step"] = "announce"]
        BY <3>1 DEF Step
      <4>2. /\ DOMAIN call' = Calls /\ \A d \in Calls : call'[d] = [y \in Fields |-> call'[d][y]]
            /\ \A d \in Calls : d # c => call'[d] = call[d]
            /\ call'[c].step = "announce" /\ call'[c].before = call[c].before
        BY <4>1, Updated DEF Inv, Fields
      <4>3. Shape'
        BY <1>1, <3>0, <4>2 DEF Inv, Shape, clientVars
      <4> QED
        BY <3>1, <4>2, <4>3
    <3>2. CASE Free(c)
      <4>1. NoCall = [x \in Fields |-> NoCall[x]] /\ NoCall.step = "free"
        BY DEF NoCall, Fields
      <4>2. /\ DOMAIN call' = Calls /\ \A d \in Calls : call'[d] = [y \in Fields |-> call'[d][y]]
            /\ \A d \in Calls : d # c => call'[d] = call[d]
            /\ call'[c].step = "free"
        BY <3>2, <4>1 DEF Inv, Shape, Free
      <4>3. Shape'
        BY <1>1, <3>0, <4>2 DEF Inv, Shape, clientVars
      <4> QED
        BY <4>2, <4>3
    <3> QED
      BY <1>3, <3>1, <3>2
  <2>2. open => open'
    BY <1>3
  <2>3. pending => pending'
    BY <1>3
  <2>4. pending' => open'
    BY <1>3 DEF Inv, Gate
  <2>5. open \/ ~ open' => Visible' = Visible
    BY <1>1, <2>2 DEF Visible, Scope
  <2>6. ~ open /\ open' /\ ~ pending' => Visible' = Visible
    <3> SUFFICES ASSUME ~ open, open', ~ pending' PROVE Visible' = Visible
      OBVIOUS
    <3>1. Scope = call[c].before
      BY <1>3
    <3>2. call[c].before = Visible
      BY <1>1 DEF Inv, Gate
    <3>3. Visible' = Scope
      BY <1>1 DEF Visible, Scope
    <3> QED
      BY <3>1, <3>2, <3>3
  <2>7. Visible' = Visible => (Informed => Informed')
    BY <1>1 DEF Informed, Tells, clientVars
  <2>8. Gate'
    BY <1>1, <2>1, <2>2, <2>4, <2>5 DEF Inv, Gate
  <2>9. Owed'
    <3>1. pending' \/ Informed'
      BY <2>2, <2>3, <2>5, <2>6, <2>7 DEF Inv, Owed
    <3>2. ASSUME NEW d \in Calls, call'[d].step = "announced" PROVE Informed'
      <4>1. d # c /\ call[d].step = "announced"
        BY <2>1, <3>2
      <4>2. Informed /\ open
        BY <4>1 DEF Inv, Gate, Owed
      <4> QED
        BY <4>2, <2>5, <2>7
    <3> QED
      BY <3>1, <3>2 DEF Owed
  <2> QED
    BY <2>1, <2>8, <2>9 DEF Inv
<1> QED
  BY <1>2, <1>3 DEF Finish

LEMMA AnnounceInv == ASSUME Inv, NEW c \in Calls, Announce(c) PROVE Inv'
<1> DEFINE m == [changed |-> TRUE, tools |-> {}]
<1>1. m \in Messages /\ m.changed
  BY DEF Messages
<1> HIDE DEF m
<1>2. /\ wire' = Append(wire, m) /\ call[c].step = "announce"
      /\ UNCHANGED <<session, open, pending, client, asked>>
      /\ call' = [call EXCEPT ![c]["step"] = "announced"]
  BY DEF Announce, Step, gateVars, m
<1>3. /\ DOMAIN call' = Calls /\ \A d \in Calls : call'[d] = [y \in Fields |-> call'[d][y]]
      /\ \A d \in Calls : d # c => call'[d] = call[d]
      /\ call'[c].step = "announced" /\ call'[c].before = call[c].before
  BY <1>2, Updated DEF Inv, Fields
<1>4. /\ wire \in Seq(Messages) /\ wire' \in Seq(Messages) /\ Len(wire) \in Nat
      /\ Len(wire') = Len(wire) + 1 /\ wire'[Len(wire')] = m
  BY <1>1, <1>2 DEF Inv, Shape
<1>5. Shape'
  BY <1>2, <1>3, <1>4 DEF Inv, Shape
<1>6. Visible' = Visible
  BY <1>2 DEF Visible, Scope
<1>7. Gate'
  BY <1>2, <1>3, <1>6 DEF Inv, Gate
<1>8. Tells(wire[Len(wire)])' /\ Len(wire') \in 1..Len(wire')
  BY <1>1, <1>4 DEF Tells
<1>9. \A i \in 1..Len(wire') : ~ Tells(wire[i])' => Len(wire') \in (i + 1)..Len(wire')
  BY <1>1, <1>4 DEF Tells
<1>10. Informed'
  BY <1>8, <1>9 DEF Informed
<1> QED
  BY <1>5, <1>7, <1>10 DEF Inv, Owed

LEMMA MarkAnnouncedInv == ASSUME Inv, NEW c \in Calls, MarkAnnounced(c) PROVE Inv'
<1>1. /\ Free(c) /\ pending' = FALSE /\ UNCHANGED <<session, open, clientVars>>
      /\ call[c].step = "announced"
  BY DEF MarkAnnounced
<1>2. NoCall = [x \in Fields |-> NoCall[x]] /\ NoCall.step = "free"
  BY DEF NoCall, Fields
<1>3. /\ DOMAIN call' = Calls /\ \A d \in Calls : call'[d] = [y \in Fields |-> call'[d][y]]
      /\ \A d \in Calls : d # c => call'[d] = call[d]
      /\ call'[c].step = "free"
  BY <1>1, <1>2 DEF Inv, Shape, Free
<1>4. Shape'
  BY <1>1, <1>3 DEF Inv, Shape, clientVars
<1>5. Visible' = Visible /\ (Informed' <=> Informed) /\ Informed
  BY <1>1 DEF clientVars, Visible, Scope, Informed, Tells, Inv, Owed
<1>6. Gate'
  BY <1>1, <1>3, <1>5 DEF Inv, Gate
<1> QED
  BY <1>4, <1>5, <1>6 DEF Inv, Owed

---------------------------------------------------------------------------
(* Everything else.                                                        *)

LEMMA CallToolInv == ASSUME Inv, NEW c \in Calls, CallTool(c) PROVE Inv'
<1>1. PICK new : /\ call' = [call EXCEPT ![c] = new] /\ new = [x \in Fields |-> new[x]]
                 /\ new.step \in {"token", "work"} /\ new.before = Visible
  <2>1. PICK t \in session.agenda :
          IF t \in GraphTools
          THEN \E k \in Keys :
                call' = [call EXCEPT ![c] = [NoCall EXCEPT
                    !.step = "token", !.tool = t, !.before = Visible, !.key = k,
                    !.since = IF artifact[k[1]].whole THEN artifact[k[1]].version
                              ELSE artifact[k[1]].version - 1]]
          ELSE call' = [call EXCEPT ![c] = [NoCall EXCEPT
                    !.step = "work", !.tool = t, !.before = Visible]]
    BY DEF CallTool
  <2>2. CASE t \in GraphTools
    <3>0. PICK k \in Keys : \E since : call' = [call EXCEPT ![c] = [NoCall EXCEPT
                    !.step = "token", !.tool = t, !.before = Visible, !.key = k, !.since = since]]
      BY <2>1, <2>2
    <3>1. PICK since : call' = [call EXCEPT ![c] = [NoCall EXCEPT
                    !.step = "token", !.tool = t, !.before = Visible, !.key = k, !.since = since]]
      BY <3>0
    <3> DEFINE new == [NoCall EXCEPT !.step = "token", !.tool = t, !.before = Visible, !.key = k, !.since = since]
    <3>2. new = [x \in Fields |-> new[x]] /\ new.step = "token" /\ new.before = Visible
      BY DEF NoCall, Fields
    <3> QED
      BY <3>1, <3>2
  <2>3. CASE t \notin GraphTools
    <3> DEFINE new == [NoCall EXCEPT !.step = "work", !.tool = t, !.before = Visible]
    <3>1. new = [x \in Fields |-> new[x]] /\ new.step = "work" /\ new.before = Visible
      BY DEF NoCall, Fields
    <3> QED
      BY <2>1, <2>3, <3>1
  <2> QED
    BY <2>2, <2>3
<1>2. UNCHANGED <<gateVars, clientVars>>
  BY DEF CallTool
<1>3. /\ DOMAIN call' = Calls /\ \A d \in Calls : call'[d] = [y \in Fields |-> call'[d][y]]
      /\ \A d \in Calls : d # c => call'[d] = call[d]
      /\ call'[c] = new
  BY <1>1 DEF Inv, Shape
<1>4. Shape'
  BY <1>2, <1>3 DEF Inv, Shape, gateVars, clientVars
<1>5. Visible' = Visible /\ (Informed' <=> Informed)
  BY <1>2 DEF gateVars, clientVars, Visible, Scope, Informed, Tells
<1>6. Gate'
  BY <1>1, <1>2, <1>3, <1>5 DEF Inv, Gate, gateVars
<1>7. Owed'
  BY <1>1, <1>2, <1>3, <1>5 DEF Inv, Owed, gateVars
<1> QED
  BY <1>4, <1>6, <1>7 DEF Inv

\* A call in the middle of its work takes a further step.
LEMMA WorkInv ==
    ASSUME Inv, NEW c \in Calls, NEW s, s \notin {"announce", "announced"}, Step(c, s),
           call[c].step # "free", UNCHANGED <<gateVars, clientVars>>
    PROVE  Inv'
<1>1. call' = [call EXCEPT ![c]["step"] = s]
  BY DEF Step
<1>2. /\ DOMAIN call' = Calls /\ \A d \in Calls : call'[d] = [y \in Fields |-> call'[d][y]]
      /\ \A d \in Calls : d # c => call'[d] = call[d]
      /\ call'[c].step = s /\ call'[c].before = call[c].before
  BY <1>1, Updated DEF Inv, Fields
<1>3. Shape'
  BY <1>2 DEF Inv, Shape, gateVars, clientVars
<1>4. Visible' = Visible /\ (Informed' <=> Informed)
  BY DEF gateVars, clientVars, Visible, Scope, Informed, Tells
<1>5. Gate'
  BY <1>2, <1>4 DEF Inv, Gate, gateVars
<1>6. Owed'
  BY <1>2, <1>4 DEF Inv, Owed, gateVars
<1> QED
  BY <1>3, <1>5, <1>6 DEF Inv

\* So it does when it writes another field, which its announcement does not ask about.
LEMMA NoteInv ==
    ASSUME Inv, NEW c \in Calls, NEW s, s \notin {"announce", "announced"}, NEW x \in Fields, NEW v,
           x \notin {"step", "before"}, call[c].step # "free",
           call' = [call EXCEPT ![c].step = s, ![c][x] = v], UNCHANGED <<gateVars, clientVars>>
    PROVE  Inv'
<1>1. /\ DOMAIN call' = Calls /\ \A d \in Calls : call'[d] = [y \in Fields |-> call'[d][y]]
      /\ \A d \in Calls : d # c => call'[d] = call[d]
      /\ call'[c].step = s /\ call'[c].before = call[c].before
  BY DEF Inv, Shape, Fields
<1>2. Shape'
  BY <1>1 DEF Inv, Shape, gateVars, clientVars
<1>3. Visible' = Visible /\ (Informed' <=> Informed)
  BY DEF gateVars, clientVars, Visible, Scope, Informed, Tells
<1>4. Gate'
  BY <1>1, <1>3 DEF Inv, Gate, gateVars
<1>5. Owed'
  BY <1>1, <1>3 DEF Inv, Owed, gateVars
<1> QED
  BY <1>2, <1>4, <1>5 DEF Inv

LEMMA CancelInv == ASSUME Inv, NEW c \in Calls, CancelCall(c) PROVE Inv'
<1>1. UNCHANGED <<gateVars, clientVars>>
  BY DEF CancelCall
<1>2. CASE Free(c)
  BY <1>1, <1>2, FreedElsewhere
<1>3. CASE call' = [call EXCEPT ![c].cancelled = TRUE]
  <2>1. /\ DOMAIN call' = Calls /\ \A d \in Calls : call'[d] = [y \in Fields |-> call'[d][y]]
        /\ \A d \in Calls : d # c => call'[d] = call[d]
        /\ call'[c].step = call[c].step /\ call'[c].before = call[c].before
    BY <1>3, Updated DEF Inv, Fields
  <2>2. Shape'
    BY <1>1, <2>1 DEF Inv, Shape, gateVars, clientVars
  <2>3. Visible' = Visible /\ (Informed' <=> Informed)
    BY <1>1 DEF gateVars, clientVars, Visible, Scope, Informed, Tells
  <2>4. Gate'
    BY <1>1, <2>1, <2>3 DEF Inv, Gate, gateVars
  <2>5. Owed'
    BY <1>1, <2>1, <2>3 DEF Inv, Owed, gateVars
  <2> QED
    BY <2>2, <2>4, <2>5 DEF Inv
<1> QED
  BY <1>2, <1>3 DEF CancelCall

LEMMA GraphInv == ASSUME Inv, NEW c \in Calls, GraphCall(c) PROVE Inv'
<1>1. UNCHANGED <<gateVars, clientVars>>
  BY DEF GraphCall, ReadToken, LookUpGraph, BuildGraph, StoreGraph, RenderGraph
<1>2. CASE ReadToken(c)
  BY <1>1, <1>2, NoteInv DEF ReadToken, Fields
<1>3. CASE LookUpGraph(c)
  <2>1. \/ Step(c, "build")
        \/ \E v : call' = [call EXCEPT ![c].step = "answered", ![c].answer = v]
    BY <1>3 DEF LookUpGraph
  <2>2. call[c].step # "free"
    BY <1>3 DEF LookUpGraph
  <2> QED
    BY <1>1, <2>1, <2>2, WorkInv, NoteInv DEF Fields
<1>4. CASE BuildGraph(c)
  <2>1. \E s \in {"store", "finish"} : \E v : call' = [call EXCEPT ![c].step = s, ![c].answer = v]
    BY <1>4 DEF BuildGraph
  <2>2. call[c].step # "free"
    BY <1>4 DEF BuildGraph
  <2> QED
    BY <1>1, <2>1, <2>2, NoteInv DEF Fields
<1>5. CASE StoreGraph(c) \/ RenderGraph(c)
  BY <1>1, <1>5, WorkInv DEF StoreGraph, RenderGraph
<1> QED
  BY <1>2, <1>3, <1>4, <1>5 DEF GraphCall

LEMMA NextInv == Inv /\ [ServerNext]_serverVars => Inv'
<1> SUFFICES ASSUME Inv, [ServerNext]_serverVars PROVE Inv'
  OBVIOUS
<1>1. CASE ListTools \/ ClientReceives
  BY <1>1, ListToolsInv, ClientReceivesInv
<1>2. ASSUME NEW c \in Calls, ToolRaises(c) \/ AnnounceLost(c)
      PROVE  Inv'
  BY <1>2, FreedElsewhere DEF ToolRaises, AnnounceLost
<1>3. ASSUME NEW c \in Calls, SkipRecording(c) \/ StartRecording(c)
      PROVE  Inv'
  BY <1>3, WorkInv DEF SkipRecording, StartRecording
<1>4. ASSUME NEW c \in Calls, ThreadRecords(c)
      PROVE  Inv'
  <2>1. CASE UNCHANGED call
    BY <1>4, <2>1, Untouched DEF ThreadRecords
  <2>2. CASE Step(c, "finish")
    BY <1>4, <2>2, WorkInv DEF ThreadRecords
  <2> QED
    BY <1>4, <2>1, <2>2 DEF ThreadRecords
<1>5. CASE UNCHANGED <<gateVars, clientVars, call>>
  BY <1>5, Untouched
<1>6. ASSUME NEW path \in Path, ExportGraph(path)
      PROVE  Inv'
  BY <1>5, <1>6 DEF ExportGraph
<1>7. CASE UNCHANGED serverVars
  BY <1>5, <1>7 DEF serverVars
<1> QED
  BY <1>1, <1>2, <1>3, <1>4, <1>5, <1>6, <1>7, CallToolInv, CancelInv, FinishInv, AnnounceInv,
     MarkAnnouncedInv, GraphInv DEF ServerNext, ServeCall

\* Whatever calls overlap, fail or are cancelled, and whatever announcements are
\* lost, a client that holds another list than the one advertised is owed an
\* announcement or about to hear (integrations/mcp.py call_tool, DisclosureGate).
THEOREM ClientIsNotStranded == ServerSpec => []NobodyStranded
<1>1. ServerInit => Inv
  BY InitInv
<1>2. Inv => NobodyStranded
  BY DEF Inv, Owed, Informed, Tells, NobodyStranded
<1> QED
  BY <1>1, <1>2, NextInv, PTL DEF ServerSpec

---------------------------------------------------------------------------
(* Graph answers.  A token is of an export that was complete, or was being *)
(* written, when it was read; Settled is the last complete one it vouches  *)
(* for.  It never falls, so what a token vouched for, a graph that is read *)
(* after it has.                                                           *)

Tokens == [version : Nat, whole : BOOLEAN]

Settled(token) == IF token.whole THEN token.version ELSE token.version - 1

\* A request is not behind what had been exported when it came in: neither the
\* token it has read, nor the graph it has built or found.
Current(r) ==
    /\ r.step \in {"token", "lookup", "build", "store", "answered"} => r.key \in Keys /\ r.since \in Int
    /\ r.step = "token" => r.since <= Settled(artifact[r.key[1]])
    /\ r.step \in {"lookup", "build", "store"} =>
          r.token \in Tokens /\ r.since <= Settled(r.token)
                             /\ Settled(r.token) <= Settled(artifact[r.key[1]])
    /\ r.step = "store" => r.answer \in Nat /\ Settled(r.token) <= r.answer
    /\ r.step = "answered" => r.answer \in Int /\ r.since <= r.answer

\* Nor is a graph in the cache behind the token it is found by.
Cache == {e \in [key : Keys, token : Tokens, graph : Nat] : Settled(e.token) <= e.graph}

Graphs ==
    /\ artifact \in [Path -> Tokens]
    /\ cache \in Seq(Cache)
    /\ \A c \in Calls : Current(call[c])

LEMMA SettledType == \A token \in Tokens : Settled(token) \in Int
BY DEF Tokens, Settled

LEMMA KeyPath == \A k \in Keys : k[1] \in Path
BY DEF Path

\* A call that does nothing with graphs, or is free, is current.
LEMMA ElsewhereCurrent ==
    ASSUME Graphs, UNCHANGED graphVars,
           \A c \in Calls : \/ call'[c].step \notin {"token", "lookup", "build", "store", "answered"}
                            \/ /\ call'[c].step = call[c].step /\ call'[c].key = call[c].key
                               /\ call'[c].since = call[c].since /\ call'[c].token = call[c].token
                               /\ call'[c].answer = call[c].answer
    PROVE  Graphs'
BY DEF Graphs, graphVars, Current

LEMMA CallToolGraphs ==
    ASSUME Shape, Graphs, NEW c \in Calls, CallTool(c)
    PROVE  Graphs'
<1>1. PICK t \in session.agenda :
          IF t \in GraphTools
          THEN \E k \in Keys :
                call' = [call EXCEPT ![c] = [NoCall EXCEPT
                    !.step = "token", !.tool = t, !.before = Visible, !.key = k,
                    !.since = IF artifact[k[1]].whole THEN artifact[k[1]].version
                              ELSE artifact[k[1]].version - 1]]
          ELSE call' = [call EXCEPT ![c] = [NoCall EXCEPT
                    !.step = "work", !.tool = t, !.before = Visible]]
  BY DEF CallTool
<1>2. UNCHANGED graphVars /\ \A d \in Calls : d # c => call'[d] = call[d]
  BY <1>1 DEF CallTool, Shape
<1>3. CASE t \in GraphTools
  <2>1. PICK k \in Keys :
            call' = [call EXCEPT ![c] = [NoCall EXCEPT
                    !.step = "token", !.tool = t, !.before = Visible, !.key = k,
                    !.since = IF artifact[k[1]].whole THEN artifact[k[1]].version
                              ELSE artifact[k[1]].version - 1]]
    BY <1>1, <1>3
  <2>2. call'[c].step = "token" /\ call'[c].key = k /\ call'[c].since = Settled(artifact[k[1]])
    BY <2>1 DEF Shape, NoCall, Settled
  <2>3. Settled(artifact[k[1]]) \in Int
    BY SettledType, KeyPath DEF Graphs
  <2>4. Current(call[c])'
    BY <1>2, <2>2, <2>3 DEF Current, graphVars
  <2> QED
    BY <1>2, <2>4 DEF Graphs, Current, graphVars
<1>4. CASE t \notin GraphTools
  <2>1. call'[c].step = "work"
    BY <1>1, <1>4 DEF Shape, NoCall
  <2> QED
    BY <1>2, <2>1, ElsewhereCurrent
<1> QED
  BY <1>3, <1>4

\* What a step of a call leaves of it.
LEMMA Stepped ==
    ASSUME Shape, NEW c \in Calls, NEW s, Step(c, s)
    PROVE  /\ call'[c].step = s
           /\ \A y \in Fields \ {"step"} : call'[c][y] = call[c][y]
           /\ \A d \in Calls : d # c => call'[d] = call[d]
BY DEF Shape, Fields, Step

LEMMA ReadTokenGraphs ==
    ASSUME Shape, Graphs, NEW c \in Calls, ReadToken(c)
    PROVE  Graphs'
<1>1. /\ call[c].step = "token" /\ UNCHANGED graphVars
      /\ call' = [call EXCEPT ![c].step = "lookup", ![c].token = artifact[call[c].key[1]]]
  BY DEF ReadToken, Token
<1>2. /\ call'[c].step = "lookup" /\ call'[c].token = artifact[call[c].key[1]]
      /\ call'[c].key = call[c].key /\ call'[c].since = call[c].since
      /\ \A d \in Calls : d # c => call'[d] = call[d]
  BY <1>1 DEF Shape, Fields
<1>3. /\ call[c].key \in Keys /\ call[c].since \in Int
      /\ call[c].since <= Settled(artifact[call[c].key[1]])
  BY <1>1 DEF Graphs, Current
<1>4. artifact[call[c].key[1]] \in Tokens
  BY <1>3, KeyPath DEF Graphs
<1>5. Current(call[c])'
  BY <1>1, <1>2, <1>3, <1>4, SettledType DEF Current, graphVars
<1> QED
  BY <1>1, <1>2, <1>5 DEF Graphs, Current, graphVars

LEMMA WithoutCache ==
    ASSUME cache \in Seq(Cache), NEW key
    PROVE  Without(key) \in Seq(Cache)
<1>1. CASE Entries(key) = {}
  BY <1>1 DEF Without
<1>2. CASE Entries(key) # {}
  <2>1. PICK i \in Entries(key) : Without(key) = RemoveAt(cache, i)
    BY <1>2 DEF Without
  <2>2. i \in 1..Len(cache)
    BY DEF Entries
  <2>3. SubSeq(cache, 1, i - 1) \in Seq(Cache) /\ SubSeq(cache, i + 1, Len(cache)) \in Seq(Cache)
    BY <2>2
  <2> QED
    BY <2>1, <2>3 DEF RemoveAt
<1> QED
  BY <1>1, <1>2

LEMMA LookUpGraphGraphs ==
    ASSUME Shape, Graphs, NEW c \in Calls, LookUpGraph(c)
    PROVE  Graphs'
<1>1. call[c].step = "lookup" /\ UNCHANGED artifact
  BY DEF LookUpGraph
<1>2. CASE Step(c, "build") /\ UNCHANGED cache
  <2>1. /\ call'[c].step = "build"
        /\ call'[c].key = call[c].key /\ call'[c].since = call[c].since /\ call'[c].token = call[c].token
        /\ \A d \in Calls : d # c => call'[d] = call[d]
    BY <1>2, Stepped DEF Fields
  <2>2. Current(call[c])'
    BY <1>1, <2>1 DEF Graphs, Current
  <2> QED
    BY <1>1, <1>2, <2>1, <2>2 DEF Graphs, Current
<1>3. ASSUME NEW i \in Entries(call[c].key), cache[i].token = call[c].token,
             call' = [call EXCEPT ![c].step = "answered", ![c].answer = cache[i].graph],
             cache' = Append(Without(call[c].key), cache[i])
      PROVE  Graphs'
  <2>1. /\ call'[c].step = "answered" /\ call'[c].answer = cache[i].graph
        /\ call'[c].key = call[c].key /\ call'[c].since = call[c].since
        /\ \A d \in Calls : d # c => call'[d] = call[d]
    BY <1>3 DEF Shape, Fields
  <2>2. cache[i] \in Cache
    BY DEF Entries, Graphs
  <2>3. cache' \in Seq(Cache)
    BY <1>3, <2>2, WithoutCache DEF Graphs
  <2>4. /\ call[c].key \in Keys /\ call[c].since \in Int /\ call[c].token \in Tokens
        /\ call[c].since <= Settled(call[c].token)
    BY <1>1 DEF Graphs, Current
  <2>5. cache[i].graph \in Nat /\ Settled(call[c].token) <= cache[i].graph
    BY <1>3, <2>2 DEF Cache
  <2>6. Current(call[c])'
    BY <2>1, <2>4, <2>5, SettledType DEF Current
  <2> QED
    BY <1>1, <2>1, <2>3, <2>6 DEF Graphs, Current
<1> QED
  BY <1>2, <1>3 DEF LookUpGraph

LEMMA BuildGraphGraphs ==
    ASSUME Shape, Graphs, NEW c \in Calls, BuildGraph(c)
    PROVE  Graphs'
<1> DEFINE file == artifact[call[c].key[1]]
<1>1. /\ call[c].step = "build" /\ UNCHANGED graphVars
      /\ call' = [call EXCEPT ![c].step = IF file.whole THEN "store" ELSE "finish",
                              ![c].answer = IF file.whole THEN file.version ELSE NONE]
  BY DEF BuildGraph
<1>2. /\ call'[c].step = IF file.whole THEN "store" ELSE "finish"
      /\ call'[c].answer = IF file.whole THEN file.version ELSE NONE
      /\ call'[c].key = call[c].key /\ call'[c].since = call[c].since /\ call'[c].token = call[c].token
      /\ \A d \in Calls : d # c => call'[d] = call[d]
  <2> HIDE DEF file
  <2> QED
    BY <1>1 DEF Shape, Fields
<1>3. /\ call[c].key \in Keys /\ call[c].since \in Int /\ call[c].token \in Tokens
      /\ call[c].since <= Settled(call[c].token) /\ Settled(call[c].token) <= Settled(file)
  BY <1>1 DEF Graphs, Current
<1>4. file \in Tokens
  BY <1>3, KeyPath DEF Graphs
<1>5. file.whole => file.version = Settled(file) /\ file.version \in Nat
  BY <1>4 DEF Settled, Tokens
<1>6. file' = file
  BY <1>1, <1>2 DEF graphVars
<1>7. Current(call[c])'
  <2> HIDE DEF file
  <2>1. /\ call'[c].step = "store" =>
            call'[c].answer \in Nat /\ Settled(call'[c].token) <= call'[c].answer
        /\ call'[c].step \in {"store", "finish"}
    BY <1>2, <1>3, <1>5
  <2>2. artifact'[call'[c].key[1]] = file
    BY <1>1, <1>2 DEF file, graphVars
  <2> QED
    BY <1>2, <1>3, <2>1, <2>2 DEF Current
<1> QED
  BY <1>1, <1>2, <1>7 DEF Graphs, Current, graphVars

LEMMA StoreGraphGraphs ==
    ASSUME Shape, Graphs, NEW c \in Calls, StoreGraph(c)
    PROVE  Graphs'
<1> DEFINE entry == [key |-> call[c].key, token |-> call[c].token, graph |-> call[c].answer]
           all == Append(Without(call[c].key), entry)
<1>1. /\ call[c].step = "store" /\ UNCHANGED artifact /\ Step(c, "answered")
      /\ cache' = IF Len(all) > CacheSize THEN Tail(all) ELSE all
  BY DEF StoreGraph, StoredToken
<1>2. /\ call'[c].step = "answered" /\ call'[c].answer = call[c].answer
      /\ call'[c].key = call[c].key /\ call'[c].since = call[c].since
      /\ \A d \in Calls : d # c => call'[d] = call[d]
  BY <1>1, Stepped DEF Fields
<1>3. /\ call[c].key \in Keys /\ call[c].since \in Int /\ call[c].token \in Tokens
      /\ call[c].since <= Settled(call[c].token)
      /\ call[c].answer \in Nat /\ Settled(call[c].token) <= call[c].answer
  BY <1>1 DEF Graphs, Current
<1>4. entry \in Cache
  BY <1>3 DEF Cache
<1>5. cache' \in Seq(Cache)
  <2> HIDE DEF entry
  <2>1. all \in Seq(Cache) /\ all # <<>>
    BY <1>4, WithoutCache DEF Graphs
  <2> HIDE DEF all
  <2> QED
    BY <1>1, <2>1
<1>6. Current(call[c])'
  BY <1>2, <1>3, SettledType DEF Current
<1> QED
  BY <1>1, <1>2, <1>5, <1>6 DEF Graphs, Current

LEMMA RenderGraphGraphs ==
    ASSUME Shape, Graphs, NEW c \in Calls, RenderGraph(c)
    PROVE  Graphs'
<1>1. UNCHANGED graphVars /\ Step(c, "finish")
  BY DEF RenderGraph
<1>2. call'[c].step = "finish" /\ \A d \in Calls : d # c => call'[d] = call[d]
  BY <1>1, Stepped
<1> QED
  BY <1>1, <1>2, ElsewhereCurrent

\* An export, begun or completed, takes nothing away of what is complete.
LEMMA ExportGraphGraphs ==
    ASSUME Graphs, NEW path \in Path, ExportGraph(path)
    PROVE  Graphs'
<1>1. /\ UNCHANGED <<call, cache>>
      /\ artifact' = [artifact EXCEPT ![path] =
            IF artifact[path].whole THEN [version |-> artifact[path].version + 1, whole |-> FALSE]
            ELSE [artifact[path] EXCEPT !.whole = TRUE]]
  BY DEF ExportGraph
<1>2. artifact \in [Path -> Tokens] /\ artifact[path] \in Tokens
  BY DEF Graphs
<1>3. /\ artifact'[path] \in Tokens
      /\ Settled(artifact[path]) <= Settled(artifact'[path])
  <2>1. CASE artifact[path].whole
    BY <1>1, <1>2, <2>1 DEF Tokens, Settled
  <2>2. CASE ~ artifact[path].whole
    <3>1. artifact'[path] = [artifact[path] EXCEPT !.whole = TRUE]
      BY <1>1, <1>2, <2>2
    <3>2. artifact'[path] = [version |-> artifact[path].version, whole |-> TRUE]
      BY <1>2, <3>1 DEF Tokens
    <3> QED
      BY <1>2, <2>2, <3>2 DEF Tokens, Settled
  <2> QED
    BY <2>1, <2>2
<1>4. artifact' \in [Path -> Tokens] /\ \A p \in Path : p # path => artifact'[p] = artifact[p]
  BY <1>1, <1>2, <1>3
<1>5. \A p \in Path : /\ Settled(artifact[p]) \in Int /\ Settled(artifact'[p]) \in Int
                      /\ Settled(artifact[p]) <= Settled(artifact'[p])
  BY <1>2, <1>3, <1>4, SettledType
<1>6. ASSUME NEW c \in Calls PROVE Current(call[c])'
  <2>1. Current(call[c])
    BY DEF Graphs
  <2>2. CASE call[c].step \in {"token", "lookup", "build", "store", "answered"}
    <3>1. call[c].key \in Keys /\ call[c].key[1] \in Path /\ call[c].since \in Int
      BY <2>1, <2>2, KeyPath DEF Current
    <3>2. /\ Settled(artifact[call[c].key[1]]) <= Settled(artifact'[call[c].key[1]])
          /\ Settled(artifact[call[c].key[1]]) \in Int /\ Settled(artifact'[call[c].key[1]]) \in Int
      BY <1>5, <3>1
    <3>3. call[c].step \in {"lookup", "build", "store"} => Settled(call[c].token) \in Int
      BY <2>1, SettledType DEF Current
    <3> QED
      BY <1>1, <2>1, <3>1, <3>2, <3>3 DEF Current
  <2>3. CASE call[c].step \notin {"token", "lookup", "build", "store", "answered"}
    BY <1>1, <2>3 DEF Current
  <2> QED
    BY <2>2, <2>3
<1> QED
  BY <1>1, <1>4, <1>6 DEF Graphs

\* What a freed call, or one whose other fields change, leaves.
LEMMA FreedGraphs ==
    ASSUME Shape, Graphs, NEW c \in Calls, Free(c), UNCHANGED graphVars
    PROVE  Graphs'
<1>1. call'[c].step = "free" /\ \A d \in Calls : d # c => call'[d] = call[d]
  BY DEF Shape, Free, NoCall
<1> QED
  BY <1>1, ElsewhereCurrent

LEMMA SteppedGraphs ==
    ASSUME Shape, Graphs, NEW c \in Calls, UNCHANGED graphVars,
           NEW s \in {"announce", "announced", "record", "finish"}, Step(c, s)
    PROVE  Graphs'
<1>1. call'[c].step = s /\ \A d \in Calls : d # c => call'[d] = call[d]
  BY Stepped
<1> QED
  BY <1>1, ElsewhereCurrent

LEMMA CancelGraphs ==
    ASSUME Shape, Graphs, NEW c \in Calls, CancelCall(c)
    PROVE  Graphs'
<1>1. UNCHANGED graphVars
  BY DEF CancelCall
<1>2. CASE call' = [call EXCEPT ![c].cancelled = TRUE]
  <2>1. /\ \A d \in Calls : d # c => call'[d] = call[d]
        /\ \A y \in Fields \ {"cancelled"} : call'[c][y] = call[c][y]
    BY <1>2 DEF Shape, Fields
  <2>2. /\ call'[c].step = call[c].step /\ call'[c].key = call[c].key
        /\ call'[c].since = call[c].since /\ call'[c].token = call[c].token
        /\ call'[c].answer = call[c].answer
    BY <2>1 DEF Fields
  <2> QED
    BY <1>1, <2>1, <2>2, ElsewhereCurrent
<1> QED
  BY <1>1, <1>2, FreedGraphs DEF CancelCall

LEMMA NextGraphs ==
    ASSUME Shape, Graphs, [ServerNext]_serverVars
    PROVE  Graphs'
<1>1. CASE UNCHANGED <<call, graphVars>>
  BY <1>1, ElsewhereCurrent
<1>2. CASE ListTools \/ ClientReceives
  BY <1>1, <1>2 DEF ListTools, ClientReceives
<1>3. ASSUME NEW c \in Calls, ToolRaises(c) \/ AnnounceLost(c) \/ MarkAnnounced(c)
      PROVE  Graphs'
  BY <1>3, FreedGraphs DEF ToolRaises, AnnounceLost, MarkAnnounced
<1>4. ASSUME NEW c \in Calls, SkipRecording(c) \/ StartRecording(c) \/ Announce(c)
      PROVE  Graphs'
  BY <1>4, SteppedGraphs DEF SkipRecording, StartRecording, Announce
<1>5. ASSUME NEW c \in Calls, Finish(c)
      PROVE  Graphs'
  BY <1>5, SteppedGraphs, FreedGraphs DEF Finish
<1>6. ASSUME NEW c \in Calls, ThreadRecords(c)
      PROVE  Graphs'
  BY <1>1, <1>6, SteppedGraphs DEF ThreadRecords
<1>7. ASSUME NEW c \in Calls, GraphCall(c)
      PROVE  Graphs'
  BY <1>7, ReadTokenGraphs, LookUpGraphGraphs, BuildGraphGraphs, StoreGraphGraphs, RenderGraphGraphs
     DEF GraphCall
<1>8. CASE UNCHANGED serverVars
  BY <1>1, <1>8 DEF serverVars
<1> QED
  BY <1>1, <1>2, <1>3, <1>4, <1>5, <1>6, <1>7, <1>8, CallToolGraphs, CancelGraphs, ExportGraphGraphs
     DEF ServerNext, ServeCall

\* However token reads, builds, stores, evictions and exports interleave, a graph
\* answer is of the last export that was complete when the call came in, or of a
\* later one (integrations/mcp.py _cached_graph_query).
THEOREM GraphAnswersAreCurrent == ServerSpec => []GraphAnswerIsCurrent
<1>1. ServerInit => Inv /\ Graphs
  <2> SUFFICES ASSUME ServerInit PROVE Graphs
    BY InitInv
  <2>1. artifact \in [Path -> Tokens] /\ cache = <<>>
    BY DEF ServerInit, Tokens
  <2>2. \A c \in Calls : call[c].step = "free"
    BY DEF ServerInit, NoCall
  <2> QED
    BY <2>1, <2>2 DEF Graphs, Current
<1>2. Inv /\ Graphs /\ [ServerNext]_serverVars => Inv' /\ Graphs'
  BY NextInv, NextGraphs DEF Inv
<1>3. Graphs => GraphAnswerIsCurrent
  BY DEF Graphs, Current, GraphAnswerIsCurrent
<1> QED
  BY <1>1, <1>2, <1>3, PTL DEF ServerSpec

---------------------------------------------------------------------------
(* The ledger.  What is said of its books is said of tables, recorders and *)
(* counts as values, so that it can be said of those of the next state.    *)

RecFields == {"step", "n", "root", "repo", "file", "tracing", "day"}

Early == {"policy", "lookup", "register"}

\* A recording that is under way, of today or of an earlier day.
UnderWay(r, today, last) ==
    /\ r = [x \in RecFields |-> r[x]] /\ r.day \in 0..today
    /\ r.step # "rest" => r.n \in 1..last /\ r.root \in Roots
    /\ r.step = "insert" => r.repo \in 1..last

\* Two of them do not share an id, nor will the one register under an id that
\* the other has found its repository by.
Apart(r, s) ==
    /\ r.step # "rest" /\ s.step # "rest" => r.n # s.n
    /\ r.step \in Early /\ s.step = "insert" => s.repo # r.n

\* The file knows nothing yet of a recording, and a repository that it is to be
\* entered for is the one it is of.
Fits(r, l) ==
    /\ r.step # "rest" => \A e \in l.events : e.n # r.n
    /\ r.step \in Early => \A root \in Roots : l.repos[root] # r.n
    /\ r.step = "insert" => \A root \in Roots : l.repos[root] = r.repo => root = r.root

Entered(l, id, d) == {e \in l.events : e.repo = id /\ e.day = d}

\* What holds of the rows by themselves.
Sound(l, today, last) ==
    /\ l \in Ledgers /\ IsFiniteSet(l.events)
    /\ \A r \in Roots : l.repos[r] # NONE => l.repos[r] \in 1..last
    /\ \A r, s \in Roots : l.repos[r] # NONE /\ l.repos[r] = l.repos[s] => r = s
    /\ \A e \in l.events : /\ e.n \in 1..last /\ e.day \in 0..today
                           /\ \E r \in Roots : l.repos[r] = e.repo
    /\ \A e, f \in l.events : e.n = f.n => e = f
    /\ \A id \in RepoId : (\A r \in Roots : l.repos[r] # id) => \A d \in Day : l.daily[<<id, d>>] = 0

\* The rows are the history k of what was committed to the file.
Balanced(l, k, today) ==
    /\ k \in [Roots -> [Day -> Nat]]
    /\ \A r \in Roots : \A d \in Day :
          /\ k[r][d] = IF l.repos[r] = NONE THEN 0 ELSE l.daily[<<l.repos[r], d>>]
          /\ d >= today - RawRetention => k[r][d] = Cardinality(Entered(l, l.repos[r], d))

Books(l, k, today, last) == Sound(l, today, last) /\ Balanced(l, k, today)

LedgerInv ==
    /\ day \in Day /\ begun \in 0..MaxEvents /\ deletes \in Nat
    /\ DOMAIN rec = Recorders
    /\ \A p \in Recorders : UnderWay(rec[p], day, begun) /\ Fits(rec[p], Connected)
    /\ \A p, q \in Recorders : p # q => Apart(rec[p], rec[q])
    /\ ledger = NONE \/ ledger \in Ledgers
    /\ Books(Connected, kept, day, begun)

LEMMA InvReports == LedgerInv => ReportIsHistory
<1> SUFFICES ASSUME LedgerInv, ledger # NONE PROVE ReportIsHistory
  BY DEF ReportIsHistory
<1>1. Connected = ledger
  BY DEF Connected
<1>2. Balanced(ledger, kept, day)
  BY <1>1 DEF LedgerInv, Books
<1> QED
  BY ONLY <1>2 DEF Balanced, Entered, ReportIsHistory

LEMMA EmptyBooks ==
    ASSUME NEW born \in Nat, NEW today \in Day, NEW last \in 0..MaxEvents, NEW l,
           l = [born |-> born, repos |-> [r \in Roots |-> NONE], events |-> {},
                daily |-> [x \in RepoId \X Day |-> 0],
                enabled |-> FALSE, tracing |-> FALSE, health |-> "ok"]
    PROVE  /\ Books(l, NoneKept, today, last)
           /\ \A r : UnderWay(r, today, last) => Fits(r, l)
<1>1. l \in Ledgers
  BY DEF Ledgers
<1>2. /\ l.events = {} /\ \A r \in Roots : l.repos[r] = NONE
      /\ \A id \in RepoId : \A d \in Day : l.daily[<<id, d>>] = 0
  OBVIOUS
<1> HIDE DEF Ledgers
<1>3. Sound(l, today, last)
  BY <1>1, <1>2, FS_EmptySet DEF Sound
<1>4. Balanced(l, NoneKept, today)
  <2>1. \A d : Entered(l, NONE, d) = {}
    BY <1>2 DEF Entered
  <2>2. NoneKept \in [Roots -> [Day -> Nat]] /\ \A r \in Roots : \A d \in Day : NoneKept[r][d] = 0
    BY DEF NoneKept
  <2> QED
    BY <1>2, <2>1, <2>2, FS_EmptySet DEF Balanced
<1>5. \A r : UnderWay(r, today, last) => Fits(r, l)
  BY <1>2, LedgerAssumption DEF UnderWay, Fits, Early
<1> QED
  BY <1>3, <1>4, <1>5 DEF Books

LEMMA BootstrappedBooks ==
    ASSUME LedgerInv
    PROVE  /\ Bootstrapped \in Ledgers /\ Connected \in Ledgers
           /\ Sound(Connected, day, begun)
<1>1. deletes \in Nat /\ Bootstrapped \in Ledgers
  BY DEF LedgerInv, Bootstrapped, Ledgers
<1> QED
  BY <1>1 DEF LedgerInv, Connected, Books

\* Books that differ in their settings only.
Alike(l, m) == l.repos = m.repos /\ l.events = m.events /\ l.daily = m.daily

LEMMA AlikeBooks ==
    ASSUME NEW l \in Ledgers, NEW m \in Ledgers, Alike(l, m), NEW k, NEW today, NEW last
    PROVE  /\ Books(l, k, today, last) => Books(m, k, today, last)
           /\ \A r : Fits(r, l) => Fits(r, m)
<1>1. \A id, d : Entered(m, id, d) = Entered(l, id, d)
  BY DEF Entered, Alike
<1> QED
  BY <1>1 DEF Books, Sound, Balanced, Fits, Alike

---------------------------------------------------------------------------
(* Pruning: an event that stays, stays with its id, repository and day.    *)

Trimmed(e, now) ==
    [e EXCEPT !.expires = IF e.expires # NONE /\ e.expires < now THEN NONE ELSE e.expires]

Retained(l, now) == {e \in l.events : e.day >= now - RawRetention}

LEMMA TrimmedEvent ==
    ASSUME NEW e \in Event, NEW now
    PROVE  /\ Trimmed(e, now) \in Event
           /\ Trimmed(e, now).n = e.n /\ Trimmed(e, now).repo = e.repo /\ Trimmed(e, now).day = e.day
<1>1. \E x \in Nat \cup {NONE} : Trimmed(e, now) = [e EXCEPT !.expires = x]
  BY DEF Trimmed, Event
<1> QED
  BY <1>1 DEF Event

LEMMA PrunedRows ==
    ASSUME NEW l \in Ledgers, NEW now
    PROVE  /\ Pruned(l, now) \in Ledgers
           /\ Pruned(l, now).repos = l.repos /\ Pruned(l, now).daily = l.daily
           /\ Pruned(l, now).events = {Trimmed(e, now) : e \in Retained(l, now)}
<1>1. Pruned(l, now) = [l EXCEPT !.events = {Trimmed(e, now) : e \in Retained(l, now)}]
  BY DEF Pruned, Trimmed, Retained
<1>2. Retained(l, now) \subseteq Event
  BY DEF Retained, Ledgers
<1>3. {Trimmed(e, now) : e \in Retained(l, now)} \in SUBSET Event
  BY <1>2, TrimmedEvent
<1> DEFINE T == {Trimmed(e, now) : e \in Retained(l, now)}
<1> HIDE DEF T, Event
<1> QED
  BY <1>1, <1>3 DEF Ledgers, T

\* As many are entered for a repository and a day as before the pruning.
LEMMA PrunedCount ==
    ASSUME NEW l \in Ledgers, NEW now \in Int, IsFiniteSet(l.events),
           \A e, f \in l.events : e.n = f.n => e = f,
           NEW id, NEW d \in Int, d >= now - RawRetention
    PROVE  Cardinality(Entered(Pruned(l, now), id, d)) = Cardinality(Entered(l, id, d))
<1> DEFINE S == Entered(l, id, d)
           T == Entered(Pruned(l, now), id, d)
           f == [e \in S |-> Trimmed(e, now)]
<1>1. S \subseteq l.events /\ S \subseteq Retained(l, now) /\ S \subseteq Event
  BY DEF Entered, Retained, Ledgers
<1>2. \A e \in S : Trimmed(e, now) \in T
  BY <1>1, PrunedRows, TrimmedEvent DEF Entered
<1>3. \A x \in T : \E e \in S : x = Trimmed(e, now)
  <2> SUFFICES ASSUME NEW x \in T PROVE \E e \in S : x = Trimmed(e, now)
    OBVIOUS
  <2>1. PICK e \in Retained(l, now) : x = Trimmed(e, now)
    BY PrunedRows DEF Entered
  <2>2. e \in l.events /\ e \in Event /\ x.repo = id /\ x.day = d
    BY DEF Entered, Retained, Ledgers
  <2> QED
    BY <2>1, <2>2, TrimmedEvent DEF Entered
<1>4. \A e, g \in S : Trimmed(e, now) = Trimmed(g, now) => e = g
  BY <1>1, TrimmedEvent
<1>5. IsFiniteSet(S)
  BY <1>1, FS_Subset
<1>6. ExistsBijection(S, T)
  <2> HIDE DEF S, T
  <2>1. f \in [S -> T]
    BY <1>2
  <2>2. f \in Surjection(S, T)
    BY <1>3, <2>1 DEF Surjection
  <2>3. f \in Injection(S, T)
    BY <1>4, <2>1 DEF Injection, IsInjective
  <2> QED
    BY <2>2, <2>3 DEF ExistsBijection, Bijection
<1> QED
  BY <1>5, <1>6, FS_Bijection

LEMMA PrunedBooks ==
    ASSUME NEW k, NEW today \in Day, NEW last \in 0..MaxEvents, NEW l, Books(l, k, today, last),
           NEW now \in 0..today
    PROVE  /\ Books(Pruned(l, now), k, today, last)
           /\ \A r : Fits(r, l) => Fits(r, Pruned(l, now))
<1> DEFINE m == Pruned(l, now)
<1>1. l \in Ledgers /\ Sound(l, today, last) /\ Balanced(l, k, today)
  BY DEF Books, Sound
<1>2. m \in Ledgers /\ m.repos = l.repos /\ m.daily = l.daily
  BY <1>1, PrunedRows
<1>3. m.events = {Trimmed(e, now) : e \in Retained(l, now)}
  BY <1>1, PrunedRows
<1>4. Retained(l, now) \subseteq l.events /\ l.events \subseteq Event
  BY <1>1 DEF Retained, Ledgers
<1>5. \A x \in m.events : \E e \in l.events :
          x = Trimmed(e, now) /\ x.n = e.n /\ x.repo = e.repo /\ x.day = e.day
  BY <1>3, <1>4, TrimmedEvent
<1>6. IsFiniteSet(m.events)
  <2> DEFINE S == Retained(l, now)
             T == m.events
             f == [e \in S |-> Trimmed(e, now)]
  <2>1. IsFiniteSet(S)
    BY <1>1, <1>4, FS_Subset DEF Sound
  <2>2. f \in [S -> T] /\ \A x \in T : \E e \in S : f[e] = x
    BY <1>3
  <2> HIDE DEF S, T, f
  <2>3. f \in Surjection(S, T)
    BY <2>2 DEF Surjection
  <2>4. IsFiniteSet(T)
    BY <2>1, <2>3, FS_Surjection
  <2> QED
    BY <2>4 DEF T
<1>7. \A x, y \in m.events : x.n = y.n => x = y
  BY <1>1, <1>5 DEF Sound
<1>8. today \in Int /\ now \in Int /\ now <= today
  BY DEF Day
<1>9. \A id : \A d \in Day : d >= today - RawRetention =>
          Cardinality(Entered(m, id, d)) = Cardinality(Entered(l, id, d))
  <2> SUFFICES ASSUME NEW id, NEW d \in Day, d >= today - RawRetention
               PROVE  Cardinality(Entered(m, id, d)) = Cardinality(Entered(l, id, d))
    OBVIOUS
  <2>1. d \in Int /\ d >= now - RawRetention
    BY <1>8, LedgerAssumption DEF Day
  <2>2. IsFiniteSet(l.events) /\ \A e, f \in l.events : e.n = f.n => e = f
    BY <1>1 DEF Sound
  <2> HIDE DEF m
  <2> QED
    BY <1>1, <1>8, <2>1, <2>2, PrunedCount DEF m
<1> HIDE DEF m
<1>10. Sound(m, today, last)
  BY <1>1, <1>2, <1>5, <1>6, <1>7 DEF Sound
<1>11. Balanced(m, k, today)
  BY <1>1, <1>2, <1>9 DEF Balanced
<1>12. \A r : Fits(r, l) => Fits(r, m)
  BY <1>2, <1>5 DEF Fits
<1> QED
  BY <1>10, <1>11, <1>12 DEF Books, m

---------------------------------------------------------------------------
(* Entries.                                                                *)

EventOf(r) ==
    [n |-> r.n, repo |-> r.repo, day |-> r.day,
     expires |-> IF r.tracing THEN r.day + TraceRetention ELSE NONE]

LEMMA InsertedRows ==
    ASSUME NEW l \in Ledgers, NEW today \in Day, NEW last \in 0..MaxEvents, NEW r,
           UnderWay(r, today, last), r.step = "insert"
    PROVE  /\ EventOf(r) \in Event /\ r.repo \in RepoId /\ r.day \in Day /\ r.n \in 1..last
           /\ r.root \in Roots /\ r.day \in 0..today
           /\ InsertedEvent(l, r) \in Ledgers
           /\ InsertedEvent(l, r).repos = l.repos
           /\ InsertedEvent(l, r).events = l.events \cup {EventOf(r)}
           /\ InsertedEvent(l, r).daily =
                [l.daily EXCEPT ![<<r.repo, r.day>>] = l.daily[<<r.repo, r.day>>] + 1]
<1>1. /\ r.repo \in RepoId /\ r.day \in Day /\ r.n \in RepoId /\ r.n \in 1..last
      /\ r.root \in Roots /\ r.day \in 0..today /\ r.day \in Nat
  <2>1. /\ r.n \in 1..last /\ r.root \in Roots /\ r.day \in 0..today /\ r.repo \in 1..last
    BY DEF UnderWay
  <2>2. MaxEvents \in Nat /\ MaxDay \in Nat /\ today \in 0..MaxDay
    BY LedgerAssumption DEF Day
  <2> QED
    BY <2>1, <2>2 DEF RepoId, Day
<1>2. EventOf(r) \in Event
  <2>1. r.day + TraceRetention \in Nat
    BY <1>1, LedgerAssumption
  <2> QED
    BY <1>1, <2>1 DEF EventOf, Event
<1> DEFINE daily == [l.daily EXCEPT ![<<r.repo, r.day>>] = l.daily[<<r.repo, r.day>>] + 1]
           events == l.events \cup {EventOf(r)}
<1>3. daily \in [RepoId \X Day -> Nat]
  <2>1. l.daily \in [RepoId \X Day -> Nat] /\ <<r.repo, r.day>> \in RepoId \X Day
    BY <1>1 DEF Ledgers
  <2>2. l.daily[<<r.repo, r.day>>] + 1 \in Nat
    BY <2>1
  <2> QED
    BY <2>1, <2>2
<1>4. events \in SUBSET Event
  BY <1>2 DEF Ledgers
<1>5. InsertedEvent(l, r) = [l EXCEPT !.events = events, !.daily = daily]
  BY DEF InsertedEvent, EventOf
<1> HIDE DEF daily, events, EventOf, Event
<1>6. /\ InsertedEvent(l, r) \in Ledgers /\ InsertedEvent(l, r).repos = l.repos
      /\ InsertedEvent(l, r).events = events /\ InsertedEvent(l, r).daily = daily
  BY <1>3, <1>4, <1>5 DEF Ledgers
<1> QED
  BY <1>1, <1>2, <1>6 DEF daily, events

\* An event that is entered for the repository of its recording is counted once,
\* for that repository and that day.
LEMMA InsertedBooks ==
    ASSUME NEW k, NEW today \in Day, NEW last \in 0..MaxEvents, NEW l, Books(l, k, today, last),
           NEW r, UnderWay(r, today, last), r.step = "insert", Fits(r, l),
           l.repos[r.root] = r.repo
    PROVE  /\ Books(InsertedEvent(l, r), [k EXCEPT ![r.root][r.day] = k[r.root][r.day] + 1], today, last)
           /\ \A s : Fits(s, l) /\ Apart(s, r) => Fits(s, InsertedEvent(l, r))
<1> DEFINE m == InsertedEvent(l, r)
           h == [k EXCEPT ![r.root][r.day] = k[r.root][r.day] + 1]
           e == EventOf(r)
<1>1. l \in Ledgers /\ Sound(l, today, last) /\ Balanced(l, k, today)
  BY DEF Books, Sound
<1>2. /\ e \in Event /\ r.repo \in RepoId /\ r.day \in Day /\ r.n \in 1..last
      /\ r.root \in Roots /\ r.day \in 0..today
      /\ m \in Ledgers /\ m.repos = l.repos /\ m.events = l.events \cup {e}
      /\ m.daily = [l.daily EXCEPT ![<<r.repo, r.day>>] = l.daily[<<r.repo, r.day>>] + 1]
  BY <1>1, InsertedRows
<1>3. e.n = r.n /\ e.repo = r.repo /\ e.day = r.day
  BY DEF EventOf
<1>4. l.daily \in [RepoId \X Day -> Nat]
  BY <1>1 DEF Ledgers
<1>5. \A id \in RepoId : \A d \in Day :
          m.daily[<<id, d>>] = l.daily[<<id, d>>] + IF id = r.repo /\ d = r.day THEN 1 ELSE 0
  <2> SUFFICES ASSUME NEW id \in RepoId, NEW d \in Day
               PROVE  m.daily[<<id, d>>] = l.daily[<<id, d>>] + IF id = r.repo /\ d = r.day THEN 1 ELSE 0
    OBVIOUS
  <2>1. <<id, d>> \in RepoId \X Day /\ <<r.repo, r.day>> \in RepoId \X Day /\ l.daily[<<id, d>>] \in Nat
    BY <1>2, <1>4
  <2>2. CASE id = r.repo /\ d = r.day
    <3>1. m.daily[<<id, d>>] = l.daily[<<id, d>>] + 1
      BY <1>2, <1>4, <2>1, <2>2
    <3> QED
      BY <2>2, <3>1
  <2>3. CASE ~ (id = r.repo /\ d = r.day)
    <3>1. <<id, d>> # <<r.repo, r.day>>
      BY <2>3
    <3>2. m.daily[<<id, d>>] = l.daily[<<id, d>>]
      BY <1>2, <1>4, <2>1, <3>1
    <3> QED
      BY <2>1, <2>3, <3>2
  <2> QED
    BY <2>2, <2>3
<1>6. /\ h \in [Roots -> [Day -> Nat]]
      /\ \A s \in Roots : \A d \in Day :
            h[s][d] = k[s][d] + IF s = r.root /\ d = r.day THEN 1 ELSE 0
  <2>1. k \in [Roots -> [Day -> Nat]]
    BY <1>1 DEF Balanced
  <2>2. \A s \in Roots : k[s] \in [Day -> Nat]
    BY <2>1
  <2> HIDE DEF m, e
  <2> QED
    BY <1>2, <2>1, <2>2
<1> HIDE DEF m, h, e
<1>7. \A f \in l.events : f.n # e.n
  BY <1>3 DEF Fits
<1>8. \A s, t \in Roots : l.repos[s] # NONE /\ l.repos[s] = l.repos[t] => s = t
  BY <1>1 DEF Sound
<1>9. r.repo # NONE
  BY <1>2, LedgerAssumption DEF RepoId
<1>10. Sound(m, today, last)
  <2>1. IsFiniteSet(m.events)
    BY <1>1, <1>2, FS_AddElement DEF Sound
  <2>2. \A f \in m.events : /\ f.n \in 1..last /\ f.day \in 0..today
                            /\ \E s \in Roots : m.repos[s] = f.repo
    BY <1>1, <1>2, <1>3 DEF Sound
  <2>3. \A f, g \in m.events : f.n = g.n => f = g
    BY <1>1, <1>2, <1>7 DEF Sound
  <2>4. \A id \in RepoId : (\A s \in Roots : m.repos[s] # id) => \A d \in Day : m.daily[<<id, d>>] = 0
    BY <1>1, <1>2, <1>5 DEF Sound
  <2> QED
    BY <1>1, <1>2, <2>1, <2>2, <2>3, <2>4 DEF Sound
<1>11. ASSUME NEW s \in Roots, NEW d \in Day
       PROVE  /\ h[s][d] = IF m.repos[s] = NONE THEN 0 ELSE m.daily[<<m.repos[s], d>>]
              /\ d >= today - RawRetention => h[s][d] = Cardinality(Entered(m, m.repos[s], d))
  <2>1. /\ k[s][d] \in Nat /\ k[s][d] = IF l.repos[s] = NONE THEN 0 ELSE l.daily[<<l.repos[s], d>>]
        /\ d >= today - RawRetention => k[s][d] = Cardinality(Entered(l, l.repos[s], d))
    BY <1>1 DEF Balanced
  <2>2. l.repos[s] = r.repo <=> s = r.root
    BY <1>2, <1>8, <1>9
  <2>3. l.repos[s] # NONE => l.repos[s] \in RepoId
    BY <1>1 DEF Ledgers
  <2>4. h[s][d] = IF m.repos[s] = NONE THEN 0 ELSE m.daily[<<m.repos[s], d>>]
    <3>1. CASE l.repos[s] = NONE
      BY <1>2, <1>6, <1>9, <2>1, <2>2, <3>1
    <3>2. CASE l.repos[s] # NONE
      <4>1. m.daily[<<l.repos[s], d>>] =
              l.daily[<<l.repos[s], d>>] + IF s = r.root /\ d = r.day THEN 1 ELSE 0
        BY <1>5, <2>2, <2>3, <3>2
      <4> QED
        BY <1>2, <1>6, <2>1, <3>2, <4>1
    <3> QED
      BY <3>1, <3>2
  <2>5. CASE s = r.root /\ d = r.day
    <3>1. Entered(m, l.repos[s], d) = Entered(l, l.repos[s], d) \cup {e}
      BY <1>2, <1>3, <2>2, <2>5 DEF Entered
    <3>2. e \notin Entered(l, l.repos[s], d)
      BY <1>7 DEF Entered
    <3>3. IsFiniteSet(Entered(l, l.repos[s], d))
      <4>1. Entered(l, l.repos[s], d) \subseteq l.events /\ IsFiniteSet(l.events)
        BY <1>1 DEF Entered, Sound
      <4> QED
        BY <4>1, FS_Subset
    <3>4. Cardinality(Entered(m, l.repos[s], d)) = Cardinality(Entered(l, l.repos[s], d)) + 1
      BY <3>1, <3>2, <3>3, FS_AddElement
    <3> QED
      BY <1>2, <1>6, <2>1, <2>4, <2>5, <3>4
  <2>6. CASE ~ (s = r.root /\ d = r.day)
    <3>1. Entered(m, l.repos[s], d) = Entered(l, l.repos[s], d)
      BY <1>2, <1>3, <2>2, <2>6 DEF Entered
    <3> QED
      BY <1>2, <1>6, <2>1, <2>4, <2>6, <3>1
  <2> QED
    BY <2>5, <2>6
<1>12. Balanced(m, h, today)
  BY <1>6, <1>11 DEF Balanced
<1>13. \A s : Fits(s, l) /\ Apart(s, r) => Fits(s, m)
  <2> SUFFICES ASSUME NEW s, Fits(s, l), Apart(s, r) PROVE Fits(s, m)
    OBVIOUS
  <2>1. s.step # "rest" => \A f \in m.events : f.n # s.n
    BY <1>2, <1>3 DEF Fits, Apart
  <2> QED
    BY <1>2, <2>1 DEF Fits
<1> QED
  BY <1>10, <1>12, <1>13 DEF Books, m, h

Registered(l, root, id) == [l EXCEPT !.repos[root] = id]

\* A repository is registered under an id that no row has.
LEMMA RegisteredBooks ==
    ASSUME NEW k, NEW today \in Day, NEW last \in 0..MaxEvents, NEW l, Books(l, k, today, last),
           NEW root \in Roots, l.repos[root] = NONE, NEW id \in 1..last,
           \A s \in Roots : l.repos[s] # id,
           NEW m, m = Registered(l, root, id)
    PROVE  /\ Books(m, k, today, last)
           /\ \A r : /\ Fits(r, l)
                     /\ r.step \in Early => r.n # id
                     /\ r.step = "insert" => r.repo # id
                     => Fits(r, m)
           /\ \A s \in Roots : m.repos[s] = IF s = root THEN id ELSE l.repos[s]
           /\ m.events = l.events
<1>1. l \in Ledgers /\ Sound(l, today, last) /\ Balanced(l, k, today)
  BY DEF Books, Sound
<1>2. id \in RepoId /\ id # NONE /\ NONE \notin RepoId
  BY LedgerAssumption DEF RepoId
<1>3. /\ m \in Ledgers /\ m.events = l.events /\ m.daily = l.daily
      /\ \A s \in Roots : m.repos[s] = IF s = root THEN id ELSE l.repos[s]
  <2> DEFINE repos == [l.repos EXCEPT ![root] = id]
  <2>1. m = [l EXCEPT !.repos = repos]
    BY DEF Registered
  <2>2. l.repos \in [Roots -> RepoId \cup {NONE}]
    BY <1>1 DEF Ledgers
  <2>3. /\ repos \in [Roots -> RepoId \cup {NONE}]
        /\ \A s \in Roots : repos[s] = IF s = root THEN id ELSE l.repos[s]
    BY <1>2, <2>2
  <2> HIDE DEF repos
  <2>4. m \in Ledgers /\ m.events = l.events /\ m.daily = l.daily /\ m.repos = repos
    BY <1>1, <2>1, <2>3 DEF Ledgers
  <2> QED
    BY <2>3, <2>4
<1>4. \A e \in l.events : e.repo # id /\ e.repo # NONE
  <2>1. \A e \in l.events : e.repo \in RepoId
    BY <1>1 DEF Ledgers, Event
  <2> QED
    BY <1>1, <1>2, <2>1 DEF Sound
<1>5. \A s \in Roots : \A d : Entered(m, m.repos[s], d) = Entered(l, l.repos[s], d)
  BY <1>3, <1>4 DEF Entered
<1>6. \A d \in Day : l.daily[<<id, d>>] = 0
  BY <1>1, <1>2 DEF Sound
<1>7. \A e \in l.events : \E s \in Roots : m.repos[s] = e.repo
  <2> SUFFICES ASSUME NEW e \in l.events PROVE \E s \in Roots : m.repos[s] = e.repo
    OBVIOUS
  <2>1. PICK s \in Roots : l.repos[s] = e.repo
    BY <1>1 DEF Sound
  <2>2. s # root
    BY <1>4, <2>1
  <2> QED
    BY <1>3, <2>1, <2>2
<1> HIDE DEF Books
<1>8. Sound(m, today, last)
  <2>1. \A s \in Roots : m.repos[s] # NONE => m.repos[s] \in 1..last
    BY <1>1, <1>3 DEF Sound
  <2>2. \A s, t \in Roots : m.repos[s] # NONE /\ m.repos[s] = m.repos[t] => s = t
    BY <1>1, <1>3 DEF Sound
  <2>3. \A x \in RepoId : (\A s \in Roots : m.repos[s] # x) => \A s \in Roots : l.repos[s] # x
    BY <1>2, <1>3
  <2> QED
    BY <1>1, <1>3, <1>7, <2>1, <2>2, <2>3 DEF Sound
<1>9. Balanced(m, k, today)
  <2>1. ASSUME NEW s \in Roots, NEW d \in Day
        PROVE  /\ k[s][d] = IF m.repos[s] = NONE THEN 0 ELSE m.daily[<<m.repos[s], d>>]
               /\ d >= today - RawRetention => k[s][d] = Cardinality(Entered(m, m.repos[s], d))
    <3>1. /\ k[s][d] = IF l.repos[s] = NONE THEN 0 ELSE l.daily[<<l.repos[s], d>>]
          /\ d >= today - RawRetention => k[s][d] = Cardinality(Entered(l, l.repos[s], d))
      BY <1>1 DEF Balanced
    <3>2. Entered(m, m.repos[s], d) = Entered(l, l.repos[s], d)
      BY <1>5
    <3>3. CASE s = root
      <4>1. m.repos[s] = id /\ l.repos[s] = NONE /\ l.daily[<<id, d>>] = 0
        BY <1>3, <1>6, <3>3
      <4> QED
        BY <1>2, <1>3, <3>1, <3>2, <4>1
    <3>4. CASE s # root
      <4>1. m.repos[s] = l.repos[s]
        BY <1>3, <3>4
      <4> QED
        BY <1>3, <3>1, <3>2, <4>1
    <3> QED
      BY <3>3, <3>4
  <2>2. k \in [Roots -> [Day -> Nat]]
    BY <1>1 DEF Balanced
  <2> QED
    BY <2>1, <2>2 DEF Balanced
<1>10. \A r : /\ Fits(r, l)
              /\ r.step \in Early => r.n # id
              /\ r.step = "insert" => r.repo # id
              => Fits(r, m)
  BY <1>3 DEF Fits
<1> QED
  BY <1>3, <1>8, <1>9, <1>10 DEF Books

\* Days and recordings to come.
LEMMA LaterBooks ==
    ASSUME NEW k, NEW today \in Day, NEW last \in 0..MaxEvents, NEW l, Books(l, k, today, last),
           NEW now \in Day, NEW next \in 0..MaxEvents, today <= now, last <= next
    PROVE  Books(l, k, now, next) /\ \A r : UnderWay(r, today, last) => UnderWay(r, now, next)
<1>1. today \in Int /\ now \in Int /\ RawRetention \in Int /\ last \in Int /\ next \in Int
  BY LedgerAssumption DEF Day
<1>2. \A d \in Day : d >= now - RawRetention => d >= today - RawRetention
  BY <1>1 DEF Day
<1>3. 0..today \subseteq 0..now /\ 1..last \subseteq 1..next
  BY <1>1
<1>4. Sound(l, now, next)
  BY <1>3 DEF Books, Sound
<1>5. Balanced(l, k, now)
  BY <1>2 DEF Books, Balanced
<1>6. \A r : UnderWay(r, today, last) => UnderWay(r, now, next)
  BY <1>3 DEF UnderWay
<1> QED
  BY <1>4, <1>5, <1>6 DEF Books

---------------------------------------------------------------------------
(* The steps of recorders and commands.                                    *)

LEMMA LedgerConnected ==
    ASSUME ledger' \in Ledgers
    PROVE  Connected' = ledger'
BY LedgerAssumption DEF Connected

LEMMA ConnectedBooks ==
    ASSUME LedgerInv
    PROVE  /\ Connected \in Ledgers /\ Books(Connected, kept, day, begun)
           /\ Sound(Connected, day, begun)
           /\ begun \in 0..MaxEvents /\ day \in Day
BY BootstrappedBooks DEF LedgerInv

\* One recorder moves on to new.
LEMMA Moves ==
    ASSUME LedgerInv, NEW p \in Recorders, NEW new, rec' = [rec EXCEPT ![p] = new],
           UNCHANGED <<day, deletes>>, begun' \in 0..MaxEvents, begun <= begun',
           UnderWay(new, day, begun'),
           \A q \in Recorders : q # p => Apart(new, rec[q]) /\ Apart(rec[q], new),
           ledger' = ledger \/ ledger' \in Ledgers,
           Books(Connected', kept', day, begun'),
           Fits(new, Connected'), \A q \in Recorders : q # p => Fits(rec[q], Connected')
    PROVE  LedgerInv'
<1>1. /\ DOMAIN rec' = Recorders /\ rec'[p] = new
      /\ \A q \in Recorders : q # p => rec'[q] = rec[q]
  BY DEF LedgerInv
<1>2. \A q \in Recorders : UnderWay(rec[q], day, begun')
  <2>1. \A q \in Recorders : UnderWay(rec[q], day, begun)
    BY DEF LedgerInv
  <2>2. begun \in 0..MaxEvents /\ day \in Day /\ day <= day
    BY LedgerAssumption DEF LedgerInv, Day
  <2> QED
    BY <2>1, <2>2, LaterBooks, ConnectedBooks
<1>3. \A q \in Recorders : UnderWay(rec'[q], day', begun') /\ Fits(rec'[q], Connected')
  BY <1>1, <1>2
<1>4. \A q, s \in Recorders : q # s => Apart(rec'[q], rec'[s])
  BY <1>1 DEF LedgerInv
<1>5. ledger' = NONE \/ ledger' \in Ledgers
  BY DEF LedgerInv
<1> QED
  BY <1>1, <1>3, <1>4, <1>5 DEF LedgerInv

\* A recording that ends, fails, or is not further on than before.
LEMMA Calmer ==
    ASSUME NEW r, NEW new, NEW today, NEW last, UnderWay(r, today, last),
           new = [x \in RecFields |-> new[x]], new.day \in 0..today,
           \/ new.step = "rest"
           \/ /\ r.step # "rest" /\ new.n = r.n /\ new.root = r.root
              /\ new.step # "insert" /\ (new.step \in Early => r.step \in Early)
    PROVE  /\ UnderWay(new, today, last)
           /\ \A s : (Apart(r, s) => Apart(new, s)) /\ (Apart(s, r) => Apart(s, new))
           /\ \A l : Fits(r, l) => Fits(new, l)
<1>1. \A s : s \in Early => s # "rest" /\ s # "insert"
  BY DEF Early
<1> QED
  BY <1>1 DEF UnderWay, Apart, Fits

\* Such a step of a recorder, with a ledger whose rows stay as they are.
LEMMA CalmerMoves ==
    ASSUME LedgerInv, NEW p \in Recorders, NEW new, rec' = [rec EXCEPT ![p] = new],
           UNCHANGED <<day, deletes, begun, kept>>,
           new = [x \in RecFields |-> new[x]], new.day \in 0..day,
           \/ new.step = "rest"
           \/ /\ rec[p].step # "rest" /\ new.n = rec[p].n /\ new.root = rec[p].root
              /\ new.step # "insert" /\ (new.step \in Early => rec[p].step \in Early),
           ledger' = ledger \/ ledger' \in Ledgers, Connected' \in Ledgers,
           Alike(Connected, Connected')
    PROVE  LedgerInv'
<1>1. /\ UnderWay(rec[p], day, begun) /\ \A q \in Recorders : Fits(rec[q], Connected)
      /\ \A q \in Recorders : q # p => Apart(rec[p], rec[q]) /\ Apart(rec[q], rec[p])
  BY DEF LedgerInv
<1>2. /\ UnderWay(new, day, begun)
      /\ \A s : (Apart(rec[p], s) => Apart(new, s)) /\ (Apart(s, rec[p]) => Apart(s, new))
      /\ \A l : Fits(rec[p], l) => Fits(new, l)
  BY <1>1, Calmer
<1>3. /\ Books(Connected', kept', day, begun')
      /\ \A r : Fits(r, Connected) => Fits(r, Connected')
  BY ConnectedBooks, AlikeBooks
<1>4. begun' \in 0..MaxEvents /\ begun <= begun'
  BY LedgerAssumption, ConnectedBooks
<1> QED
  BY <1>1, <1>2, <1>3, <1>4, Moves

LEMMA RestShape ==
    AtRest = [x \in RecFields |-> AtRest[x]] /\ AtRest.step = "rest" /\ AtRest.day = 0
BY DEF AtRest, RecFields

LEMMA SteppedRec ==
    ASSUME LedgerInv, NEW p \in Recorders, NEW s, NEW new, new = [rec[p] EXCEPT !.step = s]
    PROVE  /\ new = [x \in RecFields |-> new[x]] /\ new.step = s
           /\ new.n = rec[p].n /\ new.root = rec[p].root /\ new.day = rec[p].day
           /\ new.repo = rec[p].repo
BY DEF LedgerInv, UnderWay, RecFields

LEMMA BeginRecordingInv ==
    ASSUME LedgerInv, NEW p \in Recorders, NEW root \in Roots, BeginRecording(p, root)
    PROVE  LedgerInv'
<1> DEFINE new == [rec[p] EXCEPT !.step = "policy", !.n = begun + 1, !.root = root]
<1>1. /\ rec[p].step = "rest" /\ begun < MaxEvents /\ begun' = begun + 1
      /\ rec' = [rec EXCEPT ![p] = new] /\ UNCHANGED <<ledger, day, deletes, kept>>
  BY DEF BeginRecording, LedgerInv
<1>2. UnderWay(rec[p], day, begun)
  BY DEF LedgerInv
<1>3. /\ new = [x \in RecFields |-> new[x]] /\ new.step = "policy" /\ new.n = begun + 1
      /\ new.root = root /\ new.day = rec[p].day
  BY <1>2 DEF UnderWay, RecFields
<1> HIDE DEF new
<1>4. begun \in 0..MaxEvents /\ begun' \in 0..MaxEvents /\ begun <= begun' /\ begun' \in 1..begun'
  BY <1>1, LedgerAssumption, ConnectedBooks
<1>5. UnderWay(new, day, begun')
  BY <1>2, <1>3, <1>1, <1>4 DEF UnderWay
<1>6. \A i : i \in 1..begun => i # begun + 1
  BY <1>4
<1>7. ASSUME NEW q \in Recorders, q # p
      PROVE  Apart(new, rec[q]) /\ Apart(rec[q], new)
  <2>1. UnderWay(rec[q], day, begun)
    BY DEF LedgerInv
  <2> QED
    BY <1>3, <1>6, <2>1 DEF Apart, UnderWay
<1>8. Connected' = Connected
  BY <1>1 DEF Connected, Bootstrapped
<1>9. Books(Connected', kept', day, begun')
  <2>1. Books(Connected, kept, day, begun) /\ day <= day /\ day \in Day
    BY LedgerAssumption, ConnectedBooks DEF Day
  <2>2. Books(Connected, kept, day, begun')
    BY <1>4, <2>1, LaterBooks
  <2> QED
    BY <1>1, <1>8, <2>2
<1>10. Fits(new, Connected')
  <2>1. begun + 1 # NONE
    BY <1>4, LedgerAssumption
  <2>2. /\ \A e \in Connected.events : e.n # begun + 1
        /\ \A r \in Roots : Connected.repos[r] # begun + 1
    BY <1>6, <2>1, ConnectedBooks DEF Sound
  <2> QED
    BY <1>3, <1>8, <2>2 DEF Fits
<1>11. \A q \in Recorders : Fits(rec[q], Connected')
  BY <1>8 DEF LedgerInv
<1> QED
  BY <1>1, <1>4, <1>5, <1>7, <1>9, <1>10, <1>11, Moves

LEMMA ResolvePolicyInv ==
    ASSUME LedgerInv, NEW p \in Recorders, ResolvePolicy(p)
    PROVE  LedgerInv'
<1>1. /\ rec[p].step = "policy" /\ UNCHANGED <<ledger, day, begun, deletes, kept>>
  BY DEF ResolvePolicy
<1>2. Connected' = Connected /\ Connected \in Ledgers /\ Alike(Connected, Connected')
  BY <1>1, ConnectedBooks DEF Connected, Bootstrapped, Alike
<1>3. UnderWay(rec[p], day, begun) /\ 0 \in 0..day
  BY LedgerAssumption DEF LedgerInv, Day
<1>4. CASE EndRecording(p)
  BY <1>1, <1>2, <1>3, <1>4, RestShape, CalmerMoves DEF EndRecording
<1>5. CASE rec' = [rec EXCEPT ![p].step = "lookup", ![p].tracing = TraceEnabled]
  <2> DEFINE new == [rec[p] EXCEPT !.step = "lookup", !.tracing = TraceEnabled]
  <2>1. rec' = [rec EXCEPT ![p] = new]
    BY <1>5 DEF LedgerInv
  <2>2. /\ new = [x \in RecFields |-> new[x]] /\ new.step = "lookup"
        /\ new.n = rec[p].n /\ new.root = rec[p].root /\ new.day = rec[p].day
    BY <1>3 DEF UnderWay, RecFields
  <2>3. new.day \in 0..day
    BY <1>3, <2>2 DEF UnderWay
  <2>4. rec[p].step # "rest" /\ new.step # "insert" /\ rec[p].step \in Early
    BY <1>1, <2>2 DEF Early
  <2> HIDE DEF new
  <2> QED
    BY <1>1, <1>2, <2>1, <2>2, <2>3, <2>4, CalmerMoves
<1> QED
  BY <1>4, <1>5 DEF ResolvePolicy

LEMMA LookUpRepoInv ==
    ASSUME LedgerInv, NEW p \in Recorders, LookUpRepo(p)
    PROVE  LedgerInv'
<1> DEFINE repo == Connected.repos[rec[p].root]
           new == [rec[p] EXCEPT !.step = IF repo = NONE THEN "register" ELSE "insert",
                                 !.repo = repo, !.file = Connected.born, !.day = day]
<1>1. /\ rec[p].step = "lookup" /\ UNCHANGED <<day, begun, deletes, kept>>
      /\ ledger' = Connected /\ rec' = [rec EXCEPT ![p] = new]
  BY DEF LookUpRepo, LedgerInv
<1>2. UnderWay(rec[p], day, begun) /\ day \in 0..day
  BY LedgerAssumption DEF LedgerInv, Day
<1>3. /\ new = [x \in RecFields |-> new[x]]
      /\ new.step = IF repo = NONE THEN "register" ELSE "insert"
      /\ new.n = rec[p].n /\ new.root = rec[p].root /\ new.day = day /\ new.repo = repo
  BY <1>2 DEF UnderWay, RecFields
<1> HIDE DEF new
<1>4. Connected \in Ledgers /\ Connected' = Connected /\ Alike(Connected, Connected')
  BY <1>1, ConnectedBooks, LedgerConnected DEF Alike
<1>5. CASE repo = NONE
  <2>1. rec[p].step # "rest" /\ new.step # "insert" /\ rec[p].step \in Early
    BY <1>1, <1>3, <1>5 DEF Early
  <2> QED
    BY <1>1, <1>2, <1>3, <1>4, <2>1, CalmerMoves
<1>6. CASE repo # NONE
  <2>1. rec[p].n \in 1..begun /\ rec[p].root \in Roots /\ rec[p].step \in Early
    BY <1>1, <1>2 DEF UnderWay, Early
  <2>2. new.step = "insert" /\ "insert" \notin Early
    BY <1>3, <1>6 DEF Early
  <2>3. repo \in 1..begun /\ \A r \in Roots : Connected.repos[r] = repo => r = rec[p].root
    BY <1>6, <2>1, ConnectedBooks DEF Sound
  <2>4. UnderWay(new, day, begun)
    BY <1>2, <1>3, <2>1, <2>2, <2>3 DEF UnderWay
  <2>5. Fits(new, Connected)
    <3>1. Fits(rec[p], Connected)
      BY DEF LedgerInv
    <3> QED
      BY <1>1, <1>3, <2>2, <2>3, <3>1 DEF Fits
  <2>6. ASSUME NEW q \in Recorders, q # p
        PROVE  Apart(new, rec[q]) /\ Apart(rec[q], new)
    <3>1. Apart(rec[p], rec[q]) /\ Apart(rec[q], rec[p]) /\ Fits(rec[q], Connected)
      BY <2>6 DEF LedgerInv
    <3>2. rec[q].step \in Early => repo # rec[q].n
      BY <2>1, <3>1 DEF Fits
    <3> QED
      BY <1>1, <1>3, <2>2, <3>1, <3>2 DEF Apart
  <2>7. \A q \in Recorders : Fits(rec[q], Connected')
    BY <1>4 DEF LedgerInv
  <2>8. /\ Books(Connected', kept', day, begun') /\ UnderWay(new, day, begun')
        /\ begun' \in 0..MaxEvents /\ begun <= begun' /\ ledger' \in Ledgers
        /\ Fits(new, Connected')
    BY <1>1, <1>4, <2>4, <2>5, ConnectedBooks, LedgerAssumption
  <2> QED
    BY <1>1, <2>6, <2>7, <2>8, Moves
<1> QED
  BY <1>5, <1>6

LEMMA RegisterRepoInv ==
    ASSUME LedgerInv, NEW p \in Recorders, RegisterRepo(p)
    PROVE  LedgerInv'
<1> DEFINE open1 == ledger # NONE /\ ledger.born = rec[p].file
           after == InsertedRepo(ledger, rec[p].root, rec[p].n)
           new == [rec[p] EXCEPT !.step = "insert", !.repo = rec[p].n, !.day = day]
<1>1. /\ rec[p].step = "register" /\ UNCHANGED <<day, begun, deletes, kept>>
      /\ \/ RecStep(p, "fail") /\ UNCHANGED ledger
         \/ /\ open1 => after.repos[rec[p].root] = rec[p].n
            /\ ledger' = IF open1 THEN after ELSE ledger
            /\ rec' = [rec EXCEPT ![p] = new]
  BY DEF RegisterRepo, LedgerInv
<1>2. UnderWay(rec[p], day, begun) /\ Fits(rec[p], Connected) /\ day \in 0..day
  BY LedgerAssumption DEF LedgerInv, Day
<1>3. /\ rec[p].n \in 1..begun /\ rec[p].root \in Roots /\ rec[p].step \in Early
      /\ rec[p].step # "rest" /\ rec[p].day \in 0..day
  BY <1>1, <1>2 DEF UnderWay, Early
<1>4. CASE RecStep(p, "fail") /\ UNCHANGED ledger
  <2> DEFINE failed == [rec[p] EXCEPT !.step = "fail"]
  <2>1. rec' = [rec EXCEPT ![p] = failed]
    BY <1>4 DEF RecStep, LedgerInv
  <2>2. /\ failed = [x \in RecFields |-> failed[x]] /\ failed.step = "fail"
        /\ failed.n = rec[p].n /\ failed.root = rec[p].root /\ failed.day = rec[p].day
    BY <1>2 DEF UnderWay, RecFields
  <2>3. Connected' = Connected /\ Connected \in Ledgers /\ Alike(Connected, Connected')
    BY <1>1, <1>4, ConnectedBooks DEF Connected, Bootstrapped, Alike
  <2>4. failed.step \notin Early /\ failed.step # "insert"
    BY <2>2 DEF Early
  <2> HIDE DEF failed
  <2> QED
    BY <1>1, <1>3, <1>4, <2>1, <2>2, <2>3, <2>4, CalmerMoves
<1>5. CASE /\ open1 => after.repos[rec[p].root] = rec[p].n
           /\ ledger' = IF open1 THEN after ELSE ledger
           /\ rec' = [rec EXCEPT ![p] = new]
  <2>1. /\ new = [x \in RecFields |-> new[x]] /\ new.step = "insert"
        /\ new.n = rec[p].n /\ new.root = rec[p].root /\ new.day = day /\ new.repo = rec[p].n
    BY <1>2 DEF UnderWay, RecFields
  <2> HIDE DEF new
  <2>2. UnderWay(new, day, begun) /\ "insert" \notin Early
    BY <1>2, <1>3, <2>1 DEF UnderWay, Early
  <2>3. ASSUME NEW q \in Recorders, q # p
        PROVE  /\ Apart(new, rec[q]) /\ Apart(rec[q], new) /\ Fits(rec[q], Connected)
               /\ rec[q].step \in Early => rec[q].n # rec[p].n
               /\ rec[q].step = "insert" => rec[q].repo # rec[p].n
    <3>1. Apart(rec[p], rec[q]) /\ Apart(rec[q], rec[p]) /\ Fits(rec[q], Connected)
      BY <2>3 DEF LedgerInv
    <3>2. rec[q].step \in Early => rec[q].step # "rest"
      BY DEF Early
    <3> QED
      BY <1>3, <2>1, <2>2, <3>1, <3>2 DEF Apart
  <2>4. Fits(new, Connected)
    BY <1>2, <1>3, <2>1, <2>2 DEF Fits
  <2>5. begun' \in 0..MaxEvents /\ begun <= begun' /\ UnderWay(new, day, begun')
    BY <1>1, <2>2, ConnectedBooks, LedgerAssumption
  <2>6. CASE ~ open1
    <3>1. ledger' = ledger
      BY <1>5, <2>6
    <3>2. Connected' = Connected
      BY <1>1, <3>1 DEF Connected, Bootstrapped
    <3>3. Books(Connected', kept', day, begun')
      BY <1>1, <3>2, ConnectedBooks
    <3> QED
      BY <1>1, <1>5, <2>3, <2>4, <2>5, <3>1, <3>2, <3>3, Moves
  <2>7. CASE open1
    <3>1. Connected = ledger /\ ledger' = after /\ after.repos[rec[p].root] = rec[p].n
      BY <1>5, <2>7 DEF Connected
    <3>2. \A s \in Roots : ledger.repos[s] # rec[p].n
      BY <1>2, <1>3, <3>1 DEF Fits
    <3>3. ledger.repos[rec[p].root] = NONE /\ after = [ledger EXCEPT !.repos[rec[p].root] = rec[p].n]
      BY <1>3, <3>1, <3>2 DEF InsertedRepo
    <3> HIDE DEF after
    <3>4. Books(ledger, kept, day, begun)
      BY <3>1, ConnectedBooks
    <3>5. /\ Books(after, kept, day, begun)
          /\ \A r : /\ Fits(r, ledger)
                    /\ r.step \in Early => r.n # rec[p].n
                    /\ r.step = "insert" => r.repo # rec[p].n
                    => Fits(r, after)
          /\ \A s \in Roots : after.repos[s] = IF s = rec[p].root THEN rec[p].n ELSE ledger.repos[s]
          /\ after.events = ledger.events
      <4> DEFINE id == rec[p].n
                 root == rec[p].root
      <4>1. /\ root \in Roots /\ id \in 1..begun /\ day \in Day /\ begun \in 0..MaxEvents
            /\ ledger.repos[root] = NONE /\ after = Registered(ledger, root, id)
            /\ \A s \in Roots : ledger.repos[s] # id
        BY <1>3, <3>2, <3>3, ConnectedBooks DEF Registered
      <4> HIDE DEF id, root
      <4>2. /\ Books(after, kept, day, begun)
            /\ \A r : /\ Fits(r, ledger)
                      /\ r.step \in Early => r.n # id
                      /\ r.step = "insert" => r.repo # id
                      => Fits(r, after)
            /\ \A s \in Roots : after.repos[s] = IF s = root THEN id ELSE ledger.repos[s]
            /\ after.events = ledger.events
        BY <3>4, <4>1, RegisteredBooks
      <4> QED
        BY <4>2 DEF id, root
    <3>6. ledger' \in Ledgers /\ Connected' = after
      BY <3>1, <3>5, LedgerConnected DEF Books, Sound
    <3>7. \A q \in Recorders : q # p => Fits(rec[q], Connected')
      BY <2>3, <3>1, <3>5, <3>6
    <3>8. Fits(new, Connected')
      BY <2>1, <2>2, <2>4, <3>1, <3>2, <3>5, <3>6 DEF Fits
    <3>9. Books(Connected', kept', day, begun')
      BY <1>1, <3>5, <3>6
    <3> QED
      BY <1>1, <1>5, <2>3, <2>5, <3>6, <3>7, <3>8, <3>9, Moves
  <2> QED
    BY <2>6, <2>7
<1> QED
  BY <1>1, <1>4, <1>5

LEMMA RecordEventInv ==
    ASSUME LedgerInv, NEW p \in Recorders, RecordEvent(p)
    PROVE  LedgerInv'
<1> DEFINE r == rec[p]
<1>1. rec[p].step = "insert" /\ UNCHANGED <<day, begun, deletes>>
  BY DEF RecordEvent
<1>2. UnderWay(r, day, begun) /\ Fits(r, Connected) /\ day \in Day /\ begun \in 0..MaxEvents
  BY DEF LedgerInv
<1>3. /\ r.day \in 0..day /\ r.root \in Roots /\ r.step = "insert"
  BY <1>1, <1>2 DEF UnderWay
<1>4. /\ Connected \in Ledgers /\ Books(Connected, kept, day, begun)
      /\ kept \in [Roots -> [Day -> Nat]]
  BY ConnectedBooks DEF Books, Balanced
<1>5. /\ \A q \in Recorders : q # p => Apart(rec[q], r) /\ Fits(rec[q], Connected)
  BY DEF LedgerInv
<1>6. CASE /\ \E s \in Roots : Connected.repos[s] = rec[p].repo
           /\ ledger' = [Pruned(InsertedEvent(Connected, rec[p]), rec[p].day) EXCEPT !.health = "ok"]
           /\ kept' = [kept EXCEPT ![rec[p].root][rec[p].day] = @ + 1]
           /\ EndRecording(p)
  <2>1. Connected.repos[r.root] = r.repo
    BY <1>2, <1>3, <1>6 DEF Fits
  <2> DEFINE l1 == InsertedEvent(Connected, r)
             l2 == Pruned(l1, r.day)
             l3 == [l2 EXCEPT !.health = "ok"]
             k1 == [kept EXCEPT ![r.root][r.day] = kept[r.root][r.day] + 1]
  <2>2. ledger' = l3 /\ kept' = k1 /\ rec' = [rec EXCEPT ![p] = AtRest]
    BY <1>6 DEF EndRecording
  <2>3. /\ Books(l1, k1, day, begun)
        /\ \A s : Fits(s, Connected) /\ Apart(s, r) => Fits(s, l1)
    <3> HIDE DEF l1, k1, r
    <3> QED
      BY <1>2, <1>3, <1>4, <2>1, InsertedBooks DEF l1, k1
  <2>4. /\ Books(l2, k1, day, begun) /\ \A s : Fits(s, l1) => Fits(s, l2)
    <3> HIDE DEF l1, k1, r
    <3> QED
      BY <1>2, <1>3, <2>3, PrunedBooks DEF l2
  <2>5. l2 \in Ledgers /\ l3 \in Ledgers /\ Alike(l2, l3)
    <3>1. l2 \in Ledgers
      BY <2>4 DEF Books, Sound
    <3> HIDE DEF l2
    <3> QED
      BY <3>1 DEF Ledgers, Alike
  <2>6. Books(l3, k1, day, begun) /\ \A s : Fits(s, l2) => Fits(s, l3)
    <3> HIDE DEF l2, l3, k1
    <3> QED
      BY <2>4, <2>5, AlikeBooks
  <2> HIDE DEF l1, l2, l3, k1
  <2>7. Connected' = l3 /\ ledger' \in Ledgers
    BY <2>2, <2>5, LedgerConnected
  <2>8. \A q \in Recorders : q # p => Fits(rec[q], Connected')
    BY <1>5, <2>3, <2>4, <2>6, <2>7
  <2>9. /\ UnderWay(AtRest, day, begun) /\ Fits(AtRest, Connected')
        /\ \A s : Apart(AtRest, s) /\ Apart(s, AtRest)
    BY <1>2, RestShape, LedgerAssumption DEF UnderWay, Fits, Apart, Early, Day
  <2>10. Books(Connected', kept', day, begun') /\ begun' \in 0..MaxEvents /\ begun <= begun'
    BY <1>1, <1>2, <2>2, <2>6, <2>7, LedgerAssumption
  <2> QED
    BY <1>1, <2>2, <2>7, <2>8, <2>9, <2>10, Moves
<1>7. CASE ledger' = Connected /\ RecStep(p, "fail") /\ UNCHANGED kept
  <2> DEFINE failed == [rec[p] EXCEPT !.step = "fail"]
  <2>1. rec' = [rec EXCEPT ![p] = failed]
    BY <1>7 DEF RecStep, LedgerInv
  <2>2. /\ failed = [x \in RecFields |-> failed[x]] /\ failed.step = "fail"
        /\ failed.n = rec[p].n /\ failed.root = rec[p].root /\ failed.day = rec[p].day
    BY <1>2 DEF UnderWay, RecFields
  <2>3. Connected' = Connected /\ Alike(Connected, Connected')
    BY <1>4, <1>7, LedgerConnected DEF Alike
  <2>4. failed.step \notin Early /\ failed.step # "insert" /\ rec[p].step # "rest"
    BY <1>1, <2>2 DEF Early
  <2> HIDE DEF failed
  <2> QED
    BY <1>1, <1>3, <1>4, <1>7, <2>1, <2>2, <2>3, <2>4, CalmerMoves
<1> QED
  BY <1>6, <1>7 DEF RecordEvent

LEMMA RecordFailureInv ==
    ASSUME LedgerInv, NEW p \in Recorders, RecordFailure(p)
    PROVE  LedgerInv'
<1>1. /\ ledger' = [Connected EXCEPT !.health = "warning"]
      /\ UNCHANGED <<day, begun, deletes, kept>> /\ rec' = [rec EXCEPT ![p] = AtRest]
  BY DEF RecordFailure, EndRecording
<1>2. Connected \in Ledgers
  BY ConnectedBooks
<1>3. ledger' \in Ledgers /\ Alike(Connected, ledger')
  BY <1>1, <1>2 DEF Ledgers, Alike
<1>4. Connected' = ledger'
  BY <1>3, LedgerConnected
<1>5. AtRest.day \in 0..day
  BY RestShape, LedgerAssumption, ConnectedBooks DEF Day
<1> QED
  BY <1>1, <1>3, <1>4, <1>5, RestShape, CalmerMoves

\* The metrics commands change settings, prune, or take the file away.
LEMMA CommandInv ==
    ASSUME LedgerInv, MetricsCommand
    PROVE  LedgerInv'
<1>1. day' = day /\ begun' = begun /\ rec' = rec
  BY DEF MetricsCommand, SetMetrics, SetTrace, Report, Repair, DeleteLedger
<1>2. /\ Connected \in Ledgers /\ Books(Connected, kept, day, begun)
      /\ day \in Day /\ day \in 0..day /\ begun \in 0..MaxEvents
  BY LedgerAssumption, ConnectedBooks DEF Day
<1>3. ASSUME ledger' \in Ledgers, UNCHANGED <<deletes, kept>>, Books(ledger', kept, day, begun),
             \A r : Fits(r, Connected) => Fits(r, ledger')
      PROVE  LedgerInv'
  BY <1>1, <1>3, LedgerConnected DEF LedgerInv
<1>4. CASE \E b \in BOOLEAN : SetMetrics(b) \/ SetTrace(b)
  <2>1. UNCHANGED <<deletes, kept>> /\ \E b \in BOOLEAN :
            \/ ledger' = [Connected EXCEPT !.enabled = b]
            \/ ledger' = [Connected EXCEPT !.tracing = b]
    BY <1>4 DEF SetMetrics, SetTrace
  <2>2. ledger' \in Ledgers /\ Alike(Connected, ledger')
    BY <1>2, <2>1 DEF Ledgers, Alike
  <2> QED
    BY <1>2, <1>3, <2>1, <2>2, AlikeBooks
<1>5. CASE Report
  <2>1. UNCHANGED <<deletes, kept>> /\ ledger' = IF MetricsEnabled THEN Pruned(Connected, day) ELSE Connected
    BY <1>5 DEF Report
  <2>2. CASE ledger' = Connected
    BY <1>2, <1>3, <2>1, <2>2
  <2>3. CASE ledger' = Pruned(Connected, day)
    <3>1. Books(ledger', kept, day, begun) /\ \A r : Fits(r, Connected) => Fits(r, ledger')
      BY <1>2, <2>3, PrunedBooks
    <3> QED
      BY <1>3, <2>1, <3>1 DEF Books, Sound
  <2> QED
    BY <2>1, <2>2, <2>3
<1>6. CASE Repair
  <2>1. /\ UNCHANGED <<deletes, kept>> /\ ledger' = [Connected EXCEPT !.health = "ok"]
    BY <1>6 DEF Repair, Connected
  <2>2. ledger' \in Ledgers /\ Alike(Connected, ledger')
    BY <1>2, <2>1 DEF Ledgers, Alike
  <2> QED
    BY <1>2, <1>3, <2>1, <2>2, AlikeBooks
<1>7. CASE DeleteLedger
  <2>1. ledger' = NONE /\ deletes' = deletes + 1 /\ kept' = NoneKept
    BY <1>7 DEF DeleteLedger
  <2>2. deletes \in Nat /\ deletes' \in Nat
    BY <2>1 DEF LedgerInv
  <2>3. Connected' = [born |-> deletes', repos |-> [r \in Roots |-> NONE], events |-> {},
                      daily |-> [x \in RepoId \X Day |-> 0],
                      enabled |-> FALSE, tracing |-> FALSE, health |-> "ok"]
    BY <2>1 DEF Connected, Bootstrapped
  <2>4. /\ Books(Connected', NoneKept, day, begun)
        /\ \A r : UnderWay(r, day, begun) => Fits(r, Connected')
    BY <1>2, <2>2, <2>3, EmptyBooks
  <2> QED
    BY <1>1, <2>1, <2>2, <2>4 DEF LedgerInv
<1> QED
  BY <1>4, <1>5, <1>6, <1>7 DEF MetricsCommand

LEMMA DayPassesInv ==
    ASSUME LedgerInv, DayPasses
    PROVE  LedgerInv'
<1>1. UNCHANGED <<ledger, rec, begun, deletes, kept>> /\ day' = day + 1 /\ day < MaxDay
  BY DEF DayPasses
<1>2. /\ Books(Connected, kept, day, begun) /\ day \in Day /\ begun \in 0..MaxEvents
      /\ day' \in Day /\ day <= day' /\ begun <= begun
  BY <1>1, LedgerAssumption, ConnectedBooks DEF Day
<1>3. /\ Books(Connected, kept, day', begun)
      /\ \A r : UnderWay(r, day, begun) => UnderWay(r, day', begun)
  BY <1>2, LaterBooks
<1>4. Connected' = Connected
  BY <1>1 DEF Connected, Bootstrapped
<1> QED
  BY <1>1, <1>2, <1>3, <1>4 DEF LedgerInv

LEMMA NextLedger ==
    ASSUME LedgerInv, [ServerNext]_serverVars
    PROVE  LedgerInv'
<1>1. CASE UNCHANGED ledgerVars
  BY <1>1 DEF ledgerVars, LedgerInv, Connected, Bootstrapped
<1>2. ASSUME NEW c \in Calls, StartRecording(c)
      PROVE  LedgerInv'
  BY <1>2, BeginRecordingInv DEF StartRecording, Calls
<1>3. ASSUME NEW c \in Calls, ThreadRecords(c)
      PROVE  LedgerInv'
  BY <1>1, <1>3, ResolvePolicyInv, LookUpRepoInv, RegisterRepoInv, RecordEventInv, RecordFailureInv
     DEF ThreadRecords, Record, Calls
<1>4. ASSUME NEW c \in Calls, Finish(c) \/ MarkAnnounced(c) \/ SkipRecording(c) \/ GraphCall(c)
      PROVE  UNCHANGED ledgerVars
  BY <1>4 DEF Finish, MarkAnnounced, SkipRecording, GraphCall, ReadToken, LookUpGraph, BuildGraph,
              StoreGraph, RenderGraph
<1>5. ASSUME NEW c \in Calls, CallTool(c) \/ ToolRaises(c) \/ CancelCall(c) \/ Announce(c) \/ AnnounceLost(c)
      PROVE  UNCHANGED ledgerVars
  BY <1>5 DEF CallTool, ToolRaises, CancelCall, Announce, AnnounceLost
<1>6. ListTools \/ ClientReceives \/ (\E path \in Path : ExportGraph(path)) => UNCHANGED ledgerVars
  BY DEF ListTools, ClientReceives, ExportGraph
<1>7. UNCHANGED serverVars => UNCHANGED ledgerVars
  BY DEF serverVars
<1> QED
  BY <1>1, <1>2, <1>3, <1>4, <1>5, <1>6, <1>7, CommandInv, DayPassesInv DEF ServerNext, ServeCall

\* However first recordings race, files are deleted under recorders, days pass
\* between the steps of a recording and events are pruned: the daily counters
\* are what was committed to the file, and its events that of the retention window
\* (metrics/recorder.py _record, _prune; metrics/registry.py get_or_create).
THEOREM LedgerIsHistory == ServerSpec => []ReportIsHistory
<1>1. ServerInit => LedgerInv
  <2> SUFFICES ASSUME ServerInit PROVE LedgerInv
    OBVIOUS
  <2>1. /\ ledger = NONE /\ day = 0 /\ begun = 0 /\ deletes = 0
        /\ rec = [p \in Recorders |-> AtRest] /\ kept = NoneKept
    BY DEF ServerInit, LedgerInit
  <2>2. 0 \in Day /\ 0 \in 0..MaxEvents /\ 0 \in Nat /\ 0 \in 0..0
    BY LedgerAssumption DEF Day
  <2>3. Connected = [born |-> 0, repos |-> [r \in Roots |-> NONE], events |-> {},
                     daily |-> [x \in RepoId \X Day |-> 0],
                     enabled |-> FALSE, tracing |-> FALSE, health |-> "ok"]
    BY <2>1 DEF Connected, Bootstrapped
  <2>4. /\ Books(Connected, NoneKept, 0, 0) /\ \A r : UnderWay(r, 0, 0) => Fits(r, Connected)
    BY <2>2, <2>3, EmptyBooks
  <2>5. UnderWay(AtRest, 0, 0) /\ Apart(AtRest, AtRest)
    BY <2>2, RestShape DEF UnderWay, Apart, Early
  <2> QED
    BY <2>1, <2>2, <2>4, <2>5 DEF LedgerInv
<1> QED
  BY <1>1, NextLedger, InvReports, PTL DEF ServerSpec

=============================================================================
