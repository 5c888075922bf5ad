--------------------------- MODULE DeliveryProofs ---------------------------
(***************************************************************************)
(* For any requests and any alphabet: a client always knows a beginning of *)
(* the reply it is due, and all of it once it was told the end.            *)
(***************************************************************************)
EXTENDS Delivery, TLAPS

\* A request may change what it is due only until it is opened, and until then its
\* client was told nothing.
NewKnowsNothing == \A s \in Session : status[s] = "new" => told[s] = Nothing

IInv == TypeOK /\ ToldTheReply /\ NewKnowsNothing

\* A text is a beginning of itself, and nothing is a beginning of every text.
LEMMA StartsBasics ==
  ASSUME NEW t \in Text
  PROVE  starts(t, t) /\ starts(<<>>, t)
BY DEF starts, Text

\* The same of a reply.
LEMMA WithinBasics ==
  ASSUME NEW a \in Reply
  PROVE  Within(a, a) /\ Within(Nothing, a)
<1>1. a.reasoning \in Text /\ a.content \in Text
  BY DEF Reply
<1>2. Nothing.reasoning = <<>> /\ Nothing.content = <<>>
  BY DEF Nothing
<1> QED
  BY <1>1, <1>2, StartsBasics DEF Within

\* At first nothing was promised and nothing told.
LEMMA InitIInv == Init => IInv
<1> SUFFICES ASSUME Init PROVE IInv
  OBVIOUS
<1>1. Nothing \in Reply
  BY DEF Nothing, Reply, Text
<1>2. TypeOK
  BY <1>1 DEF Init, TypeOK
<1>3. ToldTheReply
  BY <1>1, WithinBasics DEF Init, ToldTheReply
<1>4. NewKnowsNothing
  BY DEF Init, NewKnowsNothing
<1> QED
  BY <1>2, <1>3, <1>4 DEF IInv

\* What one client knows after a step of its own request.
ClientKnows(s) ==
  /\ Within(told[s], promised[s])
  /\ status[s] = "done" => told[s] = promised[s]
  /\ status[s] = "new" => told[s] = Nothing

\* Every step of a request keeps its client's knowledge right.
LEMMA StepKeepsClient ==
  ASSUME TypeOK', NEW s \in Session, ClientKnows(s),
         Open(s) \/ Tell(s) \/ End(s) \/ Stops(s) \/ Same(s)
  PROVE  ClientKnows(s)'
<1>1. promised'[s] \in Reply /\ told'[s] \in Reply
  BY DEF TypeOK
<1>2. CASE Open(s)
  <2>1. told'[s] = Nothing
    BY <1>2 DEF Open, ClientKnows
  <2>2. Within(told'[s], promised'[s])
    BY <2>1, <1>1, WithinBasics
  <2> QED
    BY <1>2, <2>1, <2>2 DEF Open, ClientKnows
<1>3. CASE Tell(s)
  BY <1>3 DEF Tell, ClientKnows
<1>4. CASE End(s)
  <2>1. Within(told'[s], promised'[s]) /\ told'[s] = promised'[s]
    BY <1>4, <1>1, WithinBasics DEF End
  <2> QED
    BY <1>4, <2>1 DEF End, ClientKnows
<1>5. CASE Stops(s)
  BY <1>5 DEF Stops, ClientKnows
<1>6. CASE Same(s)
  BY <1>6 DEF Same, ClientKnows
<1> QED
  BY <1>2, <1>3, <1>4, <1>5, <1>6

\* The invariant is inductive.
LEMMA NextIInv == IInv /\ [Next]_deliveryVars => IInv'
<1> SUFFICES ASSUME IInv, [Next]_deliveryVars PROVE IInv'
  OBVIOUS
<1>1. CASE Next
  <2>1. TypeOK'
    BY <1>1 DEF Next, TypeOK
  <2>2. \A s \in Session : ClientKnows(s)
    BY DEF IInv, ToldTheReply, NewKnowsNothing, ClientKnows
  <2>3. \A s \in Session : ClientKnows(s)'
    BY <1>1, <2>1, <2>2, StepKeepsClient DEF Next
  <2> QED
    BY <2>1, <2>3 DEF IInv, ToldTheReply, NewKnowsNothing, ClientKnows
<1>2. CASE UNCHANGED deliveryVars
  BY <1>2 DEF deliveryVars, IInv, TypeOK, ToldTheReply, NewKnowsNothing
<1> QED
  BY <1>1, <1>2

\* The variables of the abstract stream have their types.
THEOREM DeliveryTypes == Spec => []TypeOK
<1>1. IInv => TypeOK
  BY DEF IInv
<1> QED
  BY <1>1, InitIInv, NextIInv, PTL DEF Spec

\* A client is told its own reply, from its beginning, and the end only with all of it:
\* what every transport of server.py promises, once it implements Delivery.
THEOREM ClientToldTheReply == Spec => []ToldTheReply
<1>1. IInv => ToldTheReply
  BY DEF IInv
<1> QED
  BY <1>1, InitIInv, NextIInv, PTL DEF Spec

\* A step that tells a client more leaves what it knew standing, and after an end, an
\* error or its departure a client is told nothing.
ToldOnlyMore ==
  \A s \in Session :
    /\ status[s] # "new" => Within(told[s], told'[s]) /\ promised'[s] = promised[s]
    /\ status[s] \in {"done", "error", "gone"} => told'[s] = told[s] /\ status'[s] = status[s]

\* Nothing that a client was told is taken back or changed, nor does anything follow an
\* end (the frames of a stream are appended; stream_or_cancel returns after its last).
THEOREM NothingTakenBack == Spec => [][ToldOnlyMore]_deliveryVars
<1>1. IInv /\ [Next]_deliveryVars => [ToldOnlyMore]_deliveryVars
  <2> SUFFICES ASSUME IInv, Next PROVE ToldOnlyMore
    OBVIOUS
  <2> SUFFICES ASSUME NEW s \in Session
               PROVE  /\ status[s] # "new" => Within(told[s], told'[s]) /\ promised'[s] = promised[s]
                      /\ status[s] \in {"done", "error", "gone"} =>
                           told'[s] = told[s] /\ status'[s] = status[s]
    BY DEF ToldOnlyMore
  <2>1. told[s] \in Reply /\ Within(told[s], told[s])
    BY WithinBasics DEF IInv, TypeOK
  <2>2. Open(s) \/ Tell(s) \/ End(s) \/ Stops(s) \/ Same(s)
    BY DEF Next
  <2>3. CASE Open(s)
    BY <2>3 DEF Open
  <2>4. CASE Tell(s)
    BY <2>4 DEF Tell
  <2>5. CASE End(s)
    BY <2>5 DEF End
  <2>6. CASE Stops(s)
    BY <2>6, <2>1 DEF Stops
  <2>7. CASE Same(s)
    BY <2>7, <2>1 DEF Same
  <2> QED
    BY <2>2, <2>3, <2>4, <2>5, <2>6, <2>7
<1> QED
  BY <1>1, InitIInv, NextIInv, PTL DEF Spec
=============================================================================
