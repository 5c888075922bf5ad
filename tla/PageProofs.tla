------------------------------ MODULE PageProofs ------------------------------
(***************************************************************************)
(* What every behaviour of the page, the API clients and the server keeps, *)
(* for any sessions, scenarios, pacing and number of faults: the types;    *)
(* that no row outlives the server's care for its request and no generator *)
(* is closed while a worker executes it; that the server implements        *)
(* Delivery; and that the page's history is the conversation.  The steps   *)
(* of the server are the lemmas of StreamProofs; here they meet the        *)
(* page's.                                                                 *)
(***************************************************************************)
EXTENDS Page, StreamProofs

\* The page's own types; a turn in flight has its session.
Turns == [phase : {"idle", "connecting", "streaming", "unreachable"}, of : Session \cup {0},
          stopped : BOOLEAN, terminal : BOOLEAN, final : BOOLEAN, read : Nat, answer : Seq(Marks)]
Messages == [role : {"user", "assistant"}, about : Session \cup {0}, content : Seq(Marks)]

PageTypes ==
  /\ history \in Seq(Messages)
  /\ turn \in Turns /\ (inFlight => turn.of \in Session)
  /\ wording \in [Session -> Session \cup {0}]
  /\ offered \subseteq Session /\ latest \in Session \cup {0}

\* Nothing of the server's changes when the page acts on its own.
LEMMA VarsKeep ==
  ASSUME Types, Control, UNCHANGED vars
  PROVE  Types' /\ Control'
<1>1. UNCHANGED <<up, faults, scene, ask, lock, where, out, filed, body, task, drain, frames, conn>>
  BY DEF vars, engineVars, serverVars, clientVars
<1>2. Types'
  BY <1>1 DEF Types
<1>3. ASSUME NEW t \in Session PROVE HandlerRight(t)' /\ RowRight(t)'
  <2>1. HandlerRight(t) /\ RowRight(t)
    BY DEF Control
  <2>2. SameAt(t) /\ (where[t] = "moving" => lock' = "ticked")
    BY <1>1, <2>1 DEF SameAt, RowRight
  <2> QED
    BY <2>1, <2>2, ControlElsewhere
<1> QED
  BY <1>2, <1>3 DEF Control

\* A message has its type.
LEMMA MessagesOf ==
  ASSUME NEW q \in Session \cup {0}, NEW t \in Seq(Marks)
  PROVE  user(q) \in Messages /\ assistant(q, t) \in Messages
<1>1. <<>> \in Seq(Marks)
  BY EmptySeq
<1> QED
  BY <1>1 DEF user, assistant, Messages

\* The history without its last message, and with an answer.
LEMMA HistoryOf ==
  ASSUME PageTypes
  PROVE  /\ popped \in Seq(Messages)
         /\ \A t \in Turns : t.of \in Session => answered(t) \in Seq(Messages)
<1>1. popped \in Seq(Messages)
  <2>1. history # <<>> => Len(history) - 1 \in Nat
    BY EmptySeq DEF PageTypes
  <2>2. history # <<>> => Front(history) \in Seq(Messages)
    BY <2>1, PieceOf DEF Front, PageTypes
  <2> QED
    BY <2>2 DEF popped, PageTypes
<1>2. ASSUME NEW t \in Turns, t.of \in Session PROVE answered(t) \in Seq(Messages)
  <2>1. assistant(wording[t.of], t.answer) \in Messages
    BY <1>2, MessagesOf DEF PageTypes, Turns
  <2> QED
    BY <2>1, AppendProperties DEF answered, PageTypes
<1> QED
  BY <1>1, <1>2

\* A turn begins.
LEMMA BeginTypes ==
  ASSUME PageTypes, NEW s \in Session, NEW q \in Session \cup {0}, NEW said \in Seq(Messages),
         begin(s, q, said), offered' \subseteq Session
  PROVE  PageTypes'
<1>1. history' \in Seq(Messages)
  BY MessagesOf, EmptySeq, AppendProperties DEF begin
<1>2. turn' \in Turns /\ turn'.of = s
  BY EmptySeq DEF begin, NoTurn, Turns
<1>3. wording' \in [Session -> Session \cup {0}] /\ latest' \in Session \cup {0}
  BY DEF begin, PageTypes
<1> QED
  BY <1>1, <1>2, <1>3 DEF PageTypes

\* A step of the page keeps its types.
LEMMA PageActTypes ==
  ASSUME Types, PageTypes, PageAct
  PROVE  PageTypes'
<1>0. NoTurn \in Turns /\ NoTurn.phase = "idle"
  BY EmptySeq DEF NoTurn, Turns
<1>1. ASSUME NEW s \in Session, Ask(s) PROVE PageTypes'
  BY <1>1, BeginTypes DEF Ask, PageTypes
<1>2. ASSUME NEW s \in Session, Retry(s) PROVE PageTypes'
  <2>1. popped \in Seq(Messages) /\ offered' \subseteq Session /\ wording[s] \in Session \cup {0}
    BY <1>2, HistoryOf DEF Retry, PageTypes
  <2>2. CASE inFlight
    BY <1>2, <2>1, <2>2 DEF Retry, PageTypes, inFlight
  <2>3. CASE ~inFlight
    <3>1. PICK new \in Session : begin(new, wording[s], popped)
      BY <1>2, <2>3 DEF Retry
    <3> QED
      BY <2>1, <3>1, BeginTypes
  <2> QED
    BY <2>2, <2>3
<1>3. ASSUME NEW s \in Session, NEW r \in scene[s].asks, Connect(s, r) PROVE PageTypes'
  <2>1. turn' \in Turns /\ turn'.of = s
    BY <1>3 DEF Connect, PageTypes, Turns
  <2> QED
    BY <1>3, <2>1 DEF Connect, PageTypes
<1>4. CASE Frame
  <2> DEFINE f == frames[turn.of][turn.read + 1]
             last == f.t \in {"done", "error"}
             t == [turn EXCEPT !.read = @ + 1, !.terminal = last]
             said == turn.answer \o f.content
  <2>1. turn.of \in Session /\ turn \in Turns
    BY <1>4 DEF Frame, PageTypes, inFlight
  <2>2. f \in Piece
    BY <1>4, <2>1 DEF Frame, Types, Turns
  <2>3. said \in Seq(Marks) /\ last \in BOOLEAN
    BY <2>1, <2>2 DEF Turns, Piece
  <2>4. t \in Turns /\ t.of = turn.of /\ t.answer = turn.answer
    <3>1. last \in BOOLEAN
      OBVIOUS
    <3> HIDE DEF last
    <3>2. t = [turn EXCEPT !.read = turn.read + 1, !.terminal = last] /\ turn.read + 1 \in Nat
      BY <2>1 DEF Turns
    <3> HIDE DEF t
    <3> QED
      BY <2>1, <3>1, <3>2 DEF Turns
  <2>5. answered(t) \in Seq(Messages)
    BY <2>1, <2>4, HistoryOf
  <2>6. turn' = t \/ turn' = [t EXCEPT !.final = last, !.answer = said]
    BY <1>4, <2>4 DEF Frame
  <2>7. history' = history \/ history' = answered(t)
    BY <1>4 DEF Frame
  <2>8. turn' \in Turns /\ turn'.of = turn.of
    <3> HIDE DEF last, t, said
    <3> QED
      BY <2>3, <2>4, <2>6 DEF Turns
  <2>9. history' \in Seq(Messages)
    BY <2>5, <2>7 DEF PageTypes
  <2> HIDE DEF last, t, said
  <2> QED
    BY <1>4, <2>1, <2>8, <2>9 DEF Frame, PageTypes
<1>5. CASE Stop
  BY <1>5 DEF Stop, PageTypes, Turns, inFlight
<1>6. CASE SocketClosed
  <2>1. turn.of \in Session /\ turn \in Turns
    BY <1>6 DEF SocketClosed, PageTypes, inFlight
  <2>2. turn' = NoTurn \/ (turn' \in Turns /\ turn'.of = turn.of)
    BY <1>6, <2>1 DEF SocketClosed, Turns
  <2>3. history' \in Seq(Messages)
    BY <1>6, <2>1, HistoryOf DEF SocketClosed, PageTypes
  <2>4. offered' \subseteq Session
    BY <1>6, <2>1 DEF SocketClosed, PageTypes
  <2> QED
    BY <1>0, <1>6, <2>1, <2>2, <2>3, <2>4 DEF SocketClosed, PageTypes, inFlight
<1>7. CASE HealthKnown
  BY <1>0, <1>7 DEF HealthKnown, PageTypes, inFlight
<1> QED
  BY <1>1, <1>2, <1>3, <1>4, <1>5, <1>6, <1>7 DEF PageAct

\* What a step of the page, of a client or of the server is to the server: one of its
\* own, one of a client's connection, or none.
LEMMA StepIsStreaming ==
  ASSUME Types, PageTypes, Next
  PROVE  Streaming \/ UNCHANGED vars
<1>1. CASE Stop
  <2>1. turn.of \in Session
    BY <1>1 DEF Stop, PageTypes, inFlight
  <2>2. CASE conn[turn.of] = "open"
    <3>1. Leave(turn.of)
      BY <1>1, <2>2 DEF Stop, Leave, engineVars, serverVars
    <3> QED
      BY <2>1, <3>1 DEF Streaming
  <2>3. CASE conn[turn.of] # "open"
    BY <1>1, <2>1, <2>3 DEF Stop, vars, clientVars, Types
  <2> QED
    BY <2>2, <2>3
<1>2. CASE PageAct /\ ~Stop
  <2>1. ASSUME NEW s \in Session, NEW r \in scene[s].asks, Connect(s, r) PROVE Streaming
    BY <2>1 DEF Connect, Streaming
  <2>2. (\E s \in Session : Ask(s) \/ Retry(s)) \/ Frame \/ SocketClosed \/ HealthKnown => UNCHANGED vars
    BY DEF Ask, Retry, Frame, SocketClosed, HealthKnown
  <2> QED
    BY <1>2, <2>1, <2>2 DEF PageAct
<1>3. ASSUME NEW s \in Session, NEW r \in scene[s].asks, Request(s, r) PROVE Streaming
  BY <1>3 DEF Request, Streaming
<1>4. CASE Serve \/ Environment
  BY <1>4 DEF Environment, Streaming
<1> QED
  BY <1>1, <1>2, <1>3, <1>4 DEF Next

PageInv == Types /\ Control /\ PageTypes

\* The invariant of the page and the server holds at all times.
LEMMA PageInvHolds == Spec => []PageInv
<1>1. PageInit => PageInv
  <2> SUFFICES ASSUME PageInit PROVE PageInv
    OBVIOUS
  <2>1. NoTurn \in Turns /\ ~inFlight /\ history \in Seq(Messages)
    BY EmptySeq DEF PageInit, NoTurn, Turns, inFlight
  <2> QED
    BY <2>1, InitTypes DEF PageInit, PageInv, PageTypes
<1>2. PageInv /\ [Next]_allVars => PageInv'
  <2> SUFFICES ASSUME PageInv, [Next]_allVars PROVE PageInv'
    OBVIOUS
  <2>1. CASE Next
    <3>1. Types' /\ Control'
      BY <2>1, StepIsStreaming, StreamingKeeps, VarsKeep DEF PageInv
    <3>2. CASE PageAct
      BY <3>1, <3>2, PageActTypes DEF PageInv
    <3>3. CASE ~PageAct
      <4>1. UNCHANGED pageVars
        BY <2>1, <3>3 DEF Next, Request, Environment
      <4> QED
        BY <3>1, <4>1 DEF PageInv, PageTypes, pageVars, inFlight
    <3> QED
      BY <3>2, <3>3
  <2>2. CASE UNCHANGED allVars
    BY <2>2, VarsKeep DEF allVars, pageVars, PageInv, PageTypes, inFlight
  <2> QED
    BY <2>1, <2>2
<1> QED
  BY <1>1, <1>2, PTL DEF Spec

\* The program's values have their types, with any number of sessions and faults.
THEOREM PageTypeOK == Spec => []TypeOK
<1>1. PageInv => TypeOK
  <2> SUFFICES ASSUME PageInv PROVE TypeOK
    OBVIOUS
  <2>1. ASSUME NEW s \in Session
        PROVE  /\ out[s] \in 0 .. Len(ask[s].tokens) /\ body[s].seen \in 0 .. out[s]
               /\ body[s].st \in {"none", "running", "suspended", "closed"}
               /\ body[s].at \in {"poll", "take", "tail", "giveup", "end"}
    <3>1. out[s] \in 0 .. Len(ask[s].tokens) /\ body[s] \in Generator
      BY OneOf DEF PageInv
    <3>2. out[s] \in Nat /\ body[s].seen <= out[s]
      BY DEF PageInv, Types
    <3> QED
      BY <3>1, <3>2 DEF Generator
  <2>2. turn \in Turns
    BY DEF PageInv, PageTypes
  <2> QED
    BY <2>1, <2>2 DEF PageInv, Types, PageTypes, Turns, TypeOK
<1> QED
  BY <1>1, PageInvHolds, PTL

\* When the server is through with a request, its handler and its drain over, its row is
\* in no queue: whatever the interleaving of tick, worker, event loop, client and crash,
\* nothing goes on generating for nobody.
THEOREM Freed == Spec => []DrainedMeansFreed
<1>1. PageInv => DrainedMeansFreed
  BY ControlIsSafe DEF PageInv
<1> QED
  BY <1>1, PageInvHolds, PTL

\* No generator is executing on a worker when its drain closes it, so its cancel is not
\* lost: after the handler let go nobody resumes it, and the drain joined the worker.
THEOREM ClosedAtRest == Spec => []NeverClosedWhileRunning
<1>1. PageInv => NeverClosedWhileRunning
  BY ControlIsSafe DEF PageInv
<1> QED
  BY <1>1, PageInvHolds, PTL

-----------------------------------------------------------------------------
(* What clients are told *)


\* What every request is due, was told and how it stands have their types.
Views ==
  \A s \in Session :
    /\ dueTo(s) \in Promise!Reply /\ toldTo(s) \in Promise!Reply
    /\ standing(s) \in {"new", "open", "done", "error", "gone"}

\* What a client was told, and what was promised it, at any time: the invariant of the
\* server and the page, and of the texts.
TextInv == PageInv /\ Texts /\ Views

\* The invariant of the page, the server and the texts holds at all times.
LEMMA TextInvHolds ==
  ASSUME ShownIsDue
  PROVE  Spec => []TextInv
<1>1. PageInit => Texts
  BY InitIs DEF PageInit
<1>2. PageInv /\ Texts /\ [Next]_allVars => Texts'
  <2> SUFFICES ASSUME PageInv, Texts, [Next]_allVars PROVE Texts'
    OBVIOUS
  <2>1. Types /\ Control /\ PageTypes
    BY DEF PageInv
  <2>2. Streaming \/ UNCHANGED vars
    BY <2>1, StepIsStreaming DEF allVars
  <2> QED
    BY <2>1, <2>2, StreamingTexts, VarsTexts
<1>3. PageInv /\ Texts => Views
  BY ViewOf DEF PageInv, Views
<1> QED
  BY <1>1, <1>2, <1>3, PageInvHolds, PTL DEF Spec, TextInv

\* A step of the system is a step of the abstract stream, or none.
LEMMA PromiseStep ==
  ASSUME ShownIsDue, TextInv, TextInv', [Next]_allVars
  PROVE  [Promise!Next]_(Promise!deliveryVars)
<1>0. Types /\ Control /\ PageTypes /\ Texts /\ Texts' /\ Views'
  BY DEF TextInv, PageInv
<1>1. CASE Streaming
  <2>1. \A t \in Session : Abstract(t)
    BY <1>0, <1>1, StreamingIs
  <2>2. Promise!Next
    BY <1>0, <2>1 DEF Promise!Next, Abstract, Views
  <2> QED
    BY <2>2
<1>2. CASE UNCHANGED vars
  <2>1. UNCHANGED <<frames, ask, conn>>
    BY <1>2 DEF vars, serverVars, clientVars
  <2>2. \A s \in Session : dueTo(s)' = dueTo(s) /\ toldTo(s)' = toldTo(s) /\ standing(s)' = standing(s)
    BY <2>1 DEF dueTo, toldTo, standing, gone
  <2> QED
    BY <2>2 DEF Promise!deliveryVars
<1> QED
  BY <1>0, <1>1, <1>2, StepIsStreaming DEF allVars

\* The stream of replies implements the abstract one.
THEOREM Delivers ==
  ASSUME ShownIsDue
  PROVE  Spec => DeliversReply
<1>1. PageInit => Promise!Init
  BY InitIs DEF PageInit
<1>2. TextInv /\ TextInv' /\ [Next]_allVars => [Promise!Next]_(Promise!deliveryVars)
  BY PromiseStep
<1> QED
  BY <1>1, <1>2, TextInvHolds, PTL DEF Spec, DeliversReply, Promise!Spec

\* What is proved of the abstract stream, of this one.
Proved == INSTANCE DeliveryProofs WITH
  Mark <- Marks,
  promised <- [s \in Session |-> dueTo(s)],
  told <- [s \in Session |-> toldTo(s)],
  status <- [s \in Session |-> standing(s)]

\* At every moment the frames that a client of the server was sent are, put together, a
\* beginning of the reply of the non-streamed route, and all of it once they say "done".
THEOREM ServerTellsTheReply ==
  ASSUME ShownIsDue
  PROVE  Spec => []Promise!ToldTheReply
<1>1. Promise!Init => Proved!Init
  BY DEF Promise!Init, Proved!Init, Promise!Nothing, Proved!Nothing
<1>2. [Promise!Next]_(Promise!deliveryVars) => [Proved!Next]_(Proved!deliveryVars)
  BY DEF Promise!Next, Promise!deliveryVars, Promise!Open, Promise!Tell, Promise!End, Promise!Stops,
         Promise!Same, Promise!Within, Promise!starts, Promise!Reply, Promise!Text,
         Proved!Next, Proved!deliveryVars, Proved!Open, Proved!Tell, Proved!End, Proved!Stops,
         Proved!Same, Proved!Within, Proved!starts, Proved!Reply, Proved!Text
<1>3. Proved!Spec => []Proved!ToldTheReply
  BY Proved!ClientToldTheReply
<1>4. Proved!ToldTheReply => Promise!ToldTheReply
  BY DEF Proved!ToldTheReply, Proved!Within, Proved!starts,
         Promise!ToldTheReply, Promise!Within, Promise!starts
<1> QED
  BY <1>1, <1>2, <1>3, <1>4, Delivers, PTL DEF DeliversReply, Promise!Spec, Proved!Spec

-----------------------------------------------------------------------------
(* The history of the page *)

\* The sessions of the page that were connected, and the answer each is due.
asked == {s \in Session : conn[s] # "none" /\ wording[s] # 0}
answers == [s \in Session |-> dueTo(s).content]

\* The history h is right, of questions w, sessions a that were connected, and the answers
\* t they are due: a question stands in it once and under its own name, an answer after the
\* question it answers.
Asks(h, w, i) ==
  /\ h[i].role = "user" /\ h[i].about \in Session /\ w[h[i].about] = h[i].about
  /\ \A j \in 1 .. i - 1 : h[j].role = "user" => h[j].about # h[i].about
Answers(h, w, a, t, i) ==
  /\ h[i].role = "assistant" /\ i > 1 /\ h[i - 1] = user(h[i].about)
  /\ \E s \in a : w[s] = h[i].about /\ Promise!starts(h[i].content, t[s])
Right(h, w, a, t) == \A i \in 1 .. Len(h) : Asks(h, w, i) \/ Answers(h, w, a, t, i)

\* A history ends with question q.
LastAsks(h, q) == h # <<>> /\ h[Len(h)] = user(q)

\* It stays right when more is asked and more are connected.
LEMMA RightStays ==
  ASSUME NEW h \in Seq(Messages), NEW w, NEW v, NEW a, NEW b, NEW t, NEW u, Right(h, w, a, t),
         \A s \in Session : w[s] # 0 => v[s] = w[s], a \in SUBSET b, a \in SUBSET Session,
         \A s \in a : w[s] # 0 /\ u[s] = t[s]
  PROVE  Right(h, v, b, u)
<1> SUFFICES ASSUME NEW i \in 1 .. Len(h) PROVE Asks(h, v, i) \/ Answers(h, v, b, u, i)
  BY DEF Right
<1>1. CASE Asks(h, w, i)
  BY <1>1, SessionsAssumption DEF Asks
<1>2. CASE Answers(h, w, a, t, i)
  BY <1>2 DEF Answers
<1> QED
  BY <1>1, <1>2 DEF Right

\* With a question that is not in it.
LEMMA RightAsks ==
  ASSUME NEW h \in Seq(Messages), NEW w, NEW a, NEW t, Right(h, w, a, t),
         NEW q \in Session, w[q] = q, \A i \in 1 .. Len(h) : h[i].role = "user" => h[i].about # q
  PROVE  Right(Append(h, user(q)), w, a, t) /\ LastAsks(Append(h, user(q)), q)
<1> DEFINE g == Append(h, user(q))
<1>1. Len(h) \in Nat /\ Len(g) = Len(h) + 1 /\ g[Len(h) + 1] = user(q)
      /\ \A i \in 1 .. Len(h) : g[i] = h[i]
  OBVIOUS
<1>2. g # <<>>
  BY <1>1, EmptySeq
<1> HIDE DEF g
<1>3. ASSUME NEW i \in 1 .. Len(g) PROVE Asks(g, w, i) \/ Answers(g, w, a, t, i)
  <2>1. CASE i = Len(h) + 1
    <3>1. \A j \in 1 .. i - 1 : j \in 1 .. Len(h) /\ g[j] = h[j]
      BY <1>1, <2>1
    <3> QED
      BY <1>1, <2>1, <3>1 DEF Asks, user
  <2>2. CASE i # Len(h) + 1
    <3>1. i \in 1 .. Len(h) /\ g[i] = h[i] /\ (\A j \in 1 .. i - 1 : g[j] = h[j])
          /\ (i > 1 => g[i - 1] = h[i - 1])
      BY <1>1, <2>2
    <3>2. Asks(h, w, i) \/ Answers(h, w, a, t, i)
      BY <3>1 DEF Right
    <3> QED
      BY <3>1, <3>2 DEF Asks, Answers
  <2> QED
    BY <2>1, <2>2
<1> QED
  BY <1>1, <1>2, <1>3 DEF Right, LastAsks, g

\* With an answer to the question it ends with.
LEMMA RightAnswers ==
  ASSUME NEW h \in Seq(Messages), NEW w, NEW a, NEW t, Right(h, w, a, t),
         NEW s \in a, LastAsks(h, w[s]), NEW x, Promise!starts(x, t[s])
  PROVE  Right(Append(h, assistant(w[s], x)), w, a, t)
<1> DEFINE g == Append(h, assistant(w[s], x))
<1>1. Len(h) \in Nat /\ Len(h) # 0 /\ Len(g) = Len(h) + 1 /\ g[Len(h) + 1] = assistant(w[s], x)
      /\ \A i \in 1 .. Len(h) : g[i] = h[i]
  BY EmptySeq DEF LastAsks
<1> HIDE DEF g
<1>2. ASSUME NEW i \in 1 .. Len(g) PROVE Asks(g, w, i) \/ Answers(g, w, a, t, i)
  <2>1. CASE i = Len(h) + 1
    <3>1. i > 1 /\ i - 1 = Len(h) /\ g[Len(h)] = user(w[s])
      BY <1>1, <2>1 DEF LastAsks
    <3> QED
      BY <1>1, <2>1, <3>1 DEF Answers, assistant
  <2>2. CASE i # Len(h) + 1
    <3>1. i \in 1 .. Len(h) /\ g[i] = h[i] /\ (\A j \in 1 .. i - 1 : g[j] = h[j])
          /\ (i > 1 => g[i - 1] = h[i - 1])
      BY <1>1, <2>2
    <3>2. Asks(h, w, i) \/ Answers(h, w, a, t, i)
      BY <3>1 DEF Right
    <3> QED
      BY <3>1, <3>2 DEF Asks, Answers
  <2> QED
    BY <2>1, <2>2
<1> QED
  BY <1>2 DEF Right, g

\* Without the question it ends with.
LEMMA RightPopped ==
  ASSUME NEW h \in Seq(Messages), NEW w, NEW a, NEW t, Right(h, w, a, t), NEW q, LastAsks(h, q)
  PROVE  /\ Front(h) \in Seq(Messages) /\ Right(Front(h), w, a, t)
         /\ \A i \in 1 .. Len(Front(h)) : Front(h)[i].role = "user" => Front(h)[i].about # q
<1> DEFINE g == Front(h)
<1>1. Len(h) \in Nat \ {0}
  BY EmptySeq DEF LastAsks
<1>2. g \in Seq(Messages) /\ Len(g) = Len(h) - 1 /\ \A i \in 1 .. Len(g) : g[i] = h[i]
  <2>1. g = SubSeq(h, 1, Len(h) - 1) /\ Len(h) - 1 \in Nat
    BY <1>1 DEF Front
  <2> HIDE DEF g
  <2>2. Len(h) - 1 <= Len(h)
    BY <1>1
  <2>3. g \in Seq(Messages) /\ Len(g) = Len(h) - 1
    <3>1. Len(h) - 1 <= Len(h) /\ 1 \in Nat \ {0}
      BY <1>1
    <3>2. g \in Seq(Messages)
      BY <2>1, <3>1, PieceOf
    <3>3. Len(g) = Len(h) - 1
      <4>1. \A n \in Nat : n + 1 = Len(h) => Len(SubSeq(h, 1, n)) = n
        OBVIOUS
      <4>2. Len(h) - 1 \in Nat /\ (Len(h) - 1) + 1 = Len(h)
        BY <1>1
      <4>3. Len(SubSeq(h, 1, Len(h) - 1)) = Len(h) - 1
        BY <4>1, <4>2, Zenon
      <4> QED
        BY <2>1, <4>3, Zenon
    <3> QED
      BY <3>2, <3>3
  <2>4. ASSUME NEW i \in 1 .. Len(g) PROVE g[i] = h[i]
    BY <1>1, <2>1, <2>3
  <2> QED
    BY <2>3, <2>4
<1> HIDE DEF g
<1>3. ASSUME NEW i \in 1 .. Len(g) PROVE Asks(g, w, i) \/ Answers(g, w, a, t, i)
  <2>1. i \in 1 .. Len(h) /\ g[i] = h[i] /\ (\A j \in 1 .. i - 1 : g[j] = h[j])
        /\ (i > 1 => g[i - 1] = h[i - 1])
    BY <1>1, <1>2
  <2>2. Asks(h, w, i) \/ Answers(h, w, a, t, i)
    BY <2>1 DEF Right
  <2> QED
    BY <2>1, <2>2 DEF Asks, Answers
<1>4. ASSUME NEW i \in 1 .. Len(g), g[i].role = "user" PROVE g[i].about # q
  <2>1. Asks(h, w, Len(h))
    <3>1. Len(h) \in 1 .. Len(h) /\ h[Len(h)].role = "user"
      BY <1>1 DEF LastAsks, user
    <3> QED
      BY <3>1 DEF Right, Answers
  <2>2. i \in 1 .. Len(h) - 1 /\ h[i] = g[i] /\ h[Len(h)].about = q
    BY <1>1, <1>2 DEF LastAsks, user
  <2> QED
    BY <1>4, <2>1, <2>2 DEF Asks
<1> QED
  BY <1>2, <1>3, <1>4 DEF Right, g

-----------------------------------------------------------------------------
(* The frames of a turn *)

\* An end is the last frame.
Ended == \A s \in Session : \A i \in 1 .. Len(frames[s]) - 1 : ~terminal(frames[s][i])

\* What is about to be handed to a client follows no end.
LEMMA CalmSoFar ==
  ASSUME Types, Control, Texts, NEW s \in Session, conn[s] = "open", task[s] = "fetch",
         body[s].items # <<>>
  PROVE  calm(frames[s]) /\ Head(body[s].items) \in Piece
<1> DEFINE fs == frames[s]
           its == body[s].items
           held == body[s].held
           a == fs \o its
           L == line(s)
<1>1. fs \in Seq(Piece) /\ its \in Seq(Piece) /\ held \in Seq(Piece) /\ L = a \o held
  BY LineOf DEF line, rest
<1>2. OnTheWay(dueTo(s), body[s], L)
  BY DEF Texts, TextRight
<1> HIDE DEF fs, its, held, L
<1>3. Len(its) \in Nat \ {0} /\ Head(its) \in Piece
  BY <1>1, EmptySeq, HeadTailProperties DEF its
<1>4. a \in Seq(Piece) /\ Len(a) = Len(fs) + Len(its) /\ \A i \in 1 .. Len(fs) : a[i] = fs[i]
  BY <1>1, ConcatProperties
<1> HIDE DEF a
<1>5. Len(L) = Len(a) + Len(held) /\ \A i \in 1 .. Len(a) : L[i] = a[i]
  <2>1. Len(a) \in Nat /\ Len(held) \in Nat
    BY <1>1, <1>4
  <2>2. \A i \in 1 .. Len(a) + Len(held) : L[i] = IF i <= Len(a) THEN a[i] ELSE held[i - Len(a)]
    BY <1>1, <1>4, ConcatProperties
  <2>3. Len(L) = Len(a) + Len(held)
    BY <1>1, <1>4, ConcatProperties
  <2> QED
    BY <2>1, <2>2, <2>3
<1>6. Len(fs) \in Nat /\ Len(held) \in Nat
  BY <1>1
<1>7. ASSUME NEW i \in 1 .. Len(fs) PROVE ~terminal(fs[i])
  <2>1. i \in 1 .. Len(a) /\ i \in 1 .. Len(L) /\ i # Len(L) /\ L[i] = fs[i]
    BY <1>3, <1>4, <1>5, <1>6
  <2> QED
    BY <1>2, <2>1 DEF OnTheWay
<1> QED
  BY <1>3, <1>7 DEF calm, fs, its

\* What a step sends to a client: nothing, or one frame, before any end.
Sends(s) == \/ frames'[s] = frames[s]
            \/ \E f \in Piece : frames'[s] = Append(frames[s], f) /\ calm(frames[s])
\* A client that is connected stays so or leaves, with the same request.
Stays(s) == conn[s] # "none" => conn'[s] # "none" /\ ask'[s] = ask[s]

\* Every step of the server, its clients and its faults.
LEMMA StreamingSends ==
  ASSUME Types, Control, Texts, Streaming
  PROVE  \A s \in Session : Sends(s) /\ Stays(s)
<1>1. ASSUME NEW s \in Session, Handler(s) PROVE Sends(s) /\ Stays(s)
  <2>1. Stays(s)
    BY <1>1 DEF Handler, Submit, Refuse, SendFrame, YieldItem, Resume, Answer, StreamEnd,
           NoticeGone, Abandon, Cancel, Stays, clientVars, closeConn, Types
  <2>2. CASE Refuse(s)
    <3>1. frames[s] = <<>> /\ control("error") \in Piece
      <4>1. frames[s] = <<>>
        BY <2>2 DEF Refuse, Control, HandlerRight, Untouched
      <4>2. control("error") \in Piece
        BY EmptySeq, PiecesOf
      <4> QED
        BY <4>1, <4>2
    <3>2. calm(<<>>)
      BY DEF calm
    <3> QED
      BY <2>1, <2>2, <3>1, <3>2 DEF Refuse, send, Sends, Types
  <2>3. CASE SendFrame(s) \/ YieldItem(s) \/ Answer(s)
    <3>1. task[s] = "fetch" /\ body[s].items # <<>>
      BY <2>3 DEF SendFrame, YieldItem, Answer, fetched, Control, HandlerRight
    <3>2. frames'[s] = frames[s] \/ (conn[s] = "open" /\ frames'[s] = Append(frames[s], Head(body[s].items)))
      BY <2>3 DEF SendFrame, YieldItem, Answer, send, Types
    <3> QED
      BY <2>1, <3>1, <3>2, CalmSoFar DEF Sends
  <2>4. CASE ~ (Refuse(s) \/ SendFrame(s) \/ YieldItem(s) \/ Answer(s))
    BY <1>1, <2>1, <2>4 DEF Handler, Submit, Resume, StreamEnd, NoticeGone, Abandon, Cancel, Sends
  <2> QED
    BY <2>2, <2>3, <2>4
<1>2. ASSUME NEW s \in Session, Own(s) PROVE \A t \in Session : Sends(t) /\ Stays(t)
  <2>1. \A t \in Session \ {s} : SameAt(t)
    BY <1>2, Elsewhere
  <2>2. ASSUME NEW t \in Session \ {s} PROVE Sends(t) /\ Stays(t)
    BY <2>1 DEF SameAt, Sends, Stays
  <2>3. Sends(s) /\ Stays(s)
    <3>1. CASE Worker(s)
      BY <3>1 DEF Worker, Works, Poll, TimesOut, Take, Tail_, GiveUp, clientVars, Sends, Stays
    <3>2. CASE Leave(s) \/ Lose(s)
      BY <3>2 DEF Leave, Lose, serverVars, Sends, Stays, Types
    <3>3. CASE \E r \in scene[s].asks : Open(s, r)
      BY <3>3 DEF Open, Sends, Stays
    <3>4. CASE Admit(s) \/ Emit(s) \/ Finish(s)
      BY <3>4 DEF Admit, Emit, Finish, serverVars, clientVars, Sends, Stays
    <3>5. CASE Drain(s)
      BY <3>5 DEF Drain, DrainCancel, DrainJoin, DrainGivesUp, DrainClose, clientVars, Sends, Stays
    <3> QED
      BY <1>1, <1>2, <3>1, <3>2, <3>3, <3>4, <3>5 DEF Own
  <2> QED
    BY <2>2, <2>3
<1>3. CASE TickBegin \/ TickEnd \/ Restart
  BY <1>3 DEF TickBegin, TickEnd, Restart, serverVars, clientVars, Sends, Stays
<1>4. CASE Crash
  BY <1>4 DEF Crash, Sends, Stays
<1> QED
  BY <1>2, <1>3, <1>4 DEF Streaming, Serve, Tick, Own

\* An end stays the last frame.
LEMMA EndedStays ==
  ASSUME Types, Ended, \A s \in Session : Sends(s)
  PROVE  Ended'
<1> SUFFICES ASSUME NEW s \in Session, NEW i \in 1 .. Len(frames'[s]) - 1
             PROVE  ~terminal(frames'[s][i])
  BY DEF Ended
<1>1. CASE frames'[s] = frames[s]
  BY <1>1 DEF Ended
<1>2. CASE frames'[s] # frames[s]
  <2> DEFINE fs == frames[s]
  <2>1. PICK f \in Piece : frames'[s] = Append(fs, f) /\ calm(fs)
    BY <1>2 DEF Sends
  <2>2. fs \in Seq(Piece)
    BY DEF Types
  <2> HIDE DEF fs
  <2>3. i \in 1 .. Len(fs) /\ frames'[s][i] = fs[i]
    BY <2>1, <2>2
  <2> QED
    BY <2>1, <2>3 DEF calm
<1> QED
  BY <1>1, <1>2

-----------------------------------------------------------------------------
(* The turn in flight *)

\* What is known of the turn in flight: it is the latest and offers no retry; until it read
\* an end the history ends with its question; it has read some frames of its socket, which
\* is connected, and nothing after an end.
Reading ==
  /\ conn[turn.of] # "none" /\ turn.read <= Len(frames[turn.of])
  /\ turn.answer = toldIn(SubSeq(frames[turn.of], 1, turn.read)).content
  /\ turn.final => turn.read # 0 /\ terminal(frames[turn.of][turn.read])

Flight ==
  /\ turn.of = latest /\ latest \notin offered /\ wording[turn.of] # 0
  /\ turn.terminal = turn.final
  /\ ~turn.final => LastAsks(history, wording[turn.of])
  /\ IF turn.phase = "streaming" THEN Reading ELSE ~turn.final /\ turn.read = 0 /\ turn.answer = <<>>

\* Questions are named after the first session that asked them; a retry that is offered on
\* the latest turn, when none is in flight, is of the question the history ends with.
Questions ==
  /\ \A s \in Session : wording[s] # 0 => wording[wording[s]] = wording[s]
  /\ \A s \in offered : wording[s] # 0
  /\ latest \in offered /\ ~inFlight => LastAsks(history, wording[latest])

Conversation ==
  /\ Right(history, wording, asked, answers) /\ Questions /\ (inFlight => Flight) /\ Ended

\* The server's variables, and what is known of them.
Known == PageInv /\ Texts /\ Promise!ToldTheReply

\* What the page reads does not change.
LEMMA ReadStays ==
  ASSUME Types, PageTypes, turn.of \in Session, Reading, Sends(turn.of), Stays(turn.of), turn' = turn
  PROVE  Reading'
<1> DEFINE s == turn.of
           n == turn.read
           fs == frames[s]
           gs == frames'[s]
<1>1. n \in Nat /\ n <= Len(fs) /\ fs \in Seq(Piece)
  BY DEF Types, PageTypes, Turns, Reading
<1>2. gs \in Seq(Piece) /\ Len(fs) <= Len(gs) /\ \A i \in 1 .. Len(fs) : gs[i] = fs[i]
  <2>1. CASE gs = fs
    BY <1>1, <2>1
  <2>2. CASE gs # fs
    <3>1. PICK f \in Piece : gs = Append(fs, f)
      BY <2>2 DEF Sends
    <3> HIDE DEF gs, fs
    <3> QED
      BY <1>1, <3>1
  <2> QED
    BY <2>1, <2>2
<1>3. SubSeq(gs, 1, n) = SubSeq(fs, 1, n)
  <2> HIDE DEF gs, fs, n
  <2>1. \A i \in 1 .. n : fs[i] \in Piece /\ gs[i] = fs[i]
    BY <1>1, <1>2
  <2>2. SubSeq(gs, 1, n) \in Seq(Piece) /\ SubSeq(fs, 1, n) \in Seq(Piece)
        /\ Len(SubSeq(gs, 1, n)) = Len(SubSeq(fs, 1, n))
        /\ \A i \in 1 .. n : SubSeq(gs, 1, n)[i] = SubSeq(fs, 1, n)[i]
    BY <1>1, <2>1, SubSeqProperties
  <2>3. Len(SubSeq(gs, 1, n)) = n
    BY <1>1, <2>1, SubSeqProperties
  <2> QED
    BY <2>2, <2>3, SeqEqual
<1>4. n # 0 => gs[n] = fs[n]
  <2> HIDE DEF gs, fs, n
  <2> QED
    BY <1>1, <1>2
<1>5. n <= Len(gs)
  <2> HIDE DEF gs, fs, n
  <2> QED
    BY <1>1, <1>2
<1>6. turn'.of = s /\ turn'.read = n /\ turn'.answer = turn.answer /\ turn'.final = turn.final
  OBVIOUS
<1> QED
  BY <1>3, <1>4, <1>5, <1>6 DEF Reading, Stays

\* A step in which only the server, a client or a fault does something.
LEMMA ElsewhereConverses ==
  ASSUME Types, Control, Texts, PageTypes, Conversation, Streaming, UNCHANGED pageVars
  PROVE  Conversation'
<1>1. \A s \in Session : Sends(s) /\ Stays(s)
  BY StreamingSends
<1>2. Right(history, wording, asked, answers)'
  <2>1. asked \in SUBSET asked' /\ asked \in SUBSET Session /\ \A s \in Session : wording'[s] = wording[s]
    BY <1>1 DEF asked, Stays, pageVars
  <2>2. \A s \in asked : wording[s] # 0 /\ answers'[s] = answers[s]
    BY <1>1 DEF asked, Stays, answers, dueTo
  <2>3. Right(history, wording', asked', answers')
    BY <2>1, <2>2, RightStays DEF Conversation, PageTypes
  <2> QED
    BY <2>3 DEF pageVars
<1>3. Questions'
  BY DEF Conversation, Questions, pageVars, inFlight
<1>4. inFlight' => Flight'
  <2> SUFFICES ASSUME inFlight' PROVE Flight'
    OBVIOUS
  <2>1. inFlight /\ Flight /\ turn.of \in Session /\ UNCHANGED <<history, turn, wording, offered, latest>>
    BY DEF Conversation, inFlight, pageVars, PageTypes
  <2>2. turn.phase = "streaming" => Reading'
    BY <1>1, <2>1, ReadStays DEF Flight
  <2> QED
    BY <2>1, <2>2 DEF Flight
<1>5. Ended'
  BY <1>1, EndedStays DEF Conversation
<1> QED
  BY <1>2, <1>3, <1>4, <1>5 DEF Conversation

\* What the page read of a reply is a beginning of the answer that is due.
LEMMA ReadIsDue ==
  ASSUME Types, Control, PageTypes, Promise!ToldTheReply, turn.of \in Session, Reading
  PROVE  Promise!starts(turn.answer, answers[turn.of]) /\ turn.of \in Session
<1> DEFINE s == turn.of
           n == turn.read
           fs == frames[s]
           read == SubSeq(fs, 1, n)
<1>1. n \in Nat /\ n <= Len(fs) /\ fs \in Seq(Piece)
  BY DEF Types, PageTypes, Turns, Reading
<1>2. read \in Seq(Piece) /\ Len(read) = n /\ \A i \in 1 .. Len(read) : fs[i] = read[i]
  <2> HIDE DEF fs, n
  <2>1. \A i \in 1 .. n : fs[i] \in Piece
    BY <1>1
  <2>2. /\ read \in Seq(Piece) /\ Len(read) = n
        /\ \A i \in 1 .. n : read[i] = fs[i]
    BY <1>1, <2>1, SubSeqProperties
  <2> QED
    BY <2>2
<1>3. turn.answer = toldIn(read).content
  BY DEF Reading
<1>4. Promise!Within(toldTo(s), dueTo(s))
  BY DEF Promise!ToldTheReply
<1> HIDE DEF read, fs, n, s
<1>5. Promise!Within(toldIn(read), toldIn(fs))
  BY <1>1, <1>2, ToldPrefix
<1>6. toldIn(read) \in Two /\ toldIn(fs) \in Two /\ toldTo(s) = toldIn(fs) /\ dueTo(s) \in Two
  BY <1>1, <1>2, ToldAppend, LineOf DEF toldTo, fs, s
<1>7. Promise!starts(toldIn(read).content, dueTo(s).content)
  BY <1>4, <1>5, <1>6, StartsOf DEF Promise!Within, Two
<1> QED
  BY <1>3, <1>7 DEF answers, s

\* A history that nothing is added to stays right.
LEMMA RightKept ==
  ASSUME PageTypes, NEW h \in Seq(Messages), Right(h, wording, asked, answers),
         \A s \in Session : Stays(s), \A s \in Session : wording[s] # 0 => wording'[s] = wording[s]
  PROVE  Right(h, wording', asked', answers')
<1>1. asked \in SUBSET asked' /\ asked \in SUBSET Session
  BY DEF asked, Stays
<1>2. \A s \in asked : wording[s] # 0 /\ answers'[s] = answers[s]
  BY DEF asked, Stays, answers, dueTo
<1> QED
  BY <1>1, <1>2, RightStays

\* The page's own steps leave the server alone.
LEMMA Alone ==
  ASSUME UNCHANGED vars
  PROVE  (\A s \in Session : Sends(s) /\ Stays(s)) /\ (Ended => Ended')
BY DEF vars, serverVars, clientVars, Sends, Stays, Ended

\* A turn begins, with a question that is not in the history.
LEMMA BeginConverses ==
  ASSUME PageTypes, Conversation, UNCHANGED vars, NEW s \in Session, NEW q \in Session,
         NEW said \in Seq(Messages), begin(s, q, said), Right(said, wording, asked, answers),
         q = s \/ wording[q] = q, offered' \in SUBSET offered,
         \A i \in 1 .. Len(said) : said[i].role = "user" => said[i].about # q
  PROVE  Conversation'
<1>1. /\ wording' = [wording EXCEPT ![s] = q] /\ wording[s] = 0 /\ history' = Append(said, user(q))
      /\ turn' = [NoTurn EXCEPT !.phase = "connecting", !.of = s] /\ latest' = s
  BY DEF begin
<1>2. wording'[s] = q /\ wording'[q] = q /\ \A t \in Session \ {s} : wording'[t] = wording[t]
  BY <1>1, SessionsAssumption DEF PageTypes
<1>3. Right(said, wording', asked', answers')
  BY <1>1, <1>2, Alone, RightKept
<1>4. Right(history', wording', asked', answers') /\ LastAsks(history', q)
  BY <1>1, <1>2, <1>3, RightAsks
<1>5. \A t \in offered' : t \in offered /\ t \in Session /\ t # s /\ wording[t] # 0
  BY <1>1 DEF Conversation, Questions, PageTypes
<1>6. inFlight' /\ s \notin offered'
  BY <1>1, <1>5 DEF inFlight, NoTurn
<1>7. Questions'
  <2>1. ASSUME NEW t \in Session, wording'[t] # 0 PROVE wording'[wording'[t]] = wording'[t]
    <3>1. CASE t = s
      BY <1>2, <3>1
    <3>2. CASE t # s
      <4>1. wording[t] # 0 /\ wording[wording[t]] = wording[t] /\ wording[t] \in Session
        BY <1>2, <2>1, <3>2 DEF Conversation, Questions, PageTypes
      <4>2. wording[t] # s
        BY <1>1, <4>1
      <4> QED
        BY <1>2, <3>2, <4>1, <4>2
    <3> QED
      BY <3>1, <3>2
  <2>2. \A t \in offered' : wording'[t] # 0
    BY <1>2, <1>5
  <2> QED
    BY <1>6, <2>1, <2>2 DEF Questions
<1>8. Flight'
  BY <1>1, <1>2, <1>4, <1>6, SessionsAssumption DEF Flight, NoTurn
<1> QED
  BY <1>4, <1>7, <1>8, Alone DEF Conversation

\* The page asks, or asks again.
LEMMA AskConverses ==
  ASSUME PageTypes, Conversation, ~RetryAnyTurn, NEW s \in Session, Ask(s) \/ Retry(s)
  PROVE  Conversation'
<1>0. history \in Seq(Messages) /\ Right(history, wording, asked, answers)
  BY DEF PageTypes, Conversation
<1>1. CASE Ask(s)
  <2>1. wording[s] = 0 /\ begin(s, s, history) /\ offered' \in SUBSET offered /\ UNCHANGED vars
    BY <1>1 DEF Ask, begin
  <2>2. ASSUME NEW i \in 1 .. Len(history), history[i].role = "user" PROVE history[i].about # s
    <3>1. history[i].about \in Session /\ wording[history[i].about] = history[i].about
      BY <1>0, <2>2 DEF Right, Asks, Answers
    <3> QED
      BY <2>1, <3>1, SessionsAssumption
  <2> QED
    BY <1>0, <2>1, <2>2, BeginConverses
<1>2. CASE Retry(s)
  <2> DEFINE q == wording[s]
  <2>1. s \in offered /\ s = latest /\ ~inFlight /\ offered' \in SUBSET offered /\ UNCHANGED vars
    BY <1>2 DEF Retry
  <2>2. PICK new \in Session : begin(new, q, popped)
    BY <1>2, <2>1 DEF Retry
  <2>3. q \in Session /\ wording[q] = q /\ LastAsks(history, q)
    BY <2>1 DEF Conversation, Questions, PageTypes
  <2>4. popped = Front(history)
    BY <2>3 DEF popped, LastAsks, user, Last
  <2>5. /\ popped \in Seq(Messages) /\ Right(popped, wording, asked, answers)
        /\ \A i \in 1 .. Len(popped) : popped[i].role = "user" => popped[i].about # q
    BY <1>0, <2>3, <2>4, RightPopped
  <2> QED
    BY <2>1, <2>2, <2>3, <2>5, BeginConverses
<1> QED
  BY <1>1, <1>2

\* The socket of a turn is connected: nothing came over it yet.
LEMMA ConnectConverses ==
  ASSUME Types, Control, Texts, PageTypes, Conversation, NEW s \in Session, NEW r \in scene[s].asks, Connect(s, r)
  PROVE  Conversation'
<1>1. /\ inFlight /\ turn.of = s /\ turn.phase = "connecting" /\ Open(s, r)
      /\ turn' = [turn EXCEPT !.phase = "streaming"] /\ UNCHANGED <<history, wording, offered, latest>>
  BY DEF Connect, inFlight
<1>2. (\A t \in Session : Sends(t) /\ Stays(t)) /\ Streaming
  BY <1>1, StreamingSends DEF Streaming
<1>3. Right(history', wording', asked', answers')
  BY <1>1, <1>2, RightKept DEF Conversation, PageTypes
<1>4. Questions' /\ inFlight'
  BY <1>1 DEF Conversation, Questions, inFlight, PageTypes, Turns
<1>5. Flight'
  <2>1. frames'[s] = <<>> /\ conn'[s] # "none"
    BY <1>1 DEF Open, Control, HandlerRight, Untouched, Types
  <2>2. Flight /\ turn.read = 0 /\ turn.answer = <<>> /\ ~turn.final
    BY <1>1 DEF Conversation, Flight
  <2>3. turn'.of = s /\ turn'.read = 0 /\ turn'.answer = <<>> /\ turn'.final = FALSE
        /\ turn'.phase = "streaming" /\ turn'.terminal = turn.terminal
    BY <1>1, <2>2 DEF PageTypes, Turns
  <2>4. SubSeq(<<>>, 1, 0) = <<>> /\ 0 <= Len(<<>>)
    BY SubSeqEmpty
  <2>5. Reading'
    <3>1. toldIn(SubSeq(frames'[s], 1, 0)).content = <<>>
      <4>1. SubSeq(frames'[s], 1, 0) = <<>>
        BY SubSeqEmpty
      <4>2. toldIn(<<>>) = empty /\ empty.content = <<>>
        BY ToldAppend DEF empty
      <4> QED
        BY <4>1, <4>2, Zenon
    <3>2. turn'.read <= Len(frames'[turn'.of])
      BY <2>1, <2>3, <2>4
    <3> QED
      BY <2>1, <2>3, <3>1, <3>2 DEF Reading
  <2> QED
    BY <1>1, <2>2, <2>3, <2>5 DEF Flight
<1> QED
  BY <1>2, <1>3, <1>4, <1>5, EndedStays DEF Conversation

\* A frame is read.
LEMMA FrameConverses ==
  ASSUME Types, Control, PageTypes, Promise!ToldTheReply, Conversation, Frame
  PROVE  Conversation'
<1> DEFINE s == turn.of
           n == turn.read
           fs == frames[s]
           f == fs[n + 1]
           last == f.t \in {"done", "error"}
           t == [turn EXCEPT !.read = @ + 1, !.terminal = last]
<1>1. inFlight /\ Flight /\ Reading /\ turn \in Turns /\ s \in Session /\ UNCHANGED <<wording, offered, latest, vars>>
  BY DEF Frame, inFlight, Conversation, Flight, PageTypes
<1>2. n \in Nat /\ n < Len(fs) /\ fs \in Seq(Piece) /\ Len(fs) \in Nat
  BY <1>1 DEF Frame, Types, Turns
<1>3. ~turn.final
  <2>1. SUFFICES ASSUME turn.final PROVE FALSE
    OBVIOUS
  <2>2. n # 0 /\ terminal(fs[n])
    BY <1>1, <2>1 DEF Reading
  <2>3. n \in 1 .. Len(fs) - 1
    <3> HIDE DEF fs, n
    <3> QED
      BY <1>2, <2>2
  <2> QED
    BY <1>1, <2>2, <2>3 DEF Conversation, Ended
<1>4. last \in BOOLEAN /\ f \in Piece
  BY <1>2
<1>5. turn' = [t EXCEPT !.final = last, !.answer = @ \o f.content]
      /\ history' = IF f.t = "done" THEN answered(t) ELSE history
  BY <1>3 DEF Frame
<1>6. /\ t.of = s /\ t.answer = turn.answer /\ turn'.of = s /\ turn'.read = n + 1 /\ turn'.final = last
      /\ turn'.terminal = last /\ turn'.answer = turn.answer \o f.content /\ turn'.phase = "streaming"
  <2> DEFINE said == turn.answer \o f.content
  <2>1. turn' = [t EXCEPT !.final = last, !.answer = said] /\ t.answer = turn.answer
    BY <1>1, <1>5 DEF Turns
  <2>2. t = [turn EXCEPT !.read = n + 1, !.terminal = last] /\ turn.phase = "streaming"
    BY DEF Frame
  <2> HIDE DEF said, last, t
  <2>3. turn'.read = n + 1 /\ turn'.final = last /\ turn'.terminal = last /\ turn'.answer = said
        /\ turn'.phase = "streaming" /\ turn'.of = turn.of /\ t.of = turn.of
    BY <1>1, <1>4, <2>1, <2>2 DEF Turns
  <2> QED
    BY <2>1, <2>3 DEF said
<1>7. Right(history', wording', asked', answers')
  <2>1. Promise!starts(turn.answer, answers[s])
    BY <1>1, ReadIsDue
  <2>2. s \in asked
    BY <1>1 DEF asked, Reading, Flight
  <2>3. LastAsks(history, wording[s]) /\ history \in Seq(Messages) /\ Right(history, wording, asked, answers)
    BY <1>1, <1>3 DEF Flight, Conversation, PageTypes
  <2>4. Right(answered(t), wording, asked, answers)
    <3>1. Right(Append(history, assistant(wording[s], turn.answer)), wording, asked, answers)
      BY <2>1, <2>2, <2>3, RightAnswers
    <3> QED
      BY <1>6, <2>3, <3>1 DEF answered
  <2>5. Right(history', wording, asked, answers)
    BY <1>5, <2>3, <2>4
  <2>6. wording' = wording /\ asked' = asked /\ answers' = answers
    BY <1>1 DEF asked, answers, dueTo, vars, clientVars
  <2> QED
    BY <2>5, <2>6
<1>8. inFlight' /\ Questions'
  BY <1>1, <1>6 DEF inFlight, Questions, Conversation
<1>9. Flight'
  <2>1. ~last => history' = history
    BY <1>5
  <2>2. UNCHANGED <<frames, conn>>
    BY <1>1 DEF vars, serverVars, clientVars
  <2>3. SubSeq(fs, 1, n + 1) = Append(SubSeq(fs, 1, n), f) /\ SubSeq(fs, 1, n) \in Seq(Piece)
    <3> HIDE DEF fs, n
    <3>1. \A m \in Nat : m < Len(fs) => SubSeq(fs, 1, m + 1) = Append(SubSeq(fs, 1, m), fs[m + 1])
      BY <1>2
    <3>2. SubSeq(fs, 1, n) \in Seq(Piece)
      BY <1>2, PieceOf
    <3> QED
      BY <1>2, <3>1, <3>2
  <2>4. toldIn(SubSeq(fs, 1, n + 1)).content = turn.answer \o f.content
    <3>1. toldIn(SubSeq(fs, 1, n + 1)) = join(toldIn(SubSeq(fs, 1, n)), f)
      BY <1>4, <2>3, ToldAppend
    <3>2. turn.answer = toldIn(SubSeq(fs, 1, n)).content
      BY <1>1 DEF Reading
    <3>3. join(toldIn(SubSeq(fs, 1, n)), f).content = toldIn(SubSeq(fs, 1, n)).content \o f.content
      BY DEF join
    <3> HIDE DEF fs, n, f
    <3> QED
      BY <3>1, <3>2, <3>3
  <2>5. n + 1 <= Len(fs) /\ n + 1 # 0
    <3> HIDE DEF fs, n
    <3> QED
      BY <1>2
  <2>6. last => terminal(f)
    BY DEF terminal
  <2>7. Reading'
    <3>1. frames'[s] = fs /\ conn'[s] # "none"
      BY <1>1, <2>2 DEF Reading
    <3> HIDE DEF last, fs, n, s
    <3> QED
      BY <1>6, <2>4, <2>5, <2>6, <3>1 DEF Reading, s
  <2> HIDE DEF last, t
  <2> QED
    BY <1>1, <1>3, <1>6, <2>1, <2>7 DEF Flight
<1> QED
  BY <1>1, <1>7, <1>8, <1>9, Alone DEF Conversation

\* The turn is over, or its stop button was pressed.
LEMMA OverConverses ==
  ASSUME Types, Control, Texts, PageTypes, Promise!ToldTheReply, Conversation,
         Stop \/ SocketClosed \/ HealthKnown
  PROVE  Conversation'
<1>1. inFlight /\ Flight /\ turn \in Turns /\ turn.of \in Session /\ wording' = wording /\ latest' = latest
  BY DEF Stop, SocketClosed, HealthKnown, inFlight, Conversation, PageTypes
<1>2. history \in Seq(Messages) /\ Right(history, wording, asked, answers) /\ Ended /\ Questions
  BY DEF PageTypes, Conversation
<1>3. CASE Stop
  <2>1. /\ turn' = [turn EXCEPT !.stopped = TRUE] /\ UNCHANGED <<history, offered>>
        /\ frames' = frames /\ ask' = ask /\ \A s \in Session : conn[s] # "none" => conn'[s] # "none"
    BY <1>3 DEF Stop, serverVars, Types
  <2>2. \A s \in Session : Sends(s) /\ Stays(s)
    BY <2>1 DEF Sends, Stays
  <2>3. Right(history', wording', asked', answers')
    BY <1>1, <1>2, <2>1, <2>2, RightKept
  <2>4. turn'.phase = turn.phase /\ turn'.of = turn.of /\ turn'.read = turn.read /\ turn'.final = turn.final
        /\ turn'.terminal = turn.terminal /\ turn'.answer = turn.answer
    BY <1>1, <2>1 DEF Turns
  <2>5. Questions' /\ inFlight'
    BY <1>1, <1>2, <2>1, <2>4 DEF Questions, inFlight
  <2>6. Reading => Reading'
    BY <1>1, <2>1, <2>4 DEF Reading
  <2>7. Flight'
    BY <1>1, <2>1, <2>4, <2>6 DEF Flight
  <2> QED
    BY <1>2, <2>1, <2>2, <2>3, <2>5, <2>7, EndedStays DEF Conversation
<1>4. CASE SocketClosed
  <2>1. UNCHANGED vars
    BY <1>4 DEF SocketClosed
  <2>2. Right(history', wording', asked', answers')
    <3>1. CASE turn.stopped /\ ~turn.final /\ turn.answer # <<>>
      <4>1. turn.phase = "streaming" /\ Reading
        BY <1>1, <3>1, <1>4 DEF Flight
      <4>2. Promise!starts(turn.answer, answers[turn.of]) /\ turn.of \in asked
        BY <1>1, <4>1, ReadIsDue DEF asked, Reading, Flight
      <4>3. Right(answered(turn), wording, asked, answers)
        BY <1>1, <1>2, <3>1, <4>2, RightAnswers DEF answered, Flight
      <4>4. history' = answered(turn) /\ wording' = wording /\ asked' = asked /\ answers' = answers
        BY <1>1, <1>4, <2>1, <3>1 DEF SocketClosed, classifyClose, asked, answers, dueTo, vars, clientVars
      <4> QED
        BY <4>3, <4>4
    <3>2. CASE ~ (turn.stopped /\ ~turn.final /\ turn.answer # <<>>)
      <4>1. history' = history
        BY <1>4, <3>2 DEF SocketClosed, classifyClose, answered
      <4> QED
        BY <1>1, <1>2, <2>1, <4>1, RightKept, Alone
    <3> QED
      BY <3>1, <3>2
  <2>3. CASE classifyClose = "unreachable"
    <3>1. turn' = [turn EXCEPT !.phase = "unreachable"] /\ offered' = offered /\ history' = history
          /\ turn.phase # "streaming"
      BY <1>4, <2>3 DEF SocketClosed, classifyClose
    <3>2. turn'.phase = "unreachable" /\ turn'.of = turn.of /\ turn'.read = turn.read /\ turn'.final = turn.final
          /\ turn'.terminal = turn.terminal /\ turn'.answer = turn.answer
      BY <1>1, <3>1 DEF Turns
    <3>3. Questions' /\ inFlight' /\ Flight'
      BY <1>1, <1>2, <3>1, <3>2 DEF Questions, inFlight, Flight
    <3> QED
      BY <1>2, <2>1, <2>2, <3>3, Alone DEF Conversation
  <2>4. CASE classifyClose # "unreachable"
    <3>1. turn' = NoTurn /\ ~inFlight'
      BY <1>4, <2>4 DEF SocketClosed, inFlight, NoTurn
    <3>2. Questions'
      <4>1. CASE classifyClose = "dropped"
        <5>1. ~turn.terminal /\ offered' = offered \cup {turn.of} /\ history' = history
          BY <1>4, <4>1 DEF SocketClosed, classifyClose
        <5>2. LastAsks(history, wording[latest])
          BY <1>1, <5>1 DEF Flight
        <5> QED
          BY <1>1, <1>2, <5>1, <5>2 DEF Questions, Flight
      <4>2. CASE classifyClose # "dropped"
        <5>1. offered' = offered /\ latest \notin offered
          BY <1>1, <1>4, <4>2 DEF SocketClosed, Flight
        <5> QED
          BY <1>1, <1>2, <5>1 DEF Questions
      <4> QED
        BY <4>1, <4>2
    <3> QED
      BY <1>2, <2>1, <2>2, <3>1, <3>2, Alone DEF Conversation
  <2> QED
    BY <2>3, <2>4
<1>5. CASE HealthKnown
  <2>1. /\ UNCHANGED vars /\ turn' = NoTurn /\ offered' = offered \cup {turn.of} /\ history' = history
        /\ turn.phase = "unreachable"
    BY <1>5 DEF HealthKnown
  <2>2. ~inFlight'
    BY <2>1 DEF inFlight, NoTurn
  <2>3. Right(history', wording', asked', answers')
    BY <1>1, <1>2, <2>1, RightKept, Alone
  <2>4. LastAsks(history, wording[latest])
    BY <1>1, <2>1 DEF Flight
  <2>5. Questions'
    BY <1>1, <1>2, <2>1, <2>4 DEF Questions, Flight
  <2> QED
    BY <1>2, <2>1, <2>2, <2>3, <2>5, Alone DEF Conversation
<1> QED
  BY <1>3, <1>4, <1>5

\* Every step.
LEMMA EveryStepConverses ==
  ASSUME ~RetryAnyTurn, Known, Conversation, [Next]_allVars
  PROVE  Conversation'
<1>0. Types /\ Control /\ PageTypes /\ Texts /\ Promise!ToldTheReply
  BY DEF Known, PageInv
<1>1. CASE PageAct
  <2>1. ASSUME NEW s \in Session, Ask(s) \/ Retry(s) PROVE Conversation'
    BY <1>0, <2>1, AskConverses
  <2>2. ASSUME NEW s \in Session, NEW r \in scene[s].asks, Connect(s, r) PROVE Conversation'
    BY <1>0, <2>2, ConnectConverses
  <2>3. CASE Frame
    BY <1>0, <2>3, FrameConverses
  <2>4. CASE Stop \/ SocketClosed \/ HealthKnown
    BY <1>0, <2>4, OverConverses
  <2> QED
    BY <1>1, <2>1, <2>2, <2>3, <2>4 DEF PageAct
<1>2. CASE Next /\ ~PageAct
  <2>1. UNCHANGED pageVars /\ Streaming
    BY <1>2 DEF Next, Request, Environment, Streaming
  <2> QED
    BY <1>0, <2>1, ElsewhereConverses
<1>3. CASE UNCHANGED allVars
  <2>1. UNCHANGED <<vars, history, turn, wording, offered, latest>>
    BY <1>3 DEF allVars, pageVars
  <2>2. UNCHANGED <<frames, conn, ask>>
    BY <2>1 DEF vars, serverVars, clientVars
  <2>3. asked' = asked /\ answers' = answers
    BY <2>1, <2>2 DEF asked, answers, dueTo
  <2>4. Right(history, wording, asked, answers)'
    BY <2>1, <2>3 DEF Conversation
  <2> QED
    BY <2>1, <2>2, <2>4, Alone DEF Conversation, Questions, Flight, Reading, inFlight
<1> QED
  BY <1>1, <1>2, <1>3

\* Known holds at all times, and so does the conversation.
LEMMA ConversationHolds ==
  ASSUME ShownIsDue, ~RetryAnyTurn
  PROVE  Spec => [](Known /\ Conversation)
<1>1. PageInit => Conversation
  BY DEF PageInit, Init, Conversation, Right, Questions, Ended, inFlight, NoTurn
<1>2. Known /\ Conversation /\ [Next]_allVars => Conversation'
  BY EveryStepConverses
<1>3. Spec => []Known
  BY TextInvHolds, ServerTellsTheReply, PTL DEF TextInv, Known
<1> QED
  BY <1>1, <1>2, <1>3, PTL DEF Spec

\* The history that goes to the model with the next question is the conversation the reader
\* saw: every answer in it follows its own question and is what a reply to that question
\* had in its answer, and no question is in it twice; if retries are clicked on the latest
\* turn only.
THEOREM HistoryKept ==
  ASSUME ShownIsDue, ~RetryAnyTurn
  PROVE  Spec => []HistoryIsTheConversation
<1>1. Known /\ Conversation => HistoryIsTheConversation
  <2> SUFFICES ASSUME Known, Conversation, NEW i \in 1 .. Len(history)
               PROVE  IF history[i].role = "user"
                      THEN \A j \in 1 .. i - 1 : history[j].role = "user" => history[j].about # history[i].about
                      ELSE /\ i > 1 /\ history[i - 1] = user(history[i].about)
                           /\ \E s \in Session : /\ wording[s] = history[i].about
                                                 /\ IsPrefix(history[i].content, dueTo(s).content)
    BY DEF HistoryIsTheConversation
  <2>1. CASE Asks(history, wording, i)
    BY <2>1 DEF Asks
  <2>2. CASE Answers(history, wording, asked, answers, i)
    <3>1. PICK s \in asked : wording[s] = history[i].about /\ Promise!starts(history[i].content, answers[s])
      BY <2>2 DEF Answers
    <3>2. s \in Session /\ answers[s] = dueTo(s).content /\ dueTo(s) \in Two
      BY <3>1, LineOf DEF asked, answers, Known, PageInv
    <3>3. history[i].content \in Seq(Marks)
      <4>1. history \in Seq(Messages)
        BY DEF Known, PageInv, PageTypes
      <4>2. history[i] \in Messages
        BY <4>1, ElementOfSeq
      <4> QED
        BY <4>2 DEF Messages
    <3>4. IsPrefix(history[i].content, dueTo(s).content)
      <4> DEFINE t == history[i].content
                 u == dueTo(s).content
      <4>1. t \in Seq(Marks) /\ u \in Seq(Marks) /\ Len(t) <= Len(u) /\ \A k \in 1 .. Len(t) : t[k] = u[k]
        BY <3>1, <3>2, <3>3 DEF Promise!starts, Two
      <4> HIDE DEF t, u
      <4>2. SubSeq(t, 1, Len(t)) = t /\ SubSeq(u, 1, Len(t)) = t
        <5> DEFINE v == SubSeq(u, 1, Len(t))
        <5>1. Len(t) \in Nat /\ \A k \in 1 .. Len(t) : u[k] \in Marks
          BY <4>1
        <5>2. v \in Seq(Marks) /\ Len(v) = Len(t) /\ \A k \in 1 .. Len(t) : v[k] = u[k]
          BY <5>1, SubSeqProperties
        <5> HIDE DEF v
        <5>3. v = t
          BY <4>1, <5>2, SeqEqual
        <5> QED
          BY <4>1, <5>3, SubSeqFull DEF v
      <4>3. IsPrefix(t, u)
        BY <4>1, <4>2 DEF IsPrefix
      <4> QED
        BY <4>3 DEF t, u
    <3> QED
      BY <2>2, <3>1, <3>2, <3>4 DEF Answers
  <2> QED
    BY <2>1, <2>2 DEF Conversation, Right
<1> QED
  BY <1>1, ConversationHolds, PTL

\* A retry takes its own question out of the history, which ends with it; if it is clicked
\* on the latest turn only.
THEOREM RetryOfTheLatest ==
  ASSUME ShownIsDue, ~RetryAnyTurn
  PROVE  Spec => RetryPopsItsOwnQuestion
<1>1. Known /\ Conversation /\ [Next]_allVars
      => [\A s \in offered \ offered' : history # <<>> /\ Last(history) = user(wording[s])]_allVars
  <2> SUFFICES ASSUME Known, Conversation, Next, NEW s \in offered \ offered'
               PROVE  history # <<>> /\ Last(history) = user(wording[s])
    OBVIOUS
  <2>1. \E t \in Session : Retry(t)
    BY DEF Next, PageAct, Ask, begin, Connect, Frame, Stop, SocketClosed, HealthKnown, Request, Environment, pageVars
  <2>2. Retry(s)
    BY <2>1 DEF Retry
  <2>3. LastAsks(history, wording[s])
    BY <2>2 DEF Retry, Conversation, Questions
  <2> QED
    BY <2>3 DEF LastAsks, Last
<1> QED
  BY <1>1, ConversationHolds, PTL DEF Spec, RetryPopsItsOwnQuestion
=============================================================================
