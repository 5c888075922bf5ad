-------------------------------- MODULE Page --------------------------------
(***************************************************************************)
(* The playground (web/src/main.ts: submit, stream, resend; transport.ts:  *)
(* ask, waitForHealth; protocol.ts: classifyClose) and API clients, on top *)
(* of the server that streams to them.  A turn of the page is one socket;  *)
(* its session is numbered like the question it asks.                      *)
(***************************************************************************)
EXTENDS Stream

CONSTANTS
  Overlap,       \* a turn may begin before the server is through with the one before
  RetryAnyTurn   \* a retry button is clicked whenever it is there, or only on the
                 \* latest turn and when no answer is coming

\* A session is not 0, which says that there is none.
ASSUME SessionsAssumption == 0 \notin Session

VARIABLES
  history,   \* messages, each with the question it asks or answers
  turn,      \* the turn in flight: its socket and what came over it; or NoTurn
  wording,   \* per session: the question it asks
  offered,   \* the turns that show a retry button
  latest     \* the last turn begun

pageVars == <<history, turn, wording, offered, latest>>
allVars == <<vars, pageVars>>

\* phase: "idle", "connecting", "streaming", or "unreachable" while /health is polled.
NoTurn == [phase |-> "idle", of |-> 0, stopped |-> FALSE, terminal |-> FALSE,
           final |-> FALSE, read |-> 0, answer |-> <<>>]

user(q) == [role |-> "user", about |-> q, content |-> <<>>]
assistant(q, t) == [role |-> "assistant", about |-> q, content |-> t]

inFlight == turn.phase # "idle"

PageInit ==
  /\ Init
  /\ history = <<>> /\ turn = NoTurn /\ wording = [s \in Session |-> 0]
  /\ offered = {} /\ latest = 0

\* submit, past its early return: a turn and a socket for question q.
begin(s, q, said) ==
  /\ via(s) = "ws" /\ conn[s] = "none" /\ wording[s] = 0
  /\ Overlap \/ \A t \in Session : task[t] = "none" \/ over(t)
  /\ history' = Append(said, user(q))
  /\ turn' = [NoTurn EXCEPT !.phase = "connecting", !.of = s]
  /\ wording' = [wording EXCEPT ![s] = q]
  /\ latest' = s

\* A question nobody asked before; it is named after its first session.
Ask(s) ==
  /\ ~inFlight /\ begin(s, s, history)
  /\ UNCHANGED <<offered, vars>>

\* resend: pop the user message at the end, remove the turn, submit the same text,
\* which returns at once when another turn is in flight.
popped == IF history # <<>> /\ Last(history).role = "user" THEN Front(history) ELSE history

Retry(s) ==
  /\ s \in offered /\ (RetryAnyTurn \/ (s = latest /\ ~inFlight))
  /\ offered' = offered \ {s}
  /\ IF inFlight THEN history' = popped /\ UNCHANGED <<turn, wording, latest>>
     ELSE \E new \in Session : begin(new, wording[s], popped)
  /\ UNCHANGED vars

Connect(s, r) ==
  /\ turn.phase = "connecting" /\ turn.of = s /\ ~turn.stopped /\ Open(s, r)
  /\ turn' = [turn EXCEPT !.phase = "streaming"]
  /\ UNCHANGED <<history, wording, offered, latest>>

\* A frame: nothing after a terminal one counts; the answer joins the history with
\* the frame that says it is done, if there is any.
answered(t) == IF t.answer # <<>> THEN Append(history, assistant(wording[t.of], t.answer)) ELSE history

Frame ==
  /\ turn.phase = "streaming" /\ turn.read < Len(frames[turn.of])
  /\ LET f == frames[turn.of][turn.read + 1]
         t == [turn EXCEPT !.read = @ + 1, !.terminal = f.t \in {"done", "error"}]
     IN  IF turn.final THEN turn' = t /\ UNCHANGED history
         ELSE /\ turn' = [t EXCEPT !.final = f.t \in {"done", "error"},
                                   !.answer = @ \o f.content]
              /\ history' = IF f.t = "done" THEN answered(t) ELSE history
  /\ UNCHANGED <<wording, offered, latest, vars>>

\* The stop button closes the socket; while /health is polled it ends that.
Stop ==
  /\ turn.phase \in {"connecting", "streaming"} /\ ~turn.stopped
  /\ turn' = [turn EXCEPT !.stopped = TRUE]
  /\ conn' = [conn EXCEPT ![turn.of] = IF @ = "open" THEN "left" ELSE @]
  /\ UNCHANGED <<history, wording, offered, latest, up, faults, scene, ask, engineVars, serverVars>>

classifyClose ==
  IF turn.stopped THEN "stopped"
  ELSE IF turn.terminal THEN "terminal"
  ELSE IF turn.phase = "streaming" THEN "dropped" ELSE "unreachable"

\* Mutant: a stopped turn puts its answer in the history, settled or not.
ClosedTwice ==
  /\ turn.phase = "streaming" /\ conn[turn.of] # "open"
  /\ turn' = NoTurn
  /\ history' = IF turn.stopped THEN answered(turn) ELSE history
  /\ UNCHANGED <<wording, offered, latest, vars>>

\* Mutant: every close of a socket offers a retry.
ClosedOffers ==
  /\ turn.phase = "streaming" /\ conn[turn.of] # "open"
  /\ (conn[turn.of] = "closed" => turn.read = Len(frames[turn.of]))
  /\ turn' = NoTurn /\ offered' = offered \cup {turn.of}
  /\ history' = IF classifyClose = "stopped" /\ ~turn.final THEN answered(turn) ELSE history
  /\ UNCHANGED <<wording, latest, vars>>

\* onclose.  All that a server sent before it closed the socket comes first.
SocketClosed ==
  /\ \/ turn.phase = "connecting" /\ (turn.stopped \/ ~up)
     \/ turn.phase = "streaming" /\ conn[turn.of] # "open"
        /\ (conn[turn.of] = "closed" => turn.read = Len(frames[turn.of]))
  /\ turn' = IF classifyClose = "unreachable" THEN [turn EXCEPT !.phase = "unreachable"] ELSE NoTurn
  /\ offered' = IF classifyClose = "dropped" THEN offered \cup {turn.of} ELSE offered
  /\ history' = IF classifyClose = "stopped" /\ ~turn.final THEN answered(turn) ELSE history
  /\ UNCHANGED <<wording, latest, vars>>

\* Mutant: the page waits for the server as long as it takes.
HealthForever ==
  /\ turn.phase = "unreachable" /\ up
  /\ turn' = NoTurn /\ offered' = offered \cup {turn.of}
  /\ UNCHANGED <<history, wording, latest, vars>>

\* waitForHealth resolves: the server is back, three minutes are over, or Stop.
HealthKnown ==
  /\ turn.phase = "unreachable"
  /\ turn' = NoTurn /\ offered' = offered \cup {turn.of}
  /\ UNCHANGED <<history, wording, latest, vars>>

-----------------------------------------------------------------------------

\* A program that uses the API; it leaves when it likes (Leave).
Request(s, r) == via(s) \in {"sse", "plain"} /\ Open(s, r) /\ UNCHANGED pageVars

PageAct ==
  \/ \E s \in Session : Ask(s) \/ Retry(s) \/ \E r \in scene[s].asks : Connect(s, r)
  \/ Frame \/ Stop \/ SocketClosed \/ HealthKnown

Environment ==
  /\ \/ Crash \/ Restart
     \/ \E s \in Session : Lose(s) \/ (via(s) # "ws" /\ Leave(s))
  /\ UNCHANGED pageVars

Next ==
  \/ PageAct
  \/ \E s \in Session : \E r \in scene[s].asks : Request(s, r)
  \/ Serve /\ UNCHANGED pageVars
  \/ Environment

\* The browser delivers what arrives and ends a handshake, and the wait is bounded.
PageFairness ==
  /\ WF_allVars(Frame \/ SocketClosed \/ HealthKnown)
  /\ WF_allVars(\E s \in Session : \E r \in scene[s].asks : Connect(s, r))

Spec == PageInit /\ [][Next]_allVars /\ Fairness /\ PageFairness

-----------------------------------------------------------------------------

TypeOK ==
  /\ up \in BOOLEAN /\ faults \in 0 .. MaxFaults
  /\ scene \in Scenarios /\ \A s \in Session : ask[s] \in scene[s].asks \cup {NoAsk}
  /\ lock \in {"free", "tick", "ticked"}
  /\ where \in [Session -> {"none", "waiting", "moving", "running", "gone"}]
  /\ filed \in [Session -> {"none", "finished", "failed"}]
  /\ \A s \in Session :
       /\ out[s] \in 0 .. Len(ask[s].tokens) /\ body[s].seen \in 0 .. out[s]
       /\ body[s].st \in {"none", "running", "suspended", "closed"}
       /\ body[s].at \in {"poll", "take", "tail", "giveup", "end"}
  /\ task \in [Session -> {"none", "submit", "fetch", "yield", "cancel", "over"}]
  /\ drain \in [Session -> {"none", "cancel", "join", "close", "over"}]
  /\ conn \in [Session -> {"none", "open", "closed", "left", "lost"}]
  /\ turn.phase \in {"idle", "connecting", "streaming", "unreachable"}
  /\ turn.of \in Session \cup {0} /\ latest \in Session \cup {0}
  /\ offered \subseteq Session /\ wording \in [Session -> Session \cup {0}]

\* The history that goes to the model with the next question: every answer in it
\* stands right after the question it answers, is what a reply to that question had in
\* its answer, all of it or up to a stop, and no question is in it twice.
HistoryIsTheConversation ==
  \A i \in 1 .. Len(history) :
    IF history[i].role = "user"
    THEN \A j \in 1 .. i - 1 : history[j].role = "user" => history[j].about # history[i].about
    ELSE /\ i > 1 /\ history[i - 1] = user(history[i].about)
         /\ \E s \in Session : /\ wording[s] = history[i].about
                               /\ IsPrefix(history[i].content, dueTo(s).content)

\* A retry takes its own question out of the history, which ends with it.
RetryPopsItsOwnQuestion ==
  [][\A s \in offered \ offered' : history # <<>> /\ Last(history) = user(wording[s])]_allVars

\* Whatever becomes of the server, the reader can ask again.
ComposerComesBack == inFlight ~> ~inFlight
=============================================================================
