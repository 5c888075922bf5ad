------------------------------- MODULE Stream -------------------------------
(***************************************************************************)
(* One reply on its way to a client (server.py: _deltas, _stream,          *)
(* stream_or_cancel, ws_chat, await_or_cancel, _detach_drain, _drain_body; *)
(* stream_pacing.py: pace_deltas; engine.py: submit, peek, take, cancel    *)
(* and the moves of a request through step).                               *)
(*                                                                         *)
(* Three threads of control serve a session.  The loop thread ticks with   *)
(* _lock held.  A worker thread runs the blocking generator from one item  *)
(* to the next: it peeks without the lock and takes with it.  The event    *)
(* loop hands the items out, watches for a client that left, and detaches  *)
(* a drain that cancels the row and closes the generator.                  *)
(***************************************************************************)
EXTENDS Reply, TLC

CONSTANTS
  Session,     \* the requests clients may make
  Scenarios,   \* what clients may do: per session its transport ("ws", "sse", "plain",
               \* or "unused") and what may be asked, with what the model will answer
  PaceDepth,   \* target_depth of the pacer (0: no pacing)
  MaxFaults    \* how often a forward fails, a wait times out, a connection is lost or
               \* the server process dies, all together

ASSUME BoundsAssumption == PaceDepth \in Nat /\ MaxFaults \in Nat

NoAsk == [tokens |-> <<>>, opened |-> FALSE, stops |-> {}]

\* Stop texts are never empty (engine.py:1111).  The engine ends a reply with the
\* token that completes one, so none is complete before; and the model opens at most
\* one <think>.
ASSUME RequestsAssumption ==
  \A sc \in Scenarios, s \in Session :
    /\ sc[s].via \in {"ws", "sse", "plain", "unused"}
    /\ \A r \in sc[s].asks :
         /\ r.tokens \in Seq(STRING) /\ r.opened \in BOOLEAN
         /\ IsFiniteSet(r.stops) /\ \A t \in r.stops : t \in Seq(STRING) /\ t # <<>>
         /\ Len(SelectSeq(marked(r.tokens, r.opened), LAMBDA t : t = ThinkOpen)) <= 1
         /\ \A n \in 1 .. Len(r.tokens) - 1 :
              stop_text(split_think(decode(SubSeq(r.tokens, 1, n)), r.opened).reply, r.stops) = <<>>

Asked == {NoAsk} \cup UNION {UNION {sc[s].asks : s \in Session} : sc \in Scenarios}

\* What may be shown when n tokens are there, and what is due at the end.
shown == [r \in Asked |-> [n \in 0 .. Len(r.tokens) |-> showable(r, n)]]
whole == [r \in Asked |-> due(r)]

\* Nothing is shown on the way that the end would have to take back.
ShownIsDue == \A r \in Asked : FirstShown(r)

VARIABLES
  up, faults,   \* the process serves; the faults so far
  scene, ask,   \* the scenario; per session: its request
  lock,         \* _lock: "free", or held by a tick that has ("ticked") or has not moved a row
  where,        \* the queue the row is in; "moving" between popleft and append
  out,          \* len(req.output)
  filed,        \* _finished, _failed
  body,         \* the generator that _deltas (or await_completion) is
  task, drain,  \* the handler on the event loop, and the drain it detached
  frames,       \* what was sent, in order
  conn          \* the connection

engineVars == <<lock, where, out, filed>>
serverVars == <<body, task, drain, frames>>
clientVars == <<scene, ask, conn>>
vars == <<up, faults, engineVars, serverVars, clientVars>>

\* st: never made, executing on a worker, suspended at a yield (or the worker is
\* back with an item), or exhausted.  at: where in its body.  sentR and sent count
\* what has been cut off the texts; held is the pacer's buffer.
NoBody == [st |-> "none", at |-> "poll", seen |-> 0, sentR |-> 0, sent |-> 0,
           items |-> <<>>, held |-> <<>>]

delta(r, c) == [t |-> "delta", reasoning |-> r, content |-> c]
control(t) == [t |-> t, reasoning |-> <<>>, content |-> <<>>]
terminal(f) == f.t \in {"done", "error", "message"}

via(s) == scene[s].via
gone(s) == conn[s] \in {"left", "lost"}
queued(s) == where[s] \in {"waiting", "running"}
\* The server is through with a session: its handler and its drain are over.
over(s) == task[s] = "over" /\ drain[s] \in {"none", "over"}

\* One more fault.
fault == faults < MaxFaults /\ faults' = faults + 1
lockFree == up /\ lock = "free"

Init ==
  /\ up = TRUE /\ faults = 0
  /\ scene \in Scenarios /\ ask = [s \in Session |-> NoAsk]
  /\ lock = "free" /\ where = [s \in Session |-> "none"]
  /\ out = [s \in Session |-> 0] /\ filed = [s \in Session |-> "none"]
  /\ body = [s \in Session |-> NoBody]
  /\ task = [s \in Session |-> "none"] /\ drain = [s \in Session |-> "none"]
  /\ frames = [s \in Session |-> <<>>] /\ conn = [s \in Session |-> "none"]

-----------------------------------------------------------------------------
(* The engine *)

TickBegin ==
  /\ lockFree /\ \E s \in Session : queued(s)
  /\ lock' = "tick"
  /\ UNCHANGED <<up, faults, where, out, filed, serverVars, clientVars>>

\* _running.append(_waiting.popleft()): for a moment the row is in neither queue.
Admit(s) ==
  /\ lock # "free" /\ where[s] \in {"waiting", "moving"}
  /\ where' = [where EXCEPT ![s] = IF @ = "waiting" THEN "moving" ELSE "running"]
  /\ lock' = "ticked"
  /\ UNCHANGED <<up, faults, out, filed, serverVars, clientVars>>

\* Mutant: a row that has its last token is given another.
EmitPastEnd(s) ==
  /\ lock # "free" /\ where[s] = "running" /\ out[s] <= Len(ask[s].tokens)
  /\ out' = [out EXCEPT ![s] = @ + 1]
  /\ lock' = "ticked"
  /\ UNCHANGED <<up, faults, where, filed, serverVars, clientVars>>

\* _commit appends a token; more than one of a verified chain.
Emit(s) ==
  /\ lock # "free" /\ where[s] = "running"
  /\ out[s] < Len(ask[s].tokens)
  /\ out' = [out EXCEPT ![s] = @ + 1]
  /\ lock' = "ticked"
  /\ UNCHANGED <<up, faults, where, filed, serverVars, clientVars>>

\* _finish files the answer, or the failure of a forward, and then leaves _running;
\* peek does not look at what is filed.
Finish(s) ==
  /\ lock # "free" /\ where[s] = "running"
  /\ \/ out[s] = Len(ask[s].tokens) /\ filed' = [filed EXCEPT ![s] = "finished"] /\ UNCHANGED faults
     \/ fault /\ filed' = [filed EXCEPT ![s] = "failed"]
  /\ where' = [where EXCEPT ![s] = "gone"]
  /\ lock' = "ticked"
  /\ UNCHANGED <<up, out, serverVars, clientVars>>

TickEnd ==
  /\ lock = "ticked"
  /\ \A s \in Session : where[s] # "moving"
  /\ lock' = "free"
  /\ UNCHANGED <<up, faults, where, out, filed, serverVars, clientVars>>

\* engine.cancel: _failed, not _finished; nothing if the row has left the queues.
cancel(s) ==
  IF queued(s)
  THEN where' = [where EXCEPT ![s] = "gone"] /\ filed' = [filed EXCEPT ![s] = "failed"]
  ELSE UNCHANGED <<where, filed>>

-----------------------------------------------------------------------------
(* The generator, on a worker thread *)

working(s, place) == body[s].st = "running" /\ body[s].at = place

\* Mutant: a control frame goes out past the deltas the pacer holds.
producedPast(s, b, new, flush) ==
  LET now == flush \/ via(s) # "sse" \/ b.seen >= PaceDepth
  IN  [b EXCEPT !.items = IF now THEN (IF flush THEN new ELSE b.held \o new) ELSE <<>>,
                !.held = IF now THEN <<>> ELSE b.held \o new,
                !.st = IF now /\ b.held \o new # <<>> THEN "suspended" ELSE "running"]

\* pace_deltas: on the SSE route deltas wait until PaceDepth tokens have come; a
\* control frame flushes.  Then the items go out one next() at a time.
produced(s, b, new, flush) ==
  LET all == b.held \o new
      now == flush \/ via(s) # "sse" \/ b.seen >= PaceDepth
  IN  [b EXCEPT !.items = IF now THEN all ELSE <<>>,
                !.held = IF now THEN <<>> ELSE all,
                !.st = IF now /\ all # <<>> THEN "suspended" ELSE "running"]

\* Mutant: peek answers [] for a request it does not find, and the loop goes on.
PollOnlyLive(s) ==
  /\ working(s, "poll") /\ queued(s) /\ out[s] > body[s].seen
  /\ body' = [body EXCEPT ![s] = produced(s, [@ EXCEPT !.seen = out[s]], <<>>, FALSE)]
  /\ UNCHANGED <<up, faults, engineVars, task, drain, frames, clientVars>>

\* One pass of the loop: peek sees the row in a queue and decodes what is new of
\* it; or it sees it in neither, and the loop is over.
Poll(s) ==
  /\ working(s, "poll")
  /\ IF queued(s)
     THEN /\ out[s] > body[s].seen
          /\ LET r == shown[ask[s]][out[s]].reasoning
                 c == shown[ask[s]][out[s]].content
                 new == (IF Len(r) > body[s].sentR THEN <<delta(from(r, body[s].sentR + 1), <<>>)>> ELSE <<>>)
                     \o (IF Len(c) > body[s].sent THEN <<delta(<<>>, from(c, body[s].sent + 1))>> ELSE <<>>)
                 b == [body[s] EXCEPT !.seen = out[s],
                                      !.sentR = IF Len(r) > @ THEN Len(r) ELSE @,
                                      !.sent = IF Len(c) > @ THEN Len(c) ELSE @]
             IN  body' = [body EXCEPT ![s] = produced(s, b, new, FALSE)]
     ELSE body' = [body EXCEPT ![s].at = "take"]
  /\ UNCHANGED <<up, faults, engineVars, task, drain, frames, clientVars>>

\* The deadline of the loop, or that of await_completion, has passed.
TimesOut(s) ==
  /\ working(s, "poll") \/ working(s, "take")
  /\ body' = [body EXCEPT ![s].at = "giveup"]
  /\ fault
  /\ UNCHANGED <<up, engineVars, task, drain, frames, clientVars>>

\* await_completion: take pops the answer, or raises RequestFailed.
Take(s) ==
  /\ working(s, "take") /\ lockFree /\ filed[s] # "none"
  /\ filed' = [filed EXCEPT ![s] = "none"]
  /\ body' = [body EXCEPT ![s].at = IF filed[s] = "finished" THEN "tail" ELSE "giveup"]
  /\ UNCHANGED <<up, faults, lock, where, out, task, drain, frames, clientVars>>

\* What is left of the finished texts after what was cut off them, the calls, and
\* the end.  The plain route answers with the whole message.
Tail_(s) ==
  /\ working(s, "tail") /\ lockFree
  /\ LET d == whole[ask[s]]
         new == (IF Len(d.reasoning) > body[s].sentR
                 THEN <<delta(from(d.reasoning, body[s].sentR + 1), <<>>)>> ELSE <<>>)
             \o (IF Len(d.content) > body[s].sent
                 THEN <<delta(<<>>, from(d.content, body[s].sent + 1))>> ELSE <<>>)
             \o (IF d.calls THEN <<control("tool_calls")>> ELSE <<>>)
             \o <<control("done")>>
         message == <<[t |-> "message", reasoning |-> d.reasoning, content |-> d.content]>>
         b == [body[s] EXCEPT !.at = "end"]
     IN  body' = [body EXCEPT ![s] = produced(s, b, IF via(s) = "plain" THEN message ELSE new, TRUE)]
  /\ UNCHANGED <<up, faults, engineVars, task, drain, frames, clientVars>>

\* The handler of TimeoutError and RequestFailed: cancel, then an error frame.
GiveUp(s) ==
  /\ working(s, "giveup") /\ lockFree
  /\ cancel(s)
  /\ body' = [body EXCEPT ![s] = produced(s, [@ EXCEPT !.at = "end"], <<control("error")>>, TRUE)]
  /\ UNCHANGED <<up, faults, lock, out, task, drain, frames, clientVars>>

\* to_thread(next, body): the next item is there at once, or the generator goes on.
resumed(s) ==
  LET rest == Tail(body[s].items)
  IN  [body[s] EXCEPT !.items = rest,
                      !.st = IF rest # <<>> THEN "suspended"
                             ELSE IF @ = "suspended" /\ body[s].at = "end" THEN "closed"
                             ELSE "running"]

-----------------------------------------------------------------------------
(* The handler, on the event loop *)

\* A client connects and asks.
Open(s, r) ==
  /\ up /\ conn[s] = "none" /\ r \in scene[s].asks
  /\ conn' = [conn EXCEPT ![s] = "open"] /\ ask' = [ask EXCEPT ![s] = r]
  /\ task' = [task EXCEPT ![s] = "submit"]
  /\ UNCHANGED <<up, faults, scene, engineVars, body, drain, frames>>

\* _submit, and the first next().
Submit(s) ==
  /\ task[s] = "submit" /\ lockFree
  /\ where' = [where EXCEPT ![s] = "waiting"]
  /\ body' = [body EXCEPT ![s] = [NoBody EXCEPT !.st = "running",
                                                !.at = IF via(s) = "plain" THEN "take" ELSE "poll"]]
  /\ task' = [task EXCEPT ![s] = "fetch"]
  /\ UNCHANGED <<up, faults, lock, out, filed, drain, frames, clientVars>>

closeConn(s) == conn' = [conn EXCEPT ![s] = IF @ = "open" THEN "closed" ELSE @]
send(s, f) == frames' = [frames EXCEPT ![s] = IF conn[s] = "open" THEN Append(@, f) ELSE @]

\* Mutant: the drain waits for the worker first and cancels only by closing.
detachUncancelled(s) == task' = [task EXCEPT ![s] = "over"] /\ drain' = [drain EXCEPT ![s] = "join"]

\* _detach_drain.
detach(s) == task' = [task EXCEPT ![s] = "over"] /\ drain' = [drain EXCEPT ![s] = "cancel"]

\* submit refuses: the queue cap, or a request that cannot fit.
Refuse(s) ==
  /\ task[s] = "submit" /\ lockFree
  /\ send(s, control("error")) /\ closeConn(s)
  /\ task' = [task EXCEPT ![s] = "over"]
  /\ UNCHANGED <<up, faults, engineVars, body, drain, scene, ask>>

\* The worker is back with an item.
fetched(s, k) == task[s] = "fetch" /\ body[s].st = "suspended" /\ via(s) = k

\* ws_chat sends it.  A send to a client that left raises, or is lost unnoticed.
SendFrame(s) ==
  /\ fetched(s, "ws")
  /\ LET f == Head(body[s].items)
     IN  /\ send(s, f)
         /\ \/ f.t # "error" /\ body' = [body EXCEPT ![s] = resumed(s)]
               /\ UNCHANGED <<task, drain, conn>>
            \/ f.t = "error" /\ detach(s) /\ closeConn(s)
               /\ body' = [body EXCEPT ![s].items = <<>>]
            \/ gone(s) /\ detach(s) /\ UNCHANGED <<body, conn>>
  /\ UNCHANGED <<up, faults, engineVars, scene, ask>>

\* stream_or_cancel yields it, unless the client hung up meanwhile.
YieldItem(s) ==
  /\ fetched(s, "sse")
  /\ IF gone(s)
     THEN task' = [task EXCEPT ![s] = "cancel"] /\ UNCHANGED <<body, frames>>
     ELSE /\ send(s, Head(body[s].items))
          /\ task' = [task EXCEPT ![s] = "yield"]
          /\ UNCHANGED body
  /\ UNCHANGED <<up, faults, engineVars, drain, clientVars>>

Resume(s) ==
  /\ task[s] = "yield"
  /\ task' = [task EXCEPT ![s] = "fetch"]
  /\ body' = [body EXCEPT ![s] = resumed(s)]
  /\ UNCHANGED <<up, faults, engineVars, drain, frames, clientVars>>

\* await_or_cancel returns and the route answers.
Answer(s) ==
  /\ fetched(s, "plain")
  /\ send(s, Head(body[s].items)) /\ closeConn(s)
  /\ task' = [task EXCEPT ![s] = "over"]
  /\ body' = [body EXCEPT ![s] = [NoBody EXCEPT !.st = "closed"]]
  /\ UNCHANGED <<up, faults, engineVars, drain, scene, ask>>

\* The generator is exhausted.
StreamEnd(s) ==
  /\ task[s] = "fetch" /\ body[s].st = "closed"
  /\ detach(s) /\ closeConn(s)
  /\ UNCHANGED <<up, faults, engineVars, body, frames, scene, ask>>

\* The watch sees that the client left while the worker is still out; or the
\* response is torn down there.
NoticeGone(s) ==
  /\ task[s] = "fetch" /\ body[s].st = "running" /\ gone(s)
  /\ IF via(s) = "ws" THEN detach(s)
     ELSE task' = [task EXCEPT ![s] = "cancel"] /\ UNCHANGED drain
  /\ UNCHANGED <<up, faults, engineVars, body, frames, clientVars>>

\* The response is torn down at its yield: nothing has cancelled the row.
Abandon(s) ==
  /\ task[s] = "yield" /\ gone(s)
  /\ detach(s)
  /\ UNCHANGED <<up, faults, engineVars, body, frames, clientVars>>

\* engine.cancel in the scope of the handler.
Cancel(s) ==
  /\ task[s] = "cancel" /\ lockFree
  /\ cancel(s)
  /\ IF via(s) = "sse" THEN detach(s)
     ELSE task' = [task EXCEPT ![s] = "over"] /\ UNCHANGED drain
  /\ UNCHANGED <<up, faults, lock, out, body, frames, clientVars>>

-----------------------------------------------------------------------------
(* _drain_body, detached *)

DrainCancel(s) ==
  /\ drain[s] = "cancel" /\ lockFree
  /\ cancel(s)
  /\ drain' = [drain EXCEPT ![s] = "join"]
  /\ UNCHANGED <<up, faults, lock, out, body, task, frames, clientVars>>

joined(s) == body[s].st # "running"

DrainJoin(s) ==
  /\ drain[s] = "join" /\ joined(s)
  /\ drain' = [drain EXCEPT ![s] = "close"]
  /\ UNCHANGED <<up, faults, engineVars, body, task, frames, clientVars>>

\* Mutant: the wait is over and the body is closed all the same.
GiveUpAndClose(s) ==
  /\ drain[s] = "join" /\ ~joined(s) /\ fault
  /\ drain' = [drain EXCEPT ![s] = "close"]
  /\ UNCHANGED <<up, engineVars, body, task, frames, clientVars>>

\* The worker did not come back within _DRAIN_WAIT_S: the body stays unclosed.
DrainGivesUp(s) ==
  /\ drain[s] = "join" /\ ~joined(s) /\ fault
  /\ drain' = [drain EXCEPT ![s] = "over"]
  /\ UNCHANGED <<up, engineVars, body, task, frames, clientVars>>

\* body.close(): a suspended generator gets GeneratorExit and cancels again.
DrainClose(s) ==
  /\ drain[s] = "close" /\ lockFree
  /\ IF body[s].st = "suspended" THEN cancel(s) ELSE UNCHANGED <<where, filed>>
  /\ body' = [body EXCEPT ![s] = [NoBody EXCEPT !.st = "closed"]]
  /\ drain' = [drain EXCEPT ![s] = "over"]
  /\ UNCHANGED <<up, faults, lock, out, task, frames, clientVars>>

-----------------------------------------------------------------------------
(* The client's side of the connection, and the process *)

Leave(s) ==
  /\ conn[s] = "open" /\ conn' = [conn EXCEPT ![s] = "left"]
  /\ UNCHANGED <<up, faults, scene, ask, engineVars, serverVars>>

Lose(s) ==
  /\ conn[s] = "open" /\ conn' = [conn EXCEPT ![s] = "lost"]
  /\ fault
  /\ UNCHANGED <<up, scene, ask, engineVars, serverVars>>

\* fatal_device_exit, or the supervisor's SIGKILL: nothing of the process is left.
Crash ==
  /\ up /\ fault
  /\ up' = FALSE
  /\ conn' = [s \in Session |-> IF conn[s] = "open" THEN "lost" ELSE conn[s]]
  /\ lock' = "free"
  /\ where' = [s \in Session |-> IF where[s] = "none" THEN "none" ELSE "gone"]
  /\ filed' = [s \in Session |-> "none"]
  /\ body' = [s \in Session |-> IF body[s].st = "none" THEN NoBody ELSE [NoBody EXCEPT !.st = "closed"]]
  /\ task' = [s \in Session |-> IF task[s] = "none" THEN "none" ELSE "over"]
  /\ drain' = [s \in Session |-> IF task[s] = "none" THEN "none" ELSE "over"]
  /\ UNCHANGED <<out, frames, scene, ask>>

Restart == ~up /\ up' = TRUE /\ UNCHANGED <<faults, engineVars, serverVars, clientVars>>

-----------------------------------------------------------------------------

Tick == TickBegin \/ TickEnd \/ \E s \in Session : Admit(s) \/ Emit(s) \/ Finish(s)
Works(s) == Poll(s) \/ Take(s) \/ Tail_(s) \/ GiveUp(s)
Worker(s) == Works(s) \/ TimesOut(s)
Handler(s) ==
  \/ Submit(s) \/ Refuse(s) \/ SendFrame(s) \/ YieldItem(s) \/ Resume(s) \/ Answer(s)
  \/ StreamEnd(s) \/ NoticeGone(s) \/ Abandon(s) \/ Cancel(s)
Drain(s) == DrainCancel(s) \/ DrainJoin(s) \/ DrainGivesUp(s) \/ DrainClose(s)
Serve == Tick \/ \E s \in Session : Worker(s) \/ Handler(s) \/ Drain(s)

\* The loop thread ticks while a row is queued, threads get the lock in the end, and
\* the event loop runs what is ready.  Nobody has to time out.
Fairness ==
  /\ WF_vars(Tick)
  /\ \A s \in Session :
       WF_vars(Works(s)) /\ WF_vars(Handler(s)) /\ WF_vars(Drain(s))

-----------------------------------------------------------------------------
(* What clients are told *)

Marks == {WholeChar, ThinkOpen, Unfinished} \cup UNION {ToSet(r.tokens) : r \in Asked}

\* The two texts that some frames put together.
toldIn(fs) ==
  LET upTo[i \in 0 .. Len(fs)] ==
        IF i = 0 THEN [reasoning |-> <<>>, content |-> <<>>]
        ELSE LET t == upTo[i - 1]
             IN  [reasoning |-> t.reasoning \o fs[i].reasoning, content |-> t.content \o fs[i].content]
  IN  upTo[Len(fs)]

toldTo(s) == toldIn(frames[s])
dueTo(s) == LET d == whole[ask[s]] IN [reasoning |-> d.reasoning, content |-> d.content]

\* "cut": the server closed the connection and said neither the end nor an error.
standing(s) ==
  LET said == {frames[s][i].t : i \in 1 .. Len(frames[s])}
  IN  IF conn[s] = "none" THEN "new"
      ELSE IF said \cap {"done", "message"} # {} THEN "done"
      ELSE IF "error" \in said THEN "error"
      ELSE IF gone(s) THEN "gone" ELSE IF conn[s] = "closed" THEN "cut" ELSE "open"

Promise == INSTANCE Delivery WITH
  Mark <- Marks,
  promised <- [s \in Session |-> dueTo(s)],
  told <- [s \in Session |-> toldTo(s)],
  status <- [s \in Session |-> standing(s)]

\* Over all three transports, with calls, stop texts, reasoning and characters cut at
\* any place, with readers that leave, deadlines that pass and servers that die, the
\* deltas put together are the reply of the non-streamed route, and an end or an error
\* is said once, last, and before the server closes the connection.  This is so where what
\* is shown early is a beginning of what is due, as in the replies clients ask for here
\* (ShownIsDue).  It is not so of every reply: server.py:915 has the deltas cut from the
\* strings the rest is cut from, but `sent` counts what was stripped on the right only, and
\* of an answer that begins with white space a piece at the end is lost or said twice.
DeliversReply == Promise!Spec

\* A drain that is over, joined or not, left no row behind that generates for nobody.
DrainedMeansFreed ==
  \A s \in Session : over(s) => where[s] \in {"none", "gone"}

\* body.close() on a generator that a worker is executing raises ValueError, and its
\* cancel is lost: nobody starts it, or goes on with it, once the drain closes it.
NeverClosedWhileRunning ==
  \A s \in Session : drain[s] = "close" => body[s].st # "running"

\* A client that stays hears the end or an error, and whatever it does, its handler
\* and its drain end.
EveryStreamEnds ==
  \A s \in Session :
    conn[s] = "open" ~> conn[s] # "open" /\ over(s)
=============================================================================
