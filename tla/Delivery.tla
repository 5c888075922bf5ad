------------------------------ MODULE Delivery ------------------------------
(***************************************************************************)
(* What a chat client may count on, whatever transport it uses: the pieces *)
(* of a reply it is told are, put together, the start of the one reply the *)
(* request is due; an end says that it was told all of it; and after an    *)
(* end, an error or its own departure it is told nothing more.             *)
(***************************************************************************)
EXTENDS Sequences, Naturals

CONSTANTS
  Session,   \* the requests
  Mark       \* what a text is made of

Text == Seq(Mark)

VARIABLES
  promised,  \* per request: the reply it is due, in two parts
  told,      \* what of it the client was told
  status     \* "new", "open", "done", "error" or "gone"

deliveryVars == <<promised, told, status>>

Reply == [reasoning : Text, content : Text]
Nothing == [reasoning |-> <<>>, content |-> <<>>]

starts(t, u) == Len(t) <= Len(u) /\ \A i \in 1 .. Len(t) : t[i] = u[i]
Within(a, b) == starts(a.reasoning, b.reasoning) /\ starts(a.content, b.content)

Init ==
  /\ promised = [s \in Session |-> Nothing]
  /\ told = [s \in Session |-> Nothing]
  /\ status = [s \in Session |-> "new"]

Open(s) ==
  /\ status[s] = "new" /\ status'[s] = "open"
  /\ told'[s] = told[s]

\* The client is told more: what it had been told before stays as it was.
Tell(s) ==
  /\ status[s] = "open" /\ status'[s] = "open" /\ promised'[s] = promised[s]
  /\ Within(told[s], told'[s]) /\ Within(told'[s], promised[s])

\* The end comes with the last of it.
End(s) ==
  /\ status[s] = "open" /\ status'[s] = "done" /\ promised'[s] = promised[s]
  /\ Within(told[s], promised[s]) /\ told'[s] = promised[s]

\* The server says that it failed, or the client or its connection is gone.
Stops(s) ==
  /\ status[s] = "open" /\ status'[s] \in {"error", "gone"}
  /\ promised'[s] = promised[s] /\ told'[s] = told[s]

Same(s) == promised'[s] = promised[s] /\ told'[s] = told[s] /\ status'[s] = status[s]

\* A server that dies lets go of several clients at once.
Next ==
  /\ promised' \in [Session -> Reply] /\ told' \in [Session -> Reply]
  /\ status' \in [Session -> {"new", "open", "done", "error", "gone"}]
  /\ \A s \in Session : Open(s) \/ Tell(s) \/ End(s) \/ Stops(s) \/ Same(s)

Spec == Init /\ [][Next]_deliveryVars

-----------------------------------------------------------------------------

TypeOK ==
  /\ promised \in [Session -> Reply] /\ told \in [Session -> Reply]
  /\ status \in [Session -> {"new", "open", "done", "error", "gone"}]

\* At every moment a client knows a beginning of the reply it is due, and once it was
\* told the end, all of it.
ToldTheReply ==
  \A s \in Session :
    /\ Within(told[s], promised[s])
    /\ status[s] = "done" => told[s] = promised[s]
=============================================================================
