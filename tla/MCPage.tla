------------------------------- MODULE MCPage -------------------------------
(* Two sessions: two turns of the page, or two API clients.  The replies cut  *)
(* the closer, a call, a stop text and a character in two.                    *)
EXTENDS Page

MCSession == 1 .. 2
reply(tokens, opened, stops) == [tokens |-> tokens, opened |-> opened, stops |-> stops]
Rich ==
  { reply(<<"r", "</th", "ink>", "_", "a">>, TRUE, {}),
    reply(<<FirstHalf, SecondHalf, "_", "<tool", "_call>", CallRest>>, FALSE, {}),
    reply(<<"a", "_", "<tool", "_call>">>, FALSE, {}),
    reply(<<"a", "_", "x", "y">>, FALSE, {<<"x", "y">>}) }
Short == { reply(<<"a">>, FALSE, {}) }
client(how, asks) == [via |-> how, asks |-> asks]
alone(how) == <<client(how, Rich), client("unused", {})>>
MCScenarios ==
  { alone("sse"), alone("plain"), alone("ws"),
    <<client("sse", Short), client("plain", Short)>>,
    <<client("ws", Short), client("ws", Short)>> }

\* Every short reply in the form the checkpoint writes: one thought at most, closed after
\* it was opened, and an answer that does not begin with white space.  The engine ends it
\* with the first stop text.
Token == {"a", Space, "</th", "ink>", "<tool", "_call>", CallRest, FirstHalf, SecondHalf, ThinkOpen}
Stops == {{}, {<<"a", "a">>, <<"a", Space>>}}
answer(r) == split_think(decode(r.tokens), r.opened).reply
tidy(r) ==
  LET text == marked(decode(r.tokens), r.opened)
  IN  /\ Len(SelectSeq(text, LAMBDA t : t = ThinkOpen)) <= 1
      /\ find(text, ThinkClose) # 0 => find(text, <<ThinkOpen>>) < find(text, ThinkClose)
      /\ answer(r) # <<>> => Head(answer(r)) # Space
ended(r) ==
  \A n \in 1 .. Len(r.tokens) - 1 :
    stop_text(answer([r EXCEPT !.tokens = SubSeq(@, 1, n)]), r.stops) = <<>>

\* Wherever such a reply is cut into deltas, by half a closer, half a call, half a stop text
\* or half a character, what was shown of it is a beginning of what is due.
ASSUME EarlyTextsAreDue ==
  \A n \in 0 .. 4 : \A tokens \in [1 .. n -> Token], opened \in BOOLEAN, stops \in Stops :
    LET r == reply(tokens, opened, stops)
    IN  tidy(r) /\ ended(r) => FirstShown(r)

\* It is not so of every reply.  The rest of an answer is what its length leaves over of the
\* finished text (server.py:915-934), but the deltas keep the white space it begins with,
\* which the finished text has lost: "_ a" is shown where "a" is due.
ASSUME LeadingSpaceIsCut ==
  LET r == reply(<<Space, "a">>, FALSE, {})
  IN  ended(r) /\ ~tidy(r) /\ ~FirstShown(r)

\* And so it is of the replies of these runs.
ASSUME OfTheseRuns == ShownIsDue

\* For the run that looks for one thing.
TwoTurns == {<<client("ws", Short), client("ws", Short)>>}
=============================================================================
