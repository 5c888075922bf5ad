------------------------------- MODULE Reply -------------------------------
(***************************************************************************)
(* The text of a reply (prompt.py: split_think, cut_at_stop; messages.py:  *)
(* _parse_tool_calls; server.py: the cuts of _deltas).  A text is a        *)
(* sequence of marks: letters, "_" for white space, the halves of the      *)
(* literals </think> and <tool_call>, and what the decoder shows for a     *)
(* character whose last token has not come.  A literal of two marks has    *)
(* what matters of a longer one: it can be cut in the middle.              *)
(***************************************************************************)
EXTENDS Naturals, Sequences, SequencesExt

Space == "_"
Unfinished == "?"                    \* U+FFFD at the end of a prefix
ThinkOpen == "<think>"
ThinkClose == <<"</th", "ink>">>
CallOpen == <<"<tool", "_call>">>
CallRest == "<function=..></tool_call>"
FirstHalf == "half"                  \* a token with half of a character in it,
SecondHalf == "other half"           \* the token with the rest of it,
WholeChar == "char"                  \* and the character

\* Where a literal occurs in a text, and where first (0: nowhere).
occurrences(t, lit) == {i \in 1 .. Len(t) - Len(lit) + 1 : SubSeq(t, i, i + Len(lit) - 1) = lit}
find(t, lit) ==
  LET at == occurrences(t, lit) IN IF at = {} THEN 0 ELSE CHOOSE i \in at : \A j \in at : i <= j

before(t, lit) == IF find(t, lit) = 0 THEN t ELSE SubSeq(t, 1, find(t, lit) - 1)
from(t, i) == SubSeq(t, i, Len(t))

\* The ends of a text without the marks of a set.
rstrip(t, S) ==
  LET keep == {i \in 0 .. Len(t) : \A j \in i + 1 .. Len(t) : t[j] \in S}
  IN  SubSeq(t, 1, CHOOSE i \in keep : \A j \in keep : i <= j)
lstrip(t, S) ==
  LET keep == {i \in 1 .. Len(t) + 1 : \A j \in 1 .. i - 1 : t[j] \in S}
  IN  from(t, CHOOSE i \in keep : \A j \in keep : j <= i)

\* tokenizer.decode: a character is complete when both of its tokens are there.
decode(ids) ==
  LET text[n \in 0 .. Len(ids)] ==
        IF n = 0 THEN <<>>
        ELSE LET t == text[n - 1]
             IN  IF ids[n] = SecondHalf /\ t # <<>> /\ Last(t) = Unfinished
                 THEN Append(Front(t), WholeChar)
                 ELSE Append(t, IF ids[n] = FirstHalf THEN Unfinished ELSE ids[n])
  IN  text[Len(ids)]

\* split_think: the block from <think> to </think> and the white space after it,
\* or to the end when it is still open; `opened` when the prompt wrote <think>.
marked(t, opened) ==
  LET solid == lstrip(t, {Space})
  IN  IF opened /\ (solid = <<>> \/ Head(solid) # ThinkOpen) THEN <<ThinkOpen>> \o t ELSE t

split_think(text, opened) ==
  LET t == marked(text, opened)
      open == find(t, <<ThinkOpen>>)
      block == from(t, open + 1)
      close == find(block, ThinkClose)
  IN  IF open = 0 THEN [reasoning |-> <<>>, reply |-> t]
      ELSE [reasoning |-> before(block, ThinkClose),
            reply |-> SubSeq(t, 1, open - 1) \o
              IF close = 0 THEN <<>>
              ELSE lstrip(from(block, close + Len(ThinkClose)), {Space})]

\* What _deltas may show of the reasoning of an unfinished reply: while the closer
\* is not there, all but what may be the start of it.
safeReasoning(raw, opened) ==
  LET r == split_think(raw, opened).reasoning
  IN  IF find(raw, ThinkClose) # 0 THEN r
      ELSE SubSeq(r, 1, IF Len(r) > Len(ThinkClose) THEN Len(r) - Len(ThinkClose) ELSE 0)

\* What it may show of the answer: nothing from a complete stop text or the opener
\* of a call on, nothing that may be the start of one, no white space at the end.
beforeStops(t, stops) ==
  LET cuts == {find(t, s) : s \in stops} \ {0}
      hold == CHOOSE n \in {Len(s) : s \in stops} : \A s \in stops : n >= Len(s)
  IN  IF stops = {} THEN t
      ELSE IF cuts # {} THEN SubSeq(t, 1, (CHOOSE i \in cuts : \A j \in cuts : i <= j) - 1)
      ELSE SubSeq(t, 1, IF Len(t) >= hold THEN Len(t) - (hold - 1) ELSE 0)

beforeCall(t) ==
  IF find(t, CallOpen) # 0 THEN before(t, CallOpen)
  ELSE IF t # <<>> /\ Last(t) = Head(CallOpen) THEN Front(t) ELSE t

safeContent(raw, opened, stops) ==
  rstrip(beforeCall(beforeStops(split_think(raw, opened).reply, stops)), {Space})

\* What _deltas may show of a request of which n tokens are there.
showable(r, n) ==
  LET raw == rstrip(decode(SubSeq(r.tokens, 1, n)), {Unfinished})
  IN  [reasoning |-> safeReasoning(raw, r.opened), content |-> safeContent(raw, r.opened, r.stops)]

\* The stop text the engine reports for a finished reply, which it ends with: the
\* one that occurs first among those the last token completed.
stop_text(t, stops) ==
  LET hits == {s \in stops : find(t, s) # 0}
  IN  IF hits = {} THEN <<>> ELSE CHOOSE s \in hits : \A u \in hits : find(t, s) <= find(t, u)

\* cut_at_stop and _parse_tool_calls: the prose of a finished reply and its calls.
cut_at_stop(t, stop) == IF stop = <<>> THEN t ELSE before(t, stop)

strip(t) == rstrip(lstrip(t, {Space}), {Space})
parse_tool_calls(t) ==
  LET call == CallOpen \o <<CallRest>>
  IN  [prose |-> strip(before(t, call)), calls |-> find(t, call) # 0]

\* What a client is due for a request: a record of the tokens the engine keeps, of
\* whether the prompt opened <think>, and of the stop texts.
due(r) ==
  LET split == split_think(decode(r.tokens), r.opened)
  IN  [reasoning |-> split.reasoning,
       content |-> parse_tool_calls(cut_at_stop(split.reply, stop_text(split.reply, r.stops))).prose,
       calls |-> parse_tool_calls(cut_at_stop(split.reply, stop_text(split.reply, r.stops))).calls]

\* What was ever shown of a request is the beginning of what it is due.
FirstShown(r) ==
  LET first(t, u) == Len(t) <= Len(u) /\ \A i \in 1 .. Len(t) : t[i] = u[i]
  IN  \A n \in 0 .. Len(r.tokens) : /\ first(showable(r, n).reasoning, due(r).reasoning)
                                    /\ first(showable(r, n).content, due(r).content)
=============================================================================
