---------------------------- MODULE StreamProofs ----------------------------
(***************************************************************************)
(* What the server's own steps keep, for any sessions, replies, pacing and *)
(* number of faults.  First the texts of Reply: what find, cut and held    *)
(* return, and that what is shown are texts.  Then Types, the type         *)
(* invariant, and Control, how the places of one request agree: queues and *)
(* lock, generator, worker, handler, drain and connection.                 *)
(*                                                                         *)
(* Last, each step of the stream of a reply is one of the abstract stream  *)
(* (Delivery), or none, whoever leaves, times out or dies and whenever.    *)
(* The hypothesis is about texts alone: what the server may show of a      *)
(* reply that is not finished is a beginning of what it owes at the end    *)
(* (ShownIsDue).  The theorems that follow from it are in PageProofs, with *)
(* those of the page.                                                      *)
(***************************************************************************)
EXTENDS Stream, SequenceFacts, SequenceTheorems, FiniteSetTheorems, TLAPS

\* A piece of a text is a text.
LEMMA PieceOf ==
  ASSUME NEW M, NEW t \in Seq(M), NEW i \in Nat \ {0}, NEW j \in Nat, j <= Len(t)
  PROVE  SubSeq(t, i, j) \in Seq(M) /\ Len(SubSeq(t, i, j)) <= Len(t)
BY SubSeqProperties

\* find points at an occurrence, or is 0.
LEMMA FindOf ==
  ASSUME NEW M, NEW t \in Seq(M), NEW L, NEW lit \in Seq(L)
  PROVE  /\ find(t, lit) \in Nat
         /\ find(t, lit) # 0 =>
              /\ find(t, lit) \in occurrences(t, lit)
              /\ \A j \in occurrences(t, lit) : find(t, lit) <= j
<1> DEFINE at == occurrences(t, lit)
<1>1. at \in SUBSET Nat /\ 0 \notin at
  BY DEF occurrences
<1>2. CASE at = {}
  BY <1>2 DEF find
<1>3. CASE at # {}
  <2>1. \E i \in at : \A j \in at : i <= j
    BY <1>1, <1>3, LeastOf
  <2>2. find(t, lit) = CHOOSE i \in at : \A j \in at : i <= j
    BY <1>3 DEF find
  <2> HIDE DEF at
  <2>3. find(t, lit) \in at /\ \A j \in at : find(t, lit) <= j
    BY <2>1, <2>2
  <2> QED
    BY <1>1, <2>3 DEF at
<1> QED
  BY <1>2, <1>3

\* What is before a literal, and what follows a place, are texts.
LEMMA BeforeFrom ==
  ASSUME NEW M, NEW t \in Seq(M), NEW L, NEW lit \in Seq(L), NEW i \in Nat \ {0}
  PROVE  before(t, lit) \in Seq(M) /\ from(t, i) \in Seq(M)
<1>1. from(t, i) \in Seq(M)
  BY PieceOf DEF from
<1>2. CASE find(t, lit) = 0
  BY <1>1, <1>2 DEF before
<1>3. CASE find(t, lit) # 0
  <2>1. find(t, lit) \in Nat /\ find(t, lit) \in occurrences(t, lit)
    BY <1>3, FindOf
  <2>2. find(t, lit) - 1 \in Nat /\ find(t, lit) - 1 <= Len(t)
    BY <2>1, LenProperties, 1 \in Nat \ {0} DEF occurrences
  <2> QED
    BY <1>1, <1>3, <2>2, PieceOf DEF before
<1> QED
  BY <1>2, <1>3

\* Without the white space at its ends a text is a text.
LEMMA StripOf ==
  ASSUME NEW M, NEW t \in Seq(M), NEW S
  PROVE  /\ rstrip(t, S) \in Seq(M) /\ Len(rstrip(t, S)) <= Len(t)
         /\ lstrip(t, S) \in Seq(M)
<1>1. Len(t) \in Nat
  OBVIOUS
<1>2. rstrip(t, S) \in Seq(M) /\ Len(rstrip(t, S)) <= Len(t)
  <2> DEFINE keep == {i \in 0 .. Len(t) : \A j \in i + 1 .. Len(t) : t[j] \in S}
  <2>1. keep \in SUBSET Nat /\ Len(t) \in keep
    OBVIOUS
  <2>2. \E i \in keep : \A j \in keep : i <= j
    BY <2>1, LeastOf
  <2>3. rstrip(t, S) = SubSeq(t, 1, CHOOSE i \in keep : \A j \in keep : i <= j)
    BY DEF rstrip
  <2>4. PICK n \in 0 .. Len(t) : rstrip(t, S) = SubSeq(t, 1, n)
    <3> DEFINE n == CHOOSE i \in keep : \A j \in keep : i <= j
    <3>1. n \in keep
      <4> HIDE DEF keep
      <4> QED
        BY <2>2
    <3> QED
      BY <2>3, <3>1
  <2> QED
    BY <2>4, PieceOf
<1>3. lstrip(t, S) \in Seq(M)
  <2> DEFINE keep == {i \in 1 .. Len(t) + 1 : \A j \in 1 .. i - 1 : t[j] \in S}
  <2>1. keep \in SUBSET Nat /\ 1 \in keep /\ Len(t) + 1 \in Nat /\ \A i \in keep : i <= Len(t) + 1
    OBVIOUS
  <2>2. \E i \in keep : \A j \in keep : j <= i
    <3> HIDE DEF keep
    <3> QED
      BY <2>1, GreatestOf
  <2>3. lstrip(t, S) = from(t, CHOOSE i \in keep : \A j \in keep : j <= i)
    BY DEF lstrip
  <2>4. PICK n \in Nat \ {0} : lstrip(t, S) = from(t, n)
    <3> DEFINE m == CHOOSE i \in keep : \A j \in keep : j <= i
    <3>1. m \in keep
      <4> HIDE DEF keep
      <4> QED
        BY <2>2
    <3>2. m \in Nat \ {0}
      <4>1. keep \subseteq Nat \ {0}
        OBVIOUS
      <4> HIDE DEF m, keep
      <4> QED
        BY <3>1, <4>1
    <3> QED
      BY <2>3, <3>2
  <2> QED
    BY <2>4, PieceOf DEF from
<1> QED
  BY <1>2, <1>3

\* What decode returns is a text.
LEMMA DecodeOf ==
  ASSUME NEW M, WholeChar \in M, Unfinished \in M, NEW ids \in Seq(M)
  PROVE  decode(ids) \in Seq(M)
<1> DEFINE N == Len(ids)
           step(i, t) == IF ids[i] = SecondHalf /\ t # <<>> /\ Last(t) = Unfinished
                         THEN Append(Front(t), WholeChar)
                         ELSE Append(t, IF ids[i] = FirstHalf THEN Unfinished ELSE ids[i])
           G == [p \in (1 .. N) \X Seq(M) |-> step(p[1], p[2])]
           Def(g) == g = [n \in 0 .. N |-> IF n = 0 THEN <<>> ELSE step(n, g[n - 1])]
           text == CHOOSE g : Def(g)
<1>1. N \in Nat
  OBVIOUS
<1>2. ASSUME NEW i \in 1 .. N, NEW t \in Seq(M) PROVE step(i, t) \in Seq(M)
  <2>1. ids[i] \in M
    OBVIOUS
  <2>2. CASE ids[i] = SecondHalf /\ t # <<>> /\ Last(t) = Unfinished
    <3>1. Len(t) - 1 \in Nat /\ 1 \in Nat \ {0}
      BY <2>2, EmptySeq
    <3>2. Front(t) \in Seq(M)
      BY <3>1, PieceOf DEF Front
    <3> QED
      BY <2>2, <3>2, AppendProperties
  <2>3. CASE ~(ids[i] = SecondHalf /\ t # <<>> /\ Last(t) = Unfinished)
    BY <2>1, <2>3, AppendProperties
  <2> QED
    BY <2>2, <2>3
<1>3. StepsOn(N, Seq(M), G)
  <2> HIDE DEF step
  <2>1. ASSUME NEW i \in 1 .. N, NEW t \in Seq(M) PROVE G[<<i, t>>] \in Seq(M)
    <3>1. G[<<i, t>>] = step(i, t)
      OBVIOUS
    <3> QED
      BY <1>2, <3>1
  <2> QED
    BY <2>1 DEF StepsOn
<1>4. PICK f : StepsFrom(f, N, Seq(M), <<>>, G)
  <2>1. <<>> \in Seq(M)
    OBVIOUS
  <2> HIDE DEF G, N
  <2> QED
    BY <1>1, <1>3, <2>1, Recursion
<1>5. Def(f)
  <2> HIDE DEF step
  <2>1. ASSUME NEW i \in 1 .. N PROVE f[i] = step(i, f[i - 1])
    <3>1. f[i - 1] \in Seq(M) /\ f[i] = G[<<i, f[i - 1]>>]
      <4> HIDE DEF G, N
      <4> QED
        BY <1>1, <1>4 DEF StepsFrom
    <3>2. G[<<i, f[i - 1]>>] = step(i, f[i - 1])
      BY <3>1
    <3> QED
      BY <3>1, <3>2
  <2> QED
    BY <1>1, <1>4, <2>1 DEF StepsFrom
<1>6. Def(text)
  <2> HIDE DEF Def
  <2> QED
    BY <1>5
<1>7. \A n \in Nat : n <= N => text[n] \in Seq(M)
  <2> DEFINE T == {n \in Nat : n <= N => text[n] \in Seq(M)}
  <2> HIDE DEF text, step
  <2>1. 0 \in T
    BY <1>1, <1>6
  <2>2. ASSUME NEW n \in T PROVE n + 1 \in T
    <3>1. CASE n + 1 <= N
      <4>1. text[n] \in Seq(M) /\ n + 1 \in 1 .. N /\ (n + 1) - 1 = n
        BY <1>1, <3>1
      <4>2. text[n + 1] = step(n + 1, text[(n + 1) - 1])
        BY <1>1, <1>6, <4>1
      <4>3. text[n + 1] \in Seq(M)
        BY <1>2, <4>1, <4>2
      <4> QED
        BY <4>3
    <3> QED
      BY <3>1
  <2>3. T = Nat
    <3>1. T \in SUBSET Nat
      OBVIOUS
    <3> HIDE DEF T
    <3> QED
      BY <2>1, <2>2, <3>1, AllOf
  <2> QED
    BY <2>3
<1>8. decode(ids) = text[N]
  BY DEF decode
<1> QED
  <2> HIDE DEF text, N
  <2> QED
    BY <1>1, <1>7, <1>8

\* The literals are texts.
Lits == {"</th", "ink>", "<tool", "_call>", ThinkOpen, CallRest}

\* The markup the server looks for: how long it is, and what it consists of.
LEMMA Literals ==
  /\ ThinkClose \in Seq(Lits) /\ Len(ThinkClose) = 2
  /\ CallOpen \in Seq(Lits) /\ <<ThinkOpen>> \in Seq(Lits)
  /\ CallOpen \o <<CallRest>> \in Seq(Lits)
<1>1. ThinkClose \in Seq(Lits) /\ Len(ThinkClose) = 2
  BY DEF ThinkClose, Lits
<1>2. CallOpen \in Seq(Lits)
  BY DEF CallOpen, Lits
<1>3. <<ThinkOpen>> \in Seq(Lits)
  BY DEF Lits
<1>4. <<CallRest>> \in Seq(Lits)
  BY DEF Lits
<1>5. CallOpen \o <<CallRest>> \in Seq(Lits)
  BY <1>2, <1>4, ConcatProperties
<1> QED
  BY <1>1, <1>2, <1>3, <1>5

\* Both parts of a split text are texts.
LEMMA SplitOf ==
  ASSUME NEW M, ThinkOpen \in M, NEW text \in Seq(M), NEW opened
  PROVE  /\ split_think(text, opened).reasoning \in Seq(M)
         /\ split_think(text, opened).reply \in Seq(M)
<1> DEFINE t == marked(text, opened)
           open == find(t, <<ThinkOpen>>)
           block == from(t, open + 1)
           close == find(block, ThinkClose)
           rest == lstrip(from(block, close + Len(ThinkClose)), {Space})
<1>1. t \in Seq(M)
  <2>1. <<ThinkOpen>> \in Seq(M) /\ <<ThinkOpen>> \o text \in Seq(M)
    OBVIOUS
  <2> QED
    BY <2>1 DEF marked
<1>2. open \in Nat /\ (open # 0 => open - 1 \in Nat /\ open - 1 <= Len(t))
  <2>1. find(t, <<ThinkOpen>>) \in Nat
        /\ (find(t, <<ThinkOpen>>) # 0 => find(t, <<ThinkOpen>>) \in occurrences(t, <<ThinkOpen>>))
    BY <1>1, Literals, FindOf
  <2> HIDE DEF t
  <2> QED
    BY <1>1, <2>1 DEF occurrences
<1>3. block \in Seq(M)
  <2> HIDE DEF t, open
  <2> QED
    BY <1>1, <1>2, Literals, BeforeFrom
<1>4. close \in Nat /\ rest \in Seq(M)
  <2> HIDE DEF t, open, block
  <2>1. close \in Nat
    BY <1>3, Literals, FindOf
  <2> HIDE DEF close
  <2>2. from(block, close + Len(ThinkClose)) \in Seq(M)
    BY <1>3, <2>1, Literals, BeforeFrom
  <2> QED
    BY <2>1, <2>2, StripOf
<1>5. before(block, ThinkClose) \in Seq(M) /\ (open # 0 => SubSeq(t, 1, open - 1) \in Seq(M))
  <2> HIDE DEF t, open, block
  <2> QED
    BY <1>1, <1>2, <1>3, Literals, BeforeFrom, PieceOf, 1 \in Nat \ {0}
<1>6. split_think(text, opened) =
        IF open = 0 THEN [reasoning |-> <<>>, reply |-> t]
        ELSE [reasoning |-> before(block, ThinkClose),
              reply |-> SubSeq(t, 1, open - 1) \o IF close = 0 THEN <<>> ELSE rest]
  BY DEF split_think
<1> QED
  <2> HIDE DEF t, open, block, close, rest
  <2> QED
    BY <1>1, <1>4, <1>5, <1>6, ConcatProperties

\* A request's stop texts: finitely many, none of them empty (engine.py:1111).
Stops(stops) == IsFiniteSet(stops) /\ \A u \in stops : u \in Seq(STRING) /\ u # <<>>

\* What is before the stop texts, or cannot be part of one, is a text.
LEMMA BeforeStopsOf ==
  ASSUME NEW M, NEW t \in Seq(M), NEW stops, Stops(stops)
  PROVE  beforeStops(t, stops) \in Seq(M)
<1> DEFINE cuts == {find(t, s) : s \in stops} \ {0}
           lens == {Len(s) : s \in stops}
           hold == CHOOSE n \in lens : \A s \in stops : n >= Len(s)
           cut == CHOOSE i \in cuts : \A j \in cuts : i <= j
<1>1. cuts \in SUBSET Nat /\ \A i \in cuts : i - 1 \in Nat /\ i - 1 <= Len(t)
  <2>1. ASSUME NEW s \in stops, find(t, s) # 0
        PROVE  find(t, s) \in Nat /\ find(t, s) - 1 \in Nat /\ find(t, s) - 1 <= Len(t)
    <3>1. s \in Seq(STRING) /\ Len(t) \in Nat /\ Len(s) \in Nat
      BY DEF Stops
    <3>2. find(t, s) \in Nat /\ find(t, s) \in occurrences(t, s)
      BY <2>1, <3>1, FindOf
    <3> QED
      BY <3>1, <3>2 DEF occurrences
  <2> QED
    BY <2>1
<1>2. cuts # {} => cut \in cuts
  <2> HIDE DEF cuts
  <2> QED
    BY <1>1, LeastOf
<1>3. stops # {} => hold \in Nat \ {0}
  <2>1. lens \in SUBSET (Nat \ {0}) /\ IsFiniteSet(lens)
    <3>1. \A s \in stops : Len(s) \in Nat \ {0}
      BY EmptySeq DEF Stops
    <3>2. IsFiniteSet(lens)
      <4> DEFINE f == [s \in stops |-> Len(s)]
      <4>1. f \in Surjection(stops, lens)
        BY DEF Surjection
      <4> HIDE DEF f, lens
      <4> QED
        BY <4>1, FS_Surjection DEF Stops
    <3> QED
      BY <3>1, <3>2
  <2>2. SUFFICES ASSUME stops # {} PROVE hold \in Nat \ {0}
    OBVIOUS
  <2>3. lens # {}
    BY <2>2
  <2>4. \E m \in lens : \A n \in lens : n <= m
    <3> HIDE DEF lens
    <3> QED
      BY <2>1, <2>3, GreatestOfFinite
  <2>5. \E n \in lens : \A s \in stops : n >= Len(s)
    <3>1. PICK m \in lens : \A n \in lens : n <= m
      BY <2>4
    <3>2. \A s \in stops : Len(s) \in lens /\ Len(s) \in Nat
      BY <2>1
    <3>3. \A s \in stops : m >= Len(s)
      <4> HIDE DEF lens
      <4> QED
        BY <2>1, <3>1, <3>2
    <3> QED
      BY <3>3
  <2> HIDE DEF lens
  <2> QED
    BY <2>1, <2>5
<1>4. beforeStops(t, stops) =
        IF stops = {} THEN t
        ELSE IF cuts # {} THEN SubSeq(t, 1, cut - 1)
        ELSE SubSeq(t, 1, IF Len(t) >= hold THEN Len(t) - (hold - 1) ELSE 0)
  BY DEF beforeStops
<1> QED
  <2> HIDE DEF cuts, cut, hold
  <2>1. 1 \in Nat \ {0} /\ Len(t) \in Nat
    OBVIOUS
  <2>2. CASE stops = {}
    BY <1>4, <2>2
  <2>3. CASE stops # {} /\ cuts # {}
    BY <1>1, <1>2, <1>4, <2>1, <2>3, PieceOf
  <2>4. CASE stops # {} /\ cuts = {}
    <3> DEFINE n == IF Len(t) >= hold THEN Len(t) - (hold - 1) ELSE 0
    <3>1. n \in Nat /\ n <= Len(t)
      BY <1>3, <2>1, <2>4
    <3>2. beforeStops(t, stops) = SubSeq(t, 1, n)
      BY <1>4, <2>4
    <3> QED
      BY <2>1, <3>1, <3>2, PieceOf
  <2> QED
    BY <2>2, <2>3, <2>4

\* What may be shown of a text, and what is left of it without calls, are texts.
LEMMA SafeOf ==
  ASSUME NEW M, ThinkOpen \in M, NEW raw \in Seq(M), NEW opened, NEW stops, Stops(stops)
  PROVE  safeReasoning(raw, opened) \in Seq(M) /\ safeContent(raw, opened, stops) \in Seq(M)
<1>1. safeReasoning(raw, opened) \in Seq(M)
  <2> DEFINE r == split_think(raw, opened).reasoning
             n == IF Len(r) > Len(ThinkClose) THEN Len(r) - Len(ThinkClose) ELSE 0
  <2>1. r \in Seq(M)
    BY SplitOf
  <2>2. n \in Nat /\ n <= Len(r) /\ 1 \in Nat \ {0}
    <3> HIDE DEF r
    <3> QED
      BY <2>1, Literals
  <2>3. safeReasoning(raw, opened) = IF find(raw, ThinkClose) # 0 THEN r ELSE SubSeq(r, 1, n)
    BY DEF safeReasoning
  <2> HIDE DEF r, n
  <2> QED
    BY <2>1, <2>2, <2>3, PieceOf
<1>2. ASSUME NEW t \in Seq(M) PROVE beforeCall(t) \in Seq(M)
  <2>1. before(t, CallOpen) \in Seq(M)
    BY Literals, BeforeFrom, 1 \in Nat \ {0}
  <2>2. CASE find(t, CallOpen) = 0 /\ t # <<>> /\ Last(t) = Head(CallOpen)
    <3>1. Len(t) - 1 \in Nat /\ 1 \in Nat \ {0}
      BY <2>2, EmptySeq
    <3> QED
      BY <2>2, <3>1, PieceOf DEF beforeCall, Front
  <2>3. CASE ~(find(t, CallOpen) = 0 /\ t # <<>> /\ Last(t) = Head(CallOpen))
    BY <2>1, <2>3 DEF beforeCall
  <2> QED
    BY <2>2, <2>3
<1>3. safeContent(raw, opened, stops) \in Seq(M)
  BY <1>2, SplitOf, BeforeStopsOf, StripOf DEF safeContent
<1> QED
  BY <1>1, <1>3

\* What a client is due is made of texts.
LEMMA DueOf ==
  ASSUME NEW M, {WholeChar, ThinkOpen, Unfinished} \subseteq M,
         NEW r, r.tokens \in Seq(M), Stops(r.stops)
  PROVE  due(r).reasoning \in Seq(M) /\ due(r).content \in Seq(M)
<1> DEFINE split == split_think(decode(r.tokens), r.opened)
           stop == stop_text(split.reply, r.stops)
           text == cut_at_stop(split.reply, stop)
<1>1. split.reasoning \in Seq(M) /\ split.reply \in Seq(M)
  BY DecodeOf, SplitOf
<1>2. text \in Seq(M)
  <2> HIDE DEF split
  <2> DEFINE hits == {s \in r.stops : find(split.reply, s) # 0}
  <2>1. stop = <<>> \/ stop \in Seq(STRING)
    <3>1. CASE hits = {}
      BY <3>1 DEF stop_text
    <3>2. CASE hits # {}
      <4> DEFINE places == {find(split.reply, s) : s \in hits}
      <4>1. \A s \in hits : s \in Seq(STRING) /\ find(split.reply, s) \in Nat
        BY <1>1, FindOf DEF Stops
      <4>2. places \in SUBSET Nat /\ places # {}
        BY <3>2, <4>1
      <4>3. PICK p \in places : \A q \in places : p <= q
        <5> HIDE DEF places
        <5> QED
          BY <4>2, LeastOf
      <4>4. \E s \in hits : \A u \in hits : find(split.reply, s) <= find(split.reply, u)
        BY <4>3
      <4>5. stop = CHOOSE s \in hits : \A u \in hits : find(split.reply, s) <= find(split.reply, u)
        BY <3>2 DEF stop_text
      <4>6. stop \in hits
        <5> HIDE DEF hits, stop
        <5> QED
          BY <4>4, <4>5
      <4> HIDE DEF stop
      <4> QED
        BY <4>1, <4>6
    <3> QED
      BY <3>1, <3>2
  <2> HIDE DEF stop
  <2> QED
    BY <1>1, <2>1, BeforeFrom, 1 \in Nat \ {0} DEF cut_at_stop
<1>3. parse_tool_calls(text).prose \in Seq(M)
  <2> HIDE DEF text
  <2>1. before(text, CallOpen \o <<CallRest>>) \in Seq(M)
    BY <1>2, Literals, BeforeFrom, 1 \in Nat \ {0}
  <2>2. parse_tool_calls(text).prose = strip(before(text, CallOpen \o <<CallRest>>))
    BY DEF parse_tool_calls
  <2> QED
    BY <2>1, <2>2, StripOf DEF strip
<1>4. due(r).reasoning = split.reasoning /\ due(r).content = parse_tool_calls(text).prose
  BY DEF due
<1> QED
  <2> HIDE DEF split, text
  <2> QED
    BY <1>1, <1>3, <1>4

-----------------------------------------------------------------------------

\* The requests that may be made are made of marks, and so is what is shown of their
\* replies and what is due.
LEMMA AskedOf ==
  ASSUME NEW r \in Asked
  PROVE  r.tokens \in Seq(Marks) /\ Stops(r.stops) /\ {WholeChar, ThinkOpen, Unfinished} \subseteq Marks
<1>1. {WholeChar, ThinkOpen, Unfinished} \subseteq Marks
  BY DEF Marks
<1>2. ToSet(r.tokens) \subseteq Marks
  BY DEF Marks
<1>3. CASE r = NoAsk
  <2>1. r.tokens = <<>> /\ r.stops = {}
    BY <1>3 DEF NoAsk
  <2> QED
    BY <1>1, <2>1, FS_EmptySet DEF Stops
<1>4. CASE r # NoAsk
  <2>1. PICK sc \in Scenarios, s \in Session : r \in sc[s].asks
    BY <1>4 DEF Asked
  <2>2. r.tokens \in Seq(STRING) /\ Stops(r.stops)
    BY <2>1, RequestsAssumption DEF Stops
  <2>3. r.tokens \in Seq(ToSet(r.tokens))
    BY <2>2 DEF ToSet
  <2> QED
    BY <1>1, <1>2, <2>2, <2>3
<1> QED
  BY <1>3, <1>4

\* What is shown of a reply, early and in the end, are texts.
LEMMA TextsOf ==
  ASSUME NEW r \in Asked
  PROVE  /\ Len(r.tokens) \in Nat
         /\ whole[r].reasoning \in Seq(Marks) /\ whole[r].content \in Seq(Marks)
         /\ \A n \in 0 .. Len(r.tokens) :
              shown[r][n].reasoning \in Seq(Marks) /\ shown[r][n].content \in Seq(Marks)
<1>1. r.tokens \in Seq(Marks) /\ Stops(r.stops) /\ {WholeChar, ThinkOpen, Unfinished} \subseteq Marks
  BY AskedOf
<1>2. whole[r] = due(r)
  BY DEF whole
<1>3. due(r).reasoning \in Seq(Marks) /\ due(r).content \in Seq(Marks)
  BY <1>1, DueOf
<1>4. ASSUME NEW n \in 0 .. Len(r.tokens)
      PROVE  shown[r][n].reasoning \in Seq(Marks) /\ shown[r][n].content \in Seq(Marks)
  <2> DEFINE raw == rstrip(decode(SubSeq(r.tokens, 1, n)), {Unfinished})
  <2>1. SubSeq(r.tokens, 1, n) \in Seq(Marks)
    BY <1>1, PieceOf, 1 \in Nat \ {0}
  <2>2. raw \in Seq(Marks)
    <3>1. decode(SubSeq(r.tokens, 1, n)) \in Seq(Marks)
      BY <1>1, <2>1, DecodeOf
    <3> QED
      BY <3>1, StripOf
  <2>3. shown[r][n] = [reasoning |-> safeReasoning(raw, r.opened),
                       content |-> safeContent(raw, r.opened, r.stops)]
    BY DEF shown, showable
  <2>4. safeReasoning(raw, r.opened) \in Seq(Marks) /\ safeContent(raw, r.opened, r.stops) \in Seq(Marks)
    <3> HIDE DEF raw
    <3> QED
      BY <1>1, <2>2, SafeOf
  <2> HIDE DEF raw
  <2> QED
    BY <2>3, <2>4
<1> QED
  BY <1>1, <1>2, <1>3, <1>4

-----------------------------------------------------------------------------
(* The invariant *)

\* What goes through a generator and over a connection.
Piece == [t : {"delta", "tool_calls", "done", "error", "message"},
          reasoning : Seq(Marks), content : Seq(Marks)]
Generator == [st : {"none", "running", "suspended", "closed"},
              at : {"poll", "take", "tail", "giveup", "end"},
              seen : Nat, sentR : Nat, sent : Nat, items : Seq(Piece), held : Seq(Piece)]

Types ==
  /\ up \in BOOLEAN /\ faults \in 0 .. MaxFaults
  /\ scene \in Scenarios /\ ask \in [Session -> Asked]
  /\ \A s \in Session : ask[s] \in scene[s].asks \cup {NoAsk}
  /\ lock \in {"free", "tick", "ticked"}
  /\ where \in [Session -> {"none", "waiting", "moving", "running", "gone"}]
  /\ filed \in [Session -> {"none", "finished", "failed"}]
  /\ out \in [Session -> Nat]
  /\ body \in [Session -> Generator]
  /\ \A s \in Session : out[s] <= Len(ask[s].tokens) /\ body[s].seen <= out[s]
  /\ task \in [Session -> {"none", "submit", "fetch", "yield", "cancel", "over"}]
  /\ drain \in [Session -> {"none", "cancel", "join", "close", "over"}]
  /\ frames \in [Session -> Seq(Piece)]
  /\ conn \in [Session -> {"none", "open", "closed", "left", "lost"}]

\* A request is made once, on an open connection; until it is submitted nothing has
\* happened to it.
Untouched(s) ==
  where[s] = "none" /\ filed[s] = "none" /\ out[s] = 0 /\ body[s] = NoBody /\ frames[s] = <<>>

\* The handler lets go of a session only when its client is gone or was told the end,
\* and only then is there a drain.
HandlerRight(s) ==
  /\ conn[s] = "none" <=> task[s] = "none"
  /\ task[s] \in {"none", "submit"} => Untouched(s)
  /\ task[s] \in {"fetch", "yield"} => (body[s].st = "suspended" <=> body[s].items # <<>>)
  /\ task[s] = "yield" => via(s) = "sse" /\ body[s].st = "suspended"
  /\ task[s] \in {"cancel", "over"} => conn[s] # "open"
  /\ drain[s] # "none" => task[s] = "over"

\* A row is in no queue for good once it was filed, its generator is past the wait for
\* it, or its drain has cancelled it.
RowRight(s) ==
  /\ where[s] = "moving" => lock = "ticked"
  /\ filed[s] # "none" => where[s] = "gone"
  /\ body[s].at \in {"tail", "end"} => where[s] \in {"none", "gone"}
  /\ via(s) = "plain" /\ body[s].st \in {"running", "suspended"} => body[s].at # "poll"
  /\ via(s) = "plain" /\ body[s].st = "suspended" => body[s].at = "end"
  /\ drain[s] \in {"join", "close", "over"} => where[s] \in {"none", "gone"}
  /\ over(s) => where[s] \in {"none", "gone"}
  /\ drain[s] = "close" => body[s].st # "running"

Control == \A s \in Session : HandlerRight(s) /\ RowRight(s)

-----------------------------------------------------------------------------
(* Types *)

\* Nothing has been made, and what it would have in it has its type.
LEMMA NoBodyOf ==
  /\ NoBody \in Generator /\ [NoBody EXCEPT !.st = "closed"] \in Generator
  /\ \A st \in {"running", "closed"}, at \in {"poll", "take"} :
       [NoBody EXCEPT !.st = st, !.at = at] \in Generator
<1>1. <<>> \in Seq(Piece)
  BY EmptySeq
<1>2. NoBody \in Generator
  BY <1>1 DEF NoBody, Generator
<1> QED
  BY <1>2 DEF Generator

\* A frame with a text has its type, and so has one without.
LEMMA PiecesOf ==
  ASSUME NEW r \in Seq(Marks), NEW c \in Seq(Marks)
  PROVE  /\ delta(r, c) \in Piece /\ [t |-> "message", reasoning |-> r, content |-> c] \in Piece
         /\ \A t \in {"tool_calls", "done", "error"} : control(t) \in Piece
BY DEF delta, control, Piece

\* What a pass of the generator's loop leaves: what it held and what is new goes out or is
\* held, in order; a flush holds nothing; and it is suspended when there is something
\* to hand out.
Leaves(p, s, b, new, flush) ==
  /\ p \in Generator
  /\ p.at = b.at /\ p.seen = b.seen /\ p.sentR = b.sentR /\ p.sent = b.sent
  /\ p.items \o p.held = b.held \o new
  /\ p.st \in {"running", "suspended"} /\ (p.st = "suspended" <=> p.items # <<>>)
  /\ flush => p.held = <<>>
  /\ via(s) # "sse" => p.held = <<>>

\* That is what produced does.
LEMMA ProducedOf ==
  ASSUME NEW s, NEW b \in Generator, NEW new \in Seq(Piece), NEW flush \in BOOLEAN
  PROVE  Leaves(produced(s, b, new, flush), s, b, new, flush)
<1> DEFINE both == b.held \o new
           now == flush \/ via(s) # "sse" \/ b.seen >= PaceDepth
           p == produced(s, b, new, flush)
<1>1. both \in Seq(Piece) /\ <<>> \in Seq(Piece)
  BY DEF Generator
<1>2. p = [b EXCEPT !.items = IF now THEN both ELSE <<>>,
                    !.held = IF now THEN <<>> ELSE both,
                    !.st = IF now /\ both # <<>> THEN "suspended" ELSE "running"]
  BY DEF produced
<1> HIDE DEF both
<1>3. CASE now
  <2>1. p = [b EXCEPT !.items = both, !.held = <<>>, !.st = IF both # <<>> THEN "suspended" ELSE "running"]
    BY <1>2, <1>3
  <2>2. p \in Generator /\ p.items = both /\ p.held = <<>> /\ p.st = IF both # <<>> THEN "suspended" ELSE "running"
    BY <1>1, <2>1 DEF Generator
  <2>3. p.items \o p.held = both
    BY <1>1, <2>2, ConcatEmptySeq
  <2> QED
    BY <1>3, <2>1, <2>2, <2>3 DEF Generator, both, Leaves
<1>4. CASE ~now
  <2>1. p = [b EXCEPT !.items = <<>>, !.held = both, !.st = "running"]
    BY <1>2, <1>4
  <2>2. p \in Generator /\ p.items = <<>> /\ p.held = both /\ p.st = "running"
    BY <1>1, <2>1 DEF Generator
  <2>3. p.items \o p.held = both
    BY <1>1, <2>2, ConcatEmptySeq
  <2> QED
    BY <1>4, <2>1, <2>2, <2>3 DEF Generator, both, Leaves
<1> QED
  BY <1>3, <1>4

\* The worker takes the next item, and the generator goes on when there is none.
LEMMA ResumedOf ==
  ASSUME Types, NEW s \in Session, body[s].items # <<>>
  PROVE  /\ resumed(s) \in Generator
         /\ resumed(s).items = Tail(body[s].items)
         /\ resumed(s).at = body[s].at /\ resumed(s).seen = body[s].seen
         /\ resumed(s).sentR = body[s].sentR /\ resumed(s).sent = body[s].sent
         /\ resumed(s).held = body[s].held
         /\ resumed(s).st = IF Tail(body[s].items) # <<>> THEN "suspended"
                            ELSE IF body[s].st = "suspended" /\ body[s].at = "end" THEN "closed"
                            ELSE "running"
<1>1. body[s] \in Generator
  BY DEF Types
<1>2. Tail(body[s].items) \in Seq(Piece)
  BY <1>1, HeadTailProperties DEF Generator
<1>3. resumed(s) = [body[s] EXCEPT !.items = Tail(body[s].items),
                                   !.st = IF Tail(body[s].items) # <<>> THEN "suspended"
                                          ELSE IF @ = "suspended" /\ body[s].at = "end" THEN "closed"
                                          ELSE "running"]
  BY DEF resumed
<1> QED
  BY <1>1, <1>2, <1>3 DEF Generator

\* Where that leaves the generator: suspended as long as it has more to say.
LEMMA ResumedTurns ==
  ASSUME Types, NEW s \in Session, body[s].items # <<>>
  PROVE  /\ resumed(s).at = body[s].at /\ resumed(s).st \in {"running", "suspended", "closed"}
         /\ (resumed(s).st = "suspended" <=> resumed(s).items # <<>>)
BY ResumedOf

\* What is known of one request, from Types.
LEMMA OneOf ==
  ASSUME Types, NEW s \in Session
  PROVE  /\ ask[s] \in Asked /\ body[s] \in Generator /\ frames[s] \in Seq(Piece)
         /\ Len(ask[s].tokens) \in Nat /\ out[s] \in 0 .. Len(ask[s].tokens)
         /\ shown[ask[s]][out[s]].reasoning \in Seq(Marks) /\ shown[ask[s]][out[s]].content \in Seq(Marks)
         /\ whole[ask[s]].reasoning \in Seq(Marks) /\ whole[ask[s]].content \in Seq(Marks)
<1>1. ask[s] \in Asked /\ body[s] \in Generator /\ frames[s] \in Seq(Piece)
      /\ out[s] \in Nat /\ out[s] <= Len(ask[s].tokens)
  BY DEF Types
<1>2. Len(ask[s].tokens) \in Nat
  BY <1>1, TextsOf
<1>3. out[s] \in 0 .. Len(ask[s].tokens)
  BY <1>1, <1>2
<1> QED
  BY <1>1, <1>2, <1>3, TextsOf

\* What is new to say: the part of a text after what has been cut off it.
news(t, n, r) == IF Len(t) > n THEN <<IF r THEN delta(from(t, n + 1), <<>>) ELSE delta(<<>>, from(t, n + 1))>>
                 ELSE <<>>

\* What is new to say are pieces of a reply.
LEMMA NewsOf ==
  ASSUME NEW t \in Seq(Marks), NEW n \in Nat, NEW r \in BOOLEAN
  PROVE  news(t, n, r) \in Seq(Piece)
<1>1. from(t, n + 1) \in Seq(Marks) /\ <<>> \in Seq(Marks)
  BY PieceOf, EmptySeq DEF from
<1>2. delta(from(t, n + 1), <<>>) \in Piece /\ delta(<<>>, from(t, n + 1)) \in Piece
  BY <1>1, PiecesOf
<1> QED
  BY <1>2 DEF news

\* A step of the engine, of a connection or of the process.
LEMMA QuietTypes ==
  ASSUME Types, TickBegin \/ TickEnd \/ (\E s \in Session : Leave(s) \/ Lose(s)) \/ Restart
  PROVE  Types'
<1>1. CASE TickBegin \/ TickEnd
  BY <1>1 DEF Types, TickBegin, TickEnd, serverVars, clientVars
<1>2. CASE \E s \in Session : Leave(s)
  BY <1>2 DEF Types, Leave, engineVars, serverVars
<1>3. CASE \E s \in Session : Lose(s)
  BY <1>3, BoundsAssumption DEF Types, Lose, fault, engineVars, serverVars
<1>4. CASE Restart
  BY <1>4 DEF Types, Restart, engineVars, serverVars, clientVars
<1> QED
  BY <1>1, <1>2, <1>3, <1>4

\* A row that is admitted, gets a token or finishes leaves the types as they are.
LEMMA RowTypes ==
  ASSUME Types, NEW s \in Session, Admit(s) \/ Emit(s) \/ Finish(s)
  PROVE  Types'
<1>1. CASE Admit(s)
  BY <1>1 DEF Types, Admit, serverVars, clientVars
<1>2. CASE Emit(s)
  <2>1. /\ out' \in [Session -> Nat]
        /\ \A t \in Session : out'[t] <= Len(ask[t].tokens) /\ body[t].seen <= out'[t]
    <3>1. out[s] \in Nat /\ Len(ask[s].tokens) \in Nat /\ body[s].seen \in Nat
      BY OneOf DEF Types, Generator
    <3>2. out' = [out EXCEPT ![s] = out[s] + 1] /\ out[s] < Len(ask[s].tokens)
      BY <1>2 DEF Emit
    <3> QED
      BY <3>1, <3>2 DEF Types
  <2> QED
    BY <1>2, <2>1 DEF Types, Emit, serverVars, clientVars
<1>3. CASE Finish(s)
  <2>1. faults' \in 0 .. MaxFaults
    BY <1>3, BoundsAssumption DEF Types, Finish, fault
  <2> QED
    BY <1>3, <2>1 DEF Types, Finish, serverVars, clientVars
<1> QED
  BY <1>1, <1>2, <1>3

\* A process that dies leaves them as they are.
LEMMA CrashTypes ==
  ASSUME Types, Crash
  PROVE  Types'
<1>1. body' \in [Session -> Generator]
  BY NoBodyOf DEF Crash
<1>2. \A s \in Session : body'[s].seen = 0
  BY DEF Crash, NoBody
<1>3. faults' \in 0 .. MaxFaults
  BY BoundsAssumption DEF Types, Crash, fault
<1>4. /\ where' \in [Session -> {"none", "waiting", "moving", "running", "gone"}]
      /\ filed' \in [Session -> {"none", "finished", "failed"}]
      /\ task' \in [Session -> {"none", "submit", "fetch", "yield", "cancel", "over"}]
      /\ drain' \in [Session -> {"none", "cancel", "join", "close", "over"}]
      /\ conn' \in [Session -> {"none", "open", "closed", "left", "lost"}]
  BY DEF Types, Crash
<1>5. \A s \in Session : out'[s] <= Len(ask'[s].tokens) /\ body'[s].seen <= out'[s]
  BY <1>2 DEF Types, Crash
<1> QED
  BY <1>1, <1>3, <1>4, <1>5 DEF Types, Crash

\* The generator of a session is replaced.
LEMMA BodyTypes ==
  ASSUME Types, NEW s \in Session, NEW b \in Generator, b.seen <= out[s],
         body' = [body EXCEPT ![s] = b]
  PROVE  /\ body' \in [Session -> Generator]
         /\ \A t \in Session : out[t] <= Len(ask[t].tokens) /\ body'[t].seen <= out[t]
BY DEF Types

\* The generator goes on elsewhere in its body.
LEMMA AtOf ==
  ASSUME Types, NEW s \in Session, NEW at \in {"poll", "take", "tail", "giveup", "end"}
  PROVE  /\ [body[s] EXCEPT !.at = at] \in Generator
         /\ [body[s] EXCEPT !.at = at].seen <= out[s]
         /\ [body[s] EXCEPT !.at = at].at = at
         /\ [body[s] EXCEPT !.at = at].held = body[s].held
         /\ [body[s] EXCEPT !.at = at].sentR = body[s].sentR
         /\ [body[s] EXCEPT !.at = at].sent = body[s].sent
<1>1. body[s] \in Generator /\ body[s].seen <= out[s]
  BY DEF Types
<1> QED
  BY <1>1 DEF Generator

\* What the generator yields last, in one go.
LEMMA EndOfBody ==
  ASSUME Types, NEW s \in Session, NEW new \in Seq(Piece)
  PROVE  LET p == produced(s, [body[s] EXCEPT !.at = "end"], new, TRUE)
         IN  /\ p \in Generator /\ p.at = "end" /\ p.seen <= out[s]
             /\ p.sentR = body[s].sentR /\ p.sent = body[s].sent /\ p.held = <<>>
             /\ p.st \in {"running", "suspended"} /\ (p.st = "suspended" <=> p.items # <<>>)
<1> DEFINE e == [body[s] EXCEPT !.at = "end"]
           p == produced(s, e, new, TRUE)
<1>1. e \in Generator /\ e.seen <= out[s] /\ e.at = "end" /\ e.sentR = body[s].sentR
      /\ e.sent = body[s].sent
  BY AtOf
<1> HIDE DEF e
<1>2. /\ p \in Generator /\ p.at = e.at /\ p.seen = e.seen /\ p.sentR = e.sentR /\ p.sent = e.sent
      /\ p.st \in {"running", "suspended"} /\ (p.st = "suspended" <=> p.items # <<>>)
      /\ p.held = <<>>
  <2>1. Leaves(p, s, e, new, TRUE)
    BY <1>1, ProducedOf
  <2> HIDE DEF p
  <2> QED
    BY <2>1 DEF Leaves
<1> HIDE DEF p
<1>3. /\ p \in Generator /\ p.at = "end" /\ p.seen <= out[s]
      /\ p.sentR = body[s].sentR /\ p.sent = body[s].sent /\ p.held = <<>>
      /\ p.st \in {"running", "suspended"} /\ (p.st = "suspended" <=> p.items # <<>>)
  BY <1>1, <1>2
<1> QED
  BY <1>3 DEF p, e

\* What a pass of the loop says and remembers, and what the end of it says.
max(m, n) == IF m > n THEN m ELSE n
pollNew(s) ==
  LET now == shown[ask[s]][out[s]]
  IN  news(now.reasoning, body[s].sentR, TRUE) \o news(now.content, body[s].sent, FALSE)
pollBody(s) ==
  LET now == shown[ask[s]][out[s]]
  IN  [body[s] EXCEPT !.seen = out[s], !.sentR = max(Len(now.reasoning), @),
                      !.sent = max(Len(now.content), @)]
tailNew(s) ==
  LET d == whole[ask[s]]
  IN  IF via(s) = "plain" THEN <<[t |-> "message", reasoning |-> d.reasoning, content |-> d.content]>>
      ELSE news(d.reasoning, body[s].sentR, TRUE) \o news(d.content, body[s].sent, FALSE)
             \o (IF d.calls THEN <<control("tool_calls")>> ELSE <<>>) \o <<control("done")>>

\* A poll of _deltas hands on what pollNew says.
LEMMA PollIs ==
  ASSUME NEW s \in Session, Poll(s), queued(s)
  PROVE  body' = [body EXCEPT ![s] = produced(s, pollBody(s), pollNew(s), FALSE)]
BY DEF Poll, pollBody, pollNew, news, max

\* The end of _deltas hands on what tailNew says.
LEMMA TailIs ==
  ASSUME NEW s \in Session, Tail_(s)
  PROVE  body' = [body EXCEPT ![s] = produced(s, [body[s] EXCEPT !.at = "end"], tailNew(s), TRUE)]
BY DEF Tail_, tailNew, news

\* Both are pieces of a reply.
LEMMA PollOf ==
  ASSUME Types, NEW s \in Session
  PROVE  /\ pollNew(s) \in Seq(Piece) /\ tailNew(s) \in Seq(Piece) /\ <<control("error")>> \in Seq(Piece)
         /\ pollBody(s) \in Generator
<1>1. body[s].sentR \in Nat /\ body[s].sent \in Nat /\ body[s] \in Generator /\ out[s] \in Nat
  BY DEF Types, Generator
<1>2. pollNew(s) \in Seq(Piece)
  BY <1>1, OneOf, NewsOf, ConcatProperties DEF pollNew
<1>3. <<control("error")>> \in Seq(Piece) /\ <<control("tool_calls")>> \in Seq(Piece)
      /\ <<control("done")>> \in Seq(Piece) /\ <<>> \in Seq(Piece)
  <2>1. <<>> \in Seq(Marks)
    BY EmptySeq
  <2>2. control("error") \in Piece /\ control("tool_calls") \in Piece /\ control("done") \in Piece
    BY <2>1, PiecesOf
  <2> QED
    BY <2>2, EmptySeq
<1>4. tailNew(s) \in Seq(Piece)
  <2> DEFINE d == whole[ask[s]]
             n1 == news(d.reasoning, body[s].sentR, TRUE)
             n2 == news(d.content, body[s].sent, FALSE)
             calls == IF d.calls THEN <<control("tool_calls")>> ELSE <<>>
  <2>1. n1 \in Seq(Piece) /\ n2 \in Seq(Piece) /\ calls \in Seq(Piece)
    BY <1>1, <1>3, OneOf, NewsOf
  <2>2. n1 \o n2 \o calls \o <<control("done")>> \in Seq(Piece)
    <3> HIDE DEF n1, n2, calls
    <3> QED
      BY <1>3, <2>1
  <2>3. <<[t |-> "message", reasoning |-> d.reasoning, content |-> d.content]>> \in Seq(Piece)
    BY OneOf, PiecesOf
  <2> QED
    BY <2>2, <2>3 DEF tailNew
<1>5. pollBody(s) \in Generator
  <2> DEFINE now == shown[ask[s]][out[s]]
  <2>1. Len(now.reasoning) \in Nat /\ Len(now.content) \in Nat
    <3>1. now.reasoning \in Seq(Marks) /\ now.content \in Seq(Marks)
      BY OneOf
    <3> QED
      BY <3>1, LenProperties
  <2>2. max(Len(now.reasoning), body[s].sentR) \in Nat /\ max(Len(now.content), body[s].sent) \in Nat
    BY <1>1, <2>1 DEF max
  <2>3. pollBody(s) = [body[s] EXCEPT !.seen = out[s], !.sentR = max(Len(now.reasoning), body[s].sentR),
                                      !.sent = max(Len(now.content), body[s].sent)]
    BY DEF pollBody
  <2> QED
    BY <1>1, <2>2, <2>3 DEF Generator
<1> QED
  BY <1>2, <1>3, <1>4, <1>5

\* A step of the worker.
LEMMA WorkerTypes ==
  ASSUME Types, NEW s \in Session, Poll(s) \/ TimesOut(s) \/ Take(s) \/ Tail_(s) \/ GiveUp(s)
  PROVE  Types'
<1>1. CASE Poll(s) /\ queued(s)
  <2> DEFINE b == produced(s, pollBody(s), pollNew(s), FALSE)
  <2>1. body' = [body EXCEPT ![s] = b]
    BY <1>1, PollIs
  <2>2. b \in Generator /\ b.seen = out[s]
    <3>1. pollBody(s).seen = out[s]
      BY DEF pollBody, Types, Generator
    <3> QED
      <4>1. Leaves(b, s, pollBody(s), pollNew(s), FALSE)
        BY PollOf, ProducedOf
      <4> HIDE DEF b
      <4> QED
        BY <3>1, <4>1 DEF Leaves
  <2>3. b.seen <= out[s]
    <3> HIDE DEF b
    <3> QED
      BY <2>2 DEF Types
  <2> HIDE DEF b
  <2> QED
    BY <1>1, <2>1, <2>2, <2>3, BodyTypes DEF Types, Poll, engineVars, clientVars
<1>2. CASE Poll(s) /\ ~queued(s)
  <2> DEFINE b == [body[s] EXCEPT !.at = "take"]
  <2>1. body' = [body EXCEPT ![s] = b] /\ b \in Generator /\ b.seen <= out[s]
    BY <1>2, AtOf DEF Poll
  <2> HIDE DEF b
  <2> QED
    BY <1>2, <2>1, BodyTypes DEF Types, Poll, engineVars, clientVars
<1>3. CASE TimesOut(s)
  <2> DEFINE b == [body[s] EXCEPT !.at = "giveup"]
  <2>1. body' = [body EXCEPT ![s] = b] /\ b \in Generator /\ b.seen <= out[s]
    BY <1>3, AtOf DEF TimesOut
  <2>2. faults' \in 0 .. MaxFaults
    BY <1>3, BoundsAssumption DEF Types, TimesOut, fault
  <2> HIDE DEF b
  <2> QED
    BY <1>3, <2>1, <2>2, BodyTypes DEF Types, TimesOut, engineVars, clientVars
<1>4. CASE Take(s)
  <2> DEFINE b == [body[s] EXCEPT !.at = IF filed[s] = "finished" THEN "tail" ELSE "giveup"]
  <2>1. body' = [body EXCEPT ![s] = b] /\ b \in Generator /\ b.seen <= out[s]
    BY <1>4, AtOf DEF Take
  <2> HIDE DEF b
  <2> QED
    BY <1>4, <2>1, BodyTypes DEF Types, Take, clientVars
<1>5. CASE Tail_(s)
  <2> DEFINE b == produced(s, [body[s] EXCEPT !.at = "end"], tailNew(s), TRUE)
  <2>1. body' = [body EXCEPT ![s] = b]
    BY <1>5, TailIs
  <2>2. tailNew(s) \in Seq(Piece) /\ <<control("error")>> \in Seq(Piece)
    BY PollOf
  <2>3. b \in Generator /\ b.seen <= out[s]
    BY <2>2, EndOfBody
  <2>4. UNCHANGED <<up, faults, engineVars, task, drain, frames, clientVars>>
    BY <1>5 DEF Tail_
  <2> HIDE DEF b
  <2> QED
    BY <2>1, <2>3, <2>4, BodyTypes DEF Types, engineVars, clientVars
<1>6. CASE GiveUp(s)
  <2> DEFINE b == produced(s, [body[s] EXCEPT !.at = "end"], <<control("error")>>, TRUE)
  <2>1. body' = [body EXCEPT ![s] = b]
    BY <1>6 DEF GiveUp
  <2>2. tailNew(s) \in Seq(Piece) /\ <<control("error")>> \in Seq(Piece)
    BY PollOf
  <2>3. b \in Generator /\ b.seen <= out[s]
    BY <2>2, EndOfBody
  <2>4. /\ where' \in [Session -> {"none", "waiting", "moving", "running", "gone"}]
        /\ filed' \in [Session -> {"none", "finished", "failed"}]
        /\ UNCHANGED <<up, faults, lock, out, task, drain, frames, clientVars>>
    BY <1>6 DEF GiveUp, cancel, Types
  <2> HIDE DEF b
  <2> QED
    BY <2>1, <2>3, <2>4, BodyTypes DEF Types, clientVars
<1> QED
  BY <1>1, <1>2, <1>3, <1>4, <1>5, <1>6

\* A step of the handler.
LEMMA SendTypes ==
  ASSUME Types, NEW s \in Session, NEW f \in Piece, send(s, f)
  PROVE  frames' \in [Session -> Seq(Piece)]
<1>1. frames[s] \in Seq(Piece) /\ Append(frames[s], f) \in Seq(Piece)
  BY AppendProperties DEF Types
<1> QED
  BY <1>1 DEF Types, send

\* A step of a request handler leaves the types as they are.
LEMMA HandlerTypes ==
  ASSUME Types, Control, NEW s \in Session, Handler(s)
  PROVE  Types'
<1>0. body[s] \in Generator /\ ask[s] \in Asked
      /\ control("error") \in Piece /\ (body[s].items # <<>> => Head(body[s].items) \in Piece)
  <2>1. body[s] \in Generator /\ ask[s] \in Asked
    BY DEF Types
  <2>2. control("error") \in Piece
    BY EmptySeq, PiecesOf
  <2> QED
    BY <2>1, <2>2, HeadTailProperties DEF Generator
<1>1. CASE Submit(s)
  <2> DEFINE b == [NoBody EXCEPT !.st = "running", !.at = IF via(s) = "plain" THEN "take" ELSE "poll"]
  <2>1. b \in Generator
    BY NoBodyOf
  <2>2. b.seen = 0
    BY DEF NoBody
  <2>3. b.seen <= out[s]
    BY <2>2 DEF Types
  <2>4. body' = [body EXCEPT ![s] = b]
    BY <1>1 DEF Submit
  <2> HIDE DEF b
  <2> QED
    BY <1>1, <2>1, <2>3, <2>4, BodyTypes DEF Submit, Types, clientVars
<1>2. CASE Refuse(s)
  BY <1>0, <1>2, SendTypes DEF Refuse, closeConn, Types, engineVars
<1>3. CASE SendFrame(s)
  <2>1. body[s].items # <<>>
    BY <1>3 DEF SendFrame, fetched, Control, HandlerRight
  <2>2. frames' \in [Session -> Seq(Piece)]
    BY <1>0, <1>3, <2>1, SendTypes DEF SendFrame
  <2>3. /\ task' \in [Session -> {"none", "submit", "fetch", "yield", "cancel", "over"}]
        /\ drain' \in [Session -> {"none", "cancel", "join", "close", "over"}]
        /\ conn' \in [Session -> {"none", "open", "closed", "left", "lost"}]
    <3>1. /\ task' = task \/ task' = [task EXCEPT ![s] = "over"]
          /\ drain' = drain \/ drain' = [drain EXCEPT ![s] = "cancel"]
          /\ conn' = conn \/ closeConn(s)
      BY <1>3 DEF SendFrame, detach
    <3>2. task' \in [Session -> {"none", "submit", "fetch", "yield", "cancel", "over"}]
      BY <3>1 DEF Types
    <3>3. drain' \in [Session -> {"none", "cancel", "join", "close", "over"}]
      BY <3>1 DEF Types
    <3>4. conn' \in [Session -> {"none", "open", "closed", "left", "lost"}]
      BY <3>1 DEF closeConn, Types
    <3> QED
      BY <3>2, <3>3, <3>4
  <2>4. \/ body' = body \/ body' = [body EXCEPT ![s] = resumed(s)]
        \/ body' = [body EXCEPT ![s] = [body[s] EXCEPT !.items = <<>>]]
    BY <1>3 DEF SendFrame
  <2>5. /\ [body[s] EXCEPT !.items = <<>>] \in Generator
        /\ [body[s] EXCEPT !.items = <<>>].seen <= out[s]
    <3>1. <<>> \in Seq(Piece) /\ body[s].seen <= out[s]
      BY EmptySeq DEF Types
    <3> QED
      BY <1>0, <3>1 DEF Generator
  <2>6. resumed(s) \in Generator /\ resumed(s).seen <= out[s]
    BY <2>1, ResumedOf DEF Types
  <2>7. /\ body' \in [Session -> Generator]
        /\ \A t \in Session : out[t] <= Len(ask[t].tokens) /\ body'[t].seen <= out[t]
    BY <2>4, <2>5, <2>6, BodyTypes DEF Types
  <2>8. UNCHANGED <<up, faults, engineVars, scene, ask>>
    BY <1>3 DEF SendFrame
  <2> QED
    BY <2>2, <2>3, <2>7, <2>8 DEF Types, engineVars
<1>4. CASE YieldItem(s)
  <2>1. body[s].items # <<>>
    BY <1>4 DEF YieldItem, fetched, Control, HandlerRight
  <2>2. frames' \in [Session -> Seq(Piece)]
    BY <1>0, <1>4, <2>1, SendTypes DEF YieldItem, Types
  <2> QED
    BY <1>4, <2>2 DEF YieldItem, Types, engineVars, clientVars
<1>5. CASE Resume(s)
  <2>1. body[s].items # <<>>
    BY <1>5 DEF Resume, Control, HandlerRight
  <2>2. body' = [body EXCEPT ![s] = resumed(s)] /\ resumed(s) \in Generator /\ resumed(s).seen <= out[s]
    BY <1>5, <2>1, ResumedOf DEF Resume, Types
  <2> QED
    BY <1>5, <2>2, BodyTypes DEF Resume, Types, engineVars, clientVars
<1>6. CASE Answer(s)
  <2>1. body[s].items # <<>>
    BY <1>6 DEF Answer, fetched, Control, HandlerRight
  <2>2. frames' \in [Session -> Seq(Piece)]
    BY <1>0, <1>6, <2>1, SendTypes DEF Answer
  <2> DEFINE b == [NoBody EXCEPT !.st = "closed"]
  <2>3. b \in Generator
    BY NoBodyOf
  <2>4. b.seen = 0
    BY DEF NoBody
  <2>5. b.seen <= out[s]
    BY <2>4 DEF Types
  <2>6. body' = [body EXCEPT ![s] = b]
    BY <1>6 DEF Answer
  <2>7. /\ task' \in [Session -> {"none", "submit", "fetch", "yield", "cancel", "over"}]
        /\ conn' \in [Session -> {"none", "open", "closed", "left", "lost"}]
        /\ UNCHANGED <<up, faults, engineVars, drain, scene, ask>>
    BY <1>6 DEF Answer, closeConn, Types
  <2> HIDE DEF b
  <2> QED
    BY <2>2, <2>3, <2>5, <2>6, <2>7, BodyTypes DEF Types, engineVars
<1>7. CASE StreamEnd(s) \/ NoticeGone(s) \/ Abandon(s)
  <2>1. task' \in [Session -> {"none", "submit", "fetch", "yield", "cancel", "over"}]
    <3>1. \E to \in {"over", "cancel"} : task' = [task EXCEPT ![s] = to]
      BY <1>7 DEF StreamEnd, NoticeGone, Abandon, detach
    <3>2. task \in [Session -> {"none", "submit", "fetch", "yield", "cancel", "over"}]
      BY DEF Types
    <3> QED
      BY ONLY <3>1, <3>2
  <2>2. drain' \in [Session -> {"none", "cancel", "join", "close", "over"}]
    BY <1>7 DEF StreamEnd, NoticeGone, Abandon, detach, Types
  <2>3. conn' \in [Session -> {"none", "open", "closed", "left", "lost"}]
    BY <1>7 DEF StreamEnd, NoticeGone, Abandon, closeConn, Types, clientVars
  <2>4. UNCHANGED <<up, faults, lock, where, out, filed, body, frames, scene, ask>>
    BY <1>7 DEF StreamEnd, NoticeGone, Abandon, engineVars, clientVars
  <2> QED
    BY ONLY Types, <2>1, <2>2, <2>3, <2>4 DEF Types
<1>8. CASE Cancel(s)
  <2>1. /\ where' \in [Session -> {"none", "waiting", "moving", "running", "gone"}]
        /\ filed' \in [Session -> {"none", "finished", "failed"}]
    BY <1>8 DEF Cancel, cancel, Types
  <2>2. task' \in [Session -> {"none", "submit", "fetch", "yield", "cancel", "over"}]
        /\ drain' \in [Session -> {"none", "cancel", "join", "close", "over"}]
    BY <1>8 DEF Cancel, detach, Types
  <2>3. UNCHANGED <<up, faults, lock, out, body, frames, clientVars>>
    BY <1>8 DEF Cancel
  <2>4. UNCHANGED <<up, faults, lock, out, body, frames, scene, ask, conn>>
    BY <2>3 DEF clientVars
  <2> QED
    BY ONLY Types, <2>1, <2>2, <2>4 DEF Types
<1> QED
  BY <1>1, <1>2, <1>3, <1>4, <1>5, <1>6, <1>7, <1>8 DEF Handler

\* A client connects.
LEMMA OpenTypes ==
  ASSUME Types, Control, NEW s \in Session, NEW r \in scene[s].asks, Open(s, r)
  PROVE  Types'
<1>1. r \in Asked
  BY DEF Types, Asked
<1>2. out[s] = 0 /\ body[s].seen = 0
  BY DEF Open, Control, HandlerRight, Untouched, NoBody
<1>3. Len(r.tokens) \in Nat
  BY <1>1, TextsOf
<1>4. \A t \in Session : out[t] <= Len(ask'[t].tokens) /\ body[t].seen <= out[t]
  BY <1>2, <1>3 DEF Types, Open
<1> QED
  BY <1>1, <1>4 DEF Types, Open, engineVars

\* A step of a drain.
LEMMA DrainTypes ==
  ASSUME Types, NEW s \in Session, Drain(s)
  PROVE  Types'
<1>1. CASE DrainCancel(s)
  BY <1>1 DEF DrainCancel, cancel, Types, clientVars
<1>2. CASE DrainJoin(s)
  BY <1>2 DEF DrainJoin, Types, engineVars, clientVars
<1>3. CASE DrainGivesUp(s)
  BY <1>3, BoundsAssumption DEF DrainGivesUp, fault, Types, engineVars, clientVars
<1>4. CASE DrainClose(s)
  <2> DEFINE b == [NoBody EXCEPT !.st = "closed"]
  <2>1. b \in Generator
    BY NoBodyOf
  <2>2. b.seen = 0
    BY DEF NoBody
  <2>3. b.seen <= out[s]
    BY <2>2 DEF Types
  <2>4. body' = [body EXCEPT ![s] = b]
    BY <1>4 DEF DrainClose
  <2>5. /\ where' \in [Session -> {"none", "waiting", "moving", "running", "gone"}]
        /\ filed' \in [Session -> {"none", "finished", "failed"}]
        /\ drain' \in [Session -> {"none", "cancel", "join", "close", "over"}]
        /\ UNCHANGED <<up, faults, lock, out, task, frames, clientVars>>
    BY <1>4 DEF DrainClose, cancel, Types
  <2> HIDE DEF b
  <2> QED
    BY <2>1, <2>3, <2>4, <2>5, BodyTypes DEF Types, clientVars
<1> QED
  BY <1>1, <1>2, <1>3, <1>4 DEF Drain

-----------------------------------------------------------------------------
(* Control *)

\* A step that leaves a session alone.
SameAt(t) ==
  /\ where'[t] = where[t] /\ filed'[t] = filed[t] /\ out'[t] = out[t] /\ body'[t] = body[t]
  /\ task'[t] = task[t] /\ drain'[t] = drain[t] /\ frames'[t] = frames[t] /\ conn'[t] = conn[t]
  /\ ask'[t] = ask[t] /\ scene' = scene

\* The steps of one session.
Own(s) ==
  \/ Admit(s) \/ Emit(s) \/ Finish(s)
  \/ Worker(s) \/ Handler(s) \/ Drain(s)
  \/ Leave(s) \/ Lose(s) \/ \E r \in scene[s].asks : Open(s, r)

\* They leave every other session alone.
LEMMA Elsewhere ==
  ASSUME Types, NEW s \in Session, Own(s)
  PROVE  \A t \in Session \ {s} : SameAt(t)
<1>1. CASE Admit(s) \/ Emit(s) \/ Finish(s)
  BY <1>1 DEF Admit, Emit, Finish, SameAt, serverVars, clientVars, Types
<1>2. CASE Leave(s) \/ Lose(s)
  <2>1. UNCHANGED <<engineVars, serverVars, scene>>
    BY <1>2 DEF Leave, Lose
  <2>2. \A t \in Session \ {s} : conn'[t] = conn[t] /\ ask'[t] = ask[t]
    BY <1>2 DEF Leave, Lose, Types
  <2>3. UNCHANGED <<where, filed, out, body, task, drain, frames>>
    BY <2>1 DEF engineVars, serverVars
  <2>4. scene' = scene
    BY <2>1
  <2>5. ASSUME NEW t \in Session \ {s} PROVE SameAt(t)
    BY ONLY <2>2, <2>3, <2>4, t \in Session \ {s} DEF SameAt
  <2> QED
    BY <2>5
<1>3. CASE Worker(s)
  <2>1. UNCHANGED <<task, drain, frames, conn, scene, ask, out>>
    BY <1>3 DEF Worker, Works, Poll, TimesOut, Take, Tail_, GiveUp, engineVars, clientVars
  <2>2. \A t \in Session \ {s} : where'[t] = where[t] /\ filed'[t] = filed[t]
    <3>1. where \in [Session -> {"none", "waiting", "moving", "running", "gone"}]
          /\ filed \in [Session -> {"none", "finished", "failed"}]
      BY DEF Types
    <3>2. CASE Poll(s) \/ TimesOut(s) \/ Tail_(s)
      BY <3>2 DEF Poll, TimesOut, Tail_, engineVars
    <3>3. CASE Take(s)
      BY <3>1, <3>3 DEF Take
    <3>4. CASE GiveUp(s)
      BY <3>1, <3>4 DEF GiveUp, cancel
    <3> QED
      BY <1>3, <3>2, <3>3, <3>4 DEF Worker, Works
  <2>3. \E b : body' = [body EXCEPT ![s] = b]
    <3>1. CASE Poll(s) \/ TimesOut(s) \/ Take(s)
      BY <3>1 DEF Poll, TimesOut, Take
    <3>2. CASE Tail_(s) \/ GiveUp(s)
      BY <3>2 DEF Tail_, GiveUp
    <3> QED
      BY <1>3, <3>1, <3>2 DEF Worker, Works
  <2> QED
    BY <2>1, <2>2, <2>3 DEF SameAt, Types
<1>4. CASE \E r \in scene[s].asks : Open(s, r)
  BY <1>4 DEF Open, SameAt, engineVars, Types
<1>5. CASE Submit(s) \/ Refuse(s) \/ YieldItem(s) \/ Resume(s) \/ Answer(s)
  BY <1>5 DEF Submit, Refuse, YieldItem, Resume, Answer, send, closeConn,
              SameAt, engineVars, clientVars, Types
<1>6. CASE SendFrame(s)
  BY <1>6 DEF SendFrame, send, closeConn, detach, SameAt, engineVars, Types
<1>7. CASE StreamEnd(s) \/ NoticeGone(s) \/ Abandon(s)
  BY <1>7 DEF StreamEnd, NoticeGone, Abandon, closeConn, detach, SameAt, engineVars, clientVars, Types
<1>8. CASE Cancel(s)
  BY <1>8 DEF Cancel, cancel, detach, SameAt, clientVars, Types
<1>9. CASE Drain(s)
  BY <1>9 DEF Drain, DrainCancel, DrainJoin, DrainGivesUp, DrainClose, cancel, SameAt,
              engineVars, clientVars, Types
<1> QED
  BY <1>1, <1>2, <1>3, <1>4, <1>5, <1>6, <1>7, <1>8, <1>9 DEF Own, Handler

\* What is right of a session stays so when a step leaves it alone; and no row is between
\* its queues when the lock is let go.
LEMMA ControlElsewhere ==
  ASSUME NEW t, HandlerRight(t), RowRight(t), SameAt(t), where[t] = "moving" => lock' = "ticked"
  PROVE  HandlerRight(t)' /\ RowRight(t)'
BY DEF SameAt, HandlerRight, RowRight, Untouched, over, via

\* A step of one session needs to be looked at in that session only.
LEMMA ControlAt ==
  ASSUME Control, NEW s \in Session, \A t \in Session \ {s} : SameAt(t),
         lock' \in {lock, "ticked"}, HandlerRight(s)', RowRight(s)'
  PROVE  Control'
<1>1. ASSUME NEW t \in Session \ {s} PROVE HandlerRight(t)' /\ RowRight(t)'
  <2>1. HandlerRight(t) /\ RowRight(t)
    BY DEF Control
  <2>2. where[t] = "moving" => lock' = "ticked"
    BY <2>1 DEF RowRight
  <2> QED
    BY <2>1, <2>2, ControlElsewhere
<1> QED
  BY <1>1 DEF Control

\* Steps of the engine.
LEMMA EngineControl ==
  ASSUME Types, Control, Tick
  PROVE  Control'
<1>1. CASE TickBegin \/ TickEnd
  <2>1. ASSUME NEW t \in Session PROVE HandlerRight(t)' /\ RowRight(t)'
    <3>1. HandlerRight(t) /\ RowRight(t)
      BY DEF Control
    <3>2. SameAt(t) /\ (where[t] = "moving" => lock' = "ticked")
      BY <1>1, <3>1 DEF TickBegin, TickEnd, lockFree, SameAt, RowRight, serverVars, clientVars
    <3> QED
      BY <3>1, <3>2, ControlElsewhere
  <2> QED
    BY <2>1 DEF Control
<1>2. ASSUME NEW s \in Session, Admit(s) \/ Emit(s) \/ Finish(s) PROVE Control'
  <2>0. HandlerRight(s) /\ RowRight(s)
    BY DEF Control
  <2>1. \A t \in Session \ {s} : SameAt(t)
    BY <1>2, Elsewhere DEF Own
  <2>2. lock' = "ticked"
    BY <1>2 DEF Admit, Emit, Finish
  <2>3. HandlerRight(s)'
    BY <1>2, <2>0 DEF Admit, Emit, Finish, HandlerRight, Untouched, via, serverVars, clientVars
  <2>4. RowRight(s)'
    BY <1>2, <2>0, <2>2 DEF Admit, Emit, Finish, RowRight, over, via, serverVars, clientVars, Types
  <2> QED
    BY <2>1, <2>2, <2>3, <2>4, ControlAt
<1> QED
  BY <1>1, <1>2 DEF Tick

\* Steps of the connections and of the process.
LEMMA ConnControl ==
  ASSUME Types, Control, NEW s \in Session, Leave(s) \/ Lose(s)
  PROVE  Control'
<1>0. HandlerRight(s) /\ RowRight(s)
  BY DEF Control
<1>1. \A t \in Session \ {s} : SameAt(t)
  BY Elsewhere DEF Own
<1>2. lock' = lock
  BY DEF Leave, Lose, engineVars
<1>3. HandlerRight(s)'
  BY <1>0 DEF Leave, Lose, HandlerRight, Untouched, via, engineVars, serverVars, Types
<1>4. RowRight(s)'
  BY <1>0 DEF Leave, Lose, RowRight, over, via, engineVars, serverVars, Types
<1> QED
  BY <1>1, <1>2, <1>3, <1>4, ControlAt

\* A process that dies or comes back keeps the control of every session right.
LEMMA ProcessControl ==
  ASSUME Types, Control, Crash \/ Restart
  PROVE  Control'
<1>1. CASE Crash
  <2>1. ASSUME NEW t \in Session PROVE HandlerRight(t)' /\ RowRight(t)'
    <3>0. HandlerRight(t) /\ RowRight(t)
      BY DEF Control
    <3>1. /\ conn'[t] = IF conn[t] = "open" THEN "lost" ELSE conn[t]
          /\ where'[t] = IF where[t] = "none" THEN "none" ELSE "gone"
          /\ filed'[t] = "none"
          /\ body'[t] = IF body[t].st = "none" THEN NoBody ELSE [NoBody EXCEPT !.st = "closed"]
          /\ task'[t] = IF task[t] = "none" THEN "none" ELSE "over"
          /\ drain'[t] = IF task[t] = "none" THEN "none" ELSE "over"
          /\ out'[t] = out[t] /\ frames'[t] = frames[t]
      BY <1>1 DEF Crash
    <3>2. body'[t].at = "poll" /\ body'[t].st \in {"none", "closed"} /\ (body[t] = NoBody => body'[t] = NoBody)
      BY <3>1 DEF NoBody
    <3>3. HandlerRight(t)'
      BY <3>0, <3>1, <3>2 DEF HandlerRight, Untouched
    <3>4. RowRight(t)'
      BY <3>0, <3>1, <3>2 DEF RowRight, over
    <3> QED
      BY <3>3, <3>4
  <2> QED
    BY <2>1 DEF Control
<1>2. CASE Restart
  <2>1. ASSUME NEW t \in Session PROVE HandlerRight(t)' /\ RowRight(t)'
    <3>1. HandlerRight(t) /\ RowRight(t)
      BY DEF Control
    <3>2. SameAt(t) /\ (where[t] = "moving" => lock' = "ticked")
      BY <1>2, <3>1 DEF Restart, SameAt, RowRight, engineVars, serverVars, clientVars
    <3> QED
      BY <3>1, <3>2, ControlElsewhere
  <2> QED
    BY <2>1 DEF Control
<1> QED
  BY <1>1, <1>2

\* Steps of the worker.  One leaves the session's handler, drain, frames and connection
\* alone, and the generator suspended when it has something to hand out.
WorkerLeaves(s) ==
  /\ task' = task /\ drain' = drain /\ frames' = frames /\ conn' = conn /\ scene' = scene
  /\ out' = out /\ lock' = lock

\* So does a step of a worker.
LEMMA WorkerControl ==
  ASSUME Types, Control, NEW s \in Session, Worker(s)
  PROVE  Control'
<1>0. HandlerRight(s) /\ RowRight(s) /\ body[s].st = "running" /\ WorkerLeaves(s)
  <2>1. HandlerRight(s) /\ RowRight(s)
    BY DEF Control
  <2>2. body[s].st = "running"
    BY DEF Worker, Works, Poll, TimesOut, Take, Tail_, GiveUp, working
  <2>3. WorkerLeaves(s)
    BY DEF Worker, Works, Poll, TimesOut, Take, Tail_, GiveUp, engineVars, clientVars, WorkerLeaves
  <2> QED
    BY <2>1, <2>2, <2>3
<1>1. \A t \in Session \ {s} : SameAt(t)
  BY Elsewhere DEF Own
<1>2. task[s] \notin {"none", "submit", "yield"} /\ drain[s] # "close"
  BY <1>0 DEF HandlerRight, RowRight, Untouched, NoBody
<1>3. /\ task[s] = "fetch" => (body'[s].st = "suspended" <=> body'[s].items # <<>>)
      /\ body'[s].st \in {"running", "suspended"}
      /\ where[s] \in {"none", "gone"} => where'[s] = where[s]
      /\ where'[s] = "moving" => where[s] = "moving"
      /\ filed'[s] # "none" => where'[s] = "gone"
      /\ body'[s].at \in {"tail", "end"} => where'[s] \in {"none", "gone"}
      /\ via(s) = "plain" => body'[s].at # "poll" /\ (body'[s].st = "suspended" => body'[s].at = "end")
  <2>0. body[s] \in Generator /\ (task[s] = "fetch" => body[s].items = <<>>)
    BY <1>0 DEF HandlerRight, Types
  <2>1. CASE Poll(s) /\ queued(s)
    <3> DEFINE b == produced(s, pollBody(s), pollNew(s), FALSE)
    <3>1. body'[s] = b
      BY <2>1, PollIs DEF Types
    <3>2. b.st \in {"running", "suspended"} /\ (b.st = "suspended" <=> b.items # <<>>) /\ b.at = pollBody(s).at
      BY PollOf, ProducedOf DEF Leaves
    <3>3. pollBody(s).at = body[s].at
      BY <2>0 DEF pollBody, Generator
    <3>4. body[s].at = "poll" /\ where' = where /\ filed' = filed
      BY <2>1 DEF Poll, working, engineVars
    <3> HIDE DEF b
    <3> QED
      BY <1>0, <3>1, <3>2, <3>3, <3>4 DEF RowRight
  <2>2. CASE Poll(s) /\ ~queued(s)
    <3>1. body'[s] = [body[s] EXCEPT !.at = "take"] /\ body[s].at = "poll" /\ where' = where /\ filed' = filed
      BY <2>2 DEF Poll, working, engineVars, Types
    <3>2. body'[s].at = "take" /\ body'[s].st = "running" /\ body'[s].items = body[s].items
      BY <1>0, <2>0, <3>1 DEF Generator
    <3> QED
      BY <1>0, <2>0, <3>1, <3>2 DEF RowRight
  <2>3. CASE TimesOut(s)
    <3>1. body'[s] = [body[s] EXCEPT !.at = "giveup"] /\ where' = where /\ filed' = filed
      BY <2>3 DEF TimesOut, engineVars, Types
    <3>2. body'[s].at = "giveup" /\ body'[s].st = "running" /\ body'[s].items = body[s].items
      BY <1>0, <2>0, <3>1 DEF Generator
    <3> QED
      BY <1>0, <2>0, <3>1, <3>2 DEF RowRight
  <2>4. CASE Take(s)
    <3>1. body'[s] = [body[s] EXCEPT !.at = IF filed[s] = "finished" THEN "tail" ELSE "giveup"]
          /\ where' = where /\ filed'[s] = "none" /\ filed[s] # "none"
      BY <2>4 DEF Take, Types
    <3>2. body'[s].at \in {"tail", "giveup"} /\ body'[s].st = "running" /\ body'[s].items = body[s].items
      BY <1>0, <2>0, <3>1 DEF Generator
    <3> QED
      BY <1>0, <2>0, <3>1, <3>2 DEF RowRight
  <2>5. CASE Tail_(s)
    <3> DEFINE b == produced(s, [body[s] EXCEPT !.at = "end"], tailNew(s), TRUE)
    <3>1. body'[s] = b
      BY <2>5, TailIs DEF Types
    <3>2. b.st \in {"running", "suspended"} /\ (b.st = "suspended" <=> b.items # <<>>) /\ b.at = "end"
      <4>1. tailNew(s) \in Seq(Piece) /\ <<control("error")>> \in Seq(Piece)
        BY PollOf
      <4> QED
        BY <4>1, EndOfBody
    <3>3. body[s].at = "tail" /\ where' = where /\ filed' = filed
      BY <2>5 DEF Tail_, working, engineVars
    <3> HIDE DEF b
    <3> QED
      BY <1>0, <3>1, <3>2, <3>3 DEF RowRight
  <2>6. CASE GiveUp(s)
    <3> DEFINE b == produced(s, [body[s] EXCEPT !.at = "end"], <<control("error")>>, TRUE)
    <3>1. body'[s] = b
      BY <2>6 DEF GiveUp, Types
    <3>2. b.st \in {"running", "suspended"} /\ (b.st = "suspended" <=> b.items # <<>>) /\ b.at = "end"
      <4>1. tailNew(s) \in Seq(Piece) /\ <<control("error")>> \in Seq(Piece)
        BY PollOf
      <4> QED
        BY <4>1, EndOfBody
    <3>3. body[s].at = "giveup" /\ lock = "free"
          /\ IF queued(s) THEN where'[s] = "gone" /\ filed'[s] = "failed" ELSE where' = where /\ filed' = filed
      BY <2>6 DEF GiveUp, working, lockFree, cancel, Types
    <3>4. where[s] # "moving"
      BY <1>0, <3>3 DEF RowRight
    <3> HIDE DEF b
    <3> QED
      BY <1>0, <3>1, <3>2, <3>3, <3>4 DEF RowRight, queued, Types
  <2> QED
    BY <2>1, <2>2, <2>3, <2>4, <2>5, <2>6 DEF Worker, Works
<1>4. HandlerRight(s)'
  BY <1>0, <1>2, <1>3 DEF HandlerRight, WorkerLeaves, Types
<1>5. RowRight(s)'
  BY <1>0, <1>2, <1>3 DEF RowRight, WorkerLeaves, over, via
<1> QED
  BY <1>0, <1>1, <1>4, <1>5, ControlAt DEF WorkerLeaves

\* Steps of the handler.
LEMMA OpenControl ==
  ASSUME Types, Control, NEW s \in Session, NEW r \in scene[s].asks, Open(s, r)
  PROVE  Control'
<1>0. HandlerRight(s) /\ RowRight(s)
  BY DEF Control
<1>1. \A t \in Session \ {s} : SameAt(t)
  BY Elsewhere DEF Own
<1>2. task'[s] = "submit" /\ conn'[s] = "open" /\ task[s] = "none"
      /\ UNCHANGED <<lock, where, filed, out, body, drain, frames, scene>>
  BY <1>0 DEF Open, Types, engineVars, HandlerRight
<1>3. HandlerRight(s)'
  BY <1>0, <1>2 DEF HandlerRight, Untouched
<1>4. RowRight(s)'
  BY <1>0, <1>2 DEF RowRight, over, via, HandlerRight, Untouched
<1> QED
  BY <1>1, <1>2, <1>3, <1>4, ControlAt

\* So does a step of a handler.
LEMMA HandlerControl ==
  ASSUME Types, Control, NEW s \in Session, Handler(s)
  PROVE  Control'
<1>0. HandlerRight(s) /\ RowRight(s)
  BY DEF Control
<1>1. \A t \in Session \ {s} : SameAt(t)
  BY Elsewhere DEF Own
<1>2. lock' = lock /\ scene' = scene /\ out' = out
  BY DEF Handler, Submit, Refuse, SendFrame, YieldItem, Resume, Answer, StreamEnd, NoticeGone,
         Abandon, Cancel, engineVars, clientVars
<1>3. HandlerRight(s)' /\ RowRight(s)'
  <2>1. CASE Submit(s)
    <3>1. /\ where'[s] = "waiting" /\ task'[s] = "fetch" /\ task[s] = "submit"
          /\ body'[s].st = "running" /\ body'[s].at = IF via(s) = "plain" THEN "take" ELSE "poll"
          /\ body'[s].items = <<>>
          /\ UNCHANGED <<filed, drain, frames, conn>>
      BY <2>1 DEF Submit, Types, clientVars, NoBody
    <3>2. HandlerRight(s)'
      BY <1>0, <3>1 DEF HandlerRight
    <3>3. RowRight(s)'
      BY <1>0, <1>2, <3>1 DEF RowRight, HandlerRight, Untouched, over, via
    <3> QED
      BY <3>2, <3>3
  <2>2. CASE Refuse(s)
    <3>1. /\ task'[s] = "over" /\ task[s] = "submit" /\ conn'[s] \notin {"open", "none"}
          /\ UNCHANGED <<where, filed, body, drain>>
      BY <1>0, <2>2 DEF Refuse, closeConn, Types, engineVars, HandlerRight
    <3>2. HandlerRight(s)'
      BY <1>0, <3>1 DEF HandlerRight
    <3>3. RowRight(s)'
      BY <1>0, <1>2, <3>1 DEF RowRight, HandlerRight, Untouched, over, via
    <3> QED
      BY <3>2, <3>3
  <2>3. CASE SendFrame(s)
    <3>0. task[s] = "fetch" /\ body[s].st = "suspended" /\ body[s].items # <<>> /\ via(s) = "ws"
          /\ drain[s] = "none" /\ conn[s] # "none" /\ UNCHANGED <<where, filed>>
      BY <1>0, <2>3 DEF SendFrame, fetched, HandlerRight, engineVars
    <3>1. CASE body' = [body EXCEPT ![s] = resumed(s)] /\ UNCHANGED <<task, drain, conn>>
      <4>1. /\ body'[s].at = body[s].at /\ body'[s].st \in {"running", "suspended", "closed"}
            /\ (body'[s].st = "suspended" <=> body'[s].items # <<>>)
        <5>1. body'[s] = resumed(s)
          BY <3>1 DEF Types
        <5> QED
          BY <3>0, <5>1, ResumedTurns
      <4> QED
        BY <1>0, <1>2, <3>0, <3>1, <4>1 DEF HandlerRight, RowRight, over, via
    <3>2. CASE detach(s) /\ conn'[s] \notin {"open", "none"}
               /\ (body' = [body EXCEPT ![s].items = <<>>] \/ body' = body)
      <4>1. /\ body'[s].at = body[s].at /\ body'[s].st = "suspended"
            /\ task'[s] = "over" /\ drain'[s] = "cancel"
        BY <3>0, <3>2 DEF detach, Types, Generator
      <4> QED
        BY <1>0, <1>2, <3>0, <3>2, <4>1 DEF HandlerRight, RowRight, over, via
    <3>3. \/ body' = [body EXCEPT ![s] = resumed(s)] /\ UNCHANGED <<task, drain, conn>>
          \/ detach(s) /\ closeConn(s) /\ body' = [body EXCEPT ![s].items = <<>>]
          \/ detach(s) /\ gone(s) /\ UNCHANGED <<body, conn>>
      BY <2>3 DEF SendFrame
    <3> QED
      BY <3>0, <3>1, <3>2, <3>3 DEF closeConn, gone, Types
  <2>4. CASE YieldItem(s)
    <3>1. /\ task[s] = "fetch" /\ body[s].st = "suspended" /\ via(s) = "sse"
          /\ task'[s] = "yield" \/ (task'[s] = "cancel" /\ conn[s] \in {"left", "lost"})
          /\ UNCHANGED <<where, filed, body, drain, conn>>
      BY <2>4 DEF YieldItem, fetched, gone, engineVars, clientVars, Types
    <3> QED
      BY <1>0, <1>2, <3>1 DEF HandlerRight, RowRight, over, via
  <2>5. CASE Resume(s)
    <3>0. task[s] = "yield" /\ body[s].st = "suspended" /\ body[s].items # <<>>
      BY <1>0, <2>5 DEF Resume, HandlerRight
    <3>1. /\ task'[s] = "fetch" /\ UNCHANGED <<where, filed, drain, conn, frames>>
          /\ body'[s].at = body[s].at /\ body'[s].st \in {"running", "suspended", "closed"}
          /\ (body'[s].st = "suspended" <=> body'[s].items # <<>>)
      <4>1. body'[s] = resumed(s) /\ task'[s] = "fetch"
        BY <2>5 DEF Resume, Types
      <4>2. UNCHANGED <<where, filed, drain, conn, frames>>
        BY <2>5 DEF Resume, engineVars, clientVars
      <4> QED
        BY <3>0, <4>1, <4>2, ResumedTurns
    <3>2. via(s) = "sse"
      BY <1>0, <3>0 DEF HandlerRight
    <3> QED
      BY <1>0, <1>2, <3>0, <3>1, <3>2 DEF HandlerRight, RowRight, over, via
  <2>6. CASE Answer(s)
    <3>1. /\ task[s] = "fetch" /\ body[s].st = "suspended" /\ via(s) = "plain" /\ task'[s] = "over"
          /\ conn'[s] # "open" /\ (conn[s] # "none" => conn'[s] # "none")
          /\ body'[s].at = "poll" /\ body'[s].st = "closed"
          /\ UNCHANGED <<where, filed, drain>>
      BY <2>6 DEF Answer, fetched, closeConn, engineVars, Types, NoBody
    <3>2. where[s] \in {"none", "gone"}
      BY <1>0, <3>1 DEF RowRight
    <3> QED
      BY <1>0, <1>2, <3>1, <3>2 DEF HandlerRight, RowRight, over, via
  <2>7. CASE StreamEnd(s)
    <3>1. /\ task[s] = "fetch" /\ task'[s] = "over" /\ drain'[s] = "cancel"
          /\ conn'[s] # "open" /\ (conn[s] # "none" => conn'[s] # "none")
          /\ UNCHANGED <<where, filed, body>>
      BY <2>7 DEF StreamEnd, detach, closeConn, engineVars, Types
    <3> QED
      BY <1>0, <1>2, <3>1 DEF HandlerRight, RowRight, over, via
  <2>8. CASE NoticeGone(s) \/ Abandon(s)
    <3>1. /\ task[s] \in {"fetch", "yield"} /\ conn[s] \in {"left", "lost"}
          /\ (task'[s] = "over" /\ drain'[s] = "cancel") \/ (task'[s] = "cancel" /\ drain' = drain)
          /\ UNCHANGED <<where, filed, body, conn>>
      BY <2>8 DEF NoticeGone, Abandon, gone, detach, engineVars, clientVars, Types
    <3> QED
      BY <1>0, <1>2, <3>1 DEF HandlerRight, RowRight, over, via
  <2>9. CASE Cancel(s)
    <3>1. /\ task[s] = "cancel" /\ lock = "free" /\ task'[s] = "over"
          /\ drain'[s] = "cancel" \/ drain' = drain
          /\ IF queued(s) THEN where'[s] = "gone" /\ filed'[s] = "failed" ELSE where' = where /\ filed' = filed
          /\ UNCHANGED <<body, conn>>
      BY <2>9 DEF Cancel, lockFree, cancel, detach, clientVars, Types
    <3>2. where'[s] \in {"none", "gone"} /\ (filed'[s] # "none" => where'[s] = "gone")
      BY <1>0, <3>1 DEF RowRight, queued, Types
    <3> QED
      BY <1>0, <1>2, <3>1, <3>2 DEF HandlerRight, RowRight, over, via
  <2> QED
    BY <2>1, <2>2, <2>3, <2>4, <2>5, <2>6, <2>7, <2>8, <2>9 DEF Handler
<1> QED
  BY <1>1, <1>2, <1>3, ControlAt

\* Steps of a drain.
LEMMA DrainControl ==
  ASSUME Types, Control, NEW s \in Session, Drain(s)
  PROVE  Control'
<1>0. HandlerRight(s) /\ RowRight(s)
  BY DEF Control
<1>1. \A t \in Session \ {s} : SameAt(t)
  BY Elsewhere DEF Own
<1>2. lock' = lock /\ scene' = scene /\ out' = out /\ task[s] = "over"
      /\ UNCHANGED <<task, conn, frames>>
  BY <1>0 DEF Drain, DrainCancel, DrainJoin, DrainGivesUp, DrainClose, engineVars, clientVars, HandlerRight
<1>3. RowRight(s)'
  <2>1. CASE DrainCancel(s) \/ DrainClose(s)
    <3>1. /\ lock = "free" /\ drain'[s] \in {"join", "over"}
          /\ \/ queued(s) /\ where'[s] = "gone" /\ filed'[s] = "failed"
             \/ ~queued(s) /\ where' = where /\ filed' = filed
             \/ drain[s] = "close" /\ where' = where /\ filed' = filed
          /\ body' = body \/ (body'[s].st = "closed" /\ body'[s].at = "poll")
      BY <2>1 DEF DrainCancel, DrainClose, lockFree, cancel, Types, NoBody
    <3>2. where'[s] \in {"none", "gone"} /\ (filed'[s] # "none" => where'[s] = "gone")
      BY <1>0, <3>1 DEF RowRight, queued, Types
    <3> QED
      BY <1>0, <1>2, <3>1, <3>2 DEF RowRight, over, via
  <2>2. CASE DrainJoin(s) \/ DrainGivesUp(s)
    <3>1. /\ drain[s] = "join" /\ UNCHANGED <<where, filed, body>>
          /\ drain'[s] = "over" \/ (drain'[s] = "close" /\ body[s].st # "running")
      BY <2>2 DEF DrainJoin, DrainGivesUp, joined, engineVars, Types
    <3> QED
      BY <1>0, <1>2, <3>1 DEF RowRight, over, via
  <2> QED
    BY <2>1, <2>2 DEF Drain
<1>4. HandlerRight(s)'
  BY <1>0, <1>2 DEF HandlerRight
<1> QED
  BY <1>1, <1>2, <1>3, <1>4, ControlAt

\* Init, and a step of a session, the process or the client, establish both.
Streaming ==
  \/ Serve \/ Crash \/ Restart
  \/ \E s \in Session : Lose(s) \/ Leave(s) \/ \E r \in scene[s].asks : Open(s, r)

\* At the start types and control are right.
LEMMA InitTypes ==
  ASSUME Init
  PROVE  Types /\ Control
<1>1. NoAsk \in Asked /\ NoBody \in Generator /\ NoBody.seen = 0 /\ <<>> \in Seq(Piece)
  BY NoBodyOf DEF Asked, NoBody
<1>2. Types
  <2>1. Len(NoAsk.tokens) = 0
    BY DEF NoAsk
  <2>2. \A s \in Session : out[s] <= Len(ask[s].tokens) /\ body[s].seen <= out[s]
    BY <1>1, <2>1 DEF Init
  <2>3. faults \in 0 .. MaxFaults
    BY BoundsAssumption DEF Init
  <2>4. ask \in [Session -> Asked] /\ body \in [Session -> Generator] /\ frames \in [Session -> Seq(Piece)]
    BY <1>1 DEF Init
  <2> QED
    BY <2>2, <2>3, <2>4 DEF Init, Types
<1>3. Control
  BY DEF Init, Control, HandlerRight, RowRight, Untouched, over, NoBody
<1> QED
  BY <1>2, <1>3

\* Every step of the server, its clients and its faults keeps types and control right.
LEMMA StreamingKeeps ==
  ASSUME Types, Control, Streaming
  PROVE  Types' /\ Control'
<1>1. CASE Tick
  BY <1>1, QuietTypes, RowTypes, EngineControl DEF Tick
<1>2. ASSUME NEW s \in Session, Worker(s) PROVE Types' /\ Control'
  BY <1>2, WorkerTypes, WorkerControl DEF Worker, Works
<1>3. ASSUME NEW s \in Session, Handler(s) PROVE Types' /\ Control'
  BY <1>3, HandlerTypes, HandlerControl
<1>4. ASSUME NEW s \in Session, Drain(s) PROVE Types' /\ Control'
  BY <1>4, DrainTypes, DrainControl
<1>5. CASE Crash \/ Restart
  BY <1>5, CrashTypes, QuietTypes, ProcessControl
<1>6. ASSUME NEW s \in Session, Lose(s) \/ Leave(s) PROVE Types' /\ Control'
  BY <1>6, QuietTypes, ConnControl
<1>7. ASSUME NEW s \in Session, NEW r \in scene[s].asks, Open(s, r) PROVE Types' /\ Control'
  BY <1>7, OpenTypes, OpenControl
<1> QED
  BY <1>1, <1>2, <1>3, <1>4, <1>5, <1>6, <1>7 DEF Streaming, Serve

\* What both say of the properties a run checks.
LEMMA ControlIsSafe ==
  ASSUME Types, Control
  PROVE  DrainedMeansFreed /\ NeverClosedWhileRunning
BY DEF Control, RowRight, DrainedMeansFreed, NeverClosedWhileRunning

-----------------------------------------------------------------------------
(* Each step of the stream is one of the abstract stream, or none *)

Two == [reasoning : Seq(Marks), content : Seq(Marks)]
empty == [reasoning |-> <<>>, content |-> <<>>]
join(t, f) == [reasoning |-> t.reasoning \o f.reasoning, content |-> t.content \o f.content]

\* g sums up the frames fs.
Sums(g, fs) ==
  /\ g[0] = empty
  /\ \A i \in 1 .. Len(fs) : g[i] = join(g[i - 1], fs[i])
  /\ \A i \in 0 .. Len(fs) : g[i] \in Two

\* Two texts put together are texts.
LEMMA JoinOf ==
  ASSUME NEW t \in Two, NEW f, f.reasoning \in Seq(Marks), f.content \in Seq(Marks)
  PROVE  join(t, f) \in Two /\ empty \in Two
<1>1. t.reasoning \o f.reasoning \in Seq(Marks) /\ t.content \o f.content \in Seq(Marks)
      /\ <<>> \in Seq(Marks)
  BY EmptySeq DEF Two
<1> QED
  BY <1>1 DEF Two, join, empty

\* toldIn is the sum of the frames.
LEMMA ToldIs ==
  ASSUME NEW fs \in Seq(Piece)
  PROVE  \E g : Sums(g, fs) /\ toldIn(fs) = g[Len(fs)]
<1> DEFINE N == Len(fs)
           G == [p \in (1 .. N) \X Two |-> join(p[2], fs[p[1]])]
           Def(g) == g = [i \in 0 .. N |-> IF i = 0 THEN empty ELSE join(g[i - 1], fs[i])]
           upTo == CHOOSE g : Def(g)
<1>1. N \in Nat
  OBVIOUS
<1>2. ASSUME NEW i \in 1 .. N, NEW t \in Two PROVE G[<<i, t>>] = join(t, fs[i]) /\ join(t, fs[i]) \in Two
  <2>1. fs[i] \in Piece
    BY ElementOfSeq
  <2>2. fs[i].reasoning \in Seq(Marks) /\ fs[i].content \in Seq(Marks)
    BY <2>1 DEF Piece
  <2>3. join(t, fs[i]) \in Two
    BY <2>2, JoinOf
  <2> QED
    BY <2>3
<1>3. StepsOn(N, Two, G)
  <2> HIDE DEF G
  <2> QED
    BY <1>2 DEF StepsOn
<1>4. PICK f : StepsFrom(f, N, Two, empty, G)
  <2>1. empty \in Two
    BY EmptySeq DEF empty, Two
  <2> HIDE DEF G, N
  <2> QED
    BY <1>1, <1>3, <2>1, Recursion
<1>5. /\ f \in [0 .. N -> Two] /\ f[0] = empty
      /\ \A i \in 1 .. N : f[i - 1] \in Two /\ f[i] = join(f[i - 1], fs[i])
  <2> HIDE DEF G, N
  <2>1. f \in [0 .. N -> Two] /\ f[0] = empty /\ \A i \in 1 .. N : f[i] = G[<<i, f[i - 1]>>]
    BY <1>4 DEF StepsFrom
  <2>2. ASSUME NEW i \in 1 .. N PROVE f[i - 1] \in Two /\ f[i] = join(f[i - 1], fs[i])
    <3>1. i - 1 \in 0 .. N
      BY <1>1
    <3> QED
      BY <1>2, <2>1, <3>1
  <2> QED
    BY <2>1, <2>2
<1>6. Def(f)
  <2> HIDE DEF N
  <2> QED
    BY <1>1, <1>5
<1>7. Def(upTo)
  <2> HIDE DEF Def
  <2> QED
    BY <1>6
<1>8. Sums(upTo, fs)
  <2>1. upTo[0] = empty /\ \A i \in 1 .. N : upTo[i] = join(upTo[i - 1], fs[i])
    <3> HIDE DEF upTo
    <3>1. upTo[0] = empty
      BY <1>1, <1>7
    <3>2. ASSUME NEW i \in 1 .. N PROVE upTo[i] = join(upTo[i - 1], fs[i])
      BY <1>1, <1>7
    <3> QED
      BY <3>1, <3>2
  <2> HIDE DEF upTo
  <2> DEFINE T == {n \in Nat : n <= N => upTo[n] = f[n]}
  <2>2. 0 \in T
    BY <1>5, <2>1
  <2>3. ASSUME NEW n \in T PROVE n + 1 \in T
    <3>1. CASE n + 1 <= N
      <4>1. n + 1 \in 1 .. N /\ (n + 1) - 1 = n /\ upTo[n] = f[n]
        BY <1>1, <3>1
      <4> HIDE DEF N
      <4>2. upTo[n + 1] = f[n + 1]
        BY <1>5, <2>1, <4>1
      <4> QED
        BY <4>2
    <3> QED
      BY <3>1
  <2>4. T = Nat
    <3>1. T \in SUBSET Nat
      OBVIOUS
    <3> HIDE DEF T
    <3> QED
      BY <2>2, <2>3, <3>1, AllOf
  <2>5. ASSUME NEW i \in 0 .. N PROVE upTo[i] \in Two
    <3>1. i \in T /\ i <= N
      BY <1>1, <2>4
    <3> HIDE DEF N
    <3> QED
      BY <1>5, <3>1
  <2> QED
    BY <2>1, <2>5 DEF Sums
<1>9. toldIn(fs) = upTo[N]
  BY DEF toldIn, join, empty
<1> QED
  <2> HIDE DEF upTo
  <2> QED
    BY <1>8, <1>9

\* Two functions that sum up the same frames, or one more, agree.
LEMMA SumsAgree ==
  ASSUME NEW fs \in Seq(Piece), NEW gs \in Seq(Piece), Len(fs) <= Len(gs),
         \A i \in 1 .. Len(fs) : gs[i] = fs[i], NEW f, NEW g, Sums(f, fs), Sums(g, gs)
  PROVE  g[Len(fs)] = f[Len(fs)]
<1> DEFINE N == Len(fs)
           T == {n \in Nat : n <= N => g[n] = f[n]}
<1>1. N \in Nat
  OBVIOUS
<1>2. 0 \in T
  BY DEF Sums
<1>3. ASSUME NEW n \in T PROVE n + 1 \in T
  <2>1. CASE n + 1 <= N
    <3>1. n + 1 \in 1 .. Len(fs) /\ n + 1 \in 1 .. Len(gs) /\ (n + 1) - 1 = n /\ g[n] = f[n]
      BY <1>1, <2>1
    <3>2. g[n + 1] = f[n + 1]
      BY <3>1 DEF Sums
    <3> QED
      BY <3>2
  <2> QED
    BY <2>1
<1>4. T = Nat
  <2>1. T \in SUBSET Nat
    OBVIOUS
  <2> HIDE DEF T
  <2> QED
    BY <1>2, <1>3, <2>1, AllOf
<1> QED
  BY <1>1, <1>4

\* Nothing tells nothing; a frame more tells what it carries more.
LEMMA ToldAppend ==
  /\ toldIn(<<>>) = empty
  /\ \A fs \in Seq(Piece), f \in Piece : toldIn(Append(fs, f)) = join(toldIn(fs), f)
  /\ \A fs \in Seq(Piece) : toldIn(fs) \in Two
<1>1. <<>> \in Seq(Piece) /\ Len(<<>>) = 0
  BY EmptySeq
<1>2. toldIn(<<>>) = empty
  <2>1. PICK g : Sums(g, <<>>) /\ toldIn(<<>>) = g[Len(<<>>)]
    BY <1>1, ToldIs
  <2> QED
    BY <1>1, <2>1 DEF Sums
<1>3. ASSUME NEW fs \in Seq(Piece) PROVE toldIn(fs) \in Two
  <2>1. PICK g : Sums(g, fs) /\ toldIn(fs) = g[Len(fs)]
    BY ToldIs
  <2>2. Len(fs) \in 0 .. Len(fs)
    OBVIOUS
  <2> QED
    BY <2>1, <2>2 DEF Sums
<1>4. ASSUME NEW fs \in Seq(Piece), NEW p \in Piece
      PROVE  toldIn(Append(fs, p)) = join(toldIn(fs), p)
  <2> DEFINE gs == Append(fs, p)
  <2>1. /\ gs \in Seq(Piece) /\ Len(gs) = Len(fs) + 1 /\ gs[Len(fs) + 1] = p
        /\ \A i \in 1 .. Len(fs) : gs[i] = fs[i]
    BY AppendProperties
  <2>2. Len(fs) \in Nat
    OBVIOUS
  <2> HIDE DEF gs
  <2>3. PICK f : Sums(f, fs) /\ toldIn(fs) = f[Len(fs)]
    BY ToldIs
  <2>4. PICK g : Sums(g, gs) /\ toldIn(gs) = g[Len(gs)]
    BY <2>1, ToldIs
  <2>5. g[Len(fs)] = f[Len(fs)]
    BY <2>1, <2>2, <2>3, <2>4, SumsAgree
  <2>6. Len(gs) \in 1 .. Len(gs) /\ Len(gs) - 1 = Len(fs)
    BY <2>1, <2>2
  <2>7. g[Len(gs)] = join(g[Len(gs) - 1], gs[Len(gs)])
    BY <2>4, <2>6 DEF Sums
  <2>8. toldIn(gs) = join(toldIn(fs), p)
    BY <2>1, <2>3, <2>4, <2>5, <2>6, <2>7
  <2> QED
    BY <2>8 DEF gs
<1> QED
  BY <1>2, <1>3, <1>4

-----------------------------------------------------------------------------
(* Beginnings of texts *)

\* Being a beginning of a text is an order, which what follows and cuts respect.
LEMMA StartsOf ==
  ASSUME NEW t \in Seq(Marks), NEW u \in Seq(Marks), NEW v \in Seq(Marks)
  PROVE  /\ Promise!starts(t, t) /\ Promise!starts(<<>>, t) /\ Promise!starts(t, t \o u)
         /\ Promise!starts(t, u) /\ Promise!starts(u, v) => Promise!starts(t, v)
<1>1. Promise!starts(t, t \o u)
  BY ConcatProperties DEF Promise!starts
<1>2. Promise!starts(t, t)
  BY LenProperties DEF Promise!starts
<1>3. Promise!starts(<<>>, t)
  <2>1. Len(<<>>) = 0 /\ Len(t) \in Nat
    BY LenProperties
  <2> QED
    BY <2>1 DEF Promise!starts
<1>4. ASSUME Promise!starts(t, u), Promise!starts(u, v) PROVE Promise!starts(t, v)
  <2>1. /\ Len(t) \in Nat /\ Len(u) \in Nat /\ Len(v) \in Nat /\ Len(t) <= Len(u) /\ Len(u) <= Len(v)
        /\ \A i \in 1 .. Len(t) : t[i] = u[i]
        /\ \A i \in 1 .. Len(u) : u[i] = v[i]
    BY <1>4, LenProperties DEF Promise!starts
  <2>2. ASSUME NEW i \in 1 .. Len(t) PROVE t[i] = v[i]
    BY <2>1
  <2>3. Len(t) <= Len(v)
    BY <2>1
  <2> QED
    BY <2>2, <2>3 DEF Promise!starts
<1> QED
  BY <1>1, <1>2, <1>3, <1>4

\* A piece that comes adds to what is told.
LEMMA JoinWithin ==
  ASSUME NEW d \in Two, NEW p \in Piece
  PROVE  Promise!Within(d, join(d, p))
<1>1. /\ d.reasoning \in Seq(Marks) /\ d.content \in Seq(Marks)
      /\ p.reasoning \in Seq(Marks) /\ p.content \in Seq(Marks)
  BY DEF Two, Piece
<1>2. join(d, p).reasoning = d.reasoning \o p.reasoning /\ join(d, p).content = d.content \o p.content
  BY DEF join
<1>3. Promise!starts(d.reasoning, d.reasoning \o p.reasoning)
  BY <1>1, StartsOf
<1>4. Promise!starts(d.content, d.content \o p.content)
  BY <1>1, StartsOf
<1> QED
  BY <1>2, <1>3, <1>4 DEF Promise!Within

\* What is shown of a text, after what has been cut off it, is the text up to there.
LEMMA CutOn ==
  ASSUME NEW d \in Seq(Marks), NEW t \in Seq(Marks), Promise!starts(t, d), NEW n \in Nat, n <= Len(d)
  PROVE  /\ SubSeq(d, 1, n) \o from(t, n + 1) = SubSeq(d, 1, max(Len(t), n))
         /\ max(Len(t), n) \in Nat /\ max(Len(t), n) <= Len(d)
         /\ Promise!starts(SubSeq(d, 1, n), d) /\ SubSeq(d, 1, n) \in Seq(Marks)
<1>1. Len(d) \in Nat /\ Len(t) \in Nat /\ Len(t) <= Len(d)
  BY LenProperties DEF Promise!starts
<1>2. max(Len(t), n) \in Nat /\ max(Len(t), n) <= Len(d)
  BY <1>1 DEF max
<1>3. SubSeq(d, 1, n) \in Seq(Marks) /\ Promise!starts(SubSeq(d, 1, n), d)
  BY <1>1, SubSeqProperties DEF Promise!starts
<1>4. CASE Len(t) > n
  <2>1. from(t, n + 1) = SubSeq(d, n + 1, Len(t))
    <3>1. SubSeq(t, n + 1, Len(t)) \in Seq(Marks) /\ Len(SubSeq(t, n + 1, Len(t))) = Len(t) - n
          /\ \A i \in 1 .. Len(t) - n : SubSeq(t, n + 1, Len(t))[i] = t[n + i]
      BY <1>1, <1>4, SubSeqProperties
    <3>2. SubSeq(d, n + 1, Len(t)) \in Seq(Marks) /\ Len(SubSeq(d, n + 1, Len(t))) = Len(t) - n
          /\ \A i \in 1 .. Len(t) - n : SubSeq(d, n + 1, Len(t))[i] = d[n + i]
      BY <1>1, <1>4, SubSeqProperties
    <3>3. \A i \in 1 .. Len(t) - n : t[n + i] = d[n + i]
      BY <1>1 DEF Promise!starts
    <3> QED
      BY <3>1, <3>2, <3>3, SeqEqual DEF from
  <2>2. SubSeq(d, 1, n) \o SubSeq(d, n + 1, Len(t)) = SubSeq(d, 1, Len(t))
    <3>1. 1 \in 1 .. Len(d) + 1 /\ n \in 1 - 1 .. Len(d) /\ Len(t) \in n .. Len(d)
      BY <1>1, <1>4
    <3> QED
      BY <3>1, ConcatAdjacentSubSeq
  <2>3. max(Len(t), n) = Len(t)
    BY <1>4 DEF max
  <2> QED
    BY <1>2, <1>3, <2>1, <2>2, <2>3
<1>5. CASE ~(Len(t) > n)
  <2>1. from(t, n + 1) = <<>>
    BY <1>1, <1>5, SubSeqEmpty DEF from
  <2>2. max(Len(t), n) = n
    BY <1>5 DEF max
  <2> QED
    BY <1>2, <1>3, <2>1, <2>2, ConcatEmptySeq
<1> QED
  BY <1>4, <1>5

\* All of a text is what was cut off it and the rest.
LEMMA CutWhole ==
  ASSUME NEW d \in Seq(Marks), NEW n \in Nat, n <= Len(d)
  PROVE  SubSeq(d, 1, n) \o from(d, n + 1) = d
<1>1. Promise!starts(d, d)
  BY DEF Promise!starts
<1>2. max(Len(d), n) = Len(d)
  BY LenProperties DEF max
<1>3. SubSeq(d, 1, n) \o from(d, n + 1) = SubSeq(d, 1, max(Len(d), n))
  BY <1>1, CutOn
<1> QED
  BY <1>2, <1>3, SubSeqFull

\* What some frames tell is a beginning of what they tell with more frames.
LEMMA ToldPrefix ==
  ASSUME NEW fs \in Seq(Piece), NEW gs \in Seq(Piece), Len(fs) <= Len(gs),
         \A i \in 1 .. Len(fs) : gs[i] = fs[i]
  PROVE  Promise!Within(toldIn(fs), toldIn(gs))
<1>1. PICK f : Sums(f, fs) /\ toldIn(fs) = f[Len(fs)]
  BY ToldIs
<1>2. PICK g : Sums(g, gs) /\ toldIn(gs) = g[Len(gs)]
  BY ToldIs
<1>3. toldIn(fs) = g[Len(fs)]
  BY <1>1, <1>2, SumsAgree
<1> DEFINE N == Len(fs)
           T == {k \in Nat : N + k <= Len(gs) => Promise!Within(g[N], g[N + k])}
<1>4. N \in Nat /\ Len(gs) \in Nat
  BY LenProperties
<1>5. 0 \in T
  <2>1. g[N] \in Two
    BY <1>2, <1>4 DEF Sums
  <2>2. Promise!Within(g[N], g[N])
    BY <2>1, StartsOf DEF Two, Promise!Within
  <2> QED
    BY <1>4, <2>2
<1>6. ASSUME NEW k \in T PROVE k + 1 \in T
  <2> HIDE DEF N
  <2>1. CASE N + (k + 1) <= Len(gs)
    <3>1. N + (k + 1) \in 1 .. Len(gs) /\ (N + (k + 1)) - 1 = N + k /\ N + k <= Len(gs)
          /\ N + k \in 0 .. Len(gs) /\ N \in 0 .. Len(gs)
      BY <1>4, <2>1
    <3>2. g[N + (k + 1)] = join(g[N + k], gs[N + (k + 1)]) /\ g[N + k] \in Two /\ g[N] \in Two
          /\ g[N + (k + 1)] \in Two
      BY <1>2, <3>1 DEF Sums
    <3>3. gs[N + (k + 1)] \in Piece
      BY <3>1, ElementOfSeq
    <3>4. Promise!Within(g[N + k], g[N + (k + 1)])
      BY <3>2, <3>3, JoinWithin
    <3>5. Promise!Within(g[N], g[N + k])
      BY <3>1
    <3>6. Promise!Within(g[N], g[N + (k + 1)])
      BY <3>2, <3>4, <3>5, StartsOf DEF Two, Promise!Within
    <3> QED
      BY <3>6
  <2> QED
    BY <2>1
<1>7. T = Nat
  <2>1. T \in SUBSET Nat
    OBVIOUS
  <2> HIDE DEF T
  <2> QED
    BY <1>5, <1>6, <2>1, AllOf
<1>8. ASSUME NEW k \in Nat, N + k <= Len(gs) PROVE Promise!Within(g[N], g[N + k])
  <2>1. k \in T
    BY <1>7
  <2> QED
    BY <1>8, <2>1
<1> HIDE DEF N, T
<1>9. PICK k \in Nat : N + k = Len(gs)
  <2>1. Len(gs) - N \in Nat /\ N + (Len(gs) - N) = Len(gs)
    BY <1>4 DEF N
  <2> QED
    BY <2>1
<1>10. Promise!Within(g[N], g[Len(gs)])
  <2>1. N + k <= Len(gs)
    BY <1>4, <1>9
  <2> QED
    BY <1>8, <1>9, <2>1
<1> QED
  BY <1>2, <1>3, <1>10 DEF N

\* What a piece of news tells: what is left of a text after what was cut off.
LEMMA NewsTold ==
  ASSUME NEW fs \in Seq(Piece), NEW t \in Seq(Marks), NEW n \in Nat
  PROVE  LET told == toldIn(fs)
         IN  /\ fs \o news(t, n, TRUE) \in Seq(Piece) /\ fs \o news(t, n, FALSE) \in Seq(Piece)
             /\ toldIn(fs \o news(t, n, TRUE))
                  = [reasoning |-> told.reasoning \o from(t, n + 1), content |-> told.content]
             /\ toldIn(fs \o news(t, n, FALSE))
                  = [reasoning |-> told.reasoning, content |-> told.content \o from(t, n + 1)]
<1> DEFINE told == toldIn(fs)
<1>1. told \in Two
  BY ToldAppend
<1>2. told.reasoning \o <<>> = told.reasoning /\ told.content \o <<>> = told.content
      /\ told = [reasoning |-> told.reasoning, content |-> told.content]
  <2> HIDE DEF told
  <2> QED
    BY <1>1, ConcatEmptySeq DEF Two
<1>3. from(t, n + 1) \in Seq(Marks) /\ <<>> \in Seq(Marks)
  BY PieceOf, EmptySeq DEF from
<1>4. CASE Len(t) > n
  <2>1. /\ news(t, n, TRUE) = <<delta(from(t, n + 1), <<>>)>>
        /\ news(t, n, FALSE) = <<delta(<<>>, from(t, n + 1))>>
    BY <1>4 DEF news
  <2>2. delta(from(t, n + 1), <<>>) \in Piece /\ delta(<<>>, from(t, n + 1)) \in Piece
    BY <1>3, PiecesOf
  <2>3. /\ fs \o news(t, n, TRUE) = Append(fs, delta(from(t, n + 1), <<>>))
        /\ fs \o news(t, n, FALSE) = Append(fs, delta(<<>>, from(t, n + 1)))
    BY <2>1, <2>2, AppendIsConcat
  <2>6. Append(fs, delta(from(t, n + 1), <<>>)) \in Seq(Piece)
        /\ Append(fs, delta(<<>>, from(t, n + 1))) \in Seq(Piece)
    BY <2>2, AppendProperties
  <2>4. /\ toldIn(fs \o news(t, n, TRUE)) = join(told, delta(from(t, n + 1), <<>>))
        /\ toldIn(fs \o news(t, n, FALSE)) = join(told, delta(<<>>, from(t, n + 1)))
    BY <2>2, <2>3, ToldAppend
  <2> HIDE DEF told
  <2>5. /\ join(told, delta(from(t, n + 1), <<>>))
             = [reasoning |-> told.reasoning \o from(t, n + 1), content |-> told.content]
        /\ join(told, delta(<<>>, from(t, n + 1)))
             = [reasoning |-> told.reasoning, content |-> told.content \o from(t, n + 1)]
    BY <1>2 DEF join, delta
  <2> QED
    BY <2>3, <2>4, <2>5, <2>6 DEF told
<1>5. CASE ~(Len(t) > n)
  <2>1. news(t, n, TRUE) = <<>> /\ news(t, n, FALSE) = <<>>
    BY <1>5 DEF news
  <2>2. from(t, n + 1) = <<>>
    BY <1>5, SubSeqEmpty, LenProperties DEF from
  <2>3. fs \o <<>> = fs
    BY ConcatEmptySeq
  <2> HIDE DEF told
  <2> QED
    BY <1>2, <2>1, <2>2, <2>3 DEF told
<1> QED
  BY <1>4, <1>5

-----------------------------------------------------------------------------
(* The invariant *)

\* The pieces that a client has and those on their way to it, in order: sent, in the
\* hands of the handler, held back by the pacer.
rest(s) == IF task[s] = "yield" THEN Tail(body[s].items) ELSE body[s].items
line(s) == frames[s] \o rest(s) \o body[s].held

cut(d, m, n) == [reasoning |-> SubSeq(d.reasoning, 1, m), content |-> SubSeq(d.content, 1, n)]

\* The pieces fs of generator b for the reply d: they are d up to what b has cut off it;
\* once b said how it ends they are all of d, or end with an error.
OnTheWay(d, b, fs) ==
  /\ b.sentR <= Len(d.reasoning) /\ b.sent <= Len(d.content)
  /\ \A i \in 1 .. Len(fs) : terminal(fs[i]) => i = Len(fs) /\ b.at = "end"
  /\ b.at # "end" => toldIn(fs) = cut(d, b.sentR, b.sent) /\ b.st # "closed"
  /\ b.at = "end" =>
       /\ b.held = <<>> /\ fs # <<>> /\ terminal(fs[Len(fs)])
       /\ IF fs[Len(fs)].t = "error" THEN fs[Len(fs)] = control("error") /\ Promise!Within(toldIn(fs), d)
          ELSE toldIn(fs) = d

\* The plain route sends one frame.
PlainRight(s) ==
  via(s) = "plain" =>
    /\ frames[s] = <<>> /\ body[s].held = <<>> /\ Len(body[s].items) <= 1
    /\ body[s].sentR = 0 /\ body[s].sent = 0

TextRight(s) ==
  /\ conn[s] = "closed" => \E i \in 1 .. Len(frames[s]) : terminal(frames[s][i])
  /\ conn[s] = "open" => OnTheWay(dueTo(s), body[s], line(s)) /\ PlainRight(s)

Texts == \A s \in Session : TextRight(s)

\* What is shown early of a reply is a beginning of what is due, both texts of it.
LEMMA ShownWithin ==
  ASSUME ShownIsDue, NEW r \in Asked, NEW n \in 0 .. Len(r.tokens)
  PROVE  Promise!Within(shown[r][n], [reasoning |-> whole[r].reasoning, content |-> whole[r].content])
<1>1. shown[r][n] = showable(r, n) /\ whole[r] = due(r)
  BY DEF shown, whole
<1> QED
  BY <1>1 DEF ShownIsDue, FirstShown, Promise!Within, Promise!starts

\* A step that leaves the pieces of a client alone, or takes place without it.
LEMMA TextSame ==
  ASSUME NEW t, TextRight(t),
         conn'[t] = "closed" => conn[t] = "closed" /\ frames'[t] = frames[t],
         conn'[t] = "open" => /\ conn[t] = "open" /\ frames'[t] = frames[t] /\ body'[t] = body[t]
                              /\ (task'[t] = "yield" <=> task[t] = "yield")
                              /\ ask'[t] = ask[t] /\ scene' = scene
  PROVE  TextRight(t)'
<1>1. CASE conn'[t] = "open"
  <2>1. line(t)' = line(t) /\ dueTo(t)' = dueTo(t) /\ body'[t] = body[t]
    BY <1>1 DEF line, rest, dueTo
  <2>2. OnTheWay(dueTo(t), body[t], line(t))'
    <3>1. OnTheWay(dueTo(t), body[t], line(t))
      BY <1>1 DEF TextRight
    <3> QED
      BY <2>1, <3>1 DEF OnTheWay
  <2>3. PlainRight(t)'
    BY <1>1 DEF TextRight, PlainRight, via
  <2> QED
    BY <1>1, <2>2, <2>3 DEF TextRight
<1>2. CASE conn'[t] # "open"
  BY <1>2 DEF TextRight
<1> QED
  BY <1>1, <1>2

\* What a session owes is disturbed by steps of that session only.
LEMMA TextsAt ==
  ASSUME Texts, NEW s \in Session, \A t \in Session \ {s} : SameAt(t), TextRight(s)'
  PROVE  Texts'
<1>1. ASSUME NEW t \in Session \ {s} PROVE TextRight(t)'
  <2>1. TextRight(t) /\ SameAt(t)
    BY DEF Texts
  <2> QED
    BY <2>1, TextSame DEF SameAt
<1> QED
  BY <1>1 DEF Texts

\* What is known of the pieces of one request, from Types.
LEMMA LineOf ==
  ASSUME Types, Control, NEW s \in Session
  PROVE  /\ line(s) \in Seq(Piece) /\ rest(s) \in Seq(Piece) /\ dueTo(s) \in Two
         /\ body[s].held \in Seq(Piece) /\ body[s].items \in Seq(Piece) /\ frames[s] \in Seq(Piece)
         /\ body[s].sentR \in Nat /\ body[s].sent \in Nat
<1>1. frames[s] \in Seq(Piece) /\ body[s] \in Generator
  BY DEF Types
<1>2. body[s].held \in Seq(Piece) /\ body[s].items \in Seq(Piece)
      /\ body[s].sentR \in Nat /\ body[s].sent \in Nat
  BY <1>1 DEF Generator
<1>3. rest(s) \in Seq(Piece)
  <2>1. CASE task[s] = "yield"
    <3>1. body[s].items # <<>>
      BY <2>1 DEF Control, HandlerRight
    <3> QED
      BY <1>2, <2>1, <3>1, HeadTailProperties DEF rest
  <2>2. CASE task[s] # "yield"
    BY <1>2, <2>2 DEF rest
  <2> QED
    BY <2>1, <2>2
<1>4. line(s) \in Seq(Piece)
  BY <1>1, <1>2, <1>3, ConcatProperties DEF line
<1>5. dueTo(s) \in Two
  BY OneOf DEF dueTo, Two
<1> QED
  BY <1>1, <1>2, <1>3, <1>4, <1>5

\* A worker that executes a generator for a client that stays has an empty hand.
LEMMA WorkerLine ==
  ASSUME Types, Control, NEW s \in Session, conn[s] = "open", body[s].st = "running"
  PROVE  task[s] = "fetch" /\ body[s].items = <<>> /\ line(s) = frames[s] \o body[s].held
<1>1. task[s] = "fetch" /\ body[s].items = <<>>
  BY DEF Control, HandlerRight, Untouched, NoBody, Types
<1>2. rest(s) = <<>>
  BY <1>1 DEF rest
<1>3. frames[s] \o <<>> = frames[s]
  BY LineOf, ConcatEmptySeq
<1> QED
  BY <1>1, <1>2, <1>3 DEF line

\* Pieces put together in either order.
LEMMA PiecesJoin ==
  ASSUME NEW a \in Seq(Piece), NEW b \in Seq(Piece), NEW c \in Seq(Piece)
  PROVE  (a \o b) \o c = a \o (b \o c)
<1>1. a \o b \in Seq(Piece) /\ b \o c \in Seq(Piece) /\ Len(a \o b) = Len(a) + Len(b)
      /\ Len(b \o c) = Len(b) + Len(c)
  BY ConcatProperties
<1> DEFINE l == (a \o b) \o c
           r == a \o (b \o c)
<1>2. l \in Seq(Piece) /\ r \in Seq(Piece)
  BY <1>1, ConcatProperties
<1>3. Len(l) = Len(r)
  BY <1>1, ConcatProperties
<1>4. ASSUME NEW i \in 1 .. Len(l) PROVE l[i] = r[i]
  OBVIOUS
<1> QED
  BY <1>2, <1>3, <1>4, SeqEqual

\* One line of pieces after another.
follows(a, b) == a \o b

\* Three lines of pieces follow each other in one way only.
LEMMA PiecesFollow ==
  ASSUME NEW a \in Seq(Piece), NEW b \in Seq(Piece), NEW c \in Seq(Piece)
  PROVE  follows(follows(a, b), c) = follows(a, follows(b, c))
BY PiecesJoin DEF follows

\* What it produces joins the line.
LEMMA ProducedLine ==
  ASSUME Types, Control, NEW s \in Session, conn[s] = "open", body[s].st = "running",
         NEW b \in Generator, b.held = body[s].held, NEW new \in Seq(Piece), NEW flush \in BOOLEAN,
         body'[s] = produced(s, b, new, flush), task' = task, frames' = frames
  PROVE  line(s)' = line(s) \o new
<1> DEFINE p == produced(s, b, new, flush)
<1>1. p \in Generator /\ p.items \o p.held = b.held \o new
  <2>1. Leaves(p, s, b, new, flush)
    BY ProducedOf
  <2> HIDE DEF p
  <2> QED
    BY <2>1 DEF Leaves
<1>2. task[s] = "fetch" /\ line(s) = frames[s] \o body[s].held
  BY WorkerLine
<1>3. body'[s] = p
  OBVIOUS
<1> HIDE DEF p
<1>4. line(s)' = (frames[s] \o p.items) \o p.held
  BY <1>2, <1>3 DEF line, rest
<1>5. p.items \in Seq(Piece) /\ p.held \in Seq(Piece) /\ frames[s] \in Seq(Piece)
      /\ body[s].held \in Seq(Piece)
  BY <1>1, LineOf DEF Generator
<1>6. (frames[s] \o p.items) \o p.held = frames[s] \o (p.items \o p.held)
  <2>1. follows(follows(frames[s], p.items), p.held) = follows(frames[s], follows(p.items, p.held))
        /\ follows(follows(frames[s], body[s].held), new) = follows(frames[s], follows(body[s].held, new))
    BY <1>5, PiecesFollow
  <2> QED
    BY <2>1 DEF follows
<1>7. (frames[s] \o body[s].held) \o new = frames[s] \o (body[s].held \o new)
  <2>1. follows(follows(frames[s], p.items), p.held) = follows(frames[s], follows(p.items, p.held))
        /\ follows(follows(frames[s], body[s].held), new) = follows(frames[s], follows(body[s].held, new))
    BY <1>5, PiecesFollow
  <2> QED
    BY <2>1 DEF follows
<1> QED
  BY <1>1, <1>2, <1>4, <1>6, <1>7

\* No end is among some pieces.
calm(fs) == \A i \in 1 .. Len(fs) : ~terminal(fs[i])

\* Pieces of a text and calls end nothing.
LEMMA CalmOf ==
  ASSUME NEW fs \in Seq(Piece)
  PROVE  /\ \A gs \in Seq(Piece) : calm(fs) /\ calm(gs) => calm(fs \o gs)
         /\ calm(<<>>) /\ calm(<<control("tool_calls")>>)
         /\ \A t, n, r : calm(news(t, n, r))
<1>1. ASSUME NEW gs \in Seq(Piece), calm(fs), calm(gs) PROVE calm(fs \o gs)
  <2>1. /\ Len(fs \o gs) = Len(fs) + Len(gs) /\ Len(fs) \in Nat /\ Len(gs) \in Nat
        /\ \A i \in 1 .. Len(fs) + Len(gs) : (fs \o gs)[i] = IF i <= Len(fs) THEN fs[i] ELSE gs[i - Len(fs)]
    BY ConcatProperties, LenProperties
  <2>2. ASSUME NEW i \in 1 .. Len(fs) + Len(gs) PROVE ~terminal((fs \o gs)[i])
    <3>1. CASE i <= Len(fs)
      BY <1>1, <2>1, <3>1 DEF calm
    <3>2. CASE ~(i <= Len(fs))
      <4>1. i - Len(fs) \in 1 .. Len(gs) /\ (fs \o gs)[i] = gs[i - Len(fs)]
        BY <2>1, <3>2
      <4> QED
        BY <1>1, <4>1 DEF calm
    <3> QED
      BY <3>1, <3>2
  <2> QED
    BY <2>1, <2>2 DEF calm
<1>2. calm(<<>>) /\ calm(<<control("tool_calls")>>)
  BY DEF calm, control, terminal
<1>3. ASSUME NEW t, NEW n, NEW r PROVE calm(news(t, n, r))
  BY DEF calm, news, delta, terminal
<1> QED
  BY <1>1, <1>2, <1>3

\* An end after them is the only one.
LEMMA EndOf ==
  ASSUME NEW fs \in Seq(Piece), calm(fs), NEW f \in Piece
  PROVE  LET gs == Append(fs, f)
         IN  /\ gs \in Seq(Piece) /\ gs = fs \o <<f>> /\ gs # <<>> /\ gs[Len(gs)] = f
             /\ \A i \in 1 .. Len(gs) : terminal(gs[i]) => i = Len(gs)
<1> DEFINE gs == Append(fs, f)
<1>1. /\ gs \in Seq(Piece) /\ gs # <<>> /\ Len(gs) = Len(fs) + 1 /\ gs[Len(fs) + 1] = f
      /\ \A i \in 1 .. Len(fs) : gs[i] = fs[i]
  BY AppendProperties
<1>2. gs = fs \o <<f>>
  BY AppendIsConcat
<1>3. Len(fs) \in Nat
  BY LenProperties
<1> HIDE DEF gs
<1>4. ASSUME NEW i \in 1 .. Len(gs), terminal(gs[i]) PROVE i = Len(gs)
  <2>1. i \in 1 .. Len(fs) \/ i = Len(fs) + 1
    BY <1>1, <1>3
  <2> QED
    BY <1>1, <1>4, <2>1 DEF calm
<1>5. gs[Len(gs)] = f
  BY <1>1
<1> QED
  BY <1>1, <1>2, <1>4, <1>5 DEF gs

\* The news of two texts, and what is left of them with the end.
newsOfBoth(t, m, n) == news(t.reasoning, m, TRUE) \o news(t.content, n, FALSE)
ending(d, m, n, calls) == newsOfBoth(d, m, n) \o calls \o <<control("done")>>

\* What a line tells after the news of two texts, of which it had told the beginnings.
LEMMA LineNews ==
  ASSUME NEW fs \in Seq(Piece), NEW d \in Two, NEW m \in Nat, NEW n \in Nat,
         m <= Len(d.reasoning), n <= Len(d.content), toldIn(fs) = cut(d, m, n), calm(fs),
         NEW t \in Two, Promise!Within(t, d)
  PROVE  LET gs == fs \o newsOfBoth(t, m, n)
             to == max(Len(t.reasoning), m)
             upTo == max(Len(t.content), n)
         IN  /\ gs \in Seq(Piece) /\ calm(gs) /\ toldIn(gs) = cut(d, to, upTo)
             /\ to \in Nat /\ upTo \in Nat /\ to <= Len(d.reasoning) /\ upTo <= Len(d.content)
<1> DEFINE n1 == news(t.reasoning, m, TRUE)
           n2 == news(t.content, n, FALSE)
<1>1. /\ d.reasoning \in Seq(Marks) /\ d.content \in Seq(Marks)
      /\ t.reasoning \in Seq(Marks) /\ t.content \in Seq(Marks)
      /\ Promise!starts(t.reasoning, d.reasoning) /\ Promise!starts(t.content, d.content)
  BY DEF Two, Promise!Within
<1>2. n1 \in Seq(Piece) /\ n2 \in Seq(Piece) /\ fs \o n1 \in Seq(Piece)
  BY <1>1, NewsOf, NewsTold
<1>3. fs \o (n1 \o n2) = (fs \o n1) \o n2
  <2> HIDE DEF n1, n2
  <2> QED
    BY <1>2, PiecesJoin
<1>4. toldIn(fs \o n1) = [reasoning |-> toldIn(fs).reasoning \o from(t.reasoning, m + 1),
                          content |-> toldIn(fs).content]
  BY <1>1, NewsTold
<1>5. toldIn((fs \o n1) \o n2) = [reasoning |-> toldIn(fs \o n1).reasoning,
                                  content |-> toldIn(fs \o n1).content \o from(t.content, n + 1)]
      /\ (fs \o n1) \o n2 \in Seq(Piece)
  <2> HIDE DEF n1
  <2> QED
    BY <1>1, <1>2, NewsTold
<1>6. calm((fs \o n1) \o n2)
  <2>1. calm(n1) /\ calm(n2)
    BY CalmOf
  <2> HIDE DEF n1, n2
  <2>2. calm(fs \o n1)
    BY <1>2, <2>1, CalmOf
  <2> QED
    BY <1>2, <2>1, <2>2, CalmOf
<1>7. SubSeq(d.reasoning, 1, m) \o from(t.reasoning, m + 1) = SubSeq(d.reasoning, 1, max(Len(t.reasoning), m))
      /\ max(Len(t.reasoning), m) \in Nat /\ max(Len(t.reasoning), m) <= Len(d.reasoning)
  BY <1>1, CutOn
<1>8. SubSeq(d.content, 1, n) \o from(t.content, n + 1) = SubSeq(d.content, 1, max(Len(t.content), n))
      /\ max(Len(t.content), n) \in Nat /\ max(Len(t.content), n) <= Len(d.content)
  BY <1>1, CutOn
<1>9. toldIn((fs \o n1) \o n2) = cut(d, max(Len(t.reasoning), m), max(Len(t.content), n))
  <2> HIDE DEF n1, n2
  <2>1. toldIn(fs).reasoning = SubSeq(d.reasoning, 1, m) /\ toldIn(fs).content = SubSeq(d.content, 1, n)
    BY DEF cut
  <2>2. toldIn(fs \o n1).reasoning = SubSeq(d.reasoning, 1, max(Len(t.reasoning), m))
        /\ toldIn(fs \o n1).content = SubSeq(d.content, 1, n)
    BY <1>4, <1>7, <2>1
  <2>3. toldIn((fs \o n1) \o n2) = [reasoning |-> SubSeq(d.reasoning, 1, max(Len(t.reasoning), m)),
                                    content |-> SubSeq(d.content, 1, n) \o from(t.content, n + 1)]
    BY <1>5, <2>2
  <2> QED
    BY <1>8, <2>3 DEF cut
<1> QED
  <2> HIDE DEF n1, n2
  <2>1. LET gs == fs \o (n1 \o n2)
        IN  gs \in Seq(Piece) /\ calm(gs) /\ toldIn(gs) = cut(d, max(Len(t.reasoning), m), max(Len(t.content), n))
    BY <1>3, <1>5, <1>6, <1>9
  <2> QED
    BY <1>7, <1>8, <2>1 DEF n1, n2, newsOfBoth

\* A beginning of both texts of a reply is within it.
LEMMA CutWithin ==
  ASSUME NEW d \in Two, NEW m \in Nat, NEW n \in Nat, m <= Len(d.reasoning), n <= Len(d.content)
  PROVE  Promise!Within(cut(d, m, n), d) /\ Promise!Within(d, d)
<1>1. d.reasoning \in Seq(Marks) /\ d.content \in Seq(Marks)
  BY DEF Two
<1>2. Promise!starts(SubSeq(d.reasoning, 1, m), d.reasoning) /\ Promise!starts(SubSeq(d.content, 1, n), d.content)
  <2>1. Promise!starts(d.reasoning, d.reasoning) /\ Promise!starts(d.content, d.content)
    BY DEF Promise!starts
  <2> QED
    BY <1>1, <2>1, CutOn
<1> QED
  BY <1>2 DEF cut, Promise!Within, Promise!starts

\* A frame without a text tells nothing.
LEMMA ControlTellsNothing ==
  ASSUME NEW fs \in Seq(Piece), NEW k \in {"tool_calls", "done", "error"}
  PROVE  control(k) \in Piece /\ toldIn(Append(fs, control(k))) = toldIn(fs)
<1>1. control(k) \in Piece
  BY EmptySeq, PiecesOf
<1>2. toldIn(Append(fs, control(k))) = join(toldIn(fs), control(k)) /\ toldIn(fs) \in Two
  BY <1>1, ToldAppend
<1>3. ASSUME NEW t \in Two PROVE join(t, control(k)) = t
  <2>1. t.reasoning \o <<>> = t.reasoning /\ t.content \o <<>> = t.content
    BY ConcatEmptySeq DEF Two
  <2> QED
    BY <2>1 DEF join, control, Two
<1> QED
  BY <1>1, <1>2, <1>3

EndsWith(gs, f) ==
  /\ gs \in Seq(Piece) /\ gs # <<>> /\ gs[Len(gs)] = f
  /\ \A i \in 1 .. Len(gs) : terminal(gs[i]) => i = Len(gs)

\* What a line tells when the rest of the reply and the end have joined it: all.
LEMMA LineEnd ==
  ASSUME NEW fs \in Seq(Piece), NEW d \in Two, NEW m \in Nat, NEW n \in Nat,
         m <= Len(d.reasoning), n <= Len(d.content), toldIn(fs) = cut(d, m, n), calm(fs),
         NEW calls \in {<<>>, <<control("tool_calls")>>}
  PROVE  LET gs == fs \o ending(d, m, n, calls)
         IN  EndsWith(gs, control("done")) /\ toldIn(gs) = d
<1> DEFINE both == newsOfBoth(d, m, n)
           gs1 == fs \o both
           gs2 == gs1 \o calls
           gs3 == Append(gs2, control("done"))
           ends == <<control("done")>>
<1>1. d.reasoning \in Seq(Marks) /\ d.content \in Seq(Marks)
      /\ d = [reasoning |-> d.reasoning, content |-> d.content]
  BY DEF Two
<1>2. gs1 \in Seq(Piece) /\ calm(gs1)
      /\ toldIn(gs1) = cut(d, max(Len(d.reasoning), m), max(Len(d.content), n))
  <2>1. Promise!Within(d, d)
    BY CutWithin
  <2> QED
    BY <2>1, LineNews
<1>3. cut(d, max(Len(d.reasoning), m), max(Len(d.content), n)) = d
  <2>1. max(Len(d.reasoning), m) = Len(d.reasoning) /\ max(Len(d.content), n) = Len(d.content)
    BY <1>1, LenProperties DEF max
  <2>2. SubSeq(d.reasoning, 1, Len(d.reasoning)) = d.reasoning /\ SubSeq(d.content, 1, Len(d.content)) = d.content
    BY <1>1, SubSeqFull
  <2> QED
    BY <1>1, <2>1, <2>2 DEF cut
<1>4. control("tool_calls") \in Piece /\ control("done") \in Piece
  BY EmptySeq, ControlTellsNothing
<1>5. gs2 \in Seq(Piece) /\ calm(gs2) /\ toldIn(gs2) = d /\ calls \in Seq(Piece)
  <2> HIDE DEF gs1
  <2>1. CASE calls = <<>>
    BY <1>2, <1>3, <2>1, ConcatEmptySeq, EmptySeq
  <2>2. CASE calls = <<control("tool_calls")>>
    <3>1. gs2 = Append(gs1, control("tool_calls"))
      BY <1>2, <1>4, <2>2, AppendIsConcat
    <3>2. calls \in Seq(Piece)
      BY <1>4, <2>2
    <3>3. calm(calls)
      BY <1>2, <2>2, CalmOf
    <3>4. calm(gs2)
      BY <1>2, <3>2, <3>3, CalmOf
    <3>5. toldIn(gs2) = d
      BY <1>2, <1>3, <3>1, ControlTellsNothing
    <3> QED
      BY <1>2, <1>4, <3>1, <3>2, <3>4, <3>5, AppendProperties
  <2> QED
    BY <2>1, <2>2
<1>6. /\ gs3 \in Seq(Piece) /\ gs3 = gs2 \o ends /\ gs3 # <<>> /\ gs3[Len(gs3)] = control("done")
      /\ toldIn(gs3) = d /\ \A i \in 1 .. Len(gs3) : terminal(gs3[i]) => i = Len(gs3)
  <2> HIDE DEF gs2
  <2>1. toldIn(gs3) = d
    BY <1>5, ControlTellsNothing
  <2> QED
    BY <1>4, <1>5, <2>1, EndOf
<1>7. gs3 = fs \o (both \o calls \o ends)
  <2>1. both \in Seq(Piece) /\ ends \in Seq(Piece)
    <3> DEFINE n1 == news(d.reasoning, m, TRUE)
               n2 == news(d.content, n, FALSE)
    <3>1. n1 \in Seq(Piece) /\ n2 \in Seq(Piece)
      BY <1>1, NewsOf
    <3>2. both = n1 \o n2
      BY DEF newsOfBoth
    <3> HIDE DEF n1, n2
    <3> QED
      BY <1>4, <3>1, <3>2, ConcatProperties
  <2>2. gs2 = (fs \o both) \o calls
    OBVIOUS
  <2> HIDE DEF both, ends
  <2>3. (fs \o both) \o calls = fs \o (both \o calls) /\ both \o calls \in Seq(Piece)
    BY <1>5, <2>1, PiecesJoin, ConcatProperties
  <2>4. (fs \o (both \o calls)) \o ends = fs \o ((both \o calls) \o ends)
    BY <2>1, <2>3, PiecesJoin
  <2> HIDE DEF gs2, gs3
  <2> QED
    BY <1>6, <2>2, <2>3, <2>4
<1> HIDE DEF gs3
<1>8. fs \o ending(d, m, n, calls) = gs3
  BY <1>7 DEF ending
<1> QED
  BY <1>6, <1>8 DEF EndsWith

-----------------------------------------------------------------------------
(* The worker *)

\* While a generator has not said how it ends, its client's line is the reply so far.
LEMMA SoFar ==
  ASSUME Types, Control, Texts, NEW s \in Session, conn[s] = "open", body[s].at # "end"
  PROVE  /\ body[s].sentR <= Len(dueTo(s).reasoning) /\ body[s].sent <= Len(dueTo(s).content)
         /\ toldIn(line(s)) = cut(dueTo(s), body[s].sentR, body[s].sent) /\ calm(line(s))
         /\ body[s].st # "closed" /\ PlainRight(s)
<1>1. TextRight(s)
  BY DEF Texts
<1> QED
  BY <1>1 DEF TextRight, OnTheWay, calm

\* A pass of the loop that finds tokens.
LEMMA PollTexts ==
  ASSUME Types, Control, Texts, ShownIsDue, NEW s \in Session, Poll(s), queued(s), conn[s] = "open"
  PROVE  OnTheWay(dueTo(s), body'[s], line(s)')
<1> DEFINE b == pollBody(s)
           new == pollNew(s)
           p == produced(s, b, new, FALSE)
           now == shown[ask[s]][out[s]]
           t == [reasoning |-> now.reasoning, content |-> now.content]
           d == dueTo(s)
<1>1. body[s].st = "running" /\ body[s].at = "poll" /\ UNCHANGED <<task, frames>>
  BY DEF Poll, working
<1>2. body'[s] = p
  BY PollIs DEF Types
<1>3. b \in Generator /\ new \in Seq(Piece) /\ b.at = "poll" /\ b.held = body[s].held
      /\ b.sentR = max(Len(now.reasoning), body[s].sentR) /\ b.sent = max(Len(now.content), body[s].sent)
  <2>1. b \in Generator /\ new \in Seq(Piece) /\ body[s] \in Generator
    BY PollOf DEF Types
  <2>2. b = [body[s] EXCEPT !.seen = out[s], !.sentR = max(Len(now.reasoning), body[s].sentR),
                            !.sent = max(Len(now.content), body[s].sent)]
    BY DEF pollBody
  <2>3. b.at = body[s].at /\ b.held = body[s].held
        /\ b.sentR = max(Len(now.reasoning), body[s].sentR) /\ b.sent = max(Len(now.content), body[s].sent)
    BY <2>1, <2>2 DEF Generator
  <2> QED
    BY <1>1, <2>1, <2>3
<1>4. line(s)' = line(s) \o new
  <2> HIDE DEF b, new
  <2> QED
    BY <1>1, <1>2, <1>3, ProducedLine
<1>5. t \in Two /\ Promise!Within(t, d) /\ d \in Two
  <2>1. ask[s] \in Asked /\ out[s] \in 0 .. Len(ask[s].tokens) /\ now.reasoning \in Seq(Marks)
        /\ now.content \in Seq(Marks)
    BY OneOf
  <2>2. Promise!Within(now, d)
    BY <2>1, ShownWithin DEF dueTo
  <2> QED
    BY <2>1, <2>2, LineOf DEF Two, Promise!Within
<1>6. new = news(t.reasoning, body[s].sentR, TRUE) \o news(t.content, body[s].sent, FALSE)
  BY DEF pollNew
<1>7. /\ line(s) \o new \in Seq(Piece) /\ calm(line(s) \o new)
      /\ toldIn(line(s) \o new) = cut(d, b.sentR, b.sent)
      /\ b.sentR <= Len(d.reasoning) /\ b.sent <= Len(d.content)
  <2>1. line(s) \in Seq(Piece) /\ body[s].sentR \in Nat /\ body[s].sent \in Nat
    BY LineOf
  <2>2. body[s].sentR <= Len(d.reasoning) /\ body[s].sent <= Len(d.content)
        /\ toldIn(line(s)) = cut(d, body[s].sentR, body[s].sent) /\ calm(line(s))
    BY <1>1, SoFar
  <2>3. t.reasoning = now.reasoning /\ t.content = now.content
    OBVIOUS
  <2> HIDE DEF d, t, new, b, now
  <2> QED
    <3> DEFINE m == body[s].sentR
               n == body[s].sent
               gs == line(s) \o newsOfBoth(t, m, n)
    <3>1. /\ gs \in Seq(Piece) /\ calm(gs) /\ toldIn(gs) = cut(d, max(Len(t.reasoning), m), max(Len(t.content), n))
          /\ max(Len(t.reasoning), m) <= Len(d.reasoning) /\ max(Len(t.content), n) <= Len(d.content)
      BY <1>5, <2>1, <2>2, LineNews
    <3>2. gs = line(s) \o new
      BY <1>6 DEF newsOfBoth
    <3>3. b.sentR = max(Len(t.reasoning), m) /\ b.sent = max(Len(t.content), n)
      BY <1>3, <2>3
    <3> HIDE DEF gs
    <3> QED
      BY <3>1, <3>2, <3>3
<1>8. p.at = "poll" /\ p.sentR = b.sentR /\ p.sent = b.sent /\ p.st # "closed"
  <2> HIDE DEF b, new
  <2> QED
    BY <1>3, ProducedOf DEF Leaves
<1> HIDE DEF b, new, p, d
<1> QED
  BY <1>2, <1>4, <1>7, <1>8 DEF OnTheWay, calm, d

\* The end of the reply.
LEMMA TailTexts ==
  ASSUME Types, Control, Texts, NEW s \in Session, Tail_(s), conn[s] = "open"
  PROVE  OnTheWay(dueTo(s), body'[s], line(s)')
<1> DEFINE e == [body[s] EXCEPT !.at = "end"]
           new == tailNew(s)
           p == produced(s, e, new, TRUE)
           d == dueTo(s)
           gs == line(s) \o new
<1>1. body[s].st = "running" /\ body[s].at = "tail" /\ UNCHANGED <<task, frames>>
  BY DEF Tail_, working
<1>2. body'[s] = p
  BY TailIs DEF Types
<1>3. e \in Generator /\ new \in Seq(Piece) /\ e.at = "end" /\ e.held = body[s].held
      /\ e.sentR = body[s].sentR /\ e.sent = body[s].sent
  BY AtOf, PollOf
<1>4. line(s)' = line(s) \o new
  <2> HIDE DEF e, new
  <2> QED
    BY <1>1, <1>2, <1>3, ProducedLine
<1>5. /\ line(s) \in Seq(Piece) /\ d \in Two /\ body[s].sentR \in Nat /\ body[s].sent \in Nat
      /\ body[s].sentR <= Len(d.reasoning) /\ body[s].sent <= Len(d.content)
      /\ toldIn(line(s)) = cut(d, body[s].sentR, body[s].sent) /\ calm(line(s)) /\ PlainRight(s)
  BY <1>1, LineOf, SoFar
<1>6. /\ gs # <<>> /\ terminal(gs[Len(gs)]) /\ gs[Len(gs)].t # "error" /\ toldIn(gs) = d
      /\ \A i \in 1 .. Len(gs) : terminal(gs[i]) => i = Len(gs)
  <2>1. CASE via(s) = "plain"
    <3> DEFINE m == [t |-> "message", reasoning |-> d.reasoning, content |-> d.content]
    <3>1. new = <<m>> /\ m \in Piece
      <4>1. new = <<m>>
        BY <2>1 DEF tailNew, dueTo
      <4> QED
        BY <1>5, <4>1, PiecesOf DEF Two
    <3>2. line(s) = <<>>
      <4>1. line(s) = frames[s] \o body[s].held
        BY <1>1, WorkerLine
      <4> QED
        BY <1>5, <2>1, <4>1 DEF PlainRight
    <3>3. gs = Append(<<>>, m)
      BY <3>1, <3>2
    <3>4. toldIn(gs) = join(empty, m)
      BY <3>1, <3>3, ToldAppend, EmptySeq
    <3>5. join(empty, m) = d
      <4>1. d.reasoning \in Seq(Marks) /\ d.content \in Seq(Marks)
            /\ d = [reasoning |-> d.reasoning, content |-> d.content]
        BY <1>5 DEF Two
      <4>2. <<>> \o d.reasoning = d.reasoning /\ <<>> \o d.content = d.content
        BY <4>1, ConcatEmptySeq
      <4> HIDE DEF d
      <4> QED
        BY <4>1, <4>2 DEF join, empty
    <3>6. calm(<<>>) /\ <<>> \in Seq(Piece)
      BY EmptySeq, CalmOf
    <3>7. terminal(m) /\ m.t # "error"
      BY DEF terminal
    <3> HIDE DEF m, gs
    <3> QED
      BY <3>1, <3>3, <3>4, <3>5, <3>6, <3>7, EndOf
  <2>2. CASE via(s) # "plain"
    <3>1. PICK calls \in {<<>>, <<control("tool_calls")>>} :
            new = news(d.reasoning, body[s].sentR, TRUE) \o news(d.content, body[s].sent, FALSE)
                    \o calls \o <<control("done")>>
      BY <2>2 DEF tailNew, dueTo
    <3>2. terminal(control("done")) /\ control("done").t # "error"
      BY DEF terminal, control
    <3> HIDE DEF d, new
    <3>3. gs # <<>> /\ gs[Len(gs)] = control("done") /\ toldIn(gs) = d
          /\ \A i \in 1 .. Len(gs) : terminal(gs[i]) => i = Len(gs)
      <4> DEFINE m == body[s].sentR
                 n == body[s].sent
                 hs == line(s) \o ending(d, m, n, calls)
      <4>1. m \in Nat /\ n \in Nat /\ m <= Len(d.reasoning) /\ n <= Len(d.content)
            /\ toldIn(line(s)) = cut(d, m, n) /\ calm(line(s)) /\ line(s) \in Seq(Piece) /\ d \in Two
        BY <1>5
      <4>2. new = ending(d, m, n, calls)
        BY <3>1 DEF ending, newsOfBoth
      <4> HIDE DEF m, n
      <4>3. EndsWith(hs, control("done")) /\ toldIn(hs) = d
        <5>1. calls \in {<<>>, <<control("tool_calls")>>}
          BY <3>1
        <5> QED
          BY <4>1, <5>1, LineEnd
      <4>4. gs = hs
        BY <4>2
      <4> HIDE DEF gs, hs
      <4> QED
        BY <4>3, <4>4 DEF EndsWith
    <3> HIDE DEF gs
    <3> QED
      BY <3>2, <3>3
  <2> QED
    BY <2>1, <2>2
<1>7. p.at = "end" /\ p.sentR = body[s].sentR /\ p.sent = body[s].sent /\ p.held = <<>>
  <2> HIDE DEF new
  <2> QED
    BY <1>3, EndOfBody
<1> HIDE DEF e, new, p, d, gs
<1>8. line(s)' = gs
  BY <1>4 DEF gs
<1> QED
  BY <1>2, <1>5, <1>6, <1>7, <1>8 DEF OnTheWay, d

\* An error.
LEMMA GiveUpTexts ==
  ASSUME Types, Control, Texts, NEW s \in Session, GiveUp(s), conn[s] = "open"
  PROVE  OnTheWay(dueTo(s), body'[s], line(s)')
<1> DEFINE e == [body[s] EXCEPT !.at = "end"]
           new == <<control("error")>>
           p == produced(s, e, new, TRUE)
           d == dueTo(s)
           gs == Append(line(s), control("error"))
<1>1. body[s].st = "running" /\ body[s].at = "giveup" /\ UNCHANGED <<task, frames>>
  BY DEF GiveUp, working
<1>2. body'[s] = p
  BY DEF GiveUp, Types
<1>3. e \in Generator /\ new \in Seq(Piece) /\ e.at = "end" /\ e.held = body[s].held
      /\ e.sentR = body[s].sentR /\ e.sent = body[s].sent
  BY AtOf, PollOf
<1>4. line(s)' = line(s) \o new
  <2> HIDE DEF e, new
  <2> QED
    BY <1>1, <1>2, <1>3, ProducedLine
<1>5. /\ line(s) \in Seq(Piece) /\ d \in Two /\ body[s].sentR \in Nat /\ body[s].sent \in Nat
      /\ body[s].sentR <= Len(d.reasoning) /\ body[s].sent <= Len(d.content)
      /\ toldIn(line(s)) = cut(d, body[s].sentR, body[s].sent) /\ calm(line(s))
  BY <1>1, LineOf, SoFar
<1>6. toldIn(gs) = cut(d, body[s].sentR, body[s].sent) /\ control("error") \in Piece
  BY <1>5, ControlTellsNothing
<1>7. Promise!Within(toldIn(gs), d)
  <2>1. Promise!Within(cut(d, body[s].sentR, body[s].sent), d)
    BY <1>5, CutWithin
  <2> QED
    BY <1>6, <2>1
<1>8. /\ gs # <<>> /\ gs[Len(gs)] = control("error") /\ gs = line(s) \o new
      /\ \A i \in 1 .. Len(gs) : terminal(gs[i]) => i = Len(gs)
  BY <1>5, <1>6, EndOf
<1>9. p.at = "end" /\ p.sentR = body[s].sentR /\ p.sent = body[s].sent /\ p.held = <<>>
  <2> HIDE DEF new
  <2> QED
    BY <1>3, EndOfBody
<1>10. terminal(control("error")) /\ control("error").t = "error"
  BY DEF terminal, control
<1> HIDE DEF e, p, d, gs, new
<1>11. line(s)' = gs
  BY <1>4, <1>8
<1> QED
  BY <1>2, <1>5, <1>7, <1>8, <1>9, <1>10, <1>11 DEF OnTheWay, d

\* The plain route's generator says one thing, at its end.
LEMMA PlainProduced ==
  ASSUME Types, NEW s \in Session, PlainRight(s), via(s) = "plain", frames' = frames, NEW f \in Piece,
         body'[s] = produced(s, [body[s] EXCEPT !.at = "end"], <<f>>, TRUE)
  PROVE  PlainRight(s)'
<1> DEFINE e == [body[s] EXCEPT !.at = "end"]
           p == produced(s, e, <<f>>, TRUE)
<1>1. e \in Generator /\ e.held = <<>> /\ e.sentR = 0 /\ e.sent = 0
  BY AtOf DEF PlainRight
<1>2. <<f>> \in Seq(Piece)
  OBVIOUS
<1> HIDE DEF e
<1>3. p \in Generator /\ p.items \o p.held = e.held \o <<f>> /\ p.held = <<>> /\ p.sentR = 0 /\ p.sent = 0
  <2>1. Leaves(p, s, e, <<f>>, TRUE)
    BY <1>1, <1>2, ProducedOf
  <2> HIDE DEF p
  <2> QED
    BY <1>1, <2>1 DEF Leaves
<1> HIDE DEF p
<1>4. p.items = <<f>>
  BY <1>1, <1>2, <1>3, ConcatEmptySeq DEF Generator
<1>5. Len(p.items) <= 1
  BY <1>4
<1> QED
  BY <1>3, <1>5 DEF PlainRight, p, e

\* A step of the worker.
LEMMA WorkerTexts ==
  ASSUME Types, Control, Texts, ShownIsDue, NEW s \in Session, Worker(s)
  PROVE  TextRight(s)'
<1>0. TextRight(s)
  BY DEF Texts
<1>1. UNCHANGED <<task, frames, conn, ask, scene>> /\ body[s].st = "running"
      /\ body[s].at # "end" /\ body[s] \in Generator
  BY DEF Types, Worker, Works, Poll, TimesOut, Take, Tail_, GiveUp, working, clientVars
<1>2. CASE conn[s] # "open"
  BY <1>0, <1>1, <1>2, TextSame
<1>3. CASE conn[s] = "open"
  <2>1. OnTheWay(dueTo(s), body[s], line(s)) /\ PlainRight(s)
    BY <1>0, <1>3 DEF TextRight
  <2>2. dueTo(s)' = dueTo(s)
    BY <1>1 DEF dueTo
  <2>3. ASSUME body'[s].at # "end", body'[s].held = body[s].held, body'[s].items = body[s].items,
               body'[s].sentR = body[s].sentR, body'[s].sent = body[s].sent, body'[s].st = body[s].st
        PROVE  OnTheWay(dueTo(s), body'[s], line(s)') /\ PlainRight(s)'
    <3>1. line(s)' = line(s)
      BY <1>1, <2>3 DEF line, rest
    <3>2. OnTheWay(dueTo(s), body'[s], line(s))
      BY <1>1, <2>1, <2>3 DEF OnTheWay
    <3> QED
      BY <1>1, <2>1, <2>3, <3>1, <3>2 DEF PlainRight, via
  <2>4. OnTheWay(dueTo(s), body'[s], line(s)') /\ PlainRight(s)'
    <3>1. CASE Poll(s) /\ queued(s)
      <4>1. via(s)' # "plain"
        BY <1>1, <3>1 DEF Poll, working, Control, RowRight, via
      <4> QED
        BY <1>3, <3>1, <4>1, PollTexts DEF PlainRight
    <3>2. CASE Poll(s) /\ ~queued(s)
      BY <1>1, <2>3, <3>2 DEF Poll, Types, Generator
    <3>3. CASE TimesOut(s)
      BY <1>1, <2>3, <3>3 DEF TimesOut, Types, Generator
    <3>4. CASE Take(s)
      BY <1>1, <2>3, <3>4 DEF Take, Types, Generator
    <3>5. CASE Tail_(s)
      <4>1. PlainRight(s)'
        <5>1. CASE via(s) = "plain"
          <6> DEFINE m == [t |-> "message", reasoning |-> whole[ask[s]].reasoning, content |-> whole[ask[s]].content]
          <6>1. m \in Piece
            BY OneOf, PiecesOf
          <6>2. body'[s] = produced(s, [body[s] EXCEPT !.at = "end"], <<m>>, TRUE)
            BY <3>5, <5>1, TailIs DEF Types, tailNew
          <6> HIDE DEF m
          <6> QED
            BY <1>1, <2>1, <5>1, <6>1, <6>2, PlainProduced
        <5>2. CASE via(s) # "plain"
          BY <1>1, <5>2 DEF PlainRight, via
        <5> QED
          BY <5>1, <5>2
      <4> QED
        BY <1>3, <3>5, <4>1, TailTexts
    <3>6. CASE GiveUp(s)
      <4>1. PlainRight(s)'
        <5>1. CASE via(s) = "plain"
          <6>1. control("error") \in Piece
            BY EmptySeq, PiecesOf
          <6>2. body'[s] = produced(s, [body[s] EXCEPT !.at = "end"], <<control("error")>>, TRUE)
            BY <3>6 DEF GiveUp, Types
          <6> QED
            BY <1>1, <2>1, <5>1, <6>1, <6>2, PlainProduced
        <5>2. CASE via(s) # "plain"
          BY <1>1, <5>2 DEF PlainRight, via
        <5> QED
          BY <5>1, <5>2
      <4> QED
        BY <1>3, <3>6, <4>1, GiveUpTexts
    <3> QED
      BY <3>1, <3>2, <3>3, <3>4, <3>5, <3>6 DEF Worker, Works
  <2>5. OnTheWay(dueTo(s), body[s], line(s))'
    BY <2>2, <2>4
  <2> QED
    BY <1>1, <1>3, <2>4, <2>5 DEF TextRight
<1> QED
  BY <1>2, <1>3

-----------------------------------------------------------------------------
(* The handler *)

\* The next piece goes from the handler's hand to the client: the line is as it was.
LEMMA SentLine ==
  ASSUME Types, Control, NEW s \in Session, task[s] = "fetch", body[s].items # <<>>,
         frames'[s] = Append(frames[s], Head(body[s].items)), rest(s)' = Tail(body[s].items),
         body'[s].held = body[s].held
  PROVE  line(s)' = line(s)
<1> DEFINE h == Head(body[s].items)
           tl == Tail(body[s].items)
<1>1. h \in Piece /\ tl \in Seq(Piece) /\ frames[s] \in Seq(Piece) /\ body[s].items \in Seq(Piece)
  BY LineOf, HeadTailProperties
<1>2. body[s].items = <<h>> \o tl
  BY <1>1
<1> HIDE DEF h, tl
<1>3. Append(frames[s], h) = frames[s] \o <<h>> /\ <<h>> \in Seq(Piece)
  BY <1>1, AppendIsConcat
<1>4. (frames[s] \o <<h>>) \o tl = frames[s] \o (<<h>> \o tl)
  BY <1>1, <1>3, PiecesJoin
<1>5. line(s) = (frames[s] \o body[s].items) \o body[s].held
  BY DEF line, rest
<1>6. line(s)' = (Append(frames[s], h) \o tl) \o body[s].held
  BY DEF line, h, tl
<1> QED
  BY <1>2, <1>3, <1>4, <1>5, <1>6

\* The line of a request that nothing was said to, and of one that more of the line was
\* handed out to, is right.
LEMMA FreshLine ==
  ASSUME NEW d \in Two, NEW b, b.sentR = 0, b.sent = 0, b.at # "end", b.st # "closed"
  PROVE  OnTheWay(d, b, <<>> \o <<>> \o <<>>)
<1>1. d.reasoning \in Seq(Marks) /\ d.content \in Seq(Marks)
  BY DEF Two
<1>2. SubSeq(d.reasoning, 1, 0) = <<>> /\ SubSeq(d.content, 1, 0) = <<>>
      /\ 0 <= Len(d.reasoning) /\ 0 <= Len(d.content)
  BY <1>1, SubSeqEmpty, LenProperties
<1>3. toldIn(<<>>) = cut(d, 0, 0)
  BY <1>2, ToldAppend DEF cut, empty
<1>4. <<>> \o <<>> \o <<>> = <<>> /\ Len(<<>>) = 0
  OBVIOUS
<1> QED
  BY <1>2, <1>3, <1>4 DEF OnTheWay

\* Handing a piece from the worker to the handler to the socket changes what is known,
\* and nothing of what is on its way.
LEMMA MovedOn ==
  ASSUME NEW s \in Session, conn[s] = "open", conn'[s] = "open", TextRight(s), via(s) # "plain",
         line(s)' = line(s), ask' = ask, scene' = scene,
         body'[s].at = body[s].at, body'[s].held = body[s].held, body'[s].sentR = body[s].sentR,
         body'[s].sent = body[s].sent, body'[s].at # "end" => body'[s].st # "closed"
  PROVE  TextRight(s)'
<1>1. OnTheWay(dueTo(s), body[s], line(s))
  BY DEF TextRight
<1>2. OnTheWay(dueTo(s), body'[s], line(s))
  BY <1>1 DEF OnTheWay
<1>3. dueTo(s)' = dueTo(s) /\ via(s)' = via(s)
  BY DEF dueTo, via
<1>4. OnTheWay(dueTo(s), body[s], line(s))'
  BY <1>2, <1>3
<1> QED
  BY <1>3, <1>4 DEF TextRight, PlainRight

\* An end that is sent is among the frames.
LEMMA EndSent ==
  ASSUME Types, NEW s \in Session, NEW f \in Piece, terminal(f), frames'[s] = Append(frames[s], f),
         conn'[s] # "open"
  PROVE  TextRight(s)'
<1>1. frames[s] \in Seq(Piece)
  BY DEF Types
<1>2. Len(frames'[s]) = Len(frames[s]) + 1 /\ frames'[s][Len(frames[s]) + 1] = f
      /\ Len(frames[s]) + 1 \in 1 .. Len(frames'[s])
  BY <1>1, AppendProperties, LenProperties
<1> QED
  BY <1>2 DEF TextRight

\* The plain route answers with the one piece there is: the end.
LEMMA AnswerEnds ==
  ASSUME Types, Control, Texts, NEW s \in Session, conn[s] = "open", fetched(s, "plain")
  PROVE  body[s].items # <<>> /\ terminal(Head(body[s].items)) /\ task[s] = "fetch"
<1> DEFINE f == Head(body[s].items)
<1>0. TextRight(s) /\ HandlerRight(s) /\ RowRight(s)
  BY DEF Texts, Control
<1>1. task[s] = "fetch" /\ body[s].st = "suspended" /\ body[s].items # <<>> /\ via(s) = "plain"
  BY <1>0 DEF fetched, HandlerRight
<1>2. frames[s] = <<>> /\ body[s].held = <<>> /\ Len(body[s].items) <= 1
  BY <1>0, <1>1 DEF TextRight, PlainRight
<1>3. body[s].items \in Seq(Piece)
  BY LineOf
<1>4. line(s) = (<<>> \o body[s].items) \o <<>>
  BY <1>1, <1>2 DEF line, rest
<1>5. <<>> \o body[s].items = body[s].items /\ body[s].items \o <<>> = body[s].items
  BY <1>3, ConcatEmptySeq
<1>6. Len(body[s].items) = 1
  <2> DEFINE q == body[s].items
  <2>1. Len(q) \in Nat /\ q # <<>> /\ q \in Seq(Piece)
    BY <1>1, <1>3, LenProperties
  <2> HIDE DEF q
  <2>2. Len(q) # 0
    BY <2>1, EmptySeq
  <2>3. Len(q) <= 1
    BY <1>2 DEF q
  <2>4. \A n \in Nat : n # 0 /\ n <= 1 => n = 1
    OBVIOUS
  <2>5. Len(q) = 1
    BY <2>1, <2>2, <2>3, <2>4, Zenon
  <2> QED
    BY <2>5 DEF q
<1>7. line(s) = body[s].items /\ body[s].items[1] = f
  BY <1>4, <1>5
<1>8. body[s].at = "end"
  BY <1>0, <1>1 DEF RowRight
<1>9. terminal(f)
  BY <1>0, <1>6, <1>7, <1>8 DEF TextRight, OnTheWay
<1> QED
  BY <1>1, <1>9

\* A step of the handler.
LEMMA HandlerTexts ==
  ASSUME Types, Control, Texts, NEW s \in Session, Handler(s)
  PROVE  TextRight(s)'
<1>0. TextRight(s) /\ HandlerRight(s) /\ RowRight(s) /\ ask' = ask /\ scene' = scene
  BY DEF Texts, Control, Handler, Submit, Refuse, SendFrame, YieldItem, Resume, Answer, StreamEnd,
         NoticeGone, Abandon, Cancel, clientVars
<1>1. CASE Submit(s)
  <2>1. /\ task[s] = "submit" /\ task'[s] = "fetch" /\ frames' = frames /\ conn' = conn
        /\ body'[s] = [NoBody EXCEPT !.st = "running", !.at = IF via(s) = "plain" THEN "take" ELSE "poll"]
    BY <1>1 DEF Submit, Types, clientVars
  <2>2. frames[s] = <<>>
    BY <1>0, <2>1 DEF HandlerRight, Untouched
  <2>3. /\ body'[s].sentR = 0 /\ body'[s].sent = 0 /\ body'[s].at # "end" /\ body'[s].st # "closed"
        /\ body'[s].items = <<>> /\ body'[s].held = <<>>
    BY <2>1 DEF NoBody
  <2>4. line(s)' = <<>> \o <<>> \o <<>> /\ dueTo(s)' = dueTo(s) /\ dueTo(s) \in Two
    <3>1. dueTo(s) \in Two
      BY LineOf
    <3>2. line(s)' = <<>> \o <<>> \o <<>>
      BY <2>1, <2>2, <2>3 DEF line, rest
    <3>3. dueTo(s)' = dueTo(s)
      BY <1>0 DEF dueTo
    <3> QED
      BY <3>1, <3>2, <3>3
  <2>5. OnTheWay(dueTo(s), body[s], line(s))'
    BY <2>3, <2>4, FreshLine
  <2>6. PlainRight(s)'
    BY <2>1, <2>2, <2>3 DEF PlainRight
  <2>7. conn[s] = "closed" => FALSE
    BY <1>0, <2>1, <2>2 DEF TextRight
  <2> QED
    BY <2>1, <2>5, <2>6, <2>7 DEF TextRight
<1>2. CASE Refuse(s)
  <2>1. task[s] = "submit" /\ conn'[s] # "open" /\ control("error") \in Piece /\ terminal(control("error"))
    <3>1. control("error") \in Piece
      BY EmptySeq, PiecesOf
    <3> QED
      BY <1>2, <3>1 DEF Refuse, closeConn, Types, terminal, control
  <2>2. CASE conn[s] = "open"
    <3>1. frames'[s] = Append(frames[s], control("error"))
      BY <1>2, <2>2 DEF Refuse, send, Types
    <3> QED
      BY <2>1, <3>1, EndSent
  <2>3. CASE conn[s] # "open"
    <3>1. frames'[s] = frames[s] /\ conn'[s] = conn[s]
      BY <1>2, <2>3 DEF Refuse, send, closeConn, Types
    <3> QED
      BY <1>0, <2>1, <3>1, TextSame
  <2> QED
    BY <2>2, <2>3
<1>3. CASE SendFrame(s)
  <2>0. task[s] = "fetch" /\ body[s].st = "suspended" /\ body[s].items # <<>> /\ via(s) = "ws"
    BY <1>0, <1>3 DEF SendFrame, fetched, HandlerRight
  <2>1. CASE conn[s] # "open"
    <3>1. frames'[s] = frames[s] /\ conn'[s] = conn[s]
      BY <1>3, <2>1 DEF SendFrame, send, closeConn, Types
    <3> QED
      BY <1>0, <2>1, <3>1, TextSame
  <2>2. CASE conn[s] = "open"
    <3> DEFINE f == Head(body[s].items)
    <3>1. frames'[s] = Append(frames[s], f) /\ f \in Piece
      <4>1. f \in Piece
        BY <2>0, LineOf, HeadTailProperties
      <4>2. frames'[s] = Append(frames[s], f)
        BY <1>3, <2>2 DEF SendFrame, send, Types
      <4> QED
        BY <4>1, <4>2
    <3>2. CASE f.t = "error"
      <4>1. conn'[s] # "open"
        BY <1>3, <2>2, <3>2 DEF SendFrame, closeConn, gone, Types
      <4>2. terminal(f)
        BY <3>2 DEF terminal
      <4> QED
        BY <3>1, <4>1, <4>2, EndSent
    <3>3. CASE f.t # "error"
      <4>1. body'[s] = resumed(s) /\ UNCHANGED <<task, conn>>
        BY <1>3, <2>2, <3>3 DEF SendFrame, gone, Types
      <4>2. /\ body'[s].items = Tail(body[s].items) /\ body'[s].at = body[s].at
            /\ body'[s].sentR = body[s].sentR /\ body'[s].sent = body[s].sent
            /\ body'[s].held = body[s].held /\ (body'[s].at # "end" => body'[s].st # "closed")
        BY <2>0, <4>1, ResumedOf
      <4>3. rest(s)' = Tail(body[s].items)
        BY <2>0, <4>1, <4>2 DEF rest
      <4>4. line(s)' = line(s)
        BY <2>0, <3>1, <4>2, <4>3, SentLine
      <4> QED
        BY <1>0, <2>0, <2>2, <4>1, <4>2, <4>4, MovedOn
    <3> QED
      BY <3>2, <3>3
  <2> QED
    BY <2>1, <2>2
<1>4. CASE YieldItem(s)
  <2>0. task[s] = "fetch" /\ body[s].st = "suspended" /\ body[s].items # <<>> /\ via(s) = "sse" /\ conn' = conn
    BY <1>0, <1>4 DEF YieldItem, fetched, HandlerRight, clientVars
  <2>1. CASE conn[s] # "open"
    <3>1. frames'[s] = frames[s]
      BY <1>4, <2>1 DEF YieldItem, send, Types
    <3> QED
      BY <1>0, <2>0, <2>1, <3>1, TextSame
  <2>2. CASE conn[s] = "open"
    <3>1. frames'[s] = Append(frames[s], Head(body[s].items)) /\ task'[s] = "yield" /\ body' = body
      BY <1>4, <2>2 DEF YieldItem, send, gone, Types
    <3>2. rest(s)' = Tail(body[s].items)
      BY <3>1 DEF rest
    <3>3. line(s)' = line(s)
      BY <2>0, <3>1, <3>2, SentLine
    <3>4. body[s].at # "end" => body[s].st # "closed"
      BY <2>0
    <3> QED
      BY <1>0, <2>0, <2>2, <3>1, <3>3, <3>4, MovedOn
  <2> QED
    BY <2>1, <2>2
<1>5. CASE Resume(s)
  <2>0. /\ task[s] = "yield" /\ body[s].items # <<>> /\ via(s) = "sse" /\ task'[s] = "fetch"
        /\ UNCHANGED <<conn, frames>> /\ body'[s] = resumed(s)
    BY <1>0, <1>5 DEF Resume, HandlerRight, clientVars, Types
  <2>1. /\ body'[s].items = Tail(body[s].items) /\ body'[s].at = body[s].at
        /\ body'[s].sentR = body[s].sentR /\ body'[s].sent = body[s].sent
        /\ body'[s].held = body[s].held /\ (body'[s].at # "end" => body'[s].st # "closed")
    BY <2>0, ResumedOf
  <2>2. line(s)' = line(s)
    BY <2>0, <2>1 DEF line, rest
  <2>3. CASE conn[s] = "open"
    BY <1>0, <2>0, <2>1, <2>2, <2>3, MovedOn
  <2>4. CASE conn[s] # "open"
    BY <1>0, <2>0, <2>4, TextSame
  <2> QED
    BY <2>3, <2>4
<1>6. CASE Answer(s)
  <2>0. task[s] = "fetch" /\ body[s].st = "suspended" /\ body[s].items # <<>> /\ via(s) = "plain"
    BY <1>0, <1>6 DEF Answer, fetched, HandlerRight
  <2>1. conn'[s] # "open"
    BY <1>6 DEF Answer, closeConn, Types
  <2>2. CASE conn[s] = "open"
    <3> DEFINE f == Head(body[s].items)
    <3>1. frames'[s] = Append(frames[s], f) /\ f \in Piece
      <4>1. f \in Piece
        BY <2>0, LineOf, HeadTailProperties
      <4>2. frames'[s] = Append(frames[s], f)
        BY <1>6, <2>2 DEF Answer, send, Types
      <4> QED
        BY <4>1, <4>2
    <3>4. terminal(f)
      BY <1>6, <2>2, AnswerEnds DEF Answer
    <3> QED
      BY <2>1, <3>1, <3>4, EndSent
  <2>3. CASE conn[s] # "open"
    <3>1. frames'[s] = frames[s] /\ conn'[s] = conn[s]
      BY <1>6, <2>3 DEF Answer, send, closeConn, Types
    <3> QED
      BY <1>0, <2>1, <3>1, TextSame
  <2> QED
    BY <2>2, <2>3
<1>7. CASE StreamEnd(s)
  <2>0. task[s] = "fetch" /\ body[s].st = "closed" /\ frames' = frames /\ conn'[s] # "open"
    BY <1>7 DEF StreamEnd, closeConn, Types
  <2>1. CASE conn[s] = "open"
    <3>1. body[s].items = <<>>
      BY <1>0, <2>0 DEF HandlerRight
    <3>2. OnTheWay(dueTo(s), body[s], line(s))
      BY <1>0, <2>1 DEF TextRight
    <3>3. body[s].held = <<>> /\ line(s) # <<>> /\ terminal(line(s)[Len(line(s))])
      BY <2>0, <3>2 DEF OnTheWay
    <3>4. line(s) = frames[s]
      <4>1. line(s) = (frames[s] \o <<>>) \o <<>>
        BY <2>0, <3>1, <3>3 DEF line, rest
      <4> QED
        BY <4>1, LineOf, ConcatEmptySeq
    <3>5. Len(frames[s]) \in 1 .. Len(frames[s])
      BY <3>3, <3>4, LineOf, LenProperties, EmptySeq
    <3> QED
      BY <2>0, <3>3, <3>4, <3>5 DEF TextRight
  <2>2. CASE conn[s] # "open"
    <3>1. conn'[s] = conn[s]
      BY <1>7, <2>2 DEF StreamEnd, closeConn, Types
    <3> QED
      BY <1>0, <2>0, <3>1, TextSame
  <2> QED
    BY <2>1, <2>2
<1>8. CASE NoticeGone(s) \/ Abandon(s)
  <2>1. UNCHANGED <<frames, conn>> /\ conn[s] \in {"left", "lost"}
    BY <1>8 DEF NoticeGone, Abandon, gone, clientVars
  <2> QED
    BY <1>0, <2>1, TextSame
<1>9. CASE Cancel(s)
  <2>1. UNCHANGED <<frames, conn>> /\ conn[s] # "open"
    BY <1>0, <1>9 DEF Cancel, HandlerRight, clientVars
  <2> QED
    BY <1>0, <2>1, TextSame
<1> QED
  BY <1>1, <1>2, <1>3, <1>4, <1>5, <1>6, <1>7, <1>8, <1>9 DEF Handler

-----------------------------------------------------------------------------
(* Every step *)

\* A request is made.
LEMMA OpenTexts ==
  ASSUME Types, Control, NEW s \in Session, NEW r \in scene[s].asks, Open(s, r)
  PROVE  TextRight(s)'
<1>1. task[s] = "none" /\ body[s] = NoBody /\ frames[s] = <<>> /\ UNCHANGED <<frames, body, scene>>
      /\ task'[s] = "submit" /\ conn'[s] = "open" /\ ask'[s] = r /\ r \in Asked
  BY DEF Open, Control, HandlerRight, Untouched, Types, Asked
<1>2. dueTo(s)' = [reasoning |-> whole[r].reasoning, content |-> whole[r].content] /\ dueTo(s)' \in Two
  <2>1. dueTo(s)' = [reasoning |-> whole[r].reasoning, content |-> whole[r].content]
    BY <1>1 DEF dueTo
  <2> QED
    BY <1>1, <2>1, TextsOf DEF Two
<1>3. line(s)' = <<>> \o <<>> \o <<>> /\ PlainRight(s)'
  BY <1>1 DEF line, rest, NoBody, PlainRight
<1>4. OnTheWay(dueTo(s), body[s], line(s))'
  <2>1. body'[s].sentR = 0 /\ body'[s].sent = 0 /\ body'[s].at # "end" /\ body'[s].st # "closed"
    BY <1>1 DEF NoBody
  <2> QED
    BY <1>2, <1>3, <2>1, FreshLine
<1> QED
  BY <1>1, <1>3, <1>4 DEF TextRight

\* Every step of the server, its clients and its faults keeps what was told, and what is on
\* its way, a beginning of the reply.
LEMMA StreamingTexts ==
  ASSUME Types, Control, Texts, ShownIsDue, Streaming
  PROVE  Texts'
<1>1. ASSUME NEW s \in Session, Own(s) PROVE Texts'
  <2>0. TextRight(s)
    BY DEF Texts
  <2>1. \A t \in Session \ {s} : SameAt(t)
    BY <1>1, Elsewhere
  <2>2. TextRight(s)'
    <3>1. CASE Worker(s)
      BY <3>1, WorkerTexts
    <3>2. CASE Handler(s)
      BY <3>2, HandlerTexts
    <3>3. CASE \E r \in scene[s].asks : Open(s, r)
      BY <3>3, OpenTexts
    <3>4. CASE Leave(s) \/ Lose(s)
      <4>1. conn'[s] \notin {"open", "closed"}
        BY <3>4 DEF Leave, Lose, Types
      <4> QED
        BY <2>0, <4>1, TextSame
    <3>5. CASE Admit(s) \/ Emit(s) \/ Finish(s)
      <4>1. UNCHANGED <<frames, body, conn, task, ask, scene>>
        BY <3>5 DEF Admit, Emit, Finish, serverVars, clientVars
      <4> QED
        BY <2>0, <4>1, TextSame
    <3>6. CASE Drain(s)
      <4>1. UNCHANGED <<frames, conn>> /\ conn[s] # "open"
        BY <3>6 DEF Drain, DrainCancel, DrainJoin, DrainGivesUp, DrainClose, clientVars, Control, HandlerRight
      <4> QED
        BY <2>0, <4>1, TextSame
    <3> QED
      BY <1>1, <3>1, <3>2, <3>3, <3>4, <3>5, <3>6 DEF Own
  <2> QED
    BY <2>1, <2>2, TextsAt
<1>2. CASE TickBegin \/ TickEnd \/ Restart
  <2>1. UNCHANGED <<frames, body, conn, task, ask, scene>>
    BY <1>2 DEF TickBegin, TickEnd, Restart, serverVars, clientVars
  <2>2. ASSUME NEW t \in Session PROVE TextRight(t)'
    BY <2>1, TextSame DEF Texts
  <2> QED
    BY <2>2 DEF Texts
<1>3. CASE Crash
  <2>1. ASSUME NEW t \in Session PROVE TextRight(t)'
    <3>1. frames' = frames /\ conn'[t] # "open" /\ (conn'[t] = "closed" => conn[t] = "closed")
      BY <1>3 DEF Crash, Types
    <3> QED
      BY <3>1, TextSame DEF Texts
  <2> QED
    BY <2>1 DEF Texts
<1> QED
  BY <1>1, <1>2, <1>3 DEF Streaming, Serve, Tick, Own

\* A step of the page alone.
LEMMA VarsTexts ==
  ASSUME Texts, UNCHANGED vars
  PROVE  Texts'
<1>1. UNCHANGED <<frames, body, conn, task, ask, scene>>
  BY DEF vars, serverVars, clientVars
<1>2. ASSUME NEW t \in Session PROVE TextRight(t)'
  BY <1>1, TextSame DEF Texts
<1> QED
  BY <1>2 DEF Texts

-----------------------------------------------------------------------------
(* The abstract steps *)

\* What a step is to one request of the abstract stream.
Abstract(t) ==
  Promise!Open(t) \/ Promise!Tell(t) \/ Promise!End(t) \/ Promise!Stops(t) \/ Promise!Same(t)

\* The kinds of frames among some frames.
saidIn(fs) == {fs[i].t : i \in 1 .. Len(fs)}

\* The standing of a request, from the end among its frames and its connection.
LEMMA StandingOf ==
  ASSUME NEW s, frames[s] \in Seq(Piece)
  PROVE  /\ conn[s] = "none" => standing(s) = "new"
         /\ conn[s] # "none" /\ calm(frames[s]) =>
              standing(s) = IF gone(s) THEN "gone" ELSE IF conn[s] = "closed" THEN "cut" ELSE "open"
<1>1. ASSUME calm(frames[s]) PROVE saidIn(frames[s]) \cap {"done", "message", "error"} = {}
  BY <1>1 DEF calm, terminal, saidIn
<1> QED
  BY <1>1 DEF standing, saidIn, gone

\* Frames that stay and a connection that stays keep it.
LEMMA SameIs ==
  ASSUME NEW t \in Session, frames'[t] = frames[t], ask'[t] = ask[t], conn'[t] = conn[t]
  PROVE  Promise!Same(t)
<1>1. standing(t)' = standing(t) /\ toldTo(t)' = toldTo(t) /\ dueTo(t)' = dueTo(t)
  BY DEF standing, gone, toldTo, dueTo
<1> QED
  BY <1>1 DEF Promise!Same

\* A connection that ends without a frame.
LEMMA ClosingIs ==
  ASSUME NEW t \in Session, frames[t] \in Seq(Piece), frames'[t] = frames[t], ask'[t] = ask[t],
         conn[t] = "open", conn'[t] \in {"left", "lost", "closed"}, TextRight(t)'
  PROVE  Promise!Stops(t) \/ Promise!Same(t)
<1>1. toldTo(t)' = toldTo(t) /\ dueTo(t)' = dueTo(t)
  BY DEF toldTo, dueTo
<1>2. CASE calm(frames[t])
  <2>1. conn'[t] # "closed"
    <3>1. ~ \E i \in 1 .. Len(frames'[t]) : terminal(frames'[t][i])
      BY <1>2 DEF calm
    <3> QED
      BY <3>1 DEF TextRight
  <2>2. standing(t) = "open"
    BY <1>2, StandingOf DEF gone
  <2>3. saidIn(frames[t]) \cap {"done", "message", "error"} = {}
    BY <1>2 DEF calm, terminal, saidIn
  <2>4. standing(t)' = "gone"
    BY <2>1, <2>3 DEF standing, gone, saidIn
  <2> QED
    BY <1>1, <2>2, <2>4 DEF Promise!Stops
<1>3. CASE ~calm(frames[t])
  <2>1. saidIn(frames[t]) \cap {"done", "message", "error"} # {}
    <3>1. PICK i \in 1 .. Len(frames[t]) : terminal(frames[t][i])
      BY <1>3 DEF calm
    <3> QED
      BY <3>1 DEF saidIn, terminal
  <2>2. standing(t)' = standing(t)
    <3>1. conn[t] # "none" /\ conn'[t] # "none"
      OBVIOUS
    <3> DEFINE said == saidIn(frames[t])
    <3>2. said' = said
      BY DEF saidIn
    <3>3. said \cap {"done", "message"} # {} \/ "error" \in said
      BY <2>1
    <3>4. standing(t) = IF said \cap {"done", "message"} # {} THEN "done" ELSE "error"
      BY <3>1, <3>3 DEF standing, saidIn
    <3>5. standing(t)' = IF said' \cap {"done", "message"} # {} THEN "done" ELSE "error"
      <4>1. said' \cap {"done", "message"} # {} \/ "error" \in said'
        BY <3>2, <3>3
      <4> QED
        BY <3>1, <4>1 DEF standing, saidIn
    <3> HIDE DEF said
    <3> QED
      BY <3>2, <3>4, <3>5
  <2> QED
    BY <1>1, <2>2 DEF Promise!Same
<1> QED
  BY <1>2, <1>3

\* A frame that is sent: more of the reply, all of it with the end, or an error.
LEMMA SentIs ==
  ASSUME Types, Control, Texts, NEW s \in Session, task[s] = "fetch", body[s].items # <<>>,
         conn[s] = "open", frames'[s] = Append(frames[s], Head(body[s].items)), ask'[s] = ask[s],
         conn'[s] \in {"open", "closed"}, conn'[s] = "open" \/ terminal(Head(body[s].items))
  PROVE  Abstract(s)
<1> DEFINE f == Head(body[s].items)
           fs == frames[s]
           gs == frames'[s]
           L == line(s)
           d == dueTo(s)
<1>1. f \in Piece /\ fs \in Seq(Piece) /\ L \in Seq(Piece) /\ d \in Two
      /\ body[s].items \in Seq(Piece) /\ body[s].held \in Seq(Piece)
      /\ body[s].sentR \in Nat /\ body[s].sent \in Nat
  BY LineOf, HeadTailProperties
<1>2. /\ gs \in Seq(Piece) /\ Len(gs) = Len(fs) + 1 /\ gs[Len(fs) + 1] = f
      /\ \A i \in 1 .. Len(fs) : gs[i] = fs[i]
  <2>1. gs = Append(fs, f)
    OBVIOUS
  <2> HIDE DEF gs, f, fs
  <2> QED
    BY <1>1, <2>1, AppendProperties
<1>3. Len(gs) <= Len(L) /\ \A i \in 1 .. Len(gs) : L[i] = gs[i]
  <2> DEFINE its == body[s].items
             held == body[s].held
             a == fs \o its
  <2>1. L = a \o held
    BY DEF line, rest
  <2>2. its \in Seq(Piece) /\ its # <<>> /\ its[1] = f /\ Len(its) \in Nat \ {0} /\ held \in Seq(Piece)
    BY <1>1, EmptySeq
  <2> HIDE DEF its, held, f, fs, gs, L
  <2>3. a \in Seq(Piece) /\ Len(a) = Len(fs) + Len(its)
        /\ \A i \in 1 .. Len(fs) + Len(its) : a[i] = IF i <= Len(fs) THEN fs[i] ELSE its[i - Len(fs)]
    BY <1>1, <2>2, ConcatProperties
  <2>4. Len(fs) \in Nat
    BY <1>1, LenProperties
  <2>5. \A i \in 1 .. Len(gs) : a[i] = gs[i]
    <3>1. a[Len(fs) + 1] = its[1]
      BY <2>2, <2>3, <2>4
    <3>2. \A i \in 1 .. Len(fs) : a[i] = fs[i]
      BY <2>2, <2>3, <2>4
    <3> QED
      BY <1>2, <2>2, <2>4, <3>1, <3>2
  <2> HIDE DEF a
  <2>6. Len(L) = Len(a) + Len(held) /\ \A i \in 1 .. Len(a) + Len(held) : L[i] = IF i <= Len(a) THEN a[i] ELSE held[i - Len(a)]
    BY <2>1, <2>2, <2>3, ConcatProperties
  <2>7. Len(held) \in Nat /\ Len(gs) <= Len(a)
    BY <1>2, <2>2, <2>3, <2>4, LenProperties
  <2>8. Len(gs) <= Len(L) /\ \A i \in 1 .. Len(gs) : L[i] = a[i]
    BY <1>2, <2>2, <2>3, <2>4, <2>6, <2>7
  <2> QED
    BY <2>5, <2>8
<1>4. OnTheWay(d, body[s], L)
  BY DEF Texts, TextRight
<1>5. calm(fs)
  <2> HIDE DEF L, gs, fs, d
  <2>1. Len(fs) \in Nat /\ Len(L) \in Nat
    BY <1>1, LenProperties
  <2>2. ASSUME NEW i \in 1 .. Len(fs) PROVE ~terminal(fs[i])
    <3>1. i \in 1 .. Len(gs) /\ i \in 1 .. Len(L) /\ i # Len(L)
      BY <1>2, <1>3, <2>1
    <3>2. fs[i] = L[i]
      BY <1>2, <1>3, <3>1
    <3> QED
      BY <1>4, <3>1, <3>2 DEF OnTheWay
  <2> QED
    BY <2>2 DEF calm
<1>6. standing(s) = "open"
  BY <1>1, <1>5, StandingOf DEF gone
<1>7. Promise!Within(toldIn(L), d)
  <2> HIDE DEF L, d
  <2>1. CASE body[s].at # "end"
    BY <1>1, <1>4, <2>1, CutWithin DEF OnTheWay
  <2>2. CASE body[s].at = "end"
    <3>1. Promise!Within(d, d)
      BY <1>1 DEF Promise!Within, Promise!starts
    <3> QED
      BY <1>4, <2>2, <3>1 DEF OnTheWay
  <2> QED
    BY <2>1, <2>2
<1>8. Promise!Within(toldIn(fs), toldIn(gs)) /\ Promise!Within(toldIn(gs), d)
  <2> HIDE DEF L, d, fs, gs, f
  <2>1. Len(fs) <= Len(gs)
    BY <1>1, <1>2, LenProperties
  <2>2. Promise!Within(toldIn(fs), toldIn(gs)) /\ Promise!Within(toldIn(gs), toldIn(L))
    BY <1>1, <1>2, <1>3, <2>1, ToldPrefix
  <2>3. toldIn(gs) \in Two /\ toldIn(L) \in Two
    BY <1>1, <1>2, ToldAppend
  <2> QED
    BY <1>1, <1>7, <2>2, <2>3, StartsOf DEF Promise!Within, Two
<1>9. toldTo(s) = toldIn(fs) /\ toldTo(s)' = toldIn(gs) /\ dueTo(s)' = dueTo(s)
  BY DEF toldTo, dueTo
<1>10. CASE terminal(f)
  <2> HIDE DEF L, d, fs, gs, f
  <2>1. Len(gs) = Len(L) /\ body[s].at = "end"
    <3>1. Len(gs) \in 1 .. Len(L) /\ L[Len(gs)] = f
      BY <1>1, <1>2, <1>3, LenProperties
    <3> QED
      BY <1>4, <1>10, <3>1 DEF OnTheWay
  <2>2. gs = L
    BY <1>1, <1>2, <1>3, <2>1, SeqEqual
  <2>3. L[Len(L)] = f
    BY <1>2, <2>1, <2>2
  <2>4. f.t \in saidIn(gs)
    <3>1. Len(gs) \in 1 .. Len(gs) /\ gs[Len(gs)] = f
      BY <1>1, <1>2, LenProperties
    <3> QED
      BY <3>1 DEF saidIn
  <2>5. CASE f.t = "error"
    <3>1. f = control("error")
      BY <1>4, <2>1, <2>3, <2>5 DEF OnTheWay
    <3>2. toldIn(gs) = toldIn(fs)
      BY <1>1, <3>1, ControlTellsNothing DEF gs, f, fs
    <3>3. saidIn(gs) \cap {"done", "message"} = {}
      <4>1. ASSUME NEW i \in 1 .. Len(gs) PROVE gs[i].t \notin {"done", "message"}
        <5>1. CASE i \in 1 .. Len(fs)
          BY <1>2, <1>5, <5>1 DEF calm, terminal
        <5>2. CASE i = Len(fs) + 1
          BY <1>2, <2>5, <5>2
        <5> QED
          BY <1>1, <1>2, <5>1, <5>2, LenProperties
      <4> QED
        BY <4>1 DEF saidIn
    <3>4. standing(s)' = "error"
      BY <2>4, <2>5, <3>3 DEF standing, saidIn, gs
    <3> QED
      BY <1>6, <1>9, <3>2, <3>4 DEF Abstract, Promise!Stops
  <2>6. CASE f.t # "error"
    <3>1. toldIn(gs) = d
      BY <1>4, <2>1, <2>2, <2>3, <2>6 DEF OnTheWay
    <3>2. standing(s)' = "done"
      BY <1>10, <2>4, <2>6 DEF standing, saidIn, gs, terminal
    <3>3. Promise!Within(toldIn(fs), d)
      BY <1>8, <3>1
    <3> QED
      BY <1>6, <1>9, <3>1, <3>2, <3>3 DEF Abstract, Promise!End, d
  <2> QED
    BY <2>5, <2>6
<1>11. CASE ~terminal(f)
  <2>0. conn'[s] = "open"
    BY <1>11
  <2> HIDE DEF L, d, fs, gs, f
  <2>1. ASSUME NEW i \in 1 .. Len(gs) PROVE gs[i].t \notin {"done", "message", "error"}
    <3>1. CASE i \in 1 .. Len(fs)
      BY <1>2, <1>5, <3>1 DEF calm, terminal
    <3>2. CASE i = Len(fs) + 1
      BY <1>2, <1>11, <3>2 DEF terminal
    <3> QED
      BY <1>1, <1>2, <3>1, <3>2, LenProperties
  <2>2. saidIn(gs) \cap {"done", "message", "error"} = {}
    BY <2>1 DEF saidIn
  <2>3. standing(s)' = "open"
    BY <2>0, <2>2 DEF standing, saidIn, gs, gone
  <2> QED
    BY <1>6, <1>8, <1>9, <2>3 DEF Abstract, Promise!Tell, d
<1> QED
  BY <1>10, <1>11

\* What a request is due and told, and how it stands, have their types; and no connection
\* is closed on a client that was told no end.
LEMMA ViewOf ==
  ASSUME Types, Control, Texts, NEW s \in Session
  PROVE  /\ dueTo(s) \in Promise!Reply /\ toldTo(s) \in Promise!Reply
         /\ standing(s) \in {"new", "open", "done", "error", "gone"}
<1>1. dueTo(s) \in Two /\ frames[s] \in Seq(Piece)
  BY LineOf
<1>2. toldTo(s) \in Two
  BY <1>1, ToldAppend DEF toldTo
<1>3. standing(s) # "cut"
  <2>1. CASE conn[s] = "closed"
    <3>1. PICK i \in 1 .. Len(frames[s]) : terminal(frames[s][i])
      BY <2>1 DEF Texts, TextRight
    <3>2. frames[s][i].t \in saidIn(frames[s]) /\ frames[s][i].t \in {"done", "message", "error"}
      BY <3>1 DEF saidIn, terminal
    <3>3. saidIn(frames[s]) \cap {"done", "message"} # {} \/ "error" \in saidIn(frames[s])
      BY <3>2
    <3> QED
      BY <2>1, <3>3 DEF standing, saidIn
  <2>2. CASE conn[s] # "closed"
    BY <2>2 DEF standing
  <2> QED
    BY <2>1, <2>2
<1>4. standing(s) \in {"new", "open", "done", "error", "gone"}
  BY <1>3 DEF standing
<1> QED
  BY <1>1, <1>2, <1>4 DEF Two, Promise!Reply, Promise!Text

\* A request that is made.
LEMMA OpenIs ==
  ASSUME Types, Control, NEW s \in Session, NEW r \in scene[s].asks, Open(s, r)
  PROVE  Abstract(s)
<1>1. conn[s] = "none" /\ conn'[s] = "open" /\ frames'[s] = frames[s] /\ frames[s] = <<>>
  BY DEF Open, Types, Control, HandlerRight, Untouched
<1>2. calm(frames[s]) /\ saidIn(frames[s]) = {}
  BY <1>1 DEF calm, saidIn
<1>3. standing(s) = "new" /\ standing(s)' = "open"
  BY <1>1, <1>2 DEF standing, saidIn, gone
<1>4. toldTo(s)' = toldTo(s)
  BY <1>1 DEF toldTo
<1> QED
  BY <1>3, <1>4 DEF Abstract, Promise!Open

\* A request that is refused.
LEMMA RefuseIs ==
  ASSUME Types, Control, NEW s \in Session, Refuse(s)
  PROVE  Abstract(s)
<1>1. ask'[s] = ask[s] /\ frames[s] = <<>>
  BY DEF Refuse, Control, HandlerRight, Untouched
<1>2. CASE conn[s] = "open"
  <2>1. frames'[s] = Append(<<>>, control("error")) /\ conn'[s] = "closed"
    BY <1>1, <1>2 DEF Refuse, send, closeConn, Types
  <2>2. frames'[s] = <<control("error")>>
    BY <2>1
  <2>3. saidIn(frames[s]) = {} /\ saidIn(frames'[s]) = {"error"}
    <3>1. Len(frames'[s]) = 1 /\ frames'[s][1].t = "error"
      BY <2>2 DEF control
    <3>2. \A i : i \in 1 .. Len(frames'[s]) <=> i = 1
      BY <3>1
    <3> QED
      BY <1>1, <3>1, <3>2 DEF saidIn
  <2>4. standing(s) = "open" /\ standing(s)' = "error"
    <3>1. standing(s) = "open"
      BY <1>2, <2>3 DEF standing, saidIn, gone
    <3>2. standing(s)' = "error"
      BY <2>1, <2>3 DEF standing, saidIn, gone
    <3> QED
      BY <3>1, <3>2
  <2>5. toldTo(s)' = toldTo(s)
    <3>1. <<>> \in Seq(Piece)
      BY EmptySeq
    <3> QED
      BY <1>1, <2>1, <3>1, ControlTellsNothing DEF toldTo
  <2>6. dueTo(s)' = dueTo(s)
    BY <1>1 DEF dueTo
  <2> QED
    BY <2>4, <2>5, <2>6 DEF Abstract, Promise!Stops
<1>3. CASE conn[s] # "open"
  <2>1. frames'[s] = frames[s] /\ conn'[s] = conn[s]
    BY <1>3 DEF Refuse, send, closeConn, Types
  <2> QED
    BY <1>1, <2>1, SameIs DEF Abstract
<1> QED
  BY <1>2, <1>3

\* A step of the handler is one of the abstract stream.
LEMMA HandlerIs ==
  ASSUME Types, Control, Texts, NEW s \in Session, Handler(s), TextRight(s)'
  PROVE  Abstract(s)
<1>0. HandlerRight(s) /\ RowRight(s) /\ ask' = ask /\ frames[s] \in Seq(Piece)
  BY LineOf DEF Control, Handler, Submit, Refuse, SendFrame, YieldItem, Resume, Answer, StreamEnd,
         NoticeGone, Abandon, Cancel, clientVars
<1>1. CASE Refuse(s)
  BY <1>1, RefuseIs
<1>2. CASE Submit(s) \/ Resume(s) \/ NoticeGone(s) \/ Abandon(s) \/ Cancel(s)
  <2>1. UNCHANGED <<frames, conn>>
    BY <1>2 DEF Submit, Resume, NoticeGone, Abandon, Cancel, clientVars
  <2> QED
    BY <1>0, <2>1, SameIs DEF Abstract
<1>3. CASE SendFrame(s)
  <2>1. task[s] = "fetch" /\ body[s].items # <<>>
    BY <1>0, <1>3 DEF SendFrame, fetched, HandlerRight
  <2>2. CASE conn[s] # "open"
    <3>1. frames'[s] = frames[s] /\ conn'[s] = conn[s]
      BY <1>3, <2>2 DEF SendFrame, send, closeConn, Types
    <3> QED
      BY <1>0, <3>1, SameIs DEF Abstract
  <2>3. CASE conn[s] = "open"
    <3>1. frames'[s] = Append(frames[s], Head(body[s].items))
      BY <1>3, <2>3 DEF SendFrame, send, Types
    <3>2. conn'[s] \in {"open", "closed"} /\ (conn'[s] = "open" \/ terminal(Head(body[s].items)))
      BY <1>3, <2>3 DEF SendFrame, closeConn, gone, terminal, Types
    <3> QED
      BY <1>0, <2>1, <2>3, <3>1, <3>2, SentIs
  <2> QED
    BY <2>2, <2>3
<1>4. CASE YieldItem(s)
  <2>1. task[s] = "fetch" /\ body[s].items # <<>> /\ conn' = conn
    BY <1>0, <1>4 DEF YieldItem, fetched, HandlerRight, clientVars
  <2>2. CASE conn[s] # "open"
    <3>1. frames'[s] = frames[s]
      BY <1>4, <2>2 DEF YieldItem, send, Types
    <3> QED
      BY <1>0, <2>1, <3>1, SameIs DEF Abstract
  <2>3. CASE conn[s] = "open"
    <3>1. frames'[s] = Append(frames[s], Head(body[s].items))
      BY <1>4, <2>3 DEF YieldItem, send, gone, Types
    <3> QED
      BY <1>0, <2>1, <2>3, <3>1, SentIs
  <2> QED
    BY <2>2, <2>3
<1>5. CASE Answer(s)
  <2>1. CASE conn[s] # "open"
    <3>1. frames'[s] = frames[s] /\ conn'[s] = conn[s]
      BY <1>5, <2>1 DEF Answer, send, closeConn, Types
    <3> QED
      BY <1>0, <3>1, SameIs DEF Abstract
  <2>2. CASE conn[s] = "open"
    <3>1. body[s].items # <<>> /\ terminal(Head(body[s].items)) /\ task[s] = "fetch"
      BY <1>5, <2>2, AnswerEnds DEF Answer
    <3>2. frames'[s] = Append(frames[s], Head(body[s].items)) /\ conn'[s] = "closed"
      BY <1>5, <2>2 DEF Answer, send, closeConn, Types
    <3> QED
      BY <1>0, <2>2, <3>1, <3>2, SentIs
  <2> QED
    BY <2>1, <2>2
<1>6. CASE StreamEnd(s)
  <2>1. frames'[s] = frames[s]
    BY <1>6 DEF StreamEnd
  <2>2. CASE conn[s] # "open"
    <3>1. conn'[s] = conn[s]
      BY <1>6, <2>2 DEF StreamEnd, closeConn, Types
    <3> QED
      BY <1>0, <2>1, <3>1, SameIs DEF Abstract
  <2>3. CASE conn[s] = "open"
    <3>1. conn'[s] = "closed"
      BY <1>6, <2>3 DEF StreamEnd, closeConn, Types
    <3> QED
      BY <1>0, <2>1, <2>3, <3>1, ClosingIs DEF Abstract
  <2> QED
    BY <2>2, <2>3
<1> QED
  BY <1>1, <1>2, <1>3, <1>4, <1>5, <1>6 DEF Handler

\* Every step of the server and of its clients is, to each request, one of the abstract
\* stream or none.
LEMMA StreamingIs ==
  ASSUME Types, Control, Texts, Texts', Streaming, NEW t \in Session
  PROVE  Abstract(t)
<1>0. frames[t] \in Seq(Piece) /\ TextRight(t)'
  BY LineOf DEF Texts
<1>1. ASSUME NEW s \in Session, Own(s) PROVE Abstract(t)
  <2>1. CASE t # s
    <3>1. SameAt(t)
      BY <1>1, <2>1, Elsewhere
    <3> QED
      BY <3>1, SameIs DEF SameAt, Abstract
  <2>2. CASE t = s
    <3>1. CASE Worker(s) \/ Drain(s) \/ Admit(s) \/ Emit(s) \/ Finish(s)
      <4>1. UNCHANGED <<frames, conn, ask>>
        BY <3>1 DEF Admit, Emit, Finish, Worker, Works, Poll, TimesOut, Take, Tail_, GiveUp, Drain,
             DrainCancel, DrainJoin, DrainGivesUp, DrainClose, serverVars, clientVars
      <4> QED
        BY <4>1, SameIs DEF Abstract
    <3>2. CASE Handler(s)
      BY <1>0, <2>2, <3>2, HandlerIs
    <3>3. CASE \E r \in scene[s].asks : Open(s, r)
      BY <2>2, <3>3, OpenIs
    <3>4. CASE Leave(s) \/ Lose(s)
      <4>1. /\ frames'[s] = frames[s] /\ ask'[s] = ask[s] /\ conn[s] = "open"
            /\ conn'[s] \in {"left", "lost", "closed"}
        BY <3>4 DEF Leave, Lose, Types, serverVars
      <4> QED
        BY <1>0, <2>2, <4>1, ClosingIs DEF Abstract
    <3> QED
      BY <1>1, <3>1, <3>2, <3>3, <3>4 DEF Own
  <2> QED
    BY <2>1, <2>2
<1>2. CASE TickBegin \/ TickEnd \/ Restart
  <2>1. UNCHANGED <<frames, conn, ask>>
    BY <1>2 DEF TickBegin, TickEnd, Restart, serverVars, clientVars
  <2> QED
    BY <2>1, SameIs DEF Abstract
<1>3. CASE Crash
  <2>1. frames'[t] = frames[t] /\ ask'[t] = ask[t] /\ conn'[t] = IF conn[t] = "open" THEN "lost" ELSE conn[t]
    BY <1>3 DEF Crash
  <2>2. CASE conn[t] = "open"
    BY <1>0, <2>1, <2>2, ClosingIs DEF Abstract
  <2>3. CASE conn[t] # "open"
    BY <2>1, <2>3, SameIs DEF Abstract
  <2> QED
    BY <2>2, <2>3
<1> QED
  BY <1>1, <1>2, <1>3 DEF Streaming, Serve, Tick, Own

\* Of a request that asks nothing, nothing is due.
LEMMA NothingDue == whole[NoAsk].reasoning = <<>> /\ whole[NoAsk].content = <<>>
<1>1. decode(<<>>) = <<>>
  <2> DEFINE step(i, t) == IF <<>>[i] = SecondHalf /\ t # <<>> /\ Last(t) = Unfinished
                           THEN Append(Front(t), WholeChar)
                           ELSE Append(t, IF <<>>[i] = FirstHalf THEN Unfinished ELSE <<>>[i])
             Def(g) == g = [n \in 0 .. Len(<<>>) |-> IF n = 0 THEN <<>> ELSE step(n, g[n - 1])]
             text == CHOOSE g : Def(g)
             none == [n \in 0 .. Len(<<>>) |-> <<>>]
  <2>1. Len(<<>>) = 0 /\ 0 .. Len(<<>>) = {0}
    BY EmptySeq
  <2>2. Def(none)
    <3> HIDE DEF step
    <3>1. \A n \in 0 .. Len(<<>>) : n = 0
      BY <2>1
    <3>2. none = [n \in 0 .. Len(<<>>) |-> IF n = 0 THEN <<>> ELSE step(n, none[n - 1])]
      BY <3>1
    <3> QED
      BY <3>2
  <2>3. Def(text)
    <3> HIDE DEF Def
    <3> QED
      BY <2>2
  <2>4. text[0] = <<>>
    <3> HIDE DEF text, step
    <3> QED
      BY <2>1, <2>3
  <2>5. decode(<<>>) = text[Len(<<>>)]
    BY DEF decode
  <2> HIDE DEF text
  <2> QED
    BY <2>1, <2>4, <2>5
<1>2. ASSUME NEW lit \in Seq(Lits), lit # <<>> PROVE find(<<>>, lit) = 0 /\ before(<<>>, lit) = <<>>
  <2>1. Len(lit) \in Nat \ {0} /\ Len(<<>>) = 0
    BY <1>2, EmptySeq, LenProperties
  <2>2. occurrences(<<>>, lit) = {}
    BY <2>1 DEF occurrences
  <2> QED
    BY <2>2 DEF find, before
<1>3. <<ThinkOpen>> \in Seq(Lits) /\ <<ThinkOpen>> # <<>>
      /\ CallOpen \o <<CallRest>> \in Seq(Lits) /\ CallOpen \o <<CallRest>> # <<>>
  <2>1. CallOpen \o <<CallRest>> # <<>>
    <3>1. CallOpen \o <<CallRest>> = Append(CallOpen, CallRest)
      BY DEF CallOpen
    <3> QED
      BY <3>1, Literals
  <2> QED
    BY <2>1, Literals
<1>4. strip(<<>>) = <<>>
  <2>1. <<>> \in Seq({}) /\ \A t \in Seq({}) : t = <<>>
    BY EmptySeq
  <2>2. lstrip(<<>>, {Space}) = <<>>
    BY <2>1, StripOf
  <2>3. rstrip(<<>>, {Space}) = <<>>
    BY <2>1, StripOf
  <2> QED
    BY <2>2, <2>3 DEF strip
<1>5. split_think(<<>>, FALSE) = [reasoning |-> <<>>, reply |-> <<>>]
  <2>1. marked(<<>>, FALSE) = <<>>
    BY DEF marked
  <2> QED
    BY <1>2, <1>3, <2>1 DEF split_think
<1>6. stop_text(<<>>, {}) = <<>>
  BY DEF stop_text
<1>7. due(NoAsk).reasoning = <<>> /\ due(NoAsk).content = <<>>
  <2>1. split_think(decode(NoAsk.tokens), NoAsk.opened) = [reasoning |-> <<>>, reply |-> <<>>]
    BY <1>1, <1>5 DEF NoAsk
  <2>2. cut_at_stop(<<>>, stop_text(<<>>, NoAsk.stops)) = <<>>
    BY <1>6 DEF cut_at_stop, NoAsk
  <2>3. parse_tool_calls(<<>>).prose = <<>>
    BY <1>2, <1>3, <1>4 DEF parse_tool_calls
  <2> QED
    BY <2>1, <2>2, <2>3 DEF due
<1>8. whole[NoAsk] = due(NoAsk)
  BY DEF whole, Asked
<1> QED
  BY <1>7, <1>8

\* At first nobody asked.
LEMMA InitIs == Init => Promise!Init /\ Texts
<1> SUFFICES ASSUME Init PROVE Promise!Init /\ Texts
  OBVIOUS
<1>1. ASSUME NEW s \in Session
      PROVE  dueTo(s) = empty /\ toldTo(s) = empty /\ standing(s) = "new" /\ TextRight(s)
  <2>1. dueTo(s) = empty
    BY NothingDue DEF Init, dueTo, empty
  <2>2. toldTo(s) = empty
    BY ToldAppend DEF Init, toldTo
  <2>3. standing(s) = "new"
    BY DEF Init, standing
  <2>4. TextRight(s)
    BY DEF Init, TextRight
  <2> QED
    BY <2>1, <2>2, <2>3, <2>4
<1> QED
  BY <1>1 DEF Promise!Init, Promise!Nothing, empty, Texts
=============================================================================
