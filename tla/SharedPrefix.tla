---------------------------- MODULE SharedPrefix ----------------------------
(***************************************************************************)
(* SparsePrefixCache (sparse_engine.py) as operators on the index it keeps:*)
(* entries, least recently used first, the order in which they joined the  *)
(* lookup chains, and per publisher the boundary states, the pages offered *)
(* and the lengths frozen.  An entry names the pages of its text, each     *)
(* under the text that page ends; the entry that still grows with row r is *)
(* <<r, 0>>, the copy frozen at m pages <<r, m>>.                          *)
(***************************************************************************)
EXTENDS ColdPages

CONSTANTS
  Row,
  Prompt,    \* the prompt of each row
  Capacity,  \* entries the index keeps
  B          \* BLOCK_TOKENS

ASSUME IndexAssumption == B \in Nat \ {0} /\ Capacity \in Nat \ {0}

firstTokens(text, n) == SubSeq(text, 1, n)
pageKey(text, p) == firstTokens(text, (p + 1) * B)
pagesOf(text) == 0 .. (Len(text) \div B) - 1
keysOf(text) == {pageKey(text, p) : p \in pagesOf(text)}
promptPages(r) == Len(Prompt[r]) \div B
NoEntry == [id |-> <<>>, text |-> <<>>, state |-> <<>>]

emptyIndex ==
  [entries |-> <<>>, chain |-> <<>>, grow |-> {}, freezing |-> <<>>,
   snap |-> [r \in Row |-> <<>>], pending |-> [r \in Row |-> {}], frozen |-> [r \in Row |-> {}]]

place(x, id) == CHOOSE i \in DOMAIN x.entries : x.entries[i].id = id
inIndex(x, id) == \E i \in DOMAIN x.entries : x.entries[i].id = id
entryOf(x, id) == IF inIndex(x, id) THEN x.entries[place(x, id)] ELSE NoEntry
growLength(x, r) == IF r \in x.grow THEN Len(entryOf(x, <<r, 0>>).text) \div B ELSE 0
growing(x, e) == e.id[2] = 0 /\ e.id[1] \in x.grow

\* Mutant: boundaries past the prompt's pages are kept too.
noteAnyBoundary(x, r, m, state) == [x EXCEPT !.snap[r] = with(@, m, state)]

\* note_boundary keeps two states per row, the lowest boundary and the newest.
noteBoundary(x, r, m, state) ==
  IF m = 0 \/ m > promptPages(r) THEN x
  ELSE LET S == DOMAIN x.snap[r]
           kept == IF Cardinality(S) < 2 THEN S ELSE S \ {CHOOSE n \in S : \A k \in S : k <= n}
       IN  [x EXCEPT !.snap[r] = with(Restrict(@, kept), m, state)]

-----------------------------------------------------------------------------
(* lookup: the longest prefix of the text an entry of the chains covers *)

hits(x, text) == {i \in DOMAIN x.chain : IsPrefix(entryOf(x, x.chain[i]).text, text)}
longest(x, text) ==
  LET length(i) == Len(entryOf(x, x.chain[i]).text)
      I == {i \in hits(x, text) : \A j \in hits(x, text) : length(j) <= length(i)}
  IN  CHOOSE i \in I : \A j \in I : i <= j
hit(x, text) ==
  IF hits(x, text) = {} THEN NoEntry ELSE entryOf(x, x.chain[longest(x, text)])
touched(x, e) ==
  IF e = NoEntry THEN x
  ELSE [x EXCEPT !.entries = Append(SelectSeq(@, LAMBDA y : y.id # e.id), e)]

-----------------------------------------------------------------------------
(* The index and the tier together: c.idx, c.tier *)

unlinked(x, ids) ==
  [x EXCEPT !.entries = SelectSeq(@, LAMBDA e : e.id \notin ids),
            !.chain = SelectSeq(@, LAMBDA id : id \notin ids)]

\* Mutant: the entry's pages keep the reference it held.
dropUnreleased(c, e) == [c EXCEPT !.idx = unlinked(@, {e.id})]

\* _drop
drop(c, e) == [idx |-> unlinked(c.idx, {e.id}), tier |-> shareRelease(c.tier, keysOf(e.text))]

\* _evict_one, of the oldest entry that does not grow with a live row.
evictOne(c) ==
  LET I == {i \in DOMAIN c.idx.entries : ~growing(c.idx, c.idx.entries[i])}
  IN  IF I = {} THEN c ELSE drop(c, c.idx.entries[CHOOSE i \in I : \A j \in I : i <= j])

withinCapacity(c) ==
  FoldLeft(LAMBDA d, e : IF Len(d.idx.entries) > Capacity THEN evictOne(d) ELSE d,
           c, c.idx.entries)

\* The frozen copies waiting for their references, once every page is there.
frozenReffed(c) ==
  LET texts(ids) == [i \in DOMAIN ids |-> entryOf(c.idx, ids[i]).text]
      whole(id) == keysOf(entryOf(c.idx, id).text) \subseteq DOMAIN c.tier.refs
      left == SelectSeq(c.idx.freezing, LAMBDA id : inIndex(c.idx, id))
  IN  [idx |-> [c.idx EXCEPT !.freezing = SelectSeq(left, LAMBDA id : ~whole(id))],
       tier |-> FoldLeft(LAMBDA t, text : shareRef(t, keysOf(text)), c.tier,
                         texts(SelectSeq(left, whole)))]

\* take_freeze_refs and the references its caller takes.
freezeRefsTaken(c) ==
  LET left == SelectSeq(c.idx.freezing, LAMBDA id : inIndex(c.idx, id))
  IN  [idx |-> [c.idx EXCEPT !.freezing = <<>>],
       tier |-> FoldLeft(LAMBDA t, id : shareRef(t, keysOf(entryOf(c.idx, id).text)),
                         c.tier, left)]

-----------------------------------------------------------------------------
(* publish_dropped: the row's own entry grows to the longest frontier *)

\* Pages old .. m-1 all offered and bounded, and a state at m.
frontier(x, r, bounds, old) ==
  LET M == {m \in DOMAIN x.snap[r] : m > old /\ old .. m - 1 \subseteq x.pending[r] \cap bounds}
  IN  IF M = {} THEN old ELSE CHOOSE m \in M : \A n \in M : n <= m

\* Mutant: the entry carries the newest state of the row, not the one at its boundary.
attachedNewest(x, r, text, m) ==
  LET e == [id |-> <<r, 0>>, text |-> text,
            state |-> x.snap[r][CHOOSE n \in DOMAIN x.snap[r] : \A k \in DOMAIN x.snap[r] : k <= n]]
      y == unlinked(x, {e.id})
  IN  [y EXCEPT !.entries = Append(@, e), !.chain = Append(@, e.id), !.grow = @ \cup {r},
                !.snap[r] = without(@, {m}), !.pending[r] = @ \ (growLength(x, r) .. m - 1)]

\* The growing entry of r at m pages: a text already on the chains stays off them.
attached(x, r, text, m) ==
  LET e == [id |-> <<r, 0>>, text |-> text, state |-> x.snap[r][m]]
      off == SelectSeq(x.chain, LAMBDA id : id # e.id)
      dup == \E i \in DOMAIN off : entryOf(x, off[i]).text = text
  IN  [x EXCEPT !.entries = IF inIndex(x, e.id) THEN [@ EXCEPT ![place(x, e.id)] = e]
                            ELSE Append(@, e),
                !.chain = IF dup THEN off ELSE Append(off, e.id),
                !.grow = @ \cup {r},
                !.snap[r] = without(@, {m}),
                !.pending[r] = @ \ (growLength(x, r) .. m - 1)]

\* _freeze: a copy that outlives the row, at the first closure and at the prompt's end.
freeze(x, r, m) ==
  IF m \in x.frozen[r] THEN x
  ELSE LET e == [entryOf(x, <<r, 0>>) EXCEPT !.id = <<r, m>>]
       IN  [x EXCEPT !.entries = Append(@, e), !.chain = Append(@, e.id),
                     !.freezing = Append(@, e.id), !.frozen[r] = @ \cup {m}]

offered(x, r, P) == [x EXCEPT !.pending[r] = @ \cup P]

\* publish_dropped with the pages P just offered; new are the pages to rehome.
publish(c, r, text, bounds, P) ==
  LET x == offered(c.idx, r, P)
      old == growLength(x, r)
      m == frontier(x, r, bounds, old)
      grown == attached(x, r, firstTokens(text, m * B), m)
      kept == IF old = 0 \/ m = promptPages(r) THEN freeze(grown, r, m) ELSE grown
      d == frozenReffed(withinCapacity([idx |-> kept, tier |-> c.tier]))
  IN  IF m = old THEN [idx |-> x, tier |-> c.tier, new |-> <<>>]
      ELSE [idx |-> d.idx, tier |-> d.tier, new |-> [i \in 1 .. m - old |-> old + i - 1]]

\* close_prompt: the longest boundary whose every page has a source.
closable(x, r, sources) ==
  LET old == growLength(x, r)
      M == {m \in DOMAIN x.snap[r] : old < m /\ m <= promptPages(r) /\ old .. m - 1 \subseteq sources}
  IN  IF M = {} THEN {} ELSE old .. (CHOOSE m \in M : \A n \in M : n <= m) - 1

-----------------------------------------------------------------------------
(* abort_close: after is the index with the closed entries, before the one they *)
(* were closed on; landed are the keys that got their reference.                *)

abort(before, after, r, landed) ==
  LET x == after.idx
      idsOf(y) == {y.entries[i].id : i \in DOMAIN y.entries}
      new == idsOf(x) \ idsOf(before)
      old == entryOf(before, <<r, 0>>)
      m == growLength(x, r)
      off == unlinked(x, new)
      back == IF r \notin before.grow THEN [off EXCEPT !.grow = @ \ {r}]
              ELSE [off EXCEPT !.entries[place(off, old.id)] = old,
                               !.chain = Append(SelectSeq(@, LAMBDA id : id # old.id), old.id)]
  IN  [idx |-> [back EXCEPT !.freezing = SelectSeq(@, LAMBDA id : id \notin new),
                            !.frozen[r] = @ \ {m},
                            !.pending[r] = @ \cup (growLength(before, r) .. m - 1)],
       tier |-> shareRelease(after.tier, landed)]

\* drop_request: the row stops growing; its entries age like the others.
dropRequest(x, r) ==
  [x EXCEPT !.grow = @ \ {r}, !.snap[r] = <<>>, !.pending[r] = {}, !.frozen[r] = {}]
=============================================================================
