------------------------------- MODULE Sparse -------------------------------
(***************************************************************************)
(* The sparse engine's tick (engine.py, sparse_runtime.py, SparseForward):  *)
(* admission with a prefix hit, the pages a forward makes resident, what    *)
(* leaves for the host tier afterwards, what is published from there, and   *)
(* the end of a row.  Every running row is in the tick.  One token history  *)
(* stands for the recurrent state, and for the K/V of the last token it     *)
(* saw; tick holds what is left of the current tick.                        *)
(***************************************************************************)
EXTENDS SharedPrefix

CONSTANTS
  MaxNew,      \* tokens a row may generate
  MaxRunning,
  Frames,      \* blocks of the device pool
  K,           \* pages a source group picks by score
  Groups,      \* source groups, each with picks of its own
  Window,      \* WINDOW_PAGES
  Chunk,       \* tokens of a prefill chunk, at most
  Sample,      \* the token every row samples
  MaxFaults    \* bound: calls that raise

ASSUME SparseAssumption ==
  /\ {MaxRunning, Frames, K, Groups, Window, Chunk} \subseteq Nat \ {0}
  /\ MaxFaults \in Nat
  /\ \A r \in Row : Prompt[r] # <<>> /\ MaxNew[r] > 0

VARIABLES
  row, running, idx, tier, tick, faults,
  lost   \* history: how pages were lost that rows or entries still name (LostHow)

vars == <<row, running, idx, tier, tick, faults, lost>>

\* "label": resolve found no shared page under the label of an adopted one; "spill":
\* publish_at_finish went on after a page of another row could not be spilled; "offer":
\* offer_drop raised with its entries attached.
LostHow == {"label", "spill", "offer"}

\* What a block holds that no token has been written to.
Stale == [j \in 1 .. B |-> <<>>]

newRow == [phase |-> "new", toks |-> <<>>, from |-> 0, len |-> 0, state |-> <<>>,
           restore |-> <<>>, matched |-> 0, live |-> <<>>, hot |-> <<>>, cold |-> {},
           shared |-> <<>>, bounds |-> {}, pins |-> {}, had |-> {},
           chunk |-> 0, reserved |-> {}, picks |-> {}]
gone(phase) == [newRow EXCEPT !.phase = phase]
idleTick == [phase |-> "commit", todo |-> <<>>, batch |-> <<>>, drops |-> <<>>]

Init ==
  /\ row = [r \in Row |-> newRow] /\ running = <<>>
  /\ idx = emptyIndex /\ tier = emptyTier
  /\ tick = idleTick /\ faults = 0 /\ lost = {}

idle == tick = idleTick
doing(phase) == tick.phase = phase /\ tick.todo # <<>>
now == Head(tick.todo)
done(phase) == tick.phase = phase /\ tick.todo = <<>>
freeFrames(rw) == Frames - FoldLeft(LAMBDA n, r : n + Len(rw[r].live), 0, running)

-----------------------------------------------------------------------------
(* Admission *)

\* The sparse part of _admit: the hit's bounds, state and page keys, no block.  A
\* prompt matched as a whole runs its last page again, and the exact state is kept
\* to be written back.
adopt(r, e) ==
  LET n == Len(e.text)
      whole == n > 0 /\ n = Len(Prompt[r])
  IN  [newRow EXCEPT !.phase = "prefill", !.toks = Prompt[r], !.len = n,
                     !.from = IF whole THEN n - B ELSE n, !.matched = n,
                     !.shared = [p \in pagesOf(e.text) |-> pageKey(e.text, p)],
                     !.bounds = {p \in pagesOf(e.text) : pageKey(e.text, p) \in DOMAIN tier.refs},
                     !.state = e.state, !.restore = IF whole THEN e.state ELSE <<>>]

\* The requests wait in the order of their numbers.
Admit(r) ==
  /\ idle /\ row[r].phase = "new" /\ Len(running) < MaxRunning
  /\ \A q \in Row : row[q].phase = "new" => r <= q
  /\ LET e == hit(idx, Prompt[r])
     IN  row' = [row EXCEPT ![r] = adopt(r, e)] /\ idx' = touched(idx, e)
  /\ running' = Append(running, r)
  /\ UNCHANGED <<tier, tick, faults, lost>>

-----------------------------------------------------------------------------
(* resolve: one logical page made resident.  c.row is the row, c.tier the host   *)
(* tier, c.free the free frames, c.ok whether the call returned.                 *)

\* _release_private_frame: a page the shared tier has is pinned there and its frame
\* given back; any other page is left to be demoted.
sharedElsewhere(rw, t, p) ==
  p \in DOMAIN rw.shared /\ (rw.shared[p] \in rw.pins \/ rw.shared[p] \in DOMAIN t.refs)

\* Mutant: a page a row has had is not pinned, it goes with the entries that name it.
pinNothing(c, key) == c

pinOnce(c, key) ==
  IF key \in c.row.pins \/ key \notin DOMAIN c.tier.refs THEN c
  ELSE [c EXCEPT !.row.pins = @ \cup {key}, !.tier = pin(@, key)]

off(rw, p) == [rw EXCEPT !.live = SelectSeq(@, LAMBDA q : q # p), !.hot = without(@, {p})]

\* evict_victim: the row's oldest resident page outside what this tick reserved.
evictVictim(c, r) ==
  LET out == SelectSeq(c.row.live, LAMBDA p : p \notin c.row.reserved)
      p == Head(out)
      left == [c EXCEPT !.row = off(@, p), !.free = @ + 1]
  IN  IF out = <<>> THEN [c EXCEPT !.ok = FALSE]
      ELSE IF sharedElsewhere(c.row, c.tier, p) THEN pinOnce(left, c.row.shared[p])
      ELSE [left EXCEPT !.ok = ~contains(c.tier, <<r, p>>),
                        !.row.cold = @ \cup {p},
                        !.tier = hold(@, <<r, p>>, c.row.hot[p])]

resident(c, p, page) ==
  [c EXCEPT !.row.live = Append(@, p), !.row.hot = with(@, p, page), !.free = @ - 1]

\* A page read from the shared tier; had is a history of those.
adopted(c, p, page) == [resident(c, p, page) EXCEPT
                       !.row.had = @ \cup ({p} \cap 0 .. c.row.matched \div B - 1)]

\* Where the page's bytes come from: its private copy, the shared one its label
\* names, which the row then pins, or nowhere.
placed(c, r, p) ==
  IF p \in c.row.cold /\ contains(c.tier, <<r, p>>)
  THEN [resident(c, p, privatePage(c.tier, <<r, p>>)) EXCEPT
          !.tier = forget(@, <<r, p>>), !.row.cold = @ \ {p}]
  ELSE IF p \notin DOMAIN c.row.shared THEN resident(c, p, Stale)
  ELSE IF c.row.shared[p] \notin DOMAIN c.tier.refs
  THEN [resident(c, p, Stale) EXCEPT !.row.shared = without(@, {p})]
  ELSE LET key == c.row.shared[p]
           read == [adopted(c, p, sharedPage(c.tier, key)) EXCEPT
                      !.tier = shareTake(@, key), !.row.cold = @ \ {p}]
       IN  pinOnce(read, key)

resolve(c, r, p) ==
  IF ~c.ok \/ p \in Range(c.row.live) THEN c
  ELSE LET d == IF c.free = 0 THEN evictVictim(c, r) ELSE c
       IN  IF d.ok THEN placed(d, r, p) ELSE d

ascending(P) == SetToSortSeq(P, <)
resolveAll(r, rw, t, P) ==
  FoldLeft(LAMBDA c, p : resolve(c, r, p),
           [row |-> [rw EXCEPT !.reserved = @ \cup P], tier |-> t,
            free |-> freeFrames(row), ok |-> TRUE],
           ascending(P))

-----------------------------------------------------------------------------
(* The tick *)

\* Positions the row's forward consumes, and the pages it writes them to.
decoding(rw) == rw.phase = "decode"
qLo(rw) == IF decoding(rw) THEN rw.len - 1 ELSE rw.from
qHi(rw) == IF decoding(rw) THEN rw.len ELSE rw.from + rw.chunk
atLeast0(n) == IF n < 0 THEN 0 ELSE n
ownFirst(rw) == IF decoding(rw) THEN atLeast0(qLo(rw) \div B - (Window - 1)) ELSE qLo(rw) \div B
own(rw) == ownFirst(rw) .. (qHi(rw) - 1) \div B
cand(rw) == {p \in rw.bounds : p < ownFirst(rw)}

\* select_pages: the top K, and in a prefill the last Window candidates.
window(rw) ==
  IF decoding(rw) THEN {} ELSE {p \in cand(rw) : Cardinality({q \in cand(rw) : q >= p}) <= Window}
selections(rw) ==
  {T \cup window(rw) : T \in {S \in SUBSET cand(rw) :
     Cardinality(S) = IF Cardinality(cand(rw)) < K THEN Cardinality(cand(rw)) ELSE K}}

inOrder(phase) == SelectSeq(running, LAMBDA r : row[r].phase = phase)
tickRows == inOrder("decode") \o inOrder("prefill")
repeated(s, n) == FlattenSeq([i \in 1 .. n |-> s])

\* _finish without publishing and _release: the row's pages, pins and frames.
released(c, r, rw) ==
  [idx |-> dropRequest(c.idx, r),
   tier |-> FoldLeft(LAMBDA t, k : unpin(t, k),
                     FoldLeft(LAMBDA t, p : forget(t, <<r, p>>), c.tier, ascending(rw.cold)),
                     SetToSeq(rw.pins))]

\* step's handler, and _run_forward's for a page that could not be spilled.
failAll(x, t, rw) ==
  LET c == FoldLeft(LAMBDA d, r : released(d, r, rw[r]), [idx |-> x, tier |-> t], running)
  IN  /\ idx' = c.idx /\ tier' = c.tier
      /\ row' = [r \in Row |-> IF r \in Range(running) THEN gone("failed") ELSE row[r]]
      /\ running' = <<>> /\ tick' = idleTick

\* _build_plan: a chunk for each prefill row.
Plan ==
  /\ idle /\ running # <<>>
  /\ \E chunk \in [Row -> 1 .. Chunk] :
       /\ \A r \in Row :
            IF row[r].phase = "prefill" THEN chunk[r] <= Len(row[r].toks) - row[r].from ELSE chunk[r] = 1
       /\ row' = [r \in Row |-> [row[r] EXCEPT
                    !.chunk = IF row[r].phase = "prefill" THEN chunk[r] ELSE 0]]
  /\ tick' = [idleTick EXCEPT !.phase = "own", !.todo = tickRows]
  /\ UNCHANGED <<running, idx, tier, faults, lost>>

\* The next part of the tick begins; the next row of this part, or else the next part.
then(next) == [tick EXCEPT !.phase = next, !.todo =
  IF next = "select" THEN repeated(tickRows, Groups) ELSE tickRows]
advance(next) ==
  tick' = IF Len(tick.todo) = 1 THEN then(next) ELSE [tick EXCEPT !.todo = Tail(@)]

\* The pages P of r made resident, or every row failed when the pool has none for them.
bring(r, P, rw, next) ==
  LET c == resolveAll(r, rw, tier, P)
  IN  IF c.ok THEN /\ row' = [row EXCEPT ![r] = c.row] /\ tier' = c.tier
                   /\ advance(next) /\ UNCHANGED <<running, idx>>
      ELSE failAll(idx, c.tier, [row EXCEPT ![r] = c.row])

\* build_rows: the pages the row's tokens go to.
BringOwn ==
  /\ doing("own") /\ bring(now, own(row[now]), row[now], "select")
  /\ UNCHANGED <<faults, lost>>

\* A page the row adopted and has not had in a frame yet: nothing pins it, and with the
\* last entry that named it, it has gone.
orphaned(r, p) ==
  /\ p < row[r].matched \div B /\ p \notin row[r].had
  /\ p \in DOMAIN row[r].shared /\ row[r].shared[p] \notin DOMAIN tier.refs

\* _select of one group for one row.
selectsOf(r, how) ==
  \E P \in selections(row[r]) :
    /\ lost' = lost \cup how /\ how = IF \E p \in P : orphaned(r, p) THEN {"label"} ELSE {}
    /\ bring(r, P, [row[r] EXCEPT !.picks = @ \cup P], "finalize")

Select == doing("select") /\ selectsOf(now, {}) /\ UNCHANGED faults

\* A label has outlived its page: resolve drops it and the block stays unwritten.
SelectOrphan == doing("select") /\ selectsOf(now, {"label"}) /\ UNCHANGED faults

\* The forward or a promotion raises: every running row fails.
ForwardRaises ==
  /\ doing("select") /\ faults < MaxFaults
  /\ failAll(idx, tier, row)
  /\ faults' = faults + 1
  /\ UNCHANGED lost

-----------------------------------------------------------------------------
(* finalize, once the forward has written its K/V *)

consumed(rw) == rw.state \o SubSeq(rw.toks, qLo(rw) + 1, qHi(rw))
complete(rw) == qHi(rw) \div B

\* The row after its forward: the slots it wrote, and the bounds of whole pages.
forwarded(rw) ==
  LET slot(p, j) == p * B + j - 1
      upTo(q) == rw.state \o SubSeq(rw.toks, qLo(rw) + 1, q + 1)
      bounded == IF rw.bounds = {} THEN 0 ELSE 1 + CHOOSE p \in rw.bounds : \A q \in rw.bounds : q <= p
  IN  [rw EXCEPT
        !.hot = [p \in DOMAIN @ |-> [j \in 1 .. B |->
                   IF slot(p, j) \in qLo(rw) .. qHi(rw) - 1 THEN upTo(slot(p, j)) ELSE @[p][j]]],
        !.bounds = @ \cup {p \in bounded .. complete(rw) - 1 : p \in Range(rw.live)},
        !.state = consumed(rw)]

noted(x, r, rw) ==
  IF qHi(rw) % B = 0 THEN noteBoundary(x, r, complete(rw), consumed(rw)) ELSE x

\* One page that left the union: pinned where it is shared, or joined to the batch.
leaving(c, r, p) ==
  IF sharedElsewhere(c.row, c.tier, p) THEN pinOnce([c EXCEPT !.row = off(@, p)], c.row.shared[p])
  ELSE [c EXCEPT !.row = [off(@, p) EXCEPT !.cold = @ \cup {p}],
                 !.batch = Append(@, [row |-> r, page |-> p, bytes |-> c.row.hot[p]])]

\* What stays is this tick's own pages and picks, in page order.
Finalize ==
  /\ doing("finalize")
  /\ LET r == now
         rw == row[r]
         out == SelectSeq(rw.live, LAMBDA p : p \notin own(rw) \cup rw.picks)
         c == FoldLeft(LAMBDA d, p : leaving(d, r, p),
                       [row |-> forwarded(rw), tier |-> tier, batch |-> tick.batch], out)
     IN  /\ row' = [row EXCEPT ![r] = [c.row EXCEPT !.live = ascending(Range(@)), !.reserved = {}, !.picks = {}]]
         /\ tier' = c.tier
         /\ idx' = noted(idx, r, rw)
         /\ tick' = [tick EXCEPT !.todo = Tail(@), !.batch = c.batch,
                                 !.drops = @ \o [i \in DOMAIN out |-> [row |-> r, page |-> out[i]]]]
  /\ UNCHANGED <<running, faults, lost>>

\* The end of demotions(): one page of the batch held.
batched == Head(tick.batch)
HoldOne ==
  /\ done("finalize") /\ tick.batch # <<>>
  /\ LET key == <<batched.row, batched.page>>
     IN  IF contains(tier, key) THEN failAll(idx, tier, row)
         ELSE /\ tier' = hold(tier, key, batched.bytes)
              /\ tick' = [tick EXCEPT !.batch = Tail(@)]
              /\ UNCHANGED <<row, running, idx>>
  /\ UNCHANGED <<faults, lost>>

\* A private page, of whichever row, cannot be spilled: the rows of the tick fail.
HoldSpillFails ==
  /\ done("finalize") /\ tick.batch # <<>>
  /\ faults < MaxFaults
  /\ LET over == pinned(tier, <<batched.row, batched.page>>, batched.bytes)
     IN  spillMayFail(over) /\ failAll(idx, spillFailed(over), row)
  /\ faults' = faults + 1
  /\ UNCHANGED lost

Held ==
  /\ done("finalize") /\ tick.batch = <<>> /\ tick' = then("commit")
  /\ UNCHANGED <<row, running, idx, tier, faults, lost>>

-----------------------------------------------------------------------------
(* transfer_to_shared: one page of a row under the key of its text *)

source(rw, r) == {p \in 0 .. Len(rw.toks) : p \in Range(rw.live) \/ contains(tier, <<r, p>>)}
keyIn(rw, p) == pageKey(rw.toks, p)

transfer(c, r, p) ==
  LET key == keyIn(c.row, p)
      mine == <<r, p>>
      d == [c EXCEPT !.row.shared = with(@, p, key)]
  IN  IF key \in DOMAIN c.tier.refs
      THEN LET e == [d EXCEPT !.tier = shareRef(@, {key})]
           IN  IF contains(c.tier, mine)
               THEN [e EXCEPT !.tier = forget(@, mine), !.row.cold = @ \ {p}] ELSE e
      ELSE IF contains(c.tier, mine) THEN [d EXCEPT !.tier = shareHoldKv(@, mine, key)]
      ELSE IF p \in Range(c.row.live) THEN [d EXCEPT !.tier = shareHold(@, key, c.row.hot[p])]
      ELSE [d EXCEPT !.ok = FALSE]

transferred(c, r, pages) ==
  FoldLeft(LAMBDA d, p : IF d.ok THEN transfer(d, r, p) ELSE d, c, pages)

\* The tier once page p of a row has its frame copied under its key and a private page it
\* pushed out could not be spilled: p is there, the other is not.
unspilled(c, r, p) ==
  LET over == shareHeld(c.tier, keyIn(c.row, p), c.row.hot[p])
  IN  IF p \in Range(c.row.live) /\ ~contains(c.tier, <<r, p>>)
         /\ keyIn(c.row, p) \notin DOMAIN c.tier.refs /\ spillMayFail(over)
      THEN {spillFailed(over)} ELSE {}

given(c, rw) == [row |-> rw, idx |-> c.idx, tier |-> c.tier, ok |-> TRUE]

-----------------------------------------------------------------------------
(* Commit *)

sampled(rw) ==
  [rw EXCEPT !.toks = Append(@, Sample), !.len = @ + 1, !.phase = "decode"]
spent(r, rw) == Len(rw.toks) - Len(Prompt[r]) >= MaxNew[r]

\* _finish_prefills: the chunk is done; a prompt run again gets its exact state back.
advanced(rw) ==
  IF decoding(rw) THEN rw
  ELSE [rw EXCEPT !.from = qHi(rw), !.len = qHi(rw), !.chunk = 0,
                  !.state = IF qHi(rw) = Len(rw.toks) /\ rw.restore # <<>> THEN rw.restore ELSE @,
                  !.restore = IF qHi(rw) = Len(rw.toks) THEN <<>> ELSE @]
prefilled(rw) == qHi(rw) = Len(rw.toks)

\* The row stays: its prompt is not done, or it takes the token and has budget left.
CommitOn ==
  /\ doing("commit")
  /\ LET rw == advanced(row[now])
     IN  row' = [row EXCEPT ![now] = IF prefilled(row[now]) THEN sampled(rw) ELSE rw]
  /\ prefilled(row[now]) => ~spent(now, row'[now])
  /\ tick' = [tick EXCEPT !.todo = Tail(@)]
  /\ UNCHANGED <<running, idx, tier, faults, lost>>

\* _finish: c is the index and the tier after what publish_at_finish did.
finish(r, c, rw) ==
  LET d == released([idx |-> c.idx, tier |-> c.tier], r, rw)
  IN  /\ row' = [row EXCEPT ![r] = gone("finished")]
      /\ running' = RemoveFirst(running, r)
      /\ idx' = d.idx /\ tier' = d.tier
      /\ tick' = [tick EXCEPT !.todo = Tail(@)]

\* close_prompt, for a row that adopted nothing: the pages to rehome, those whose text is
\* already shared first, then the others once their copies have landed.
closing(r, rw) ==
  LET c == [idx |-> idx, tier |-> tier]
      P == closable(idx, r, source(rw, r))
  IN  IF rw.matched > 0 \/ P = {} THEN [idx |-> idx, tier |-> tier, new |-> <<>>]
      ELSE publish(c, r, rw.toks, rw.bounds, P)
dup(c, rw, p) == keyIn(rw, p) \in DOMAIN c.tier.refs
dupsFirst(c, rw) ==
  SelectSeq(c.new, LAMBDA p : dup(c, rw, p)) \o SelectSeq(c.new, LAMBDA p : ~dup(c, rw, p))

\* The pages of the publish nobody has any more; the first of them raises before a copy
\* is made.
sourceless(c, rw) == {p \in Range(c.new) : ~transfer(given(c, rw), now, p).ok}
dupsBefore(c, rw, P) ==
  Cardinality({p \in Range(c.new) : dup(c, rw, p) /\ \A q \in P : p < q})

\* The row stops: at its budget, or at a stop token, which it does not keep.
lastRow(stopped) ==
  LET rw == advanced(row[now]) IN IF stopped THEN rw ELSE sampled(rw)
maySpend(stopped) ==
  /\ doing("commit") /\ prefilled(row[now])
  /\ stopped \/ spent(now, lastRow(stopped))

Finish ==
  /\ \E stopped \in BOOLEAN :
       /\ maySpend(stopped)
       /\ LET rw == lastRow(stopped)
              c == closing(now, rw)
              d == transferred(given(c, rw), now, dupsFirst(c, rw))
          IN  /\ sourceless(c, rw) = {}
              /\ finish(now, freezeRefsTaken([idx |-> d.idx, tier |-> d.tier]), d.row)
  /\ UNCHANGED <<faults, lost>>

\* publish_at_finish gives up when n pages of all have landed and the tier is t: the
\* publish is undone, the row finishes all the same.
giveUp(rw, d, t, landed) ==
  finish(now, abort(idx, [idx |-> d.idx, tier |-> t], now, {keyIn(rw, p) : p \in landed}), d.row)

\* A page has no source, or a transfer raises.
FinishAbandoned ==
  /\ \E stopped \in BOOLEAN :
       /\ maySpend(stopped)
       /\ LET rw == lastRow(stopped)
              c == closing(now, rw)
              all == dupsFirst(c, rw)
              none == sourceless(c, rw)
          IN  \E n \in 0 .. Len(all) - 1 :
                LET d == transferred(given(c, rw), now, SubSeq(all, 1, n))
                IN  /\ IF none = {} THEN faults < MaxFaults ELSE n = dupsBefore(c, rw, none)
                    /\ faults' = IF none = {} THEN faults + 1 ELSE faults
                    /\ giveUp(rw, d, d.tier, Range(SubSeq(all, 1, n)))
  /\ UNCHANGED lost

\* A page n + 1 that landed pushes a private one out, which cannot be written: the row
\* whose page it was goes on without it.
FinishSpillFails ==
  /\ faults < MaxFaults
  /\ \E stopped \in BOOLEAN :
       /\ maySpend(stopped)
       /\ LET rw == lastRow(stopped)
              c == closing(now, rw)
              all == dupsFirst(c, rw)
          IN  /\ sourceless(c, rw) = {}
              /\ \E n \in 0 .. Len(all) - 1 :
                   LET d == transferred(given(c, rw), now, SubSeq(all, 1, n))
                   IN  \E t \in unspilled(d, now, all[n + 1]) :
                         /\ giveUp(rw, d, t, Range(SubSeq(all, 1, n + 1)))
                         /\ lost' = IF \A k \in DOMAIN d.tier.held \ DOMAIN t.held : k[1] = now
                                    THEN lost ELSE lost \cup {"spill"}
  /\ faults' = faults + 1

-----------------------------------------------------------------------------
(* process_offers *)

drop1 == Head(tick.drops)
offering == done("commit") /\ tick.drops # <<>>
unbounded(d) == d.page \notin row[d.row].bounds

\* publish_dropped: the index with its entries attached, and the pages to rehome.
offer(d) == publish([idx |-> idx, tier |-> tier], d.row, row[d.row].toks, row[d.row].bounds, {d.page})
rehomed(d, n) == transferred(given(offer(d), row[d.row]), d.row, SubSeq(offer(d).new, 1, n))

Offer ==
  /\ offering
  /\ LET r == drop1.row
         c == rehomed(drop1, Len(offer(drop1).new))
         f == freezeRefsTaken([idx |-> c.idx, tier |-> c.tier])
     IN  IF unbounded(drop1) THEN UNCHANGED <<row, idx, tier>>
         ELSE c.ok /\ row' = [row EXCEPT ![r] = c.row] /\ idx' = f.idx /\ tier' = f.tier
  /\ tick' = [tick EXCEPT !.drops = Tail(@)]
  /\ UNCHANGED <<running, faults, lost>>

\* The transfer after n others raises: it has no source, the copy fails, or a private page
\* cannot be spilled for it.  step fails the rows; nobody takes the entries back, and
\* their frozen copies still wait for references.
OfferRaises ==
  /\ offering /\ ~unbounded(drop1)
  /\ \E n \in 0 .. Len(offer(drop1).new) - 1 :
       LET r == drop1.row
           c == rehomed(drop1, n)
           p == offer(drop1).new[n + 1]
           nowhere == ~transfer(c, r, p).ok
       IN  /\ c.ok /\ (nowhere \/ faults < MaxFaults)
           /\ faults' = IF nowhere THEN faults ELSE faults + 1
           /\ \E t \in {c.tier} \cup unspilled(c, r, p) : failAll(c.idx, t, [row EXCEPT ![r] = c.row])
  /\ lost' = lost \cup {"offer"}

-----------------------------------------------------------------------------

\* cancel, of a running row: it publishes nothing.
Cancel(r) ==
  /\ idle /\ r \in Range(running)
  /\ LET c == released([idx |-> idx, tier |-> tier], r, row[r])
     IN  idx' = c.idx /\ tier' = c.tier
  /\ row' = [row EXCEPT ![r] = gone("failed")]
  /\ running' = RemoveFirst(running, r)
  /\ UNCHANGED <<tick, faults, lost>>

\* A write of the shared spill file fails: shared pages stay in RAM from then on.
SharedSpillBreaks ==
  /\ idle /\ HasSsd /\ ~tier.disabled /\ faults < MaxFaults
  /\ tier' = [tier EXCEPT !.disabled = TRUE]
  /\ faults' = faults + 1
  /\ UNCHANGED <<row, running, idx, tick, lost>>

\* No request is left.
LoopIdle == idle /\ running = <<>> /\ (\A r \in Row : row[r].phase # "new") /\ UNCHANGED vars

Next ==
  \/ \E r \in Row : Admit(r) \/ Cancel(r)
  \/ Plan \/ BringOwn \/ Select \/ SelectOrphan \/ ForwardRaises
  \/ Finalize \/ HoldOne \/ HoldSpillFails \/ Held
  \/ CommitOn \/ Finish \/ FinishAbandoned \/ FinishSpillFails
  \/ Offer \/ OfferRaises \/ SharedSpillBreaks \/ LoopIdle

Spec == Init /\ [][Next]_vars

-----------------------------------------------------------------------------

tokens == UNION {Range(Prompt[r]) : r \in Row} \cup {Sample}
isText(s) == Range(s) \subseteq tokens
pages(r) == 0 .. (Len(Prompt[r]) + MaxNew[r]) \div B

\* The type of a row: what it keeps are pages of its own text, each resident page has
\* its bytes, and its states are histories of tokens.
RowTypeOK(r) ==
  LET rw == row[r]
  IN  /\ DOMAIN rw = DOMAIN newRow
      /\ rw.phase \in {"new", "prefill", "decode", "finished", "failed"}
      /\ isText(rw.toks) /\ isText(rw.state) /\ isText(rw.restore)
      /\ {rw.from, rw.len, rw.matched} \subseteq 0 .. Len(rw.toks) /\ rw.chunk \in 0 .. Chunk
      /\ Range(rw.live) = DOMAIN rw.hot /\ IsInjective(rw.live)
      /\ UNION {DOMAIN rw.hot, DOMAIN rw.shared, rw.cold, rw.bounds, rw.had, rw.reserved, rw.picks} \subseteq pages(r)
      /\ \A p \in DOMAIN rw.hot : DOMAIN rw.hot[p] = 1 .. B
      /\ \A k \in rw.pins \cup Range(rw.shared) : IsPrefix(k, rw.toks) /\ Len(k) % B = 0

\* The types of the rows, of the index, whose states stay at the prompt's own pages, and
\* of the tick.
TypeOK ==
  /\ DOMAIN row = Row /\ \A r \in Row : RowTypeOK(r)
  /\ IsInjective(running) /\ Len(running) <= MaxRunning
  /\ Range(running) = {r \in Row : row[r].phase \in {"prefill", "decode"}}
  /\ idx.grow \subseteq Range(running) /\ Range(idx.chain) \subseteq {idx.entries[i].id : i \in DOMAIN idx.entries}
  /\ \A r \in Row : /\ DOMAIN idx.snap[r] \subseteq 1 .. promptPages(r)
                    /\ Cardinality(DOMAIN idx.snap[r]) <= 2
                    /\ idx.pending[r] \subseteq pages(r)
  /\ tick.phase \in {"own", "select", "finalize", "commit"}
  /\ Range(tick.todo) \subseteq Row /\ {b.page : b \in Range(tick.batch)} \subseteq {d.page : d \in Range(tick.drops)}
  /\ faults \in 0 .. MaxFaults /\ lost \subseteq LostHow

fed(r) == IF decoding(row[r]) THEN row[r].len - 1 ELSE row[r].from

\* What resolve would bring for a page of the row, were it named now.
bytesOf(r, p) ==
  LET rw == row[r]
  IN  IF p \in Range(rw.live) THEN rw.hot[p]
      ELSE IF p \in rw.cold /\ contains(tier, <<r, p>>) THEN privatePage(tier, <<r, p>>)
      ELSE IF p \in DOMAIN rw.shared /\ sharedPage(tier, rw.shared[p]) # NoPage
      THEN sharedPage(tier, rw.shared[p])
      ELSE Stale

exact(text, p, n) ==
  [j \in {i \in 1 .. B : p * B + i <= n} |-> firstTokens(text, p * B + j)]

\* Between ticks every page a live row may select holds the K/V of the row's own tokens,
\* wherever it is: on the device, in pinned RAM, in a spill file, or shared under its
\* text (resolve); and its state is the one those tokens leave.  The code loses a page in
\* two ways, and until one has come to pass nothing else does: an adopted page goes with
\* its last entry before the row first had it (orphaned, SelectOrphan), and a row goes on
\* after another one's publish at finish lost its page (FinishSpillFails).  A row that
\* adopts what a raising offer left (OfferRaises) starts from pages nobody has.
RowExact ==
  idle /\ lost = {} => \A r \in Range(running) :
    /\ row[r].restore = <<>> => row[r].state = firstTokens(row[r].toks, fed(r))
    /\ \A p \in 0 .. (fed(r) + B - 1) \div B - 1 :
         \/ orphaned(r, p)
         \/ Restrict(bytesOf(r, p), {i \in 1 .. B : p * B + i <= fed(r)}) = exact(row[r].toks, p, fed(r))

\* An entry of the index serves its text: its state is the one at its boundary, and the
\* shared tier has the K/V of each of its pages (publish_dropped, transfer_to_shared,
\* abort_close), whatever raised before, but for what is not so in the code: an offer that
\* raises leaves its entries (OfferRaises), and a row that has lost a page publishes a block
\* nothing was written to (SelectOrphan, FinishSpillFails).
EntryExact ==
  lost = {} => \A i \in DOMAIN idx.entries :
    LET e == idx.entries[i]
    IN  /\ e.state = e.text
        /\ \A k \in keysOf(e.text) : sharedPage(tier, k) = exact(k, (Len(k) \div B) - 1, Len(k))

naming(k) == Cardinality({i \in DOMAIN idx.entries : k \in keysOf(idx.entries[i].text)})
namedKeys == UNION {keysOf(idx.entries[i].text) : i \in DOMAIN idx.entries}

\* A shared page has a reference for every entry that names it, no other one unless a
\* publish was abandoned, and is there no longer than an entry or a pin needs it
\* (share_release, unpin, abort_close).  Lost bytes change no count; only an offer that
\* raised leaves entries without their references.
RefsCover ==
  /\ "offer" \notin lost =>
       /\ namedKeys \subseteq DOMAIN tier.refs
       /\ \A k \in DOMAIN tier.refs : tier.refs[k] >= naming(k)
  /\ \A k \in DOMAIN tier.refs :
       /\ faults = 0 => tier.refs[k] = naming(k)
       /\ tier.refs[k] > 0 \/ isPinned(tier, k)

\* The tier's books: the running sums are those of the pages in RAM, a shared page is in
\* RAM or in a bucket, every page in RAM has its one place in the LRU order, a pin is
\* one live row's, a private page is one a live row still names, and rows do not have
\* more frames than the pool (hold, forget, pin_if_present, _release).
AccountsExact ==
  /\ tier.used = Cardinality(DOMAIN tier.held)
  /\ tier.sharedRam = Cardinality(DOMAIN tier.blobs)
  /\ DOMAIN tier.blobs \cup DOMAIN tier.bucket = DOMAIN tier.refs
  /\ Len(tier.order) = tier.used + tier.sharedRam
  /\ keysAt(tier, DOMAIN tier.order, "p") = DOMAIN tier.held
  /\ keysAt(tier, DOMAIN tier.order, "s") = DOMAIN tier.blobs
  /\ \A k \in DOMAIN tier.pins \cup UNION {row[r].pins : r \in Range(running)} :
       isPinned(tier, k) /\ tier.pins[k] = Cardinality({r \in Range(running) : k \in row[r].pins})
  /\ \A k \in DOMAIN tier.held \cup DOMAIN tier.ssd : k[1] \in Range(running) /\ k[2] \in row[k[1]].cold
  /\ freeFrames(row) >= 0

\* While shared pages can be spilled, pinned RAM stays within its budget: demotions,
\* read-throughs and publishes all push out what no longer fits (_enforce_budget).
WithinBudget == canSpillShared(tier) => tier.used + tier.sharedRam <= Budget
=============================================================================
