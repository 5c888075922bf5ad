----------------------------- MODULE ColdPages -----------------------------
(***************************************************************************)
(* HostKvPages (kv_tiers.py) as operators on what the host tier keeps:     *)
(* the pages one row demoted, under <<row, page>>, and the pages rows      *)
(* share, under the text they end.  Pinned RAM holds Budget pages of both, *)
(* in one LRU order; what no longer fits goes to a spill file per kind, or *)
(* is dropped when there is none.  A page is one byte, and two texts never *)
(* have one key.                                                           *)
(***************************************************************************)
EXTENDS Integers, Sequences, FiniteSets, SequencesExt

CONSTANTS
  Budget,  \* pages the pinned RAM may hold
  HasSsd   \* TRUE: a spill path is set

ASSUME ColdAssumption == Budget \in Nat \ {0} /\ HasSsd \in BOOLEAN

\* A page that is not there.
NoPage == <<>>

emptyTier ==
  [held |-> <<>>, ssd |-> <<>>, used |-> 0,                          \* private
   refs |-> <<>>, blobs |-> <<>>, bucket |-> <<>>, sharedRam |-> 0,  \* shared
   pins |-> <<>>, order |-> <<>>, disabled |-> FALSE]

with(f, k, v) == (k :> v) @@ f
without(f, K) == Restrict(f, DOMAIN f \ K)
leave(order, ns, K) == SelectSeq(order, LAMBDA o : ~(o.ns = ns /\ o.key \in K))

contains(t, key) == key \in DOMAIN t.held \cup DOMAIN t.ssd
canSpillShared(t) == HasSsd /\ ~t.disabled

-----------------------------------------------------------------------------
(* _enforce_budget: the oldest pages that may go, until the rest fits.  A shared *)
(* page that cannot be spilled is parked behind the pages still to be looked at. *)

mayGo(t, i) == t.order[i].ns = "p" \/ canSpillShared(t)

\* Mutant: one page too few.
victimsButOne(t) ==
  LET I == {i \in DOMAIN t.order : mayGo(t, i)}
  IN  {i \in I : Cardinality({j \in I : j <= i}) < t.used + t.sharedRam - Budget}

victims(t) ==
  LET I == {i \in DOMAIN t.order : mayGo(t, i)}
  IN  {i \in I : Cardinality({j \in I : j <= i}) <= t.used + t.sharedRam - Budget}

keysAt(t, I, ns) == {t.order[i].key : i \in {j \in I : t.order[j].ns = ns}}

\* The pages of the places I leave RAM; the private ones of written reach their file.
evict(t, I, written) ==
  LET private == keysAt(t, I, "p")
      shared == keysAt(t, I, "s")
      seen == IF I = {} THEN 0 ELSE CHOOSE i \in I : \A j \in I : j <= i
  IN  [t EXCEPT !.held = without(@, private), !.used = @ - Cardinality(private),
                !.ssd = IF HasSsd THEN Restrict(t.held, keysAt(t, written, "p")) @@ @ ELSE @,
                !.blobs = without(@, shared), !.sharedRam = @ - Cardinality(shared),
                !.bucket = Restrict(t.blobs, shared) @@ @,
                !.order = LET parked == [i \in 1 .. seen |-> @[i]]
                          IN  leave(leave(SubSeq(@, seen + 1, Len(@)) \o parked, "p", private),
                                    "s", shared)]

enforced(t) == evict(t, victims(t), victims(t))

\* _write_ssd raises for the first private page to go: it has left RAM by then.
spillMayFail(t) == HasSsd /\ \E i \in victims(t) : t.order[i].ns = "p"
spillFailed(t) ==
  LET I == {i \in victims(t) : t.order[i].ns = "p"}
      first == CHOOSE i \in I : \A j \in I : i <= j
  IN  evict(t, {i \in victims(t) : i <= first}, {})

-----------------------------------------------------------------------------
(* Private pages *)

pinned(t, key, page) ==
  [t EXCEPT !.held = with(@, key, page), !.used = @ + 1,
            !.order = Append(@, [ns |-> "p", key |-> key])]

\* hold, which refuses a key the tier has.
hold(t, key, page) == enforced(pinned(t, key, page))

\* Mutant: RAM is left, the running sum of its bytes is not.
forgetNotCounted(t, key) ==
  [t EXCEPT !.held = without(@, {key}), !.ssd = without(@, {key}), !.order = leave(@, "p", {key})]

\* forget; take is the same with the page returned.
forget(t, key) ==
  [t EXCEPT !.used = IF key \in DOMAIN t.held THEN @ - 1 ELSE @,
            !.held = without(@, {key}), !.ssd = without(@, {key}),
            !.order = leave(@, "p", {key})]

privatePage(t, key) == IF key \in DOMAIN t.held THEN t.held[key] ELSE t.ssd[key]

-----------------------------------------------------------------------------
(* Shared pages *)

sharePlaced(t, key, page) ==
  [t EXCEPT !.refs = with(@, key, 1), !.blobs = with(@, key, page), !.sharedRam = @ + 1,
            !.order = Append(@, [ns |-> "s", key |-> key])]

shareHeld(t, key, page) ==
  IF key \in DOMAIN t.refs THEN [t EXCEPT !.refs[key] = @ + 1] ELSE sharePlaced(t, key, page)

\* share_hold
shareHold(t, key, page) ==
  IF key \in DOMAIN t.refs THEN shareHeld(t, key, page) ELSE enforced(shareHeld(t, key, page))

\* share_hold_kv: the private page changes hands.  One already spilled goes to the
\* shared file, and to RAM only when that cannot be written; the budget is not enforced.
shareHoldKv(t, private, key) ==
  LET page == privatePage(t, private)
      left == forget(t, private)
  IN  IF private \in DOMAIN t.held THEN shareHold(left, key, page)
      ELSE IF key \in DOMAIN t.refs \/ ~canSpillShared(t) THEN shareHeld(left, key, page)
      ELSE [left EXCEPT !.refs = with(@, key, 1), !.bucket = with(@, key, page)]

sharedPage(t, key) ==
  IF key \in DOMAIN t.blobs THEN t.blobs[key]
  ELSE IF key \in DOMAIN t.bucket THEN t.bucket[key] ELSE NoPage

\* share_take: a spilled page is read through into RAM, which may push others out.
shareTake(t, key) ==
  IF key \notin DOMAIN t.bucket THEN t
  ELSE enforced([t EXCEPT !.bucket = without(@, {key}), !.blobs = with(@, key, t.bucket[key]),
                          !.sharedRam = @ + 1, !.order = Append(@, [ns |-> "s", key |-> key])])

deleted(t, K) ==
  [t EXCEPT !.refs = without(@, K), !.order = leave(@, "s", K),
            !.sharedRam = @ - Cardinality(K \cap DOMAIN t.blobs),
            !.blobs = without(@, K), !.bucket = without(@, K)]

isPinned(t, key) == key \in DOMAIN t.pins

\* share_release of each key of K.
shareRelease(t, K) ==
  LET fewer == [t EXCEPT !.refs = [k \in DOMAIN @ |-> IF k \in K THEN @[k] - 1 ELSE @[k]]]
  IN  deleted(fewer, {k \in K \cap DOMAIN t.refs : fewer.refs[k] <= 0 /\ ~isPinned(t, k)})

\* share_ref of each key of K.
shareRef(t, K) == [t EXCEPT !.refs = [k \in DOMAIN @ |-> IF k \in K THEN @[k] + 1 ELSE @[k]]]

\* pin_if_present, of a key that is.
pin(t, key) == [t EXCEPT !.pins = with(@, key, IF isPinned(t, key) THEN @[key] + 1 ELSE 1)]

\* unpin: the last pin deletes a page no entry names any more.
unpin(t, key) ==
  IF isPinned(t, key) /\ t.pins[key] > 1 THEN [t EXCEPT !.pins[key] = @ - 1]
  ELSE LET free == [t EXCEPT !.pins = without(@, {key})]
       IN  IF key \in DOMAIN t.refs /\ t.refs[key] <= 0 THEN deleted(free, {key}) ELSE free
=============================================================================
