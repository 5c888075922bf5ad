--------------------------- MODULE SnapshotStore ---------------------------
(***************************************************************************)
(* PrefixStore with its DRAM tier (kv_cache.py, kv_tiers.py: DramSnapshots)*)
(* as operators on what they keep: entries, least recently used first, the *)
(* bytes of their resident snapshots, the snapshots the host holds, oldest *)
(* first, and the refcounts of the pool's blocks.  A snapshot is one byte, *)
(* whatever the prefix; Engine.tla has the store without the tier.         *)
(***************************************************************************)
EXTENDS Kept, FiniteSets, SequencesExt

CONSTANTS
  NumBlocks,
  Capacity,    \* entries the store keeps
  StateBytes,  \* snapshots it keeps on the card
  DramBytes    \* snapshots the host keeps; 0: no tier

ASSUME StoreAssumption == {NumBlocks, Capacity, StateBytes} \subseteq Nat \ {0} /\ DramBytes \in Nat

Block == 1 .. NumBlocks

\* What an entry whose snapshot is not on the card has for a state.
NoState == <<>>
NoHit == [text |-> <<>>, blocks |-> <<>>, state |-> NoState]

emptyStore ==
  [entries |-> <<>>, used |-> 0, held |-> <<>>, heldBytes |-> 0, ref |-> [b \in Block |-> 0]]

freeBlocks(c) == {b \in Block : c.ref[b] = 0}
free(c) == Cardinality(freeBlocks(c))

holds(c, I, b) == Cardinality({i \in I : b \in Range(c.entries[i].blocks)})
reclaimable(c) ==
  Cardinality({b \in Block : LET n == holds(c, DOMAIN c.entries, b) IN n > 0 /\ c.ref[b] = n})

heldFor(c, text) == {i \in DOMAIN c.held : c.held[i].text = text}

-----------------------------------------------------------------------------

\* Mutant: the entry goes, the host keeps its snapshot.
droppedNotForgotten(c, I) ==
  LET gone == {c.entries[i].text : i \in I}
  IN  [c EXCEPT
         !.entries = those(@, {e \in Range(@) : e.text \notin gone}),
         !.ref = [b \in Block |-> @[b] - holds(c, I, b)],
         !.used = @ - Cardinality({i \in I : ~c.entries[i].demoted})]

\* _drop of the entries I: blocks, resident bytes and held snapshots go together.
dropped(c, I) ==
  LET gone == {c.entries[i].text : i \in I}
      kept == those(c.held, {h \in Range(c.held) : h.text \notin gone})
  IN  [c EXCEPT
         !.entries = those(@, {e \in Range(@) : e.text \notin gone}),
         !.ref = [b \in Block |-> @[b] - holds(c, I, b)],
         !.used = @ - Cardinality({i \in I : ~c.entries[i].demoted}),
         !.held = kept,
         !.heldBytes = @ - (Len(c.held) - Len(kept))]

\* Mutant: only the entries whose snapshot is on the card are cleared.
clearedResident(c) == dropped(c, {i \in DOMAIN c.entries : ~c.entries[i].demoted})

\* clear
cleared(c) == dropped(c, DOMAIN c.entries)

\* evict_until_free: least recently used first, as many as it takes, or all.
evictedUntil(c, n) ==
  LET enough == {k \in 0 .. Len(c.entries) : free(dropped(c, 1 .. k)) >= n}
  IN  dropped(c, 1 .. IF enough = {} THEN Len(c.entries) ELSE Min(enough))

-----------------------------------------------------------------------------
(* DramSnapshots *)

\* demote: the oldest go while there are more than the budget allows.
tookIn(c, text, state) ==
  LET all == Append(c.held, [text |-> text, state |-> state])
      kept == SubSeq(all, Max({1, Len(all) - DramBytes + 1}), Len(all))
  IN  [c EXCEPT !.held = kept, !.heldBytes = @ + 1 - (Len(all) - Len(kept))]

\* _demote_one: the least recently used resident snapshot, if the tier can hold one.
resident(c) == {i \in DOMAIN c.entries : ~c.entries[i].demoted}
canDemote(c) == resident(c) # {} /\ DramBytes > 0

\* Mutant: the most recently used one.
demotedNewest(c) ==
  LET i == Max(resident(c))
      e == c.entries[i]
  IN  [tookIn(c, e.text, e.state) EXCEPT
         !.entries[i].demoted = TRUE, !.entries[i].state = NoState, !.used = @ - 1]

demotedOne(c) ==
  LET i == Min(resident(c))
      e == c.entries[i]
  IN  [tookIn(c, e.text, e.state) EXCEPT
         !.entries[i].demoted = TRUE, !.entries[i].state = NoState, !.used = @ - 1]

\* promote, and its bytes are charged again.
promoted(c, i) ==
  LET k == Min(heldFor(c, c.entries[i].text))
  IN  [c EXCEPT !.entries[i].demoted = FALSE, !.entries[i].state = c.held[k].state,
                !.used = @ + 1, !.held = RemoveAt(@, k), !.heldBytes = @ - 1]

-----------------------------------------------------------------------------
(* insert and lookup *)

over(c) == Len(c.entries) > Capacity \/ c.used > StateBytes

\* One turn of insert's loop: bytes are relieved by a demotion, a count only by an eviction.
trimmedOnce(c) ==
  IF ~over(c) THEN c
  ELSE IF Len(c.entries) <= Capacity /\ canDemote(c) THEN demotedOne(c)
  ELSE dropped(c, {1})

\* Every entry is demoted at most once and evicted at most once.
trimmed(c) ==
  LET after[n \in 0 .. 2 * Len(c.entries)] == IF n = 0 THEN c ELSE trimmedOnce(after[n - 1])
  IN  after[2 * Len(c.entries)]

hasEntry(c, text) == \E i \in DOMAIN c.entries : c.entries[i].text = text

inserted(c, text, blocks, state) ==
  IF hasEntry(c, text) THEN c
  ELSE trimmed([c EXCEPT
         !.entries = Append(@, [text |-> text, blocks |-> blocks, state |-> state, demoted |-> FALSE]),
         !.used = @ + 1,
         !.ref = [b \in Block |-> @[b] + IF b \in Range(blocks) THEN 1 ELSE 0]])

retired(c, text) == dropped(c, {i \in DOMAIN c.entries : c.entries[i].text = text})

matching(c, text) == {i \in DOMAIN c.entries : IsPrefix(c.entries[i].text, text)}
matchable(c, i) == ~c.entries[i].demoted \/ heldFor(c, c.entries[i].text) # {}

longestOf(c, I) == CHOOSE i \in I : \A j \in I : Len(c.entries[j].text) <= Len(c.entries[i].text)

\* A hit is made the most recently used.
hitAt(c, i) ==
  [store |-> [c EXCEPT !.entries = Append(RemoveAt(@, i), @[i])],
   hit |-> [text |-> c.entries[i].text, blocks |-> c.entries[i].blocks, state |-> c.entries[i].state]]

\* Mutant: a snapshot the host no longer has is an entry without a state.
lookedUpLost(c, text) ==
  IF matching(c, text) = {} THEN [store |-> c, hit |-> NoHit]
  ELSE LET i == longestOf(c, matching(c, text))
       IN  hitAt(IF c.entries[i].demoted /\ matchable(c, i) THEN promoted(c, i) ELSE c, i)

\* The matches that are longer than any whose snapshot is there are dropped on the way.
withoutLost(c, text) ==
  LET live == {i \in matching(c, text) : matchable(c, i)}
  IN  dropped(c, {i \in matching(c, text) :
                    \A j \in live : Len(c.entries[i].text) > Len(c.entries[j].text)})
found(c, i) == hitAt(IF c.entries[i].demoted THEN promoted(c, i) ELSE c, i)
longestIn(c, text) ==
  IF matching(c, text) = {} THEN [store |-> c, hit |-> NoHit]
  ELSE found(c, longestOf(c, matching(c, text)))

\* lookup: the longest stored prefix whose snapshot is there, promoted if the host has it.
lookedUp(c, text) == longestIn(withoutLost(c, text), text)
=============================================================================
