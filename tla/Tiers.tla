------------------------------- MODULE Tiers -------------------------------
(***************************************************************************)
(* What a request can start from besides its own prefill: a stored prefix, *)
(* its snapshot on the card or with the host (SnapshotStore), or a context *)
(* that an earlier process left on disk (BootStore).  Engine.tla has the   *)
(* tick; here a chunk of prefill, a page of decoding and an admission are  *)
(* one step each, and the unit is the page of BLOCK_TOKENS tokens.         *)
(*                                                                         *)
(* Contents are histories: the recurrent state is the pages it consumed,   *)
(* each with the version of the weights it was computed under, and the K/V *)
(* of a page is the state its own layers left, this page included.         *)
(***************************************************************************)
EXTENDS SnapshotStore, BootStore

CONSTANTS
  MaxRunning,       \* StepLimits.max_batch
  Request,          \* requests, each sent to one process at most once
  Prompt, Process,  \* the pages of its prompt, the last one perhaps a tail; who it is sent to
  Tails,            \* pages that are not whole: the end of a ragged prompt
  Reply,            \* a page of generated text
  MaxReply,         \* whole pages its reply may grow by
  Booting,          \* processes that serve with --kv-store
  Saves,            \* the requests on whose row save_boot is called
  Training,         \* processes that update the weights between rollouts
  MaxUpdates,       \* updates of one process
  MaxRot            \* files damaged on disk

LastProcess == Max({Process[r] : r \in Request})

\* The trainer builds its engine without a boot store (cli.py: only serve passes one).
ASSUME TiersAssumption ==
  /\ Booting \cap Training = {}
  /\ IsFiniteSet(Request) /\ Request # {} /\ {MaxRunning, MaxUpdates, MaxRot} \subseteq Nat
  /\ \A r \in Request :
       /\ Prompt[r] \in Seq(Range(Prompt[r])) /\ MaxReply[r] \in Nat
       /\ Len(Prompt[r]) \in 1 .. NumBlocks /\ Len(Prompt[r]) + MaxReply[r] <= NumBlocks
       /\ Process[r] \in Nat \ {0}

VARIABLES
  process,  \* which process runs; everything but the disk goes with it
  weights,  \* updates its trainer has made
  waiting,  \* _waiting
  row,      \* the _Req of each request
  cache,    \* the prefix store, its DRAM tier and the pool's refcounts
  cell,     \* k_pool/v_pool
  rotted

vars == <<process, weights, waiting, row, cache, cell, rotted, disk, saving>>

NoSnapshot == [len |-> 0, state |-> NoState]

newRow(r) ==
  [phase |-> "new", text |-> Prompt[r], blocks |-> <<>>, from |-> 0, state |-> NoState,
   booted |-> FALSE, saved |-> FALSE, interior |-> FALSE, pending |-> NoSnapshot, entry |-> 0]
goneRow(r) == [newRow(r) EXCEPT !.phase = "gone"]

inEngine(r) == row[r].phase \in {"prefill", "decode"}
running == {r \in Request : inEngine(r)}

ragged(text) == Last(text) \in Tails
wholePages(text) == IF ragged(text) THEN Front(text) ELSE text

\* The state that pages from + 1 .. to of a text add to h.
consumed(h, text, from, to) == h \o [i \in 1 .. to - from |-> <<text[from + i], weights>>]
exact(text, n) == consumed(<<>>, text, 0, n)

\* The engine's thread calls save_boot itself: nothing else runs until it is done.
serving == saving = NoSave

engineUnchanged == UNCHANGED <<waiting, row, cache, cell>>
worldUnchanged == UNCHANGED <<process, weights, rotted, bootVars>>

-----------------------------------------------------------------------------
(* Requests *)

Submit(r) ==
  /\ serving /\ row[r].phase = "new" /\ Process[r] = process
  /\ row' = [row EXCEPT ![r].phase = "waiting"]
  /\ waiting' = Append(waiting, r)
  /\ UNCHANGED <<cache, cell>> /\ worldUnchanged

released(c, r) ==
  [c EXCEPT !.ref = [b \in Block |-> @[b] - IF b \in Range(row[r].blocks) THEN 1 ELSE 0]]

\* The row is finished, fails or is cancelled: _release.
Leave(r) ==
  /\ serving /\ inEngine(r)
  /\ row' = [row EXCEPT ![r] = goneRow(r)]
  /\ cache' = released(cache, r)
  /\ UNCHANGED <<waiting, cell>> /\ worldUnchanged

CancelWaiting(r) ==
  /\ serving /\ row[r].phase = "waiting"
  /\ row' = [row EXCEPT ![r] = goneRow(r)]
  /\ waiting' = RemoveFirst(waiting, r)
  /\ UNCHANGED <<cache, cell>> /\ worldUnchanged

-----------------------------------------------------------------------------
(* _admit *)

\* A hit over the whole prompt is a miss, but it has been looked up.
hitOf(look, text) == IF Len(look.hit.text) >= Len(text) THEN NoHit ELSE look.hit

boots(text) ==
  /\ process \in Booting
  /\ wholePages(text) \in Key /\ exists(wholePages(text))

\* The entry the hit came from may have been evicted.  A request that will boot keeps
\* the hit it came with.
matchedAgain(c, hit, text) ==
  IF boots(text) THEN [store |-> c, hit |-> hit]
  ELSE LET look == lookedUp(c, text) IN [store |-> look.store, hit |-> hitOf(look, text)]

\* A boot needs all its blocks, a hit only those past its own.
needed(text, hit) == Len(text) - IF boots(text) THEN 0 ELSE Len(hit.blocks)
checked(got, text) ==
  [store |-> got.store, hit |-> got.hit, enough |-> free(got.store) >= needed(text, got.hit)]

\* The block check, which evicts only if that can help.
roomIn(c, hit, text) ==
  IF free(c) < needed(text, hit) /\ free(c) + reclaimable(c) >= needed(text, hit)
  THEN checked(matchedAgain(evictedUntil(c, needed(text, hit)), hit, text), text)
  ELSE checked([store |-> c, hit |-> hit], text)

roomFor(look, text) == roomIn(look.store, hitOf(look, text), text)
room(held, text) == roomFor(lookedUp(held, text), text)

\* Mutant: an entry that cannot be read stops the admission.
verdictRefusing(text, got) ==
  IF ~got.enough THEN "wait"
  ELSE IF boots(text) THEN IF loads(wholePages(text)) THEN "boot" ELSE "wait"
  ELSE "adopt"

\* What becomes of the head.  An entry that cannot be read is a miss: the hit from
\* before the eviction is used, whose blocks may be free by now, and retain raises.
verdict(text, got) ==
  IF ~got.enough THEN "wait"
  ELSE IF boots(text) /\ loads(wholePages(text)) THEN "boot"
  ELSE IF free(got.store) < Len(text) - Len(got.hit.blocks) THEN "wait"
  ELSE IF \E b \in Range(got.hit.blocks) : got.store.ref[b] = 0 THEN "raise"
  ELSE "adopt"

\* Mutant: one block short.
freshShort(c, n) == CHOOSE s \in [1 .. n - 1 -> freeBlocks(c)] : IsInjective(s)

\* n blocks off the free list; which ones makes no difference.
fresh(c, n) == CHOOSE s \in [1 .. n -> freeBlocks(c)] : IsInjective(s)
withRefs(c, blocks) ==
  [c EXCEPT !.ref = [b \in Block |-> @[b] + IF b \in Range(blocks) THEN 1 ELSE 0]]

admitted(r, blocks, from, state, booted) ==
  /\ row' = [row EXCEPT ![r].phase = "prefill", ![r].blocks = blocks, ![r].from = from,
                        ![r].state = state, ![r].booted = booted]
  /\ waiting' = Tail(waiting)

headMayGo == serving /\ waiting # <<>> /\ Cardinality(running) < MaxRunning

\* The head does not fit, or an exception leaves step before anything has run; the
\* lookups and the evictions have happened.
AdmitNot ==
  /\ headMayGo
  /\ \E got \in {room(cache, row[Head(waiting)].text)} :
       /\ verdict(row[Head(waiting)].text, got) \in {"wait", "raise"}
       /\ cache' = got.store
  /\ UNCHANGED <<waiting, row, cell>> /\ worldUnchanged

AdmitAdopts ==
  /\ headMayGo
  /\ LET text == row[Head(waiting)].text
     IN  \E got \in {room(cache, text)} :
           /\ verdict(text, got) = "adopt"
           /\ LET blocks == got.hit.blocks \o fresh(got.store, Len(text) - Len(got.hit.blocks))
              IN  /\ admitted(Head(waiting), blocks, Len(got.hit.text), got.hit.state, FALSE)
                  /\ cache' = withRefs(got.store, blocks)
  /\ UNCHANGED cell /\ worldUnchanged

\* The key's pages of K/V, copied from disk into the blocks of the row.
copied(key, blocks) ==
  [b \in Block |->
     IF \E i \in DOMAIN key : blocks[i] = b
     THEN disk[key].k[CHOOSE i \in DOMAIN key : blocks[i] = b]
     ELSE cell[b]]

\* A boot that covers the whole prompt forwards the last page again, for its logits.
AdmitBoots ==
  /\ headMayGo
  /\ LET text == row[Head(waiting)].text
         key == wholePages(text)
         from == IF key = text THEN Len(key) - 1 ELSE Len(key)
     IN  \E got \in {room(cache, text)} :
           /\ verdict(text, got) = "boot"
           /\ LET blocks == fresh(got.store, Len(text))
              IN  /\ admitted(Head(waiting), blocks, from, disk[key].aux, TRUE)
                  /\ cache' = withRefs(got.store, blocks)
                  /\ cell' = copied(key, blocks)
  /\ worldUnchanged

-----------------------------------------------------------------------------
(* Forwards *)

\* The K/V of the pages from + 1 .. to, written through the block table.
written(r, text, blocks, from, to) ==
  [b \in Block |->
     IF \E i \in from + 1 .. to : blocks[i] = b
     THEN LET i == CHOOSE i \in from + 1 .. to : blocks[i] = b
          IN  consumed(row[r].state, text, from, i)
     ELSE cell[b]]

publish(c, text, blocks, n, state) == inserted(c, SubSeq(text, 1, n), SubSeq(blocks, 1, n), state)

\* A chunk that ends inside the prompt, on a page boundary: the first boundary is
\* published, the last one held for the prompt's completion.
PrefillOn(r, to) ==
  /\ serving /\ row[r].phase = "prefill"
  /\ to \in row[r].from + 1 .. Len(row[r].text) - 1
  /\ LET me == row[r]
         state == consumed(me.state, me.text, me.from, to)
         held == me.interior /\ ragged(me.text) /\ to = Len(me.text) - 1
     IN  /\ row' = [row EXCEPT ![r].from = to, ![r].state = state, ![r].interior = TRUE,
                               ![r].pending = IF held THEN [len |-> to, state |-> state] ELSE @]
         /\ cell' = written(r, me.text, me.blocks, me.from, to)
         /\ cache' = IF me.interior THEN cache
                     ELSE publish(cache, me.text, me.blocks, to, state)
  /\ UNCHANGED waiting /\ worldUnchanged

\* The rest of the prompt; the whole prompt is published, or the boundary held.
PrefillEnds(r) ==
  /\ serving /\ row[r].phase = "prefill"
  /\ LET me == row[r]
         n == Len(me.text)
         state == consumed(me.state, me.text, me.from, n)
     IN  /\ row' = [row EXCEPT ![r].phase = "decode", ![r].from = n, ![r].state = state,
                               ![r].pending = NoSnapshot]
         /\ cell' = written(r, me.text, me.blocks, me.from, n)
         /\ cache' = IF ~ragged(me.text) THEN publish(cache, me.text, me.blocks, n, state)
                     ELSE IF me.pending.len > 0
                     THEN publish(cache, me.text, me.blocks, me.pending.len, me.pending.state)
                     ELSE cache
  /\ UNCHANGED waiting /\ worldUnchanged

\* A page of reply after whole pages: a block, evicting for it if need be, and an entry
\* at its end, which replaces the row's last one if it is new.
Decode(r) ==
  /\ serving /\ row[r].phase = "decode"
  /\ ~ragged(row[r].text) /\ Len(row[r].text) < Len(Prompt[r]) + MaxReply[r]
  /\ LET me == row[r]
         n == Len(me.text)
         text == Append(me.text, Reply)
         state == consumed(me.state, text, n, n + 1)
         isNew == ~hasEntry(evictedUntil(cache, 1), text)
     IN  \E c \in {evictedUntil(cache, 1)} :
           /\ free(c) > 0
           /\ LET blocks == me.blocks \o fresh(c, 1)
                  stored == publish(withRefs(c, fresh(c, 1)), text, blocks, n + 1, state)
              IN  /\ row' = [row EXCEPT ![r].text = text, ![r].blocks = blocks, ![r].from = n + 1,
                                        ![r].state = state,
                                        ![r].entry = IF isNew THEN n + 1 ELSE @]
                  /\ cell' = written(r, text, blocks, n, n + 1)
                  /\ cache' = IF isNew /\ me.entry > 0 THEN retired(stored, SubSeq(text, 1, me.entry))
                              ELSE stored
  /\ UNCHANGED waiting /\ worldUnchanged

\* A row that cannot have its next block fails, whatever was evicted for it.
DecodeFails(r) ==
  /\ serving /\ row[r].phase = "decode"
  /\ ~ragged(row[r].text) /\ Len(row[r].text) < Len(Prompt[r]) + MaxReply[r]
  /\ LET c == evictedUntil(cache, 1) IN free(c) = 0 /\ cache' = released(c, r)
  /\ row' = [row EXCEPT ![r] = goneRow(r)]
  /\ UNCHANGED <<waiting, cell>> /\ worldUnchanged

-----------------------------------------------------------------------------
(* Training, saving, and the life of a process *)

\* An optimizer step, after every rollout has been drained, and invalidate_weights.
Update ==
  /\ process \in Training /\ weights < MaxUpdates
  /\ waiting = <<>> /\ running = {}
  /\ weights' = weights + 1
  /\ cache' = cleared(cache)
  /\ UNCHANGED <<process, waiting, row, cell, rotted, bootVars>>

\* Mutant: a row that has not prefilled all of its prompt is saved.
SaveBootEarly(r) ==
  /\ r \in Saves /\ process \in Booting /\ inEngine(r) /\ ~row[r].saved
  /\ LET key == wholePages(row[r].text)
     IN  /\ key \in Key
         /\ SaveBegin(key, [i \in DOMAIN key |-> cell[row[r].blocks[i]]], row[r].state)
  /\ row' = [row EXCEPT ![r].saved = TRUE]
  /\ UNCHANGED <<process, weights, waiting, cache, cell, rotted>>

\* save_boot of a decode row: its whole pages, and the state where the row is.
SaveBoot(r) ==
  /\ r \in Saves /\ process \in Booting /\ row[r].phase = "decode" /\ ~row[r].saved
  /\ LET key == wholePages(row[r].text)
     IN  /\ key \in Key
         /\ SaveBegin(key, [i \in DOMAIN key |-> cell[row[r].blocks[i]]], row[r].state)
  /\ row' = [row EXCEPT ![r].saved = TRUE]
  /\ UNCHANGED <<process, weights, waiting, cache, cell, rotted>>

Saving == SaveMove /\ engineUnchanged /\ UNCHANGED <<process, weights, rotted>>

\* The process exits or dies, at any moment, and the next one starts.
NextProcess ==
  /\ process < LastProcess
  /\ process' = process + 1 /\ weights' = 0 /\ waiting' = <<>>
  /\ row' = [r \in Request |-> IF row[r].phase = "new" /\ Process[r] > process
                               THEN row[r] ELSE goneRow(r)]
  /\ cache' = emptyStore /\ cell' = [b \in Block |-> <<>>]
  /\ SaveLost /\ UNCHANGED rotted

Damage ==
  /\ rotted < MaxRot /\ rotted' = rotted + 1
  /\ \E key \in Key, f \in File : Rot(key, f)
  /\ engineUnchanged /\ UNCHANGED <<process, weights>>

-----------------------------------------------------------------------------

Init ==
  /\ process = 1 /\ weights = 0 /\ waiting = <<>>
  /\ row = [r \in Request |-> newRow(r)]
  /\ cache = emptyStore /\ cell = [b \in Block |-> <<>>]
  /\ rotted = 0 /\ BootInit

Forward(r) ==
  \/ PrefillEnds(r) \/ Decode(r) \/ DecodeFails(r)
  \/ \E to \in 1 .. NumBlocks : PrefillOn(r, to)

Next ==
  \/ AdmitNot \/ AdmitAdopts \/ AdmitBoots
  \/ Update \/ Saving \/ NextProcess \/ Damage
  \/ \E r \in Request : Submit(r) \/ Leave(r) \/ CancelWaiting(r) \/ Forward(r) \/ SaveBoot(r)

Spec == Init /\ [][Next]_vars

-----------------------------------------------------------------------------
(* Properties *)

TypeOK ==
  /\ process \in 1 .. LastProcess /\ weights \in 0 .. MaxUpdates /\ rotted \in 0 .. MaxRot
  /\ waiting \in Seq(Request)
  /\ \A r \in Request :
       /\ row[r].phase \in {"new", "waiting", "prefill", "decode", "gone"}
       /\ row[r].from \in 0 .. Len(row[r].text) /\ row[r].blocks \in Seq(Block)
       /\ inEngine(r) => Len(row[r].blocks) = Len(row[r].text) /\ IsInjective(row[r].blocks)
  /\ cache.ref \in [Block -> Nat] /\ cache.used \in Nat /\ cache.heldBytes \in Nat

rowExact(r) ==
  /\ row[r].state = exact(row[r].text, row[r].from)
  /\ \A i \in 1 .. row[r].from : cell[row[r].blocks[i]] = exact(row[r].text, i)

\* However a row came by what it did not prefill itself, a prefix, a promoted snapshot
\* or a context from disk, its K/V and its state are those of its own text, each page
\* once, under the weights of today.
RowExact == \A r \in running : rowExact(r)

\* What the store can still serve is right: the pages of every entry, and its snapshot
\* wherever it is, under the weights of today.
EntryServes ==
  \A i \in DOMAIN cache.entries :
    LET e == cache.entries[i]
        n == Len(e.text)
    IN  /\ \A p \in 1 .. n : cell[e.blocks[p]] = exact(e.text, p)
        /\ ~e.demoted => e.state = exact(e.text, n)
        /\ \A k \in heldFor(cache, e.text) : cache.held[k].state = exact(e.text, n)

\* The books of both tiers agree with what they hold: resident bytes, host bytes within
\* the budget, no snapshot with the host but those of demoted entries, and every block
\* held once by each row and each entry that has it.
AccountsExact ==
  /\ cache.used = Cardinality(resident(cache))
  /\ cache.heldBytes = Len(cache.held) /\ cache.heldBytes <= DramBytes
  /\ \A k \in DOMAIN cache.held :
       \E i \in DOMAIN cache.entries :
         cache.entries[i].demoted /\ cache.entries[i].text = cache.held[k].text
  /\ \A b \in Block :
       cache.ref[b] = Cardinality({r \in running : b \in Range(row[r].blocks)})
                        + holds(cache, DOMAIN cache.entries, b)

\* The store's order and the host's are kept apart and agree: a snapshot is further
\* from the card than another only if its entry was used less recently.
TiersInOrder ==
  LET e == cache.entries
      level(i) == IF ~e[i].demoted THEN 2 ELSE IF heldFor(cache, e[i].text) # {} THEN 1 ELSE 0
  IN  \A i, j \in DOMAIN e : i < j => level(i) <= level(j)

\* What is on disk changes only as the store's specification says: a save that begins
\* has the very K/V and state that a prefill of its key computes, whatever the row that
\* is saved adopted, evicted for or shared, and its files are moved in their order or not.
SavesPrefills == BootSpec

\* A row that booted continues as if it had prefilled: when its prompt is done, its K/V
\* and its state are its prompt's.
BootedAsPrefilled == \A r \in running : row[r].booted /\ row[r].phase = "decode" => rowExact(r)

\* Whatever the store keeps, the host lost or the disk damaged, a request that waits
\* while no row runs is admitted, by this tick or, if this one raises, by the next.
HeadNotStuck ==
  waiting # <<>> /\ running = {} =>
    LET text == row[Head(waiting)].text
    IN  \E got \in {room(cache, text)} :
          \/ verdict(text, got) \in {"adopt", "boot"}
          \/ /\ verdict(text, got) = "raise"
             /\ verdict(text, room(got.store, text)) \in {"adopt", "boot"}
=============================================================================
