---------------------------- MODULE EnginePools ----------------------------
(***************************************************************************)
(* The state the dense engine keeps and the operations of its three pools: *)
(* the paged KV pool and the recurrent-state pool (kv_cache.py), and the   *)
(* LRU prefix store over the former.  Engine.tla drives them, one tick at  *)
(* a time.                                                                 *)
(*                                                                         *)
(* Contents are histories.  The K/V of position p depends on the tokens up *)
(* to and including p, and the recurrent state on every token consumed, so *)
(* a cell of the pool holds the token sequence its K/V was computed over   *)
(* and a state slot the sequence it has consumed.  A cell that was never   *)
(* overwritten keeps the history of whoever wrote it last.                 *)
(***************************************************************************)
EXTENDS Kept, FiniteSets, SequencesExt

CONSTANTS
  BlockTokens,       \* BLOCK_TOKENS, 16 in the code
  Bucket,            \* _PREFILL_BUCKET, 64 in the code
  NumBlocks,         \* KV blocks rows may use
  NumSlots,          \* recurrent-state slots rows may use
  MaxBatch,          \* StepLimits.max_batch
  MaxBatchedTokens,  \* StepLimits.max_num_batched_tokens
  MaxInflight,       \* StepLimits.max_inflight
  Capacity,          \* entries the prefix store keeps (count or state bytes)
  Drafter,           \* "none", "head" (DraftHead) or "block" (the block drafter)
  Width,             \* verify width: 1 committed token + Width-1 drafts
  Vocab, Stop,       \* what the trunk can sample; Stop is in stop_token_ids
  EndThink,          \* end_think_ids
  Req,               \* the requests clients may submit
  Prompt, MaxNew, ThinkCap,  \* per request; ThinkCap[r] = NoCap: no budget
  StopTexts          \* the requests that carry stop_texts

NoCap == -1
NoSlot == 0

ASSUME PoolAssumption ==
  /\ {BlockTokens, Bucket, NumBlocks, NumSlots, MaxBatch, MaxBatchedTokens, Width}
       \subseteq Nat \ {0}
  /\ Bucket \in {n * BlockTokens : n \in 1 .. Bucket}
  /\ Capacity \in Nat /\ MaxInflight \in Nat
  /\ MaxBatch <= MaxBatchedTokens

ASSUME EndThinkAssumption == EndThink \in Seq(Range(EndThink))

ASSUME DraftAssumption ==
  /\ Drafter \in {"none", "head", "block"}
  /\ Width <= BlockTokens /\ (Drafter = "none" <=> Width = 1)

\* submit refuses what the pool could never hold, drafts past the last token included.
ASSUME RequestAssumption ==
  \A r \in Req :
    /\ Prompt[r] \in Seq(Range(Prompt[r])) /\ Len(Prompt[r]) > 0
    /\ MaxNew[r] \in Nat /\ ThinkCap[r] \in Nat \cup {NoCap}
    /\ MaxNew[r] > 0 =>
         Len(Prompt[r]) + MaxNew[r] + Width - 1 <= NumBlocks * BlockTokens

Block == 1 .. NumBlocks
Slot == 1 .. NumSlots
Offset == 0 .. BlockTokens - 1
Draw == Vocab \cup {Stop}
Tokens == Draw \cup Range(EndThink) \cup UNION {Range(Prompt[r]) : r \in Req}

VARIABLES
  waiting,     \* _waiting: submitted, not admitted
  running,     \* _running: admitted, not finished
  row,         \* the _Req of each request
  result,      \* _finished and _failed, and what take() has popped from them
  free, ref,   \* PagedKvPool._free (popped at its end) and refcount
  cell,        \* k_pool/v_pool
  freeSlots,   \* LinearStatePool._free
  state,       \* LinearStatePool.states and conv_windows
  store,       \* PrefixStore._by_id: entries, least recently used first
  blocksUsed,  \* _blocks_used
  agenda       \* what is left of the tick that holds _lock; <<>> when none does

vars == <<waiting, running, row, result, free, ref, cell, freeSlots, state, store,
          blocksUsed, agenda>>

blocksForTokens(n) == (n + BlockTokens - 1) \div BlockTokens

\* Mutant: a token that begins a block is thought to fit the one before.
decodeExtraBlocksLate(seqLen, q, held) == Max({0, (seqLen + q - 2) \div BlockTokens - held})

\* _decode_extra_blocks: the blocks a decode row lacks for a chain of q tokens,
\* whose last write is at position seqLen + q - 2.
decodeExtraBlocks(seqLen, q, held) ==
  Max({0, (seqLen + q - 2 + BlockTokens) \div BlockTokens - held})

\* The sum of a sequence of numbers.
total(s) ==
  LET upTo[i \in 0 .. Len(s)] == IF i = 0 THEN 0 ELSE upTo[i - 1] + s[i]
  IN  upTo[Len(s)]

NoSnapshot == [len |-> 0, state |-> <<>>]

newRow(r) ==
  [phase |-> "new", tokens |-> Prompt[r], seqLen |-> 0, prefillFrom |-> 0,
   blocks |-> <<>>, own |-> 0, slot |-> NoSlot, drafts |-> <<>>, decodeEntry |-> 0,
   interior |-> 0, pending |-> NoSnapshot, closed |-> FALSE]

\* A request that left the engine: its _Req is garbage, only its result is left.
goneRow(r) == [newRow(r) EXCEPT !.phase = "done"]

\* Tokens generated so far: len(req.output).
outLen(r) == Len(row[r].tokens) - Len(Prompt[r])

\* Positions [0, materialized) are behind the row's next forward.
materialized(r) ==
  IF row[r].phase = "prefill" THEN row[r].prefillFrom ELSE row[r].seqLen - 1

-----------------------------------------------------------------------------
(* PagedKvPool *)

\* The blocks n calls of alloc_block return, in order.
fresh(n) == [i \in 1 .. n |-> free[Len(free) - i + 1]]
freeWithout(n) == SubSeq(free, 1, Len(free) - n)

\* Mutant: a prefix hit adopts the store's blocks without retaining them.
refsTakenNotShared(new, shared) == [b \in Block |-> IF b \in Range(new) THEN 1 ELSE ref[b]]

\* alloc_block for every block of new, retain for every block of shared.
refsTaken(new, shared) ==
  [b \in Block |-> IF b \in Range(new) THEN 1
                   ELSE IF b \in Range(shared) THEN ref[b] + 1 ELSE ref[b]]

\* free_block for every block of bs.
refsFreed(bs) == [b \in Block |-> IF b \in Range(bs) THEN ref[b] - 1 ELSE ref[b]]

\* Mutant: a released block is freed even while others hold it.
freeAfterAll(bs) == free \o bs

freeAfter(bs) == free \o those(bs, {b \in Block : ref[b] = 1})

-----------------------------------------------------------------------------
(* PrefixStore *)

stored(toks) == \E i \in DOMAIN store : store[i].tokens = toks
indexOf(toks) == CHOOSE i \in DOMAIN store : store[i].tokens = toks

\* The prefixes of toks that are stored.
matches(toks) == {i \in DOMAIN store : IsPrefix(store[i].tokens, toks)}

\* lookup: the longest stored prefix, made the most recently used.
longest(toks) ==
  CHOOSE i \in matches(toks) :
    \A j \in matches(toks) : Len(store[j].tokens) <= Len(store[i].tokens)
touched(toks) ==
  IF matches(toks) = {} THEN store
  ELSE Append(RemoveAt(store, longest(toks)), store[longest(toks)])

\* _match_prefix: a hit over the whole prompt leaves nothing to forward, so it is a miss.
NoHit == [tokens |-> <<>>, blocks |-> <<>>, state |-> <<>>]

\* Mutant: the hit's blocks are adopted, its snapshot is not restored.
matchPrefixCold(toks) ==
  IF matches(toks) = {} THEN NoHit
  ELSE LET hit == store[longest(toks)]
       IN  IF Len(hit.tokens) >= Len(toks) THEN NoHit ELSE [hit EXCEPT !.state = <<>>]

matchPrefix(toks) ==
  IF matches(toks) = {} THEN NoHit
  ELSE LET hit == store[longest(toks)]
       IN  IF Len(hit.tokens) >= Len(toks) THEN NoHit ELSE hit

\* reclaimable_blocks: held by entries only.
holdsOfStore(b) == Cardinality({i \in DOMAIN store : b \in Range(store[i].blocks)})

\* Mutant: only blocks that are at refcount 0 while the store still holds them.
reclaimableAtZero == Cardinality({b \in Block : holdsOfStore(b) > 0 /\ ref[b] = 0})

reclaimable ==
  Cardinality({b \in Block : holdsOfStore(b) > 0 /\ ref[b] = holdsOfStore(b)})

\* _drop of the i-th entry: its blocks and its snapshot go together.
dropEntry(i) ==
  /\ store' = RemoveAt(store, i)
  /\ ref' = refsFreed(store[i].blocks)
  /\ free' = freeAfter(store[i].blocks)

\* Mutant: the entry takes the blocks without retaining them.
insertEntryUnretained(toks, blocks, snapshot) ==
  /\ store' = Append(store, [tokens |-> toks, blocks |-> blocks, state |-> snapshot])
  /\ UNCHANGED ref

\* insert of a key that is not stored.
insertEntry(toks, blocks, snapshot) ==
  /\ store' = Append(store, [tokens |-> toks, blocks |-> blocks, state |-> snapshot])
  /\ ref' = refsTaken(<<>>, blocks)

-----------------------------------------------------------------------------
(* Giving a row's resources back *)

\* Mutant: the adopted blocks are charged to the row as well.
releaseAll(r) ==
  /\ row' = [row EXCEPT ![r].phase = "done", ![r].pending = NoSnapshot]
  /\ ref' = refsFreed(row[r].blocks)
  /\ free' = freeAfter(row[r].blocks)
  /\ blocksUsed' = blocksUsed - Len(row[r].blocks)
  /\ freeSlots' = Append(freeSlots, row[r].slot)

\* _release of an admitted row.
release(r) ==
  /\ row' = [row EXCEPT ![r].phase = "done", ![r].pending = NoSnapshot]
  /\ ref' = refsFreed(row[r].blocks)
  /\ free' = freeAfter(row[r].blocks)
  /\ blocksUsed' = blocksUsed - row[r].own
  /\ freeSlots' = Append(freeSlots, row[r].slot)

\* Mutant: a failed row leaves without an answer.
finishUnfiled(r, answer) ==
  /\ release(r)
  /\ result' = IF answer = "failed" THEN result ELSE [result EXCEPT ![r] = answer]
  /\ running' = RemoveFirst(running, r)

\* _finish: release, file the answer, leave _running.
finish(r, answer) ==
  /\ release(r)
  /\ result' = [result EXCEPT ![r] = answer]
  /\ running' = RemoveFirst(running, r)
=============================================================================
