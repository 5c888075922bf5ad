# tileRL: a TLA+ model of the inference engine

tileRL is a GPU inference engine and RL trainer.  One process serves chat
requests over HTTP, generates the rollouts of the trainer, and shares one paged
KV pool, one pool of recurrent states and one prefix cache among all of them.
This directory models the engine's scheduling and memory, its cache tiers, its
sparse attention mode, and the way a reply takes to a client; it checks the
models with TLC.  With TLAPS it proves three abstract specifications; for any number of
requests, blocks, slots and rows, what the engine without a drafter does to its pools and
queues; and, for any number of requests, clients and faults, the model of the server and
the page.  Paths are relative to the repository; line numbers are those of the commit modelled.

## 1. The system

| Component | State | Operations | Talks to | Modelled |
|---|---|---|---|---|
| Engine (`engine.py`) | `_waiting`, `_running`, `_finished`, `_failed`, one `_Req` per request, `_blocks_used`, `_lock` | `submit`, `poll`/`peek`/`take`, `cancel`, `step` (plan, forward, verify/sample, commit, publish, draft), `_loop`, `invalidate_weights`, `save_boot` | all pools, the drafter and the tiers, by call, under `_lock` | partly: no hybrid ticks |
| Paged KV pool (`kv_cache.py`) | free list, refcounts, K/V planes | `alloc_block`, `retain`, `free_block`, `write_tokens` | rows' block tables, store entries | yes |
| Recurrent-state pool | free slots, states, step states | `alloc_slot`, `free_slot`, `select_step` | one slot per running row | yes |
| Prefix store and snapshot tier (`kv_cache.py`, `kv_tiers.py`) | entries in LRU order (tokens, blocks, snapshot); the snapshots the host holds | `lookup`, `insert`, `retire`, `evict_until_free`, `clear`, `_demote_one`, `promote` | retains pool blocks; `_admit` adopts them | yes |
| Boot store (`kv_tiers.py`) | one directory per saved context | `save`, `exists`, `boot` | `_admit` of a later process | yes |
| Drafters (`spec.py`) | draft chains, draft K/V or context | `step`, `verify_lens` | read rows, leave `r.drafts` | partly: what they leave |
| Graph capture (`decode_graph.py`) | captured graphs, a pad slot and block | `run` | replaces an eager decode forward | no |
| Host KV pages (`kv_tiers.py`) | private and shared pages in RAM and in spill files, refs, pins, one LRU order | `hold`, `take`, `forget`, `share_*`, `pin_if_present`, `unpin` | sparse engine | partly: no extents, no buckets per layout |
| Sparse engine (`sparse_*.py`) | hot frames, cold pages, labels, pins, bounds; the index of shared prefixes | select, resolve, evict victim, finalize, offer, publish, adopt, drop | its own pages, host tier, the tick | partly: bounds scorer, eager path |
| Server and pacer (`server.py`, `stream_pacing.py`) | open streams, detached drains | submit, poll deltas, cancel on disconnect, timeouts | engine, from other threads | partly: `/chat/completions` and the socket |
| Web playground (`web/src`) | history, one turn, retry buttons | ask, stop, resend, wait for health | server, one socket per turn | partly: no layout |
| Trainer (`train.py`, `merge.py`, `ledger.py`, `judge.py`) | weights version, groups, early-stop counters | rollout, update, evaluate | engine: submit, run, `invalidate_weights` | only the update |
| Planner and model (`memory.py`, `build.py`, `model.py`, kernels) | none at run time | sizing, numerics | constants of the engine | no |

What is hard in it:

* **Sharing without copy-on-write.** Rows and entries hold the same blocks, and
  the next forward writes through block tables.  Only refcounts and the
  discipline of publishing whole blocks behind the write position keep a
  prefix from being overwritten.
* **Three kinds of content that must agree.** A row's tokens, its K/V and its
  recurrent state advance by different calls: chunks, single decodes, verified
  chains that write more than they keep, snapshots taken at one tick and
  published at another.
* **Many places for one page.** A sparse row's page is in a frame, in pinned
  RAM under the row's key, in a spill file, or shared under its text, and moves
  between them within one tick; an entry of the shared index names pages that
  are still leaving the card.
* **Failure in the middle.** One row may not fit while the others go on, a
  forward may raise, a spill may fail, a process may die between two renames, a
  client may leave between two items of a stream.
* **Pressure.** Admission, decode growth and drafts take blocks from one
  list; snapshots and pages go down the tiers as others come up; a blocked head of
  line must not starve the rest or flush the cache for nothing.
* **Threads.** Ticks hold `_lock` from plan to commit, except that `peek` is
  lock-free; a blocking generator runs on a worker thread while the event loop
  watches its client and a drain waits to close it.

`PROJECT.json` lists each hazard at its line and the properties aimed at it.

## 2. The modules

| Family | Module | Models |
|---|---|---|
| Pool | `KvPages` | Abstract: rows, entries, refcounts, sealed blocks, page contents. Which block, which entry and when are left open. |
| | `KvPagesProofs` | Proofs about it. |
| Engine | `EnginePools` | The engine's variables, the operations of the three pools, releasing a row. |
| | `Engine` | The step loop of a dense build, one action per call of a tick, and the clients. |
| | `EnginePages` | The refinement mapping from `Engine` to `KvPages`. |
| | `EngineInv` | The inductive invariant of `Engine` without a drafter, `IInv`: `EngineInv`, `Room` and `Exact`. |
| | `EngineProofs` | Every action keeps `EngineInv`: types, pools, requests. |
| | `ContentsProofs` | Every action keeps `Exact`: what the pages, the states and the entries hold; and is a step of `KvPages`; every action keeps `Room`: the blocks a batch lacks are there. |
| Tiers | `BootStore` | Abstract: contexts on disk, saved file by file, damaged later. |
| | `SnapshotStore` | The prefix store with its DRAM tier, as operators. |
| | `Tiers` | What a request can start from: prefixes, promoted snapshots, boots; weights; processes that come and go.  Refines `BootStore`. |
| | `TiersInv` | The inductive invariant of `Tiers`: `TInv`, the books, and `Contents`. |
| | `TiersProofs` | Proofs about `BootStore`, the operators of `SnapshotStore`, and every action of `Tiers`. |
| Sparse | `ColdPages` | `HostKvPages` as operators. |
| | `SharedPrefix` | `SparsePrefixCache` as operators, on top of `ColdPages`. |
| | `Sparse` | The tick of a sparse build: rows, frames, demotions, publishes. |
| Chat | `Reply` | The text of a reply: thinking, calls, stops, and what of them may be shown early. |
| | `Delivery` | Abstract: what a client may count on. |
| | `DeliveryProofs` | Proofs about it. |
| | `Stream` | A reply on its way: loop thread, worker, handler, drain, connection.  Refines `Delivery`. |
| | `Page` | The playground and API clients on top of `Stream`. |
| | `StreamProofs` | What each step of `Stream` keeps: types, and how the places of one request agree; each step is one of `Delivery`, or none. |
| | `PageProofs` | The theorems about `Page`. |
| All | `Kept` | What a filter leaves of a list, as a recursive function. |
| | `SequenceFacts` | Least and greatest elements, induction and recursion over numbers, sequences without repetitions, as lemmas. |
| Instances | `MCKvPages`, `MCEngine`, `MCSpec`, `MCTight`, `MCThink`, `MCTiers`, `MCSparse`, `MCResend`, `MCPage` | Values for TLC. |

In all families contents are histories: a cell of K/V is the tokens it was
computed over, a recurrent state the tokens it has consumed.  So "the wrong K/V"
is visible whoever wrote it, and two contents are equal exactly when the same
text produced them.

The families share components and differ in what they keep.  `Engine` has the
call-by-call tick and tokens; `Tiers` takes a chunk, a page of decoding and an
admission as one step each and counts in pages, because what it asks about is
what an admission finds; `Sparse` has its own tick, page by page; `Stream` keeps
of the engine the queues, the lock and how many tokens are there.

### `Engine`

`step` is one critical section made of many calls whose intermediate states can
go wrong.  `agenda` is the rest of the section: a sequence of calls still to be
made.  An action is enabled when its call is at the head and puts what the code
calls next in its place.  `agenda = <<>>` means nobody holds `_lock`, and then
the clients' actions and `StepBegin` are enabled.

| Code | Actions |
|---|---|
| `submit`, `take`, `cancel` | `Submit`, `Take`, `CancelWaiting`, `CancelRunning` |
| `_loop`, entry and exit of `step` | `StepBegin`, `StepEnd`, `LoopIdle` |
| `_build_plan`'s admission loop and `_admit` | `AdmitNone`, `AdmitHead`, `EvictOne`, `EvictEnough`, `Readmit`, `Adopt` |
| the rest of `_build_plan`; `_run_forward` | `FormBatch`, `Grow`, `Forward` |
| `step`'s handler | `ForwardRaises`, `FailAll` |
| `_sample_commit`, `_verify`, `_commit` | `Sample`, `Verify`, `CommitStop`, `CommitToken`, `Finish` |
| `_publish_prefix`, `insert`, `retire` | `Publish`, `Trim`, `Retire` |
| `_finish_prefills` | `Advance`, `Complete` |
| `ensure_draft_write_blocks`, the drafter's `step` | `DraftGrow`, `DraftGrowFails`, `DraftGrowFailsDone`, `Draft` |

Sampling is a free choice among `Vocab` and a stop token.  A chain is verified
by choosing how many drafts the trunk agrees with and its bonus token.  A
forward may raise instead of returning.  Whether a stop text has matched is a
free choice where the code looks for one.

Abstracted away: sampling parameters, logprobs, timing and statistics, the
captured-graph path (it makes the same calls as the eager one), the pad block and
slot it reserves (they only shrink the pools), FP8 planes, hash chains of the
store (exact token equality decides), the snapshot's byte budget (an entry
count; bytes are in `Tiers`), the check of `has_running` a moment before `step`
takes the lock (an empty plan does nothing), the draft head's own K/V.

### `Tiers`

| Code | Definitions |
|---|---|
| `PrefixStore.insert` and its two budgets, `_drop`, `evict_until_free`, `clear`, `retire` | `inserted`, `trimmed`, `dropped`, `evictedUntil`, `cleared`, `retired` |
| `lookup`, `_demote_one`; `DramSnapshots.demote`, `promote`, `forget` | `lookedUp`, `demotedOne`, `tookIn`, `promoted` |
| `_admit`: lookup, block check, eviction, second lookup, boot or adoption | `room`, `verdict`; `AdmitNot`, `AdmitAdopts`, `AdmitBoots` |
| prefill chunks and the boundaries they publish; decode entries | `PrefillOn`, `PrefillEnds`, `Decode`, `DecodeFails` |
| `save_boot`, `KvBootStore.save`, one rename at a time | `SaveBoot`, `Saving` |
| an optimizer step and `invalidate_weights` | `Update` |
| exit or death of the process; damage on disk | `NextProcess`, `Damage` |

Abstracted away: tokens within a page (a chunk ends at any page boundary; a tail
has at least two tokens, one-token tails are in `Engine`), the size of a
snapshot (one byte whatever the prefix), which free block is taken, state slots,
`scale.bin` and the fingerprint of the boot store, what is in a free block after
a boot that failed, hashes (entries are known by their text).

### `Sparse`

`tick` holds what is left of the tick: its phase, the rows still to be served in
it, the demotion batch, and the pages that left the union.

| Code | Actions |
|---|---|
| the sparse branch of `_admit` (bounds, state and labels of the hit; no block) | `Admit` |
| `_build_plan`; `build_rows` | `Plan`, `BringOwn` |
| `_select` and `resolve` with its fallbacks and `evict_victim`; the fallback for a label that outlived its page | `Select`; `SelectOrphan` |
| `finalize`: bounds, boundary snapshot, what leaves the union | `Finalize` |
| `demotions()`: one page of the batch held, a spill that fails, the end of the batch | `HoldOne`, `HoldSpillFails`, `Held` |
| `_finish_prefills`, `_commit` | `CommitOn` |
| `publish_at_finish`, `close_prompt`, `abort_close`, `_release`; with a transfer that raises; with a private page pushed out that cannot be spilled | `Finish`; `FinishAbandoned`; `FinishSpillFails` |
| `process_offers`, `offer_drop`, `publish_dropped`, `transfer_to_shared`, `take_freeze_refs`; with a transfer that raises after the entries are attached | `Offer`; `OfferRaises` |
| `cancel`; `step`'s handler; a shared spill file that breaks | `Cancel`, `ForwardRaises`, `SharedSpillBreaks` |

`hot` is what the row's frames hold, `live` the pages that have one in the order
`evict_victim` goes through, `cold` and `shared` the page's private key and its
label.  A selection is any set of `K` candidates per source group, since scores
are numerics.

Two variables are histories.  `had` of a row are the adopted pages it has had in a
frame, from when on they are pinned.  `lost` says in which of the three ways known to
the code a page was lost that somebody still names: `"label"`, a label outlived its
page (`SelectOrphan`); `"spill"`, a row went on although a private page of it could not
be spilled (`FinishSpillFails`); `"offer"`, an offer raised between its entries and
their pages (`OfferRaises`).

Abstracted away: requests are there from the start and wait in the order of their
numbers (`_build_plan` takes the head of the queue); every running row is in every tick and
takes any chunk up to `Chunk` (the token budget decides both in the code); keys of pages are the texts
they stand for, so that hashes do not collide; a page is one byte; one history
stands for the state and for the K/V; no draft head, captured path, FP8, layouts,
or extents.  A private spill fails at the end of `demotions()`, the place
`engine.py:2137` handles, in a publish at finish and in an offer; one that fails in
`evict_victim` or a read-through of `resolve` fails every row as `ForwardRaises` does.

### `Stream` and `Page`

Three threads of control serve a request.  The loop thread ticks with `lock`
held, and moves rows between the queues in two steps, since `peek` looks at them
without it.  A worker runs the generator of `_deltas` (`body`) from one item to
the next.  The event loop runs the handler (`task`), which hands items out and
notices a client that left, and the `drain` it detaches, which cancels, joins the
worker and closes the generator.

| Code | Actions |
|---|---|
| `_build_plan`'s `popleft` and `append`, `_commit`, `_finish` | `TickBegin`, `Admit`, `Emit`, `Finish`, `TickEnd` |
| `_deltas`, `await_completion`, `pace_deltas` | `Poll`, `Take`, `Tail_`, `TimesOut`, `GiveUp` |
| `_submit`, `ws_chat` | `Submit`, `Refuse`, `SendFrame` |
| `_stream`, `stream_or_cancel`, `await_or_cancel` | `YieldItem`, `Resume`, `Answer`, `StreamEnd`, `NoticeGone`, `Abandon`, `Cancel` |
| `_detach_drain`, `_drain_body` | `DrainCancel`, `DrainJoin`, `DrainGivesUp`, `DrainClose` |
| `fatal_device_exit`, the supervisor | `Crash`, `Restart` |
| `submit`, `stream`, `onclose`, `waitForHealth`, `resend` of the page | `Ask`, `Connect`, `Frame`, `Stop`, `SocketClosed`, `HealthKnown`, `Retry` |

A text is a sequence of marks; a literal that can be cut in two is two marks; a
token may be half a character.  The reply a model gives is fixed when the client
asks, so that what is due is known: it is what the non-streamed route answers.
Left out: the clock of the pacer (only its depth), request parsing, metrics,
the text of errors, what a row preempted in the engine does (it stays
`running`).

## 3. What the runs check

| Run | Instance | Checks |
|---|---|---|
| `kvpages` | 4 blocks, 2 rows, 2 keys, 2 values, symmetric | `TypeOK`, `RefExact`, `OpenIsPrivate`, `StoreIntact` |
| `engine` | 3 requests, 4 blocks of 2 tokens, 2 slots, no drafter | `TypeOK`, `NothingLeaks`, `KvExact`, `StateExact`, `EntryExact`, `QueuedOrAnswered`, `LoneRowAlwaysFits`, `IInv`, `ImplementsPages`, `EveryRequestAnswered` |
| `engine_spec` | 3 requests, one with an empty budget, 4 blocks of 4 tokens, chains of 3 | `KvExact`, `StateExact`, `EntryExact`, `QueuedOrAnswered` |
| `tiers` | 9 requests over 3 processes, 4 blocks, one snapshot on the card and one with the host, one damaged file | `TypeOK`, `RowExact`, `EntryServes`, `AccountsExact`, `TiersInOrder`, `BootWhole`, `HeadNotStuck`, `SavesPrefills` |
| `sparse` | 3 requests, 5 frames, one page of pinned RAM, 3 entries, one fault | `TypeOK`, `RowExact`, `EntryExact`, `RefsCover`, `AccountsExact`, `WithinBudget` |
| `chat` | 2 sessions, 3 transports, 4 replies, one fault | `TypeOK`, `DrainedMeansFreed`, `NeverClosedWhileRunning`, `HistoryIsTheConversation`, `DeliversReply`, `RetryPopsItsOwnQuestion`, `EveryStreamEnds`, `ComposerComesBack` |
| `finish_twice`, `flush`, `think_chain`, `boot_aligned`, `sparse_resend`, `retry` | small instances of the same modules | one property each, violated: section 5 |

Engine:

* `NothingLeaks`: the free list is the blocks at refcount 0, once each; the free
  slots are those no live row has; `_blocks_used` is what live rows own.
* `KvExact`: every position behind a live row's next forward holds the K/V of
  that row's own tokens.
* `StateExact`: between ticks a row's state has consumed exactly those tokens.
* `EntryExact`: an entry's snapshot and blocks are those of its key.
* `QueuedOrAnswered`: a request is in one place: queued, running or answered.
* `LoneRowAlwaysFits`: `submit`'s capacity check and eviction together are
  enough to carry a row that runs alone to its last token.
* `ImplementsPages`: every step is a step of `KvPages` or leaves it unchanged.
* `EveryRequestAnswered`: a queued request is finished, failed or cancelled.

Tiers:

* `RowExact`: however a row came by what it did not prefill, its K/V and state
  are those of its own text, each page once, under the weights of today.
* `EntryServes`: what the store can still serve is right, wherever the snapshot is.
* `AccountsExact`: both budgets' books, the refcounts, and which snapshots the
  host may hold.
* `TiersInOrder`: the store's order and the host's are kept apart and agree.
* `BootWhole`: wherever a save was cut off, an entry that exists has all its
  files; what `boot` accepts is right whatever has been damaged.
* `HeadNotStuck`: a request that waits while no row runs is admitted by this
  tick, or by the next if this one raises.
* `SavesPrefills`: what is on disk changes only as `BootStore` says: what a save
  writes is what a prefill of its key computes.

Sparse:

* `RowExact`: between ticks, every page a row may select gives the K/V of the
  row's own tokens, whichever of its four places it is in.  Two exceptions, both in
  the code and in the run: a page the row has adopted and never had in a frame may be
  gone (`orphaned`); and nothing is promised once `lost` is not empty.
* `EntryExact`: an entry's state is the one at its boundary, and the shared tier
  has each of its pages, whatever raised before, as long as `lost` is empty.
* `RefsCover`: a shared page has one reference for each entry that names it, and
  is there no longer than an entry or a pin needs it; after a fault references may
  be too many (section 6), never too few, unless an offer raised.

  `lost` names three steps, and the properties say that no other step has these
  effects.  Each of the three happens in the run.
  `AccountsExact` and `WithinBudget` hold without exception.
* `AccountsExact`: running sums, LRU order, pins, private keys and frames agree
  with what the rows and the tier have.
* `WithinBudget`: pinned RAM stays within its budget while pages can be spilled.

Chat:

* `DeliversReply`: the pieces a client is told are, put together, the reply of
  the non-streamed route; an end or an error is said once and last, before the
  server closes the connection.  This is a promise about replies whose answer does not
  begin with white space: such an answer is cut wrongly, as `LeadingSpaceIsCut` of
  `MCPage` shows on the shortest one (section 6).
* `DrainedMeansFreed`: when handler and drain are over, no row generates for
  nobody.
* `NeverClosedWhileRunning`: nobody closes a generator that a worker executes.
* `HistoryIsTheConversation`: every answer in the page's history stands after the
  question it answers, and no question is in it twice.
* `RetryPopsItsOwnQuestion`: a retry takes the question it asks again out of the
  history, and no other (of the latest turn: `retry` shows the older ones).
* `EveryStreamEnds`, `ComposerComesBack`: a client that stays hears the end; the
  reader can always ask again.

**Bounds.** Two rows run at once (`MaxBatch`, `MaxInflight`, `MaxRunning` = 2):
every interaction in the code is between a row and the pools or between two
holders of a block, page or entry.

*Engine.* Prompts are chosen for the interesting alignments: two that share a
first block, one that extends a published prefix, one of exactly whole blocks, one
with a tail of one token, one of three chunks whose second boundary is held.
`NumBlocks` is below what two requests need, so that admission, growth and drafts
all meet an empty free list, and `Capacity` is below what the requests
publish, so that the store trims.  `Vocab` has one or two tokens beside stop:
with histories as contents, lengths and prompts already tell texts apart.
`BlockTokens` and `Bucket` are 2 or 4 instead of 16 and 64 with the same
divisibility; the chunk cuts depend on remainders only.  A request is submitted
at most once, which bounds the behaviours.

*Tiers.* `StateBytes` and `DramBytes` are one snapshot each, so that a third
entry loses its snapshot for good; `Capacity` is 3; the first process trains
(one update), the second saves, the third boots, and any of them may be followed
by the next at any moment.  `MaxRot` is one file.  `Saves` are rows at a page
boundary, as `save_boot`'s docstring demands.  The three prompts of the last
process are the two boots and a request whose entries the second boot must evict.

*Sparse.* `Frames` is one slot's ceiling by the formula of `memory.py:102-118`,
`K * Groups + Window + (Chunk \div B + 1)`, plus 1, less than two rows can use: so
`evict_victim` happens.  The prompts of the first and the last request share their two
pages and end inside a third.  The last one adopts them, or, when the one between was
cancelled, runs beside the first and publishes the same text.  The request between
publishes as many entries as it takes to push those of the first out while the last has
not selected their pages yet: `SelectOrphan`.  Hence `Capacity` is three;
with no more entries than rows that run, frozen copies can be evicted before their
references are taken (section 6).  `Budget` is a
single page: every hold pushes something out.  A page of the run has 2 tokens,
so chunks end inside and on page boundaries.  `MaxFaults` is one: after it the run
looks at what is left behind, and it may be a transfer of an offer (`OfferRaises`) or
another row's page that cannot be spilled during a publish (`FinishSpillFails`).
Two things do not happen in this instance: no row
needs a frame when it has no page left to give up, and no prompt is matched as a
whole.  The latter is `sparse_resend`: it breaks `EntryExact` with `lost` empty, and
`RowExact` too.

*Chat.* Two sessions are two turns of the page, or two API clients; the second
question of the page waits until the server is through with the first (`Overlap` =
FALSE), which loses little: two turns share nothing in the server but the engine's
queues and lock, and two API clients overlap on those.  The four replies cut the closer of the
thinking block, the opener of a call, a stop text and a character in two.
`PaceDepth` is 2: the pacer holds one delta back.  `MaxFaults` is one fault
anywhere: a failed forward, a deadline, a lost connection, a drain that gives up,
or a dead server.  `RetryAnyTurn` is TRUE only in `retry`.

What a reply's marks can be is tried beyond those four, without the interleavings, by
`EarlyTextsAreDue` of `MCPage`: of every reply of up to four tokens in the form the
checkpoint writes (`tidy`), whatever prefix of it the server shows early is a beginning
of what is due.  TLC evaluates it, and `OfTheseRuns` (the same of the four replies), before
it starts.

**Fairness.** Engine: `WF_vars(Tick)`: `_loop` calls `step` as long as a row is
waiting or running, and a step that has begun runs to its end.  Nothing is assumed
of clients, and nothing about which tokens are sampled or whether a forward raises.
Chat: the same for the tick; a worker, a handler and a drain that can go on do,
since a thread gets the lock in the end and the event loop runs what is ready;
the browser delivers frames and closes, and ends its bounded health poll.  Nobody has
to leave, to time out or to fail.  Tiers and sparse state safety only:
`HeadNotStuck` says as an invariant what an admission loop needs, and `Sparse` is
checked for deadlock, which says that no tick stops halfway.  `tiers` and
`boot_aligned` turn the deadlock check off: after the last process there is nothing left to do.

**Symmetry** is used in `kvpages` only, which has no temporal property.

## 4. What is proved

`KvPagesProofs` proves for every finite set of blocks, rows and keys and every set
of contents (`FinitenessAssumption`, `NoValueAssumption`):

* `TypeCorrect`, `RefcountsExact`, `OpenBlocksPrivate`, `StoreKeepsContents`:
  `Spec` implies always `TypeOK`, `RefExact`, `OpenIsPrivate`, `StoreIntact`.

None of the four is inductive alone.  A refcount of 0 must mean that nobody
holds the block before a fresh block can be called private, so `RefExact` is
needed for `OpenIsPrivate`.  A forward leaves stored contents alone only because
no pinned block is open, so `OpenIsPrivate` is needed for `StoreIntact`.  And a
prefix that is adopted must be wholly sealed.  `IInv` is their conjunction with
`sealed[r] \subseteq table[r]`.  There is one lemma per action (`AdmitKeeps`,
`GrowKeeps`, ...), each with one step per conjunct the action can disturb; the
lemmas `HoldersFinite`, `FreeIsUnheld` and `PinnedIsClosed` carry the counting.

The engine's link to these theorems is `EngineImplementsPages` below: what is proved of
`KvPages` holds of every engine whose steps are its steps.  It fails once a finished
row is finished again, so it is not claimed of the engine with a drafter.

`EngineProofs` proves of `Engine`, for any requests with any prompts and budgets, any
sizes of pool, batch, store and blocks (`PoolAssumption`, `RequestAssumption`: what
`submit` and the planner refuse otherwise), and whichever tokens are sampled and
whichever forwards raise:

* `EngineTypeCorrect`, `EngineNeverLeaks`, `EngineKeepsTrack`, `EngineStoreHolds`: `Spec`
  implies always `TypeOK`, `NothingLeaks`, `QueuedOrAnswered`, `StoreHoldsItsBlocks`.

Their hypothesis is `Drafter = "none"`, and it is needed: with a drafter `NothingLeaks`
and `StoreHoldsItsBlocks` are false of the code (section 5, first item).

What makes this hard is that a tick is many calls, and each of them relies on what the
others have left.  `EngineInv` is therefore about the agenda as much as about the pools:

* `AgendaRight`: the calls to come are of known kinds, those of one row take turns (of
  `sample`, `commit` and `finish` only one is to come), and the lone calls
  (`adopt`, `batch`, `forward`) are followed by nothing but the end.  Without it a call
  could meet a row that an earlier one has released.
* `Pools`: each refcount is the number of rows and entries holding the block, the free
  list has the blocks at zero once each, the slots are dealt out one to a row, and
  `blocks_used` is the sum of what the rows are charged.  A refcount counts holders, so
  that a holder that leaves twice, or not at all, shows.
* `Rows`: where a request is (queue, batch, answered), what its row looks like there, and
  which calls may be for it: only a row that has prefilled its prompt is completed or
  sampled, only a decode row grows, and a decode row that is to be sampled has the
  blocks its token needs.
* `Forwards`: a planned forward names rows that are still there, or that failed for want
  of a block since.  This is what lets a row fail alone in `Grow`.
* `Admission`: between the check and `adopt` nothing takes the slot or the blocks away.

There is one lemma per action.  A step that releases a row (`Finish`, `Grow` that fails,
`FailAll`, `CancelRunning`) has to show that the row was held once, which is `Rows` and
`Pools` together; `FormBatch` and `Forward` have to show that a batch names no row twice and
that the calls after a forward fit the rows as it leaves them.  The lemmas before them
say what the recursive functions return (`those`, `total`, the planner's walk), how an
agenda is put together, and what taking, freeing and retaining do to counts and lists.
TLC checks `IInv`, which is `EngineInv`, `Room` and `Exact`, in the run `engine`; that it always
holds is `EngineInductive`.

`ContentsProofs` proves of the same engine, under the same hypothesis, `EngineAttendsToItsOwn`,
`EngineStateExact` and `EngineEntriesExact`: `Spec` implies always `KvExact`, `StateExact`,
`EntryExact`.  None of them is inductive.  The invariant is `Exact`, beside `EngineInv`:

* `computed`: how far a row has been computed depends on the calls still to come for it.
  After a forward a decode row's pages and state are one token ahead of what its fields
  say until `commit`, a prefilling row's a chunk ahead until `advance`.  `RowContents`
  states contents up to there, so that it holds between any two calls of a tick.
* `Private`: a block that a row has yet to write, in whole or in part, is in no other row's
  table and in no entry.  This is what a forward relies on, and what adoption (whole blocks
  only), publishing (only whole blocks behind the row) and decode growth (only free blocks) must keep.
* `SnapshotOf`: the boundary a row holds, and each `publish` on its way, is of a beginning
  of the row's tokens that is behind it.  The state at the end of a prompt moves on before
  the entry is stored, so an entry's snapshot must be known when the call is planned.
* `EntryContents`: what `EntryExact` says, per entry.
* `ForwardFeeds`: the chain planned for a row that decodes is the token it generated last.
* A stop token is sampled and not committed: the state is one token further than the
  row's text while its `finish` is to come, and `RowContents` says nothing of the state then.

The calls that write nothing are dealt with together: `ExactBeside` says that they keep
`Exact` as long as the calls that matter to a row are the same.  `Forward` is the hard one:
`ForwardFed` says which rows it runs and how far, `FedAlone` that each block it writes is held
by its row alone, `RowWritten` that two writes never meet, so that a row's pages are its own
tokens' one run further on, and everybody else's are as before.

`EngineImplementsPages`, in the same module: `Spec` implies `ImplementsPages`, for the same
engine.  `Exact` holds beside `EngineInv`, and with the two each action is a step of
`KvPages` or a stutter, a lemma `<Action>Refines` for each:

* `Forward` is `Pages!Forward`: `WrittenIsOpen` says that what a forward writes is in blocks
  its rows hold and have not sealed.  It needs `Private`, for a block that another row or an
  entry holds may be sealed there.
* `CommitToken`, `Advance` and `Complete` seal: `SealRefines` shows that the blocks a row has
  filled are those the mapping calls sealed, and no more.
* `Adopt` is one step `Admit` though it is a retain per shared block and an allocation per
  fresh one; `Grow` takes one block, `Finish`, `FailAll` and a `Grow` that fails give all back.
* `Publish` stores an entry and may put out the oldest or one of the same text; `SavedIs`
  gives the store that results, and `BlocksOfEntry` that what an entry pins is what its
  text fills.
* All other calls leave rows, entries and contents as they are (`QuietRefines`).

Its other hypothesis, `KeysCover`, is about the mapping and not about the engine: the keys of
`KvPages` are all texts of whole blocks for which the pool has blocks.  A mapping with fewer
keys has no place for some entries.  The run `engine` gives `Keys` the texts its three
requests can have, which TLC can enumerate.

`EngineLoneRowFits`, the last part of the module: `Spec` implies always `LoneRowAlwaysFits`,
for the same engine.  The property speaks of the moment a row grows; why there is room for it
was settled several calls before, so the invariant that carries it is `Room`:

* `GrowsFit`: while rows of a batch are still to grow, the store has been asked, before the
  first of them, for what all of them lack (`lacks`, the sum over the agenda); once it was,
  that much is free or no entry is left.  Each `Grow` takes its own part of the sum from both
  sides.  `LacksOfBatch` shows that what the planner asks for is this sum, and `GrowsFirst`
  that no other call comes between the eviction and the last of the growth.
* `Budgets`: a row that runs has generated no more than its budget, and less unless its
  `finish` is to come.  So a row that grows has no more tokens than `submit` found room for.

With the store empty and one row running, each block is free or the row's (`BlocksOfOne`, from
the refcounts of `EngineInv`), and a row within its budget lacks no more than the pool has
beside its own blocks (`LacksFew`, from `RequestAssumption`).  With two rows it fails:
a row that grows may find the blocks taken and is failed alone, as the code means it.

`TiersProofs` proves of the boot store `BootStoreWhole` (`BootSpec` implies always `BootWhole`)
for any keys and contents (`BootAssumption`: contents are neither a missing nor
a damaged file).  The invariant says that each file is missing, damaged, or right
(`FilesRight`); that a manifest is there only when the other files are or were
(`ManifestLast`, the point of the order of the moves); and that the save in
progress has right files left to move and has moved those before them
(`SaveRight`).  The link to the engine is `TiersSavesPrefills` below.

It proves of `Tiers` itself `TiersTypeCorrect` and `TiersAccounts`: `Spec` implies always
`TypeOK` and `AccountsExact`, for any processes, requests, prompts and budgets, any sizes
of pool, store and host tier, and any number of updates and damaged files
(`StoreAssumption`, `BootAssumption`, `TiersAssumption`: a request fits the pool, as
`submit` demands).  There is no other hypothesis: the ways in which contents go wrong
(`boot_aligned`) do not touch the books.  `AccountsExact` is not inductive.  `TInv`
(`TiersInductive`) is `Counted` beside

* `Books(c, own)`: the store `c` is right for what rows own of its blocks (`own[b]` rows
  have block `b`).  No text is stored twice, which is why demoting or promoting "the entry
  of a text" moves one snapshot; the host holds a text at most once and only of a demoted
  entry, which is why forgetting what an entry held takes neither too much nor too little;
  bytes are counts, and each refcount is its owners plus its entries.
* `Rows` and `Queue`: a row that is not in the engine is as it was created, so that what a
  row owns comes and goes with its phase; a row in the engine has a block for each page,
  no block twice; `waiting` has the requests that wait, each once.
* `Files`: what a save writes as a state is a state, so that a boot gives a row one.

`Books` has `own` as a parameter because the store's own operations leave it alone: one
lemma each for `_drop`, `_demote_one`, `promote`, a hit, `trimmed`, `insert`, `retire`,
`clear` and `lookup` says that they keep `Books(c, own)` (`DroppedKeeps` ... `LookedUpKeeps`,
and `RoomKeeps` for the whole of an admission's checks, with what the hit it ends with is worth).  Only
`WithRefsKeeps` and `ReleasedKeeps` change `own`, by the blocks of one row (`RefsMoved`,
`OwnersGrow`).  The lemma of each action then says that the row and the store change
together.

What the tiers hold is `Contents` (`TiersContents`), beside `TInv`.  Four
theorems follow from it: `TiersRowExact`, `TiersEntryServes`, `TiersSavesPrefills` and, with
`BootStoreWhole`, `TiersBootWhole`: `RowExact`, `EntryServes`, `SavesPrefills`, `BootWhole`.
`Contents` has three parts:

* `Served`: the rows and the store have the K/V and the states of their texts under the
  weights of today.  It is stated of a store and its snapshots, not of the card, so that
  demoting and promoting leave it alone: what moves is the snapshot of the same text.
* `Apart`: the pages a row has yet to write are in no other row and no entry.  Whole
  pages are shared and a row writes behind them; a boot writes blocks that were free.
* `Prefilled`: what is on disk, or on its way there, is what a prefill of its key
  computes, unless it was damaged.  So the rows that may be saved must be whole and, since a
  boot starts from the disk, `Served` and `Prefilled` are one induction.

These have three hypotheses beyond the assumptions on the constants.  `SavesWholePages`: only
rows of whole pages are saved, as the docstring of `save_boot` demands, which the code does not
check (section 6).  `[][~ WholeBoot]_vars`: no prompt of whole pages starts from
disk; the run `boot_aligned` shows `RowExact` broken by one that does.  `KeysPrefilled`, for the
two about the disk: `Kv` and `State`, constants of the model, are what a prefill of each key
computes.  `WithinTheTheorems` of `MCTiers` has TLC evaluate the first and the third for the
runs.

`DeliveryProofs` proves of the abstract stream, for any requests and texts:
`ClientToldTheReply` (a client knows a beginning of the reply it is due, and all
of it once it was told the end) and `NothingTakenBack` (what was told stays, and
nothing follows an end, an error or the client's departure).  The invariant adds
to the first that a request not yet made was promised and told nothing
(`NewKnowsNothing`).

`PageProofs` proves of the server with the page and the API clients, for any sessions
and scenarios, any depth of the pacer and any number of faults (the assumptions say
only what kind of values they are: `BoundsAssumption`, `RequestsAssumption`,
`SessionsAssumption`):

* `PageTypeOK`, `Freed`, `ClosedAtRest`: `Spec` implies always `TypeOK`,
  `DrainedMeansFreed`, `NeverClosedWhileRunning`.  The inductive invariant `PageInv` has
  three parts.  `Types` are sharp where the code relies on it: what a
  generator has seen is never more than what is there.  `Control` says how the places of
  one request agree: which places of handler, drain and generator occur together
  (`HandlerRight`), and in which queue the row may be while the lock is held or free
  (`RowRight`).  That a drained row is in no queue follows from the two only
  together: a generator past its wait, a filed result and a drain past its `cancel` each
  imply that the row is gone, and a row moves between the queues only while a tick holds
  the lock that `cancel` takes.  `PageTypes` are the page's.
* `Delivers`: `Spec` implies `DeliversReply`, the refinement of `Delivery`.  `Texts` is
  the invariant: what was sent is, put together, what the generator
  showed up to the item it is at, and that is a beginning of what is due.
  `StreamProofs` has a lemma per step; nearly all tell the client nothing, `SendFrame`
  and `YieldItem` tell it a piece, the last frame tells it the end.
* `ServerTellsTheReply`: with `ClientToldTheReply`, which `PageProofs` instantiates at the
  mapped variables, the client of the server knows a beginning of its reply.
* `HistoryKept`: `Spec` implies always `HistoryIsTheConversation`.  The invariant
  `Conversation` says that the history is right (each question once, each answer after its own
  question and a beginning of what is due), that sessions are named by the questions they ask
  (`Questions`), what a turn in flight has read and what the history ends with meanwhile
  (`Flight`), and that nothing follows an end or an error in what was sent (`Ended`).  It
  rests on `ServerTellsTheReply`: the page only adds up what it was told.
* `RetryOfTheLatest`: a retry takes its own question out of the history, from the same
  invariant.

Hypotheses of the last four: `ShownIsDue`, a statement about texts and not about steps,
says that of each reply some client may ask for, what is shown early of any number of its
tokens is a beginning of what is due; TLC evaluates it (section 3).  Those of the
history ask also for `~RetryAnyTurn`, which the run `retry` shows to be necessary.

Induction over data is out of the provers' reach where the library states it with an
operator as a parameter.  `AllOf` and `Recursion` of `SequenceFacts` state what these
proofs need with a set and a function instead: so the folds that put the frames
together are proved to be what `Texts` says of them, and the planner's walk and the sum of
charges what `EngineInv` says of them.

Only model-checked: everything of the engine with a drafter; in which order the tiers
serve (`TiersInOrder`, `HeadNotStuck`); `Sparse`; liveness (`EveryRequestAnswered`,
`EveryStreamEnds`, `ComposerComesBack`), which needs fairness and `ENABLED`; `ShownIsDue`
itself, an induction over the tokens of a reply and the scanning for literals in them.

## 5. Where the code and its documents disagree

* **A finished row is finished again** (`finish_twice`).
  `ensure_draft_write_blocks` is given every row of the tick.  If the pool is
  full, the call fails a row that finished in this tick: its blocks are freed a
  second time.  Where a prefix entry holds them, they go to the free list while
  the entry still serves them; then `free_slot` raises and the tick fails every
  other row.  With room in the pool the same line (`engine.py:2558`) grants the
  finished row a block after its release, which nobody frees: the pool shrinks by a
  block each time.  `NothingLeaks` on the instance of `engine_spec` shows it.
* **A blocked admission flushes its own prefix** (`flush`).  The blocks of the
  hit count as reclaimable although the request is about to adopt them.
* **The thinking budget ends inside a chain** (`think_chain`).  The state is
  adopted for the accepted drafts, then the commit replaces one of them by the
  end-think token and stops: the state holds a token the text does not.  The
  draft head avoids this by drafting nothing while the budget is open; the block
  drafter does not, and padding to the widest chain has the same effect.
* **A retry of an older turn takes another turn's question** (`retry`).  `resend` pops
  the user message at the end of the history, which is the question in flight, and
  `submit` then returns at once.
* **A boot of a whole prompt consumes its last page twice** (`boot_aligned`).  The
  page goes through the forward again for its logits, on a state that has seen it.
* **A prompt matched as a whole publishes the wrong state** (`sparse_resend`).  The
  same repetition in a sparse build is repaired at commit, after `finalize` has given
  the state to the index.  The K/V of the page that is run again is computed on that
  state too, and stays until the page leaves the card and is read from the shared
  copy.

`engine_spec` has room for every block the leak of the first item takes and
ends with the double finish, so that it also shows what still holds then.

## 6. Read, and not checked by a run

Found while translating, and left out of the model's way or stated here because a
property would restate the line:

* `server.py:915` says of what is left to send "sent counts stripped characters, so
  these are the remainders of the same strings the deltas were cut from".  The deltas were
  stripped on the right, the finished text (line 920) on both sides: a reply that starts with
  white space loses or repeats a piece at its end.  `LeadingSpaceIsCut` of `MCPage`, which
  TLC evaluates, says so of one of two tokens; without the last clause of
  `tidy`, `EarlyTextsAreDue` is false too.
* `server.py:843` asks for a closer in the whole text: with one before the opener, half
  of the closer after it is shown (`</th ink> <think> </th`).  `tidy` excludes it, as a
  checkpoint that opens a thought before it closes one does.
* `save_boot`'s docstring says "Raises if ... not block-aligned"; the code floors
  the tokens and saves the state at `seq_len`.
* A boot that fails after the eviction falls back to the hit from before it, whose
  blocks may be free: `retain` raises out of `_admit`, outside `step`'s handler.
  The model has it (`verdict` = "raise"); `HeadNotStuck` shows that the next tick gets on.
* `aux.pt`, a boot entry's recurrent state, has no checksum; boot entries are not
  invalidated by new weights (no trainer has a boot store).
* `publish_dropped` bumps the references of a frozen copy at once when all its pages
  are shared already; if the transfer at finish then fails, `abort_close`, whose
  docstring says the bump never landed, drops the entry and keeps the references.
  Hence `RefsCover` demands equality only while nothing has failed.
* Without an SSD, `hold` says TRUE although `_enforce_budget` drops a live row's
  private page; a later selection gets a block nothing was written to.
* `evict_victim` may find no page outside the tick's own though the pool has the
  formula's size: a row takes free frames beyond its own ceiling.
* A private page that cannot be spilled "is a SpillWriteError the engine turns into a
  request failure" (`kv_tiers.py:633`).  `publish_at_finish` catches it with everything else:
  the publish is undone and the row finishes, but the page may be another row's, which goes on
  and later selects a block nothing was written to.  In the model: `FinishSpillFails`,
  `"spill"` in `lost`.
* "An entry never names a page it cannot serve" (`sparse_runtime.py:443-445`).  `offer_drop`
  attaches the entries, then transfers their pages, and has no `abort_close` for a
  transfer that raises: `step` fails the rows, and entries stay that name pages nobody
  has; a later request adopts them.  In the model: `OfferRaises`, `"offer"` in `lost`.
* An adopted page is pinned when it is first selected (`sparse_runtime.py:392-395`): when its
  last entry ages out before, the page goes, and `resolve` drops the label and gives an
  unwritten block.  `tests/test_sparse_engine.py:2466-2473` calls this a contract, "the
  non-crashing recovery", for a page taken away by hand; here the index does it.  In
  the model: `orphaned`, `SelectOrphan`, `"label"` in `lost`.
* With fewer entries than live rows, frozen copies can be evicted before their
  references are taken.
* `engine.py:1375` computes the blocks needed anew without the hot headroom of the
  sparse rows.

## 7. Not modelled, and the plan

Next, in this order:

1. `HybridTicks`: dense and sparse rows in one build, the mode chosen by charge,
   the headroom of `_admit`.
2. `ChunkPlan`: `chunkOf` with the true 16 and 64 against a reference definition
   (progress, last boundary, no one-token tail where it can be avoided).
3. An abstract specification of the sparse index (an entry serves its text; a page
   stays while it is named or pinned), with `Sparse` refining it, and its proof.
4. The action
   properties of `KvPages` (a held block is never handed out, a published block
   never written); `ShownIsDue` of every tidy reply.
5. Draft K/V in shared pages.
6. `GrpoLoop`: rollouts against weights versions with more than one group in flight.
7. `/v1/messages` and `/responses` as further transports of `Stream`.

Out of scope: tensor numerics, kernels, text rendering, measurement, static
sizing, the ledger, the judge, the command line.  `components` in `PROJECT.json`
gives the reason for each.
