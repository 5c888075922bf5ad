----------------------------- MODULE EngineInv -----------------------------
(***************************************************************************)
(* The inductive invariant of the engine without a drafter: what holds     *)
(* before and after every call of a tick, and not only between ticks.      *)
(*                                                                         *)
(*  AgendaRight  which calls may still be to come in a tick, in what order *)
(*  Queue        the queue names no request twice                          *)
(*  Pools        refcounts, free lists, charges and entries agree          *)
(*  Rows         where a request is, what its row looks like there, and    *)
(*               which calls of the agenda may be for it                   *)
(*  Forwards     a forward that is planned fits the rows it was planned    *)
(*               for, even when one of them failed in between              *)
(*  Admission    an admission under way still has its slot and its blocks  *)
(*  Room         what the rows of a batch are to take is free, or all the  *)
(*               store could give is; a row has tokens left to generate    *)
(*  Exact        the pages, the states and the entries hold what is theirs *)
(***************************************************************************)
EXTENDS Engine

-----------------------------------------------------------------------------
(* The agenda *)

\* The calls that are for one row, and the order a tick makes those of a row in.
RowOps == {"grow", "advance", "publish", "sample", "commit", "finish", "complete"}
turn(op) == IF op = "complete" THEN 2 ELSE IF op \in {"sample", "commit", "finish"} THEN 1 ELSE 0

forRow(c, r) == c.op \in RowOps /\ c.r = r
callsFor(a, r) == {c \in Range(a) : forRow(c, r)}
opsFor(a, r) == {c.op : c \in callsFor(a, r)}

\* The calls that are the last of a tick to come, and what may come before them.
Lone == {"plan", "batch", "adopt", "readmit", "forward", "failall"}
ahead(op) == IF op = "forward" THEN {"evict", "grow"} ELSE IF op = "readmit" THEN {"evict"} ELSE {}

\* A call is well formed.
CallType(c) ==
  /\ c.op \in RowOps \cup Lone \cup {"evict", "trim", "retire", "end"}
  /\ c.op \in RowOps => c.r \in Req
  /\ c.op = "grow" => c.q = 1
  /\ c.op = "commit" => \E tok \in Draw : c.toks = <<tok>>
  /\ c.op = "advance" => c.count \in Nat \ {0}
  /\ c.op = "publish" => c.len \in Nat \ {0} /\ c.state \in Seq(Tokens) /\ c.decode \in BOOLEAN

\* The rows of a forward.
Distinct(rows) == \A i, j \in 1 .. Len(rows) : rows[i].r = rows[j].r => i = j
ForwardType(c) ==
  /\ c.decodes \in Seq(Range(c.decodes)) /\ Distinct(c.decodes)
  /\ \A d \in Range(c.decodes) : d.r \in Req /\ d.chain \in Seq(Tokens) /\ Len(d.chain) = 1
  /\ c.prefills \in Seq(Range(c.prefills)) /\ Distinct(c.prefills)
  /\ \A f \in Range(c.prefills) : f.r \in Req /\ f.count \in Nat \ {0}

\* In a tick, a row's calls take turns, and nothing follows the lone ones but the end.
InTurn(a) ==
  \A i, j \in 1 .. Len(a) : \A r \in Req :
    i < j /\ forRow(a[i], r) /\ forRow(a[j], r) => turn(a[i].op) < turn(a[j].op)
LoneLast(a) ==
  \A i, j \in 1 .. Len(a) :
    a[i].op \in Lone => /\ i < j => a[j].op = "end"
                        /\ j < i => a[j].op \in ahead(a[i].op)
AgendaRight(a) ==
  /\ a \in Seq(Range(a))
  /\ \A c \in Range(a) : CallType(c) /\ (c.op = "forward" => ForwardType(c))
  /\ InTurn(a) /\ LoneLast(a)

-----------------------------------------------------------------------------
(* A row *)

promptLen(r) == Len(Prompt[r])
held(rw) == Len(rw.blocks) * BlockTokens

\* What is right of a row that is decoding, or still prefilling, with ops to come.
DecodeRight(rw, r, ops) ==
  /\ rw.seqLen = Len(rw.tokens) /\ promptLen(r) < rw.seqLen /\ rw.seqLen - 1 <= held(rw)
  /\ "advance" \notin ops /\ "complete" \notin ops
  /\ "grow" \in ops => ops = {"grow"}
  /\ ("sample" \in ops \/ "commit" \in ops) => rw.seqLen <= held(rw)

PrefillRight(rw, r, ops) ==
  /\ rw.seqLen = rw.prefillFrom + Len(rw.tokens) - promptLen(r)
  /\ Len(rw.tokens) \in {promptLen(r), promptLen(r) + 1}
  /\ Len(rw.tokens) > promptLen(r) => rw.prefillFrom = promptLen(r)
  /\ promptLen(r) <= held(rw) /\ "grow" \notin ops
  /\ rw.prefillFrom = promptLen(r) => "complete" \in ops
  /\ "advance" \in ops => ("complete" \in ops <=> "sample" \in ops)
  /\ "complete" \in ops /\ "advance" \notin ops => rw.prefillFrom = promptLen(r)
  /\ ("sample" \in ops \/ "commit" \in ops) => "complete" \in ops /\ Len(rw.tokens) = promptLen(r)
  /\ "complete" \in ops /\ ops \cap {"sample", "commit", "finish"} = {} => Len(rw.tokens) > promptLen(r)

\* The calls for a row fit it.
CallFits(c, rw, r, ops) ==
  /\ c.op = "publish" => c.len % BlockTokens = 0 /\ c.len <= Len(rw.tokens) /\ c.len <= held(rw)
  /\ c.op = "advance" => /\ rw.prefillFrom + c.count <= promptLen(r)
                         /\ rw.prefillFrom + c.count = promptLen(r) <=> "complete" \in ops

\* The forced end of the thinking is under way.
ForcedRight(rw, r) ==
  LET k == Len(rw.tokens) - promptLen(r) - ThinkCap[r]
  IN  ThinkCap[r] # NoCap /\ EndThink # <<>> /\ ~rw.closed /\ k > 0 =>
        /\ k < Len(EndThink)
        /\ \A i \in 1 .. k : rw.tokens[Len(rw.tokens) - k + i] = EndThink[i]

\* A running row has no drafts, has not prefilled beyond its prompt, and fits its calls.
LiveRight(rw, r, C, ops) ==
  /\ rw.phase \in {"prefill", "decode"} /\ rw.drafts = <<>>
  /\ rw.prefillFrom <= promptLen(r)
  /\ rw.pending.len <= promptLen(r) /\ rw.pending.len % BlockTokens = 0
  /\ rw.phase = "prefill" => PrefillRight(rw, r, ops)
  /\ rw.phase = "decode" => DecodeRight(rw, r, ops)
  /\ ForcedRight(rw, r)
  /\ \A c \in C : CallFits(c, rw, r, ops)

\* A request runs, or waits untouched, or is not submitted yet, or has its answer;
\* of the calls for one that has, only the end of its prompt's chunk may be left.
RowRight(r, rw, C, live, queued, res) ==
  LET ops == {c.op : c \in C}
  IN  /\ ~(live /\ queued)
      /\ live => res = "none" /\ LiveRight(rw, r, C, ops)
      /\ queued => res = "none" /\ rw = [newRow(r) EXCEPT !.phase = "prefill"] /\ C = {}
      /\ ~live /\ ~queued =>
           \/ rw = newRow(r) /\ res = "none" /\ C = {}
           \/ rw.phase = "done" /\ res # "none" /\ ops \subseteq {"complete"}

Live(r) == r \in Range(running)
Queued(r) == r \in Range(waiting)
Rows == \A r \in Req : RowRight(r, row[r], callsFor(agenda, r), Live(r), Queued(r), result[r])

\* The rows of a planned forward are those it was planned for.
ForwardFits(c) ==
  /\ \A d \in Range(c.decodes) :
       \/ row[d.r].phase = "done"
       \/ /\ Live(d.r) /\ row[d.r].phase = "decode"
          /\ "grow" \in opsFor(agenda, d.r) \/ row[d.r].seqLen <= held(row[d.r])
  /\ \A f \in Range(c.prefills) :
       /\ Live(f.r) /\ row[f.r].phase = "prefill"
       /\ row[f.r].prefillFrom + f.count <= promptLen(f.r)
Forwards == \A c \in Range(agenda) : c.op = "forward" => ForwardFits(c)

-----------------------------------------------------------------------------
(* The pools *)

Entry == [tokens : Seq(Tokens), blocks : Seq(Block), state : Seq(Tokens)]
Queue(q) == q \in Seq(Req) /\ IsInjective(q)

\* The holders of a block.
rowsWith(rn, rw, b) == {r \in Range(rn) : b \in Range(rw[r].blocks)}
entriesWith(st, b) == {e \in Range(st) : b \in Range(e.blocks)}

\* A count is the number of holders; the free list has each block without one, once.
RefsRight(rn, rw, st, rf) ==
  \A b \in Block : rf[b] = Cardinality(rowsWith(rn, rw, b)) + Cardinality(entriesWith(st, b))
FreeRight(fr, rf) ==
  /\ fr \in Seq(Block) /\ IsInjective(fr) /\ rf \in [Block -> Nat]
  /\ Range(fr) = {b \in Block : rf[b] = 0}
\* The slots are dealt out, one for each running row, and the rest is free.
SlotsRight(rn, rw, fs) ==
  /\ fs \in Seq(Slot) /\ IsInjective(fs)
  /\ Range(fs) = Slot \ {rw[r].slot : r \in Range(rn)}
  /\ \A r \in Range(rn) : rw[r].slot \in Slot
  /\ \A r, q \in Range(rn) : rw[r].slot = rw[q].slot => r = q
\* What each row is charged.
owned(rn, rw) == [i \in DOMAIN rn |-> rw[rn[i]].own]
BlocksRight(rn, rw, used) ==
  /\ \A r \in Range(rn) : rw[r].blocks \in Seq(Block) /\ IsInjective(rw[r].blocks) /\ rw[r].own \in Int
  /\ used = total(owned(rn, rw))
\* No text is stored twice, and an entry has a block for each block of its text.
StoreRight(st) ==
  /\ st \in Seq(Entry)
  /\ \A i, j \in 1 .. Len(st) : st[i].tokens = st[j].tokens => i = j
  /\ \A e \in Range(st) : Len(e.blocks) * BlockTokens = Len(e.tokens) /\ IsInjective(e.blocks)

PoolsRight(rn, rw, fr, rf, fs, st, used) ==
  /\ Queue(rn) /\ RefsRight(rn, rw, st, rf) /\ FreeRight(fr, rf) /\ SlotsRight(rn, rw, fs)
  /\ BlocksRight(rn, rw, used) /\ StoreRight(st)
Pools == PoolsRight(running, row, free, ref, freeSlots, store, blocksUsed)

\* An admission under way has its slot, and its blocks.
Admission ==
  \A c \in Range(agenda) :
    /\ c.op \in {"adopt", "readmit"} => roomForOne
    /\ c.op = "adopt" => needed(Head(waiting)) <= Len(free)

\* What every call of the engine leaves as it found it, as far as nothing drafts.
EngineInv ==
  /\ TypeOK /\ AgendaRight(agenda) /\ Queue(waiting) /\ Pools /\ Rows /\ Forwards /\ Admission

-----------------------------------------------------------------------------
(* Room for the tokens to come *)

\* The blocks a call takes, and all the calls of an agenda do.
lack(rw, c) == IF c.op = "grow" THEN decodeExtraBlocks(rw[c.r].seqLen, c.q, Len(rw[c.r].blocks)) ELSE 0
lacks(rw, a) == total([i \in DOMAIN a |-> lack(rw, a[i])])

\* The rows that are to grow do so before a forward, after the store was asked for what all
\* of them lack; from then on that is free, unless there was no more entry to evict for it.
GrowsFit ==
  \A c \in Range(agenda) : c.op = "grow" =>
    /\ \E f \in Range(agenda) : f.op = "forward"
    /\ \A e \in Range(Tail(agenda)) : e.op # "evict"
    /\ IF doing("evict") THEN call.until = lacks(row, agenda)
       ELSE store = <<>> \/ lacks(row, agenda) <= Len(free)

\* A row has tokens left to generate, or its end is to come.
Budgets ==
  /\ \A r \in Range(waiting) \cup Range(running) : MaxNew[r] > 0
  /\ \A r \in Range(running) :
       outLen(r) <= MaxNew[r] /\ ("finish" \in opsFor(agenda, r) \/ outLen(r) < MaxNew[r])

Room == GrowsFit /\ Budgets

-----------------------------------------------------------------------------
(* What the pages and the states hold *)

\* Positions [0, behind) of a row are behind its next forward (materialized).
behind(rw) == IF rw.phase = "prefill" THEN rw.prefillFrom ELSE rw.seqLen - 1

\* How far a row has been computed: past behind by what the calls C still commit.
computed(rw, C) ==
  LET ops == {c.op : c \in C}
      advances == {c \in C : c.op = "advance"}
  IN  IF rw.phase = "decode"
      THEN {IF ops \cap {"sample", "commit"} = {} THEN rw.seqLen - 1 ELSE rw.seqLen}
      ELSE IF advances = {} THEN {rw.prefillFrom} ELSE {rw.prefillFrom + c.count : c \in advances}

\* The K/V of the first n tokens is in their blocks.
HoldsKv(cl, bs, toks, n) ==
  \A p \in 0 .. n - 1 : cl[bs[p \div BlockTokens + 1]][p % BlockTokens] = SubSeq(toks, 1, p + 1)

\* The snapshot s of the first n tokens, all of them behind the row.
SnapshotOf(rw, n, s) == n <= behind(rw) /\ s = SubSeq(rw.tokens, 1, n)

\* The pages and the state of a row are those of its tokens, and so is what it publishes.
\* A stop token that is not committed leaves the state one token further.
RowContents(rw, C, cl, s) ==
  /\ \A n \in computed(rw, C) :
       /\ HoldsKv(cl, rw.blocks, rw.tokens, n)
       /\ \/ rw.phase = "decode" /\ "finish" \in {c.op : c \in C}
          \/ s = SubSeq(rw.tokens, 1, n)
  /\ SnapshotOf(rw, rw.pending.len, rw.pending.state)
  /\ \A c \in C : c.op = "publish" => SnapshotOf(rw, c.len, c.state)

\* The blocks a row has yet to write, in whole or in part, are its own.
Private(r, rn, rw, st) ==
  \A i \in 1 .. Len(rw[r].blocks) : i * BlockTokens > behind(rw[r]) =>
    /\ rowsWith(rn, rw, rw[r].blocks[i]) = {r}
    /\ entriesWith(st, rw[r].blocks[i]) = {}

EntryContents(e, cl) == e.state = e.tokens /\ HoldsKv(cl, e.blocks, e.tokens, Len(e.tokens))

\* A planned forward feeds each row the token it generated last.
ForwardFeeds(c) ==
  \A d \in Range(c.decodes) : row[d.r].phase = "done" \/ d.chain = <<Last(row[d.r].tokens)>>

\* What the pages, the states, the entries and a planned forward hold, between any two calls.
Exact ==
  /\ \A r \in Range(running) :
       /\ RowContents(row[r], callsFor(agenda, r), cell, state[row[r].slot])
       /\ Private(r, running, row, store)
  /\ \A e \in Range(store) : EntryContents(e, cell)
  /\ \A c \in Range(agenda) : c.op = "forward" => ForwardFeeds(c)

\* The inductive invariant: what every call of the engine leaves as it found it.
IInv == EngineInv /\ Room /\ Exact
=============================================================================
