------------------------------- MODULE Engine -------------------------------
(***************************************************************************)
(* The dense engine's step loop (engine.py: submit, cancel, take, step,    *)
(* _admit, _build_plan, _run_forward, _verify, _commit, _finish_prefills,  *)
(* ensure_draft_write_blocks, _finish, _loop).                             *)
(*                                                                         *)
(* A tick holds _lock from plan to commit, so clients act between ticks    *)
(* only.  Within a tick the calls follow one another; agenda lists those   *)
(* still to come, and each action below is one of them.                    *)
(***************************************************************************)
EXTENDS EnginePools

idle == agenda = <<>>

\* The tick's current call, and what replaces it on the agenda.
doing(op) == agenda # <<>> /\ Head(agenda).op = op
call == Head(agenda)
next(ops) == agenda' = ops \o Tail(agenda)

-----------------------------------------------------------------------------
(* Clients *)

\* submit: refused at the in-flight cap; an empty budget is answered at once.
Submit(r) ==
  /\ idle /\ row[r].phase = "new"
  /\ IF MaxNew[r] = 0
     THEN /\ row' = [row EXCEPT ![r] = goneRow(r)]
          /\ result' = [result EXCEPT ![r] = "finished"]
          /\ UNCHANGED waiting
     ELSE /\ Len(running) + Len(waiting) < MaxInflight
          /\ row' = [row EXCEPT ![r].phase = "prefill"]
          /\ waiting' = Append(waiting, r)
          /\ UNCHANGED result
  /\ UNCHANGED <<running, free, ref, cell, freeSlots, state, store, blocksUsed, agenda>>

\* take: pops an answer; a failed one raises RequestFailed, once.
Take(r) ==
  /\ idle /\ result[r] \in {"finished", "failed"}
  /\ result' = [result EXCEPT ![r] = "taken"]
  /\ UNCHANGED <<waiting, running, row, free, ref, cell, freeSlots, state, store,
                 blocksUsed, agenda>>

CancelWaiting(r) ==
  /\ idle /\ r \in Range(waiting)
  /\ row' = [row EXCEPT ![r] = goneRow(r)]
  /\ result' = [result EXCEPT ![r] = "failed"]
  /\ waiting' = RemoveFirst(waiting, r)
  /\ UNCHANGED <<running, free, ref, cell, freeSlots, state, store, blocksUsed, agenda>>

CancelRunning(r) ==
  /\ idle /\ r \in Range(running)
  /\ row' = [row EXCEPT ![r] = goneRow(r)]
  /\ ref' = refsFreed(row[r].blocks)
  /\ free' = freeAfter(row[r].blocks)
  /\ blocksUsed' = blocksUsed - row[r].own
  /\ freeSlots' = Append(freeSlots, row[r].slot)
  /\ result' = [result EXCEPT ![r] = "failed"]
  /\ running' = RemoveFirst(running, r)
  /\ UNCHANGED <<waiting, cell, state, store, agenda>>

-----------------------------------------------------------------------------
(* _loop and the planner's admission *)

\* _loop calls step only when there is something to do.
StepBegin ==
  /\ idle /\ (running # <<>> \/ waiting # <<>>)
  /\ agenda' = <<[op |-> "plan"], [op |-> "end"]>>
  /\ UNCHANGED <<waiting, running, row, result, free, ref, cell, freeSlots, state, store,
                 blocksUsed>>

LoopIdle == idle /\ running = <<>> /\ waiting = <<>> /\ UNCHANGED vars

\* What _admit needs beyond the blocks of a prefix hit.
needed(r) == blocksForTokens(Len(row[r].tokens)) - Len(matchPrefix(row[r].tokens).blocks)

roomForOne == waiting # <<>> /\ Len(running) < MaxBatch /\ freeSlots # <<>>

\* Head of line: a head that does not fit ends the admissions of this tick.
AdmitNone ==
  /\ doing("plan") /\ ~roomForOne
  /\ next(<<[op |-> "batch"]>>)
  /\ UNCHANGED <<waiting, running, row, result, free, ref, cell, freeSlots, state, store,
                 blocksUsed>>

\* What the head's block check leads to, before anything is evicted.
admitVerdict(r) ==
  IF Len(free) >= needed(r) THEN <<[op |-> "adopt"]>>
  ELSE IF Len(free) + reclaimable < needed(r) THEN <<[op |-> "batch"]>>
  ELSE <<[op |-> "evict", until |-> needed(r)], [op |-> "readmit"]>>

AdmitHead ==
  /\ doing("plan") /\ roomForOne
  /\ store' = touched(row[Head(waiting)].tokens)
  /\ next(admitVerdict(Head(waiting)))
  /\ UNCHANGED <<waiting, running, row, result, free, ref, cell, freeSlots, state, blocksUsed>>

\* evict_until_free
EvictOne ==
  /\ doing("evict") /\ Len(free) < call.until /\ store # <<>>
  /\ dropEntry(1)
  /\ UNCHANGED <<waiting, running, row, result, cell, freeSlots, state, blocksUsed, agenda>>

EvictEnough ==
  /\ doing("evict") /\ (Len(free) >= call.until \/ store = <<>>)
  /\ next(<<>>)
  /\ UNCHANGED <<waiting, running, row, result, free, ref, cell, freeSlots, state, store,
                 blocksUsed>>

\* Eviction may have dropped the entry the hit came from: match and check again.
Readmit ==
  /\ doing("readmit")
  /\ LET r == Head(waiting)
     IN  /\ store' = touched(row[r].tokens)
         /\ next(IF Len(free) < needed(r) THEN <<[op |-> "batch"]>> ELSE <<[op |-> "adopt"]>>)
  /\ UNCHANGED <<waiting, running, row, result, free, ref, cell, freeSlots, state, blocksUsed>>

\* The rest of _admit: slot, adopted and fresh blocks, the hit's snapshot.
Adopt ==
  /\ doing("adopt")
  /\ LET r == Head(waiting)
         hit == matchPrefix(row[r].tokens)
         new == fresh(needed(r))
         slot == Last(freeSlots)
     IN  /\ row' = [row EXCEPT ![r].blocks = hit.blocks \o new,
                               ![r].own = Len(new),
                               ![r].slot = slot,
                               ![r].seqLen = Len(hit.tokens),
                               ![r].prefillFrom = Len(hit.tokens)]
         /\ free' = freeWithout(Len(new))
         /\ ref' = refsTaken(new, hit.blocks)
         /\ freeSlots' = Front(freeSlots)
         /\ state' = [state EXCEPT ![slot] = hit.state]
         /\ blocksUsed' = blocksUsed + Len(new)
         /\ running' = Append(running, r)
  /\ waiting' = Tail(waiting)
  /\ next(<<[op |-> "plan"]>>)
  /\ UNCHANGED <<result, cell, store>>

-----------------------------------------------------------------------------
(* _build_plan: the rows of this tick, and _run_forward's growth *)

\* The tokens the next forward of a prefilling row takes, given the tick's budget.
chunkOf(n, from, budget) ==
  LET most == Min({n - from, budget})
      aligned == (most \div Bucket) * Bucket
      first == IF from = 0 /\ aligned # 0 THEN aligned ELSE most
      spared == IF n - (from + first) = 1 /\ first > BlockTokens
                THEN first - BlockTokens ELSE first
      end == from + spared
      whole == (end \div BlockTokens) * BlockTokens - from
      cut == IF end % BlockTokens = 1 THEN whole - BlockTokens ELSE whole
  IN  IF end = n /\ end % BlockTokens # 0 /\ whole > 0 /\ cut > 0 THEN cut ELSE spared

\* The walk over _running that fills the tick with prefill chunks of one width bucket.
prefillPlan(decodes) ==
  LET width(c) == ((c + Bucket - 1) \div Bucket) * Bucket
      visit(p, r) ==
        LET chunk == chunkOf(Len(row[r].tokens), row[r].prefillFrom, p.budget)
        IN  IF p.full \/ row[r].phase # "prefill" THEN p
            ELSE IF \/ Len(decodes) + Len(p.rows) >= MaxBatch
                    \/ p.budget <= 0
                    \/ p.rows # <<>> /\ width(chunk) # p.bucket
                 THEN [p EXCEPT !.full = TRUE]
            ELSE [full |-> FALSE, budget |-> p.budget - chunk, bucket |-> width(chunk),
                  rows |-> Append(p.rows, [r |-> r, count |-> chunk])]
      plan[i \in 0 .. Len(running)] ==
        IF i = 0 THEN [full |-> FALSE, budget |-> MaxBatchedTokens - Len(decodes),
                       bucket |-> 0, rows |-> <<>>]
        ELSE visit(plan[i - 1], running[i])
  IN  plan[Len(running)].rows

\* The chains a verify tick forwards, padded to the widest; single tokens otherwise.
chainsOf(decodes, prefills) ==
  LET kept(r) == IF prefills = <<>> THEN row[r].drafts ELSE <<>>
      widest == Max({0} \cup {Len(kept(r)) : r \in Range(decodes)})
      chain(r) == <<Last(row[r].tokens)>> \o kept(r)
      padded(r) == chain(r) \o [i \in 1 .. widest - Len(kept(r)) |-> Last(chain(r))]
  IN  [i \in DOMAIN decodes |-> [r |-> decodes[i], chain |-> padded(decodes[i])]]

\* Mutant: decode growth asks the store for nothing.
growthUnreclaimed(decodes) == 0

growth(decodes) ==
  total([i \in DOMAIN decodes |->
           LET d == decodes[i]
           IN  decodeExtraBlocks(row[d.r].seqLen, Len(d.chain), Len(row[d.r].blocks))])

FormBatch ==
  /\ doing("batch")
  /\ LET decoding == those(running, {r \in Req : row[r].phase = "decode"})
         prefills == prefillPlan(decoding)
         decodes == chainsOf(decoding, prefills)
         work == [op |-> "forward", decodes |-> decodes, prefills |-> prefills]
         grow == [i \in DOMAIN decodes |-> [op |-> "grow", r |-> decodes[i].r,
                                            q |-> Len(decodes[i].chain)]]
         evict == <<[op |-> "evict", until |-> growth(decodes)]>>
     IN  next(IF decodes = <<>> /\ prefills = <<>> THEN <<>>
              ELSE (IF growth(decodes) = 0 THEN <<>> ELSE evict) \o Append(grow, work))
  /\ UNCHANGED <<waiting, running, row, result, free, ref, cell, freeSlots, state, store,
                 blocksUsed>>

\* A row that fits takes its blocks; one that does not fails alone.
Grow ==
  /\ doing("grow")
  /\ LET r == call.r
         need == decodeExtraBlocks(row[r].seqLen, call.q, Len(row[r].blocks))
     IN  IF need > Len(free)
         THEN finish(r, "failed")
         ELSE /\ row' = [row EXCEPT ![r].blocks = @ \o fresh(need), ![r].own = @ + need]
              /\ free' = freeWithout(need)
              /\ ref' = refsTaken(fresh(need), <<>>)
              /\ blocksUsed' = blocksUsed + need
              /\ UNCHANGED <<running, result, freeSlots>>
  /\ next(<<>>)
  /\ UNCHANGED <<waiting, cell, state, store>>

-----------------------------------------------------------------------------
(* The forward, and the calls that commit what it computed *)

\* Position p of row r, with the K/V of the tokens in history, as a write.
writeAt(r, p, history) ==
  [block |-> row[r].blocks[p \div BlockTokens + 1], offset |-> p % BlockTokens,
   kv |-> SubSeq(history, 1, p + 1)]

decodeWrites(d) ==
  LET base == row[d.r].seqLen - 1
      history == SubSeq(row[d.r].tokens, 1, base) \o d.chain
  IN  {writeAt(d.r, p, history) : p \in base .. base + Len(d.chain) - 1}

prefillWrites(f) ==
  {writeAt(f.r, p, row[f.r].tokens) :
     p \in row[f.r].prefillFrom .. row[f.r].prefillFrom + f.count - 1}

completes(f) == row[f.r].prefillFrom + f.count >= Len(row[f.r].tokens)

\* The tokens the forward feeds a slot's recurrence.  A verify tick leaves the
\* slot alone: _verify picks one of the states the chain went through.
consumed(s, decodes, prefills) ==
  LET d == {x \in Range(decodes) : row[x.r].slot = s /\ Len(x.chain) = 1}
      f == {x \in Range(prefills) : row[x.r].slot = s}
  IN  IF d # {} THEN (CHOOSE x \in d : TRUE).chain
      ELSE IF f # {}
           THEN LET x == CHOOSE x \in f : TRUE
                IN  SubSeq(row[x.r].tokens, row[x.r].prefillFrom + 1,
                           row[x.r].prefillFrom + x.count)
      ELSE <<>>

\* The calls that follow a forward, in the order the code makes them.
afterForward(decodes, prefills) ==
  LET done == those(prefills, {f \in Range(prefills) : completes(f)})
      each(name, rows) == [i \in DOMAIN rows |-> [op |-> name, r |-> rows[i].r]]
      verify == [i \in DOMAIN decodes |->
                   IF Len(decodes[i].chain) = 1 THEN [op |-> "sample", r |-> decodes[i].r]
                   ELSE [op |-> "verify", r |-> decodes[i].r, chain |-> decodes[i].chain]]
      advance == [i \in DOMAIN prefills |->
                   [op |-> "advance", r |-> prefills[i].r, count |-> prefills[i].count]]
      rows == decodes \o prefills
      draft == IF Drafter = "none" THEN <<>>
               ELSE each("draftgrow", rows) \o each("draft", rows)
  IN  verify \o advance \o each("sample", done) \o each("complete", done) \o draft

Forward ==
  /\ doing("forward")
  /\ LET decodes == those(call.decodes, {d \in Range(call.decodes) : row[d.r].phase # "done"})
         prefills == call.prefills
         writes == (UNION {decodeWrites(d) : d \in Range(decodes)})
                     \cup (UNION {prefillWrites(f) : f \in Range(prefills)})
         at(b, o) == {w \in writes : w.block = b /\ w.offset = o}
     IN  /\ cell' = [b \in Block |-> [o \in Offset |->
                       IF at(b, o) = {} THEN cell[b][o] ELSE (CHOOSE w \in at(b, o) : TRUE).kv]]
         /\ state' = [s \in Slot |-> state[s] \o consumed(s, decodes, prefills)]
         /\ next(afterForward(decodes, prefills))
  /\ UNCHANGED <<waiting, running, row, result, free, ref, freeSlots, store, blocksUsed>>

\* The forward raised: step fails every running row, and _loop goes on.
ForwardRaises ==
  /\ doing("forward")
  /\ call.prefills # <<>> \/ \E d \in Range(call.decodes) : row[d.r].phase # "done"
  /\ next(<<[op |-> "failall"]>>)
  /\ UNCHANGED <<waiting, running, row, result, free, ref, cell, freeSlots, state, store,
                 blocksUsed>>

FailAll ==
  /\ doing("failall")
  /\ IF running = <<>>
     THEN /\ next(<<>>)
          /\ UNCHANGED <<running, row, result, free, ref, freeSlots, blocksUsed>>
     ELSE finish(Head(running), "failed") /\ UNCHANGED agenda
  /\ UNCHANGED <<waiting, cell, state, store>>

Sample ==
  /\ doing("sample")
  /\ \E tok \in Draw : next(<<[op |-> "commit", r |-> call.r, toks |-> <<tok>>]>>)
  /\ UNCHANGED <<waiting, running, row, result, free, ref, cell, freeSlots, state, store,
                 blocksUsed>>

\* Mutant: the state before the last accepted draft.
stateAtEarly(chain, ok) == SubSeq(chain, 1, ok)

\* Mutant: the drafts after the first rejected one are committed too.
verifiedWhole(chain, ok, bonus) == SubSeq(chain, 2, ok + 1) \o <<bonus>> \o SubSeq(chain, ok + 3, Len(chain))

\* select_step(n_ok), and what is committed when the trunk agrees with ok drafts.
stateAt(chain, ok) == SubSeq(chain, 1, ok + 1)
verified(chain, ok, bonus) == Append(SubSeq(chain, 2, ok + 1), bonus)

\* _verify: the drafts the trunk agrees with, its bonus token, and the state there.
Verify ==
  /\ doing("verify")
  /\ LET chain == call.chain
     IN  \E ok \in 0 .. Len(chain) - 1, bonus \in Draw :
           /\ ok < Len(chain) - 1 => bonus # chain[ok + 2]
           /\ state' = [state EXCEPT ![row[call.r].slot] = @ \o stateAt(chain, ok)]
           /\ next(<<[op |-> "commit", r |-> call.r, toks |-> verified(chain, ok, bonus)]>>)
  /\ UNCHANGED <<waiting, running, row, result, free, ref, cell, freeSlots, store, blocksUsed>>

-----------------------------------------------------------------------------
(* _commit, one sampled token at a time *)

forced(r) ==
  /\ ThinkCap[r] # NoCap /\ EndThink # <<>>
  /\ ~row[r].closed /\ outLen(r) >= ThinkCap[r]

closes(r, toks) ==
  row[r].closed \/ (/\ EndThink # <<>>
                    /\ IsSuffix(EndThink, SubSeq(toks, Len(Prompt[r]) + 1, Len(toks))))

\* A stop token ends the reply and is not part of it.
CommitStop ==
  /\ doing("commit") /\ ~forced(call.r) /\ Head(call.toks) = Stop
  /\ next(<<[op |-> "finish", r |-> call.r]>>)
  /\ UNCHANGED <<waiting, running, row, result, free, ref, cell, freeSlots, state, store,
                 blocksUsed>>

\* The entry a decode row publishes when its chain ended on a block boundary.
decodeBoundary(r, last) ==
  last /\ row[r].phase = "decode" /\ row[r].seqLen % BlockTokens = 0

CommitToken ==
  /\ doing("commit") /\ (forced(call.r) \/ Head(call.toks) # Stop)
  /\ LET r == call.r
         raw == Head(call.toks)
         rest == Tail(call.toks)
         tok == IF forced(r) THEN EndThink[outLen(r) - ThinkCap[r] + 1] ELSE raw
         toks == Append(row[r].tokens, tok)
         closed == closes(r, toks)
         over == outLen(r) + 1 >= MaxNew[r]
         textHits == IF r \in StopTexts /\ (closed \/ EndThink = <<>>) THEN BOOLEAN ELSE {FALSE}
         publish == IF decodeBoundary(r, rest = <<>>)
                    THEN <<[op |-> "publish", r |-> r, len |-> row[r].seqLen,
                            state |-> state[row[r].slot], decode |-> TRUE]>>
                    ELSE <<>>
         after == IF over THEN <<[op |-> "finish", r |-> r]>>
                  ELSE IF tok # raw \/ rest = <<>> THEN <<>>
                  ELSE <<[op |-> "commit", r |-> r, toks |-> rest]>>
     IN  /\ row' = [row EXCEPT ![r].tokens = toks, ![r].closed = closed,
                               ![r].seqLen = @ + 1]
         /\ \E hit \in textHits :
              next(IF hit THEN <<[op |-> "finish", r |-> r]>> ELSE publish \o after)
  /\ UNCHANGED <<waiting, running, result, free, ref, cell, freeSlots, state, store, blocksUsed>>

Finish ==
  /\ doing("finish")
  /\ finish(call.r, "finished")
  /\ next(<<>>)
  /\ UNCHANGED <<waiting, cell, state, store>>

\* _publish_prefix and PrefixStore.insert; a decode entry retires its predecessor.
Publish ==
  /\ doing("publish")
  /\ LET r == call.r
         key == SubSeq(row[r].tokens, 1, call.len)
         older == IF call.decode /\ row[r].decodeEntry > 0
                  THEN <<[op |-> "retire", key |-> SubSeq(key, 1, row[r].decodeEntry)]>>
                  ELSE <<>>
     IN  IF stored(key)
         THEN next(<<>>) /\ UNCHANGED <<row, ref, store>>
         ELSE /\ insertEntry(key, SubSeq(row[r].blocks, 1, call.len \div BlockTokens),
                             call.state)
              /\ row' = [row EXCEPT ![r].decodeEntry = IF call.decode THEN call.len ELSE @]
              /\ next(<<[op |-> "trim"]>> \o older)
  /\ UNCHANGED <<waiting, running, result, free, cell, freeSlots, state, blocksUsed>>

\* The budget loop at the end of insert.
Trim ==
  /\ doing("trim")
  /\ IF Len(store) > Capacity
     THEN dropEntry(1) /\ UNCHANGED agenda
     ELSE next(<<>>) /\ UNCHANGED <<store, ref, free>>
  /\ UNCHANGED <<waiting, running, row, result, cell, freeSlots, state, blocksUsed>>

Retire ==
  /\ doing("retire")
  /\ IF stored(call.key) THEN dropEntry(indexOf(call.key)) ELSE UNCHANGED <<store, ref, free>>
  /\ next(<<>>)
  /\ UNCHANGED <<waiting, running, row, result, cell, freeSlots, state, blocksUsed>>

-----------------------------------------------------------------------------
(* _finish_prefills *)

\* _last_prefill_boundary
lastPrefillBoundary(n) ==
  LET end == (n \div BlockTokens) * BlockTokens
  IN  IF n % BlockTokens = 0 THEN 0
      ELSE IF n % BlockTokens = 1 THEN end - BlockTokens ELSE end

publishPrompt(r, len, snapshot) ==
  <<[op |-> "publish", r |-> r, len |-> len, state |-> snapshot, decode |-> FALSE]>>

\* The row moves past its chunk.  The first interior block boundary is
\* published, a later one in the tail window is held for completion.
Advance ==
  /\ doing("advance")
  /\ LET r == call.r
         n == Len(row[r].tokens)
         to == row[r].prefillFrom + call.count
         interior == to < n /\ to % BlockTokens = 0
         held == interior /\ row[r].interior > 0 /\ n % BlockTokens # 0
                   /\ to >= lastPrefillBoundary(n)
     IN  /\ row' = [row EXCEPT ![r].prefillFrom = to, ![r].seqLen = to,
                               ![r].interior = IF interior THEN @ + 1 ELSE @,
                               ![r].pending = IF held
                                              THEN [len |-> to, state |-> state[row[r].slot]]
                                              ELSE @]
         /\ next(IF interior /\ row[r].interior = 0
                 THEN publishPrompt(r, to, state[row[r].slot]) ELSE <<>>)
  /\ UNCHANGED <<waiting, running, result, free, ref, cell, freeSlots, state, store, blocksUsed>>

\* Mutant: the held boundary is published with the state the whole prompt left.
completionEntryLate(r) ==
  LET n == Len(Prompt[r])
  IN  IF n % BlockTokens = 0 THEN publishPrompt(r, n, state[row[r].slot])
      ELSE IF row[r].pending.len > 0 THEN publishPrompt(r, row[r].pending.len, state[row[r].slot])
      ELSE <<>>

\* The prompt is done: publish it if it is whole blocks, else the held boundary.
completionEntry(r) ==
  LET n == Len(Prompt[r])
  IN  IF n % BlockTokens = 0 THEN publishPrompt(r, n, state[row[r].slot])
      ELSE IF row[r].pending.len > 0
           THEN publishPrompt(r, row[r].pending.len, row[r].pending.state)
      ELSE <<>>

Complete ==
  /\ doing("complete")
  /\ LET r == call.r
     IN  IF row[r].phase = "done"
         THEN next(<<>>) /\ UNCHANGED row
         ELSE /\ row' = [row EXCEPT ![r].phase = "decode", ![r].pending = NoSnapshot]
              /\ next(completionEntry(r))
  /\ UNCHANGED <<waiting, running, result, free, ref, cell, freeSlots, state, store, blocksUsed>>

-----------------------------------------------------------------------------
(* The draft head's turn *)

\* The rows of this tick include those that finished in it.
draftExtraBlocks(r) == Max({0, blocksForTokens(row[r].seqLen) - Len(row[r].blocks)})

DraftGrow ==
  /\ doing("draftgrow")
  /\ LET r == call.r
         need == draftExtraBlocks(r)
     IN  /\ need <= Len(free)
         /\ row' = [row EXCEPT ![r].blocks = @ \o fresh(need), ![r].own = @ + need]
         /\ free' = freeWithout(need)
         /\ ref' = refsTaken(fresh(need), <<>>)
         /\ blocksUsed' = blocksUsed + need
  /\ next(<<>>)
  /\ UNCHANGED <<waiting, running, result, cell, freeSlots, state, store>>

DraftGrowFails ==
  /\ doing("draftgrow") /\ draftExtraBlocks(call.r) > Len(free)
  /\ row[call.r].phase # "done"
  /\ finish(call.r, "failed")
  /\ agenda' = SelectSeq(Tail(agenda), LAMBDA a : a.op # "draft" \/ a.r # call.r)
  /\ UNCHANGED <<waiting, cell, state, store>>

\* _finish of a row that has already finished: free_block runs until it meets a
\* block at refcount 0, or free_slot meets the freed slot; either raises.
DraftGrowFailsDone ==
  /\ doing("draftgrow") /\ draftExtraBlocks(call.r) > Len(free)
  /\ row[call.r].phase = "done"
  /\ LET bs == row[call.r].blocks
         dead == {i \in DOMAIN bs : ref[bs[i]] = 0}
         again == IF dead = {} THEN bs ELSE SubSeq(bs, 1, Min(dead) - 1)
     IN  /\ ref' = refsFreed(again)
         /\ free' = freeAfter(again)
         /\ blocksUsed' = IF dead = {} THEN blocksUsed - row[call.r].own ELSE blocksUsed
  /\ agenda' = <<[op |-> "failall"], [op |-> "end"]>>
  /\ UNCHANGED <<waiting, running, row, result, cell, freeSlots, state, store>>

\* The chain lengths the drafter can leave: the block drafter fills the width; the
\* head drafts as far as the row's blocks reach, the policy keeping any prefix of
\* it, and keeps nothing that a forced end-think token could overrule.
draftLengths(r) ==
  IF Drafter = "block" THEN {Width - 1}
  ELSE IF ThinkCap[r] # NoCap /\ EndThink # <<>> /\ ~row[r].closed THEN {0}
  ELSE IF Width = 2 THEN {1}
  ELSE 0 .. Min({Width - 1, 1 + Len(row[r].blocks) * BlockTokens - row[r].seqLen})

\* A row still prefilling drafts too, but its chain is replaced before a verify reads it.
Draft ==
  /\ doing("draft")
  /\ IF row[call.r].phase = "decode"
     THEN \E n \in draftLengths(call.r) : \E chain \in [1 .. n -> Draw] :
            row' = [row EXCEPT ![call.r].drafts = chain]
     ELSE UNCHANGED row
  /\ next(<<>>)
  /\ UNCHANGED <<waiting, running, result, free, ref, cell, freeSlots, state, store, blocksUsed>>

\* The tick is over: the rows that finished in it are unreachable.
StepEnd ==
  /\ doing("end")
  /\ row' = [r \in Req |-> IF row[r].phase = "done" THEN goneRow(r) ELSE row[r]]
  /\ next(<<>>)
  /\ UNCHANGED <<waiting, running, result, free, ref, cell, freeSlots, state, store, blocksUsed>>

-----------------------------------------------------------------------------

Init ==
  /\ waiting = <<>> /\ running = <<>>
  /\ row = [r \in Req |-> newRow(r)]
  /\ result = [r \in Req |-> "none"]
  /\ free = [i \in Block |-> i]
  /\ ref = [b \in Block |-> 0]
  /\ cell = [b \in Block |-> [o \in Offset |-> <<>>]]
  /\ freeSlots = [i \in Slot |-> i]
  /\ state = [s \in Slot |-> <<>>]
  /\ store = <<>>
  /\ blocksUsed = 0
  /\ agenda = <<>>

Client ==
  \E r \in Req : Submit(r) \/ Take(r) \/ CancelWaiting(r) \/ CancelRunning(r)

Plan == AdmitNone \/ AdmitHead \/ EvictOne \/ EvictEnough \/ Readmit \/ Adopt \/ FormBatch \/ Grow

Commit ==
  \/ Sample \/ Verify \/ CommitStop \/ CommitToken \/ Finish
  \/ Publish \/ Trim \/ Retire \/ Advance \/ Complete

DraftStep == DraftGrow \/ DraftGrowFails \/ DraftGrowFailsDone \/ Draft

Tick ==
  \/ StepBegin \/ Plan \/ Forward \/ ForwardRaises \/ FailAll \/ Commit \/ DraftStep \/ StepEnd

Next == Client \/ Tick \/ LoopIdle

\* The loop thread keeps calling step while a row is waiting or running, and a
\* tick that started runs to its end; clients owe nothing.
Fairness == WF_vars(Tick)

Spec == Init /\ [][Next]_vars /\ Fairness

-----------------------------------------------------------------------------
(* Properties *)

RowType ==
  [phase : {"new", "prefill", "decode", "done"}, tokens : Seq(Tokens), seqLen : Nat,
   prefillFrom : Nat, blocks : Seq(Block), own : Nat, slot : Slot \cup {NoSlot},
   drafts : Seq(Draw), decodeEntry : Nat, interior : Nat,
   pending : [len : Nat, state : Seq(Tokens)], closed : BOOLEAN]

\* Every variable has its type.
TypeOK ==
  /\ waiting \in Seq(Req) /\ running \in Seq(Req)
  /\ row \in [Req -> RowType]
  /\ result \in [Req -> {"none", "finished", "failed", "taken"}]
  /\ free \in Seq(Block) /\ ref \in [Block -> Nat]
  /\ cell \in [Block -> [Offset -> Seq(Tokens)]]
  /\ freeSlots \in Seq(Slot) /\ state \in [Slot -> Seq(Tokens)]
  /\ store \in Seq([tokens : Seq(Tokens), blocks : Seq(Block), state : Seq(Tokens)])
  /\ blocksUsed \in Int

\* blocks_used, which stats reports, is what the live rows own: no block is
\* charged to a row that has left (tests/test_e2e.py:305-308).
BlocksUsedIsOwned == blocksUsed = total([i \in DOMAIN running |-> row[running[i]].own])

\* Nothing leaks and nothing is free twice: the free list is exactly the blocks
\* at refcount 0, the free slots exactly those no live row has, and blocks_used
\* what the live rows own.
NothingLeaks ==
  /\ IsInjective(free) /\ Range(free) = {b \in Block : ref[b] = 0}
  /\ IsInjective(freeSlots)
  /\ Range(freeSlots) = Slot \ {row[r].slot : r \in Range(running)}
  /\ BlocksUsedIsOwned

\* Whatever a live row's next forward attends to is the K/V of that row's own
\* tokens: no position behind it was skipped, taken over by another row, or
\* left with a rejected draft in it.
KvExact ==
  \A r \in Range(running) : \A p \in 0 .. materialized(r) - 1 :
    cell[row[r].blocks[p \div BlockTokens + 1]][p % BlockTokens]
      = SubSeq(row[r].tokens, 1, p + 1)

\* Between ticks a live row's recurrent state has consumed exactly the tokens
\* behind its next forward, once each, however it got there: prefix hit, chunks,
\* plain decodes or verified chains.
StateExact ==
  idle => \A r \in Range(running) :
            state[row[r].slot] = SubSeq(row[r].tokens, 1, materialized(r))

\* A stored prefix is whole: its snapshot and its blocks are both those of the
\* tokens it is matched by.
EntryExact ==
  \A i \in DOMAIN store :
    LET e == store[i]
    IN  /\ e.state = e.tokens
        /\ \A p \in 0 .. Len(e.tokens) - 1 :
             cell[e.blocks[p \div BlockTokens + 1]][p % BlockTokens] = SubSeq(e.tokens, 1, p + 1)

\* The store holds what it serves: no block of an entry is on the free list.
StoreHoldsItsBlocks ==
  \A i \in DOMAIN store : \A b \in Range(store[i].blocks) : ref[b] > 0

\* A request is in one place: queued, running, or answered.  So once it is in
\* neither queue its answer is filed, which is what lets a reader poll without
\* the lock and take once.
QueuedOrAnswered ==
  \A r \in Req :
    LET places == Cardinality({i \in DOMAIN waiting : waiting[i] = r})
                    + Cardinality({i \in DOMAIN running : running[i] = r})
    IN  places + (IF result[r] = "none" THEN 0 ELSE 1) = IF row[r].phase = "new" THEN 0 ELSE 1

\* A row running alone always gets its next block: what submit accepted, the
\* pool can carry to the end, by evicting the whole prefix store if need be.
LoneRowAlwaysFits ==
  doing("grow") /\ Len(running) = 1 =>
    decodeExtraBlocks(row[call.r].seqLen, call.q, Len(row[call.r].blocks)) <= Len(free)

\* Evicting other clients' prefixes for a waiting request admits it.
EvictionAdmits ==
  doing("readmit") => needed(Head(waiting)) <= Len(free)

\* Every request that was accepted is answered, whatever else is running,
\* cached, cancelled or failing, as long as the loop thread runs.
EveryRequestAnswered ==
  \A r \in Req : r \in Range(waiting) ~> result[r] # "none"
=============================================================================
