--------------------------- MODULE ContentsProofs ---------------------------
(***************************************************************************)
(* What the pages, the recurrent states and the prefix entries of a dense  *)
(* engine without a drafter hold, for any requests, prompts, budgets and   *)
(* sizes: the K/V of a row's own tokens, the tokens behind its next        *)
(* forward, and what an entry is matched by.                               *)
(*                                                                         *)
(* The invariant is Exact (EngineInv.tla), kept beside EngineInv.  A lemma *)
(* Exact<Action> for each action of Engine; the calls that write nothing   *)
(* are dealt with together, by what of a row's calls matters to it.        *)
(*                                                                         *)
(* With the two, every action of Engine is a step of KvPages under the     *)
(* mapping of EnginePages, or a stutter: a lemma <Action>Refines for each. *)
(*                                                                         *)
(* The last part is about Room, the third part of the invariant: a lemma   *)
(* Room<Actions> for each kind of call, and what it says of a lone row.    *)
(***************************************************************************)
EXTENDS EngineProofs, EnginePages

-----------------------------------------------------------------------------
(* What the pages and the states hold *)

\* The calls that what is computed for a row, or published of it, depends on.
Mattering == {"sample", "commit", "advance", "finish", "publish"}
mattering(C) == {c \in C : c.op \in Mattering}

\* The other calls say nothing of it.
LEMMA ContentsByCalls ==
  ASSUME NEW C, NEW D, mattering(C) = mattering(D), NEW rw, NEW cl, NEW s, RowContents(rw, C, cl, s)
  PROVE  RowContents(rw, D, cl, s)
<1>1. \A c : c.op \in Mattering => (c \in C <=> c \in D)
  BY DEF mattering
<1>2. \A op \in Mattering : op \in {c.op : c \in C} <=> op \in {c.op : c \in D}
  BY <1>1
<1>3. {c \in C : c.op = "advance"} = {c \in D : c.op = "advance"}
  BY <1>1 DEF Mattering
<1>4. computed(rw, C) = computed(rw, D)
  <2>1. {c.op : c \in C} \cap {"sample", "commit"} = {c.op : c \in D} \cap {"sample", "commit"}
    BY <1>2 DEF Mattering
  <2> QED
    BY <1>3, <2>1 DEF computed
<1>5. "finish" \in {c.op : c \in C} <=> "finish" \in {c.op : c \in D}
  BY <1>2 DEF Mattering
<1>6. \A c \in D : c.op = "publish" => c \in C
  BY <1>1 DEF Mattering
<1> QED
  BY <1>4, <1>5, <1>6 DEF RowContents

\* Private blocks stay so while no row and no entry comes to hold them.
LEMMA PrivateStays ==
  ASSUME NEW rn, NEW rw, NEW st, NEW rm, NEW rx, NEW sx, NEW r \in Range(rm), Private(r, rn, rw, st),
         rx[r].blocks = rw[r].blocks, rw[r].blocks \in Seq(Block),
         behind(rw[r]) \in Int, behind(rx[r]) \in Int, behind(rw[r]) <= behind(rx[r]),
         \A q \in Range(rm) : q \in Range(rn) /\ rx[q].blocks = rw[q].blocks,
         Range(sx) \subseteq Range(st)
  PROVE  Private(r, rm, rx, sx)
<1> DEFINE bs == rw[r].blocks
<1>1. Len(bs) \in Nat /\ \A i \in 1 .. Len(bs) : bs[i] \in Range(bs)
  BY RangeOf
<1>2. ASSUME NEW i \in 1 .. Len(bs), i * BlockTokens > behind(rx[r])
      PROVE  rowsWith(rm, rx, bs[i]) = {r} /\ entriesWith(sx, bs[i]) = {}
  <2>1. i * BlockTokens > behind(rw[r])
    <3>1. PICK n \in Int : n = i * BlockTokens
      BY <1>1, PoolAssumption
    <3> QED
      BY <1>2, <3>1
  <2>2. rowsWith(rn, rw, bs[i]) = {r} /\ entriesWith(st, bs[i]) = {}
    BY <2>1 DEF Private
  <2>3. rowsWith(rm, rx, bs[i]) \subseteq rowsWith(rn, rw, bs[i]) /\ r \in rowsWith(rm, rx, bs[i])
    BY <1>1 DEF rowsWith
  <2>4. entriesWith(sx, bs[i]) \subseteq entriesWith(st, bs[i])
    BY DEF entriesWith
  <2> QED
    BY <2>2, <2>3, <2>4
<1> QED
  BY <1>2 DEF Private

\* What is known of a row that runs.
LEMMA RunningRow ==
  ASSUME EngineInv, NEW r \in Range(running)
  PROVE  /\ r \in Req /\ Live(r) /\ ~ Queued(r) /\ row \in [Req -> RowType] /\ row[r] \in RowType
         /\ row[r].blocks \in Seq(Block) /\ IsInjective(row[r].blocks) /\ row[r].tokens \in Seq(Tokens)
         /\ row[r].slot \in Slot /\ state[row[r].slot] \in Seq(Tokens)
         /\ LiveRight(row[r], r, callsFor(agenda, r), opsFor(agenda, r))
         /\ row[r].phase \in {"prefill", "decode"}
         /\ row[r].seqLen \in Nat /\ row[r].prefillFrom \in Nat /\ promptLen(r) \in Nat
         /\ behind(row[r]) \in Nat /\ behind(row[r]) <= Len(row[r].tokens)
<1>1. r \in Req /\ running \in Seq(Req)
  <2>1. running \in Seq(Req)
    BY DEF EngineInv, Pools, PoolsRight, Queue
  <2> QED
    BY <2>1, RangeOf
<1>2. /\ row \in [Req -> RowType] /\ row[r] \in RowType /\ Live(r)
      /\ LiveRight(row[r], r, callsFor(agenda, r), opsFor(agenda, r)) /\ ~ Queued(r)
      /\ row[r].slot \in Slot /\ state[row[r].slot] \in Seq(Tokens)
  BY <1>1, RowKnown DEF Live
<1>3. row[r].blocks \in Seq(Block) /\ IsInjective(row[r].blocks)
  BY DEF EngineInv, Pools, PoolsRight, BlocksRight
<1>4. /\ row[r].tokens \in Seq(Tokens) /\ row[r].seqLen \in Nat /\ row[r].prefillFrom \in Nat
      /\ row[r].phase \in {"prefill", "decode"} /\ Len(row[r].tokens) \in Nat
  BY <1>2 DEF RowType, LiveRight
<1>5. promptLen(r) \in Nat
  <2>1. Prompt[r] \in Seq(Range(Prompt[r]))
    BY <1>1, RequestAssumption
  <2> QED
    BY <2>1, LenProperties DEF promptLen
<1>6. behind(row[r]) \in Nat /\ behind(row[r]) <= Len(row[r].tokens)
  <2>1. CASE row[r].phase = "prefill"
    <3>1. row[r].prefillFrom <= promptLen(r) /\ Len(row[r].tokens) \in {promptLen(r), promptLen(r) + 1}
      BY <1>2, <2>1 DEF LiveRight, PrefillRight
    <3> QED
      BY <1>4, <1>5, <2>1, <3>1 DEF behind
  <2>2. CASE row[r].phase = "decode"
    <3>1. row[r].seqLen = Len(row[r].tokens) /\ promptLen(r) < row[r].seqLen
      BY <1>2, <2>2 DEF LiveRight, DecodeRight
    <3> QED
      BY <1>4, <1>5, <2>2, <3>1 DEF behind
  <2> QED
    BY <1>4, <2>1, <2>2
<1> QED
  BY <1>1, <1>2, <1>3, <1>4, <1>5, <1>6

\* A step beside the pages: it writes nothing, starts no row and stores no entry, and
\* what of the rows that still run matters to their contents stays.
LEMMA ExactBeside ==
  ASSUME EngineInv, Exact, UNCHANGED <<cell, state>>,
         Range(running') \subseteq Range(running), Range(store') \subseteq Range(store),
         \A r \in Range(running') :
           /\ row'[r] = row[r]
           /\ mattering(callsFor(agenda', r)) = mattering(callsFor(agenda, r)),
         \A c \in Range(agenda') : c.op = "forward" => ForwardFeeds(c)'
  PROVE  Exact'
<1>1. ASSUME NEW r \in Range(running')
      PROVE  /\ RowContents(row'[r], callsFor(agenda', r), cell', state'[row'[r].slot])
             /\ Private(r, running', row', store')
  <2>1. r \in Range(running) /\ row'[r] = row[r]
    OBVIOUS
  <2>2. RowContents(row[r], callsFor(agenda, r), cell, state[row[r].slot]) /\ Private(r, running, row, store)
    BY <2>1 DEF Exact
  <2>3. RowContents(row[r], callsFor(agenda', r), cell, state[row[r].slot])
    BY <2>2, ContentsByCalls
  <2>4. Private(r, running', row', store')
    <3>1. row[r].blocks \in Seq(Block) /\ behind(row[r]) \in Int
      BY <2>1, RunningRow
    <3>2. \A q \in Range(running') : q \in Range(running) /\ row'[q].blocks = row[q].blocks
      OBVIOUS
    <3> QED
      BY <2>1, <2>2, <3>1, <3>2, PrivateStays
  <2> QED
    BY <2>1, <2>3, <2>4
<1>2. \A e \in Range(store') : EntryContents(e, cell')
  BY DEF Exact
<1> QED
  BY <1>1, <1>2 DEF Exact

\* Between ticks nothing is on the agenda.
LEMMA NoCalls ==
  ASSUME agenda = <<>>
  PROVE  (\A r : callsFor(agenda, r) = {}) /\ Range(agenda) = {}
BY NoneFor, NoCall

\* A forward that is planned stays planned for what its rows generated last.
LEMMA StillFeeds ==
  ASSUME Exact, Range(agenda') \subseteq Range(agenda),
         \A c \in Range(agenda) : c.op = "forward" =>
            \A d \in Range(c.decodes) : row'[d.r].phase = "done" \/ (row'[d.r].tokens = row[d.r].tokens /\ row'[d.r].phase = row[d.r].phase)
  PROVE  \A c \in Range(agenda') : c.op = "forward" => ForwardFeeds(c)'
BY DEF Exact, ForwardFeeds

-----------------------------------------------------------------------------
(* Clients *)

\* A client's call finds nothing under way.
LEMMA ExactClient == ASSUME EngineInv, Exact, Client PROVE Exact'
<1>1. PICK r \in Req : Submit(r) \/ Take(r) \/ CancelWaiting(r) \/ CancelRunning(r)
  BY DEF Client
<1>2. agenda = <<>> /\ agenda' = <<>> /\ UNCHANGED <<cell, state, store>>
  BY <1>1 DEF Submit, Take, CancelWaiting, CancelRunning, idle
<1>3. row \in [Req -> RowType] /\ running \in Seq(Req)
  BY DEF EngineInv, TypeOK
<1>4. /\ Range(running') \subseteq Range(running)
      /\ \A q \in Range(running') : row'[q] = row[q]
  <2>1. CASE Submit(r) \/ CancelWaiting(r)
    <3>1. r \notin Range(running)
      <4>1. ASSUME r \in Range(running), Submit(r) PROVE FALSE
        <5>1. row[r].phase \in {"prefill", "decode"}
          BY <4>1, RunningRow
        <5> QED
          BY <4>1, <5>1 DEF Submit
      <4>2. ASSUME r \in Range(running), CancelWaiting(r) PROVE FALSE
        <5>1. ~ Queued(r)
          BY <4>2, RunningRow
        <5> QED
          BY <4>2, <5>1 DEF CancelWaiting, Queued
      <4> QED
        BY <2>1, <4>1, <4>2
    <3>2. running' = running /\ \A q \in Req \ {r} : row'[q] = row[q]
      BY <1>3, <2>1 DEF Submit, CancelWaiting
    <3>3. \A q \in Range(running) : q \in Req
      BY RunningRow
    <3> QED
      BY <3>1, <3>2, <3>3
  <2>2. CASE Take(r)
    BY <2>2 DEF Take
  <2>3. CASE CancelRunning(r)
    <3>1. Range(running') = Range(running) \ {r} /\ r \in Range(running)
      <4>1. IsInjective(running)
        BY DEF EngineInv, Pools, PoolsRight, Queue
      <4>2. running' = RemoveFirst(running, r) /\ r \in Range(running)
        BY <2>3 DEF CancelRunning
      <4> QED
        BY <1>3, <4>1, <4>2, RemovedFirst
    <3>2. \A q \in Req \ {r} : row'[q] = row[q]
      BY <1>3, <2>3 DEF CancelRunning
    <3>3. \A q \in Range(running) : q \in Req
      BY RunningRow
    <3> QED
      BY <3>1, <3>2, <3>3
  <2> QED
    BY <1>1, <2>1, <2>2, <2>3
<1>5. \A q \in Range(running') : mattering(callsFor(agenda', q)) = mattering(callsFor(agenda, q))
  BY <1>2
<1>6. \A c \in Range(agenda') : c.op = "forward" => ForwardFeeds(c)'
  BY <1>2, NoCall
<1> QED
  BY <1>2, <1>4, <1>5, <1>6, ExactBeside

-----------------------------------------------------------------------------
(* The calls that write nothing and are not for one row *)

\* What is on the agenda after calls were put in the place of the first.
LEMMA NextCalls ==
  ASSUME EngineInv, agenda # <<>>, NEW s, s \in Seq(Range(s)), next(s)
  PROVE  /\ Range(agenda') = Range(s) \cup Range(Tail(agenda))
         /\ Range(agenda) = {Head(agenda)} \cup Range(Tail(agenda))
         /\ \A r : callsFor(agenda', r) = callsFor(s, r) \cup callsFor(Tail(agenda), r)
         /\ \A r : callsFor(agenda, r) = callsFor(Tail(agenda), r) \cup (IF forRow(Head(agenda), r) THEN {Head(agenda)} ELSE {})
         /\ Head(agenda).op \notin {"evict", "grow"} => \A c \in Range(Tail(agenda)) : c.op \notin Lone
<1> DEFINE t == Tail(agenda)
<1>1. AgendaRight(agenda)
  BY DEF EngineInv
<1>2. Range(agenda) = {Head(agenda)} \cup Range(t) /\ AgendaRight(t)
  BY <1>1, TakenCall
<1>3. Head(agenda).op \notin {"evict", "grow"} => \A c \in Range(t) : c.op \notin Lone
  BY <1>1, Dropped
<1>4. t \in Seq(Range(t))
  BY <1>2 DEF AgendaRight
<1>5. agenda' = s \o t
  BY DEF next
<1> HIDE DEF t
<1>6. Range(s \o t) = Range(s) \cup Range(t)
  <2> DEFINE S == Range(s) \cup Range(t)
  <2>1. s \in Seq(S)
    OBVIOUS
  <2>2. t \in Seq(S)
    BY <1>4
  <2> HIDE DEF S
  <2> QED
    BY <2>1, <2>2, JoinedOnce
<1>7. \A r : callsFor(agenda', r) = callsFor(s, r) \cup callsFor(t, r)
  BY <1>5, <1>6 DEF callsFor
<1>8. \A r : callsFor(agenda, r) = callsFor(t, r) \cup (IF forRow(Head(agenda), r) THEN {Head(agenda)} ELSE {})
  BY <1>2 DEF callsFor
<1> QED
  BY <1>2, <1>3, <1>5, <1>6, <1>7, <1>8 DEF t

\* Calls that say nothing of any row's contents follow one that said nothing.
LEMMA Aside ==
  ASSUME EngineInv, agenda # <<>>, Head(agenda).op \notin Mattering,
         NEW s, s \in Seq(Range(s)), \A c \in Range(s) : c.op \notin Mattering, next(s)
  PROVE  /\ \A r : mattering(callsFor(agenda', r)) = mattering(callsFor(agenda, r))
         /\ \A c \in Range(agenda') : c \in Range(s) \/ c \in Range(agenda)
         /\ Head(agenda).op \notin {"evict", "grow"} /\ (\A c \in Range(s) : c.op # "forward") =>
              \A c \in Range(agenda') : c.op # "forward"
<1>1. /\ Range(agenda') = Range(s) \cup Range(Tail(agenda))
      /\ Range(agenda) = {Head(agenda)} \cup Range(Tail(agenda))
      /\ \A r : callsFor(agenda', r) = callsFor(s, r) \cup callsFor(Tail(agenda), r)
      /\ \A r : callsFor(agenda, r) = callsFor(Tail(agenda), r) \cup (IF forRow(Head(agenda), r) THEN {Head(agenda)} ELSE {})
      /\ Head(agenda).op \notin {"evict", "grow"} => \A c \in Range(Tail(agenda)) : c.op \notin Lone
  BY NextCalls
<1>2. \A r : mattering(callsFor(agenda', r)) = mattering(callsFor(Tail(agenda), r))
  BY <1>1 DEF mattering, callsFor
<1>3. \A r : mattering(callsFor(agenda, r)) = mattering(callsFor(Tail(agenda), r))
  BY <1>1 DEF mattering
<1> QED
  BY <1>1, <1>2, <1>3 DEF Lone

\* One call, or none, is a sequence of its own.
LEMMA FewCalls ==
  /\ <<>> \in Seq(Range(<<>>)) /\ Range(<<>>) = {}
  /\ \A c : <<c>> \in Seq(Range(<<c>>)) /\ Range(<<c>>) = {c}
  /\ \A c, d : <<c, d>> \in Seq(Range(<<c, d>>)) /\ Range(<<c, d>>) = {c, d}
<1>1. Range(<<>>) = {} /\ (\A c : Range(<<c>>) = {c}) /\ \A c, d : Range(<<c, d>>) = {c, d}
  BY DEF Range
<1> QED
  BY <1>1

\* The rows stay as they are, nothing is written, and a call gave way to such calls.
LEMMA ExactAside ==
  ASSUME EngineInv, Exact, UNCHANGED <<cell, state>>,
         agenda # <<>>, Head(agenda).op \notin Mattering \cup {"evict", "grow"},
         NEW s, s \in Seq(Range(s)), \A c \in Range(s) : c.op \notin Mattering \cup {"forward"}, next(s),
         Range(running') \subseteq Range(running), Range(store') \subseteq Range(store),
         \A r \in Range(running') : row'[r] = row[r]
  PROVE  Exact'
<1>1. /\ \A r : mattering(callsFor(agenda', r)) = mattering(callsFor(agenda, r))
      /\ \A c \in Range(agenda') : c.op # "forward"
  BY Aside
<1> QED
  BY <1>1, ExactBeside

\* A lookup only reorders the store.
LEMMA LookupKeeps ==
  ASSUME EngineInv, waiting # <<>>
  PROVE  Range(touched(row[Head(waiting)].tokens)) = Range(store)
BY WaitingHead, TouchedStore

\* A dropped entry takes nothing else along.
LEMMA DroppedRange ==
  ASSUME EngineInv, NEW k \in 1 .. Len(store)
  PROVE  Range(RemoveAt(store, k)) \subseteq Range(store)
<1>1. store \in Seq(Entry) /\ IsInjective(store)
  BY EntriesOnce DEF EngineInv, Pools, PoolsRight
<1> QED
  BY <1>1, RemovedOnce

\* One lone call gives way to another.
LEMMA ExactToLone ==
  ASSUME EngineInv, Exact, UNCHANGED <<cell, state, running, row>>, Range(store') = Range(store),
         agenda # <<>>, Head(agenda).op \in Lone, NEW op \in Lone \ {"forward"}, next(<<[op |-> op]>>)
  PROVE  Exact'
<1> DEFINE s == <<[op |-> op]>>
<1>1. s \in Seq(Range(s)) /\ Range(s) = {[op |-> op]}
  BY FewCalls
<1>2. \A c \in Range(s) : c.op \notin Mattering \cup {"forward"}
  BY <1>1 DEF Lone, Mattering
<1>3. Head(agenda).op \notin Mattering \cup {"evict", "grow"}
  BY DEF Lone, Mattering
<1> HIDE DEF s
<1>4. next(s)
  BY DEF s
<1> QED
  BY <1>1, <1>2, <1>3, <1>4, ExactAside

\* A tick begins, the head of the queue is weighed, or the forward raises.
LEMMA ExactLoneSteps ==
  ASSUME EngineInv, Exact, StepBegin \/ AdmitNone \/ AdmitHead \/ Readmit \/ ForwardRaises
  PROVE  Exact'
<1>1. CASE StepBegin
  <2>1. agenda = <<>> /\ UNCHANGED <<cell, state, running, store, row>>
        /\ agenda' = <<[op |-> "plan"], [op |-> "end"]>>
    BY <1>1 DEF StepBegin, idle
  <2>2. Range(agenda') = {[op |-> "plan"], [op |-> "end"]}
    BY <2>1, FewCalls
  <2>3. \A r : callsFor(agenda', r) = {}
    BY <2>2 DEF callsFor, forRow, RowOps
  <2>4. \A r : mattering(callsFor(agenda', r)) = mattering(callsFor(agenda, r))
    BY <2>1, <2>3, NoCalls
  <2>5. \A c \in Range(agenda') : c.op # "forward"
    BY <2>2
  <2> QED
    BY <2>1, <2>4, <2>5, ExactBeside
<1>2. CASE AdmitNone
  <2>1. agenda # <<>> /\ Head(agenda).op = "plan" /\ next(<<[op |-> "batch"]>>)
        /\ UNCHANGED <<cell, state, running, store, row>>
    BY <1>2 DEF AdmitNone, doing
  <2> QED
    BY <2>1, ExactToLone DEF Lone
<1>3. CASE AdmitHead
  <2> DEFINE s == admitVerdict(Head(waiting))
  <2>1. agenda # <<>> /\ Head(agenda).op = "plan" /\ next(s) /\ waiting # <<>>
        /\ UNCHANGED <<cell, state, running, row>> /\ store' = touched(row[Head(waiting)].tokens)
    BY <1>3 DEF AdmitHead, doing, roomForOne
  <2>2. s \in Seq(Range(s)) /\ \A c \in Range(s) : c.op \in {"adopt", "batch", "evict", "readmit"}
    <3> DEFINE n == needed(Head(waiting))
    <3>1. PICK op \in {"adopt", "batch"} :
            s = <<[op |-> op]>> \/ s = <<[op |-> "evict", until |-> n], [op |-> "readmit"]>>
      BY DEF admitVerdict
    <3> HIDE DEF n
    <3> DEFINE u == <<[op |-> op]>>
               v == <<[op |-> "evict", until |-> n], [op |-> "readmit"]>>
    <3>2. u \in Seq(Range(u)) /\ Range(u) = {[op |-> op]}
      BY FewCalls
    <3>3. v \in Seq(Range(v)) /\ Range(v) = {[op |-> "evict", until |-> n], [op |-> "readmit"]}
      BY FewCalls
    <3>4. s = u \/ s = v
      BY <3>1
    <3> HIDE DEF s, u, v
    <3> QED
      BY <3>2, <3>3, <3>4
  <2>3. Range(store') = Range(store)
    BY <2>1, LookupKeeps
  <2> HIDE DEF s
  <2> QED
    BY <2>1, <2>2, <2>3, ExactAside DEF Mattering
<1>4. CASE Readmit
  <2>1. agenda # <<>> /\ Head(agenda).op = "readmit"
        /\ UNCHANGED <<cell, state, running, row>> /\ store' = touched(row[Head(waiting)].tokens)
        /\ next(IF Len(free) < needed(Head(waiting)) THEN <<[op |-> "batch"]>> ELSE <<[op |-> "adopt"]>>)
    BY <1>4 DEF Readmit, doing
  <2>2. waiting # <<>>
    <3>1. Head(agenda) \in Range(agenda)
      BY <1>4, Doing DEF Readmit, call
    <3> QED
      BY <2>1, <3>1 DEF EngineInv, Admission, roomForOne
  <2>3. Range(store') = Range(store)
    BY <2>1, <2>2, LookupKeeps
  <2>4. PICK op \in {"batch", "adopt"} : next(<<[op |-> op]>>)
    BY <2>1
  <2>5. op \in Lone \ {"forward"}
    BY DEF Lone
  <2> QED
    BY <2>1, <2>3, <2>4, <2>5, ExactToLone DEF Lone
<1>5. CASE ForwardRaises
  <2>1. agenda # <<>> /\ Head(agenda).op = "forward" /\ next(<<[op |-> "failall"]>>)
        /\ UNCHANGED <<cell, state, running, store, row>>
    BY <1>5 DEF ForwardRaises, doing
  <2> QED
    BY <2>1, ExactToLone DEF Lone
<1> QED
  BY <1>1, <1>2, <1>3, <1>4, <1>5

\* Nothing takes the place of a call that said nothing of any row's contents.
LEMMA AsideDone ==
  ASSUME EngineInv, agenda # <<>>, Head(agenda).op \notin Mattering, next(<<>>)
  PROVE  /\ \A r : mattering(callsFor(agenda', r)) = mattering(callsFor(agenda, r))
         /\ Range(agenda') \subseteq Range(agenda)
         /\ Head(agenda).op \notin {"evict", "grow"} => \A c \in Range(agenda') : c.op # "forward"
<1> DEFINE s == <<>>
<1>1. s \in Seq(Range(s)) /\ Range(s) = {}
  BY FewCalls
<1>2. next(s)
  OBVIOUS
<1> HIDE DEF s
<1> QED
  BY <1>1, <1>2, Aside

\* Entries go: evict_until_free, the store's own limit, a row that outgrew its entry.
LEMMA ExactEntriesGo ==
  ASSUME EngineInv, Exact, EvictOne \/ EvictEnough \/ Trim \/ Retire
  PROVE  Exact'
<1>1. UNCHANGED <<cell, state, running, row>> /\ agenda # <<>> /\ Head(agenda).op \in {"evict", "trim", "retire"}
  BY DEF EvictOne, EvictEnough, Trim, Retire, doing
<1>2. agenda' = agenda \/ next(<<>>)
  BY DEF EvictOne, EvictEnough, Trim, Retire
<1>3. store' = store \/ \E k \in 1 .. Len(store) : store' = RemoveAt(store, k)
  <2>1. store \in Seq(Entry) /\ Capacity \in Nat
    BY PoolAssumption DEF EngineInv, Pools, PoolsRight, StoreRight
  <2>2. CASE EvictOne \/ EvictEnough
    <3>1. store # <<>> => 1 \in 1 .. Len(store)
      BY <2>1
    <3> QED
      BY <2>2, <3>1 DEF EvictOne, EvictEnough, dropEntry
  <2>3. CASE Trim
    <3>1. Len(store) > Capacity => 1 \in 1 .. Len(store)
      BY <2>1
    <3> QED
      BY <2>3, <3>1 DEF Trim, dropEntry
  <2>4. CASE Retire
    <3>1. stored(call.key) => indexOf(call.key) \in 1 .. Len(store)
      BY <2>1 DEF stored, indexOf
    <3> QED
      BY <2>4, <3>1 DEF Retire, dropEntry
  <2> QED
    BY <2>2, <2>3, <2>4
<1>4. Range(store') \subseteq Range(store)
  BY <1>3, DroppedRange
<1>5. /\ \A r : mattering(callsFor(agenda', r)) = mattering(callsFor(agenda, r))
      /\ Range(agenda') \subseteq Range(agenda)
  <2>1. Head(agenda).op \notin Mattering
    BY <1>1 DEF Mattering
  <2> QED
    BY <1>1, <1>2, <2>1, AsideDone
<1>6. \A c \in Range(agenda') : c.op = "forward" => ForwardFeeds(c)'
  BY <1>1, <1>5, StillFeeds
<1> QED
  BY <1>1, <1>4, <1>5, <1>6, ExactBeside

\* A row that is finished leaves the others as they are.
LEMMA ExactFinish == ASSUME EngineInv, Exact, Finish PROVE Exact'
<1>1. doing("finish") /\ finish(call.r, "finished") /\ UNCHANGED <<cell, state, store>>
      /\ agenda' = <<>> \o Tail(agenda) /\ agenda # <<>> /\ next(<<>>)
  BY DEF Finish, next, doing
<1>2. call.r \in Range(running) /\ call.r \in Req /\ Head(agenda).op = "finish"
  BY <1>1, CallOfLive DEF RowOps, Live, doing
<1>3. Range(running') = Range(running) \ {call.r} /\ \A q \in Req \ {call.r} : row'[q] = row[q]
  BY <1>1, <1>2, FinishedRow
<1>4. \A q \in Req \ {call.r} : callsFor(agenda', q) = callsFor(agenda, q)
  BY <1>1, <1>2, RowCallDone DEF RowOps
<1>5. \A c \in Range(agenda') : c.op # "forward"
  <2> DEFINE s == <<>>
  <2>1. s \in Seq(Range(s)) /\ Range(s) = {} /\ next(s)
    BY <1>1, FewCalls
  <2> HIDE DEF s
  <2>2. /\ Range(agenda') = Range(s) \cup Range(Tail(agenda))
        /\ Head(agenda).op \notin {"evict", "grow"} => \A c \in Range(Tail(agenda)) : c.op \notin Lone
    BY <1>1, <2>1, NextCalls
  <2> QED
    BY <1>2, <2>1, <2>2 DEF Lone
<1>6. \A q \in Range(running) : q \in Req
  BY RunningRow
<1> QED
  BY <1>1, <1>3, <1>4, <1>5, <1>6, ExactBeside

\* So does one that fails with all the others.
LEMMA ExactFailAll == ASSUME EngineInv, Exact, FailAll PROVE Exact'
<1>1. agenda # <<>> /\ Head(agenda).op = "failall" /\ UNCHANGED <<cell, state, store>>
  BY DEF FailAll, doing
<1>2. CASE running = <<>>
  <2>1. next(<<>>) /\ UNCHANGED <<running, row>>
    BY <1>2 DEF FailAll
  <2>2. Head(agenda).op \notin Mattering \cup {"evict", "grow"}
    BY <1>1 DEF Mattering
  <2>3. /\ \A r : mattering(callsFor(agenda', r)) = mattering(callsFor(agenda, r))
        /\ \A c \in Range(agenda') : c.op # "forward"
    BY <1>1, <2>1, <2>2, AsideDone
  <2> QED
    BY <1>1, <2>1, <2>3, ExactBeside
<1>3. CASE running # <<>>
  <2>1. Head(running) \in Range(running) /\ finish(Head(running), "failed") /\ agenda' = agenda
    <3>1. running \in Seq(Req)
      BY DEF EngineInv, TypeOK
    <3> QED
      BY <1>3, <3>1, TailOf DEF FailAll
  <2>2. Range(running') = Range(running) \ {Head(running)} /\ \A q \in Req \ {Head(running)} : row'[q] = row[q]
    BY <1>1, <2>1, FinishedRow
  <2>3. \A c \in Range(agenda') : c.op # "forward"
    <3>1. /\ Range(agenda) = {Head(agenda)} \cup Range(Tail(agenda))
          /\ \A c \in Range(Tail(agenda)) : Head(agenda).op \in Lone => c.op = "end"
      BY <1>1, TakenCall DEF EngineInv
    <3> QED
      BY <1>1, <2>1, <3>1 DEF Lone
  <2>4. \A q \in Range(running) : q \in Req
    BY RunningRow
  <2> QED
    BY <1>1, <2>1, <2>2, <2>3, <2>4, ExactBeside
<1> QED
  BY <1>2, <1>3

\* What step forgets at the end of a tick is not of the rows that run.
LEMMA ExactStepEnd == ASSUME EngineInv, Exact, StepEnd PROVE Exact'
<1>1. agenda # <<>> /\ Head(agenda).op = "end" /\ next(<<>>) /\ UNCHANGED <<cell, state, store, running>>
      /\ row' = [r \in Req |-> IF row[r].phase = "done" THEN goneRow(r) ELSE row[r]]
  BY DEF StepEnd, doing
<1>2. ASSUME NEW r \in Range(running) PROVE row'[r] = row[r]
  <2>1. r \in Req /\ row[r].phase \in {"prefill", "decode"}
    BY RunningRow
  <2> QED
    BY <1>1, <2>1
<1>3. Head(agenda).op \notin Mattering \cup {"evict", "grow"}
  BY <1>1 DEF Mattering
<1>4. /\ \A r : mattering(callsFor(agenda', r)) = mattering(callsFor(agenda, r))
      /\ \A c \in Range(agenda') : c.op # "forward"
  BY <1>1, <1>3, AsideDone
<1> QED
  BY <1>1, <1>2, <1>4, ExactBeside

-----------------------------------------------------------------------------
(* The calls for one row: a token is committed, a chunk ends *)

\* How far a row has been computed, by the calls it has to come.
LEMMA ComputedOf ==
  ASSUME NEW rw, NEW C
  PROVE  LET ops == {c.op : c \in C}
         IN  /\ rw.phase = "decode" /\ ("sample" \in ops \/ "commit" \in ops) => computed(rw, C) = {rw.seqLen}
             /\ rw.phase = "decode" /\ "sample" \notin ops /\ "commit" \notin ops => computed(rw, C) = {rw.seqLen - 1}
             /\ rw.phase = "prefill" /\ "advance" \notin ops => computed(rw, C) = {rw.prefillFrom}
             /\ \A c \in C : rw.phase = "prefill" /\ c.op = "advance" /\ (\A d \in C : d.op = "advance" => d = c) =>
                               computed(rw, C) = {rw.prefillFrom + c.count}
<1> DEFINE ops == {c.op : c \in C}
           advances == {c \in C : c.op = "advance"}
<1>1. ASSUME rw.phase = "decode", "sample" \in ops \/ "commit" \in ops PROVE computed(rw, C) = {rw.seqLen}
  <2>1. ops \cap {"sample", "commit"} # {}
    BY <1>1
  <2> QED
    BY <1>1, <2>1 DEF computed
<1>2. ASSUME rw.phase = "decode", "sample" \notin ops, "commit" \notin ops PROVE computed(rw, C) = {rw.seqLen - 1}
  <2>1. ops \cap {"sample", "commit"} = {}
    BY <1>2
  <2> QED
    BY <1>2, <2>1 DEF computed
<1>3. ASSUME rw.phase = "prefill", "advance" \notin ops PROVE computed(rw, C) = {rw.prefillFrom}
  <2>1. advances = {}
    BY <1>3
  <2> QED
    BY <1>3, <2>1 DEF computed
<1>4. ASSUME NEW c \in C, rw.phase = "prefill", c.op = "advance", \A d \in C : d.op = "advance" => d = c
      PROVE  computed(rw, C) = {rw.prefillFrom + c.count}
  <2>1. advances = {c}
    BY <1>4
  <2>2. {rw.prefillFrom + d.count : d \in {c}} = {rw.prefillFrom + c.count}
    OBVIOUS
  <2> QED
    BY <1>4, <2>1, <2>2 DEF computed
<1> QED
  BY <1>1, <1>2, <1>3, <1>4

\* A text that grows keeps its beginnings.
LEMMA BeginningStays ==
  ASSUME NEW t \in Seq(Tokens), NEW x, NEW n \in Nat, n <= Len(t)
  PROVE  SubSeq(Append(t, x), 1, n) = SubSeq(t, 1, n)
<1>1. Len(t) \in Nat /\ \A i \in 1 .. Len(t) : Append(t, x)[i] = t[i]
  OBVIOUS
<1> QED
  BY <1>1

\* So the K/V of a beginning is that of the text that grew out of it.
LEMMA KvOfBeginning ==
  ASSUME NEW cl, NEW bs, NEW t \in Seq(Tokens), NEW x, NEW n \in Nat, n <= Len(t), HoldsKv(cl, bs, t, n)
  PROVE  HoldsKv(cl, bs, Append(t, x), n)
<1>1. ASSUME NEW p \in 0 .. n - 1
      PROVE  cl[bs[p \div BlockTokens + 1]][p % BlockTokens] = SubSeq(Append(t, x), 1, p + 1)
  <2>1. cl[bs[p \div BlockTokens + 1]][p % BlockTokens] = SubSeq(t, 1, p + 1)
    BY DEF HoldsKv
  <2>2. p + 1 \in Nat /\ p + 1 <= Len(t)
    OBVIOUS
  <2> QED
    BY <2>1, <2>2, BeginningStays
<1> QED
  BY <1>1 DEF HoldsKv

\* One row goes on, in the same blocks and the same slot, and nothing is written.
LEMMA ExactOneRow ==
  ASSUME EngineInv, Exact, NEW r \in Range(running), UNCHANGED <<cell, state, running, store>>,
         \A q \in Req \ {r} : row'[q] = row[q] /\ callsFor(agenda', q) = callsFor(agenda, q),
         row'[r].blocks = row[r].blocks, row'[r].slot = row[r].slot,
         behind(row'[r]) \in Int, behind(row[r]) <= behind(row'[r]),
         RowContents(row'[r], callsFor(agenda', r), cell, state[row[r].slot]),
         \A c \in Range(agenda') : c.op # "forward"
  PROVE  Exact'
<1>0. r \in Req /\ \A q \in Range(running) : q \in Req /\ row[q].blocks \in Seq(Block) /\ behind(row[q]) \in Int
  BY RunningRow
<1>1. ASSUME NEW q \in Range(running)
      PROVE  /\ RowContents(row'[q], callsFor(agenda', q), cell', state'[row'[q].slot])
             /\ Private(q, running', row', store')
  <2>1. q \in Req /\ row[q].blocks \in Seq(Block) /\ behind(row[q]) \in Int
    BY <1>0
  <2>2. RowContents(row[q], callsFor(agenda, q), cell, state[row[q].slot]) /\ Private(q, running, row, store)
    BY DEF Exact
  <2>3. row'[q].blocks = row[q].blocks /\ behind(row'[q]) \in Int /\ behind(row[q]) <= behind(row'[q])
    <3>1. CASE q = r
      BY <3>1
    <3>2. CASE q # r
      BY <2>1, <3>2
    <3> QED
      BY <3>1, <3>2
  <2>4. \A p \in Range(running') : p \in Range(running) /\ row'[p].blocks = row[p].blocks
    <3>1. ASSUME NEW p \in Range(running) PROVE row'[p].blocks = row[p].blocks
      <4>1. CASE p = r
        BY <4>1
      <4>2. CASE p # r
        BY <1>0, <4>2
      <4> QED
        BY <4>1, <4>2
    <3> QED
      BY <3>1
  <2>5. Private(q, running', row', store')
    BY <2>1, <2>2, <2>3, <2>4, PrivateStays
  <2>6. CASE q = r
    BY <2>5, <2>6
  <2>7. CASE q # r
    BY <2>1, <2>2, <2>5, <2>7
  <2> QED
    BY <2>6, <2>7
<1>2. \A e \in Range(store') : EntryContents(e, cell')
  BY DEF Exact
<1> QED
  BY <1>1, <1>2 DEF Exact

\* No forward is planned once the rows' calls have begun.
LEMMA NoForwardLeft ==
  ASSUME EngineInv, NEW op \in RowOps \ {"grow"}, doing(op), NEW s, s \in Seq(Range(s)),
         \A c \in Range(s) : c.op # "forward", next(s)
  PROVE  \A c \in Range(agenda') : c.op # "forward"
<1>1. agenda # <<>> /\ Head(agenda).op \notin {"evict", "grow"}
  BY DEF doing, RowOps
<1>2. Range(agenda') = Range(s) \cup Range(Tail(agenda)) /\ \A c \in Range(Tail(agenda)) : c.op \notin Lone
  BY <1>1, NextCalls
<1> QED
  BY <1>2 DEF Lone

\* What follows a call of the second turn is the end of the prompt's chunk.
LEMMA OnlyComplete ==
  ASSUME EngineInv, NEW op \in {"sample", "commit", "finish"}, doing(op)
  PROVE  /\ call.r \in Range(running) /\ call.r \in Req /\ call.op = op
         /\ callsFor(agenda, call.r) = callsFor(Tail(agenda), call.r) \cup {call}
         /\ \A c \in callsFor(Tail(agenda), call.r) : c.op = "complete"
<1>1. op \in RowOps /\ op # "complete"
  BY DEF RowOps
<1>2. /\ call.r \in Req /\ Live(call.r)
      /\ callsFor(agenda, call.r) = callsFor(Tail(agenda), call.r) \cup {call}
      /\ \A o \in opsFor(Tail(agenda), call.r) : o \in RowOps /\ turn(op) < turn(o)
  BY <1>1, CallOfLive
<1>3. \A o \in opsFor(Tail(agenda), call.r) : o = "complete"
  BY <1>2 DEF turn
<1> QED
  BY <1>2, <1>3 DEF opsFor, Live, doing, call

\* A token is sampled: the row has been computed as far as before.
LEMMA ExactSample == ASSUME EngineInv, Exact, Sample PROVE Exact'
<1>1. doing("sample") /\ "sample" \in RowOps \ {"grow"}
  BY DEF Sample, RowOps
<1>2. PICK r \in Req : r = call.r
  BY <1>1, CallOfLive
<1>3. PICK tok \in Draw : agenda' = <<[op |-> "commit", r |-> r, toks |-> <<tok>>]>> \o Tail(agenda)
  BY <1>2 DEF Sample, next
<1> DEFINE c == [op |-> "commit", r |-> r, toks |-> <<tok>>]
           s == <<c>>
           T == callsFor(Tail(agenda), r)
           C == T \cup {call}
           D == {c} \cup T
<1>4. c.op = "commit" /\ c.r = r /\ c.toks = <<tok>>
  OBVIOUS
<1>5. agenda' = <<c>> \o Tail(agenda)
  BY <1>3
<1> HIDE DEF c
<1>6. CallType(c) /\ c.op \in RowOps /\ turn(c.op) <= turn("sample")
  BY <1>4 DEF CallType, RowOps, turn
<1>7. callsFor(agenda', r) = D /\ \A q \in Req \ {r} : callsFor(agenda', q) = callsFor(agenda, q)
  BY <1>1, <1>2, <1>4, <1>5, <1>6, RowCallForAnother
<1>8. r \in Range(running) /\ callsFor(agenda, r) = C /\ call.op = "sample" /\ \A d \in T : d.op = "complete"
  BY <1>1, <1>2, OnlyComplete
<1>9. \A d \in Range(agenda') : d.op # "forward"
  <2>1. s \in Seq(Range(s)) /\ Range(s) = {c}
    BY FewCalls
  <2>2. next(s)
    BY <1>5 DEF next
  <2> HIDE DEF s
  <2> QED
    BY <1>1, <1>4, <2>1, <2>2, NoForwardLeft
<1>10. row[r].phase \in {"prefill", "decode"} /\ behind(row[r]) \in Nat
  BY <1>8, RunningRow
<1>11. /\ "sample" \in {d.op : d \in C} /\ "commit" \in {d.op : d \in D}
       /\ \A o \in {"advance", "finish", "publish"} : o \notin {d.op : d \in C} /\ o \notin {d.op : d \in D}
  BY <1>4, <1>8
<1> HIDE DEF T, C, D
<1>12. computed(row[r], C) = computed(row[r], D)
  BY <1>10, <1>11, ComputedOf
<1>13. RowContents(row[r], C, cell, state[row[r].slot])
  BY <1>8 DEF Exact
<1>14. RowContents(row[r], D, cell, state[row[r].slot])
  BY <1>11, <1>12, <1>13 DEF RowContents
<1>15. UNCHANGED <<cell, state, running, store, row>>
  BY DEF Sample
<1> QED
  BY <1>7, <1>8, <1>9, <1>10, <1>14, <1>15, ExactOneRow

\* A stop token that is not kept leaves the state ahead of a row that is about to finish.
LEMMA ExactCommitStop == ASSUME EngineInv, Exact, CommitStop PROVE Exact'
<1>1. doing("commit") /\ "commit" \in RowOps \ {"grow"}
  BY DEF CommitStop, RowOps
<1>2. PICK r \in Req : r = call.r
  BY <1>1, CallOfLive
<1> DEFINE c == [op |-> "finish", r |-> r]
           s == <<c>>
           T == callsFor(Tail(agenda), r)
           C == T \cup {call}
           D == {c} \cup T
<1>4. c.op = "finish" /\ c.r = r
  OBVIOUS
<1>5. agenda' = <<c>> \o Tail(agenda)
  BY <1>2 DEF CommitStop, next
<1> HIDE DEF c
<1>6. CallType(c) /\ c.op \in RowOps /\ turn(c.op) <= turn("commit")
  BY <1>4 DEF CallType, RowOps, turn
<1>7. callsFor(agenda', r) = D /\ \A q \in Req \ {r} : callsFor(agenda', q) = callsFor(agenda, q)
  BY <1>1, <1>2, <1>4, <1>5, <1>6, RowCallForAnother
<1>8. r \in Range(running) /\ callsFor(agenda, r) = C /\ call.op = "commit" /\ \A d \in T : d.op = "complete"
  BY <1>1, <1>2, OnlyComplete
<1>9. \A d \in Range(agenda') : d.op # "forward"
  <2>1. s \in Seq(Range(s)) /\ Range(s) = {c}
    BY FewCalls
  <2>2. next(s)
    BY <1>5 DEF next
  <2> HIDE DEF s
  <2> QED
    BY <1>1, <1>4, <2>1, <2>2, NoForwardLeft
<1>10. row[r].phase \in {"prefill", "decode"} /\ behind(row[r]) \in Nat /\ row[r].seqLen \in Nat
  BY <1>8, RunningRow
<1>11. /\ "commit" \in {d.op : d \in C} /\ "finish" \in {d.op : d \in D}
       /\ \A o \in {"advance", "sample", "publish"} : o \notin {d.op : d \in C} /\ o \notin {d.op : d \in D}
       /\ "finish" \notin {d.op : d \in C} /\ "commit" \notin {d.op : d \in D}
  BY <1>4, <1>8
<1> HIDE DEF T, C, D
<1>13. RowContents(row[r], C, cell, state[row[r].slot])
  BY <1>8 DEF Exact
<1>14. RowContents(row[r], D, cell, state[row[r].slot])
  <2>1. CASE row[r].phase = "prefill"
    <3>1. computed(row[r], C) = computed(row[r], D)
      BY <1>11, <2>1, ComputedOf
    <3> QED
      BY <1>11, <1>13, <3>1 DEF RowContents
  <2>2. CASE row[r].phase = "decode"
    <3>1. computed(row[r], C) = {row[r].seqLen} /\ computed(row[r], D) = {row[r].seqLen - 1}
      BY <1>11, <2>2, ComputedOf
    <3>2. HoldsKv(cell, row[r].blocks, row[r].tokens, row[r].seqLen)
      BY <1>13, <3>1 DEF RowContents
    <3>3. HoldsKv(cell, row[r].blocks, row[r].tokens, row[r].seqLen - 1)
      <4>1. \A p \in 0 .. (row[r].seqLen - 1) - 1 : p \in 0 .. row[r].seqLen - 1
        BY <1>10
      <4> QED
        BY <3>2, <4>1 DEF HoldsKv
    <3> QED
      BY <1>11, <1>13, <2>2, <3>1, <3>3 DEF RowContents
  <2> QED
    BY <1>10, <2>1, <2>2
<1>15. UNCHANGED <<cell, state, running, store, row>>
  BY DEF CommitStop
<1> QED
  BY <1>7, <1>8, <1>9, <1>10, <1>14, <1>15, ExactOneRow

\* A row keeps tok; what follows is s: an entry of a decode row, the end, or neither.
finishOf(r) == [op |-> "finish", r |-> r]
entryOf(r, rw, st) == [op |-> "publish", r |-> r, len |-> rw.seqLen, state |-> st, decode |-> TRUE]
keeping(rw, tok, closed) == [rw EXCEPT !.tokens = Append(rw.tokens, tok), !.closed = closed, !.seqLen = @ + 1]
Kept(r, p, tok, closed, s) ==
  /\ row' = [row EXCEPT ![r] = keeping(row[r], tok, closed)]
  /\ s \in Seq(Range(s)) /\ Range(s) \subseteq {p, finishOf(r)} /\ next(s)
  /\ p \in Range(s) => row[r].phase = "decode"

\* What _commit does with a sampled token.
LEMMA CommittedIs ==
  ASSUME EngineInv, CommitToken, NEW r, r = call.r, r \in Range(running)
  PROVE  \E tok, closed, s : Kept(r, entryOf(r, row[r], state[row[r].slot]), tok, closed, s)
<1> DEFINE f == finishOf(r)
           p == entryOf(r, row[r], state[row[r].slot])
           publish == IF decodeBoundary(r, TRUE) THEN <<p>> ELSE <<>>
<1>1. PICK raw \in Draw : call.toks = <<raw>>
  <2>1. doing("commit")
    BY DEF CommitToken
  <2> QED
    BY <2>1, Doing DEF CallType
<1>2. Head(call.toks) = raw /\ Tail(call.toks) = <<>>
  BY <1>1
<1>3. decodeBoundary(r, <<>> = <<>>) = decodeBoundary(r, TRUE)
  OBVIOUS
<1>4. PICK tok, closed :
        /\ row' = [row EXCEPT ![r].tokens = Append(row[r].tokens, tok), ![r].closed = closed, ![r].seqLen = @ + 1]
        /\ next(<<f>>) \/ next(publish \o <<f>>) \/ next(publish \o <<>>)
  BY <1>2, <1>3 DEF CommitToken, finishOf, entryOf
<1>5. row \in [Req -> RowType] /\ r \in Req
  BY RunningRow
<1>6. row' = [row EXCEPT ![r] = keeping(row[r], tok, closed)]
  BY <1>4, <1>5 DEF keeping
<1> DEFINE S == {p, f}
<1>7. p \in S /\ f \in S /\ p # f
  BY DEF finishOf, entryOf
<1>8. decodeBoundary(r, TRUE) => row[r].phase = "decode"
  BY DEF decodeBoundary
<1> DEFINE u == <<f>>
<1>9. u \in Seq(S) /\ Range(u) = {f}
  BY <1>7, FewCalls
<1>10. publish \in Seq(S) /\ Range(publish) \subseteq {p} /\ (p \in Range(publish) => row[r].phase = "decode")
  <2> DEFINE v == <<p>>
             w == <<>>
  <2>1. v \in Seq(S) /\ Range(v) = {p}
    <3> HIDE DEF p, S
    <3> QED
      BY <1>7, FewCalls
  <2>2. w \in Seq(S) /\ Range(w) = {}
    BY FewCalls
  <2>3. publish = IF decodeBoundary(r, TRUE) THEN v ELSE w
    OBVIOUS
  <2> HIDE DEF publish, v, w, S
  <2> QED
    BY <1>8, <2>1, <2>2, <2>3
<1>11. \E s : /\ s \in Seq(S) /\ Range(s) \subseteq {p, f} /\ next(s)
              /\ p \in Range(s) => row[r].phase = "decode"
  <2>1. next(u) \/ next(publish \o u) \/ next(publish \o <<>>)
    BY <1>4
  <2>2. <<>> \in Seq(S) /\ Range(<<>>) = {}
    BY FewCalls
  <2> HIDE DEF publish, u, S, p, f
  <2>3. CASE next(u)
    <3> WITNESS u
    <3> QED
      BY <1>7, <1>9, <2>3
  <2>4. CASE next(publish \o u)
    <3>1. publish \o u \in Seq(S) /\ Range(publish \o u) = Range(publish) \cup Range(u)
      BY <1>9, <1>10, JoinedOnce
    <3> WITNESS publish \o u
    <3> QED
      BY <1>7, <1>9, <1>10, <2>4, <3>1
  <2>5. CASE next(publish \o <<>>)
    <3>1. publish \o <<>> = publish
      BY <1>10
    <3> WITNESS publish
    <3> QED
      BY <1>10, <2>5, <3>1
  <2> QED
    BY <2>1, <2>3, <2>4, <2>5
<1>12. PICK s : /\ s \in Seq(S) /\ Range(s) \subseteq {p, f} /\ next(s)
                /\ p \in Range(s) => row[r].phase = "decode"
  BY <1>11
<1>13. s \in Seq(Range(s))
  <2> HIDE DEF S
  <2> QED
    BY <1>12, RangeOf
<1> WITNESS tok, closed, s
<1> QED
  BY <1>6, <1>12, <1>13 DEF Kept

\* A token that is kept is one the pages and the state have already.
LEMMA ExactCommitToken == ASSUME EngineInv, Exact, CommitToken PROVE Exact'
<1>1. doing("commit") /\ "commit" \in RowOps \ {"grow"}
  BY DEF CommitToken, RowOps
<1>2. PICK r \in Req : r = call.r
  BY <1>1, CallOfLive
<1> DEFINE rw == row[r]
           T == callsFor(Tail(agenda), r)
           C == T \cup {call}
           D == callsFor(agenda', r)
<1>3. r \in Range(running) /\ callsFor(agenda, r) = C /\ call.op = "commit" /\ \A d \in T : d.op = "complete"
  BY <1>1, <1>2, OnlyComplete
<1> DEFINE f == finishOf(r)
           p == entryOf(r, rw, state[rw.slot])
<1>a. \E tok, closed, s : Kept(r, p, tok, closed, s)
  BY <1>2, <1>3, CommittedIs
<1>b. PICK tok, closed, s : Kept(r, p, tok, closed, s)
  BY <1>a
<1>4. /\ row' = [row EXCEPT ![r] = keeping(rw, tok, closed)]
      /\ s \in Seq(Range(s)) /\ Range(s) \subseteq {p, f} /\ next(s)
      /\ p \in Range(s) => rw.phase = "decode"
  BY <1>b DEF Kept
<1> DEFINE toks == Append(rw.tokens, tok)
           rx == keeping(rw, tok, closed)
<1>5. /\ row \in [Req -> RowType] /\ rw \in RowType /\ rw.tokens \in Seq(Tokens) /\ rw.seqLen \in Nat /\ rw.prefillFrom \in Nat
      /\ rw.phase \in {"prefill", "decode"} /\ behind(rw) \in Nat /\ behind(rw) <= Len(rw.tokens)
      /\ LiveRight(rw, r, callsFor(agenda, r), opsFor(agenda, r))
  BY <1>3, RunningRow
<1>6. /\ row'[r] = rx /\ \A q \in Req \ {r} : row'[q] = row[q]
  BY <1>4, <1>5
<1>7. /\ rx.tokens = toks /\ rx.seqLen = rw.seqLen + 1 /\ rx.phase = rw.phase /\ rx.prefillFrom = rw.prefillFrom
      /\ rx.pending = rw.pending /\ rx.blocks = rw.blocks /\ rx.slot = rw.slot
  BY <1>5 DEF RowType, keeping
<1>8. f.op = "finish" /\ f.r = r /\ p.op = "publish" /\ p.r = r /\ p.len = rw.seqLen /\ p.state = state[rw.slot]
  BY DEF finishOf, entryOf
<1>9. rw.phase = "decode" => rw.seqLen = Len(rw.tokens) /\ T = {}
  <2> SUFFICES ASSUME rw.phase = "decode" PROVE rw.seqLen = Len(rw.tokens) /\ T = {}
    OBVIOUS
  <2>1. DecodeRight(rw, r, opsFor(agenda, r))
    BY <1>5 DEF LiveRight
  <2>2. rw.seqLen = Len(rw.tokens) /\ "complete" \notin opsFor(agenda, r)
    BY <2>1 DEF DecodeRight
  <2> HIDE DEF T, rw
  <2> QED
    BY <1>3, <2>2 DEF opsFor
<1> HIDE DEF rw, f, p
<1>10. D = callsFor(s, r) \cup T /\ \A q \in Req \ {r} : callsFor(agenda', q) = callsFor(agenda, q)
  <2>1. /\ \A q : callsFor(agenda', q) = callsFor(s, q) \cup callsFor(Tail(agenda), q)
        /\ \A q : callsFor(agenda, q) = callsFor(Tail(agenda), q) \cup (IF forRow(Head(agenda), q) THEN {Head(agenda)} ELSE {})
    BY <1>1, <1>4, NextCalls DEF doing
  <2>2. \A q \in Req \ {r} : callsFor(s, q) = {} /\ ~ forRow(Head(agenda), q)
    BY <1>2, <1>4, <1>8 DEF callsFor, forRow, call
  <2> QED
    BY <2>1, <2>2
<1>11. \A d \in Range(agenda') : d.op # "forward"
  BY <1>1, <1>4, <1>8, NoForwardLeft
<1>12. \A d \in D : d = f \/ d.op = "complete" \/ (d = p /\ rw.phase = "decode")
  BY <1>3, <1>4, <1>10 DEF callsFor
<1>13. /\ "commit" \in {d.op : d \in C} /\ "finish" \notin {d.op : d \in C}
       /\ \A o \in {"advance"} : o \notin {d.op : d \in C}
       /\ \A o \in {"advance", "sample", "commit"} : o \notin {d.op : d \in D}
  BY <1>3, <1>8, <1>12
<1> HIDE DEF toks, rx, C, D
<1>14. RowContents(rw, C, cell, state[rw.slot])
  BY <1>3 DEF Exact, rw
<1> DEFINE n == IF rw.phase = "decode" THEN rw.seqLen ELSE rw.prefillFrom
<1>15. computed(rw, C) = {n} /\ computed(rx, D) = {n}
  <2>1. CASE rw.phase = "prefill"
    BY <1>7, <1>13, <2>1, ComputedOf
  <2>2. CASE rw.phase = "decode"
    <3>1. computed(rw, C) = {rw.seqLen} /\ computed(rx, D) = {rx.seqLen - 1}
      BY <1>7, <1>13, <2>2, ComputedOf
    <3> QED
      BY <1>5, <1>7, <2>2, <3>1
  <2> QED
    BY <1>5, <2>1, <2>2
<1>16. n \in Nat /\ n <= Len(rw.tokens) /\ behind(rx) = n /\ behind(rw) <= n
  BY <1>5, <1>7, <1>9 DEF behind
<1> HIDE DEF n
<1>17. HoldsKv(cell, rw.blocks, rw.tokens, n) /\ state[rw.slot] = SubSeq(rw.tokens, 1, n)
       /\ SnapshotOf(rw, rw.pending.len, rw.pending.state)
  BY <1>13, <1>14, <1>15 DEF RowContents
<1>18. HoldsKv(cell, rx.blocks, rx.tokens, n) /\ state[rw.slot] = SubSeq(rx.tokens, 1, n)
  BY <1>5, <1>7, <1>16, <1>17, KvOfBeginning, BeginningStays DEF toks
<1>19. SnapshotOf(rx, rx.pending.len, rx.pending.state)
  <2>1. rw.pending.len \in Nat
    BY <1>5 DEF RowType
  <2>2. rw.pending.len <= behind(rw) /\ rw.pending.state = SubSeq(rw.tokens, 1, rw.pending.len)
    BY <1>17 DEF SnapshotOf
  <2>3. SubSeq(rx.tokens, 1, rw.pending.len) = SubSeq(rw.tokens, 1, rw.pending.len)
    BY <1>5, <1>7, <2>1, <2>2, BeginningStays DEF toks
  <2> QED
    BY <1>5, <1>7, <1>16, <2>1, <2>2, <2>3 DEF SnapshotOf
<1>20. \A d \in D : d.op = "publish" => SnapshotOf(rx, d.len, d.state)
  <2> SUFFICES ASSUME NEW d \in D, d.op = "publish" PROVE SnapshotOf(rx, d.len, d.state)
    OBVIOUS
  <2>1. d = p /\ rw.phase = "decode"
    BY <1>8, <1>12
  <2>2. d.len = n /\ d.state = state[rw.slot]
    BY <1>8, <2>1 DEF n
  <2> QED
    BY <1>16, <1>18, <2>2 DEF SnapshotOf
<1>21. RowContents(rx, D, cell, state[rw.slot])
  BY <1>15, <1>18, <1>19, <1>20 DEF RowContents
<1>22. UNCHANGED <<cell, state, running, store>>
  BY DEF CommitToken
<1>23. row'[r].blocks = row[r].blocks /\ row'[r].slot = row[r].slot /\ behind(row'[r]) \in Int /\ behind(row[r]) <= behind(row'[r])
  BY <1>6, <1>7, <1>16 DEF rw
<1>24. RowContents(row'[r], callsFor(agenda', r), cell, state[row[r].slot])
  BY <1>6, <1>21 DEF rw, D
<1> QED
  BY <1>3, <1>6, <1>10, <1>11, <1>22, <1>23, <1>24, ExactOneRow

\* A row that has finished is beside the calls for it.
LEMMA ExactCallOver ==
  ASSUME EngineInv, Exact, NEW op \in RowOps \ {"grow"}, doing(op), call.r \notin Range(running),
         next(<<>>), UNCHANGED <<cell, state, running, store, row>>
  PROVE  Exact'
<1>1. call.r \in Req /\ agenda' = <<>> \o Tail(agenda)
  BY CallOfLive DEF next
<1>2. \A q \in Req \ {call.r} : callsFor(agenda', q) = callsFor(agenda, q)
  BY <1>1, RowCallDone
<1>3. \A q \in Range(running) : q \in Req
  BY RunningRow
<1>4. \A d \in Range(agenda') : d.op # "forward"
  <2> DEFINE s == <<>>
  <2>1. s \in Seq(Range(s)) /\ Range(s) = {} /\ next(s)
    BY FewCalls
  <2> HIDE DEF s
  <2> QED
    BY <2>1, NoForwardLeft
<1> QED
  BY <1>1, <1>2, <1>3, <1>4, ExactBeside

\* A row moves past the chunk that was just computed.
LEMMA ExactAdvance == ASSUME EngineInv, Exact, Advance PROVE Exact'
<1>1. doing("advance") /\ "advance" \in RowOps \ {"grow"} /\ "advance" # "complete"
  BY DEF Advance, RowOps
<1>2. PICK r \in Req : r = call.r
  BY <1>1, CallOfLive
<1> DEFINE rw == row[r]
           T == callsFor(Tail(agenda), r)
           ops == opsFor(agenda, r)
           C == T \cup {call}
           D == callsFor(agenda', r)
           n == Len(rw.tokens)
           to == rw.prefillFrom + call.count
           interior == to < n /\ to % BlockTokens = 0
           late == interior /\ rw.interior > 0 /\ n % BlockTokens # 0 /\ to >= lastPrefillBoundary(n)
           snap == [len |-> to, state |-> state[rw.slot]]
           count == IF interior THEN rw.interior + 1 ELSE rw.interior
           pending == IF late THEN snap ELSE rw.pending
           rx == [rw EXCEPT !.prefillFrom = to, !.seqLen = to, !.interior = count, !.pending = pending]
           c == [op |-> "publish", r |-> r, len |-> to, state |-> state[rw.slot], decode |-> FALSE]
           first == interior /\ rw.interior = 0
           s == IF first THEN <<c>> ELSE <<>>
<1>3. /\ Live(r) /\ callsFor(agenda, r) = C /\ call.op = "advance"
      /\ \A d \in T : d.op \in RowOps /\ turn("advance") < turn(d.op)
      /\ "advance" \in ops
  <2>1. /\ Live(r) /\ callsFor(agenda, r) = C /\ ops = opsFor(Tail(agenda), r) \cup {"advance"}
        /\ \A o \in opsFor(Tail(agenda), r) : o \in RowOps /\ turn("advance") < turn(o)
    BY <1>1, <1>2, CallOfLive
  <2>2. call.op = "advance"
    BY <1>1 DEF doing, call
  <2> HIDE DEF ops
  <2> QED
    BY <2>1, <2>2 DEF opsFor
<1>4. r \in Range(running)
  BY <1>3 DEF Live
<1>5. /\ row \in [Req -> RowType] /\ rw \in RowType /\ rw.tokens \in Seq(Tokens) /\ rw.prefillFrom \in Nat
      /\ rw.phase \in {"prefill", "decode"} /\ behind(rw) \in Nat
      /\ LiveRight(rw, r, callsFor(agenda, r), ops)
  BY <1>4, RunningRow
<1>6. rw.phase = "prefill" /\ call.count \in Nat \ {0}
  <2>1. ~ DecodeRight(rw, r, ops)
    BY <1>3 DEF DecodeRight
  <2>2. CallType(call)
    BY <1>1, Doing
  <2>3. call.count \in Nat \ {0}
    BY <1>3, <2>2 DEF CallType
  <2> HIDE DEF rw, ops
  <2> QED
    BY <1>5, <2>1, <2>3 DEF LiveRight
<1>7. row' = [row EXCEPT ![r] = rx] /\ next(s) /\ UNCHANGED <<running, cell, state, store>>
  <2>1. row' = [row EXCEPT ![r].prefillFrom = to, ![r].seqLen = to, ![r].interior = count, ![r].pending = pending]
    <3>1. row' = [row EXCEPT ![r].prefillFrom = to, ![r].seqLen = to,
                             ![r].interior = IF interior THEN @ + 1 ELSE @,
                             ![r].pending = IF late THEN snap ELSE @]
      BY <1>2 DEF Advance
    <3> HIDE DEF interior, late, to, snap
    <3> QED
      BY <1>5, <3>1
  <2> HIDE DEF to, count, pending
  <2>2. row' = [row EXCEPT ![r] = rx]
    BY <1>5, <2>1
  <2>3. next(s) /\ UNCHANGED <<running, cell, state, store>>
    BY <1>2 DEF Advance, publishPrompt, to
  <2> QED
    BY <2>2, <2>3
<1>8. to \in Nat /\ rw.prefillFrom <= to /\ behind(rw) <= to
  <2> HIDE DEF rw
  <2> QED
    BY <1>5, <1>6 DEF behind
<1>9. /\ snap.len = to /\ snap.state = state[rw.slot]
      /\ c.op = "publish" /\ c.r = r /\ c.len = to /\ c.state = state[rw.slot]
  OBVIOUS
<1>10. /\ rx.tokens = rw.tokens /\ rx.phase = rw.phase /\ rx.prefillFrom = to /\ rx.pending = pending
       /\ rx.blocks = rw.blocks /\ rx.slot = rw.slot
  <2> HIDE DEF rw, to, count, pending
  <2> QED
    BY <1>5 DEF RowType
<1>11. s \in Seq(Range(s)) /\ Range(s) \subseteq {c}
  <2> HIDE DEF c, first
  <2> QED
    BY FewCalls
<1>12. row'[r] = rx /\ \A q \in Req \ {r} : row'[q] = row[q]
  <2> HIDE DEF rx
  <2> QED
    BY <1>5, <1>7
<1> HIDE DEF c, snap, count, first, s, rx
<1>13. D = callsFor(s, r) \cup T /\ \A q \in Req \ {r} : callsFor(agenda', q) = callsFor(agenda, q)
  <2>1. /\ \A q : callsFor(agenda', q) = callsFor(s, q) \cup callsFor(Tail(agenda), q)
        /\ \A q : callsFor(agenda, q) = callsFor(Tail(agenda), q) \cup (IF forRow(Head(agenda), q) THEN {Head(agenda)} ELSE {})
    BY <1>1, <1>7, <1>11, NextCalls DEF doing
  <2>2. \A q \in Req \ {r} : callsFor(s, q) = {} /\ ~ forRow(Head(agenda), q)
    BY <1>2, <1>9, <1>11 DEF callsFor, forRow, call
  <2> QED
    BY <2>1, <2>2
<1>14. \A d \in Range(agenda') : d.op # "forward"
  BY <1>1, <1>7, <1>9, <1>11, NoForwardLeft
<1>15. \A d \in T : d.op \in {"sample", "commit", "finish", "complete"}
  <2> HIDE DEF T
  <2> QED
    BY <1>3 DEF turn, RowOps
<1>16. \A d \in D : d = c \/ d \in T
  BY <1>11, <1>13 DEF callsFor
<1>17. call \in C /\ (\A d \in C : d.op = "advance" => d = call) /\ "advance" \notin {d.op : d \in D}
  BY <1>9, <1>15, <1>16
<1> HIDE DEF C, D, T
<1>18. RowContents(rw, C, cell, state[rw.slot])
  BY <1>3, <1>4 DEF Exact
<1>19. computed(rw, C) = {to} /\ computed(rx, D) = {to}
  <2>1. computed(rw, C) = {rw.prefillFrom + call.count}
    BY <1>3, <1>6, <1>17, ComputedOf
  <2> HIDE DEF rw, to
  <2>2. computed(rx, D) = {rx.prefillFrom}
    BY <1>6, <1>10, <1>17, ComputedOf
  <2> QED
    BY <1>10, <2>1, <2>2 DEF to
<1> HIDE DEF to, rw, pending
<1>20. HoldsKv(cell, rw.blocks, rw.tokens, to) /\ state[rw.slot] = SubSeq(rw.tokens, 1, to)
       /\ SnapshotOf(rw, rw.pending.len, rw.pending.state)
  BY <1>6, <1>18, <1>19 DEF RowContents
<1>21. behind(rx) = to
  BY <1>6, <1>10 DEF behind
<1>22. SnapshotOf(rx, to, state[rw.slot])
  BY <1>8, <1>10, <1>20, <1>21 DEF SnapshotOf
<1>23. SnapshotOf(rx, rx.pending.len, rx.pending.state)
  <2>1. CASE late
    <3>1. pending.len = to /\ pending.state = state[rw.slot]
      BY <1>9, <2>1 DEF pending
    <3> QED
      BY <1>10, <1>22, <3>1
  <2>2. CASE ~ late
    <3>1. pending = rw.pending
      BY <2>2 DEF pending
    <3>2. rw.pending.len \in Nat
      BY <1>5 DEF RowType
    <3>3. rw.pending.len <= behind(rw) /\ rw.pending.state = SubSeq(rw.tokens, 1, rw.pending.len)
      BY <1>20 DEF SnapshotOf
    <3>4. rw.pending.len <= to
      BY <1>5, <1>8, <3>2, <3>3
    <3> QED
      BY <1>10, <1>21, <3>1, <3>3, <3>4 DEF SnapshotOf
  <2> HIDE DEF late
  <2> QED
    BY <2>1, <2>2
<1>24. \A d \in D : d.op = "publish" => SnapshotOf(rx, d.len, d.state)
  BY <1>9, <1>15, <1>16, <1>22
<1>25. RowContents(rx, D, cell, state[rw.slot])
  BY <1>10, <1>19, <1>20, <1>23, <1>24 DEF RowContents
<1>26. row'[r].blocks = row[r].blocks /\ row'[r].slot = row[r].slot /\ behind(row'[r]) \in Int /\ behind(row[r]) <= behind(row'[r])
  BY <1>8, <1>10, <1>12, <1>21 DEF rw
<1>27. RowContents(row'[r], callsFor(agenda', r), cell, state[row[r].slot])
  BY <1>12, <1>25 DEF rw, D
<1> QED
  BY <1>4, <1>7, <1>12, <1>13, <1>14, <1>26, <1>27, ExactOneRow

\* A row whose prompt is through starts to decode where its prefill ended.
LEMMA ExactComplete == ASSUME EngineInv, Exact, Complete PROVE Exact'
<1>1. doing("complete") /\ "complete" \in RowOps \ {"grow"}
  BY DEF Complete, RowOps
<1>2. PICK r \in Req : r = call.r
  BY <1>1, CallOfLive
<1> DEFINE rw == row[r]
           T == callsFor(Tail(agenda), r)
           ops == opsFor(agenda, r)
           C == T \cup {call}
           D == callsFor(agenda', r)
           n == promptLen(r)
<1>3. T = {} /\ callsFor(agenda, r) = C /\ call.op = "complete" /\ ops = {"complete"}
  <2>1. /\ callsFor(agenda, r) = C /\ ops = opsFor(Tail(agenda), r) \cup {"complete"}
        /\ \A o \in opsFor(Tail(agenda), r) : o \in RowOps /\ turn("complete") < turn(o)
    BY <1>1, <1>2, CallOfLive
  <2>2. opsFor(Tail(agenda), r) = {}
    BY <2>1 DEF turn, RowOps
  <2>3. T = {}
    BY <2>2 DEF opsFor
  <2>4. call.op = "complete"
    BY <1>1 DEF doing, call
  <2> HIDE DEF ops, T, C
  <2> QED
    BY <2>1, <2>2, <2>3, <2>4
<1>4. CASE r \notin Range(running)
  <2>1. rw.phase = "done"
    <3>1. RowRight(r, rw, callsFor(agenda, r), Live(r), Queued(r), result[r])
      BY RowKnown
    <3>2. callsFor(agenda, r) # {} /\ ~ Live(r)
      BY <1>3, <1>4 DEF Live
    <3> HIDE DEF rw
    <3> QED
      BY <3>1, <3>2 DEF RowRight
  <2>2. next(<<>>) /\ UNCHANGED <<cell, state, running, store, row>>
    BY <1>2, <2>1 DEF Complete
  <2> QED
    BY <1>1, <1>2, <1>4, <2>2, ExactCallOver
<1>5. CASE r \in Range(running)
  <2> DEFINE rx == [rw EXCEPT !.phase = "decode", !.pending = NoSnapshot]
             s == completionEntry(r)
  <2>1. /\ row \in [Req -> RowType] /\ rw \in RowType /\ rw.tokens \in Seq(Tokens) /\ rw.prefillFrom \in Nat
        /\ rw.seqLen \in Nat /\ n \in Nat
        /\ rw.phase \in {"prefill", "decode"} /\ LiveRight(rw, r, callsFor(agenda, r), ops)
    BY <1>5, RunningRow
  <2>2. rw.phase = "prefill" /\ rw.prefillFrom = n /\ rw.seqLen = n + 1
    <3> HIDE DEF rw, n
    <3>1. ~ DecodeRight(rw, r, ops)
      BY <1>3 DEF DecodeRight
    <3>2. rw.phase = "prefill" /\ PrefillRight(rw, r, ops)
      BY <2>1, <3>1 DEF LiveRight
    <3>3. rw.prefillFrom = promptLen(r) /\ Len(rw.tokens) > promptLen(r) /\ Len(rw.tokens) \in {promptLen(r), promptLen(r) + 1}
          /\ rw.seqLen = rw.prefillFrom + Len(rw.tokens) - promptLen(r)
      BY <1>3, <3>2 DEF PrefillRight
    <3>4. rw.prefillFrom = n /\ Len(rw.tokens) > n /\ Len(rw.tokens) \in {n, n + 1}
          /\ rw.seqLen = rw.prefillFrom + Len(rw.tokens) - n
      BY <3>3 DEF n
    <3>5. Len(rw.tokens) \in Nat
      BY <2>1
    <3> QED
      BY <2>1, <3>2, <3>4, <3>5
  <2>3. row' = [row EXCEPT ![r] = rx] /\ next(s) /\ UNCHANGED <<running, cell, state, store>>
    <3>1. rw.phase # "done"
      BY <2>2
    <3>2. row' = [row EXCEPT ![r].phase = "decode", ![r].pending = NoSnapshot]
      BY <1>2, <3>1 DEF Complete
    <3>3. row' = [row EXCEPT ![r] = rx]
      BY <2>1, <3>2
    <3> QED
      BY <1>2, <3>1, <3>3 DEF Complete
  <2>4. /\ rx.tokens = rw.tokens /\ rx.phase = "decode" /\ rx.seqLen = rw.seqLen
        /\ rx.pending = NoSnapshot /\ rx.blocks = rw.blocks /\ rx.slot = rw.slot
    <3> HIDE DEF rw
    <3> QED
      BY <2>1 DEF RowType
  <2>5. row'[r] = rx /\ \A q \in Req \ {r} : row'[q] = row[q]
    <3> HIDE DEF rx
    <3> QED
      BY <2>1, <2>3
  <2> DEFINE c1 == [op |-> "publish", r |-> r, len |-> n, state |-> state[rw.slot], decode |-> FALSE]
             c2 == [op |-> "publish", r |-> r, len |-> rw.pending.len, state |-> rw.pending.state, decode |-> FALSE]
  <2>6. s = <<c1>> \/ s = <<c2>> \/ s = <<>>
    BY DEF completionEntry, publishPrompt, promptLen
  <2>7. /\ c1.op = "publish" /\ c1.r = r /\ c1.len = n /\ c1.state = state[rw.slot]
        /\ c2.op = "publish" /\ c2.r = r /\ c2.len = rw.pending.len /\ c2.state = rw.pending.state
    OBVIOUS
  <2> HIDE DEF c1, c2, s, rx
  <2>8. s \in Seq(Range(s)) /\ Range(s) \subseteq {c1, c2}
    <3> DEFINE u == <<c1>>
               v == <<c2>>
               w == <<>>
    <3>1. u \in Seq(Range(u)) /\ Range(u) = {c1} /\ v \in Seq(Range(v)) /\ Range(v) = {c2}
          /\ w \in Seq(Range(w)) /\ Range(w) = {}
      BY FewCalls
    <3>2. s = u \/ s = v \/ s = w
      BY <2>6
    <3> HIDE DEF u, v, w
    <3> QED
      BY <3>1, <3>2
  <2>9. D = callsFor(s, r) \cup T /\ \A q \in Req \ {r} : callsFor(agenda', q) = callsFor(agenda, q)
    <3>1. /\ \A q : callsFor(agenda', q) = callsFor(s, q) \cup callsFor(Tail(agenda), q)
          /\ \A q : callsFor(agenda, q) = callsFor(Tail(agenda), q) \cup (IF forRow(Head(agenda), q) THEN {Head(agenda)} ELSE {})
      BY <1>1, <2>3, <2>8, NextCalls DEF doing
    <3>2. \A q \in Req \ {r} : callsFor(s, q) = {} /\ ~ forRow(Head(agenda), q)
      BY <1>2, <2>7, <2>8 DEF callsFor, forRow, call
    <3> QED
      BY <3>1, <3>2
  <2>10. \A d \in Range(agenda') : d.op # "forward"
    BY <1>1, <2>3, <2>7, <2>8, NoForwardLeft
  <2>11. \A d \in D : d = c1 \/ d = c2
    BY <1>3, <2>8, <2>9 DEF callsFor
  <2>12. /\ "advance" \notin {d.op : d \in C}
         /\ "sample" \notin {d.op : d \in D} /\ "commit" \notin {d.op : d \in D}
    BY <1>3, <2>7, <2>11
  <2> HIDE DEF C, D, T, rw, n
  <2>13. RowContents(rw, C, cell, state[rw.slot])
    BY <1>3, <1>5 DEF Exact, rw
  <2>14. computed(rw, C) = {n} /\ computed(rx, D) = {n} /\ behind(rw) = n /\ behind(rx) = n
    <3>1. computed(rw, C) = {n}
      BY <2>2, <2>12, ComputedOf
    <3>2. computed(rx, D) = {rx.seqLen - 1}
      BY <2>4, <2>12, ComputedOf
    <3>3. rx.seqLen - 1 = n
      BY <2>1, <2>2, <2>4
    <3> QED
      BY <2>2, <2>4, <3>1, <3>2, <3>3 DEF behind
  <2>15. HoldsKv(cell, rw.blocks, rw.tokens, n) /\ state[rw.slot] = SubSeq(rw.tokens, 1, n)
         /\ SnapshotOf(rw, rw.pending.len, rw.pending.state)
    BY <2>2, <2>13, <2>14 DEF RowContents
  <2>16. SnapshotOf(rx, 0, <<>>) /\ rx.pending.len = 0 /\ rx.pending.state = <<>>
    <3>1. SubSeq(rw.tokens, 1, 0) = <<>>
      BY <2>1
    <3>2. 0 <= n
      BY <2>1
    <3> QED
      BY <2>4, <2>14, <3>1, <3>2 DEF SnapshotOf, NoSnapshot
  <2>17. \A d \in D : d.op = "publish" => SnapshotOf(rx, d.len, d.state)
    <3>1. SnapshotOf(rx, n, state[rw.slot])
      BY <2>1, <2>4, <2>14, <2>15 DEF SnapshotOf
    <3>2. SnapshotOf(rx, rw.pending.len, rw.pending.state)
      BY <2>4, <2>14, <2>15 DEF SnapshotOf
    <3> QED
      BY <2>7, <2>11, <3>1, <3>2
  <2>18. RowContents(rx, D, cell, state[rw.slot])
    BY <2>4, <2>14, <2>15, <2>16, <2>17 DEF RowContents
  <2>19. row'[r].blocks = row[r].blocks /\ row'[r].slot = row[r].slot /\ behind(row'[r]) \in Int /\ behind(row[r]) <= behind(row'[r])
    BY <2>1, <2>4, <2>5, <2>14 DEF rw
  <2>20. RowContents(row'[r], callsFor(agenda', r), cell, state[row[r].slot])
    BY <2>5, <2>18 DEF rw, D
  <2> QED
    BY <1>5, <2>3, <2>5, <2>9, <2>10, <2>19, <2>20, ExactOneRow
<1> QED
  BY <1>4, <1>5

-----------------------------------------------------------------------------
(* An entry is published *)

\* The block a position is in.
LEMMA BlockAt ==
  ASSUME NEW b \in Nat \ {0}, NEW p \in Nat
  PROVE  /\ p \div b + 1 \in Nat \ {0} /\ p % b \in 0 .. b - 1
         /\ p < (p \div b + 1) * b
         /\ \A m \in Nat : p < m * b => p \div b + 1 \in 1 .. m
<1> DEFINE x == p \div b
<1>1. x \in Nat /\ x * b <= p /\ p < x * b + b /\ p % b \in 0 .. b - 1
  <2>1. p \in Int
    OBVIOUS
  <2> HIDE DEF x
  <2>2. /\ p \div b \in Int /\ (p \div b) * b <= p /\ p < (p \div b) * b + b /\ p % b \in 0 .. b - 1
        /\ p \in Nat => p \div b \in Nat
    BY ONLY Multiples, <2>1, b \in Nat \ {0}
  <2> QED
    BY <2>2 DEF x
<1> HIDE DEF x
<1>2. (x + 1) * b = x * b + b
  BY <1>1
<1>3. ASSUME NEW m \in Nat, p < m * b PROVE x + 1 \in 1 .. m
  <2>1. x < m
    <3> SUFFICES ASSUME m <= x PROVE FALSE
      BY <1>1
    <3>1. m * b <= x * b
      BY <1>1, TimesMore
    <3> QED
      BY <1>1, <1>3, <3>1
  <2> QED
    BY <1>1, <2>1
<1>4. p < (x + 1) * b
  BY <1>1, <1>2
<1> QED
  BY <1>1, <1>3, <1>4 DEF x

\* A beginning of a beginning.
LEMMA BeginningOf ==
  ASSUME NEW t \in Seq(Tokens), NEW n \in Nat, n <= Len(t), NEW k \in Nat, k <= n
  PROVE  SubSeq(SubSeq(t, 1, n), 1, k) = SubSeq(t, 1, k)
<1>1. Len(t) \in Nat /\ SubSeq(t, 1, n) \in Seq(Tokens) /\ Len(SubSeq(t, 1, n)) = n
      /\ \A i \in 1 .. n : SubSeq(t, 1, n)[i] = t[i]
  OBVIOUS
<1> DEFINE u == SubSeq(t, 1, n)
<1> HIDE DEF u
<1>2. SubSeq(u, 1, k) = SubSeq(t, 1, k)
  <2>1. u \in Seq(Tokens) /\ Len(u) = n /\ \A i \in 1 .. n : u[i] = t[i]
    BY <1>1 DEF u
  <2>2. SubSeq(u, 1, k) = [i \in 1 .. k |-> u[i]]
    BY <2>1
  <2>3. SubSeq(t, 1, k) = [i \in 1 .. k |-> t[i]]
    BY <1>1
  <2> QED
    BY <2>1, <2>2, <2>3
<1> QED
  BY <1>2 DEF u

\* Two rows of blocks that begin alike hold the same of two texts that begin alike.
LEMMA KvShared ==
  ASSUME NEW cl, NEW bs, NEW bt, NEW t \in Seq(Tokens), NEW u \in Seq(Tokens), NEW k \in Nat,
         NEW n \in Nat, NEW m \in Nat, n <= m * BlockTokens, n <= k,
         \A i \in 1 .. m : bt[i] = bs[i],
         n <= Len(t), SubSeq(u, 1, n) = SubSeq(t, 1, n), n <= Len(u), HoldsKv(cl, bs, t, k)
  PROVE  HoldsKv(cl, bt, u, n)
<1>1. ASSUME NEW p \in 0 .. n - 1
      PROVE  cl[bt[p \div BlockTokens + 1]][p % BlockTokens] = SubSeq(u, 1, p + 1)
  <2>1. cl[bs[p \div BlockTokens + 1]][p % BlockTokens] = SubSeq(t, 1, p + 1)
    BY DEF HoldsKv
  <2>2. p \div BlockTokens + 1 \in 1 .. m
    <3>1. p < m * BlockTokens
      <4>1. PICK x \in Int : x = m * BlockTokens
        BY PoolAssumption
      <4> QED
        BY <4>1
    <3>2. BlockTokens \in Nat \ {0} /\ p \in Nat
      BY PoolAssumption
    <3> QED
      BY ONLY <3>1, <3>2, m \in Nat, BlockAt
  <2>3. p + 1 \in Nat /\ p + 1 <= n
    OBVIOUS
  <2>4. SubSeq(u, 1, p + 1) = SubSeq(t, 1, p + 1)
    <3>1. SubSeq(SubSeq(u, 1, n), 1, p + 1) = SubSeq(u, 1, p + 1)
      BY <2>3, BeginningOf
    <3>2. SubSeq(SubSeq(t, 1, n), 1, p + 1) = SubSeq(t, 1, p + 1)
      BY <2>3, BeginningOf
    <3> QED
      BY <3>1, <3>2
  <2> QED
    BY <2>1, <2>2, <2>4
<1> QED
  BY <1>1 DEF HoldsKv

\* What is behind a row has been computed.
LEMMA BehindComputed ==
  ASSUME EngineInv, NEW r \in Range(running)
  PROVE  \E k \in computed(row[r], callsFor(agenda, r)) :
           k \in Nat /\ behind(row[r]) <= k /\ k <= Len(row[r].tokens)
<1> DEFINE rw == row[r]
           C == callsFor(agenda, r)
           ops == opsFor(agenda, r)
<1>1. /\ r \in Req /\ rw.tokens \in Seq(Tokens) /\ rw.seqLen \in Nat /\ rw.prefillFrom \in Nat /\ promptLen(r) \in Nat
      /\ rw.phase \in {"prefill", "decode"} /\ LiveRight(rw, r, C, ops)
      /\ behind(rw) \in Nat /\ behind(rw) <= Len(rw.tokens)
  BY RunningRow
<1>2. ops = {c.op : c \in C}
  BY DEF opsFor
<1>3. \A c \in C : CallType(c)
  BY DEF callsFor, EngineInv, AgendaRight
<1> HIDE DEF rw, C, ops
<1>4. Len(rw.tokens) \in Nat
  BY <1>1
<1>5. CASE rw.phase = "decode"
  <2>1. rw.seqLen = Len(rw.tokens)
    BY <1>1, <1>5 DEF LiveRight, DecodeRight
  <2>2. computed(rw, C) = {rw.seqLen} \/ computed(rw, C) = {rw.seqLen - 1}
    BY <1>5, ComputedOf
  <2>3. behind(rw) = rw.seqLen - 1
    BY <1>5 DEF behind
  <2>4. \E k \in computed(rw, C) : k \in Nat /\ behind(rw) <= k /\ k <= Len(rw.tokens)
    BY <1>1, <1>4, <2>1, <2>2, <2>3
  <2> QED
    BY <2>4 DEF rw, C
<1>6. CASE rw.phase = "prefill" /\ "advance" \notin ops
  <2>1. computed(rw, C) = {rw.prefillFrom} /\ behind(rw) = rw.prefillFrom
    BY <1>2, <1>6, ComputedOf DEF behind
  <2>2. \E k \in computed(rw, C) : k \in Nat /\ behind(rw) <= k /\ k <= Len(rw.tokens)
    BY <1>1, <1>4, <2>1
  <2> QED
    BY <2>2 DEF rw, C
<1>7. CASE rw.phase = "prefill" /\ "advance" \in ops
  <2>1. PICK c \in C : c.op = "advance"
    BY <1>2, <1>7
  <2>2. c.count \in Nat \ {0}
    BY <1>3, <2>1 DEF CallType
  <2>3. rw.prefillFrom + c.count <= promptLen(r)
    BY <1>1, <2>1 DEF LiveRight, CallFits
  <2>4. promptLen(r) <= Len(rw.tokens)
    <3>1. Len(rw.tokens) \in {promptLen(r), promptLen(r) + 1}
      BY <1>1, <1>7 DEF LiveRight, PrefillRight
    <3> QED
      BY <1>1, <1>4, <3>1
  <2>5. rw.prefillFrom + c.count \in computed(rw, C)
    BY <1>7, <2>1 DEF computed
  <2>6. behind(rw) = rw.prefillFrom
    BY <1>7 DEF behind
  <2>7. rw.prefillFrom + c.count \in Nat /\ rw.prefillFrom <= rw.prefillFrom + c.count
        /\ rw.prefillFrom + c.count <= Len(rw.tokens)
    BY <1>1, <1>4, <2>2, <2>3, <2>4
  <2>8. \E k \in computed(rw, C) : k \in Nat /\ behind(rw) <= k /\ k <= Len(rw.tokens)
    BY <2>5, <2>6, <2>7
  <2> QED
    BY <2>8 DEF rw, C
<1> QED
  BY <1>1, <1>5, <1>6, <1>7

\* What a row publishes is what its pages and its state were at that position.
LEMMA PublishedContents ==
  ASSUME EngineInv, Exact, NEW r \in Range(running), NEW c \in callsFor(agenda, r), c.op = "publish",
         NEW n \in Nat, n = c.len, NEW m \in Nat, n = m * BlockTokens, m <= Len(row[r].blocks),
         n <= Len(row[r].tokens), NEW e,
         e.tokens = SubSeq(row[r].tokens, 1, n), e.blocks = SubSeq(row[r].blocks, 1, m), e.state = c.state
  PROVE  EntryContents(e, cell) /\ n <= behind(row[r])
<1> DEFINE rw == row[r]
           C == callsFor(agenda, r)
<1>1. rw.tokens \in Seq(Tokens) /\ rw.blocks \in Seq(Block) /\ behind(rw) \in Nat
  BY RunningRow
<1>2. RowContents(rw, C, cell, state[rw.slot])
  BY DEF Exact
<1>3. PICK k \in computed(rw, C) : k \in Nat /\ behind(rw) <= k /\ k <= Len(rw.tokens)
  BY BehindComputed
<1> HIDE DEF rw, C
<1>4. HoldsKv(cell, rw.blocks, rw.tokens, k)
  BY <1>2, <1>3 DEF RowContents
<1>5. SnapshotOf(rw, n, c.state)
  BY <1>2 DEF RowContents, C
<1>6. n <= behind(rw) /\ c.state = SubSeq(rw.tokens, 1, n)
  BY <1>5 DEF SnapshotOf
<1>7. e.state = e.tokens
  BY <1>6 DEF rw
<1>8. HoldsKv(cell, e.blocks, e.tokens, n)
  <2> DEFINE t == rw.tokens
             u == SubSeq(t, 1, n)
             bs == rw.blocks
             bt == SubSeq(bs, 1, m)
  <2>1. t \in Seq(Tokens) /\ n <= Len(t) /\ bs \in Seq(Block) /\ m <= Len(bs)
    BY <1>1 DEF rw
  <2> HIDE DEF t, bs
  <2>2. u \in Seq(Tokens) /\ Len(u) = n
    BY <2>1
  <2>3. SubSeq(u, 1, n) = SubSeq(t, 1, n)
    BY <2>1, BeginningOf
  <2>4. \A i \in 1 .. m : bt[i] = bs[i]
    BY <2>1
  <2>5. n <= k /\ HoldsKv(cell, bs, t, k)
    BY <1>1, <1>3, <1>4, <1>6 DEF t, bs
  <2> HIDE DEF u, bt
  <2>6. n <= m * BlockTokens /\ n <= Len(u)
    BY <2>2
  <2>7. HoldsKv(cell, bt, u, n)
    BY <1>3, <2>1, <2>2, <2>3, <2>4, <2>5, <2>6, KvShared
  <2> QED
    BY <2>7 DEF bt, u, t, bs, rw
<1>9. Len(e.tokens) = n
  <2> DEFINE t == row[r].tokens
  <2>1. t \in Seq(Tokens) /\ n <= Len(t)
    BY <1>1 DEF rw
  <2> HIDE DEF t
  <2>2. Len(SubSeq(t, 1, n)) = n
    BY <2>1
  <2> QED
    BY <2>2 DEF t
<1> QED
  BY <1>6, <1>7, <1>8, <1>9 DEF EntryContents, rw

\* A new entry takes no block that a row has yet to write.
LEMMA PrivateFromEntry ==
  ASSUME EngineInv, Exact, NEW r \in Range(running), NEW m \in Nat, m <= Len(row[r].blocks),
         m * BlockTokens <= behind(row[r]), NEW e, e.blocks = SubSeq(row[r].blocks, 1, m),
         NEW q \in Range(running)
  PROVE  Private(q, running, row, Append(store, e))
<1>1. /\ row[q].blocks \in Seq(Block) /\ row[r].blocks \in Seq(Block) /\ IsInjective(row[r].blocks)
      /\ behind(row[q]) \in Nat /\ behind(row[r]) \in Nat
  BY RunningRow
<1>2. Private(q, running, row, store)
  BY DEF Exact
<1>3. Range(Append(store, e)) = Range(store) \cup {e}
  <2>1. store \in Seq(Entry)
    BY DEF EngineInv, Pools, PoolsRight, StoreRight
  <2>2. store \in Seq(Range(store) \cup {e})
    <3>1. store \in Seq(Range(store))
      BY <2>1, OfItsOwn
    <3> QED
      BY <3>1
  <2> QED
    BY <2>2, AppendedOnce
<1>4. ASSUME NEW i \in 1 .. Len(row[q].blocks), i * BlockTokens > behind(row[q])
      PROVE  /\ rowsWith(running, row, row[q].blocks[i]) = {q}
             /\ entriesWith(Append(store, e), row[q].blocks[i]) = {}
  <2> DEFINE b == row[q].blocks[i]
  <2>1. rowsWith(running, row, b) = {q} /\ entriesWith(store, b) = {}
    BY <1>2, <1>4 DEF Private
  <2>2. b \notin Range(e.blocks)
    <3> SUFFICES ASSUME b \in Range(e.blocks) PROVE FALSE
      OBVIOUS
    <3>1. PICK j \in 1 .. m : b = row[r].blocks[j]
      <4> DEFINE bs == row[r].blocks
      <4>1. bs \in Seq(Block) /\ m <= Len(bs) /\ e.blocks = SubSeq(bs, 1, m)
        BY <1>1
      <4> HIDE DEF bs, b
      <4>2. Range(SubSeq(bs, 1, m)) = {bs[j] : j \in 1 .. m}
        BY <4>1, PieceOnce
      <4>3. \E j \in 1 .. m : b = bs[j]
        BY <4>1, <4>2
      <4> QED
        BY <4>3 DEF bs
    <3>2. j \in 1 .. Len(row[r].blocks)
      BY <1>1
    <3>3. r \in rowsWith(running, row, b)
      BY <1>1, <3>1, <3>2, RangeOf DEF rowsWith
    <3>4. r = q
      BY <2>1, <3>3
    <3>5. i = j
      BY <1>1, <3>1, <3>2, <3>4, RangeOf
    <3>6. i * BlockTokens <= m * BlockTokens
      <4>1. i \in Int /\ m \in Int /\ i <= m /\ BlockTokens \in Nat
        BY <3>5, PoolAssumption
      <4> QED
        BY ONLY <4>1, TimesMore
    <3>7. i * BlockTokens \in Int /\ m * BlockTokens \in Int
      BY PoolAssumption
    <3> DEFINE x == i * BlockTokens
               y == m * BlockTokens
    <3>8. x \in Int /\ y \in Int /\ x <= y /\ y <= behind(row[r]) /\ x > behind(row[q])
      BY <1>4, <3>6, <3>7
    <3> HIDE DEF x, y
    <3> QED
      BY <1>1, <3>4, <3>8
  <2> QED
    BY <1>3, <2>1, <2>2 DEF entriesWith
<1> QED
  BY <1>4 DEF Private

\* The entry a row publishes has a whole block of the row for each block of its text.
LEMMA PublishFits ==
  ASSUME EngineInv, doing("publish"), NEW r, r = call.r
  PROVE  /\ r \in Range(running) /\ r \in Req /\ call \in callsFor(agenda, r) /\ call.op = "publish"
         /\ call.len \in Nat \ {0} /\ call.len <= Len(row[r].tokens)
         /\ call.len \div BlockTokens \in Nat /\ call.len \div BlockTokens <= Len(row[r].blocks)
         /\ (call.len \div BlockTokens) * BlockTokens = call.len
<1>1. "publish" \in RowOps /\ "publish" # "complete"
  BY DEF RowOps
<1>2. r \in Req /\ Live(r) /\ callsFor(agenda, r) = callsFor(Tail(agenda), r) \cup {call}
  BY <1>1, CallOfLive
<1>3. r \in Range(running) /\ call \in callsFor(agenda, r)
  BY <1>2 DEF Live
<1>4. call.op = "publish" /\ call.len \in Nat \ {0}
  BY Doing DEF CallType
<1>5. row[r].blocks \in Seq(Block) /\ LiveRight(row[r], r, callsFor(agenda, r), opsFor(agenda, r))
  BY <1>3, RunningRow
<1> DEFINE n == call.len
           m == n \div BlockTokens
           h == Len(row[r].blocks)
<1>6. n % BlockTokens = 0 /\ n <= Len(row[r].tokens) /\ n <= h * BlockTokens
  <2>1. CallFits(call, row[r], r, opsFor(agenda, r))
    BY <1>3, <1>5 DEF LiveRight
  <2> QED
    BY <1>4, <2>1 DEF CallFits, held
<1>7. h \in Nat /\ BlockTokens \in Nat \ {0} /\ n \in Nat \ {0}
  BY <1>4, <1>5, PoolAssumption
<1> HIDE DEF n, m, h
<1>8. m \in Nat /\ m * BlockTokens = n
  <2>1. n \in Int
    BY <1>7
  <2>2. n \div BlockTokens \in Nat /\ n % BlockTokens = n - (n \div BlockTokens) * BlockTokens /\ (n \div BlockTokens) * BlockTokens \in Int
    BY ONLY <1>7, <2>1, Multiples
  <2> QED
    BY <1>6, <1>7, <2>2 DEF m
<1>9. m <= h
  <2> SUFFICES ASSUME h + 1 <= m PROVE FALSE
    BY <1>7, <1>8
  <2>1. (h + 1) * BlockTokens <= m * BlockTokens
    <3>1. BlockTokens \in Nat /\ h + 1 \in Int /\ m \in Int
      BY <1>7, <1>8
    <3> QED
      BY <3>1, TimesMore
  <2>2. (h + 1) * BlockTokens = h * BlockTokens + BlockTokens
    BY <1>7
  <2>3. h * BlockTokens \in Int
    BY <1>7
  <2> DEFINE x == h * BlockTokens
             y == m * BlockTokens
             z == (h + 1) * BlockTokens
  <2>4. z <= y /\ z = x + BlockTokens /\ x \in Int /\ y = n /\ n <= x
    BY <1>6, <1>8, <2>1, <2>2, <2>3
  <2> HIDE DEF x, y, z
  <2> QED
    BY <1>7, <2>4
<1> QED
  BY <1>2, <1>3, <1>4, <1>6, <1>8, <1>9 DEF n, m, h

\* The call to publish says nothing of how far the row was computed.
LEMMA PublishedOnce ==
  ASSUME NEW rw, NEW C, NEW c, c.op = "publish", NEW cl, NEW s, NEW rx,
         RowContents(rw, C \cup {c}, cl, s),
         rx.tokens = rw.tokens, rx.phase = rw.phase, rx.seqLen = rw.seqLen, rx.prefillFrom = rw.prefillFrom,
         rx.pending = rw.pending, rx.blocks = rw.blocks
  PROVE  RowContents(rx, C, cl, s)
<1> DEFINE D == C \cup {c}
<1>1. behind(rx) = behind(rw)
  BY DEF behind
<1>2. \A o : o # "publish" => (o \in {d.op : d \in C} <=> o \in {d.op : d \in D})
  OBVIOUS
<1>3. {d \in C : d.op = "advance"} = {d \in D : d.op = "advance"}
  OBVIOUS
<1>4. {d.op : d \in C} \cap {"sample", "commit"} = {d.op : d \in D} \cap {"sample", "commit"}
  BY <1>2
<1>5. C \subseteq D
  OBVIOUS
<1> HIDE DEF D
<1>6. computed(rx, C) = computed(rw, D)
  BY <1>3, <1>4 DEF computed
<1>7. RowContents(rw, D, cl, s)
  BY DEF D
<1> QED
  BY <1>1, <1>2, <1>5, <1>6, <1>7 DEF RowContents, SnapshotOf

\* An entry is published of what the row has behind it.
LEMMA ExactPublish == ASSUME EngineInv, Exact, Publish PROVE Exact'
<1>1. doing("publish") /\ "publish" \in RowOps \ {"grow"} /\ "publish" # "complete"
  BY DEF Publish, RowOps
<1>2. PICK r : r = call.r
  OBVIOUS
<1> DEFINE rw == row[r]
           T == callsFor(Tail(agenda), r)
           n == call.len
           m == n \div BlockTokens
           key == SubSeq(rw.tokens, 1, n)
           bs == SubSeq(rw.blocks, 1, m)
           e == [tokens |-> key, blocks |-> bs, state |-> call.state]
           mark == IF call.decode THEN n ELSE rw.decodeEntry
           rx == [rw EXCEPT !.decodeEntry = mark]
           t == [op |-> "trim"]
           o == [op |-> "retire", key |-> SubSeq(key, 1, rw.decodeEntry)]
           older == IF call.decode /\ rw.decodeEntry > 0 THEN <<o>> ELSE <<>>
<1>3. /\ r \in Range(running) /\ r \in Req /\ call \in callsFor(agenda, r) /\ call.op = "publish"
      /\ n \in Nat /\ n <= Len(rw.tokens)
      /\ m \in Nat /\ m <= Len(rw.blocks) /\ m * BlockTokens = n
  BY <1>1, <1>2, PublishFits
<1>4. callsFor(agenda, r) = T \cup {call} /\ \A q \in Req \ {r} : callsFor(agenda, q) = callsFor(Tail(agenda), q)
  BY <1>1, <1>2, CallOfLive
<1>5. /\ row \in [Req -> RowType] /\ rw \in RowType /\ behind(rw) \in Nat /\ rw.blocks \in Seq(Block)
      /\ \A q \in Range(running) : q \in Req
  BY <1>3, RunningRow
<1>6. RowContents(rw, T \cup {call}, cell, state[rw.slot])
  BY <1>3, <1>4 DEF Exact
<1>7. CASE stored(key)
  <2>1. next(<<>>) /\ UNCHANGED <<row, store, running, cell, state>>
    BY <1>2, <1>7 DEF Publish
  <2>2. callsFor(agenda', r) = T /\ \A q \in Req \ {r} : callsFor(agenda', q) = callsFor(agenda, q)
    BY <1>1, <1>2, <1>3, <2>1, RowCallDone DEF next
  <2>3. \A d \in Range(agenda') : d.op # "forward"
    <3> DEFINE s == <<>>
    <3>1. s \in Seq(Range(s)) /\ Range(s) = {} /\ next(s)
      BY <2>1, FewCalls
    <3> HIDE DEF s
    <3> QED
      BY <1>1, <3>1, NoForwardLeft
  <2> HIDE DEF rw, T
  <2>4. RowContents(rw, T, cell, state[rw.slot])
    BY <1>3, <1>6, PublishedOnce
  <2>5. RowContents(row'[r], callsFor(agenda', r), cell, state[row[r].slot])
    BY <2>1, <2>2, <2>4 DEF rw
  <2>6. \A q \in Req \ {r} : row'[q] = row[q] /\ callsFor(agenda', q) = callsFor(agenda, q)
    BY <2>1, <2>2
  <2>7. /\ row'[r].blocks = row[r].blocks /\ row'[r].slot = row[r].slot /\ behind(row'[r]) \in Int
        /\ behind(row[r]) <= behind(row'[r])
    BY <1>5, <2>1 DEF rw
  <2> QED
    BY <1>3, <2>1, <2>3, <2>5, <2>6, <2>7, ExactOneRow
<1>8. CASE ~ stored(key)
  <2> DEFINE s == <<t>> \o older
  <2>1. row' = [row EXCEPT ![r] = rx] /\ next(s) /\ UNCHANGED <<running, cell, state>> /\ store' = Append(store, e)
    <3>1. row' = [row EXCEPT ![r].decodeEntry = mark]
      BY <1>2, <1>8 DEF Publish
    <3> HIDE DEF mark
    <3>2. row' = [row EXCEPT ![r] = rx]
      BY <1>5, <3>1
    <3>3. next(s) /\ UNCHANGED <<running, cell, state>>
      BY <1>2, <1>8 DEF Publish
    <3>4. insertEntry(key, bs, call.state)
      BY <1>2, <1>8 DEF Publish
    <3> QED
      BY <3>2, <3>3, <3>4 DEF insertEntry
  <2>2. /\ rx.tokens = rw.tokens /\ rx.phase = rw.phase /\ rx.seqLen = rw.seqLen /\ rx.prefillFrom = rw.prefillFrom
        /\ rx.pending = rw.pending /\ rx.blocks = rw.blocks /\ rx.slot = rw.slot
    <3> HIDE DEF rw, mark
    <3> QED
      BY <1>5 DEF RowType
  <2>3. row'[r] = rx /\ \A q \in Req \ {r} : row'[q] = row[q]
    <3> HIDE DEF rx
    <3> QED
      BY <1>3, <1>5, <2>1
  <2>4. t.op = "trim" /\ o.op = "retire"
    OBVIOUS
  <2>5. e.tokens = key /\ e.blocks = bs /\ e.state = call.state
    OBVIOUS
  <2> HIDE DEF t, o, rx, mark, e
  <2>6. s \in Seq(Range(s)) /\ Range(s) \subseteq {t, o}
    <3> DEFINE u == <<t>>
               v == <<o>>
               w == <<>>
               S == {t, o}
    <3>0. u \in Seq(Range(u)) /\ Range(u) = {t} /\ v \in Seq(Range(v)) /\ Range(v) = {o}
          /\ w \in Seq(Range(w)) /\ Range(w) = {}
      BY FewCalls
    <3>1. u \in Seq(S) /\ Range(u) = {t} /\ v \in Seq(S) /\ Range(v) = {o} /\ w \in Seq(S) /\ Range(w) = {}
      <4> HIDE DEF u, v, w
      <4> QED
        BY <3>0
    <3>2. older = v \/ older = w
      OBVIOUS
    <3> HIDE DEF u, v, w, S, older
    <3>3. older \in Seq(S) /\ Range(older) \subseteq {o}
      BY <3>1, <3>2
    <3>4. u \o older \in Seq(S) /\ Range(u \o older) = Range(u) \cup Range(older)
      BY <3>1, <3>3, JoinedOnce
    <3>5. u \o older \in Seq(Range(u \o older))
      BY <3>4, OfItsOwn
    <3> QED
      BY <3>1, <3>3, <3>4, <3>5 DEF u
  <2> HIDE DEF s
  <2>7. \A q \in Req : callsFor(agenda', q) = callsFor(Tail(agenda), q)
    <3>1. \A q : callsFor(agenda', q) = callsFor(s, q) \cup callsFor(Tail(agenda), q)
      BY <1>1, <2>1, <2>6, NextCalls DEF doing
    <3>2. \A q : callsFor(s, q) = {}
      BY <2>4, <2>6 DEF callsFor, forRow, RowOps
    <3> QED
      BY <3>1, <3>2
  <2>8. \A d \in Range(agenda') : d.op # "forward"
    BY <1>1, <2>1, <2>4, <2>6, NoForwardLeft
  <2>9. EntryContents(e, cell) /\ n <= behind(rw)
    <3> HIDE DEF m, n, key, bs
    <3>1. n = call.len /\ e.tokens = SubSeq(row[r].tokens, 1, n) /\ e.blocks = SubSeq(row[r].blocks, 1, m)
      BY <2>5 DEF n, key, bs
    <3> QED
      BY <1>3, <2>5, <3>1, PublishedContents
  <2>10. \A d \in Range(store') : EntryContents(d, cell')
    <3>1. Range(Append(store, e)) \subseteq Range(store) \cup {e}
      <4>1. store \in Seq(Entry)
        BY DEF EngineInv, Pools, PoolsRight, StoreRight
      <4>2. store \in Seq(Range(store) \cup {e})
        <5>1. store \in Seq(Range(store))
          BY <4>1, OfItsOwn
        <5> QED
          BY <5>1
      <4> QED
        BY <4>2, AppendedOnce
    <3> QED
      BY <2>1, <2>9, <3>1 DEF Exact
  <2>11. ASSUME NEW q \in Range(running')
         PROVE  /\ RowContents(row'[q], callsFor(agenda', q), cell', state'[row'[q].slot])
                /\ Private(q, running', row', store')
    <3>1. q \in Range(running) /\ q \in Req /\ row[q].blocks \in Seq(Block) /\ behind(row[q]) \in Int
      BY <2>1, <2>11, RunningRow
    <3>2. Private(q, running, row, Append(store, e))
      <4>1. m * BlockTokens <= behind(row[r])
        BY <1>3, <2>9
      <4>2. e.blocks = SubSeq(row[r].blocks, 1, m)
        BY <2>5
      <4> HIDE DEF m
      <4> QED
        BY <1>3, <3>1, <4>1, <4>2, PrivateFromEntry
    <3>3. \A p \in Range(running) : row'[p].blocks = row[p].blocks /\ behind(row'[p]) = behind(row[p])
      <4>1. ASSUME NEW p \in Range(running) PROVE row'[p].blocks = row[p].blocks /\ behind(row'[p]) = behind(row[p])
        <5>1. CASE p = r
          BY <2>2, <2>3, <5>1 DEF behind
        <5>2. CASE p # r
          BY <1>5, <2>3, <5>2
        <5> QED
          BY <5>1, <5>2
      <4> QED
        BY <4>1
    <3>4. Private(q, running', row', store')
      <4>1. row'[q].blocks = row[q].blocks /\ behind(row'[q]) \in Int /\ behind(row[q]) <= behind(row'[q])
        BY <3>1, <3>3
      <4>2. \A p \in Range(running') : p \in Range(running) /\ row'[p].blocks = row[p].blocks
        BY <2>1, <3>3
      <4>3. Range(store') \subseteq Range(Append(store, e))
        BY <2>1
      <4> QED
        BY <2>11, <3>1, <3>2, <4>1, <4>2, <4>3, PrivateStays
    <3>5. CASE q = r
      <4> HIDE DEF rw, T
      <4>1. RowContents(rx, T, cell, state[rw.slot])
        BY <1>3, <1>6, <2>2, PublishedOnce
      <4>2. callsFor(agenda', q) = T
        BY <1>3, <2>7, <3>5 DEF T
      <4> QED
        BY <2>1, <2>2, <2>3, <3>4, <3>5, <4>1, <4>2
    <3>6. CASE q # r
      <4>1. callsFor(agenda', q) = callsFor(agenda, q) /\ row'[q] = row[q]
        BY <1>4, <2>3, <2>7, <3>1, <3>6
      <4>2. RowContents(row[q], callsFor(agenda, q), cell, state[row[q].slot])
        BY <3>1 DEF Exact
      <4> QED
        BY <2>1, <3>4, <4>1, <4>2
    <3> QED
      BY <3>5, <3>6
  <2> QED
    BY <2>8, <2>10, <2>11 DEF Exact
<1> QED
  BY <1>7, <1>8

-----------------------------------------------------------------------------
(* A decoding row takes its next block *)

\* What a row leaves to the others when it takes fresh blocks behind its old ones.
TakenFresh(rn, rw, rm, rx, st, r, old) ==
  /\ \A q \in Range(rn) \ {r} : rw[q].blocks \in Seq(Block) /\ Private(q, rn, rw, st) => Private(q, rm, rx, st)
  /\ \A i \in 1 .. Len(old) : rx[r].blocks[i] = old[i]
  /\ \A i \in 1 .. Len(old) : rowsWith(rn, rw, old[i]) = {r} => rowsWith(rm, rx, old[i]) = {r}
  /\ \A i \in 1 .. Len(rx[r].blocks) : i > Len(old) =>
       rowsWith(rm, rx, rx[r].blocks[i]) = {r} /\ entriesWith(st, rx[r].blocks[i]) = {}

\* They are the row's that takes them, and the blocks the others have yet to write stay theirs.
LEMMA FreshArePrivate ==
  ASSUME NEW rn, NEW rw, NEW st, NEW rm, NEW rx, NEW r \in Range(rm), Range(rm) = Range(rn) \cup {r},
         NEW old \in Seq(Block), NEW new \in Seq(Block), rx[r].blocks = old \o new,
         \A q \in Range(rn) \ {r} : rx[q] = rw[q],
         \A b \in Range(new) : rowsWith(rn, rw, b) = {} /\ entriesWith(st, b) = {},
         \A b \in Range(old) : r \in rowsWith(rn, rw, b) \/ entriesWith(st, b) # {}
  PROVE  TakenFresh(rn, rw, rm, rx, st, r, old)
<1> DEFINE bs == old \o new
<1>1. /\ bs \in Seq(Block) /\ Len(old) \in Nat /\ Len(new) \in Nat /\ Len(bs) = Len(old) + Len(new)
      /\ \A i \in 1 .. Len(old) : bs[i] = old[i]
      /\ \A i \in 1 .. Len(bs) : i > Len(old) => bs[i] = new[i - Len(old)] /\ i - Len(old) \in 1 .. Len(new)
  OBVIOUS
<1> HIDE DEF bs
<1>2. /\ Range(old) = {old[i] : i \in 1 .. Len(old)} /\ Range(new) = {new[i] : i \in 1 .. Len(new)}
      /\ Range(bs) = {bs[i] : i \in 1 .. Len(bs)}
  <2>1. Range(old) = {old[i] : i \in 1 .. Len(old)}
    BY RangeOf
  <2>2. Range(new) = {new[i] : i \in 1 .. Len(new)}
    BY RangeOf
  <2>3. Range(bs) = {bs[i] : i \in 1 .. Len(bs)}
    BY <1>1, RangeOf
  <2> QED
    BY <2>1, <2>2, <2>3
<1>3. rx[r].blocks = bs
  BY DEF bs
<1>4. Range(bs) \subseteq Range(old) \cup Range(new)
  <2>1. ASSUME NEW i \in 1 .. Len(bs) PROVE bs[i] \in Range(old) \cup Range(new)
    <3>1. CASE i > Len(old)
      BY <1>1, <1>2, <3>1
    <3>2. CASE ~ (i > Len(old))
      <4>1. i \in 1 .. Len(old)
        BY <1>1, <3>2
      <4> QED
        BY <1>1, <1>2, <4>1
    <3> QED
      BY <3>1, <3>2
  <2> QED
    BY <1>2, <2>1
<1>5. \A b : rowsWith(rm, rx, b) \ {r} = rowsWith(rn, rw, b) \ {r}
  BY DEF rowsWith
<1>6. \A b : r \in rowsWith(rm, rx, b) <=> b \in Range(bs)
  BY <1>3 DEF rowsWith
<1>7. ASSUME NEW q \in Range(rn) \ {r}, rw[q].blocks \in Seq(Block), Private(q, rn, rw, st)
      PROVE  Private(q, rm, rx, st)
  <2>1. ASSUME NEW i \in 1 .. Len(rw[q].blocks), i * BlockTokens > behind(rw[q])
        PROVE  rowsWith(rm, rx, rw[q].blocks[i]) = {q} /\ entriesWith(st, rw[q].blocks[i]) = {}
    <3>1. rowsWith(rn, rw, rw[q].blocks[i]) = {q} /\ entriesWith(st, rw[q].blocks[i]) = {}
      BY <1>7, <2>1 DEF Private
    <3>2. rw[q].blocks[i] \notin Range(bs)
      BY <1>4, <3>1
    <3>3. rowsWith(rm, rx, rw[q].blocks[i]) = {q}
      BY <1>5, <1>6, <3>1, <3>2
    <3> QED
      BY <3>1, <3>3
  <2> QED
    BY <2>1 DEF Private
<1>8. \A i \in 1 .. Len(old) : rowsWith(rn, rw, old[i]) = {r} => rowsWith(rm, rx, old[i]) = {r}
  <2>1. ASSUME NEW i \in 1 .. Len(old), rowsWith(rn, rw, old[i]) = {r} PROVE rowsWith(rm, rx, old[i]) = {r}
    <3>1. i \in 1 .. Len(bs) /\ bs[i] = old[i]
      BY <1>1
    <3>2. r \in rowsWith(rm, rx, old[i])
      BY <1>2, <1>6, <3>1
    <3> QED
      BY <1>5, <2>1, <3>2
  <2> QED
    BY <2>1
<1>9. ASSUME NEW i \in 1 .. Len(bs), i > Len(old)
      PROVE  rowsWith(rm, rx, bs[i]) = {r} /\ entriesWith(st, bs[i]) = {}
  <2>1. bs[i] \in Range(new) /\ bs[i] \in Range(bs)
    BY <1>1, <1>2, <1>9
  <2> QED
    BY <1>5, <1>6, <2>1
<1> QED
  BY <1>1, <1>3, <1>7, <1>8, <1>9 DEF TakenFresh

\* The row that takes a block, or fails for want of one, is as far as it was.
LEMMA ExactGrow == ASSUME EngineInv, Exact, Grow PROVE Exact'
<1>1. doing("grow") /\ "grow" \in RowOps /\ agenda # <<>> /\ Head(agenda).op = "grow" /\ call.q = 1
  <2>1. doing("grow") /\ "grow" \in RowOps
    BY DEF Grow, RowOps
  <2> QED
    BY <2>1, Doing DEF call, CallType
<1>2. PICK r \in Req : r = call.r
  BY <1>1, CallOfLive
<1> DEFINE rw == row[r]
           need == decodeExtraBlocks(rw.seqLen, 1, Len(rw.blocks))
<1>3. /\ r \in Range(running)
      /\ \A q \in Req \ {r} : callsFor(agenda, q) = callsFor(Tail(agenda), q)
  BY <1>1, <1>2, CallOfLive DEF Live
<1>4. agenda' = Tail(agenda) /\ next(<<>>) /\ UNCHANGED <<waiting, cell, state, store>>
  BY <1>1, Dropped DEF Grow, next, EngineInv
<1>5. /\ \A q : mattering(callsFor(agenda', q)) = mattering(callsFor(agenda, q))
      /\ Range(agenda') \subseteq Range(agenda)
  <2>1. Head(agenda).op \notin Mattering
    BY <1>1 DEF Mattering
  <2> QED
    BY <1>1, <1>4, <2>1, AsideDone
<1>6. /\ row \in [Req -> RowType] /\ rw \in RowType /\ rw.blocks \in Seq(Block) /\ rw.seqLen \in Nat
      /\ behind(rw) \in Nat /\ Range(running) \subseteq Req
  BY <1>3, RunningRow
<1>7. CASE need > Len(free)
  <2>1. finish(r, "failed")
    BY <1>1, <1>2, <1>7 DEF Grow
  <2>2. Range(running') = Range(running) \ {r} /\ row'[r].phase = "done" /\ \A q \in Req \ {r} : row'[q] = row[q]
    BY <1>3, <1>4, <2>1, FinishedRow
  <2>3. \A c \in Range(agenda) : c.op = "forward" =>
           \A d \in Range(c.decodes) : row'[d.r].phase = "done" \/ (row'[d.r].tokens = row[d.r].tokens /\ row'[d.r].phase = row[d.r].phase)
    <3>1. ASSUME NEW c \in Range(agenda), c.op = "forward", NEW d \in Range(c.decodes) PROVE d.r \in Req
      BY <3>1 DEF EngineInv, AgendaRight, ForwardType
    <3>2. ASSUME NEW q \in Req PROVE row'[q].phase = "done" \/ row'[q] = row[q]
      BY <2>2
    <3> QED
      BY <3>1, <3>2
  <2>4. \A c \in Range(agenda') : c.op = "forward" => ForwardFeeds(c)'
    BY <1>5, <2>3, StillFeeds
  <2>5. \A q \in Range(running') : row'[q] = row[q]
    BY <1>6, <2>2
  <2> QED
    BY <1>4, <1>5, <2>2, <2>4, <2>5, ExactBeside
<1>8. CASE ~ (need > Len(free))
  <2> DEFINE new == freshOf(free, need)
             bs == rw.blocks \o new
             rx == [rw EXCEPT !.blocks = bs, !.own = @ + need]
  <2>1. row' = [row EXCEPT ![r] = rx] /\ UNCHANGED <<running>>
    <3>1. /\ row' = [row EXCEPT ![r].blocks = @ \o fresh(need), ![r].own = @ + need]
          /\ UNCHANGED <<running>>
      BY <1>1, <1>2, <1>8 DEF Grow
    <3>2. fresh(need) = new
      BY DEF fresh, freshOf
    <3> HIDE DEF new, need
    <3>3. row' = [row EXCEPT ![r].blocks = @ \o new, ![r].own = @ + need]
      BY <3>1, <3>2
    <3> QED
      BY <1>6, <3>1, <3>3
  <2>2. need \in 0 .. Len(free) /\ FreeRight(free, ref) /\ Queue(running) /\ StoreRight(store)
        /\ RefsRight(running, row, store, ref)
    <3>1. /\ free \in Seq(Block) /\ FreeRight(free, ref) /\ Queue(running) /\ StoreRight(store)
          /\ RefsRight(running, row, store, ref)
      BY DEF EngineInv, Pools, PoolsRight, FreeRight
    <3>2. need \in Nat
      <4>1. rw.seqLen \in Nat /\ Len(rw.blocks) \in Nat
        BY <1>6
      <4> QED
        BY <4>1, RoomFor
    <3> HIDE DEF need
    <3> QED
      BY <1>8, <3>1, <3>2
  <2>3. new \in Seq(Block) /\ Range(new) \subseteq Range(free)
    <3>1. \A b \in Range(<<>>) : b \in Block /\ ref[b] > 0
      BY DEF Range
    <3> HIDE DEF need
    <3> QED
      BY <2>2, <3>1, FreshBlocks
  <2>4. \A b \in Range(new) : rowsWith(running, row, b) = {} /\ entriesWith(store, b) = {}
    <3> HIDE DEF new
    <3> QED
      BY <2>2, <2>3, FreeIsUnheld
  <2> HIDE DEF new, need
  <2>5. /\ rx.blocks = bs /\ rx.tokens = rw.tokens /\ rx.phase = rw.phase /\ rx.seqLen = rw.seqLen
        /\ rx.prefillFrom = rw.prefillFrom /\ rx.pending = rw.pending /\ rx.slot = rw.slot
    <3> HIDE DEF rw, bs
    <3> QED
      BY <1>6 DEF RowType
  <2>6. row'[r] = rx /\ \A q \in Req \ {r} : row'[q] = row[q]
    <3> HIDE DEF rx
    <3> QED
      BY <1>6, <2>1
  <2> HIDE DEF rx
  <2>7. \A b \in Range(rw.blocks) : r \in rowsWith(running, row, b)
    BY <1>3 DEF rowsWith
  <2>8. /\ \A q \in Range(running) \ {r} : Private(q, running, row, store) => Private(q, running, row', store)
        /\ \A i \in 1 .. Len(rw.blocks) : row'[r].blocks[i] = rw.blocks[i]
        /\ \A i \in 1 .. Len(rw.blocks) : rowsWith(running, row, rw.blocks[i]) = {r} => rowsWith(running, row', rw.blocks[i]) = {r}
        /\ \A i \in 1 .. Len(row'[r].blocks) : i > Len(rw.blocks) =>
              rowsWith(running, row', row'[r].blocks[i]) = {r} /\ entriesWith(store, row'[r].blocks[i]) = {}
    <3> DEFINE old == rw.blocks
    <3>1. old \in Seq(Block) /\ row'[r].blocks = old \o new /\ Range(running) = Range(running) \cup {r}
      BY <1>3, <1>6, <2>5, <2>6
    <3>2. \A b \in Range(old) : r \in rowsWith(running, row, b) \/ entriesWith(store, b) # {}
      BY <2>7
    <3>3. \A q \in Range(running) \ {r} : row'[q] = row[q] /\ row[q].blocks \in Seq(Block)
      <4>1. \A q \in Range(running) : row[q].blocks \in Seq(Block)
        BY RunningRow
      <4> QED
        BY <1>6, <2>6, <4>1
    <3> HIDE DEF old
    <3>4. TakenFresh(running, row, running, row', store, r, old)
      BY <1>3, <2>3, <2>4, <3>1, <3>2, <3>3, FreshArePrivate
    <3> QED
      BY <3>3, <3>4 DEF old, TakenFresh
  <2>9. \A q \in Range(running) : Private(q, running, row, store)
    BY DEF Exact
  <2>10. behind(row'[r]) = behind(rw)
    BY <2>5, <2>6 DEF behind
  <2>11. Private(r, running, row', store)
    <3>1. ASSUME NEW i \in 1 .. Len(row'[r].blocks), i * BlockTokens > behind(row'[r])
          PROVE  rowsWith(running, row', row'[r].blocks[i]) = {r} /\ entriesWith(store, row'[r].blocks[i]) = {}
      <4>1. CASE i > Len(rw.blocks)
        BY <2>8, <4>1
      <4>2. CASE ~ (i > Len(rw.blocks))
        <5>1. i \in 1 .. Len(rw.blocks)
          BY <1>6, <4>2
        <5>2. rowsWith(running, row, rw.blocks[i]) = {r} /\ entriesWith(store, rw.blocks[i]) = {}
          BY <1>3, <2>9, <2>10, <3>1, <5>1 DEF Private
        <5> QED
          BY <2>8, <5>1, <5>2
      <4> QED
        BY <4>1, <4>2
    <3> QED
      BY <3>1 DEF Private
  <2>12. RowContents(row'[r], callsFor(agenda, r), cell, state[row'[r].slot])
    <3> DEFINE C == callsFor(agenda, r)
               s == state[rw.slot]
    <3>1. RowContents(rw, C, cell, s)
      BY <1>3 DEF Exact
    <3>2. /\ rw.tokens \in Seq(Tokens) /\ rw.prefillFrom \in Nat /\ "grow" \in {c.op : c \in C}
          /\ LiveRight(rw, r, C, {c.op : c \in C})
      <4>1. opsFor(agenda, r) = {c.op : c \in C}
        BY DEF opsFor
      <4>2. "grow" \in opsFor(agenda, r)
        BY <1>1, <1>2, CallOfLive
      <4> QED
        BY <1>3, <4>1, <4>2, RunningRow
    <3> HIDE DEF C, s, rw
    <3>3. rw.phase = "decode" /\ DecodeRight(rw, r, {c.op : c \in C})
      <4>1. ~ PrefillRight(rw, r, {c.op : c \in C})
        BY <3>2 DEF PrefillRight
      <4> QED
        BY <3>2, <4>1 DEF LiveRight
    <3>4. computed(rw, C) = {rw.seqLen - 1} /\ computed(row'[r], C) = {rw.seqLen - 1}
      <4>1. "sample" \notin {c.op : c \in C} /\ "commit" \notin {c.op : c \in C}
        BY <3>2, <3>3 DEF DecodeRight
      <4> QED
        BY <2>5, <2>6, <3>3, <4>1, ComputedOf
    <3> DEFINE n == rw.seqLen - 1
    <3>5. n \in Nat /\ n <= Len(rw.tokens) /\ n <= Len(rw.blocks) * BlockTokens
      <4>1. rw.seqLen = Len(rw.tokens) /\ promptLen(r) < rw.seqLen /\ rw.seqLen - 1 <= held(rw)
        BY <3>3 DEF DecodeRight
      <4>2. promptLen(r) \in Nat
        BY TokensAre
      <4> QED
        BY <1>6, <4>1, <4>2 DEF held
    <3>6. HoldsKv(cell, rw.blocks, rw.tokens, n) /\ (s = SubSeq(rw.tokens, 1, n) \/ "finish" \in {c.op : c \in C})
      BY <3>1, <3>4 DEF RowContents
    <3>7. HoldsKv(cell, row'[r].blocks, row'[r].tokens, n)
      <4> DEFINE t == rw.tokens
                 m == Len(rw.blocks)
                 b1 == rw.blocks
                 b2 == row'[r].blocks
      <4>1. /\ t \in Seq(Tokens) /\ m \in Nat /\ n \in Nat /\ n <= m * BlockTokens /\ n <= Len(t)
            /\ \A i \in 1 .. m : b2[i] = b1[i]
            /\ HoldsKv(cell, b1, t, n)
        BY <1>6, <2>8, <3>2, <3>5, <3>6
      <4>2. row'[r].tokens = t
        BY <2>5, <2>6
      <4> HIDE DEF t, m, b1, b2, n
      <4>3. n <= n
        BY <4>1
      <4>4. HoldsKv(cell, b2, t, n)
        BY <4>1, <4>3, KvShared
      <4> QED
        BY <4>2, <4>4 DEF b2
    <3> HIDE DEF n
    <3>8. SnapshotOf(rw, rw.pending.len, rw.pending.state) /\ \A c \in C : c.op = "publish" => SnapshotOf(rw, c.len, c.state)
      BY <3>1 DEF RowContents
    <3>9. \A k, z : SnapshotOf(rw, k, z) => SnapshotOf(row'[r], k, z)
      BY <2>5, <2>6, <2>10 DEF SnapshotOf
    <3>10. row'[r].tokens = rw.tokens /\ row'[r].phase = rw.phase /\ row'[r].pending = rw.pending /\ row'[r].slot = rw.slot
      BY <2>5, <2>6
    <3>11. RowContents(row'[r], C, cell, s)
      <4>1. computed(row'[r], C) = {n}
        BY <3>4 DEF n
      <4>2. s = SubSeq(rw.tokens, 1, n) \/ (rw.phase = "decode" /\ "finish" \in {c.op : c \in C})
        BY <3>3, <3>6
      <4> QED
        BY <3>7, <3>8, <3>9, <3>10, <4>1, <4>2 DEF RowContents
    <3> QED
      BY <3>10, <3>11 DEF C, s
  <2>13. RowContents(row'[r], callsFor(agenda', r), cell, state[row'[r].slot])
    <3>1. mattering(callsFor(agenda', r)) = mattering(callsFor(agenda, r))
      BY <1>5
    <3> QED
      BY <2>12, <3>1, ContentsByCalls
  <2>14. ASSUME NEW q \in Range(running)
         PROVE  /\ RowContents(row'[q], callsFor(agenda', q), cell, state[row'[q].slot])
                /\ Private(q, running, row', store)
    <3>1. CASE q = r
      BY <2>11, <2>13, <3>1
    <3>2. CASE q # r
      <4>1. q \in Req \ {r} /\ row'[q] = row[q]
        BY <1>6, <2>6, <3>2
      <4>2. RowContents(row[q], callsFor(agenda, q), cell, state[row[q].slot])
        BY DEF Exact
      <4>3. callsFor(agenda', q) = callsFor(agenda, q)
        BY <1>3, <1>4, <4>1
      <4>4. Private(q, running, row', store)
        BY <2>8, <2>9, <3>2
      <4> QED
        BY <4>1, <4>2, <4>3, <4>4
    <3> QED
      BY <3>1, <3>2
  <2>15. \A c \in Range(agenda') : c.op = "forward" => ForwardFeeds(c)'
    <3>1. \A c \in Range(agenda) : c.op = "forward" =>
            \A d \in Range(c.decodes) : row'[d.r].phase = "done" \/ (row'[d.r].tokens = row[d.r].tokens /\ row'[d.r].phase = row[d.r].phase)
      <4>1. ASSUME NEW c \in Range(agenda), c.op = "forward", NEW d \in Range(c.decodes) PROVE d.r \in Req
        BY <4>1 DEF EngineInv, AgendaRight, ForwardType
      <4>2. ASSUME NEW q \in Req PROVE row'[q].tokens = row[q].tokens /\ row'[q].phase = row[q].phase
        BY <2>5, <2>6
      <4> QED
        BY <4>1, <4>2
    <3> QED
      BY <1>5, <3>1, StillFeeds
  <2>16. \A e \in Range(store) : EntryContents(e, cell)
    BY DEF Exact
  <2>17. UNCHANGED <<cell, state, store, running>>
    BY <1>4, <2>1
  <2> HIDE DEF bs, rw
  <2> QED
    BY <2>14, <2>15, <2>16, <2>17 DEF Exact
<1> QED
  BY <1>7, <1>8

-----------------------------------------------------------------------------
(* The batch is formed *)

\* What is in the batch of a tick, as far as the pages go.
BatchFeeds(s) ==
  \A c \in Range(s) : /\ c.op \in {"evict", "grow", "forward"}
                      /\ c.op = "forward" => ForwardFeeds(c)

\* The batch feeds every decoding row the token it generated last.
LEMMA ExactFormBatch == ASSUME EngineInv, Exact, FormBatch PROVE Exact'
<1> DEFINE D == those(running, {r \in Req : row[r].phase = "decode"})
           ps == prefillPlan(D)
           ds == chainsOf(D, ps)
           work == [op |-> "forward", decodes |-> ds, prefills |-> ps]
           e == [op |-> "evict", until |-> growth(ds)]
           g == growsOf(ds)
           s == IF ds = <<>> /\ ps = <<>> THEN <<>>
                ELSE (IF growth(ds) = 0 THEN <<>> ELSE <<e>>) \o Append(g, work)
<1>1. agenda # <<>> /\ Head(agenda).op = "batch"
  BY DEF FormBatch, doing
<1>2. next(s) /\ UNCHANGED <<running, row, cell, state, store>>
  BY DEF FormBatch, growsOf
<1>3. work.op = "forward" /\ work.decodes = ds /\ e.op = "evict"
  OBVIOUS
<1> HIDE DEF work, e
<1>4. running \in Seq(Req)
  BY DEF EngineInv, TypeOK
<1>5. D \in Seq(Req) /\ Range(D) \subseteq {r \in Range(running) : row[r].phase = "decode"}
  <2>1. D \in Seq(Req) /\ Range(D) = Range(running) \cap {r \in Req : row[r].phase = "decode"}
    BY <1>4, ThoseOf
  <2> QED
    BY <2>1
<1> HIDE DEF D, ps
<1>6. ASSUME NEW r \in Range(D)
      PROVE  row[r].drafts = <<>> /\ row[r].tokens \in Seq(Tokens) /\ row[r].tokens # <<>>
  <2> DEFINE rw == row[r]
  <2>1. /\ LiveRight(rw, r, callsFor(agenda, r), opsFor(agenda, r)) /\ rw.phase = "decode"
        /\ rw.tokens \in Seq(Tokens) /\ promptLen(r) \in Nat
    BY <1>5, RunningRow
  <2> HIDE DEF rw
  <2>2. promptLen(r) < Len(rw.tokens) /\ rw.drafts = <<>>
    BY <2>1 DEF LiveRight, DecodeRight
  <2>3. rw.tokens # <<>>
    BY <2>1, <2>2
  <2> QED
    BY <2>1, <2>2, <2>3 DEF rw
<1>7. /\ ds \in Seq(Chained) /\ Len(ds) = Len(D) /\ Len(D) \in Nat
      /\ \A i \in 1 .. Len(D) : ds[i].r = D[i] /\ ds[i].chain = <<Last(row[D[i]].tokens)>>
  BY <1>5, <1>6, ChainsIs
<1> HIDE DEF ds
<1>8. ForwardFeeds(work)
  <2>1. Range(ds) = {ds[i] : i \in 1 .. Len(ds)}
    BY <1>7, RangeOf
  <2>2. \A d \in Range(ds) : d.chain = <<Last(row[d.r].tokens)>>
    BY <1>7, <2>1
  <2> QED
    BY <1>3, <2>2 DEF ForwardFeeds
<1>9. g \in Seq(Range(g)) /\ \A c \in Range(g) : c.op = "grow"
  <2>1. DOMAIN ds = 1 .. Len(ds) /\ Len(ds) \in Nat
    BY <1>7
  <2> DEFINE S == {[op |-> "grow", r |-> ds[i].r, q |-> Len(ds[i].chain)] : i \in 1 .. Len(ds)}
  <2>2. g = [i \in 1 .. Len(ds) |-> [op |-> "grow", r |-> ds[i].r, q |-> Len(ds[i].chain)]]
    BY <2>1 DEF growsOf
  <2>3. \A i \in 1 .. Len(ds) : [op |-> "grow", r |-> ds[i].r, q |-> Len(ds[i].chain)] \in S
    OBVIOUS
  <2>4. \A c \in S : c.op = "grow"
    OBVIOUS
  <2> HIDE DEF S, g
  <2>5. g \in Seq(S)
    BY <2>1, <2>2, <2>3
  <2>6. g \in Seq(Range(g)) /\ Range(g) \subseteq S
    BY <2>5, OfItsOwn, RangeOf
  <2> QED
    BY <2>4, <2>6
<1> HIDE DEF g
<1> DEFINE t == Append(g, work)
<1>10. t \in Seq(Range(g) \cup {work}) /\ Range(t) = Range(g) \cup {work}
  <2> DEFINE S == Range(g) \cup {work}
  <2>1. g \in Seq(S) /\ work \in S
    BY <1>9
  <2> HIDE DEF S
  <2>2. Append(g, work) \in Seq(S) /\ Range(Append(g, work)) = Range(g) \cup {work}
    BY <2>1, AppendedOnce
  <2> QED
    BY <2>2 DEF S
<1> HIDE DEF t
<1>11. s \in Seq(Range(s)) /\ Range(s) \subseteq Range(g) \cup {work, e}
  <2> DEFINE S == Range(g) \cup {work, e}
             ev == <<e>>
             no == <<>>
  <2>1. t \in Seq(S)
    BY <1>10
  <2>2. ev \in Seq(S) /\ no \in Seq(S)
    <3>1. e \in S
      OBVIOUS
    <3> HIDE DEF S
    <3> QED
      BY <3>1
  <2>3. s = no \/ s = no \o t \/ s = ev \o t
    BY DEF t
  <2> HIDE DEF S, s, ev, no
  <2>4. no \o t \in Seq(S) /\ ev \o t \in Seq(S)
    BY <2>1, <2>2, JoinedOnce
  <2>5. s \in Seq(S)
    BY <2>2, <2>3, <2>4
  <2>6. s \in Seq(Range(s)) /\ Range(s) \subseteq S
    BY <2>5, OfItsOwn, RangeOf
  <2> QED
    BY <2>6 DEF S
<1> HIDE DEF s
<1>12. BatchFeeds(s)
  BY <1>3, <1>8, <1>9, <1>11 DEF BatchFeeds
<1>13. Head(agenda).op \notin Mattering \cup {"evict", "grow"} /\ \A c \in Range(s) : c.op \notin Mattering
  BY <1>1, <1>12 DEF BatchFeeds, Mattering
<1>14. \A r : mattering(callsFor(agenda', r)) = mattering(callsFor(agenda, r))
  BY <1>1, <1>2, <1>11, <1>13, Aside
<1>15. \A c \in Range(agenda') : c.op = "forward" => ForwardFeeds(c)'
  <2>1. /\ Range(agenda') = Range(s) \cup Range(Tail(agenda))
        /\ Head(agenda).op \notin {"evict", "grow"} => \A c \in Range(Tail(agenda)) : c.op \notin Lone
    BY <1>1, <1>2, <1>11, NextCalls
  <2>2. \A c \in Range(agenda') : c.op = "forward" => ForwardFeeds(c)
    BY <1>12, <1>13, <2>1 DEF BatchFeeds, Lone
  <2> QED
    BY <1>2, <2>2 DEF ForwardFeeds
<1> QED
  BY <1>2, <1>14, <1>15, ExactBeside

-----------------------------------------------------------------------------
(* An admission *)

\* What a lookup finds is the beginning of the prompt, its pages and its state.
LEMMA HitContents ==
  ASSUME EngineInv, Exact, NEW toks \in Seq(Tokens), NEW h, h = hitIn(Range(store), toks)
  PROVE  /\ h.tokens \in Seq(Tokens) /\ Len(h.tokens) <= Len(toks) /\ h.tokens = SubSeq(toks, 1, Len(h.tokens))
         /\ h.state = h.tokens /\ HoldsKv(cell, h.blocks, h.tokens, Len(h.tokens))
         /\ \A b \in Range(h.blocks) : entriesWith(store, b) # {}
<1>1. StoreRight(store)
  BY DEF EngineInv, Pools, PoolsRight
<1>2. CASE h = NoHit
  <2>1. h.tokens = <<>> /\ h.state = <<>> /\ h.blocks = <<>>
    BY <1>2 DEF NoHit
  <2>2. <<>> \in Seq(Tokens) /\ Len(<<>>) = 0 /\ Range(<<>>) = {}
    BY FewCalls
  <2>3. SubSeq(toks, 1, 0) = <<>> /\ 0 <= Len(toks)
    OBVIOUS
  <2>4. HoldsKv(cell, h.blocks, h.tokens, 0)
    BY DEF HoldsKv
  <2> QED
    BY <2>1, <2>2, <2>3, <2>4
<1>3. CASE h # NoHit
  <2>1. prefixesIn(Range(store), toks) # {} /\ h = longestIn(Range(store), toks)
    BY <1>3 DEF hitIn
  <2>2. PICK i \in 1 .. Len(store) : store[i] = h /\ IsPrefix(store[i].tokens, toks)
    BY <1>1, <2>1, LongestIs
  <2>3. h \in Range(store) /\ h.tokens \in Seq(Tokens) /\ IsPrefix(h.tokens, toks)
    BY <1>1, <2>2, EntriesOnce
  <2>4. Len(h.tokens) <= Len(toks) /\ h.tokens = SubSeq(toks, 1, Len(h.tokens))
    BY <2>3, PrefixIs
  <2>5. EntryContents(h, cell)
    BY <2>3 DEF Exact
  <2>6. \A b \in Range(h.blocks) : h \in entriesWith(store, b)
    BY <2>3 DEF entriesWith
  <2> QED
    BY <2>3, <2>4, <2>5, <2>6 DEF EntryContents
<1> QED
  BY <1>2, <1>3

\* The row that is admitted.
AdoptedRowOf(r, hit, new, slot) ==
  [row[r] EXCEPT !.blocks = hit.blocks \o new, !.own = Len(new), !.slot = slot,
                 !.seqLen = Len(hit.tokens), !.prefillFrom = Len(hit.tokens)]

\* What _admit does, beside the counts.
LEMMA AdoptedAs ==
  ASSUME EngineInv, Adopt
  PROVE  LET r == Head(waiting)
             hit == hitIn(Range(store), row[r].tokens)
             new == freshOf(free, needed(r))
             slot == Last(freeSlots)
         IN  /\ r \in Req /\ r \notin Range(running) /\ callsFor(agenda, r) = {}
             /\ row[r].phase = "prefill" /\ row[r].tokens \in Seq(Tokens) /\ row[r].tokens # <<>>
             /\ row[r].pending = NoSnapshot
             /\ new \in Seq(Block) /\ Range(new) \subseteq Range(free) /\ slot \in Slot
             /\ \A q \in Range(running) : row[q].slot # slot
             /\ row' = [row EXCEPT ![r] = AdoptedRowOf(r, hit, new, slot)]
             /\ state' = [state EXCEPT ![slot] = hit.state]
             /\ running' = Append(running, r) /\ next(<<[op |-> "plan"]>>) /\ UNCHANGED <<cell, store>>
<1> DEFINE r == Head(waiting)
           rw == row[r]
           hit == hitIn(Range(store), rw.tokens)
           n == needed(r)
           new == freshOf(free, n)
           slot == Last(freeSlots)
<1>1. agenda # <<>> /\ call.op = "adopt" /\ call \in Range(agenda)
  BY Doing DEF Adopt, call
<1>2. waiting # <<>> /\ freeSlots # <<>> /\ needed(r) <= Len(free)
  BY <1>1 DEF EngineInv, Admission, roomForOne
<1>3. /\ r \in Req /\ r \in Range(waiting) /\ row \in [Req -> RowType] /\ StoreRight(store)
      /\ PoolsRight(running, row, free, ref, freeSlots, store, blocksUsed)
  BY <1>2, WaitingHead
<1>4. /\ rw = [newRow(r) EXCEPT !.phase = "prefill"] /\ callsFor(agenda, r) = {} /\ r \notin Range(running)
  BY <1>3, RowKnown DEF Queued, RowRight, Live
<1>5. /\ rw.phase = "prefill" /\ rw.tokens = Prompt[r] /\ rw.pending = NoSnapshot
  BY <1>4 DEF newRow
<1>6. rw.tokens \in Seq(Tokens) /\ rw.tokens # <<>>
  <2>1. Prompt[r] \in Seq(Tokens) /\ promptLen(r) \in Nat \ {0} /\ Len(Prompt[r]) = promptLen(r)
    BY <1>3, TokensAre DEF promptLen
  <2>2. Prompt[r] # <<>>
    BY <2>1
  <2> QED
    BY <1>5, <2>1, <2>2
<1> HIDE DEF rw
<1>7. matchPrefix(rw.tokens) = hit
  BY <1>3, <1>6, MatchIs
<1>8. n \in 0 .. Len(free) /\ FreeRight(free, ref)
  <2>1. free \in Seq(Block) /\ FreeRight(free, ref)
    BY <1>3 DEF PoolsRight, FreeRight
  <2>2. n = neededIn(Range(store), rw.tokens)
    BY <1>3, <1>6, NeededIs DEF rw
  <2>3. /\ hit.tokens \in Seq(Tokens) /\ hit.blocks \in Seq(Block)
        /\ Len(hit.blocks) * BlockTokens = Len(hit.tokens) /\ Len(hit.tokens) < Len(rw.tokens)
    BY <1>3, <1>6, HitIs
  <2>4. n = blocksForTokens(Len(rw.tokens)) - Len(hit.blocks)
    BY <2>2 DEF neededIn
  <2> DEFINE k == Len(hit.blocks)
             m == Len(rw.tokens)
  <2>5. m \in Nat /\ k \in Nat /\ k * BlockTokens < m
    BY <1>6, <2>3
  <2>6. n = blocksForTokens(m) - k
    BY <2>4
  <2> HIDE DEF k, m, n
  <2>7. n \in Nat
    BY <2>5, <2>6, EnoughBlocks
  <2>8. n <= Len(free) /\ Len(free) \in Nat
    BY <1>2, <2>1 DEF n
  <2> QED
    BY <2>1, <2>7, <2>8
<1>9. new \in Seq(Block) /\ Len(new) = n /\ Range(new) \subseteq Range(free)
  <2>1. \A b \in Range(<<>>) : b \in Block /\ ref[b] > 0
    BY DEF Range
  <2> HIDE DEF n
  <2> QED
    BY <1>8, <2>1, FreshBlocks
<1>10. slot \in Slot /\ \A q \in Range(running) : row[q].slot # slot
  <2>1. SlotsRight(running, row, freeSlots)
    BY <1>3 DEF PoolsRight
  <2>2. slot \in Range(freeSlots)
    BY <1>2, <2>1, FrontOf DEF SlotsRight
  <2> QED
    BY <2>1, <2>2 DEF SlotsRight
<1>11. /\ row' = [row EXCEPT ![r] = AdoptedRowOf(r, hit, new, slot)]
       /\ state' = [state EXCEPT ![slot] = hit.state]
       /\ running' = Append(running, r) /\ next(<<[op |-> "plan"]>>) /\ UNCHANGED <<cell, store>>
  <2>1. fresh(needed(r)) = new
    BY DEF fresh, freshOf
  <2>2. /\ row' = [row EXCEPT ![r].blocks = hit.blocks \o new, ![r].own = Len(new), ![r].slot = slot,
                              ![r].seqLen = Len(hit.tokens), ![r].prefillFrom = Len(hit.tokens)]
        /\ state' = [state EXCEPT ![slot] = hit.state]
        /\ running' = Append(running, r) /\ next(<<[op |-> "plan"]>>) /\ UNCHANGED <<cell, store>>
    BY <1>7, <2>1 DEF Adopt, rw
  <2> HIDE DEF new, hit, slot
  <2>3. row' = [row EXCEPT ![r] = AdoptedRowOf(r, hit, new, slot)]
    BY <1>3, <2>2 DEF AdoptedRowOf
  <2> QED
    BY <2>2, <2>3
<1> HIDE DEF n, slot
<1> QED
  BY <1>3, <1>4, <1>5, <1>6, <1>9, <1>10, <1>11 DEF rw, n, slot

\* The row that is admitted starts after its hit, with the pages and the state of it.
LEMMA ExactAdopt == ASSUME EngineInv, Exact, Adopt PROVE Exact'
<1> DEFINE r == Head(waiting)
           rw == row[r]
           hit == hitIn(Range(store), rw.tokens)
           new == freshOf(free, needed(r))
           slot == Last(freeSlots)
           rx == AdoptedRowOf(r, hit, new, slot)
           from == Len(hit.tokens)
<1>1. /\ r \in Req /\ r \notin Range(running) /\ callsFor(agenda, r) = {}
      /\ rw.phase = "prefill" /\ rw.tokens \in Seq(Tokens) /\ rw.tokens # <<>> /\ rw.pending = NoSnapshot
      /\ new \in Seq(Block) /\ Range(new) \subseteq Range(free) /\ slot \in Slot
      /\ \A q \in Range(running) : row[q].slot # slot
      /\ row' = [row EXCEPT ![r] = rx]
      /\ state' = [state EXCEPT ![slot] = hit.state]
      /\ running' = Append(running, r) /\ next(<<[op |-> "plan"]>>) /\ UNCHANGED <<cell, store>>
  BY AdoptedAs
<1>2. row \in [Req -> RowType] /\ rw \in RowType /\ running \in Seq(Req) /\ state \in [Slot -> Seq(Tokens)]
  BY <1>1 DEF EngineInv, TypeOK
<1> HIDE DEF r, rw
<1>3. /\ hit.tokens \in Seq(Tokens) /\ Len(hit.tokens) <= Len(rw.tokens) /\ hit.tokens = SubSeq(rw.tokens, 1, Len(hit.tokens))
      /\ hit.state = hit.tokens /\ HoldsKv(cell, hit.blocks, hit.tokens, Len(hit.tokens))
      /\ \A b \in Range(hit.blocks) : entriesWith(store, b) # {}
  BY <1>1, HitContents
<1>4. hit.blocks \in Seq(Block) /\ Len(hit.blocks) * BlockTokens = from
  <2>1. StoreRight(store)
    BY DEF EngineInv, Pools, PoolsRight
  <2> QED
    BY <1>1, <2>1, HitIs
<1> HIDE DEF hit, new, slot
<1>5. /\ rx.tokens = rw.tokens /\ rx.phase = "prefill" /\ rx.pending = NoSnapshot /\ rx.blocks = hit.blocks \o new
      /\ rx.slot = slot /\ rx.prefillFrom = from
  <2>1. rx = [rw EXCEPT !.blocks = hit.blocks \o new, !.own = Len(new), !.slot = slot,
                 !.seqLen = Len(hit.tokens), !.prefillFrom = Len(hit.tokens)]
    BY DEF AdoptedRowOf, rw
  <2> QED
    BY <1>1, <1>2, <2>1 DEF RowType
<1> HIDE DEF rx
<1>6. row'[r] = rx /\ \A q \in Req \ {r} : row'[q] = row[q]
  BY <1>1, <1>2
<1>7. Range(running') = Range(running) \cup {r} /\ Range(running) \subseteq Req
  BY <1>1, <1>2, AppendedOnce, RangeOf
<1>8. /\ \A q : mattering(callsFor(agenda', q)) = mattering(callsFor(agenda, q))
      /\ \A c \in Range(agenda') : c.op # "forward"
      /\ callsFor(agenda', r) = {}
  <2> DEFINE s == <<[op |-> "plan"]>>
  <2>1. s \in Seq(Range(s)) /\ Range(s) = {[op |-> "plan"]}
    BY FewCalls
  <2>2. \A c \in Range(s) : c.op \notin Mattering \cup RowOps \cup {"forward"}
    BY <2>1 DEF Mattering, RowOps
  <2>3. next(s)
    BY <1>1
  <2>4. agenda # <<>> /\ Head(agenda).op = "adopt"
    BY DEF Adopt, doing
  <2>5. Head(agenda).op \notin Mattering \cup {"evict", "grow"}
    BY <2>4 DEF Mattering
  <2> HIDE DEF s
  <2>6. /\ \A q : mattering(callsFor(agenda', q)) = mattering(callsFor(agenda, q))
        /\ \A c \in Range(agenda') : c.op # "forward"
    BY <2>1, <2>2, <2>3, <2>4, <2>5, Aside
  <2>7. callsFor(agenda', r) = callsFor(s, r) \cup callsFor(Tail(agenda), r)
        /\ callsFor(agenda, r) = callsFor(Tail(agenda), r) \cup (IF forRow(Head(agenda), r) THEN {Head(agenda)} ELSE {})
    BY <2>1, <2>3, <2>4, NextCalls
  <2>8. callsFor(s, r) = {}
    BY <2>2 DEF callsFor, forRow
  <2> QED
    BY <1>1, <2>6, <2>7, <2>8
<1>9. \A b \in Range(new) : rowsWith(running, row, b) = {} /\ entriesWith(store, b) = {}
  <2>1. FreeRight(free, ref) /\ Queue(running) /\ StoreRight(store) /\ RefsRight(running, row, store, ref)
    BY DEF EngineInv, Pools, PoolsRight
  <2> QED
    BY <1>1, <2>1, FreeIsUnheld
<1>10. TakenFresh(running, row, running', row', store, r, hit.blocks)
  <2>1. \A q \in Range(running) \ {r} : row'[q] = row[q]
    BY <1>6, <1>7
  <2>2. row'[r].blocks = hit.blocks \o new
    BY <1>5, <1>6
  <2> QED
    BY <1>1, <1>3, <1>4, <1>7, <1>9, <2>1, <2>2, FreshArePrivate
<1>11. from \in Nat /\ behind(rx) = from
  BY <1>3, <1>5 DEF behind
<1>12. Private(r, running', row', store)
  <2>1. ASSUME NEW i \in 1 .. Len(rx.blocks), i * BlockTokens > behind(rx)
        PROVE  rowsWith(running', row', rx.blocks[i]) = {r} /\ entriesWith(store, rx.blocks[i]) = {}
    <3>1. i > Len(hit.blocks)
      <4> SUFFICES ASSUME ~ (i > Len(hit.blocks)) PROVE FALSE
        OBVIOUS
      <4> DEFINE m == Len(hit.blocks)
                 x == i * BlockTokens
                 y == m * BlockTokens
      <4>1. i \in Int /\ m \in Int /\ i <= m /\ BlockTokens \in Nat
        BY <1>4, PoolAssumption
      <4>2. x <= y
        BY ONLY <4>1, TimesMore
      <4>3. x \in Int /\ y \in Int /\ y = from /\ x > from
        BY <1>4, <1>11, <2>1, <4>1
      <4> HIDE DEF x, y, from
      <4> QED
        BY <1>11, <4>2, <4>3
    <3> QED
      BY <1>6, <1>10, <3>1 DEF TakenFresh
  <2> QED
    BY <1>6, <2>1 DEF Private
<1>13. RowContents(rx, {}, cell, hit.state)
  <2>1. computed(rx, {}) = {from}
    <3>1. "advance" \notin {c.op : c \in {}}
      OBVIOUS
    <3> QED
      BY <1>5, <3>1, ComputedOf
  <2>2. HoldsKv(cell, rx.blocks, rw.tokens, from)
    <3> DEFINE t == hit.tokens
               u == rw.tokens
               m == Len(hit.blocks)
               b1 == hit.blocks
               b2 == rx.blocks
    <3>1. /\ t \in Seq(Tokens) /\ u \in Seq(Tokens) /\ m \in Nat /\ from \in Nat /\ from <= m * BlockTokens /\ from <= Len(t)
          /\ from <= Len(u) /\ HoldsKv(cell, b1, t, from) /\ t = SubSeq(u, 1, from)
      BY <1>1, <1>3, <1>4, <1>11
    <3>2. \A i \in 1 .. m : b2[i] = b1[i]
      BY <1>4, <1>5
    <3>3. SubSeq(u, 1, from) = SubSeq(t, 1, from)
      <4>1. SubSeq(t, 1, Len(t)) = t
        BY <3>1, SubSeqFull
      <4> QED
        BY <3>1, <4>1
    <3> HIDE DEF t, u, m, b1, b2, from
    <3>4. from <= from
      BY <3>1
    <3>5. HoldsKv(cell, b2, u, from)
      BY <3>1, <3>2, <3>3, <3>4, KvShared
    <3> QED
      BY <3>5 DEF b2, u
  <2>3. hit.state = SubSeq(rw.tokens, 1, from)
    BY <1>3
  <2>4. SnapshotOf(rx, rx.pending.len, rx.pending.state)
    <3>1. rx.pending.len = 0 /\ rx.pending.state = <<>>
      BY <1>5 DEF NoSnapshot
    <3>2. SubSeq(rw.tokens, 1, 0) = <<>> /\ 0 <= from
      BY <1>1, <1>11
    <3> QED
      BY <1>5, <1>11, <3>1, <3>2 DEF SnapshotOf
  <2> HIDE DEF from
  <2> QED
    BY <1>5, <2>1, <2>2, <2>3, <2>4 DEF RowContents
<1>14. RowContents(row'[r], callsFor(agenda', r), cell, state'[row'[r].slot])
  <2>1. state'[slot] = hit.state
    BY <1>1, <1>2
  <2> QED
    BY <1>5, <1>6, <1>8, <1>13, <2>1
<1>15. ASSUME NEW q \in Range(running')
       PROVE  /\ RowContents(row'[q], callsFor(agenda', q), cell', state'[row'[q].slot])
              /\ Private(q, running', row', store')
  <2>1. CASE q = r
    BY <1>1, <1>12, <1>14, <2>1
  <2>2. CASE q # r
    <3>1. q \in Range(running) /\ row'[q] = row[q] /\ row[q].blocks \in Seq(Block) /\ row[q].slot \in Slot
      BY <1>6, <1>7, <2>2, RunningRow
    <3>2. RowContents(row[q], callsFor(agenda, q), cell, state[row[q].slot]) /\ Private(q, running, row, store)
      BY <3>1 DEF Exact
    <3>3. RowContents(row[q], callsFor(agenda', q), cell, state[row[q].slot])
      BY <1>8, <3>2, ContentsByCalls
    <3>4. state'[row[q].slot] = state[row[q].slot]
      BY <1>1, <1>2, <3>1
    <3>5. Private(q, running', row', store)
      BY <1>10, <2>2, <3>1, <3>2 DEF TakenFresh
    <3> QED
      BY <1>1, <3>1, <3>3, <3>4, <3>5
  <2> QED
    BY <2>1, <2>2
<1>16. \A e \in Range(store') : EntryContents(e, cell')
  BY <1>1 DEF Exact
<1> QED
  BY <1>8, <1>15, <1>16 DEF Exact

-----------------------------------------------------------------------------
(* The forward *)

\* A row of a forward is run up to a position, writing what is behind that of its tokens.
fedRows(ds, ps) ==
  {[r |-> d.r, to |-> row[d.r].seqLen] : d \in Range(ds)}
    \cup {[r |-> f.r, to |-> row[f.r].prefillFrom + f.count] : f \in Range(ps)}
writesOf(g) == {writeAt(g.r, p, row[g.r].tokens) : p \in behind(row[g.r]) .. g.to - 1}
Fed(g) ==
  /\ g.r \in Range(running) /\ g.to \in Nat /\ behind(row[g.r]) <= g.to
  /\ g.to <= Len(row[g.r].tokens) /\ g.to <= held(row[g.r])

\* A decode runs its row's last token.
LEMMA DecodeFeeds ==
  ASSUME NEW d, RunsDecode(d), row[d.r].phase = "decode", d.chain = <<Last(row[d.r].tokens)>>
  PROVE  LET g == [r |-> d.r, to |-> row[d.r].seqLen]
         IN  /\ decodeWrites(d) = writesOf(g)
             /\ d.chain = SubSeq(row[d.r].tokens, behind(row[d.r]) + 1, g.to)
<1> DEFINE t == row[d.r].tokens
           n == row[d.r].seqLen
           g == [r |-> d.r, to |-> n]
           history == SubSeq(t, 1, n - 1) \o d.chain
<1>1. t \in Seq(Tokens) /\ n = Len(t) /\ t # <<>> /\ Len(d.chain) = 1 /\ behind(row[d.r]) = n - 1 /\ d.chain = <<Last(t)>>
  BY DEF RunsDecode, behind
<1>2. g.r = d.r /\ g.to = n
  OBVIOUS
<1>3. decodeWrites(d) = {writeAt(d.r, p, history) : p \in n - 1 .. (n - 1) + Len(d.chain) - 1}
  BY DEF decodeWrites
<1> HIDE DEF t, n, g, history
<1>4. n \in Nat /\ n >= 1
  BY <1>1, EmptySeq
<1>5. history = t
  <2>1. Last(t) = t[n]
    BY <1>1 DEF Last
  <2>2. history = SubSeq(t, 1, n - 1) \o <<t[n]>>
    BY <1>1, <2>1 DEF history
  <2> QED
    BY <1>1, <1>4, <2>2
<1>6. d.chain = SubSeq(t, n, n)
  <2>1. Last(t) = t[n]
    BY <1>1 DEF Last
  <2> QED
    BY <1>1, <1>4, <2>1
<1>7. (n - 1) + Len(d.chain) - 1 = n - 1 /\ (n - 1) + 1 = n
  BY <1>1, <1>4
<1>8. decodeWrites(d) = writesOf(g)
  BY <1>1, <1>2, <1>3, <1>5, <1>7 DEF writesOf, t
<1> QED
  BY <1>1, <1>2, <1>6, <1>7, <1>8 DEF t, n, g

\* The rows of a forward, and where the tokens they run take their pages and their states.
LEMMA ForwardFed ==
  ASSUME Drafter = "none", EngineInv, Exact, Forward
  PROVE  LET ds == decodesLeft(call)
             ps == call.prefills
             G == fedRows(ds, ps)
         IN  /\ \A g \in G : Fed(g)
             /\ \A g, h \in G : g.r = h.r => g = h
             /\ (UNION {decodeWrites(d) : d \in Range(ds)}) \cup (UNION {prefillWrites(f) : f \in Range(ps)})
                  = UNION {writesOf(g) : g \in G}
             /\ \A g \in G : consumed(row[g.r].slot, ds, ps) = SubSeq(row[g.r].tokens, behind(row[g.r]) + 1, g.to)
             /\ \A r \in Range(running) : (\A g \in G : g.r # r) => consumed(row[r].slot, ds, ps) = <<>>
             /\ \A g \in G : computed(row[g.r], callsFor(agenda', g.r)) = {g.to}
             /\ \A r \in Range(running) : (\A g \in G : g.r # r) => callsFor(agenda', r) = {}
             /\ \A r \in Req : callsFor(agenda, r) = {} /\ \A c \in callsFor(agenda', r) : c.op # "publish"
<1> DEFINE ds == decodesLeft(call)
           ps == call.prefills
           a == afterForward(ds, ps)
           G == fedRows(ds, ps)
           ofD(d) == [r |-> d.r, to |-> row[d.r].seqLen]
           ofF(f) == [r |-> f.r, to |-> row[f.r].prefillFrom + f.count]
<1>1. /\ call \in Range(agenda) /\ call.op = "forward" /\ Range(ds) \subseteq Range(call.decodes)
      /\ \A r \in Req : callsFor(agenda, r) = {}
      /\ \A d \in Range(ds) : d.r \in Req /\ Live(d.r) /\ row[d.r].phase = "decode"
                              /\ row[d.r].seqLen <= held(row[d.r]) /\ RunsDecode(d)
      /\ \A f \in Range(ps) : /\ Live(f.r) /\ row[f.r].phase = "prefill"
                              /\ row[f.r].prefillFrom + f.count <= promptLen(f.r)
                              /\ Len(row[f.r].tokens) = promptLen(f.r) /\ RunsPrefill(f)
      /\ \A d, e \in Range(ds) : d.r = e.r => d = e
      /\ \A f, g \in Range(ps) : f.r = g.r => f = g
      /\ \A d \in Range(ds), f \in Range(ps) : d.r # f.r
      /\ \A r \in Req : callsFor(agenda', r) = callsFor(a, r)
      /\ \A d \in Range(ds) : callsFor(a, d.r) = {callOf("sample", d.r)}
      /\ \A f \in Range(ps) :
           callsFor(a, f.r) = {advanceOf(f)} \cup IF completes(f) THEN {callOf("sample", f.r), callOf("complete", f.r)} ELSE {}
      /\ \A r \in Req : (\A d \in Range(ds) : d.r # r) /\ (\A f \in Range(ps) : f.r # r) => callsFor(a, r) = {}
  BY ForwardRuns
<1>2. G = {ofD(d) : d \in Range(ds)} \cup {ofF(f) : f \in Range(ps)}
  BY DEF fedRows
<1>3. /\ \A d : ofD(d).r = d.r /\ ofD(d).to = row[d.r].seqLen
      /\ \A f : ofF(f).r = f.r /\ ofF(f).to = row[f.r].prefillFrom + f.count
  OBVIOUS
<1> HIDE DEF ds, ps, a, G, ofD, ofF
<1>4. ASSUME NEW d \in Range(ds)
      PROVE  /\ Fed(ofD(d)) /\ decodeWrites(d) = writesOf(ofD(d))
             /\ d.chain = SubSeq(row[d.r].tokens, behind(row[d.r]) + 1, row[d.r].seqLen)
             /\ computed(row[d.r], callsFor(agenda', d.r)) = {row[d.r].seqLen}
  <2>1. d.chain = <<Last(row[d.r].tokens)>>
    <3>1. ForwardFeeds(call)
      BY <1>1 DEF Exact
    <3>2. row[d.r].phase = "decode"
      BY <1>1
    <3> QED
      BY <1>1, <3>1, <3>2 DEF ForwardFeeds
  <2>2. decodeWrites(d) = writesOf(ofD(d)) /\ d.chain = SubSeq(row[d.r].tokens, behind(row[d.r]) + 1, row[d.r].seqLen)
    BY <1>1, <2>1, DecodeFeeds DEF ofD
  <2>3. Fed(ofD(d))
    <3>1. d.r \in Range(running) /\ row[d.r].seqLen \in Nat /\ behind(row[d.r]) = row[d.r].seqLen - 1
          /\ row[d.r].seqLen = Len(row[d.r].tokens)
      <4>1. d.r \in Range(running)
        BY <1>1 DEF Live
      <4>2. row[d.r].seqLen \in Nat
        BY <4>1, RunningRow
      <4> QED
        BY <1>1, <4>1, <4>2 DEF behind, RunsDecode
    <3>2. row[d.r].seqLen - 1 <= row[d.r].seqLen /\ row[d.r].seqLen <= row[d.r].seqLen
      BY <3>1
    <3>3. Len(row[d.r].tokens) = row[d.r].seqLen /\ row[d.r].seqLen <= held(row[d.r])
      BY <1>1, <3>1
    <3> QED
      BY <1>3, <3>1, <3>2, <3>3 DEF Fed
  <2>4. computed(row[d.r], callsFor(agenda', d.r)) = {row[d.r].seqLen}
    <3> DEFINE C == callsFor(agenda', d.r)
    <3>1. C = {callOf("sample", d.r)}
      BY <1>1
    <3>2. "sample" \in {c.op : c \in C}
      BY <3>1 DEF callOf
    <3> HIDE DEF C
    <3>3. computed(row[d.r], C) = {row[d.r].seqLen}
      BY <1>1, <3>2, ComputedOf
    <3> QED
      BY <3>3 DEF C
  <2> QED
    BY <2>2, <2>3, <2>4
<1>5. ASSUME NEW f \in Range(ps)
      PROVE  /\ Fed(ofF(f)) /\ prefillWrites(f) = writesOf(ofF(f)) /\ behind(row[f.r]) = row[f.r].prefillFrom
             /\ computed(row[f.r], callsFor(agenda', f.r)) = {row[f.r].prefillFrom + f.count}
  <2>1. f.r \in Range(running) /\ row[f.r].phase = "prefill" /\ f.r \in Req
    BY <1>1, RunningRow DEF Live
  <2>2. behind(row[f.r]) = row[f.r].prefillFrom
    BY <2>1 DEF behind
  <2>3. prefillWrites(f) = writesOf(ofF(f))
    <3> DEFINE g == ofF(f)
               from == row[f.r].prefillFrom
               W == {writeAt(f.r, p, row[f.r].tokens) : p \in from .. from + f.count - 1}
    <3>1. g.r = f.r /\ g.to = from + f.count /\ behind(row[f.r]) = from
      BY <1>3, <2>2
    <3>2. prefillWrites(f) = W
      BY DEF prefillWrites
    <3> HIDE DEF g
    <3> HIDE DEF from
    <3>3. writesOf(g) = W
      <4>1. writesOf(g) = {writeAt(f.r, p, row[f.r].tokens) : p \in behind(row[f.r]) .. g.to - 1}
        BY <3>1 DEF writesOf
      <4>2. behind(row[f.r]) .. g.to - 1 = from .. from + f.count - 1
        <5>1. from \in Nat /\ f.count \in Nat
          BY <1>1 DEF RunsPrefill, from
        <5>2. g.to - 1 = from + f.count - 1
          BY <3>1, <5>1
        <5> QED
          BY <3>1, <5>2
      <4> QED
        BY <4>1, <4>2
    <3> HIDE DEF W
    <3>4. prefillWrites(f) = writesOf(g)
      BY <3>2, <3>3
    <3> QED
      BY <3>4 DEF g
  <2>4. Fed(ofF(f))
    <3> DEFINE k == row[f.r].prefillFrom + f.count
    <3>1. row[f.r].prefillFrom \in Nat /\ f.count \in Nat /\ k <= Len(row[f.r].tokens)
      BY <1>1 DEF RunsPrefill
    <3>2. k <= promptLen(f.r) /\ promptLen(f.r) <= held(row[f.r]) /\ promptLen(f.r) \in Nat
      <4>1. LiveRight(row[f.r], f.r, callsFor(agenda, f.r), opsFor(agenda, f.r)) /\ promptLen(f.r) \in Nat
        BY <2>1, RunningRow
      <4> QED
        BY <1>1, <2>1, <4>1 DEF LiveRight, PrefillRight
    <3>3. held(row[f.r]) \in Nat
      <4>1. row[f.r].blocks \in Seq(Block)
        BY <2>1, RunningRow
      <4>2. Len(row[f.r].blocks) \in Nat /\ BlockTokens \in Nat
        BY <4>1, PoolAssumption
      <4> QED
        BY <4>2 DEF held
    <3>4. k \in Nat /\ row[f.r].prefillFrom <= k
      BY <3>1
    <3>5. k <= held(row[f.r])
      <4> HIDE DEF k
      <4> QED
        BY <3>2, <3>3, <3>4
    <3> QED
      BY <1>3, <2>1, <2>2, <3>1, <3>4, <3>5 DEF Fed
  <2>5. computed(row[f.r], callsFor(agenda', f.r)) = {row[f.r].prefillFrom + f.count}
    <3> DEFINE C == callsFor(agenda', f.r)
    <3>1. C = {advanceOf(f)} \cup IF completes(f) THEN {callOf("sample", f.r), callOf("complete", f.r)} ELSE {}
      BY <1>1, <2>1
    <3>2. /\ advanceOf(f).op = "advance" /\ advanceOf(f).count = f.count
          /\ callOf("sample", f.r).op # "advance" /\ callOf("complete", f.r).op # "advance"
      BY DEF callOf, advanceOf
    <3>3. advanceOf(f) \in C /\ \A c \in C : c.op = "advance" => c = advanceOf(f)
      BY <3>1, <3>2
    <3> HIDE DEF C
    <3>4. computed(row[f.r], C) = {row[f.r].prefillFrom + advanceOf(f).count}
      BY <2>1, <3>2, <3>3, ComputedOf
    <3> QED
      BY <3>2, <3>4 DEF C
  <2> QED
    BY <2>2, <2>3, <2>4, <2>5
<1>6. \A g, h \in G : g.r = h.r => g = h
  <2>1. \A d, e \in Range(ds) : ofD(d).r = ofD(e).r => ofD(d) = ofD(e)
    BY <1>1, <1>3
  <2>2. \A f, e \in Range(ps) : ofF(f).r = ofF(e).r => ofF(f) = ofF(e)
    BY <1>1, <1>3
  <2>3. \A d \in Range(ds), f \in Range(ps) : ofD(d).r # ofF(f).r
    BY <1>1, <1>3
  <2> QED
    BY <1>2, <2>1, <2>2, <2>3
<1>7. (UNION {decodeWrites(d) : d \in Range(ds)}) \cup (UNION {prefillWrites(f) : f \in Range(ps)})
        = UNION {writesOf(g) : g \in G}
  <2>1. \A w : w \in UNION {decodeWrites(d) : d \in Range(ds)} <=> \E d \in Range(ds) : w \in writesOf(ofD(d))
    BY <1>4
  <2>2. \A w : w \in UNION {prefillWrites(f) : f \in Range(ps)} <=> \E f \in Range(ps) : w \in writesOf(ofF(f))
    BY <1>5
  <2>3. \A w : w \in UNION {writesOf(g) : g \in G} <=>
                 (\E d \in Range(ds) : w \in writesOf(ofD(d))) \/ (\E f \in Range(ps) : w \in writesOf(ofF(f)))
    BY <1>2
  <2> QED
    BY <2>1, <2>2, <2>3
<1>8. \A r, q \in Range(running) : row[r].slot = row[q].slot => r = q
  BY DEF EngineInv, Pools, PoolsRight, SlotsRight
<1>9. \A d \in Range(ds) : d.r \in Range(running) /\ Len(d.chain) = 1
  BY <1>1 DEF Live, RunsDecode
<1>10. \A f \in Range(ps) : f.r \in Range(running)
  BY <1>1 DEF Live
<1> DEFINE D(s) == {x \in Range(ds) : row[x.r].slot = s /\ Len(x.chain) = 1}
           F(s) == {x \in Range(ps) : row[x.r].slot = s}
<1>11. \A s : consumed(s, ds, ps) =
         IF D(s) # {} THEN (CHOOSE x \in D(s) : TRUE).chain
         ELSE IF F(s) # {}
              THEN LET x == CHOOSE x \in F(s) : TRUE
                   IN  SubSeq(row[x.r].tokens, row[x.r].prefillFrom + 1, row[x.r].prefillFrom + x.count)
         ELSE <<>>
  BY DEF consumed
<1>12. ASSUME NEW d \in Range(ds) PROVE consumed(row[d.r].slot, ds, ps) = d.chain
  <2>1. D(row[d.r].slot) = {d}
    BY <1>1, <1>8, <1>9
  <2> HIDE DEF D, F
  <2>2. (CHOOSE x \in D(row[d.r].slot) : TRUE) = d
    BY <2>1
  <2> QED
    BY <1>11, <2>1, <2>2
<1>13. ASSUME NEW f \in Range(ps)
       PROVE  consumed(row[f.r].slot, ds, ps) = SubSeq(row[f.r].tokens, row[f.r].prefillFrom + 1, row[f.r].prefillFrom + f.count)
  <2>1. D(row[f.r].slot) = {} /\ F(row[f.r].slot) = {f}
    BY <1>1, <1>8, <1>9, <1>10
  <2> HIDE DEF D, F
  <2>2. (CHOOSE x \in F(row[f.r].slot) : TRUE) = f
    BY <2>1
  <2> QED
    BY <1>11, <2>1, <2>2
<1>14. ASSUME NEW r \in Range(running), \A g \in G : g.r # r
       PROVE  consumed(row[r].slot, ds, ps) = <<>> /\ callsFor(agenda', r) = {}
  <2>1. (\A d \in Range(ds) : d.r # r) /\ (\A f \in Range(ps) : f.r # r)
    BY <1>2, <1>3, <1>14
  <2>2. D(row[r].slot) = {} /\ F(row[r].slot) = {}
    BY <1>8, <1>9, <1>10, <2>1
  <2>3. r \in Req
    BY RunningRow
  <2> HIDE DEF D, F
  <2> QED
    BY <1>1, <1>11, <2>1, <2>2, <2>3
<1> HIDE DEF D, F
<1>15. \A r \in Req : \A c \in callsFor(agenda', r) : c.op # "publish"
  <2>1. \A r : callOf("sample", r).op # "publish" /\ callOf("complete", r).op # "publish"
    BY DEF callOf
  <2>2. \A f : advanceOf(f).op # "publish"
    BY DEF advanceOf
  <2>3. ASSUME NEW r \in Req PROVE \A c \in callsFor(a, r) : c.op # "publish"
    <3>1. CASE \E d \in Range(ds) : d.r = r
      BY <1>1, <2>1, <3>1
    <3>2. CASE \E f \in Range(ps) : f.r = r
      <4>1. PICK f \in Range(ps) : f.r = r
        BY <3>2
      <4> QED
        BY <1>1, <2>1, <2>2, <4>1
    <3>3. CASE (\A d \in Range(ds) : d.r # r) /\ (\A f \in Range(ps) : f.r # r)
      BY <1>1, <3>3
    <3> QED
      BY <3>1, <3>2, <3>3
  <2> QED
    BY <1>1, <2>3
<1>16. ASSUME NEW g \in G
       PROVE  /\ Fed(g) /\ computed(row[g.r], callsFor(agenda', g.r)) = {g.to}
              /\ consumed(row[g.r].slot, ds, ps) = SubSeq(row[g.r].tokens, behind(row[g.r]) + 1, g.to)
  <2>1. CASE \E d \in Range(ds) : g = ofD(d)
    <3>1. PICK d \in Range(ds) : g = ofD(d)
      BY <2>1
    <3>2. g.r = d.r /\ g.to = row[d.r].seqLen
      BY <1>3, <3>1
    <3>3. /\ Fed(g) /\ d.chain = SubSeq(row[d.r].tokens, behind(row[d.r]) + 1, row[d.r].seqLen)
          /\ computed(row[d.r], callsFor(agenda', d.r)) = {row[d.r].seqLen}
      BY <1>4, <3>1
    <3>4. consumed(row[d.r].slot, ds, ps) = d.chain
      BY <1>12
    <3> QED
      BY <3>2, <3>3, <3>4
  <2>2. CASE \E f \in Range(ps) : g = ofF(f)
    <3>1. PICK f \in Range(ps) : g = ofF(f)
      BY <2>2
    <3>2. g.r = f.r /\ g.to = row[f.r].prefillFrom + f.count
      BY <1>3, <3>1
    <3>3. /\ Fed(g) /\ behind(row[f.r]) = row[f.r].prefillFrom
          /\ computed(row[f.r], callsFor(agenda', f.r)) = {row[f.r].prefillFrom + f.count}
      BY <1>5, <3>1
    <3>4. consumed(row[f.r].slot, ds, ps) = SubSeq(row[f.r].tokens, row[f.r].prefillFrom + 1, row[f.r].prefillFrom + f.count)
      BY <1>13
    <3> QED
      BY <3>2, <3>3, <3>4
  <2> QED
    BY <1>2, <2>1, <2>2
<1> QED
  BY <1>1, <1>6, <1>7, <1>14, <1>15, <1>16 DEF G, ds, ps

\* The writes of a forward, and those of them at an offset of a block.
written(G) == UNION {writesOf(g) : g \in G}
writtenAt(G, b, o) == {w \in written(G) : w.block = b /\ w.offset = o}

\* A position is its block and its offset.
LEMMA SamePlace ==
  ASSUME NEW b \in Nat \ {0}, NEW p \in Nat, NEW q \in Nat, p \div b + 1 = q \div b + 1, p % b = q % b
  PROVE  p = q
<1>1. p \in Int /\ q \in Int
  OBVIOUS
<1>2. p \div b \in Int /\ (p \div b) * b \in Int /\ p % b = p - (p \div b) * b
  BY <1>1, Multiples
<1>3. q \div b \in Int /\ (q \div b) * b \in Int /\ q % b = q - (q \div b) * b
  BY <1>1, Multiples
<1>4. p \div b = q \div b
  BY <1>2, <1>3
<1> QED
  BY <1>1, <1>2, <1>3, <1>4

\* Every position a row has a block for is in that block.
LEMMA PlaceOf ==
  ASSUME EngineInv, NEW r \in Range(running), NEW p \in Nat, p < held(row[r])
  PROVE  /\ p \div BlockTokens + 1 \in 1 .. Len(row[r].blocks) /\ p % BlockTokens \in Offset
         /\ row[r].blocks[p \div BlockTokens + 1] \in Block
         /\ row[r].blocks[p \div BlockTokens + 1] \in Range(row[r].blocks)
         /\ p < (p \div BlockTokens + 1) * BlockTokens
<1>1. row[r].blocks \in Seq(Block) /\ BlockTokens \in Nat \ {0}
  BY RunningRow, PoolAssumption
<1> DEFINE bs == row[r].blocks
           i == p \div BlockTokens + 1
<1>2. bs \in Seq(Block) /\ Len(bs) \in Nat /\ p < Len(bs) * BlockTokens
  BY <1>1 DEF held
<1>3. p % BlockTokens \in 0 .. BlockTokens - 1 /\ p < i * BlockTokens
      /\ \A m \in Nat : p < m * BlockTokens => i \in 1 .. m
  BY <1>1, BlockAt
<1> HIDE DEF bs, i
<1>4. i \in 1 .. Len(bs)
  BY <1>2, <1>3
<1>5. bs[i] \in Block /\ bs[i] \in Range(bs)
  <2>1. DOMAIN bs = 1 .. Len(bs)
    BY <1>2
  <2> QED
    BY <1>2, <1>4, <2>1 DEF Range
<1> QED
  BY <1>3, <1>4, <1>5 DEF bs, i, Offset

\* The block of a position that a forward writes is held by its row, and by nothing else.
LEMMA FedAlone ==
  ASSUME EngineInv, Exact, NEW g, Fed(g), NEW p \in behind(row[g.r]) .. g.to - 1
  PROVE  /\ p \in Nat /\ p < held(row[g.r])
         /\ rowsWith(running, row, row[g.r].blocks[p \div BlockTokens + 1]) = {g.r}
         /\ entriesWith(store, row[g.r].blocks[p \div BlockTokens + 1]) = {}
<1>1. g.r \in Range(running) /\ g.to \in Nat /\ g.to <= held(row[g.r])
  BY DEF Fed
<1>2. behind(row[g.r]) \in Nat /\ row[g.r].blocks \in Seq(Block)
  BY <1>1, RunningRow
<1>3. held(row[g.r]) \in Nat
  <2>1. Len(row[g.r].blocks) \in Nat /\ BlockTokens \in Nat
    BY <1>2, LenProperties, PoolAssumption
  <2> QED
    BY <2>1 DEF held
<1> DEFINE n == behind(row[g.r])
           h == held(row[g.r])
           m == g.to
<1>4. p \in n .. m - 1 /\ n \in Nat /\ m \in Nat /\ m <= h /\ h \in Nat
  BY <1>1, <1>2, <1>3
<1> HIDE DEF n, h, m
<1>5. p \in Nat /\ p < h /\ n <= p
  BY <1>4
<1> DEFINE i == p \div BlockTokens + 1
<1>6. i \in 1 .. Len(row[g.r].blocks) /\ p < i * BlockTokens
  BY <1>1, <1>5, PlaceOf DEF h
<1> HIDE DEF i
<1>7. i * BlockTokens > n
  <2>1. i * BlockTokens \in Int
    <3>1. i \in Int /\ BlockTokens \in Int
      BY <1>2, <1>6, PoolAssumption
    <3> QED
      BY <3>1
  <2> QED
    BY <1>4, <1>5, <1>6, <2>1
<1>8. Private(g.r, running, row, store)
  BY <1>1 DEF Exact
<1>9. rowsWith(running, row, row[g.r].blocks[i]) = {g.r} /\ entriesWith(store, row[g.r].blocks[i]) = {}
  BY <1>6, <1>7, <1>8 DEF Private, n
<1> QED
  BY <1>5, <1>9 DEF i, h

\* What is written at position p of row r is that position's, and only if the row runs over it.
WritesOwn(G, r, p) ==
  LET A == writtenAt(G, row[r].blocks[p \div BlockTokens + 1], p % BlockTokens)
      runsOver == \E g \in G : g.r = r /\ p \in behind(row[r]) .. g.to - 1
  IN  (\A w \in A : w.kv = SubSeq(row[r].tokens, 1, p + 1)) /\ (A # {} <=> runsOver)

\* A forward writes a row's own K/V at the positions it runs, and nothing at its others.
LEMMA RowWritten ==
  ASSUME EngineInv, Exact, NEW G, \A g \in G : Fed(g),
         NEW r \in Range(running), NEW p \in Nat, p < held(row[r])
  PROVE  WritesOwn(G, r, p)
<1> DEFINE b == row[r].blocks[p \div BlockTokens + 1]
           o == p % BlockTokens
           A == writtenAt(G, b, o)
<1>1. b \in Range(row[r].blocks) /\ p \div BlockTokens + 1 \in 1 .. Len(row[r].blocks)
  BY PlaceOf
<1>2. ASSUME NEW w \in A
      PROVE  w.kv = SubSeq(row[r].tokens, 1, p + 1) /\ \E g \in G : g.r = r /\ p \in behind(row[r]) .. g.to - 1
  <2>1. w.block = b /\ w.offset = o /\ \E g \in G : w \in writesOf(g)
    BY DEF writtenAt, written
  <2>2. PICK g \in G : w \in writesOf(g)
    BY <2>1
  <2>3. PICK x \in behind(row[g.r]) .. g.to - 1 : w = writeAt(g.r, x, row[g.r].tokens)
    BY <2>2 DEF writesOf
  <2>4. /\ w.block = row[g.r].blocks[x \div BlockTokens + 1] /\ w.offset = x % BlockTokens
        /\ w.kv = SubSeq(row[g.r].tokens, 1, x + 1)
    BY <2>3 DEF writeAt
  <2>5. /\ x \in Nat /\ x < held(row[g.r]) /\ g.r \in Range(running)
        /\ rowsWith(running, row, row[g.r].blocks[x \div BlockTokens + 1]) = {g.r}
    BY FedAlone DEF Fed
  <2>6. r = g.r
    <3>1. r \in rowsWith(running, row, b)
      BY <1>1 DEF rowsWith
    <3> QED
      BY <2>1, <2>4, <2>5, <3>1
  <2>7. x \div BlockTokens + 1 \in 1 .. Len(row[r].blocks)
    BY <2>5, <2>6, PlaceOf
  <2>8. p \div BlockTokens + 1 = x \div BlockTokens + 1
    <3> DEFINE i == p \div BlockTokens + 1
               j == x \div BlockTokens + 1
               bs == row[r].blocks
    <3>1. bs \in Seq(Block) /\ IsInjective(bs)
      BY RunningRow
    <3>2. bs[i] = bs[j] /\ i \in 1 .. Len(bs) /\ j \in 1 .. Len(bs)
      BY <1>1, <2>1, <2>4, <2>6, <2>7
    <3> HIDE DEF i, j, bs
    <3>3. i = j
      BY <3>1, <3>2 DEF IsInjective
    <3> QED
      BY <3>3 DEF i, j
  <2>9. p = x
    BY <2>1, <2>4, <2>5, <2>8, SamePlace, PoolAssumption
  <2> QED
    BY <2>3, <2>4, <2>6, <2>9
<1>3. ASSUME NEW g \in G, g.r = r, p \in behind(row[r]) .. g.to - 1
      PROVE  A # {}
  <2> DEFINE w == writeAt(r, p, row[r].tokens)
  <2>1. w \in writesOf(g)
    BY <1>3 DEF writesOf
  <2>2. w.block = b /\ w.offset = o
    BY DEF writeAt
  <2> HIDE DEF w, b, o
  <2>3. w \in A
    BY <2>1, <2>2 DEF writtenAt, written
  <2> QED
    BY <2>3
<1> DEFINE runsOver == \E g \in G : g.r = r /\ p \in behind(row[r]) .. g.to - 1
<1>4. A = {} \/ \E w \in A : TRUE
  OBVIOUS
<1> HIDE DEF A
<1>5. (\A w \in A : w.kv = SubSeq(row[r].tokens, 1, p + 1)) /\ (A # {} <=> runsOver)
  BY <1>2, <1>3, <1>4
<1> QED
  BY <1>5 DEF A, WritesOwn

\* A forward writes nothing into the blocks of an entry.
LEMMA EntryUnwritten ==
  ASSUME EngineInv, Exact, NEW G, \A g \in G : Fed(g), NEW e \in Range(store), NEW b \in Range(e.blocks), NEW o
  PROVE  writtenAt(G, b, o) = {}
<1> SUFFICES ASSUME NEW w \in writtenAt(G, b, o) PROVE FALSE
  OBVIOUS
<1>1. w.block = b /\ \E g \in G : w \in writesOf(g)
  BY DEF writtenAt, written
<1>2. PICK g \in G : w \in writesOf(g)
  BY <1>1
<1>3. PICK x \in behind(row[g.r]) .. g.to - 1 : w = writeAt(g.r, x, row[g.r].tokens)
  BY <1>2 DEF writesOf
<1>4. w.block = row[g.r].blocks[x \div BlockTokens + 1]
  BY <1>3 DEF writeAt
<1>5. entriesWith(store, row[g.r].blocks[x \div BlockTokens + 1]) = {}
  BY FedAlone
<1>6. e \in entriesWith(store, b)
  BY DEF entriesWith
<1> QED
  BY <1>1, <1>4, <1>5, <1>6

\* A row without calls has computed what is behind it, and has pages for it.
LEMMA QuietRow ==
  ASSUME EngineInv, Exact, NEW r \in Range(running), callsFor(agenda, r) = {}
  PROVE  /\ HoldsKv(cell, row[r].blocks, row[r].tokens, behind(row[r]))
         /\ state[row[r].slot] = SubSeq(row[r].tokens, 1, behind(row[r]))
         /\ behind(row[r]) <= held(row[r]) /\ held(row[r]) \in Nat
         /\ computed(row[r], {}) = {behind(row[r])}
<1> DEFINE rw == row[r]
<1>1. /\ rw.phase \in {"prefill", "decode"} /\ LiveRight(rw, r, callsFor(agenda, r), opsFor(agenda, r))
      /\ rw.blocks \in Seq(Block) /\ rw.prefillFrom \in Nat /\ promptLen(r) \in Nat
  BY RunningRow
<1>2. RowContents(rw, callsFor(agenda, r), cell, state[rw.slot])
  BY DEF Exact
<1>3. held(rw) \in Nat
  <2>1. Len(rw.blocks) \in Nat /\ BlockTokens \in Nat
    BY <1>1, LenProperties, PoolAssumption
  <2> QED
    BY <2>1 DEF held
<1>4. RowContents(rw, {}, cell, state[rw.slot])
  BY <1>2
<1> HIDE DEF rw
<1>5. computed(rw, {}) = {behind(rw)}
  <2>1. CASE rw.phase = "prefill"
    BY <2>1, ComputedOf DEF behind
  <2>2. CASE rw.phase = "decode"
    BY <2>2, ComputedOf DEF behind
  <2> QED
    BY <1>1, <2>1, <2>2
<1>6. behind(rw) <= held(rw)
  <2>1. CASE rw.phase = "prefill"
    <3>1. rw.prefillFrom <= promptLen(r) /\ promptLen(r) <= held(rw)
      BY <1>1, <2>1 DEF LiveRight, PrefillRight
    <3> QED
      BY <1>1, <1>3, <2>1, <3>1 DEF behind
  <2>2. CASE rw.phase = "decode"
    BY <1>1, <2>2 DEF LiveRight, DecodeRight, behind
  <2> QED
    BY <1>1, <2>1, <2>2
<1>7. HoldsKv(cell, rw.blocks, rw.tokens, behind(rw)) /\ state[rw.slot] = SubSeq(rw.tokens, 1, behind(rw))
  <2>1. behind(rw) \in computed(rw, {}) /\ "finish" \notin {c.op : c \in {}}
    BY <1>5
  <2> QED
    BY <1>4, <2>1 DEF RowContents
<1> QED
  BY <1>3, <1>5, <1>6, <1>7 DEF rw

\* A sequence is its beginning, and what follows it.
LEMMA TwoParts ==
  ASSUME NEW a \in Seq(Tokens), NEW b \in Seq(Tokens), NEW c \in Seq(Tokens), Len(c) = Len(a) + Len(b),
         \A i \in 1 .. Len(a) : a[i] = c[i], \A i \in 1 .. Len(b) : b[i] = c[Len(a) + i]
  PROVE  a \o b = c
<1>1. /\ a \o b \in Seq(Tokens) /\ Len(a \o b) = Len(a) + Len(b)
      /\ \A i \in 1 .. Len(a) + Len(b) : (a \o b)[i] = IF i <= Len(a) THEN a[i] ELSE b[i - Len(a)]
  BY ConcatProperties
<1>2. Len(a) \in Nat /\ Len(b) \in Nat
  BY LenProperties
<1>3. ASSUME NEW i \in 1 .. Len(a) + Len(b) PROVE (a \o b)[i] = c[i]
  <2>1. CASE i <= Len(a)
    BY <1>1, <1>2, <2>1
  <2>2. CASE i > Len(a)
    <3>1. (a \o b)[i] = b[i - Len(a)] /\ i - Len(a) \in 1 .. Len(b) /\ Len(a) + (i - Len(a)) = i
      BY <1>1, <1>2, <2>2
    <3> QED
      BY <3>1
  <2> QED
    BY <1>2, <2>1, <2>2
<1> QED
  BY <1>1, <1>3, SeqEqual

\* The recurrence of a row runs on from what is behind it.
LEMMA RunsOn ==
  ASSUME NEW t \in Seq(Tokens), NEW n \in Nat, NEW m \in Nat, n <= m, m <= Len(t)
  PROVE  SubSeq(t, 1, n) \o SubSeq(t, n + 1, m) = SubSeq(t, 1, m)
<1> DEFINE a == SubSeq(t, 1, n)
           b == SubSeq(t, n + 1, m)
           c == SubSeq(t, 1, m)
<1>1. Len(t) \in Nat
  OBVIOUS
<1>2. a \in Seq(Tokens) /\ Len(a) = n /\ \A i \in 1 .. n : a[i] = t[i]
  BY <1>1
<1>3. b \in Seq(Tokens) /\ Len(b) = m - n /\ \A i \in 1 .. m - n : b[i] = t[n + i]
  BY <1>1
<1>4. c \in Seq(Tokens) /\ Len(c) = m /\ \A i \in 1 .. m : c[i] = t[i]
  BY <1>1
<1> HIDE DEF a, b, c
<1>5. Len(c) = Len(a) + Len(b) /\ (\A i \in 1 .. Len(a) : a[i] = c[i]) /\ \A i \in 1 .. Len(b) : b[i] = c[Len(a) + i]
  <2>1. Len(c) = Len(a) + Len(b) /\ Len(a) = n /\ Len(b) = m - n
    BY <1>2, <1>3, <1>4
  <2>2. ASSUME NEW i \in 1 .. n PROVE a[i] = c[i]
    <3>1. i \in 1 .. m
      OBVIOUS
    <3> QED
      BY <1>2, <1>4, <3>1
  <2>3. ASSUME NEW i \in 1 .. m - n PROVE b[i] = c[n + i]
    <3>1. n + i \in 1 .. m
      OBVIOUS
    <3>2. b[i] = t[n + i] /\ c[n + i] = t[n + i]
      BY <1>3, <1>4, <3>1
    <3> QED
      BY <3>2
  <2> QED
    BY <2>1, <2>2, <2>3
<1>6. a \o b = c
  BY <1>2, <1>3, <1>4, <1>5, TwoParts
<1> QED
  BY <1>6 DEF a, b, c

\* A forward leaves the pages and the states of its rows one run further on.
LEMMA ExactForward ==
  ASSUME Drafter = "none", EngineInv, Exact, Forward
  PROVE  Exact'
<1> DEFINE ds == decodesLeft(call)
           ps == call.prefills
           G == fedRows(ds, ps)
           toks(r) == row[r].tokens
           bs(r) == row[r].blocks
           old(r) == state[row[r].slot]
           new(r) == state'[row[r].slot]
           fed(r) == \E g \in G : g.r = r
           place(c, r, p) == c[row[r].blocks[p \div BlockTokens + 1]][p % BlockTokens]
<1>1. /\ \A g \in G : Fed(g)
      /\ \A g, h \in G : g.r = h.r => g = h
      /\ (UNION {decodeWrites(d) : d \in Range(ds)}) \cup (UNION {prefillWrites(f) : f \in Range(ps)})
           = UNION {writesOf(g) : g \in G}
      /\ \A g \in G : consumed(row[g.r].slot, ds, ps) = SubSeq(row[g.r].tokens, behind(row[g.r]) + 1, g.to)
      /\ \A r \in Range(running) : (\A g \in G : g.r # r) => consumed(row[r].slot, ds, ps) = <<>>
      /\ \A g \in G : computed(row[g.r], callsFor(agenda', g.r)) = {g.to}
      /\ \A r \in Range(running) : (\A g \in G : g.r # r) => callsFor(agenda', r) = {}
      /\ \A r \in Req : callsFor(agenda, r) = {} /\ \A c \in callsFor(agenda', r) : c.op # "publish"
  BY ForwardFed
<1>2. UNCHANGED <<running, row, store>> /\ \A c \in Range(agenda') : c.op \notin Lone
  BY ForwardRuns
<1>3. /\ cell' = [b \in Block |-> [o \in Offset |->
                    IF writtenAt(G, b, o) = {} THEN cell[b][o] ELSE (CHOOSE w \in writtenAt(G, b, o) : TRUE).kv]]
      /\ state' = [s \in Slot |-> state[s] \o consumed(s, ds, ps)]
  <2> DEFINE writes == (UNION {decodeWrites(d) : d \in Range(ds)}) \cup (UNION {prefillWrites(f) : f \in Range(ps)})
             at(b, o) == {w \in writes : w.block = b /\ w.offset = o}
  <2>1. /\ cell' = [b \in Block |-> [o \in Offset |->
                      IF at(b, o) = {} THEN cell[b][o] ELSE (CHOOSE w \in at(b, o) : TRUE).kv]]
        /\ state' = [s \in Slot |-> state[s] \o consumed(s, ds, ps)]
    BY DEF Forward, decodesLeft
  <2>2. writes = written(G)
    BY <1>1 DEF written
  <2>3. \A b, o : at(b, o) = writtenAt(G, b, o)
    BY <2>2 DEF writtenAt
  <2> HIDE DEF at, writes, ds, ps, G
  <2> QED
    BY <2>1, <2>3
<1> HIDE DEF ds, ps, G
<1>4. ASSUME NEW r \in Range(running)
      PROVE  /\ r \in Req /\ row[r].slot \in Slot /\ toks(r) \in Seq(Tokens) /\ bs(r) \in Seq(Block)
             /\ behind(row[r]) \in Nat /\ behind(row[r]) <= Len(toks(r)) /\ old(r) \in Seq(Tokens)
  BY <1>4, RunningRow
<1>5. ASSUME NEW r \in Range(running)
      PROVE  /\ HoldsKv(cell, bs(r), toks(r), behind(row[r])) /\ old(r) = SubSeq(toks(r), 1, behind(row[r]))
             /\ behind(row[r]) <= held(row[r]) /\ held(row[r]) \in Nat /\ computed(row[r], {}) = {behind(row[r])}
  <2>1. callsFor(agenda, r) = {}
    BY <1>1, <1>4
  <2> QED
    BY <2>1, QuietRow
<1>6. ASSUME NEW b \in Block, NEW o \in Offset
      PROVE  cell'[b][o] = IF writtenAt(G, b, o) = {} THEN cell[b][o] ELSE (CHOOSE w \in writtenAt(G, b, o) : TRUE).kv
  BY <1>3
<1> DEFINE over(r, p) == \E g \in G : g.r = r /\ p \in behind(row[r]) .. g.to - 1
<1>7. ASSUME NEW r \in Range(running), NEW p \in Nat, p < held(row[r])
      PROVE  place(cell', r, p) = IF over(r, p) THEN SubSeq(toks(r), 1, p + 1) ELSE place(cell, r, p)
  <2> DEFINE b == row[r].blocks[p \div BlockTokens + 1]
             o == p % BlockTokens
             A == writtenAt(G, b, o)
  <2>1. b \in Block /\ o \in Offset
    BY <1>7, PlaceOf
  <2>2. WritesOwn(G, r, p)
    <3>1. \A g \in G : Fed(g)
      BY <1>1
    <3> QED
      BY <1>7, <3>1, RowWritten
  <2>3. (\A w \in A : w.kv = SubSeq(toks(r), 1, p + 1)) /\ (A # {} <=> over(r, p))
    BY <2>2 DEF WritesOwn
  <2>4. cell'[b][o] = IF A = {} THEN cell[b][o] ELSE (CHOOSE w \in A : TRUE).kv
    BY <1>6, <2>1
  <2>5. place(cell', r, p) = cell'[b][o] /\ place(cell, r, p) = cell[b][o]
    OBVIOUS
  <2> HIDE DEF A, b, o, place, over
  <2>6. A # {} => (CHOOSE w \in A : TRUE) \in A
    OBVIOUS
  <2> QED
    BY <2>3, <2>4, <2>5, <2>6
<1>8. ASSUME NEW r \in Range(running)
      PROVE  HoldsKv(cell', bs(r), toks(r), behind(row[r]))
  <2>1. ASSUME NEW p \in 0 .. behind(row[r]) - 1
        PROVE  place(cell', r, p) = SubSeq(toks(r), 1, p + 1)
    <3>1. p \in Nat /\ p < held(row[r]) /\ \A m : p \notin behind(row[r]) .. m
      BY <1>4, <1>5
    <3>2. place(cell, r, p) = SubSeq(toks(r), 1, p + 1)
      BY <1>5 DEF HoldsKv
    <3>3. ~ over(r, p)
      BY <3>1
    <3> HIDE DEF place, over, toks
    <3>4. place(cell', r, p) = place(cell, r, p)
      BY <1>7, <3>1, <3>3
    <3> QED
      BY <3>2, <3>4
  <2> QED
    BY <2>1 DEF HoldsKv
<1>9. ASSUME NEW r \in Range(running), NEW g \in G, g.r = r
      PROVE  HoldsKv(cell', bs(r), toks(r), g.to) /\ new(r) = SubSeq(toks(r), 1, g.to)
  <2>1. /\ g.to \in Nat /\ behind(row[r]) <= g.to
        /\ g.to <= Len(toks(r)) /\ g.to <= held(row[r])
    BY <1>1, <1>9 DEF Fed
  <2>2. ASSUME NEW p \in 0 .. g.to - 1
        PROVE  place(cell', r, p) = SubSeq(toks(r), 1, p + 1)
    <3>1. p \in Nat /\ p < held(row[r])
      BY <1>5, <2>1
    <3>2. CASE p < behind(row[r])
      <4>1. p \in 0 .. behind(row[r]) - 1
        BY <1>4, <2>1, <3>1, <3>2
      <4> QED
        BY <1>8, <2>1, <4>1 DEF HoldsKv
    <3>3. CASE p >= behind(row[r])
      <4>1. p \in behind(row[r]) .. g.to - 1
        BY <1>4, <2>1, <3>1, <3>3
      <4>2. over(r, p)
        BY <1>9, <4>1
      <4> HIDE DEF place, over, toks
      <4>3. place(cell', r, p) = IF over(r, p) THEN SubSeq(toks(r), 1, p + 1) ELSE place(cell, r, p)
        BY <1>7, <3>1
      <4> QED
        BY <4>2, <4>3
    <3>4. p < behind(row[r]) \/ p >= behind(row[r])
      BY <1>4, <3>1
    <3> HIDE DEF place, toks
    <3> QED
      BY <3>2, <3>3, <3>4
  <2>3. new(r) = SubSeq(toks(r), 1, g.to)
    <3>1. new(r) = old(r) \o consumed(row[r].slot, ds, ps)
      BY <1>3, <1>4, <2>1
    <3>2. old(r) = SubSeq(toks(r), 1, behind(row[r]))
      BY <1>5, <2>1
    <3>3. consumed(row[r].slot, ds, ps) = SubSeq(toks(r), behind(row[r]) + 1, g.to)
      BY <1>1, <1>9
    <3>4. SubSeq(toks(r), 1, behind(row[r])) \o SubSeq(toks(r), behind(row[r]) + 1, g.to) = SubSeq(toks(r), 1, g.to)
      BY <1>4, <2>1, RunsOn
    <3> QED
      BY <3>1, <3>2, <3>3, <3>4
  <2>4. HoldsKv(cell', bs(r), toks(r), g.to)
    BY <2>2 DEF HoldsKv
  <2> QED
    BY <2>3, <2>4
<1>10. ASSUME NEW r \in Range(running), \A g \in G : g.r # r
       PROVE  new(r) = SubSeq(toks(r), 1, behind(row[r]))
  <2>1. new(r) = old(r) \o <<>>
    BY <1>1, <1>3, <1>4, <1>10
  <2> QED
    BY <1>4, <1>5, <2>1, ConcatEmptySeq
<1>11. ASSUME NEW r \in Range(running)
       PROVE  RowContents(row[r], callsFor(agenda', r), cell', new(r))
  <2> DEFINE C == callsFor(agenda', r)
  <2>1. SnapshotOf(row[r], row[r].pending.len, row[r].pending.state)
    BY DEF Exact, RowContents
  <2>2. \A c \in C : c.op # "publish"
    BY <1>1, <1>4
  <2>3. ASSUME NEW n \in computed(row[r], C)
        PROVE  HoldsKv(cell', bs(r), toks(r), n) /\ new(r) = SubSeq(toks(r), 1, n)
    <3>1. CASE \E g \in G : g.r = r
      <4>1. PICK g \in G : g.r = r
        BY <3>1
      <4>2. n = g.to
        BY <1>1, <2>3, <4>1
      <4> HIDE DEF toks, bs, new
      <4> QED
        BY <1>9, <4>1, <4>2
    <3>2. CASE \A g \in G : g.r # r
      <4>1. C = {}
        BY <1>1, <3>2
      <4>2. n = behind(row[r])
        BY <1>5, <2>3, <4>1
      <4> HIDE DEF toks, bs, new
      <4> QED
        BY <1>8, <1>10, <3>2, <4>2
    <3> QED
      BY <3>1, <3>2
  <2> HIDE DEF C
  <2>4. RowContents(row[r], C, cell', new(r))
    BY <2>1, <2>2, <2>3 DEF RowContents
  <2> QED
    BY <2>4 DEF C
<1>12. ASSUME NEW e \in Range(store)
       PROVE  EntryContents(e, cell')
  <2> DEFINE k == Len(e.tokens)
  <2>1. EntryContents(e, cell)
    BY DEF Exact
  <2>2. e.blocks \in Seq(Block) /\ k \in Nat /\ Len(e.blocks) * BlockTokens = k /\ Len(e.blocks) \in Nat
    <3>1. store \in Seq(Entry) /\ \A x \in Range(store) : Len(x.blocks) * BlockTokens = Len(x.tokens)
      BY DEF EngineInv, Pools, PoolsRight, StoreRight
    <3>2. e \in Entry
      BY <3>1, RangeOf
    <3>3. e.blocks \in Seq(Block) /\ e.tokens \in Seq(Tokens)
      BY <3>2 DEF Entry
    <3> QED
      BY <3>1, <3>3, LenProperties
  <2>3. ASSUME NEW p \in 0 .. k - 1
        PROVE  cell'[e.blocks[p \div BlockTokens + 1]][p % BlockTokens] = cell[e.blocks[p \div BlockTokens + 1]][p % BlockTokens]
    <3> DEFINE i == p \div BlockTokens + 1
               o == p % BlockTokens
    <3>1. p \in Nat /\ p < Len(e.blocks) * BlockTokens
      BY <2>2
    <3>2. o \in Offset /\ i \in 1 .. Len(e.blocks)
      BY <2>2, <3>1, BlockAt, PoolAssumption DEF Offset
    <3> HIDE DEF i, o
    <3>3. e.blocks[i] \in Block /\ e.blocks[i] \in Range(e.blocks)
      <4>1. DOMAIN e.blocks = 1 .. Len(e.blocks)
        BY <2>2
      <4> QED
        BY <2>2, <3>2, <4>1 DEF Range
    <3>4. writtenAt(G, e.blocks[i], o) = {}
      BY <1>1, <3>3, EntryUnwritten
    <3>5. cell'[e.blocks[i]][o] = cell[e.blocks[i]][o]
      BY <1>6, <3>2, <3>3, <3>4
    <3> QED
      BY <3>5 DEF i, o
  <2> QED
    BY <2>1, <2>3 DEF EntryContents, HoldsKv
<1>13. ASSUME NEW r \in Range(running)
       PROVE  (RowContents(row[r], callsFor(agenda, r), cell, state[row[r].slot]) /\ Private(r, running, row, store))'
  <2>1. Private(r, running, row, store)
    BY DEF Exact
  <2> QED
    BY <1>2, <1>11, <2>1
<1>14. ASSUME NEW c \in Range(agenda') PROVE c.op # "forward"
  BY <1>2, <1>14 DEF Lone
<1> QED
  BY <1>2, <1>12, <1>13, <1>14 DEF Exact

------------------------------------------------------------------------------
(* Theorems *)

\* Every step of the engine leaves the pages and the states with what they should hold.
LEMMA ExactStep == Drafter = "none" /\ EngineInv /\ Exact /\ [Next]_vars => Exact'
<1> SUFFICES ASSUME Drafter = "none", EngineInv, Exact, [Next]_vars PROVE Exact'
  OBVIOUS
<1>1. CASE Client
  BY <1>1, ExactClient
<1>2. CASE Plan
  BY <1>2, ExactLoneSteps, ExactEntriesGo, ExactAdopt, ExactFormBatch, ExactGrow DEF Plan
<1>3. CASE Commit
  BY <1>3, ExactSample, NeverDrafts, ExactCommitStop, ExactCommitToken, ExactFinish, ExactPublish, ExactEntriesGo,
     ExactAdvance, ExactComplete DEF Commit
<1>4. CASE DraftStep
  BY <1>4, NeverDrafts
<1>5. CASE StepBegin \/ Forward \/ ForwardRaises \/ FailAll \/ StepEnd
  BY <1>5, ExactLoneSteps, ExactForward, ExactFailAll, ExactStepEnd
<1>6. CASE UNCHANGED vars
  <2>1. UNCHANGED <<running, row, agenda, cell, state, store>>
    BY <1>6 DEF vars
  <2> QED
    BY <2>1 DEF Exact, ForwardFeeds, callsFor
<1>7. CASE LoopIdle
  BY <1>6, <1>7 DEF LoopIdle
<1> QED
  BY <1>1, <1>2, <1>3, <1>4, <1>5, <1>6, <1>7 DEF Next, Tick

\* No row runs at first, and no entry is stored.
LEMMA InitExact == Init => Exact
<1> SUFFICES ASSUME Init PROVE Exact
  OBVIOUS
<1>1. running = <<>> /\ store = <<>> /\ agenda = <<>>
  BY DEF Init
<1>2. Range(running) = {} /\ Range(store) = {} /\ Range(agenda) = {}
  BY <1>1, FewCalls
<1> QED
  BY <1>2 DEF Exact

\* For any requests, prompts, page size, pool, chunk and batch sizes, a build without a
\* drafter keeps the pages, the states and the entries those of their tokens: through
\* hits, chunks, evictions, copies of a state and rows that leave (engine.py:1204-1706).
THEOREM EngineExact == ASSUME Drafter = "none" PROVE Spec => []Exact
<1>1. EngineInv /\ Exact /\ [Next]_vars => Exact'
  BY ExactStep
<1> QED
  BY InitExact, EngineInvariant, <1>1, PTL DEF Spec

\* What the next forward of a row attends to is the K/V of its own tokens, whatever
\* blocks it adopted from the prefix store, shares with an entry, or has written itself.
THEOREM EngineAttendsToItsOwn == ASSUME Drafter = "none" PROVE Spec => []KvExact
<1>1. EngineInv /\ Exact => KvExact
  <2> SUFFICES ASSUME EngineInv, Exact, NEW r \in Range(running), NEW p \in 0 .. materialized(r) - 1
               PROVE  cell[row[r].blocks[p \div BlockTokens + 1]][p % BlockTokens] = SubSeq(row[r].tokens, 1, p + 1)
    BY DEF KvExact
  <2>1. materialized(r) = behind(row[r])
    BY DEF materialized, behind
  <2>2. PICK k \in computed(row[r], callsFor(agenda, r)) : k \in Nat /\ behind(row[r]) <= k
    BY BehindComputed
  <2>3. behind(row[r]) \in Nat
    BY RunningRow
  <2>4. p \in 0 .. k - 1
    BY <2>1, <2>2, <2>3
  <2>5. HoldsKv(cell, row[r].blocks, row[r].tokens, k)
    BY <2>2 DEF Exact, RowContents
  <2> QED
    BY <2>4, <2>5 DEF HoldsKv
<1> QED
  BY <1>1, EngineInvariant, EngineExact, PTL

\* Between ticks the recurrent state of a row has consumed the tokens behind its next
\* forward, each once and no other.
THEOREM EngineStateExact == ASSUME Drafter = "none" PROVE Spec => []StateExact
<1>1. EngineInv /\ Exact => StateExact
  <2> SUFFICES ASSUME EngineInv, Exact, idle, NEW r \in Range(running)
               PROVE  state[row[r].slot] = SubSeq(row[r].tokens, 1, materialized(r))
    BY DEF StateExact
  <2>1. callsFor(agenda, r) = {}
    BY NoCalls DEF idle
  <2>2. state[row[r].slot] = SubSeq(row[r].tokens, 1, behind(row[r]))
    BY <2>1, QuietRow
  <2> QED
    BY <2>2 DEF materialized, behind
<1> QED
  BY <1>1, EngineInvariant, EngineExact, PTL

\* A stored prefix is whole for as long as it is stored: its snapshot and its pages are
\* those of the tokens it is matched by (prefix_store.py, publish and match).
THEOREM EngineEntriesExact == ASSUME Drafter = "none" PROVE Spec => []EntryExact
<1>1. EngineInv /\ Exact => EntryExact
  <2> SUFFICES ASSUME EngineInv, Exact, NEW i \in DOMAIN store
               PROVE  LET e == store[i]
                      IN  /\ e.state = e.tokens
                          /\ \A p \in 0 .. Len(e.tokens) - 1 :
                               cell[e.blocks[p \div BlockTokens + 1]][p % BlockTokens] = SubSeq(e.tokens, 1, p + 1)
    BY DEF EntryExact
  <2>1. store[i] \in Range(store)
    BY DEF Range
  <2>2. EntryContents(store[i], cell)
    BY <2>1 DEF Exact
  <2> QED
    BY <2>2 DEF EntryContents, HoldsKv
<1> QED
  BY <1>1, EngineInvariant, EngineExact, PTL

-----------------------------------------------------------------------------
(* The steps of KvPages, as the engine takes them *)

\* What KvPages' table, sealed, pinned and saved are, of the rows rn and rw and the
\* entries st: EnginePages' mapping with the variables it reads as parameters.
tablesOf(rn, rw) == [r \in Req |-> IF r \in Range(rn) THEN Range(rw[r].blocks) ELSE {}]
sealedsOf(rn, rw) ==
  [r \in Req |-> IF r \in Range(rn) THEN {rw[r].blocks[i] : i \in 1 .. behind(rw[r]) \div BlockTokens} ELSE {}]
blocksIn(st, k) ==
  IF \E i \in DOMAIN st : st[i].tokens = k THEN st[CHOOSE i \in DOMAIN st : st[i].tokens = k].blocks ELSE <<>>
pinsOf(st) == [k \in Keys |-> Range(blocksIn(st, k))]
savesOf(st) ==
  [k \in Keys |-> [b \in Block |->
     IF b \in Range(blocksIn(st, k))
     THEN kvOf(k, CHOOSE i \in DOMAIN blocksIn(st, k) : blocksIn(st, k)[i] = b) ELSE "none"]]

\* The mapping of EnginePages is these.
LEMMA Mapped ==
  /\ [r \in Req |-> tableOf(r)] = tablesOf(running, row)
  /\ [r \in Req |-> sealedOf(r)] = sealedsOf(running, row)
  /\ [k \in Keys |-> Range(entryBlocks(k))] = pinsOf(store)
  /\ [k \in Keys |-> [b \in Block |-> savedOf(k, b)]] = savesOf(store)
<1>1. \A k : entryBlocks(k) = blocksIn(store, k)
  BY DEF entryBlocks, blocksIn, stored, indexOf
<1>2. [k \in Keys |-> [b \in Block |-> savedOf(k, b)]] = savesOf(store)
  BY DEF savedOf, savesOf, entryBlocks, blocksIn, stored, indexOf
<1> QED
  BY <1>1, <1>2 DEF tableOf, tablesOf, sealedOf, sealedsOf, pinsOf, materialized, behind

\* And so it is after a step.
LEMMA MappedNext ==
  /\ [r \in Req |-> tableOf(r)]' = tablesOf(running', row')
  /\ [r \in Req |-> sealedOf(r)]' = sealedsOf(running', row')
  /\ [k \in Keys |-> Range(entryBlocks(k))]' = pinsOf(store')
  /\ [k \in Keys |-> [b \in Block |-> savedOf(k, b)]]' = savesOf(store')
<1>1. \A k : entryBlocks(k)' = blocksIn(store', k)
  BY DEF entryBlocks, blocksIn, stored, indexOf
<1>2. [k \in Keys |-> [b \in Block |-> savedOf(k, b)]]' = savesOf(store')
  BY DEF savedOf, savesOf, entryBlocks, blocksIn, stored, indexOf
<1> QED
  BY <1>1, <1>2 DEF tableOf, tablesOf, sealedOf, sealedsOf, pinsOf, materialized, behind

\* A step of the rows that touches no entry and writes no page.
StoreStands == pinsOf(store') = pinsOf(store) /\ savesOf(store') = savesOf(store) /\ cell' = cell

\* A step of the store that touches no row and writes no page.
RowsStand == tablesOf(running', row') = tablesOf(running, row) /\ sealedsOf(running', row') = sealedsOf(running, row)

\* A step KvPages does not see.
LEMMA AsStutter ==
  ASSUME RowsStand, StoreStands, ref' = ref
  PROVE  UNCHANGED Pages!vars
BY Mapped, MappedNext DEF Pages!vars, RowsStand, StoreStands

\* A step that gives all a row's blocks back is Release.
LEMMA AsRelease ==
  ASSUME NEW r \in Req, tablesOf(running, row)[r] # {}, StoreStands,
         ref' = [b \in Block |-> IF b \in tablesOf(running, row)[r] THEN ref[b] - 1 ELSE ref[b]],
         tablesOf(running', row') = [tablesOf(running, row) EXCEPT ![r] = {}],
         sealedsOf(running', row') = [sealedsOf(running, row) EXCEPT ![r] = {}]
  PROVE  Pages!Next
<1>1. Pages!Release(r)
  BY Mapped, MappedNext DEF Pages!Release, StoreStands
<1> QED
  BY <1>1 DEF Pages!Next

\* A step that gives a row free blocks is Grow.
LEMMA AsGrow ==
  ASSUME NEW r \in Req, tablesOf(running, row)[r] # {}, StoreStands,
         NEW taken \in SUBSET Block, \A b \in taken : ref[b] = 0,
         ref' = [b \in Block |-> IF b \in taken THEN 1 ELSE ref[b]],
         tablesOf(running', row') = [tablesOf(running, row) EXCEPT ![r] = @ \cup taken],
         sealedsOf(running', row') = sealedsOf(running, row)
  PROVE  Pages!Next
<1>1. Pages!Grow(r, taken)
  BY Mapped, MappedNext DEF Pages!Grow, StoreStands
<1>2. taken \in SUBSET Pages!Free
  BY DEF Pages!Free
<1> QED
  BY <1>1, <1>2 DEF Pages!Next

\* A step past the end of some of a row's blocks is Seal.
LEMMA AsSeal ==
  ASSUME NEW r \in Req, StoreStands, ref' = ref, NEW whole \in SUBSET tablesOf(running, row)[r],
         tablesOf(running', row') = tablesOf(running, row),
         sealedsOf(running', row') = [sealedsOf(running, row) EXCEPT ![r] = @ \cup whole]
  PROVE  Pages!Next
<1>1. Pages!Seal(r, whole)
  BY Mapped, MappedNext DEF Pages!Seal, StoreStands
<1>2. whole \in SUBSET [q \in Req |-> tableOf(q)][r]
  BY Mapped
<1> QED
  BY <1>1, <1>2 DEF Pages!Next

\* A step that gives a row the blocks of one entry, or none, and free ones is Admit.
LEMMA AsAdmit ==
  ASSUME NEW r \in Req, tablesOf(running, row)[r] = {}, StoreStands,
         NEW hit, hit = {} \/ \E k \in Keys : hit = pinsOf(store)[k],
         NEW taken \in SUBSET Block, \A b \in taken : ref[b] = 0, hit \cup taken # {},
         ref' = [b \in Block |-> IF b \in taken THEN 1 ELSE IF b \in hit THEN ref[b] + 1 ELSE ref[b]],
         tablesOf(running', row') = [tablesOf(running, row) EXCEPT ![r] = hit \cup taken],
         sealedsOf(running', row') = [sealedsOf(running, row) EXCEPT ![r] = hit]
  PROVE  Pages!Next
<1>1. Pages!Admit(r, hit, taken)
  BY Mapped, MappedNext DEF Pages!Admit, StoreStands
<1>2. taken \in SUBSET Pages!Free
  BY DEF Pages!Free
<1>3. hit \in Pages!Hits
  BY Mapped DEF Pages!Hits
<1> QED
  BY <1>1, <1>2, <1>3 DEF Pages!Next

\* A step that stores sealed blocks, with what they hold, is Publish.
LEMMA AsPublish ==
  ASSUME RowsStand, cell' = cell, NEW r \in Req, NEW k \in Keys, pinsOf(store)[k] = {},
         NEW whole \in SUBSET sealedsOf(running, row)[r], whole # {},
         ref' = [b \in Block |-> IF b \in whole THEN ref[b] + 1 ELSE ref[b]],
         pinsOf(store') = [pinsOf(store) EXCEPT ![k] = whole],
         savesOf(store') = [savesOf(store) EXCEPT ![k] = [b \in Block |-> IF b \in whole THEN cell[b] ELSE "none"]]
  PROVE  Pages!Next
<1>1. Pages!Publish(r, k, whole)
  BY Mapped, MappedNext DEF Pages!Publish, RowsStand
<1>2. whole \in SUBSET [q \in Req |-> sealedOf(q)][r]
  BY Mapped
<1> QED
  BY <1>1, <1>2 DEF Pages!Next

\* A step that removes an entry that holds blocks is Drop.
LEMMA AsDrop ==
  ASSUME RowsStand, cell' = cell, NEW k \in Keys, pinsOf(store)[k] # {},
         ref' = [b \in Block |-> IF b \in pinsOf(store)[k] THEN ref[b] - 1 ELSE ref[b]],
         pinsOf(store') = [pinsOf(store) EXCEPT ![k] = {}],
         savesOf(store') = [savesOf(store) EXCEPT ![k] = [b \in Block |-> "none"]]
  PROVE  Pages!Next
<1>1. Pages!Drop(k)
  BY Mapped, MappedNext DEF Pages!Drop, RowsStand
<1> QED
  BY <1>1 DEF Pages!Next

\* A step that writes into open blocks is Forward.
LEMMA AsForward ==
  ASSUME RowsStand, pinsOf(store') = pinsOf(store), savesOf(store') = savesOf(store), ref' = ref,
         cell' \in [Block -> [Offset -> Seq(Tokens)]],
         \A b \in Block : (\A r \in Req : b \notin tablesOf(running, row)[r] \ sealedsOf(running, row)[r]) => cell'[b] = cell[b]
  PROVE  Pages!Next
<1>1. \A b \in Block \ Pages!Open : cell'[b] = cell[b]
  BY Mapped DEF Pages!Open
<1>2. Pages!Forward
  BY <1>1, Mapped, MappedNext DEF Pages!Forward, RowsStand
<1> QED
  BY <1>2 DEF Pages!Next

\* The blocks an entry of k has are the entry's, whichever place it has in the store.
LEMMA BlocksOfEntry ==
  ASSUME NEW st, StoreRight(st)
  PROVE  /\ \A e \in Range(st) : blocksIn(st, e.tokens) = e.blocks
         /\ \A k : (\A e \in Range(st) : e.tokens # k) => blocksIn(st, k) = <<>>
<1>1. DOMAIN st = 1 .. Len(st) /\ Range(st) = {st[i] : i \in 1 .. Len(st)}
  BY EntriesOnce
<1>2. ASSUME NEW e \in Range(st) PROVE blocksIn(st, e.tokens) = e.blocks
  <2>1. PICK i \in DOMAIN st : st[i] = e
    BY <1>1
  <2>2. \A j \in DOMAIN st : st[j].tokens = e.tokens => j = i
    BY <1>1, <2>1 DEF StoreRight
  <2>3. (CHOOSE j \in DOMAIN st : st[j].tokens = e.tokens) = i
    BY <2>1, <2>2
  <2> QED
    BY <2>1, <2>3 DEF blocksIn
<1>3. ASSUME NEW k, \A e \in Range(st) : e.tokens # k PROVE blocksIn(st, k) = <<>>
  <2>1. ~ \E i \in DOMAIN st : st[i].tokens = k
    BY <1>1, <1>3
  <2> QED
    BY <2>1 DEF blocksIn
<1> QED
  BY <1>2, <1>3

\* What was saved of the blocks bs of an entry of k.
savesIn(bs, k) ==
  [b \in Block |-> IF b \in Range(bs) THEN kvOf(k, CHOOSE i \in DOMAIN bs : bs[i] = b) ELSE "none"]

\* What was saved of all the entries, one by one.
LEMMA SavesIn ==
  /\ \A st : savesOf(st) = [k \in Keys |-> savesIn(blocksIn(st, k), k)]
  /\ \A k : savesIn(<<>>, k) = [b \in Block |-> "none"]
<1>1. \A st : savesOf(st) = [k \in Keys |-> savesIn(blocksIn(st, k), k)]
  BY DEF savesOf, savesIn
<1>2. Range(<<>>) = {}
  BY DEF Range
<1>3. \A k : savesIn(<<>>, k) = [b \in Block |-> "none"]
  BY <1>2 DEF savesIn
<1> QED
  BY <1>1, <1>3

\* The order of the entries does not matter.
LEMMA OrderAside ==
  ASSUME NEW st, NEW sx, StoreRight(st), StoreRight(sx), Range(sx) = Range(st)
  PROVE  pinsOf(sx) = pinsOf(st) /\ savesOf(sx) = savesOf(st)
<1>1. ASSUME NEW k PROVE blocksIn(sx, k) = blocksIn(st, k)
  <2>1. CASE \E e \in Range(st) : e.tokens = k
    <3>1. PICK e \in Range(st) : e.tokens = k
      BY <2>1
    <3>2. blocksIn(st, e.tokens) = e.blocks /\ blocksIn(sx, e.tokens) = e.blocks
      BY BlocksOfEntry
    <3> QED
      BY <3>1, <3>2
  <2>2. CASE \A e \in Range(st) : e.tokens # k
    <3>1. blocksIn(st, k) = <<>> /\ blocksIn(sx, k) = <<>>
      BY <2>2, BlocksOfEntry
    <3> QED
      BY <3>1
  <2> QED
    BY <2>1, <2>2
<1>2. savesOf(st) = [k \in Keys |-> savesIn(blocksIn(st, k), k)] /\ savesOf(sx) = [k \in Keys |-> savesIn(blocksIn(sx, k), k)]
  BY SavesIn
<1>3. savesOf(sx) = savesOf(st)
  BY <1>1, <1>2
<1> QED
  BY <1>1, <1>3 DEF pinsOf

\* What one entry more or less changes.
LEMMA OneEntry ==
  ASSUME NEW st, NEW sx, StoreRight(st), StoreRight(sx), NEW e \in Range(sx), Range(st) = Range(sx) \ {e}
  PROVE  LET k == e.tokens
         IN  /\ pinsOf(sx) = [pinsOf(st) EXCEPT ![k] = Range(e.blocks)]
             /\ savesOf(sx) = [savesOf(st) EXCEPT ![k] = savesIn(e.blocks, k)]
             /\ pinsOf(st) = [pinsOf(sx) EXCEPT ![k] = {}]
             /\ savesOf(st) = [savesOf(sx) EXCEPT ![k] = [b \in Block |-> "none"]]
             /\ k \in Keys => pinsOf(sx)[k] = Range(e.blocks) /\ pinsOf(st)[k] = {}
<1> DEFINE k == e.tokens
<1>1. \A d \in Range(sx) : d.tokens = k => d = e
  <2>1. Range(sx) = {sx[i] : i \in 1 .. Len(sx)}
    BY EntriesOnce
  <2>2. \A i, j \in 1 .. Len(sx) : sx[i].tokens = sx[j].tokens => i = j
    BY DEF StoreRight
  <2> QED
    BY <2>1, <2>2
<1>2. blocksIn(sx, k) = e.blocks
  BY BlocksOfEntry
<1>3. blocksIn(st, k) = <<>>
  <2>1. \A d \in Range(st) : d.tokens # k
    BY <1>1
  <2> QED
    BY <2>1, BlocksOfEntry
<1>4. ASSUME NEW l, l # k PROVE blocksIn(sx, l) = blocksIn(st, l)
  <2>1. CASE \E d \in Range(st) : d.tokens = l
    <3>1. PICK d \in Range(st) : d.tokens = l
      BY <2>1
    <3>2. blocksIn(st, d.tokens) = d.blocks /\ blocksIn(sx, d.tokens) = d.blocks
      BY BlocksOfEntry
    <3> QED
      BY <3>1, <3>2
  <2>2. CASE \A d \in Range(st) : d.tokens # l
    <3>1. \A d \in Range(sx) : d.tokens # l
      BY <1>4, <2>2
    <3>2. blocksIn(st, l) = <<>> /\ blocksIn(sx, l) = <<>>
      BY <2>2, <3>1, BlocksOfEntry
    <3> QED
      BY <3>2
  <2> QED
    BY <2>1, <2>2
<1> HIDE DEF k
<1>5. /\ savesOf(st) = [l \in Keys |-> savesIn(blocksIn(st, l), l)] /\ savesOf(sx) = [l \in Keys |-> savesIn(blocksIn(sx, l), l)]
      /\ savesIn(<<>>, k) = [b \in Block |-> "none"]
  BY SavesIn
<1>6. Range(<<>>) = {}
  BY DEF Range
<1>7. pinsOf(sx) = [pinsOf(st) EXCEPT ![k] = Range(e.blocks)] /\ pinsOf(st) = [pinsOf(sx) EXCEPT ![k] = {}]
  BY <1>2, <1>3, <1>4, <1>6 DEF pinsOf
<1>8. /\ savesOf(sx) = [savesOf(st) EXCEPT ![k] = savesIn(e.blocks, k)]
      /\ savesOf(st) = [savesOf(sx) EXCEPT ![k] = [b \in Block |-> "none"]]
  <2> DEFINE none == [b \in Block |-> "none"]
             full == savesIn(e.blocks, k)
             f(l) == savesIn(blocksIn(st, l), l)
             g(l) == savesIn(blocksIn(sx, l), l)
  <2>1. f(k) = none /\ g(k) = full /\ \A l : l # k => f(l) = g(l)
    BY <1>2, <1>3, <1>4, <1>5
  <2>2. savesOf(st) = [l \in Keys |-> f(l)] /\ savesOf(sx) = [l \in Keys |-> g(l)]
    BY <1>5
  <2> HIDE DEF none, full, f, g
  <2>3. savesOf(sx) = [savesOf(st) EXCEPT ![k] = full] /\ savesOf(st) = [savesOf(sx) EXCEPT ![k] = none]
    BY <2>1, <2>2
  <2> QED
    BY <2>3 DEF none, full
<1>9. k \in Keys => pinsOf(sx)[k] = Range(e.blocks) /\ pinsOf(st)[k] = {}
  BY <1>2, <1>3, <1>6 DEF pinsOf
<1> QED
  BY <1>7, <1>8, <1>9 DEF k

\* Rows of the same blocks, as far along, have the same tables.
LEMMA RowsAlike ==
  ASSUME NEW rn, NEW rm, NEW rw, NEW rx, Range(rm) = Range(rn),
         \A q \in Range(rn) : rx[q].blocks = rw[q].blocks /\ behind(rx[q]) = behind(rw[q])
  PROVE  tablesOf(rm, rx) = tablesOf(rn, rw) /\ sealedsOf(rm, rx) = sealedsOf(rn, rw)
BY DEF tablesOf, sealedsOf

\* A step that leaves the rows and the entries as they are, and writes nothing.
LEMMA NothingSeen ==
  ASSUME StoreRight(store), StoreRight(store'), Range(store') = Range(store), Range(running') = Range(running),
         \A q \in Range(running) : row'[q].blocks = row[q].blocks /\ behind(row'[q]) = behind(row[q]),
         UNCHANGED <<cell, ref>>
  PROVE  UNCHANGED Pages!vars
<1>1. StoreStands
  BY OrderAside DEF StoreStands
<1>2. RowsStand
  BY RowsAlike DEF RowsStand
<1> QED
  BY <1>1, <1>2, AsStutter

\* A row leaves.
LEMMA RowLeaves ==
  ASSUME NEW r \in Range(running), r \in Req, Range(running') = Range(running) \ {r},
         \A q \in Range(running) \ {r} : row'[q] = row[q], row[r].blocks # <<>>, row[r].blocks \in Seq(Block),
         ref' = refsFreed(row[r].blocks), UNCHANGED <<cell, store>>
  PROVE  Pages!Next
<1>1. tablesOf(running, row)[r] = Range(row[r].blocks)
  BY DEF tablesOf
<1>2. Range(row[r].blocks) # {}
  <2> DEFINE s == row[r].blocks
  <2>1. Range(s) = {s[i] : i \in 1 .. Len(s)} /\ s \in Seq(Block) /\ s # <<>>
    BY RangeOf
  <2> HIDE DEF s
  <2>2. 1 \in 1 .. Len(s)
    BY <2>1
  <2> QED
    BY <2>1, <2>2 DEF s
<1>3. /\ tablesOf(running', row') = [tablesOf(running, row) EXCEPT ![r] = {}]
      /\ sealedsOf(running', row') = [sealedsOf(running, row) EXCEPT ![r] = {}]
  BY DEF tablesOf, sealedsOf
<1>4. ref' = [b \in Block |-> IF b \in tablesOf(running, row)[r] THEN ref[b] - 1 ELSE ref[b]]
  BY <1>1 DEF refsFreed
<1>5. StoreStands
  BY DEF StoreStands
<1> QED
  BY <1>1, <1>2, <1>3, <1>4, <1>5, AsRelease

\* An entry leaves: what is stored under its tokens goes, if there was any.
LEMMA EntryLeaves ==
  ASSUME EngineInv, NEW k \in 1 .. Len(store), dropEntry(k), StoreRight(store'), UNCHANGED <<running, row, cell>>,
         \A e \in Range(store) : Range(e.blocks) # {} => e.tokens \in Keys
  PROVE  Pages!Next \/ UNCHANGED Pages!vars
<1> DEFINE e == store[k]
<1>1. StoreRight(store)
  BY DEF EngineInv, Pools, PoolsRight
<1>2. store' = RemoveAt(store, k) /\ ref' = refsFreed(e.blocks)
  BY DEF dropEntry
<1>3. e \in Range(store) /\ Range(store') = Range(store) \ {e}
  <2>1. store \in Seq(Entry) /\ IsInjective(store) /\ Range(store) = {store[i] : i \in 1 .. Len(store)}
    BY <1>1, EntriesOnce
  <2> QED
    BY <1>2, <2>1, RemovedOnce
<1> HIDE DEF e
<1>4. LET l == e.tokens
      IN  /\ pinsOf(store') = [pinsOf(store) EXCEPT ![l] = {}]
          /\ savesOf(store') = [savesOf(store) EXCEPT ![l] = [b \in Block |-> "none"]]
          /\ l \in Keys => pinsOf(store)[l] = Range(e.blocks)
          /\ pinsOf(store) = [pinsOf(store') EXCEPT ![l] = Range(e.blocks)]
          /\ savesOf(store) = [savesOf(store') EXCEPT ![l] = savesIn(e.blocks, l)]
          /\ l \in Keys => pinsOf(store')[l] = {}
  BY <1>1, <1>3, OneEntry
<1>5. RowsStand
  BY DEF RowsStand
<1>6. CASE Range(e.blocks) # {}
  <2>1. e.tokens \in Keys
    BY <1>3, <1>6
  <2>2. ref' = [b \in Block |-> IF b \in pinsOf(store)[e.tokens] THEN ref[b] - 1 ELSE ref[b]]
    BY <1>2, <1>4, <2>1 DEF refsFreed
  <2> QED
    BY <1>4, <1>5, <1>6, <2>1, <2>2, AsDrop
<1>7. CASE Range(e.blocks) = {}
  <2>1. ref' = ref
    <3>1. ref \in [Block -> Nat]
      BY DEF EngineInv, TypeOK
    <3> QED
      BY <1>2, <1>7, <3>1 DEF refsFreed
  <2>2. pinsOf(store') = pinsOf(store)
    <3>1. \A s : pinsOf(s) \in [Keys -> SUBSET UNION {Range(blocksIn(s, x)) : x \in Keys}]
      BY DEF pinsOf
    <3> QED
      BY <1>4, <1>7, <3>1
  <2>3. savesOf(store') = savesOf(store)
    <3>1. savesIn(e.blocks, e.tokens) = [b \in Block |-> "none"]
      BY <1>7 DEF savesIn
    <3>2. DOMAIN savesOf(store) = Keys /\ DOMAIN savesOf(store') = Keys
      BY DEF savesOf
    <3>3. \A x \in Keys : savesOf(store')[x] = savesOf(store)[x]
      BY <1>4, <3>1, <3>2
    <3> QED
      BY <3>2, <3>3 DEF savesOf
  <2>4. StoreStands
    BY <2>2, <2>3 DEF StoreStands
  <2> QED
    BY <1>5, <2>1, <2>4, AsStutter
<1> QED
  BY <1>6, <1>7

-----------------------------------------------------------------------------
(* Each action of the engine is such a step *)

\* The keys of the mapping are all the whole-block texts the pool has blocks for.  Keys
\* is no parameter of the engine: a mapping with fewer keys has no place for an entry.
KeysCover == \A n \in 1 .. NumBlocks : [1 .. n * BlockTokens -> Tokens] \subseteq Keys

\* No sequence of different blocks is longer than the pool.
LEMMA FewBlocks ==
  ASSUME NEW s \in Seq(Block), IsInjective(s)
  PROVE  Len(s) \in 0 .. NumBlocks
<1>1. s \in [1 .. Len(s) -> Block] /\ Len(s) \in Nat /\ NumBlocks \in Nat
  BY LenProperties, PoolAssumption
<1>2. \A i, j \in 1 .. Len(s) : s[i] = s[j] => i = j
  BY RangeOf
<1>3. s \in Injection(1 .. Len(s), Block)
  BY <1>1, <1>2 DEF Injection, IsInjective
<1>4. /\ IsFiniteSet(Block) /\ Cardinality(Block) = NumBlocks
      /\ Cardinality(1 .. Len(s)) = Len(s)
  <2>1. \A n \in Nat : IsFiniteSet(1 .. n) /\ Cardinality(1 .. n) = n
    BY FS_Interval
  <2> QED
    BY <1>1, <2>1 DEF Block
<1>5. Cardinality(1 .. Len(s)) <= Cardinality(Block)
  BY <1>3, <1>4, FS_Injection
<1> QED
  BY <1>1, <1>4, <1>5

\* An entry that holds blocks is stored under one of the keys.
LEMMA EntryHasKey ==
  ASSUME KeysCover, EngineInv, NEW e \in Range(store), Range(e.blocks) # {}
  PROVE  e.tokens \in Keys
<1>1. e.tokens \in Seq(Tokens) /\ e.blocks \in Seq(Block) /\ IsInjective(e.blocks) /\ Len(e.blocks) * BlockTokens = Len(e.tokens)
  BY EntriesOnce DEF EngineInv, Pools, PoolsRight
<1>2. Len(e.blocks) \in 0 .. NumBlocks
  BY <1>1, FewBlocks
<1>3. Len(e.blocks) # 0
  BY <1>1, RangeOf
<1>4. Len(e.blocks) \in 1 .. NumBlocks
  BY <1>2, <1>3
<1> QED
  BY <1>1, <1>4, LenProperties DEF KeysCover

\* A live row has blocks, and has them for all that is behind it.
LEMMA LiveHeld ==
  ASSUME NEW r \in Req, NEW rw \in RowType, NEW C, NEW ops, LiveRight(rw, r, C, ops)
  PROVE  behind(rw) \in Nat /\ behind(rw) <= held(rw) /\ rw.blocks # <<>> /\ rw.blocks \in Seq(Block)
<1>1. rw.blocks \in Seq(Block) /\ rw.seqLen \in Nat /\ rw.prefillFrom \in Nat /\ Len(rw.blocks) \in Nat
  BY LenProperties DEF RowType
<1>2. promptLen(r) \in Nat \ {0}
  BY TokensAre
<1>3. held(rw) \in Nat
  BY <1>1, PoolAssumption DEF held
<1>4. rw.phase \in {"prefill", "decode"} /\ rw.prefillFrom <= promptLen(r)
      /\ (rw.phase = "prefill" => PrefillRight(rw, r, ops)) /\ (rw.phase = "decode" => DecodeRight(rw, r, ops))
  BY DEF LiveRight
<1>5. behind(rw) \in Nat /\ behind(rw) <= held(rw) /\ held(rw) > 0
  <2>1. CASE rw.phase = "prefill"
    <3>1. promptLen(r) <= held(rw)
      BY <1>4, <2>1 DEF PrefillRight
    <3> QED
      BY <1>1, <1>2, <1>3, <1>4, <2>1, <3>1 DEF behind
  <2>2. CASE rw.phase = "decode"
    <3>1. promptLen(r) < rw.seqLen /\ rw.seqLen - 1 <= held(rw)
      BY <1>4, <2>2 DEF DecodeRight
    <3> QED
      BY <1>1, <1>2, <1>3, <2>2, <3>1 DEF behind
  <2> QED
    BY <1>4, <2>1, <2>2
<1>6. rw.blocks # <<>>
  <2>1. ASSUME Len(rw.blocks) = 0 PROVE FALSE
    <3>1. held(rw) = 0
      BY <2>1, PoolAssumption DEF held
    <3> QED
      BY <1>5, <3>1
  <2> QED
    BY <2>1
<1> QED
  BY <1>1, <1>5, <1>6

\* The rows that run, after the step too.
LEMMA RunningHeld ==
  EngineInv => \A r \in Range(running) : /\ r \in Req /\ behind(row[r]) \in Nat /\ behind(row[r]) <= held(row[r])
                                         /\ row[r].blocks # <<>> /\ row[r].blocks \in Seq(Block)
<1> SUFFICES ASSUME EngineInv, NEW r \in Range(running)
             PROVE  /\ r \in Req /\ behind(row[r]) \in Nat /\ behind(row[r]) <= held(row[r])
                    /\ row[r].blocks # <<>> /\ row[r].blocks \in Seq(Block)
  OBVIOUS
<1>1. r \in Req /\ row[r] \in RowType /\ LiveRight(row[r], r, callsFor(agenda, r), opsFor(agenda, r))
  BY RunningRow
<1> QED
  BY <1>1, LiveHeld

\* The calls that change no row that runs and no entry, and write nothing.
LEMMA QuietRefines ==
  ASSUME EngineInv, StoreRight(store'), UNCHANGED <<cell, ref, running>>, Range(store') = Range(store),
         \A r \in Range(running) : row'[r] = row[r]
  PROVE  UNCHANGED Pages!vars
<1>1. StoreRight(store)
  BY DEF EngineInv, Pools, PoolsRight
<1> QED
  BY <1>1, NothingSeen

\* A row that finishes, or is cancelled, gives its blocks back.
LEMMA LeaveRefines ==
  ASSUME EngineInv, NEW r \in Range(running), Range(running') = Range(running) \ {r},
         \A q \in Req \ {r} : row'[q] = row[q], ref' = refsFreed(row[r].blocks), UNCHANGED <<cell, store>>
  PROVE  Pages!Next
<1>1. \A q \in Range(running) : q \in Req /\ row[q].blocks # <<>> /\ row[q].blocks \in Seq(Block)
  BY RunningHeld
<1>2. \A q \in Range(running) \ {r} : row'[q] = row[q]
  BY <1>1
<1> QED
  BY <1>1, <1>2, RowLeaves

\* The same of finish, whatever it answers.
LEMMA FinishRefines ==
  ASSUME EngineInv, NEW r \in Range(running), NEW answer \in {"finished", "failed"}, finish(r, answer),
         UNCHANGED <<cell, store>>
  PROVE  Pages!Next
<1>1. Range(running') = Range(running) \ {r} /\ \A q \in Req \ {r} : row'[q] = row[q]
  BY FinishedRow
<1>2. ref' = refsFreed(row[r].blocks)
  BY DEF finish, release
<1> QED
  BY <1>1, <1>2, LeaveRefines

\* A client's call.
LEMMA ClientRefines == ASSUME EngineInv, Client PROVE Pages!Next \/ UNCHANGED Pages!vars
<1>1. PICK r \in Req : Submit(r) \/ Take(r) \/ CancelWaiting(r) \/ CancelRunning(r)
  BY DEF Client
<1>2. UNCHANGED <<cell, store>> /\ StoreRight(store) /\ row \in [Req -> RowType] /\ running \in Seq(Req)
  <2>1. StoreRight(store) /\ row \in [Req -> RowType] /\ running \in Seq(Req)
    BY DEF EngineInv, Pools, PoolsRight, TypeOK
  <2>2. UNCHANGED <<cell, store>>
    BY <1>1 DEF Submit, Take, CancelWaiting, CancelRunning
  <2> QED
    BY <2>1, <2>2
<1>3. CASE Submit(r) \/ Take(r) \/ CancelWaiting(r)
  <2>1. UNCHANGED <<ref, running>>
    BY <1>3 DEF Submit, Take, CancelWaiting
  <2>2. Submit(r) \/ CancelWaiting(r) => r \notin Range(running)
    <3>1. ASSUME r \in Range(running) PROVE row[r].phase \in {"prefill", "decode"} /\ ~ Queued(r)
      BY <3>1, RunningRow
    <3> QED
      BY <3>1 DEF Submit, CancelWaiting, Queued
  <2>3. \A q \in Range(running) : q \in Req
    BY RunningRow
  <2>4. \A q \in Range(running) : row'[q] = row[q]
    BY <1>2, <1>3, <2>2, <2>3 DEF Submit, Take, CancelWaiting
  <2> QED
    BY <1>2, <2>1, <2>4, QuietRefines
<1>4. CASE CancelRunning(r)
  <2>1. r \in Range(running) /\ running' = RemoveFirst(running, r) /\ ref' = refsFreed(row[r].blocks)
        /\ \A q \in Req \ {r} : row'[q] = row[q]
    BY <1>2, <1>4 DEF CancelRunning
  <2>2. IsInjective(running)
    BY DEF EngineInv, Pools, PoolsRight, Queue
  <2>3. Range(running') = Range(running) \ {r}
    BY <1>2, <2>1, <2>2, RemovedFirst
  <2> QED
    BY <1>2, <2>1, <2>3, LeaveRefines
<1> QED
  BY <1>1, <1>3, <1>4

\* A lookup reorders the entries, which KvPages does not see.
LEMMA LookupRefines ==
  ASSUME EngineInv, AdmitHead \/ Readmit
  PROVE  UNCHANGED Pages!vars
<1>1. UNCHANGED <<cell, ref, running, row>> /\ store' = touched(row[Head(waiting)].tokens)
  BY DEF AdmitHead, Readmit
<1>2. waiting # <<>>
  <2>1. CASE AdmitHead
    BY <2>1 DEF AdmitHead, roomForOne
  <2>2. CASE Readmit
    <3>1. Head(agenda) \in Range(agenda) /\ Head(agenda).op = "readmit"
      BY <2>2, Doing DEF Readmit, call, doing
    <3> QED
      BY <3>1 DEF EngineInv, Admission, roomForOne
  <2> QED
    BY <2>1, <2>2
<1>3. StoreRight(store) /\ row[Head(waiting)].tokens \in Seq(Tokens)
  BY <1>2, WaitingHead
<1>4. StoreRight(store') /\ Range(store') = Range(store)
  BY <1>1, <1>3, TouchedStore
<1> QED
  BY <1>1, <1>4, QuietRefines

\* Nor do the calls that plan, sample, end a reply at its stop token, or end the tick.
LEMMA PlanRefines ==
  ASSUME EngineInv,
         StepBegin \/ AdmitNone \/ EvictEnough \/ FormBatch \/ ForwardRaises \/ Sample \/ CommitStop \/ StepEnd \/ LoopIdle
  PROVE  UNCHANGED Pages!vars
<1>1. UNCHANGED <<cell, ref, running, store>>
  BY DEF StepBegin, AdmitNone, EvictEnough, FormBatch, ForwardRaises, Sample, CommitStop, StepEnd, LoopIdle, vars
<1>2. \A r \in Range(running) : r \in Req /\ row[r].phase \in {"prefill", "decode"}
  BY RunningRow
<1>3. \A r \in Range(running) : row'[r] = row[r]
  <2>1. CASE StepEnd
    BY <1>2, <2>1 DEF StepEnd
  <2>2. CASE ~ StepEnd
    BY <2>2 DEF StepBegin, AdmitNone, EvictEnough, FormBatch, ForwardRaises, Sample, CommitStop, LoopIdle, vars
  <2> QED
    BY <2>1, <2>2
<1>4. StoreRight(store)
  BY DEF EngineInv, Pools, PoolsRight
<1> QED
  BY <1>1, <1>3, <1>4, QuietRefines

\* A row that ends its reply, or fails with a forward, releases its blocks.
LEMMA LeaversRefine ==
  ASSUME EngineInv, Finish \/ FailAll
  PROVE  Pages!Next \/ UNCHANGED Pages!vars
<1>1. UNCHANGED <<cell, store>> /\ StoreRight(store)
  <2>1. StoreRight(store)
    BY DEF EngineInv, Pools, PoolsRight
  <2> QED
    BY <2>1 DEF Finish, FailAll
<1>2. CASE Finish
  <2>1. doing("finish") /\ finish(call.r, "finished")
    BY <1>2 DEF Finish
  <2>2. call.r \in Range(running)
    BY <2>1, CallOfLive DEF RowOps, Live
  <2> QED
    BY <1>1, <2>1, <2>2, FinishRefines
<1>3. CASE FailAll /\ running = <<>>
  <2>1. UNCHANGED <<running, row, ref>>
    BY <1>3 DEF FailAll
  <2> QED
    BY <1>1, <2>1, QuietRefines
<1>4. CASE FailAll /\ running # <<>>
  <2>1. finish(Head(running), "failed")
    BY <1>4 DEF FailAll
  <2>2. Head(running) \in Range(running)
    <3>1. running \in Seq(Req)
      BY DEF EngineInv, TypeOK
    <3> QED
      BY <1>4, <3>1, TailOf
  <2> QED
    BY <1>1, <2>1, <2>2, FinishRefines
<1> QED
  BY <1>2, <1>3, <1>4

\* An entry goes, or none.
LEMMA EntriesRefine ==
  ASSUME KeysCover, EngineInv, StoreRight(store'), EvictOne \/ Trim \/ Retire
  PROVE  Pages!Next \/ UNCHANGED Pages!vars
<1>1. UNCHANGED <<cell, running, row>>
  BY DEF EvictOne, Trim, Retire
<1>2. store \in Seq(Entry) /\ Capacity \in Nat /\ StoreRight(store)
  BY PoolAssumption DEF EngineInv, Pools, PoolsRight, StoreRight
<1>3. UNCHANGED <<store, ref>> \/ \E k \in 1 .. Len(store) : dropEntry(k)
  <2>1. store # <<>> => 1 \in 1 .. Len(store)
    BY <1>2
  <2>2. Len(store) > Capacity => 1 \in 1 .. Len(store)
    BY <1>2
  <2>3. \A key : stored(key) => indexOf(key) \in 1 .. Len(store)
    BY <1>2 DEF stored, indexOf
  <2> QED
    BY <2>1, <2>2, <2>3 DEF EvictOne, Trim, Retire
<1>4. \A e \in Range(store) : Range(e.blocks) # {} => e.tokens \in Keys
  BY EntryHasKey
<1>5. CASE UNCHANGED <<store, ref>>
  BY <1>1, <1>2, <1>5, QuietRefines
<1>6. ASSUME NEW k \in 1 .. Len(store), dropEntry(k) PROVE Pages!Next \/ UNCHANGED Pages!vars
  BY <1>1, <1>4, <1>6, EntryLeaves
<1> QED
  BY <1>3, <1>5, <1>6

\* Whole blocks of what is held are among those held.
LEMMA WholeBlocks ==
  ASSUME NEW n \in Nat, NEW m \in Nat, n <= m * BlockTokens
  PROVE  n \div BlockTokens \in 0 .. m
<1> DEFINE B == BlockTokens
           x == n \div B
<1>1. B \in Nat \ {0}
  BY PoolAssumption
<1> HIDE DEF B
<1>2. x \in Nat /\ x * B <= n
  <2>1. n \in Int
    OBVIOUS
  <2> QED
    BY ONLY Multiples, <1>1, <2>1, n \in Nat
<1> HIDE DEF x
<1>3. x <= m
  <2> SUFFICES ASSUME m + 1 <= x PROVE FALSE
    BY <1>2
  <2>1. (m + 1) * B <= x * B
    BY <1>1, <1>2, TimesMore
  <2>2. (m + 1) * B = m * B + B /\ m * B \in Nat /\ n <= m * B
    BY <1>1 DEF B
  <2> QED
    BY <1>1, <1>2, <2>1, <2>2
<1> QED
  BY <1>2, <1>3 DEF x, B

\* What RunningHeld says.
RunningIsHeld ==
  \A r \in Range(running) : /\ r \in Req /\ behind(row[r]) \in Nat /\ behind(row[r]) <= held(row[r])
                            /\ row[r].blocks # <<>> /\ row[r].blocks \in Seq(Block)

\* The same rows, the step after.
LEMMA RunningHeldNext ==
  EngineInv' => \A r \in Range(running') : /\ r \in Req /\ behind(row'[r]) \in Nat /\ behind(row'[r]) <= held(row'[r])
                                           /\ row'[r].blocks # <<>> /\ row'[r].blocks \in Seq(Block)
<1>1. EngineInv => RunningIsHeld
  BY RunningHeld DEF RunningIsHeld
<1>2. EngineInv' => RunningIsHeld'
  BY <1>1, PTL
<1> QED
  BY <1>2 DEF RunningIsHeld, behind, held

\* A row gets further, and the blocks it is past are sealed.
LEMMA SealRefines ==
  ASSUME EngineInv, EngineInv', NEW r \in Range(running), \A q \in Req \ {r} : row'[q] = row[q],
         row'[r].blocks = row[r].blocks, behind(row[r]) <= behind(row'[r]), UNCHANGED <<running, cell, ref, store>>
  PROVE  Pages!Next
<1> DEFINE bs == row[r].blocks
           m == behind(row[r]) \div BlockTokens
           n == behind(row'[r]) \div BlockTokens
           whole == {bs[i] : i \in 1 .. n}
<1>1. /\ r \in Req /\ behind(row[r]) \in Nat /\ bs \in Seq(Block) /\ behind(row'[r]) \in Nat
      /\ behind(row'[r]) <= Len(bs) * BlockTokens
  BY RunningHeld, RunningHeldNext DEF held
<1>2. Len(bs) \in Nat /\ BlockTokens \in Nat \ {0}
  BY <1>1, PoolAssumption
<1>3. n \in 0 .. Len(bs) /\ m \in Nat /\ m <= n
  <2> DEFINE a == behind(row[r])
             z == behind(row'[r])
             l == Len(bs)
  <2>1. a \in Nat /\ z \in Nat /\ a <= z /\ l \in Nat /\ z <= l * BlockTokens
    BY <1>1, <1>2
  <2> HIDE DEF a, z, l
  <2>2. z \div BlockTokens \in 0 .. l
    BY <2>1, WholeBlocks
  <2> DEFINE y == z \div BlockTokens
             x == a \div BlockTokens
  <2>3. y \in Nat /\ z < y * BlockTokens + BlockTokens /\ x \in Nat /\ x * BlockTokens <= a
    <3>1. z \in Int /\ a \in Int
      BY <2>1
    <3> QED
      BY ONLY Multiples, <1>2, <2>1, <3>1
  <2> HIDE DEF x, y
  <2>4. x <= y
    <3> SUFFICES ASSUME y + 1 <= x PROVE FALSE
      BY <2>3
    <3>1. (y + 1) * BlockTokens <= x * BlockTokens
      BY <1>2, <2>3, TimesMore
    <3>2. (y + 1) * BlockTokens = y * BlockTokens + BlockTokens /\ y * BlockTokens \in Nat /\ x * BlockTokens \in Nat
      BY <1>2, <2>3
    <3> QED
      BY <1>2, <2>1, <2>3, <3>1, <3>2
  <2> QED
    BY <2>2, <2>3, <2>4 DEF x, y, a, z, l
<1> HIDE DEF m, n
<1>4. tablesOf(running', row') = tablesOf(running, row)
  BY DEF tablesOf
<1>5. whole \in SUBSET tablesOf(running, row)[r]
  <2>1. tablesOf(running, row)[r] = Range(bs)
    BY <1>1 DEF tablesOf
  <2>2. Range(bs) = {bs[i] : i \in 1 .. Len(bs)}
    BY <1>1, RangeOf
  <2> QED
    BY <1>3, <2>1, <2>2
<1>6. sealedsOf(running', row') = [sealedsOf(running, row) EXCEPT ![r] = @ \cup whole]
  <2>1. sealedsOf(running, row)[r] = {bs[i] : i \in 1 .. m} /\ sealedsOf(running', row')[r] = whole
    BY <1>1 DEF sealedsOf, m, n
  <2>2. {bs[i] : i \in 1 .. m} \subseteq whole
    BY <1>3
  <2>3. \A q \in Req \ {r} : sealedsOf(running', row')[q] = sealedsOf(running, row)[q]
    BY DEF sealedsOf
  <2>4. \A rn, rw : sealedsOf(rn, rw) = [q \in Req |-> sealedsOf(rn, rw)[q]]
    BY DEF sealedsOf
  <2> HIDE DEF whole
  <2>5. sealedsOf(running, row)[r] \cup whole = sealedsOf(running', row')[r]
    BY <2>1, <2>2
  <2>6. \A rn, rw : DOMAIN sealedsOf(rn, rw) = Req
    BY DEF sealedsOf
  <2> DEFINE f == sealedsOf(running, row)
             g == sealedsOf(running', row')
  <2>7. f = [q \in Req |-> f[q]] /\ g = [q \in Req |-> g[q]] /\ g[r] = f[r] \cup whole /\ \A q \in Req \ {r} : g[q] = f[q]
    BY <2>3, <2>4, <2>5
  <2> HIDE DEF f, g
  <2>8. g = [f EXCEPT ![r] = @ \cup whole]
    BY <2>7
  <2> QED
    BY <2>8 DEF f, g
<1>7. StoreStands
  BY DEF StoreStands
<1> QED
  BY <1>1, <1>4, <1>5, <1>6, <1>7, AsSeal

\* A token is committed: the row is one position further.
LEMMA CommitRefines == ASSUME EngineInv, EngineInv', CommitToken PROVE Pages!Next
<1>1. doing("commit") /\ "commit" \in RowOps \ {"grow"}
  BY DEF CommitToken, RowOps
<1>2. PICK r \in Req : r = call.r
  BY <1>1, CallOfLive
<1> DEFINE rw == row[r]
<1>3. r \in Range(running)
  BY <1>1, <1>2, OnlyComplete
<1>4. PICK tok, closed, s : Kept(r, entryOf(r, row[r], state[row[r].slot]), tok, closed, s)
  BY <1>2, <1>3, CommittedIs
<1>5. row' = [row EXCEPT ![r] = keeping(rw, tok, closed)]
  BY <1>4 DEF Kept
<1>6. row \in [Req -> RowType] /\ rw \in RowType /\ rw.seqLen \in Nat /\ rw.prefillFrom \in Nat
  BY <1>3, RunningRow
<1> HIDE DEF rw
<1>7. row'[r] = keeping(rw, tok, closed) /\ \A q \in Req \ {r} : row'[q] = row[q]
  BY <1>5, <1>6
<1>8. /\ row'[r].seqLen = rw.seqLen + 1 /\ row'[r].phase = rw.phase /\ row'[r].prefillFrom = rw.prefillFrom
      /\ row'[r].blocks = rw.blocks
  BY <1>6, <1>7 DEF RowType, keeping
<1>9. behind(rw) <= behind(row'[r])
  BY <1>6, <1>8 DEF behind
<1>10. UNCHANGED <<running, cell, ref, store>>
  BY DEF CommitToken
<1> QED
  BY <1>3, <1>7, <1>8, <1>9, <1>10, SealRefines DEF rw

\* A row moves past its chunk.
LEMMA AdvanceRefines == ASSUME EngineInv, EngineInv', Advance PROVE Pages!Next
<1>1. doing("advance") /\ "advance" \in RowOps \ {"grow"} /\ "advance" # "complete"
  BY DEF Advance, RowOps
<1>2. PICK r \in Req : r = call.r
  BY <1>1, CallOfLive
<1> DEFINE rw == row[r]
           ops == opsFor(agenda, r)
           to == rw.prefillFrom + call.count
<1>3. r \in Range(running) /\ "advance" \in ops
  <2>1. Live(r) /\ ops = opsFor(Tail(agenda), r) \cup {"advance"}
    BY <1>1, <1>2, CallOfLive
  <2> HIDE DEF ops
  <2> QED
    BY <2>1 DEF Live
<1>4. /\ row \in [Req -> RowType] /\ rw \in RowType /\ rw.prefillFrom \in Nat
      /\ rw.phase \in {"prefill", "decode"} /\ LiveRight(rw, r, callsFor(agenda, r), ops)
  BY <1>3, RunningRow
<1>5. rw.phase = "prefill" /\ call.count \in Nat \ {0}
  <2>1. ~ DecodeRight(rw, r, ops)
    BY <1>3 DEF DecodeRight
  <2>2. CallType(call) /\ call.op = "advance"
    BY <1>1, Doing DEF doing, call
  <2>3. call.count \in Nat \ {0}
    BY <2>2 DEF CallType
  <2> HIDE DEF rw, ops
  <2> QED
    BY <1>4, <2>1, <2>3 DEF LiveRight
<1> HIDE DEF to
<1>6. UNCHANGED <<running, cell, ref, store>>
  BY DEF Advance
<1>7. \E count, pending : row' = [row EXCEPT ![r] = [rw EXCEPT !.prefillFrom = to, !.seqLen = to, !.interior = count, !.pending = pending]]
  <2>1. PICK i, l, snap : row' = [row EXCEPT ![r].prefillFrom = to, ![r].seqLen = to,
                                             ![r].interior = IF i THEN @ + 1 ELSE @, ![r].pending = IF l THEN snap ELSE @]
    BY <1>2 DEF Advance, to
  <2> DEFINE count == IF i THEN rw.interior + 1 ELSE rw.interior
             pending == IF l THEN snap ELSE rw.pending
  <2>2. row' = [row EXCEPT ![r] = [rw EXCEPT !.prefillFrom = to, !.seqLen = to, !.interior = count, !.pending = pending]]
    BY <1>4, <2>1
  <2> HIDE DEF count, pending
  <2> QED
    BY <2>2
<1>8. PICK count, pending : row' = [row EXCEPT ![r] = [rw EXCEPT !.prefillFrom = to, !.seqLen = to, !.interior = count, !.pending = pending]]
  BY <1>7
<1> HIDE DEF rw
<1>9. row'[r] = [rw EXCEPT !.prefillFrom = to, !.seqLen = to, !.interior = count, !.pending = pending]
      /\ \A q \in Req \ {r} : row'[q] = row[q]
  BY <1>4, <1>8
<1>10. row'[r].phase = rw.phase /\ row'[r].prefillFrom = to /\ row'[r].blocks = rw.blocks
  BY <1>4, <1>9 DEF RowType
<1>11. behind(rw) <= behind(row'[r])
  BY <1>4, <1>5, <1>10 DEF behind, to
<1> QED
  BY <1>3, <1>6, <1>9, <1>10, <1>11, SealRefines DEF rw

\* The prompt is done: the row is as far as it was.
LEMMA CompleteRefines == ASSUME EngineInv, EngineInv', Complete PROVE Pages!Next \/ UNCHANGED Pages!vars
<1>1. doing("complete") /\ "complete" \in RowOps \ {"grow"}
  BY DEF Complete, RowOps
<1>2. PICK r \in Req : r = call.r
  BY <1>1, CallOfLive
<1> DEFINE rw == row[r]
           ops == opsFor(agenda, r)
<1>3. UNCHANGED <<running, cell, ref, store>> /\ StoreRight(store)
  BY DEF Complete, EngineInv, Pools, PoolsRight
<1>4. CASE r \notin Range(running)
  <2>1. rw.phase = "done"
    <3>1. RowRight(r, rw, callsFor(agenda, r), Live(r), Queued(r), result[r])
      BY RowKnown
    <3>2. callsFor(agenda, r) # {} /\ ~ Live(r)
      <4>1. call \in Range(agenda) /\ forRow(call, r)
        BY <1>1, <1>2, Doing DEF forRow, doing, call
      <4> QED
        BY <1>4, <4>1 DEF callsFor, Live
    <3> HIDE DEF rw
    <3> QED
      BY <3>1, <3>2 DEF RowRight
  <2>2. UNCHANGED row
    BY <1>2, <2>1 DEF Complete
  <2> QED
    BY <1>3, <2>2, QuietRefines
<1>5. CASE r \in Range(running)
  <2>1. ops = {"complete"}
    <3>1. /\ ops = opsFor(Tail(agenda), r) \cup {"complete"}
          /\ \A o \in opsFor(Tail(agenda), r) : o \in RowOps /\ turn("complete") < turn(o)
      BY <1>1, <1>2, CallOfLive
    <3>2. opsFor(Tail(agenda), r) = {}
      BY <3>1 DEF turn, RowOps
    <3> HIDE DEF ops
    <3> QED
      BY <3>1, <3>2
  <2>2. /\ row \in [Req -> RowType] /\ rw \in RowType /\ rw.tokens \in Seq(Tokens) /\ rw.prefillFrom \in Nat
        /\ rw.seqLen \in Nat /\ promptLen(r) \in Nat /\ rw.phase \in {"prefill", "decode"}
        /\ LiveRight(rw, r, callsFor(agenda, r), ops)
    BY <1>5, RunningRow
  <2>3. rw.phase = "prefill" /\ rw.seqLen - 1 = rw.prefillFrom
    <3> DEFINE n == promptLen(r)
    <3> HIDE DEF rw, n
    <3>1. ~ DecodeRight(rw, r, ops)
      BY <2>1 DEF DecodeRight
    <3>2. rw.phase = "prefill" /\ PrefillRight(rw, r, ops)
      BY <2>2, <3>1 DEF LiveRight
    <3>3. rw.prefillFrom = n /\ Len(rw.tokens) > n /\ Len(rw.tokens) \in {n, n + 1}
          /\ rw.seqLen = rw.prefillFrom + Len(rw.tokens) - n
      BY <2>1, <3>2 DEF PrefillRight, n
    <3>4. Len(rw.tokens) \in Nat /\ n \in Nat
      BY <2>2 DEF n
    <3> QED
      BY <2>2, <3>2, <3>3, <3>4
  <2>4. row' = [row EXCEPT ![r] = [rw EXCEPT !.phase = "decode", !.pending = NoSnapshot]]
    <3>1. rw.phase # "done"
      BY <2>3
    <3>2. row' = [row EXCEPT ![r].phase = "decode", ![r].pending = NoSnapshot]
      BY <1>2, <3>1 DEF Complete
    <3> QED
      BY <2>2, <3>2
  <2> HIDE DEF rw
  <2>5. row'[r] = [rw EXCEPT !.phase = "decode", !.pending = NoSnapshot] /\ \A q \in Req \ {r} : row'[q] = row[q]
    BY <2>2, <2>4
  <2>6. row'[r].phase = "decode" /\ row'[r].seqLen = rw.seqLen /\ row'[r].blocks = rw.blocks
    BY <2>2, <2>5 DEF RowType
  <2>7. behind(row'[r]) = behind(rw)
    BY <2>2, <2>3, <2>6 DEF behind
  <2>8. behind(rw) <= behind(row'[r])
    BY <2>2, <2>3, <2>7 DEF behind
  <2> QED
    BY <1>3, <1>5, <2>5, <2>6, <2>8, SealRefines DEF rw
<1> QED
  BY <1>4, <1>5

\* A decoding row takes its blocks, or fails alone.
LEMMA GrowRefines == ASSUME EngineInv, Grow PROVE Pages!Next
<1>1. doing("grow") /\ "grow" \in RowOps /\ call.q = 1
  <2>1. doing("grow") /\ "grow" \in RowOps /\ agenda # <<>> /\ Head(agenda).op = "grow"
    BY DEF Grow, RowOps, doing
  <2> QED
    BY <2>1, Doing DEF call, CallType
<1>2. PICK r \in Req : r = call.r
  BY <1>1, CallOfLive
<1> DEFINE rw == row[r]
           need == decodeExtraBlocks(rw.seqLen, 1, Len(rw.blocks))
<1>3. r \in Range(running)
  BY <1>1, <1>2, CallOfLive DEF Live
<1>4. UNCHANGED <<cell, store>>
  BY DEF Grow
<1>5. CASE need > Len(free)
  <2>1. finish(r, "failed")
    BY <1>1, <1>2, <1>5 DEF Grow
  <2> QED
    BY <1>3, <1>4, <2>1, FinishRefines
<1>6. CASE ~ (need > Len(free))
  <2> DEFINE new == freshOf(free, need)
             bs == rw.blocks \o new
             rx == [rw EXCEPT !.blocks = bs, !.own = @ + need]
  <2>1. /\ row \in [Req -> RowType] /\ rw \in RowType /\ rw.blocks \in Seq(Block) /\ rw.seqLen \in Nat
        /\ rw.blocks # <<>> /\ behind(rw) \in Nat /\ behind(rw) <= Len(rw.blocks) * BlockTokens
    BY <1>3, RunningRow, RunningHeld DEF held
  <2>2. row' = [row EXCEPT ![r] = rx] /\ ref' = refsTaken(new, <<>>) /\ UNCHANGED running
    <3>1. /\ row' = [row EXCEPT ![r].blocks = @ \o fresh(need), ![r].own = @ + need]
          /\ ref' = refsTaken(fresh(need), <<>>) /\ UNCHANGED running
      BY <1>1, <1>2, <1>6 DEF Grow
    <3>2. fresh(need) = new
      BY DEF fresh, freshOf
    <3> HIDE DEF new, need
    <3>3. row' = [row EXCEPT ![r].blocks = @ \o new, ![r].own = @ + need]
      BY <3>1, <3>2
    <3> QED
      BY <2>1, <3>1, <3>2, <3>3
  <2>3. new \in Seq(Block) /\ \A b \in Range(new) : b \in Block /\ ref[b] = 0
    <3>1. FreeRight(free, ref) /\ free \in Seq(Block)
      BY DEF EngineInv, Pools, PoolsRight, FreeRight
    <3>2. need \in Nat
      <4>1. rw.seqLen \in Nat /\ Len(rw.blocks) \in Nat
        BY <2>1
      <4> QED
        BY <4>1, RoomFor
    <3>3. \A b \in Range(<<>>) : b \in Block /\ ref[b] > 0
      BY DEF Range
    <3> HIDE DEF need
    <3>4. need \in 0 .. Len(free)
      BY <1>6, <3>1, <3>2
    <3>5. new \in Seq(Block) /\ Range(new) \subseteq Range(free)
      BY <3>1, <3>3, <3>4, FreshBlocks
    <3> QED
      BY <3>1, <3>5 DEF FreeRight
  <2> HIDE DEF new, need, rw
  <2>4. row'[r] = rx /\ \A q \in Req \ {r} : row'[q] = row[q]
    BY <2>1, <2>2
  <2>5. row'[r].blocks = bs /\ behind(row'[r]) = behind(rw)
    BY <2>1, <2>4 DEF RowType, behind
  <2>6. /\ Range(bs) = Range(rw.blocks) \cup Range(new) /\ \A i \in 1 .. Len(rw.blocks) : bs[i] = rw.blocks[i]
        /\ Range(rw.blocks) # {}
    <3>1. Range(bs) = Range(rw.blocks) \cup Range(new)
      BY <2>1, <2>3, JoinedOnce
    <3>2. \A i \in 1 .. Len(rw.blocks) : bs[i] = rw.blocks[i]
      BY <2>1, <2>3
    <3>3. Range(rw.blocks) # {}
      <4> DEFINE old == rw.blocks
      <4>1. old \in Seq(Block) /\ old # <<>>
        BY <2>1
      <4> HIDE DEF old
      <4>2. 1 \in 1 .. Len(old) /\ Range(old) = {old[i] : i \in 1 .. Len(old)}
        BY <4>1, RangeOf
      <4> QED
        BY <4>2 DEF old
    <3> QED
      BY <3>1, <3>2, <3>3
  <2>7. behind(rw) \div BlockTokens \in 0 .. Len(rw.blocks)
    <3> DEFINE a == behind(rw)
               l == Len(rw.blocks)
    <3>1. a \in Nat /\ l \in Nat /\ a <= l * BlockTokens
      BY <2>1
    <3> HIDE DEF a, l
    <3>2. a \div BlockTokens \in 0 .. l
      BY <3>1, WholeBlocks
    <3> QED
      BY <3>2 DEF a, l
  <2> HIDE DEF bs
  <2>8. tablesOf(running', row') = [tablesOf(running, row) EXCEPT ![r] = @ \cup Range(new)]
    <3> DEFINE f == tablesOf(running, row)
               g == tablesOf(running', row')
    <3>1. f = [q \in Req |-> f[q]] /\ g = [q \in Req |-> g[q]]
      BY DEF tablesOf
    <3>2. g[r] = f[r] \cup Range(new) /\ \A q \in Req \ {r} : g[q] = f[q]
      BY <1>3, <2>2, <2>4, <2>5, <2>6 DEF tablesOf, rw
    <3> HIDE DEF f, g
    <3>3. g = [f EXCEPT ![r] = @ \cup Range(new)]
      BY <3>1, <3>2
    <3> QED
      BY <3>3 DEF f, g
  <2>9. sealedsOf(running', row') = sealedsOf(running, row)
    <3> DEFINE n == behind(rw) \div BlockTokens
    <3>1. {row'[r].blocks[i] : i \in 1 .. n} = {rw.blocks[i] : i \in 1 .. n}
      <4>1. \A i \in 1 .. n : i \in 1 .. Len(rw.blocks)
        BY <2>7, <2>1
      <4>2. \A i \in 1 .. n : row'[r].blocks[i] = rw.blocks[i]
        BY <2>5, <2>6, <4>1
      <4> HIDE DEF n
      <4> QED
        BY <4>2
    <3>2. behind(row'[r]) \div BlockTokens = n
      BY <2>5
    <3> HIDE DEF n
    <3>3. sealedsOf(running', row')[r] = sealedsOf(running, row)[r]
      <4>1. sealedsOf(running', row')[r] = {row'[r].blocks[i] : i \in 1 .. n}
        BY <1>3, <2>2, <3>2 DEF sealedsOf
      <4>2. sealedsOf(running, row)[r] = {rw.blocks[i] : i \in 1 .. n}
        BY <1>3 DEF sealedsOf, n, rw
      <4> QED
        BY <3>1, <4>1, <4>2
    <3>4. \A q \in Req \ {r} : sealedsOf(running', row')[q] = sealedsOf(running, row)[q]
      BY <2>2, <2>4 DEF sealedsOf
    <3> DEFINE f == sealedsOf(running, row)
               g == sealedsOf(running', row')
    <3>5. f = [q \in Req |-> f[q]] /\ g = [q \in Req |-> g[q]]
      BY DEF sealedsOf
    <3>6. \A q \in Req : g[q] = f[q]
      BY <3>3, <3>4
    <3> HIDE DEF f, g
    <3>7. f = g
      BY <3>5, <3>6
    <3> QED
      BY <3>7 DEF f, g
  <2>10. StoreStands
    BY <1>4 DEF StoreStands
  <2>11. ref' = [b \in Block |-> IF b \in Range(new) THEN 1 ELSE ref[b]]
    <3>1. Range(<<>>) = {}
      BY DEF Range
    <3> QED
      BY <2>2, <3>1 DEF refsTaken
  <2>12. tablesOf(running, row)[r] # {}
    BY <1>3, <2>6 DEF tablesOf, rw
  <2> QED
    BY <2>3, <2>8, <2>9, <2>10, <2>11, <2>12, AsGrow
<1> QED
  BY <1>5, <1>6

\* The head of the queue is admitted, with the blocks of its prefix hit.
LEMMA AdoptRefines == ASSUME KeysCover, EngineInv, EngineInv', Adopt PROVE Pages!Next
<1> DEFINE r == Head(waiting)
           rw == row[r]
           hit == hitIn(Range(store), rw.tokens)
           new == freshOf(free, needed(r))
           slot == Last(freeSlots)
           rx == AdoptedRowOf(r, hit, new, slot)
           old == hit.blocks
           bs == old \o new
<1>1. /\ r \in Req /\ r \notin Range(running)
      /\ rw.phase = "prefill" /\ rw.tokens \in Seq(Tokens) /\ rw.tokens # <<>>
      /\ new \in Seq(Block) /\ Range(new) \subseteq Range(free)
      /\ row' = [row EXCEPT ![r] = rx]
      /\ running' = Append(running, r) /\ UNCHANGED <<cell, store>>
  BY AdoptedAs
<1>2. row \in [Req -> RowType] /\ rw \in RowType /\ running \in Seq(Req)
  BY <1>1 DEF EngineInv, TypeOK
<1>3. StoreRight(store) /\ FreeRight(free, ref)
  BY DEF EngineInv, Pools, PoolsRight
<1>4. ref' = refsTaken(new, old)
  <2>1. matchPrefix(rw.tokens) = hit
    BY <1>1, <1>3, MatchIs
  <2>2. ref' = refsTaken(fresh(needed(r)), matchPrefix(rw.tokens).blocks)
    BY DEF Adopt
  <2>3. fresh(needed(r)) = new
    BY DEF fresh, freshOf
  <2> HIDE DEF new, hit, r, rw
  <2> QED
    BY <2>1, <2>2, <2>3
<1> HIDE DEF r, rw
<1>5. /\ old \in Seq(Block) /\ Len(old) * BlockTokens = Len(hit.tokens) /\ hit.tokens \in Seq(Tokens)
      /\ old = <<>> \/ \E e \in Range(store) : e.blocks = old
  BY <1>1, <1>3, HitIs
<1> HIDE DEF hit, new, slot
<1>6. rx.phase = "prefill" /\ rx.blocks = bs /\ rx.prefillFrom = Len(hit.tokens)
  <2>1. rx = [rw EXCEPT !.blocks = hit.blocks \o new, !.own = Len(new), !.slot = slot,
                 !.seqLen = Len(hit.tokens), !.prefillFrom = Len(hit.tokens)]
    BY DEF AdoptedRowOf, rw
  <2> QED
    BY <1>1, <1>2, <2>1 DEF RowType
<1> HIDE DEF rx, old
<1>7. row'[r] = rx /\ \A q \in Req \ {r} : row'[q] = row[q]
  BY <1>1, <1>2
<1>8. Range(running') = Range(running) \cup {r}
  BY <1>1, <1>2, AppendedOnce
<1>9. \A b \in Range(new) : b \in Block /\ ref[b] = 0
  BY <1>1, <1>3 DEF FreeRight
<1>10. Range(bs) = Range(old) \cup Range(new) /\ \A i \in 1 .. Len(old) : bs[i] = old[i]
  <2>1. Range(bs) = Range(old) \cup Range(new)
    BY <1>1, <1>5, JoinedOnce
  <2> QED
    BY <1>1, <1>5, <2>1
<1> HIDE DEF bs
<1>11. behind(rx) \div BlockTokens = Len(old)
  <2> DEFINE l == Len(old)
             n == l * BlockTokens
  <2>1. l \in Nat /\ BlockTokens \in Nat \ {0}
    BY <1>5, PoolAssumption
  <2>2. behind(rx) = n
    BY <1>5, <1>6 DEF behind
  <2> HIDE DEF l
  <2>3. n \div BlockTokens = l
    BY <2>1
  <2> HIDE DEF n
  <2> QED
    BY <2>2, <2>3 DEF l
<1>12. tablesOf(running, row)[r] = {}
  BY <1>1 DEF tablesOf
<1>13. tablesOf(running', row') = [tablesOf(running, row) EXCEPT ![r] = Range(old) \cup Range(new)]
  <2>1. tablesOf(running', row')[r] = Range(old) \cup Range(new)
    BY <1>1, <1>6, <1>7, <1>8, <1>10 DEF tablesOf
  <2>2. \A q \in Req \ {r} : tablesOf(running', row')[q] = tablesOf(running, row)[q]
    BY <1>7, <1>8 DEF tablesOf
  <2> DEFINE f == tablesOf(running, row)
             g == tablesOf(running', row')
             u == Range(old) \cup Range(new)
  <2>3. f = [q \in Req |-> f[q]] /\ g = [q \in Req |-> g[q]] /\ g[r] = u /\ \A q \in Req \ {r} : g[q] = f[q]
    BY <2>1, <2>2 DEF tablesOf
  <2> HIDE DEF f, g, u
  <2>4. g = [f EXCEPT ![r] = u]
    BY <2>3
  <2> QED
    BY <2>4 DEF f, g, u
<1>14. sealedsOf(running', row') = [sealedsOf(running, row) EXCEPT ![r] = Range(old)]
  <2>1. sealedsOf(running', row')[r] = {bs[i] : i \in 1 .. Len(old)}
    <3>1. behind(row'[r]) \div BlockTokens = Len(old) /\ row'[r].blocks = bs
      BY <1>6, <1>7, <1>11
    <3>2. r \in Req /\ r \in Range(running')
      BY <1>1, <1>8
    <3>3. sealedsOf(running', row')[r] = {row'[r].blocks[i] : i \in 1 .. behind(row'[r]) \div BlockTokens}
      BY <3>2 DEF sealedsOf
    <3> QED
      BY <3>1, <3>3
  <2>2. {bs[i] : i \in 1 .. Len(old)} = {old[i] : i \in 1 .. Len(old)}
    BY <1>10
  <2>3. Range(old) = {old[i] : i \in 1 .. Len(old)}
    BY <1>5, RangeOf
  <2>4. \A q \in Req \ {r} : sealedsOf(running', row')[q] = sealedsOf(running, row)[q]
    BY <1>7, <1>8 DEF sealedsOf
  <2> DEFINE f == sealedsOf(running, row)
             g == sealedsOf(running', row')
             u == Range(old)
  <2>5. f = [q \in Req |-> f[q]] /\ g = [q \in Req |-> g[q]]
    BY DEF sealedsOf
  <2>6. g[r] = u /\ \A q \in Req \ {r} : g[q] = f[q]
    BY <2>1, <2>2, <2>3, <2>4
  <2> HIDE DEF f, g, u
  <2>7. g = [f EXCEPT ![r] = u]
    BY <2>5, <2>6
  <2> QED
    BY <2>7 DEF f, g, u
<1>15. Range(old) = {} \/ \E k \in Keys : Range(old) = pinsOf(store)[k]
  <2>1. CASE Range(old) = {}
    BY <2>1
  <2>2. CASE Range(old) # {}
    <3>1. old # <<>>
      BY <2>2 DEF Range
    <3>2. PICK e \in Range(store) : e.blocks = old
      BY <1>5, <3>1
    <3>3. e.tokens \in Keys
      BY <2>2, <3>2, EntryHasKey
    <3>4. blocksIn(store, e.tokens) = e.blocks
      BY <1>3, BlocksOfEntry
    <3>5. pinsOf(store)[e.tokens] = Range(old)
      BY <3>2, <3>3, <3>4 DEF pinsOf
    <3> QED
      BY <3>3, <3>5
  <2> QED
    BY <2>1, <2>2
<1>16. Range(old) \cup Range(new) # {}
  <2>1. row'[r].blocks # <<>> /\ row'[r].blocks \in Seq(Block)
    BY <1>8, RunningHeldNext
  <2>2. bs # <<>> /\ bs \in Seq(Block)
    BY <1>6, <1>7, <2>1
  <2>3. 1 \in 1 .. Len(bs) /\ Range(bs) = {bs[i] : i \in 1 .. Len(bs)}
    BY <2>2, RangeOf
  <2> QED
    BY <1>10, <2>3
<1>17. StoreStands
  BY <1>1 DEF StoreStands
<1>18. ref' = [b \in Block |-> IF b \in Range(new) THEN 1 ELSE IF b \in Range(old) THEN ref[b] + 1 ELSE ref[b]]
  BY <1>4 DEF refsTaken
<1>19. Range(new) \in SUBSET Block /\ \A b \in Range(new) : ref[b] = 0
  BY <1>9
<1>20. r \in Req
  BY <1>1
<1> DEFINE u == Range(old)
           w == Range(new)
<1> HIDE DEF u, w, r
<1>21. /\ w \in SUBSET Block /\ (\A b \in w : ref[b] = 0) /\ u \cup w # {}
       /\ u = {} \/ \E k \in Keys : u = pinsOf(store)[k]
  BY <1>15, <1>16, <1>19 DEF u, w
<1>22. /\ ref' = [b \in Block |-> IF b \in w THEN 1 ELSE IF b \in u THEN ref[b] + 1 ELSE ref[b]]
       /\ tablesOf(running', row') = [tablesOf(running, row) EXCEPT ![r] = u \cup w]
       /\ sealedsOf(running', row') = [sealedsOf(running, row) EXCEPT ![r] = u]
  BY <1>13, <1>14, <1>18 DEF u, w
<1> QED
  BY <1>12, <1>17, <1>20, <1>21, <1>22, AsAdmit

\* The place of the o-th position of block j.
LEMMA PlaceIs ==
  ASSUME NEW b \in Nat \ {0}, NEW j \in Nat, NEW o \in 0 .. b - 1
  PROVE  /\ j * b + o \in Nat /\ (j * b + o) \div b = j /\ (j * b + o) % b = o
         /\ \A m \in Nat : j + 1 <= m => j * b + o < m * b
<1> DEFINE p == j * b + o
           x == p \div b
           y == j * b
<1>1. y \in Nat /\ p = y + o /\ p \in Nat /\ p \in Int /\ b \in Int
  OBVIOUS
<1> HIDE DEF p
<1>2. x \in Nat /\ x * b \in Nat /\ x * b <= p /\ p < x * b + b /\ p % b = p - x * b
  BY ONLY Multiples, <1>1, b \in Nat \ {0}
<1> HIDE DEF x
<1>3. x = j
  <2>1. ~ (x + 1 <= j)
    <3> SUFFICES ASSUME x + 1 <= j PROVE FALSE
      OBVIOUS
    <3>1. (x + 1) * b <= j * b
      BY <1>2, TimesMore
    <3>2. (x + 1) * b = x * b + b
      BY <1>2
    <3> QED
      BY <1>1, <1>2, <3>1, <3>2
  <2>2. ~ (j + 1 <= x)
    <3> SUFFICES ASSUME j + 1 <= x PROVE FALSE
      OBVIOUS
    <3>1. (j + 1) * b <= x * b
      BY <1>2, TimesMore
    <3>2. (j + 1) * b = j * b + b
      OBVIOUS
    <3> QED
      BY <1>1, <1>2, <3>1, <3>2
  <2> QED
    BY <1>2, <2>1, <2>2
<1>4. p % b = o
  BY <1>1, <1>2, <1>3
<1>5. ASSUME NEW m \in Nat, j + 1 <= m PROVE p < m * b
  <2>1. (j + 1) * b <= m * b
    BY <1>5, TimesMore
  <2>2. (j + 1) * b = j * b + b
    OBVIOUS
  <2> DEFINE z == m * b
  <2>3. z \in Nat
    OBVIOUS
  <2> HIDE DEF z
  <2>4. y + b <= z
    BY <2>1, <2>2 DEF z
  <2> HIDE DEF y
  <2> QED
    BY <1>1, <2>3, <2>4 DEF z
<1> QED
  BY <1>1, <1>3, <1>4, <1>5 DEF p, x

\* What the blocks of an entry hold is what its key says of them.
LEMMA SavedIs ==
  ASSUME NEW cl \in [Block -> [Offset -> Seq(Tokens)]], NEW bs \in Seq(Block), IsInjective(bs), NEW k \in Seq(Tokens),
         Len(bs) * BlockTokens = Len(k), HoldsKv(cl, bs, k, Len(k))
  PROVE  savesIn(bs, k) = [b \in Block |-> IF b \in Range(bs) THEN cl[b] ELSE "none"]
<1>1. /\ Range(bs) = {bs[i] : i \in 1 .. Len(bs)} /\ \A i, j \in 1 .. Len(bs) : bs[i] = bs[j] => i = j
      /\ DOMAIN bs = 1 .. Len(bs) /\ Len(bs) \in Nat
  <2>1. DOMAIN bs = 1 .. Len(bs) /\ Len(bs) \in Nat
    BY LenProperties
  <2>2. Range(bs) = {bs[i] : i \in 1 .. Len(bs)} /\ \A i, j \in 1 .. Len(bs) : bs[i] = bs[j] => i = j
    BY RangeOf
  <2> QED
    BY <2>1, <2>2
<1>2. BlockTokens \in Nat \ {0}
  BY PoolAssumption
<1>3. ASSUME NEW i \in 1 .. Len(bs) PROVE kvOf(k, i) = cl[bs[i]]
  <2>1. ASSUME NEW o \in Offset PROVE cl[bs[i]][o] = SubSeq(k, 1, (i - 1) * BlockTokens + o + 1)
    <3> DEFINE j == i - 1
               p == j * BlockTokens + o
               l == Len(bs)
    <3>1. j \in Nat /\ o \in 0 .. BlockTokens - 1 /\ l \in Nat /\ j + 1 <= l /\ j + 1 = i
      BY <1>1 DEF Offset
    <3> HIDE DEF j, l
    <3>2. p \in Nat /\ p \div BlockTokens = j /\ p % BlockTokens = o /\ p < l * BlockTokens
      BY <1>2, <3>1, PlaceIs
    <3> HIDE DEF p
    <3>3. p \in 0 .. Len(k) - 1
      BY <3>2 DEF l
    <3>4. cl[bs[p \div BlockTokens + 1]][p % BlockTokens] = SubSeq(k, 1, p + 1)
      BY <3>3 DEF HoldsKv
    <3>5. cl[bs[i]][o] = SubSeq(k, 1, p + 1)
      BY <3>1, <3>2, <3>4
    <3> QED
      BY <3>5 DEF p, j
  <2>2. cl[bs[i]] \in [Offset -> Seq(Tokens)]
    BY <1>1
  <2>3. cl[bs[i]] = [o \in Offset |-> cl[bs[i]][o]]
    BY <2>2
  <2>4. kvOf(k, i) = [o \in Offset |-> cl[bs[i]][o]]
    BY <2>1 DEF kvOf
  <2> QED
    BY <2>3, <2>4
<1>4. ASSUME NEW b \in Range(bs) PROVE kvOf(k, CHOOSE i \in DOMAIN bs : bs[i] = b) = cl[b]
  <2>1. PICK i \in 1 .. Len(bs) : bs[i] = b
    BY <1>1
  <2>2. (CHOOSE j \in DOMAIN bs : bs[j] = b) \in 1 .. Len(bs) /\ bs[CHOOSE j \in DOMAIN bs : bs[j] = b] = b
    BY <1>1, <2>1
  <2> DEFINE j == CHOOSE j \in DOMAIN bs : bs[j] = b
  <2> HIDE DEF j
  <2>3. j \in 1 .. Len(bs) /\ bs[j] = b
    BY <2>2 DEF j
  <2>4. kvOf(k, j) = cl[b]
    BY <1>3, <2>3
  <2> QED
    BY <2>4 DEF j
<1> QED
  BY <1>4 DEF savesIn

\* An entry is published: blocks the row is past, holding what its key says.
LEMMA PublishRefines ==
  ASSUME KeysCover, EngineInv, Exact, EngineInv', Publish
  PROVE  Pages!Next \/ UNCHANGED Pages!vars
<1>1. doing("publish")
  BY DEF Publish
<1>2. PICK r : r = call.r
  OBVIOUS
<1> DEFINE rw == row[r]
           n == call.len
           m == n \div BlockTokens
           key == SubSeq(rw.tokens, 1, n)
           bs == SubSeq(rw.blocks, 1, m)
           e == [tokens |-> key, blocks |-> bs, state |-> call.state]
           mark == IF call.decode THEN n ELSE rw.decodeEntry
           rx == [rw EXCEPT !.decodeEntry = mark]
<1>3. /\ r \in Range(running) /\ r \in Req /\ call \in callsFor(agenda, r) /\ call.op = "publish"
      /\ n \in Nat \ {0} /\ n <= Len(rw.tokens)
      /\ m \in Nat /\ m <= Len(rw.blocks) /\ m * BlockTokens = n
  BY <1>1, <1>2, PublishFits
<1>4. /\ row \in [Req -> RowType] /\ rw \in RowType /\ behind(rw) \in Nat /\ rw.blocks \in Seq(Block) /\ rw.tokens \in Seq(Tokens)
      /\ IsInjective(rw.blocks) /\ cell \in [Block -> [Offset -> Seq(Tokens)]] /\ StoreRight(store)
      /\ ref \in [Block -> Nat]
  <2>1. BlocksRight(running, row, blocksUsed) /\ TypeOK /\ StoreRight(store)
    BY DEF EngineInv, Pools, PoolsRight
  <2> QED
    BY <1>3, <2>1, RunningRow DEF TypeOK, BlocksRight
<1>5. UNCHANGED <<running, cell>> /\ StoreRight(store')
  <2>1. StoreRight(store')
    BY DEF EngineInv, Pools, PoolsRight
  <2> QED
    BY <2>1 DEF Publish
<1>6. CASE stored(key)
  <2>1. UNCHANGED <<row, store, ref>>
    BY <1>2, <1>6 DEF Publish
  <2> QED
    BY <1>4, <1>5, <2>1, QuietRefines
<1>7. CASE ~ stored(key)
  <2>1. row' = [row EXCEPT ![r] = rx] /\ store' = Append(store, e) /\ ref' = refsTaken(<<>>, bs)
    <3>1. row' = [row EXCEPT ![r].decodeEntry = mark]
      BY <1>2, <1>7 DEF Publish
    <3> HIDE DEF mark
    <3>2. row' = [row EXCEPT ![r] = rx]
      BY <1>4, <3>1
    <3>3. insertEntry(key, bs, call.state)
      BY <1>2, <1>7 DEF Publish
    <3> QED
      BY <3>2, <3>3 DEF insertEntry
  <2>2. rx.phase = rw.phase /\ rx.seqLen = rw.seqLen /\ rx.prefillFrom = rw.prefillFrom /\ rx.blocks = rw.blocks
    <3> HIDE DEF rw, mark
    <3> QED
      BY <1>4 DEF RowType
  <2>3. row'[r] = rx /\ \A q \in Req \ {r} : row'[q] = row[q]
    <3> HIDE DEF rx
    <3> QED
      BY <1>3, <1>4, <2>1
  <2>4. RowsStand
    <3>1. behind(rx) = behind(rw)
      BY <2>2 DEF behind
    <3>2. \A q \in Range(running) : q \in Req
      BY RunningRow
    <3> HIDE DEF rx
    <3>3. \A q \in Range(running) : row'[q].blocks = row[q].blocks /\ behind(row'[q]) = behind(row[q])
      BY <2>2, <2>3, <3>1, <3>2 DEF rw
    <3> QED
      BY <1>5, <3>3, RowsAlike DEF RowsStand
  <2>5. e.tokens = key /\ e.blocks = bs /\ e.state = call.state
    OBVIOUS
  <2> HIDE DEF e, rx, mark
  <2>6. /\ key \in Seq(Tokens) /\ Len(key) = n /\ bs \in Seq(Block) /\ Len(bs) = m /\ \A i \in 1 .. m : bs[i] = rw.blocks[i]
    <3> HIDE DEF rw, n, m
    <3> QED
      BY <1>3, <1>4
  <2>7. IsInjective(bs)
    <3> HIDE DEF rw, n, m
    <3>1. \A i, j \in 1 .. Len(rw.blocks) : rw.blocks[i] = rw.blocks[j] => i = j
      BY <1>4, RangeOf
    <3>2. \A i \in 1 .. m : i \in 1 .. Len(rw.blocks)
      BY <1>3, <1>4
    <3> HIDE DEF bs
    <3>3. \A i, j \in 1 .. Len(bs) : bs[i] = bs[j] => i = j
      BY <2>6, <3>1, <3>2
    <3> QED
      BY <2>6, <3>3, RangeOf
  <2>8. EntryContents(e, cell) /\ n <= behind(rw)
    <3> DEFINE mm == m
               nn == n
    <3>1. /\ nn \in Nat /\ nn = call.len /\ mm \in Nat /\ nn = mm * BlockTokens /\ mm <= Len(row[r].blocks)
          /\ nn <= Len(row[r].tokens) /\ e.tokens = SubSeq(row[r].tokens, 1, nn)
          /\ e.blocks = SubSeq(row[r].blocks, 1, mm)
      BY <1>3, <2>5
    <3> HIDE DEF mm, nn
    <3>2. EntryContents(e, cell) /\ nn <= behind(row[r])
      BY <1>3, <2>5, <3>1, PublishedContents
    <3> QED
      BY <3>2 DEF nn
  <2> HIDE DEF key, bs, m, n, rw
  <2>9. HoldsKv(cell, bs, key, Len(key)) /\ Len(bs) * BlockTokens = Len(key)
    BY <1>3, <2>5, <2>6, <2>8 DEF EntryContents
  <2>10. savesIn(bs, key) = [b \in Block |-> IF b \in Range(bs) THEN cell[b] ELSE "none"]
    BY <1>4, <2>6, <2>7, <2>9, SavedIs
  <2>11. e \in Range(store') /\ Range(store) = Range(store') \ {e}
    <3>1. store' \in Seq(Entry) /\ store \in Seq(Entry)
      BY <1>4, <1>5 DEF StoreRight
    <3>2. e \in Entry
      <4>1. store'[Len(store) + 1] = e /\ Len(store') = Len(store) + 1 /\ Len(store) \in Nat
        BY <2>1, <3>1
      <4> QED
        BY <3>1, <4>1
    <3>3. Range(store') = Range(store) \cup {e}
      BY <2>1, <3>1, <3>2, AppendedOnce
    <3>4. e \notin Range(store)
      <4>1. Range(store) = {store[i] : i \in DOMAIN store}
        BY DEF Range
      <4> QED
        BY <1>7, <2>5, <4>1 DEF stored
    <3> QED
      BY <3>3, <3>4
  <2>12. m \in 1 .. NumBlocks /\ key \in Keys
    <3>1. m \in 0 .. NumBlocks
      BY <2>6, <2>7, FewBlocks
    <3>2. m # 0
      BY <1>3, PoolAssumption
    <3>3. m \in 1 .. NumBlocks
      BY <3>1, <3>2
    <3> QED
      BY <1>3, <2>6, <3>3, LenProperties DEF KeysCover
  <2>13. /\ pinsOf(store') = [pinsOf(store) EXCEPT ![key] = Range(bs)]
         /\ savesOf(store') = [savesOf(store) EXCEPT ![key] = savesIn(bs, key)]
         /\ pinsOf(store)[key] = {}
    <3> DEFINE l == e.tokens
               bl == e.blocks
    <3>1. /\ pinsOf(store') = [pinsOf(store) EXCEPT ![l] = Range(bl)]
          /\ savesOf(store') = [savesOf(store) EXCEPT ![l] = savesIn(bl, l)]
          /\ l \in Keys => pinsOf(store)[l] = {}
      <4>1. StoreRight(store) /\ StoreRight(store')
        BY <1>4, <1>5
      <4> QED
        BY ONLY <4>1, <2>11, OneEntry
    <3>2. l = key /\ bl = bs
      BY <2>5
    <3> HIDE DEF l, bl
    <3> QED
      BY <2>12, <3>1, <3>2
  <2>14. Range(bs) # {} /\ Range(bs) \in SUBSET sealedsOf(running, row)[r]
    <3>1. Range(bs) = {bs[i] : i \in 1 .. m}
      BY <2>6, RangeOf
    <3>2. 1 \in 1 .. m
      BY <2>12
    <3> DEFINE x == behind(rw) \div BlockTokens
    <3>3. sealedsOf(running, row)[r] = {rw.blocks[i] : i \in 1 .. x}
      BY <1>3 DEF sealedsOf, rw
    <3>4. x \in Nat /\ m <= x
      <4> DEFINE a == behind(rw)
      <4>1. a \in Nat /\ a \in Int /\ BlockTokens \in Nat \ {0} /\ m \in Nat
        BY <1>3, <1>4, PoolAssumption
      <4>a. m * BlockTokens <= a
        BY <1>3, <2>8
      <4> HIDE DEF a
      <4>2. x \in Nat /\ a < x * BlockTokens + BlockTokens
        <5>1. a \div BlockTokens \in Nat /\ a < (a \div BlockTokens) * BlockTokens + BlockTokens
          BY ONLY Multiples, <4>1
        <5> QED
          BY <5>1 DEF a
      <4> HIDE DEF x
      <4>3. ~ (x + 1 <= m)
        <5> SUFFICES ASSUME x + 1 <= m PROVE FALSE
          OBVIOUS
        <5>1. (x + 1) * BlockTokens <= m * BlockTokens
          BY <4>1, <4>2, TimesMore
        <5>2. (x + 1) * BlockTokens = x * BlockTokens + BlockTokens /\ x * BlockTokens \in Nat /\ m * BlockTokens \in Nat
          BY <4>1, <4>2
        <5> QED
          BY <4>1, <4>a, <4>2, <5>1, <5>2
      <4> QED
        BY <4>1, <4>2, <4>3
    <3> HIDE DEF x
    <3>5. \A i \in 1 .. m : i \in 1 .. x /\ bs[i] = rw.blocks[i]
      BY <1>3, <2>6, <3>4
    <3> QED
      BY <3>1, <3>2, <3>3, <3>5
  <2>15. ref' = [b \in Block |-> IF b \in Range(bs) THEN ref[b] + 1 ELSE ref[b]]
    <3>1. Range(<<>>) = {}
      BY DEF Range
    <3> QED
      BY <2>1, <3>1 DEF refsTaken
  <2> DEFINE whole == Range(bs)
  <2>16. /\ whole \in SUBSET sealedsOf(running, row)[r] /\ whole # {}
         /\ ref' = [b \in Block |-> IF b \in whole THEN ref[b] + 1 ELSE ref[b]]
         /\ pinsOf(store') = [pinsOf(store) EXCEPT ![key] = whole]
         /\ savesOf(store') = [savesOf(store) EXCEPT ![key] = [b \in Block |-> IF b \in whole THEN cell[b] ELSE "none"]]
    BY <2>10, <2>13, <2>14, <2>15
  <2>17. cell' = cell /\ r \in Req /\ key \in Keys /\ pinsOf(store)[key] = {}
    BY <1>3, <1>5, <2>12, <2>13
  <2> HIDE DEF whole
  <2> QED
    BY <2>4, <2>16, <2>17, AsPublish
<1> QED
  BY <1>6, <1>7

\* The later position is in the same block or in a later one.
LEMMA BlocksInOrder ==
  ASSUME NEW b \in Nat \ {0}, NEW n \in Nat, NEW p \in Nat, n <= p
  PROVE  n \div b \in Nat /\ p \div b \in Nat /\ n \div b <= p \div b
<1> DEFINE x == n \div b
           y == p \div b
<1>1. n \in Int /\ p \in Int /\ b \in Nat \ {0}
  OBVIOUS
<1>2. x \in Nat /\ x * b \in Nat /\ x * b <= n
  BY ONLY Multiples, <1>1, n \in Nat
<1>3. y \in Nat /\ y * b \in Nat /\ p < y * b + b
  BY ONLY Multiples, <1>1, p \in Nat
<1> HIDE DEF x, y
<1>4. ~ (y + 1 <= x)
  <2> SUFFICES ASSUME y + 1 <= x PROVE FALSE
    OBVIOUS
  <2>1. (y + 1) * b <= x * b
    BY <1>2, <1>3, TimesMore
  <2>2. (y + 1) * b = y * b + b
    BY <1>3
  <2> QED
    BY <1>2, <1>3, <2>1, <2>2
<1>5. x \in Nat /\ y \in Nat /\ x <= y
  BY <1>2, <1>3, <1>4
<1> QED
  BY <1>5 DEF x, y

\* What a forward writes is in a block of a running row, and not in one the row is past.
LEMMA WrittenIsOpen ==
  ASSUME EngineInv, Exact, NEW g, Fed(g), NEW w \in writesOf(g)
  PROVE  g.r \in Req /\ w.block \in tablesOf(running, row)[g.r] \ sealedsOf(running, row)[g.r]
<1> DEFINE r == g.r
           bs == row[r].blocks
           n == behind(row[r])
<1>1. r \in Range(running) /\ r \in Req /\ n \in Nat /\ bs \in Seq(Block)
  <2>1. g.r \in Range(running)
    BY DEF Fed
  <2> QED
    BY <2>1, RunningHeld
<1>2. IsInjective(bs)
  <2>1. BlocksRight(running, row, blocksUsed)
    BY DEF EngineInv, Pools, PoolsRight
  <2> QED
    BY <1>1, <2>1 DEF BlocksRight
<1>3. PICK p \in behind(row[g.r]) .. g.to - 1 : w = writeAt(g.r, p, row[g.r].tokens)
  BY DEF writesOf
<1>4. w.block = bs[p \div BlockTokens + 1]
  BY <1>3 DEF writeAt
<1>5. p \in Nat /\ p < held(row[r])
  BY <1>3, FedAlone
<1>6. p \div BlockTokens + 1 \in 1 .. Len(bs) /\ bs[p \div BlockTokens + 1] \in Range(bs)
  BY <1>1, <1>5, PlaceOf
<1>7. n \div BlockTokens \in Nat /\ p \div BlockTokens \in Nat /\ n \div BlockTokens <= p \div BlockTokens
  <2>1. n <= p /\ g.to \in Nat
    BY <1>1, <1>3 DEF Fed
  <2> HIDE DEF n
  <2> QED
    BY <1>1, <1>5, <2>1, BlocksInOrder, PoolAssumption
<1> DEFINE x == n \div BlockTokens
           i == p \div BlockTokens + 1
<1>8. i \in 1 .. Len(bs) /\ x < i /\ x \in Nat /\ i \in Nat
  BY <1>7, <1>6
<1>9. /\ tablesOf(running, row)[r] = Range(bs)
      /\ sealedsOf(running, row)[r] = {bs[j] : j \in 1 .. x}
  BY <1>1 DEF tablesOf, sealedsOf
<1> HIDE DEF x, i, bs
<1>10. \A j \in 1 .. x : bs[j] # bs[i]
  <2> SUFFICES ASSUME NEW j \in 1 .. x, bs[j] = bs[i] PROVE FALSE
    OBVIOUS
  <2>1. j \in 1 .. Len(bs) /\ j # i
    BY <1>1, <1>8
  <2> QED
    BY <1>1, <1>2, <1>8, <2>1, RangeOf
<1> QED
  BY <1>1, <1>4, <1>6, <1>9, <1>10 DEF i

\* A forward writes open blocks only.
LEMMA ForwardRefines ==
  ASSUME Drafter = "none", EngineInv, Exact, EngineInv', Forward
  PROVE  Pages!Next
<1> DEFINE ds == decodesLeft(call)
           ps == call.prefills
           G == fedRows(ds, ps)
<1>1. /\ \A g \in G : Fed(g)
      /\ (UNION {decodeWrites(d) : d \in Range(ds)}) \cup (UNION {prefillWrites(f) : f \in Range(ps)})
           = UNION {writesOf(g) : g \in G}
  BY ForwardFed
<1>2. UNCHANGED <<running, row, store, ref>>
  BY DEF Forward
<1>3. cell' = [b \in Block |-> [o \in Offset |->
                 IF writtenAt(G, b, o) = {} THEN cell[b][o] ELSE (CHOOSE w \in writtenAt(G, b, o) : TRUE).kv]]
  <2> DEFINE writes == (UNION {decodeWrites(d) : d \in Range(ds)}) \cup (UNION {prefillWrites(f) : f \in Range(ps)})
             at(b, o) == {w \in writes : w.block = b /\ w.offset = o}
  <2>1. cell' = [b \in Block |-> [o \in Offset |->
                   IF at(b, o) = {} THEN cell[b][o] ELSE (CHOOSE w \in at(b, o) : TRUE).kv]]
    BY DEF Forward, decodesLeft
  <2>2. writes = written(G)
    BY <1>1 DEF written
  <2>3. \A b, o : at(b, o) = writtenAt(G, b, o)
    BY <2>2 DEF writtenAt
  <2> HIDE DEF at, writes, ds, ps, G
  <2> QED
    BY <2>1, <2>3
<1> HIDE DEF ds, ps, G
<1>4. cell \in [Block -> [Offset -> Seq(Tokens)]] /\ cell' \in [Block -> [Offset -> Seq(Tokens)]]
  BY DEF EngineInv, TypeOK
<1>5. ASSUME NEW b \in Block, \A r \in Req : b \notin tablesOf(running, row)[r] \ sealedsOf(running, row)[r]
      PROVE  cell'[b] = cell[b]
  <2>1. \A o : writtenAt(G, b, o) = {}
    <3> SUFFICES ASSUME NEW o, NEW w \in writtenAt(G, b, o) PROVE FALSE
      OBVIOUS
    <3>1. w.block = b /\ \E g \in G : w \in writesOf(g)
      BY DEF writtenAt, written
    <3>2. PICK g \in G : w \in writesOf(g)
      BY <3>1
    <3>3. Fed(g)
      BY <1>1
    <3>4. g.r \in Req /\ w.block \in tablesOf(running, row)[g.r] \ sealedsOf(running, row)[g.r]
      BY <3>2, <3>3, WrittenIsOpen
    <3> QED
      BY <1>5, <3>1, <3>4
  <2>2. cell'[b] = [o \in Offset |-> cell[b][o]]
    BY <1>3, <2>1
  <2> QED
    BY <1>4, <2>2
<1>6. RowsStand /\ pinsOf(store') = pinsOf(store) /\ savesOf(store') = savesOf(store)
  BY <1>2 DEF RowsStand
<1> QED
  BY <1>2, <1>4, <1>5, <1>6, AsForward

\* The empty engine is an empty pool.
LEMMA InitRefines == ASSUME Init PROVE Pages!Init
<1>1. EngineInv
  BY InitRight
<1>2. running = <<>> /\ store = <<>> /\ ref = [b \in Block |-> 0] /\ cell \in [Block -> [Offset -> Seq(Tokens)]]
  BY <1>1 DEF Init, EngineInv, TypeOK
<1>3. Range(<<>>) = {}
  BY DEF Range
<1>4. tablesOf(running, row) = [r \in Req |-> {}] /\ sealedsOf(running, row) = [r \in Req |-> {}]
  BY <1>2, <1>3 DEF tablesOf, sealedsOf
<1>5. \A k : blocksIn(store, k) = <<>>
  <2>1. DOMAIN store = {}
    BY <1>2
  <2> QED
    BY <2>1 DEF blocksIn
<1>6. pinsOf(store) = [k \in Keys |-> {}]
  BY <1>3, <1>5 DEF pinsOf
<1>7. savesOf(store) = [k \in Keys |-> [b \in Block |-> "none"]]
  <2>1. savesOf(store) = [k \in Keys |-> savesIn(blocksIn(store, k), k)] /\ \A k : savesIn(<<>>, k) = [b \in Block |-> "none"]
    BY SavesIn
  <2> QED
    BY <1>5, <2>1
<1> QED
  BY <1>2, <1>4, <1>6, <1>7, Mapped DEF Pages!Init

\* Every step of the engine is one of KvPages, or none.
LEMMA StepRefines ==
  ASSUME Drafter = "none", KeysCover, EngineInv, Exact, EngineInv', [Next]_vars
  PROVE  Pages!Next \/ UNCHANGED Pages!vars
<1>1. StoreRight(store') /\ StoreRight(store)
  BY DEF EngineInv, Pools, PoolsRight
<1>2. CASE UNCHANGED vars
  <2>1. UNCHANGED <<cell, ref, running, store, row>>
    BY <1>2 DEF vars
  <2> QED
    BY <1>1, <2>1, QuietRefines
<1>3. CASE Client
  BY <1>3, ClientRefines
<1>4. CASE AdmitHead \/ Readmit
  BY <1>4, LookupRefines
<1>5. CASE StepBegin \/ AdmitNone \/ EvictEnough \/ FormBatch \/ ForwardRaises \/ Sample \/ CommitStop \/ StepEnd \/ LoopIdle
  BY <1>5, PlanRefines
<1>6. CASE EvictOne \/ Trim \/ Retire
  BY <1>1, <1>6, EntriesRefine
<1>7. CASE Finish \/ FailAll
  BY <1>7, LeaversRefine
<1>8. CASE Adopt
  BY <1>8, AdoptRefines
<1>9. CASE Grow
  BY <1>9, GrowRefines
<1>10. CASE Forward
  BY <1>10, ForwardRefines
<1>11. CASE CommitToken
  BY <1>11, CommitRefines
<1>12. CASE Publish
  BY <1>12, PublishRefines
<1>13. CASE Advance
  BY <1>13, AdvanceRefines
<1>14. CASE Complete
  BY <1>14, CompleteRefines
<1>15. ~ (Verify \/ DraftStep)
  BY NeverDrafts
<1> QED
  BY <1>2, <1>3, <1>4, <1>5, <1>6, <1>7, <1>8, <1>9, <1>10, <1>11, <1>12, <1>13, <1>14, <1>15 DEF Next, Tick, Plan, Commit

\* The engine without a drafter implements KvPages: whatever a tick or a client does
\* (engine.py:1204-1706) is one step of the pool's contract, or none.  Rows share only
\* sealed blocks, a forward writes only into open ones, only sealed blocks are published,
\* with what they hold, and each hold is counted and given back once.
THEOREM EngineImplementsPages == ASSUME Drafter = "none", KeysCover PROVE Spec => ImplementsPages
<1>1. Init => Pages!Init
  BY InitRefines
<1>2. EngineInv /\ Exact /\ EngineInv' /\ [Next]_vars => [Pages!Next]_(Pages!vars)
  BY StepRefines
<1>3. Spec => []EngineInv
  BY EngineInvariant
<1>4. Spec => []Exact
  BY EngineExact
<1> QED
  BY <1>1, <1>2, <1>3, <1>4, PTL DEF Spec, ImplementsPages, Pages!Spec

-----------------------------------------------------------------------------
(* What the calls of an agenda lack, in all *)

\* What is not negative adds up to no less than each part.
LEMMA TotalOfNats ==
  ASSUME NEW s \in Seq(Nat)
  PROVE  total(s) \in Nat /\ (s # <<>> => total(Tail(s)) \in Nat /\ total(s) = Head(s) + total(Tail(s)))
<1>1. ASSUME NEW t \in Seq(Nat) PROVE total(t) \in Nat
  <2>1. t \in Seq(Int)
    BY <1>1
  <2>2. PICK f : SumsUp(f, t) /\ total(t) = f[Len(t)]
    BY <2>1, TotalIs
  <2> DEFINE T == {n \in Nat : n <= Len(t) => f[n] \in Nat}
  <2>3. Len(t) \in Nat /\ \A n \in 1 .. Len(t) : t[n] \in Nat
    BY <1>1
  <2>4. 0 \in T
    BY <2>2 DEF SumsUp
  <2>5. \A n \in T : n + 1 \in T
    <3> SUFFICES ASSUME NEW n \in T, n + 1 <= Len(t) PROVE f[n + 1] \in Nat
      OBVIOUS
    <3>1. n \in Nat /\ n <= Len(t) /\ f[n] \in Nat /\ n + 1 \in 1 .. Len(t)
      BY <2>3
    <3>2. f[n + 1] = f[(n + 1) - 1] + t[n + 1]
      BY <2>2, <3>1 DEF SumsUp
    <3>3. (n + 1) - 1 = n /\ t[n + 1] \in Nat
      BY <2>3, <3>1
    <3> QED
      BY <3>1, <3>2, <3>3
  <2>6. T = Nat
    <3>1. T \in SUBSET Nat
      OBVIOUS
    <3> HIDE DEF T
    <3> QED
      BY <2>4, <2>5, <3>1, AllOf
  <2> QED
    BY <2>2, <2>3, <2>6
<1>2. ASSUME s # <<>> PROVE Tail(s) \in Seq(Nat) /\ total(s) = Head(s) + total(Tail(s))
  <2>1. Tail(s) \in Seq(Nat) /\ Len(s) \in Nat \ {0} /\ Head(s) = s[1] /\ s[1] \in Nat
    BY <1>2
  <2>2. RemoveAt(s, 1) = Tail(s)
    <3>1. 1 \in 1 .. Len(s)
      BY <2>1
    <3>2. RemoveAt(s, 1) \in Seq(Nat) /\ Len(RemoveAt(s, 1)) = Len(s) - 1
          /\ \A i \in 1 .. Len(s) - 1 : RemoveAt(s, 1)[i] = IF i < 1 THEN s[i] ELSE s[i + 1]
      BY <3>1, RemoveAtOf
    <3>3. Len(Tail(s)) = Len(s) - 1 /\ \A i \in 1 .. Len(s) - 1 : Tail(s)[i] = s[i + 1]
      BY <1>2, TailOf
    <3> DEFINE u == RemoveAt(s, 1)
               v == Tail(s)
    <3>4. u \in Seq(Nat) /\ v \in Seq(Nat) /\ Len(u) = Len(v) /\ \A i \in 1 .. Len(u) : u[i] = v[i]
      BY <2>1, <3>2, <3>3
    <3> HIDE DEF u, v
    <3>5. u \in [1 .. Len(u) -> Nat] /\ v \in [1 .. Len(v) -> Nat]
      BY <3>4, LenProperties
    <3>6. u = v
      BY <3>4, SeqEqual
    <3> QED
      BY <3>6 DEF u, v
  <2>3. s \in Seq(Int) /\ 1 \in 1 .. Len(s)
    BY <2>1
  <2>4. total(Tail(s)) = total(s) - s[1]
    BY <2>2, <2>3, TotalRemoved
  <2>5. total(s) \in Nat
    BY <1>1
  <2> QED
    BY <2>1, <2>4, <2>5
<1> QED
  BY <1>1, <1>2

\* Zeros at the end add nothing.
LEMMA TotalPadded ==
  ASSUME NEW s \in Seq(Int), NEW t \in Seq(Int), Len(s) <= Len(t),
         \A i \in 1 .. Len(t) : t[i] = IF i <= Len(s) THEN s[i] ELSE 0
  PROVE  total(t) = total(s)
<1>1. PICK f : SumsUp(f, s) /\ total(s) = f[Len(s)]
  BY TotalIs
<1>2. PICK g : SumsUp(g, t) /\ total(t) = g[Len(t)]
  BY TotalIs
<1> DEFINE m == Len(s)
           n == Len(t)
           T == {k \in Nat : k <= n => g[k] = IF k <= m THEN f[k] ELSE f[m]}
<1>3. m \in Nat /\ n \in Nat /\ m <= n
  OBVIOUS
<1>4. f[0] = 0 /\ f[m] \in Int /\ \A i \in 1 .. m : f[i - 1] \in Int /\ f[i] = f[i - 1] + s[i]
  BY <1>1 DEF SumsUp
<1>5. g[0] = 0 /\ \A i \in 1 .. n : g[i - 1] \in Int /\ g[i] = g[i - 1] + t[i]
  BY <1>2 DEF SumsUp
<1>6. \A i \in 1 .. n : t[i] = IF i <= m THEN s[i] ELSE 0
  OBVIOUS
<1>7. 0 \in T
  BY <1>3, <1>4, <1>5
<1> HIDE DEF m, n
<1>8. \A k \in T : k + 1 \in T
  <2> SUFFICES ASSUME NEW k \in T, k + 1 <= n PROVE g[k + 1] = IF k + 1 <= m THEN f[k + 1] ELSE f[m]
    OBVIOUS
  <2>1. k \in Nat /\ k <= n /\ k + 1 \in 1 .. n /\ (k + 1) - 1 = k
    BY <1>3
  <2>2. g[k] = IF k <= m THEN f[k] ELSE f[m]
    BY <2>1
  <2>3. g[k] \in Int /\ g[k + 1] = g[k] + t[k + 1]
    BY <1>5, <2>1
  <2>4. CASE k + 1 <= m
    <3>1. k + 1 \in 1 .. m /\ k <= m
      BY <1>3, <2>1, <2>4
    <3>2. f[k + 1] = f[k] + s[k + 1]
      BY <1>4, <2>1, <3>1
    <3>3. t[k + 1] = s[k + 1]
      BY <1>6, <2>1, <2>4
    <3> QED
      BY <2>2, <2>3, <2>4, <3>1, <3>2, <3>3
  <2>5. CASE ~ (k + 1 <= m)
    <3>1. t[k + 1] = 0
      BY <1>6, <2>1, <2>5
    <3>2. k <= m => k = m
      BY <1>3, <2>1, <2>5
    <3>3. g[k] = f[m]
      BY <2>2, <3>2
    <3> QED
      BY <2>3, <2>5, <3>1, <3>3
  <2> QED
    BY <2>4, <2>5
<1>9. T = Nat
  <2>1. T \in SUBSET Nat
    OBVIOUS
  <2> HIDE DEF T
  <2> QED
    BY <1>7, <1>8, <2>1, AllOf
<1>10. g[n] = f[m]
  BY <1>3, <1>9
<1> QED
  BY <1>1, <1>2, <1>10 DEF m, n

-----------------------------------------------------------------------------
(* What the calls of an agenda lack *)

\* A call takes some blocks or none.
LEMMA LackIs ==
  ASSUME NEW rw \in [Req -> RowType], NEW c, CallType(c)
  PROVE  lack(rw, c) \in Nat
<1>1. CASE c.op = "grow"
  <2>1. c.r \in Req /\ c.q = 1
    BY <1>1 DEF CallType, RowOps
  <2>2. rw[c.r].seqLen \in Nat /\ Len(rw[c.r].blocks) \in Nat
    BY <2>1, LenProperties DEF RowType
  <2>3. decodeExtraBlocks(rw[c.r].seqLen, 1, Len(rw[c.r].blocks)) \in Nat
    BY <2>2, RoomFor
  <2> QED
    BY <1>1, <2>1, <2>3 DEF lack
<1> QED
  BY <1>1 DEF lack

\* They are added up call by call.
LEMMA LacksAre ==
  ASSUME NEW rw \in [Req -> RowType], NEW a, AgendaRight(a)
  PROVE  LET s == [i \in DOMAIN a |-> lack(rw, a[i])]
         IN  s \in Seq(Nat) /\ Len(s) = Len(a) /\ Len(a) \in Nat /\ DOMAIN a = 1 .. Len(a)
<1> DEFINE s == [i \in DOMAIN a |-> lack(rw, a[i])]
<1>1. a \in Seq(Range(a)) /\ \A c \in Range(a) : CallType(c)
  BY DEF AgendaRight
<1>2. Len(a) \in Nat /\ DOMAIN a = 1 .. Len(a) /\ \A i \in 1 .. Len(a) : a[i] \in Range(a)
  BY <1>1
<1>3. \A i \in 1 .. Len(a) : lack(rw, a[i]) \in Nat
  BY <1>1, <1>2, LackIs
<1>4. s \in [1 .. Len(a) -> Nat]
  BY <1>2, <1>3
<1> QED
  BY <1>2, <1>4

\* So what the first call takes is part of what all do.
LEMMA LacksTaken ==
  ASSUME NEW rw \in [Req -> RowType], NEW a, AgendaRight(a), a # <<>>
  PROVE  /\ lacks(rw, a) = lack(rw, Head(a)) + lacks(rw, Tail(a))
         /\ lacks(rw, Tail(a)) \in Nat /\ lack(rw, Head(a)) \in Nat
<1> DEFINE s == [i \in DOMAIN a |-> lack(rw, a[i])]
           b == Tail(a)
           t == [i \in DOMAIN b |-> lack(rw, b[i])]
<1>1. AgendaRight(b) /\ CallType(Head(a))
  BY TakenCall
<1>2. s \in Seq(Nat) /\ Len(s) = Len(a) /\ Len(a) \in Nat /\ DOMAIN a = 1 .. Len(a)
  BY LacksAre
<1> HIDE DEF b
<1>3. t \in Seq(Nat) /\ Len(t) = Len(b) /\ Len(b) \in Nat /\ DOMAIN b = 1 .. Len(b)
  BY <1>1, LacksAre
<1>4. Len(a) # 0 /\ Head(a) = a[1] /\ Len(b) = Len(a) - 1 /\ \A i \in 1 .. Len(a) - 1 : b[i] = a[i + 1]
  <2>1. a \in Seq(Range(a))
    BY DEF AgendaRight
  <2> QED
    BY <2>1, TailOf DEF b
<1>5. s # <<>> /\ Head(s) = lack(rw, Head(a))
  <2>1. s[1] = lack(rw, a[1])
    BY <1>2, <1>4
  <2>2. Len(s) # 0
    BY <1>2, <1>4
  <2> HIDE DEF s
  <2> QED
    BY <1>2, <1>4, <2>1, <2>2
<1>6. \A i \in 1 .. Len(s) - 1 : t[i] = s[i + 1]
  BY <1>2, <1>3, <1>4
<1> HIDE DEF s, t
<1>7. Tail(s) = t
  <2>1. /\ Tail(s) \in Seq(Nat) /\ Len(Tail(s)) = Len(s) - 1
        /\ \A i \in 1 .. Len(s) - 1 : Tail(s)[i] = s[i + 1]
    BY <1>2, <1>5, TailOf
  <2> DEFINE u == Tail(s)
  <2>2. u \in Seq(Nat) /\ Len(u) = Len(t) /\ \A i \in 1 .. Len(u) : u[i] = t[i]
    BY <1>2, <1>3, <1>4, <1>6, <2>1
  <2> HIDE DEF u
  <2>3. u = t
    BY <1>3, <2>2, SeqEqual
  <2> QED
    BY <2>3 DEF u
<1>8. total(s) = Head(s) + total(Tail(s)) /\ total(Tail(s)) \in Nat
  BY <1>2, <1>5, TotalOfNats
<1>9. lacks(rw, a) = total(s) /\ lacks(rw, b) = total(t)
  BY DEF lacks, s, t
<1>10. lack(rw, Head(a)) \in Nat
  BY <1>1, LackIs
<1> QED
  BY <1>5, <1>7, <1>8, <1>9, <1>10 DEF b

\* Calls that lack the same lack the same in all.
LEMMA LacksStay ==
  ASSUME NEW a, NEW rw, NEW rx, \A i \in DOMAIN a : lack(rx, a[i]) = lack(rw, a[i])
  PROVE  lacks(rx, a) = lacks(rw, a)
BY DEF lacks

\* Those of a batch lack what the planner asks the store for.
LEMMA LacksOfBatch ==
  ASSUME NEW rw \in [Req -> RowType], NEW a, AgendaRight(a), NEW n \in Nat, n <= Len(a), NEW s \in Seq(Nat), Len(s) = n,
         \A i \in 1 .. n : lack(rw, a[i]) = s[i],
         \A i \in 1 .. Len(a) : i > n => a[i].op # "grow"
  PROVE  lacks(rw, a) = total(s)
<1> DEFINE t == [i \in DOMAIN a |-> lack(rw, a[i])]
<1>1. t \in Seq(Nat) /\ Len(t) = Len(a) /\ Len(a) \in Nat /\ DOMAIN a = 1 .. Len(a)
  BY LacksAre
<1>2. \A i \in 1 .. Len(a) : t[i] = IF i <= n THEN s[i] ELSE 0
  <2> SUFFICES ASSUME NEW i \in 1 .. Len(a) PROVE lack(rw, a[i]) = IF i <= n THEN s[i] ELSE 0
    BY <1>1
  <2>1. CASE i <= n
    <3>1. i \in 1 .. n
      BY <1>1, <2>1
    <3> QED
      BY <2>1, <3>1
  <2>2. CASE ~ (i <= n)
    <3>1. i > n
      BY <1>1, <2>2
    <3>2. a[i].op # "grow"
      BY <3>1
    <3> QED
      BY <2>2, <3>2 DEF lack
  <2> QED
    BY <2>1, <2>2
<1>3. lacks(rw, a) = total(t)
  BY DEF lacks
<1> HIDE DEF t
<1>4. s \in Seq(Int) /\ t \in Seq(Int) /\ Len(s) <= Len(t)
  BY <1>1
<1> QED
  BY <1>1, <1>2, <1>3, <1>4, TotalPadded

-----------------------------------------------------------------------------
(* The calls that take no block *)

\* Rows grow first: until then nothing but an eviction is done.
LEMMA GrowsFirst ==
  ASSUME EngineInv, GrowsFit, agenda # <<>>, Head(agenda).op \notin {"evict", "grow"}
  PROVE  \A c \in Range(agenda) : c.op # "grow"
<1> SUFFICES ASSUME NEW c \in Range(agenda), c.op = "grow" PROVE FALSE
  OBVIOUS
<1>1. PICK f \in Range(agenda) : f.op = "forward"
  BY DEF GrowsFit
<1>2. /\ Range(agenda) = {Head(agenda)} \cup Range(Tail(agenda))
      /\ \A d \in Range(Tail(agenda)) : /\ Head(agenda).op \in Lone => d.op = "end"
                                        /\ d.op \in Lone => Head(agenda).op \in ahead(d.op)
  BY TakenCall DEF EngineInv
<1>3. f # Head(agenda)
  <2> SUFFICES ASSUME f = Head(agenda) PROVE FALSE
    OBVIOUS
  <2>1. Head(agenda).op = "forward" /\ c \in Range(Tail(agenda))
    BY <1>1, <1>2
  <2>2. c.op = "end"
    BY <1>2, <2>1 DEF Lone
  <2> QED
    BY <2>2
<1>4. Head(agenda).op \in ahead("forward")
  <2>1. f \in Range(Tail(agenda)) /\ f.op \in Lone
    BY <1>1, <1>2, <1>3 DEF Lone
  <2> QED
    BY <1>1, <1>2, <2>1
<1> QED
  BY <1>4 DEF ahead

\* A row's budget stands while its tokens do, and its finish stays to come.
LEMMA BudgetsStay ==
  ASSUME Budgets,
         \A r \in Range(waiting') : r \in Range(waiting) \/ MaxNew[r] > 0,
         \A r \in Range(running') :
           /\ r \in Range(running) /\ row'[r].tokens = row[r].tokens
           /\ "finish" \in opsFor(agenda, r) => "finish" \in opsFor(agenda', r)
  PROVE  Budgets'
BY DEF Budgets, outLen

\* Calls that are not for blocks, and that leave the tokens of the rows alone.
LEMMA RoomBeside ==
  ASSUME EngineInv, Room, agenda # <<>>, Head(agenda).op \notin {"evict", "grow"},
         NEW s, s \in Seq(Range(s)), \A c \in Range(s) : c.op # "grow", next(s),
         waiting' = waiting,
         \A r \in Range(running') :
           /\ r \in Range(running) /\ row'[r].tokens = row[r].tokens
           /\ ~ (Head(agenda).op = "finish" /\ Head(agenda).r = r)
  PROVE  Room'
<1>1. /\ Range(agenda') = Range(s) \cup Range(Tail(agenda))
      /\ Range(agenda) = {Head(agenda)} \cup Range(Tail(agenda))
      /\ \A r : callsFor(agenda', r) = callsFor(s, r) \cup callsFor(Tail(agenda), r)
      /\ \A r : callsFor(agenda, r) = callsFor(Tail(agenda), r) \cup (IF forRow(Head(agenda), r) THEN {Head(agenda)} ELSE {})
  BY NextCalls
<1>2. \A c \in Range(agenda') : c.op # "grow"
  BY <1>1, GrowsFirst DEF Room
<1>3. GrowsFit'
  BY <1>2 DEF GrowsFit
<1>4. ASSUME NEW r \in Range(running'), "finish" \in opsFor(agenda, r) PROVE "finish" \in opsFor(agenda', r)
  <2>1. PICK c \in callsFor(agenda, r) : c.op = "finish"
    BY <1>4 DEF opsFor
  <2>2. c # Head(agenda) \/ ~ forRow(Head(agenda), r)
    BY <2>1 DEF forRow
  <2>3. c \in callsFor(agenda', r)
    BY <1>1, <2>1, <2>2
  <2> QED
    BY <2>1, <2>3 DEF opsFor
<1>5. Budgets'
  BY <1>4, BudgetsStay DEF Room
<1> QED
  BY <1>3, <1>5 DEF Room

\* A call that puts nothing in its place.
LEMMA RoomDone ==
  ASSUME EngineInv, Room, agenda # <<>>, Head(agenda).op \notin {"evict", "grow"}, next(<<>>), waiting' = waiting,
         \A r \in Range(running') :
           /\ r \in Range(running) /\ row'[r].tokens = row[r].tokens
           /\ ~ (Head(agenda).op = "finish" /\ Head(agenda).r = r)
  PROVE  Room'
<1> DEFINE s == <<>>
<1>1. s \in Seq(Range(s)) /\ Range(s) = {} /\ next(s)
  BY FewCalls
<1> HIDE DEF s
<1> QED
  BY <1>1, RoomBeside

\* A client's call finds nothing under way.
LEMMA RoomClient == ASSUME EngineInv, Room, Client PROVE Room'
<1>1. PICK r \in Req : Submit(r) \/ Take(r) \/ CancelWaiting(r) \/ CancelRunning(r)
  BY DEF Client
<1>2. agenda = <<>> /\ agenda' = <<>>
  BY <1>1 DEF Submit, Take, CancelWaiting, CancelRunning, idle
<1>3. row \in [Req -> RowType] /\ running \in Seq(Req) /\ waiting \in Seq(Req) /\ IsInjective(waiting) /\ IsInjective(running)
  BY DEF EngineInv, TypeOK, Pools, PoolsRight, Queue
<1>4. GrowsFit'
  BY <1>2, NoCall DEF GrowsFit
<1>5. \A q : opsFor(agenda, q) = {}
  BY <1>2, NoCalls DEF opsFor
<1>6. \A q \in Range(running) : q \in Req /\ ~ Queued(q) /\ row[q].phase \in {"prefill", "decode"}
  BY RunningRow
<1>7. /\ \A q \in Range(waiting') : q \in Range(waiting) \/ MaxNew[q] > 0
      /\ \A q \in Range(running') : q \in Range(running) /\ row'[q].tokens = row[q].tokens
  <2>1. CASE Submit(r)
    <3>1. MaxNew[r] \in Nat
      BY RequestAssumption
    <3>2. waiting' = waiting \/ (waiting' = Append(waiting, r) /\ MaxNew[r] > 0)
      BY <2>1, <3>1 DEF Submit
    <3>3. Range(Append(waiting, r)) = Range(waiting) \cup {r}
      BY <1>3, AppendedOnce
    <3>4. running' = running /\ r \notin Range(running) /\ \A q \in Req \ {r} : row'[q] = row[q]
      BY <1>3, <1>6, <2>1 DEF Submit
    <3> QED
      BY <1>6, <3>2, <3>3, <3>4
  <2>2. CASE Take(r)
    BY <2>2 DEF Take
  <2>3. CASE CancelWaiting(r)
    <3>1. running' = running /\ r \in Range(waiting) /\ waiting' = RemoveFirst(waiting, r) /\ \A q \in Req \ {r} : row'[q] = row[q]
      BY <1>3, <2>3 DEF CancelWaiting
    <3>2. Range(waiting') \subseteq Range(waiting)
      BY <1>3, <3>1, RemovedFirst
    <3>3. r \notin Range(running)
      BY <1>6, <3>1 DEF Queued
    <3> QED
      BY <1>6, <3>1, <3>2, <3>3
  <2>4. CASE CancelRunning(r)
    <3>1. r \in Range(running) /\ running' = RemoveFirst(running, r) /\ waiting' = waiting /\ \A q \in Req \ {r} : row'[q] = row[q]
      BY <1>3, <2>4 DEF CancelRunning
    <3>2. Range(running') = Range(running) \ {r}
      BY <1>3, <3>1, RemovedFirst
    <3> QED
      BY <1>6, <3>1, <3>2
  <2> QED
    BY <1>1, <2>1, <2>2, <2>3, <2>4
<1>8. Budgets'
  BY <1>5, <1>7, BudgetsStay DEF Room
<1> QED
  BY <1>4, <1>8 DEF Room

\* A tick begins, the head of the queue is weighed, or the forward raises.
LEMMA RoomLoneSteps ==
  ASSUME EngineInv, Room, StepBegin \/ AdmitNone \/ AdmitHead \/ Readmit \/ ForwardRaises
  PROVE  Room'
<1>1. CASE StepBegin
  <2>1. agenda = <<>> /\ UNCHANGED <<waiting, running, row>> /\ agenda' = <<[op |-> "plan"], [op |-> "end"]>>
    BY <1>1 DEF StepBegin, idle
  <2>2. Range(agenda') = {[op |-> "plan"], [op |-> "end"]}
    BY <2>1, FewCalls
  <2>3. \A c \in Range(agenda') : c.op # "grow"
    BY <2>2
  <2>4. \A r : opsFor(agenda, r) = {}
    BY <2>1, NoCalls DEF opsFor
  <2>5. Budgets'
    BY <2>1, <2>4, BudgetsStay DEF Room
  <2> QED
    BY <2>3, <2>5 DEF Room, GrowsFit
<1>2. CASE AdmitNone \/ AdmitHead \/ Readmit \/ ForwardRaises
  <2>1. agenda # <<>> /\ Head(agenda).op \in {"plan", "readmit", "forward"} /\ UNCHANGED <<waiting, running, row>>
    BY <1>2 DEF AdmitNone, AdmitHead, Readmit, ForwardRaises, doing
  <2> DEFINE n == needed(Head(waiting))
             v == <<[op |-> "evict", until |-> n], [op |-> "readmit"]>>
  <2>2. next(v) \/ \E op \in {"batch", "adopt", "failall"} : next(<<[op |-> op]>>)
    BY <1>2 DEF AdmitNone, AdmitHead, Readmit, ForwardRaises, admitVerdict
  <2>3. v \in Seq(Range(v)) /\ Range(v) = {[op |-> "evict", until |-> n], [op |-> "readmit"]}
    <3> HIDE DEF n
    <3> QED
      BY FewCalls
  <2>4. \A c \in Range(v) : c.op # "grow"
    <3> HIDE DEF n
    <3> QED
      BY <2>3
  <2> HIDE DEF v
  <2>5. CASE next(v)
    BY <2>1, <2>3, <2>4, <2>5, RoomBeside
  <2>6. ASSUME NEW op \in {"batch", "adopt", "failall"}, next(<<[op |-> op]>>) PROVE Room'
    <3> DEFINE s == <<[op |-> op]>>
    <3>1. s \in Seq(Range(s)) /\ Range(s) = {[op |-> op]} /\ next(s)
      BY <2>6, FewCalls
    <3> HIDE DEF s
    <3>2. \A c \in Range(s) : c.op # "grow"
      BY <3>1
    <3> QED
      BY <2>1, <3>1, <3>2, RoomBeside
  <2> QED
    BY <2>2, <2>5, <2>6
<1> QED
  BY <1>1, <1>2

\* Entries go, but not for a row that is to grow: the store's own limit, a row that outgrew its entry.
LEMMA RoomTrims == ASSUME EngineInv, Room, Trim \/ Retire PROVE Room'
<1>1. agenda # <<>> /\ Head(agenda).op \in {"trim", "retire"} /\ UNCHANGED <<waiting, running, row>>
      /\ (agenda' = agenda \/ next(<<>>))
  BY DEF Trim, Retire, doing
<1>2. CASE agenda' = agenda
  <2>1. \A c \in Range(agenda') : c.op # "grow"
    BY <1>1, <1>2, GrowsFirst DEF Room
  <2>2. \A r : opsFor(agenda', r) = opsFor(agenda, r)
    BY <1>2
  <2>3. Budgets'
    BY <1>1, <2>2, BudgetsStay DEF Room
  <2> QED
    BY <2>1, <2>3 DEF Room, GrowsFit
<1> QED
  BY <1>1, <1>2, RoomDone

\* A row leaves, having generated what it may or with all the others.
LEMMA RoomLeavers == ASSUME EngineInv, Room, Finish \/ FailAll PROVE Room'
<1>1. \A q \in Range(running) : q \in Req
  BY RunningRow
<1>2. CASE Finish
  <2>1. doing("finish") /\ finish(call.r, "finished") /\ UNCHANGED <<store, waiting>> /\ agenda # <<>> /\ next(<<>>)
    BY <1>2 DEF Finish, doing
  <2>2. call.r \in Range(running) /\ Head(agenda).op = "finish" /\ call = Head(agenda)
    BY <2>1, CallOfLive DEF RowOps, Live, doing, call
  <2>3. Range(running') = Range(running) \ {call.r} /\ \A q \in Req \ {call.r} : row'[q] = row[q]
    BY <2>1, <2>2, FinishedRow
  <2> QED
    BY <1>1, <2>1, <2>2, <2>3, RoomDone
<1>3. CASE FailAll /\ running = <<>>
  <2>1. agenda # <<>> /\ Head(agenda).op = "failall" /\ next(<<>>) /\ UNCHANGED <<waiting, running, row>>
    BY <1>3 DEF FailAll, doing
  <2> QED
    BY <2>1, RoomDone
<1>4. CASE FailAll /\ running # <<>>
  <2>1. agenda # <<>> /\ Head(agenda).op = "failall" /\ UNCHANGED <<waiting, store, agenda>> /\ finish(Head(running), "failed")
    BY <1>4 DEF FailAll, doing
  <2>2. Head(running) \in Range(running)
    <3>1. running \in Seq(Req)
      BY DEF EngineInv, TypeOK
    <3> QED
      BY <1>4, <3>1, TailOf
  <2>3. Range(running') = Range(running) \ {Head(running)} /\ \A q \in Req \ {Head(running)} : row'[q] = row[q]
    BY <2>1, <2>2, FinishedRow
  <2>4. \A c \in Range(agenda') : c.op # "grow"
    BY <2>1, GrowsFirst DEF Room
  <2>5. \A r : opsFor(agenda', r) = opsFor(agenda, r)
    BY <2>1
  <2>6. Budgets'
    BY <1>1, <2>1, <2>3, <2>5, BudgetsStay DEF Room
  <2> QED
    BY <2>4, <2>6 DEF Room, GrowsFit
<1> QED
  BY <1>2, <1>3, <1>4

\* A forward is followed by calls for the rows it ran.
LEMMA RoomForward == ASSUME Drafter = "none", EngineInv, Room, Forward PROVE Room'
<1> DEFINE ds == decodesLeft(call)
           ps == call.prefills
           a == afterForward(ds, ps)
<1>1. /\ UNCHANGED <<waiting, running, row>>
      /\ \A r \in Req : callsFor(agenda, r) = {}
      /\ AgendaRight(agenda')
      /\ \A r \in Req : callsFor(agenda', r) = callsFor(a, r)
      /\ \A d \in Range(ds) : callsFor(a, d.r) = {callOf("sample", d.r)}
      /\ \A f \in Range(ps) :
           callsFor(a, f.r) = {advanceOf(f)} \cup IF completes(f) THEN {callOf("sample", f.r), callOf("complete", f.r)} ELSE {}
      /\ \A r \in Req : (\A d \in Range(ds) : d.r # r) /\ (\A f \in Range(ps) : f.r # r) => callsFor(a, r) = {}
  BY ForwardRuns
<1> HIDE DEF ds, ps, a
<1>2. \A r \in Req : \A c \in callsFor(a, r) : c.op # "grow"
  BY <1>1 DEF callOf, advanceOf
<1>3. \A c \in Range(agenda') : c.op # "grow"
  <2> SUFFICES ASSUME NEW c \in Range(agenda'), c.op = "grow" PROVE FALSE
    OBVIOUS
  <2>1. c.r \in Req
    BY <1>1 DEF AgendaRight, CallType, RowOps
  <2>2. c \in callsFor(agenda', c.r)
    BY DEF callsFor, forRow, RowOps
  <2> QED
    BY <1>1, <1>2, <2>1, <2>2
<1>4. \A r \in Range(running) : r \in Req
  BY RunningRow
<1>5. \A r \in Range(running) : opsFor(agenda, r) = {}
  BY <1>1, <1>4 DEF opsFor
<1>6. Budgets'
  BY <1>1, <1>5, BudgetsStay DEF Room
<1> QED
  BY <1>3, <1>6 DEF Room, GrowsFit

\* A token is sampled, or ends the reply; a tick ends.
LEMMA RoomSamples == ASSUME EngineInv, Room, Sample \/ CommitStop \/ StepEnd PROVE Room'
<1>1. CASE Sample \/ CommitStop
  <2>1. agenda # <<>> /\ Head(agenda).op \in {"sample", "commit"} /\ UNCHANGED <<waiting, running, row>>
    BY <1>1 DEF Sample, CommitStop, doing
  <2>2. PICK c : next(<<c>>) /\ c.op # "grow"
    <3>1. CASE Sample
      <4>1. PICK tok \in Draw : next(<<[op |-> "commit", r |-> call.r, toks |-> <<tok>>]>>)
        BY <3>1 DEF Sample
      <4> DEFINE d == [op |-> "commit", r |-> call.r, toks |-> <<tok>>]
      <4>2. d.op = "commit" /\ next(<<d>>)
        BY <4>1
      <4> HIDE DEF d
      <4> QED
        BY <4>2
    <3>2. CASE CommitStop
      <4> DEFINE d == [op |-> "finish", r |-> call.r]
      <4>1. d.op = "finish" /\ next(<<d>>)
        BY <3>2 DEF CommitStop
      <4> HIDE DEF d
      <4> QED
        BY <4>1
    <3> QED
      BY <1>1, <3>1, <3>2
  <2> DEFINE s == <<c>>
  <2>3. s \in Seq(Range(s)) /\ Range(s) = {c} /\ next(s)
    BY <2>2, FewCalls
  <2> HIDE DEF s
  <2> QED
    BY <2>1, <2>2, <2>3, RoomBeside
<1>2. CASE StepEnd
  <2>1. agenda # <<>> /\ Head(agenda).op = "end" /\ next(<<>>) /\ UNCHANGED <<waiting, running>>
        /\ row' = [r \in Req |-> IF row[r].phase = "done" THEN goneRow(r) ELSE row[r]]
    BY <1>2 DEF StepEnd, doing
  <2>2. ASSUME NEW r \in Range(running) PROVE row'[r] = row[r]
    <3>1. r \in Req /\ row[r].phase \in {"prefill", "decode"}
      BY RunningRow
    <3> QED
      BY <2>1, <3>1
  <2> QED
    BY <2>1, <2>2, RoomDone
<1> QED
  BY <1>1, <1>2

\* What is set of a row is not its tokens, unless they are.
LEMMA TokensApart ==
  ASSUME NEW rw \in RowType
  PROVE  /\ \A n : [rw EXCEPT !.decodeEntry = n].tokens = rw.tokens
         /\ \A to, i, p : [rw EXCEPT !.prefillFrom = to, !.seqLen = to, !.interior = i, !.pending = p].tokens = rw.tokens
         /\ \A ph, p : [rw EXCEPT !.phase = ph, !.pending = p].tokens = rw.tokens
         /\ \A ts, closed, n : [rw EXCEPT !.tokens = ts, !.closed = closed, !.seqLen = n].tokens = ts
         /\ \A bs, n : [rw EXCEPT !.blocks = bs, !.own = n].tokens = rw.tokens
         /\ \A bs, n, sl, m : [rw EXCEPT !.blocks = bs, !.own = n, !.slot = sl, !.seqLen = m, !.prefillFrom = m].tokens = rw.tokens
BY DEF RowType

\* Calls for one row that leave its tokens alone: an entry is stored, a chunk or a prompt ends.
LEMMA RoomPublish == ASSUME EngineInv, Room, Publish PROVE Room'
<1> DEFINE key == SubSeq(row[call.r].tokens, 1, call.len)
           o == [op |-> "retire", key |-> SubSeq(key, 1, row[call.r].decodeEntry)]
           t == [op |-> "trim"]
<1>1. agenda # <<>> /\ Head(agenda).op = "publish" /\ UNCHANGED <<waiting, running>> /\ doing("publish")
  BY DEF Publish, doing
<1>2. \E s \in {<<>>, <<t>> \o <<>>, <<t>> \o <<o>>} : next(s)
  BY DEF Publish
<1>3. t.op = "trim" /\ o.op = "retire"
  OBVIOUS
<1>4. row \in [Req -> RowType]
  BY DEF EngineInv, TypeOK
<1>5. \A r \in Range(running) : r \in Req
  BY RunningRow
<1>6. \A r \in Req : row'[r].tokens = row[r].tokens
  <2> SUFFICES ASSUME NEW r \in Req PROVE row'[r].tokens = row[r].tokens
    OBVIOUS
  <2>1. row' = row \/ \E n : row' = [row EXCEPT ![call.r].decodeEntry = n]
    BY DEF Publish
  <2>2. ASSUME NEW n, row' = [row EXCEPT ![call.r].decodeEntry = n] PROVE row'[r].tokens = row[r].tokens
    <3>1. row[r] \in RowType
      BY <1>4
    <3>2. [row[r] EXCEPT !.decodeEntry = n].tokens = row[r].tokens
      BY <3>1, TokensApart
    <3>3. row'[r] = row[r] \/ row'[r] = [row[r] EXCEPT !.decodeEntry = n]
      BY <1>4, <2>2
    <3> QED
      BY <3>2, <3>3
  <2> QED
    BY <2>1, <2>2
<1> HIDE DEF o, t
<1>7. PICK s : s \in Seq(Range(s)) /\ (\A c \in Range(s) : c.op # "grow") /\ next(s)
  <2>1. /\ <<>> \in Seq(Range(<<>>)) /\ Range(<<>>) = {}
        /\ <<t>> \in Seq(Range(<<t>>)) /\ Range(<<t>>) = {t}
        /\ <<t, o>> \in Seq(Range(<<t, o>>)) /\ Range(<<t, o>>) = {t, o}
    BY FewCalls
  <2>2. <<t>> \o <<>> = <<t>> /\ <<t>> \o <<o>> = <<t, o>>
    BY PairOf
  <2>3. next(<<>>) \/ next(<<t>>) \/ next(<<t, o>>)
    BY <1>2, <2>2
  <2>4. CASE next(<<>>)
    BY <2>1, <2>4
  <2>5. CASE next(<<t>>)
    <3> DEFINE s == <<t>>
    <3>1. s \in Seq(Range(s)) /\ Range(s) = {t} /\ next(s)
      BY <2>1, <2>5
    <3> HIDE DEF s
    <3> QED
      BY <1>3, <3>1
  <2>6. CASE next(<<t, o>>)
    <3> DEFINE s == <<t, o>>
    <3>1. s \in Seq(Range(s)) /\ Range(s) = {t, o} /\ next(s)
      BY <2>1, <2>6
    <3> HIDE DEF s
    <3> QED
      BY <1>3, <3>1
  <2> QED
    BY <2>3, <2>4, <2>5, <2>6
<1> QED
  BY <1>1, <1>5, <1>6, <1>7, RoomBeside

\* A chunk or a prompt has been run: the row has no more tokens than before.
LEMMA RoomChunks == ASSUME EngineInv, Room, Advance \/ Complete PROVE Room'
<1>1. agenda # <<>> /\ Head(agenda).op \in {"advance", "complete"} /\ UNCHANGED <<waiting, running>>
  BY DEF Advance, Complete, doing
<1>2. row \in [Req -> RowType]
  BY DEF EngineInv, TypeOK
<1>3. \A r \in Range(running) : r \in Req
  BY RunningRow
<1>4. \A r \in Req : row'[r].tokens = row[r].tokens
  <2> SUFFICES ASSUME NEW r \in Req PROVE row'[r].tokens = row[r].tokens
    OBVIOUS
  <2>1. row[r] \in RowType
    BY <1>2
  <2>2. CASE Advance
    <3>1. \E to, i, p : row' = [row EXCEPT ![call.r].prefillFrom = to, ![call.r].seqLen = to, ![call.r].interior = i, ![call.r].pending = p]
      BY <2>2 DEF Advance
    <3>2. PICK to, i, p : row' = [row EXCEPT ![call.r].prefillFrom = to, ![call.r].seqLen = to, ![call.r].interior = i, ![call.r].pending = p]
      BY <3>1
    <3>3. row'[r] = row[r] \/ row'[r] = [row[r] EXCEPT !.prefillFrom = to, !.seqLen = to, !.interior = i, !.pending = p]
      BY <1>2, <3>2
    <3>4. [row[r] EXCEPT !.prefillFrom = to, !.seqLen = to, !.interior = i, !.pending = p].tokens = row[r].tokens
      BY <2>1, TokensApart
    <3> QED
      BY <3>3, <3>4
  <2>3. CASE Complete
    <3>1. row' = row \/ row' = [row EXCEPT ![call.r].phase = "decode", ![call.r].pending = NoSnapshot]
      BY <2>3 DEF Complete
    <3>2. row'[r] = row[r] \/ row'[r] = [row[r] EXCEPT !.phase = "decode", !.pending = NoSnapshot]
      BY <1>2, <3>1
    <3>3. [row[r] EXCEPT !.phase = "decode", !.pending = NoSnapshot].tokens = row[r].tokens
      BY <2>1, TokensApart
    <3> QED
      BY <3>2, <3>3
  <2> QED
    BY <2>2, <2>3
<1>5. next(<<>>) \/ \E len, snapshot : next(publishPrompt(call.r, len, snapshot))
  <2>1. CASE Advance
    BY <2>1 DEF Advance
  <2>2. CASE Complete
    BY <2>2 DEF Complete, completionEntry
  <2> QED
    BY <2>1, <2>2
<1>6. CASE next(<<>>)
  BY <1>1, <1>3, <1>4, <1>6, RoomDone
<1>7. ASSUME NEW len, NEW snapshot, next(publishPrompt(call.r, len, snapshot)) PROVE Room'
  <2> DEFINE c == [op |-> "publish", r |-> call.r, len |-> len, state |-> snapshot, decode |-> FALSE]
             s == <<c>>
  <2>1. c.op = "publish" /\ next(s)
    BY <1>7 DEF publishPrompt
  <2> HIDE DEF c
  <2>2. s \in Seq(Range(s)) /\ Range(s) = {c}
    BY FewCalls
  <2> HIDE DEF s
  <2> QED
    BY <1>1, <1>3, <1>4, <2>1, <2>2, RoomBeside
<1> QED
  BY <1>5, <1>6, <1>7

\* A token that is the last the budget has for a row, or ends its text, is followed by its end.
LEMMA RoomCommit == ASSUME EngineInv, Room, CommitToken PROVE Room'
<1>0. PICK r : r = call.r
  OBVIOUS
<1> DEFINE rw == row[r]
           T == callsFor(Tail(agenda), r)
           f == [op |-> "finish", r |-> r]
           p == [op |-> "publish", r |-> r, len |-> rw.seqLen, state |-> state[rw.slot], decode |-> TRUE]
           over == outLen(r) + 1 >= MaxNew[r]
<1>1. /\ doing("commit") /\ agenda # <<>> /\ Head(agenda).op = "commit" /\ call = Head(agenda)
      /\ UNCHANGED <<waiting, running>>
  BY DEF CommitToken, doing, call
<1>2. /\ r \in Range(running) /\ r \in Req
      /\ callsFor(agenda, r) = T \cup {call} /\ \A c \in T : c.op = "complete"
  BY <1>0, <1>1, OnlyComplete
<1>3. /\ row \in [Req -> RowType] /\ row[r] \in RowType /\ rw.tokens \in Seq(Tokens) /\ promptLen(r) \in Nat
  BY <1>2, RunningRow
<1>4. PICK tok : row'[r].tokens = Append(rw.tokens, tok) /\ \A q \in Req \ {r} : row'[q] = row[q]
  <2>1. \E tok, closed, n : row' = [row EXCEPT ![r].tokens = Append(rw.tokens, tok), ![r].closed = closed, ![r].seqLen = n]
    BY <1>0 DEF CommitToken
  <2>2. PICK tok, closed, n : row' = [row EXCEPT ![r].tokens = Append(rw.tokens, tok), ![r].closed = closed, ![r].seqLen = n]
    BY <2>1
  <2> DEFINE ts == Append(rw.tokens, tok)
  <2>3. row'[r] = [rw EXCEPT !.tokens = ts, !.closed = closed, !.seqLen = n] /\ \A q \in Req \ {r} : row'[q] = row[q]
    BY <1>2, <1>3, <2>2
  <2>4. row'[r].tokens = ts
    <3> HIDE DEF ts
    <3> QED
      BY <1>3, <2>3, TokensApart
  <2> QED
    BY <2>3, <2>4
<1>5. PICK s : /\ s \in Seq(Range(s)) /\ (\A c \in Range(s) : c.op # "grow") /\ next(s)
               /\ over => f \in Range(s)
  <2>1. Tail(call.toks) = <<>>
    <3>1. CallType(call)
      BY <1>1, Doing
    <3>2. PICK x \in Draw : call.toks = <<x>>
      BY <1>1, <3>1 DEF CallType
    <3> QED
      BY <3>2
  <2> DEFINE publish == IF decodeBoundary(r, Tail(call.toks) = <<>>) THEN <<p>> ELSE <<>>
             after == IF over THEN <<f>> ELSE <<>>
  <2>2. next(<<f>>) \/ next(publish \o after)
    <3>1. next(<<f>>) \/ \E tk, raw :
             next(publish \o (IF over THEN <<f>> ELSE IF tk # raw \/ Tail(call.toks) = <<>> THEN <<>>
                              ELSE <<[op |-> "commit", r |-> r, toks |-> Tail(call.toks)]>>))
      BY <1>0 DEF CommitToken
    <3> QED
      BY <2>1, <3>1
  <2>3. f.op = "finish" /\ p.op = "publish"
    OBVIOUS
  <2> HIDE DEF f, p, over
  <2>4. /\ <<>> \in Seq(Range(<<>>)) /\ Range(<<>>) = {}
        /\ <<f>> \in Seq(Range(<<f>>)) /\ Range(<<f>>) = {f}
        /\ <<p>> \in Seq(Range(<<p>>)) /\ Range(<<p>>) = {p}
        /\ <<p, f>> \in Seq(Range(<<p, f>>)) /\ Range(<<p, f>>) = {p, f}
    BY FewCalls
  <2>5. publish \o after \in {<<>>, <<f>>, <<p>>, <<p, f>>} /\ (over => publish \o after \in {<<f>>, <<p, f>>})
    <3>1. <<p>> \o <<f>> = <<p, f>>
      BY PairOf
    <3>2. <<>> \o <<>> = <<>> /\ <<>> \o <<f>> = <<f>> /\ <<p>> \o <<>> = <<p>>
      OBVIOUS
    <3>3. publish \in {<<>>, <<p>>} /\ after \in {<<>>, <<f>>} /\ (over => after = <<f>>)
      OBVIOUS
    <3> HIDE DEF publish, after
    <3> QED
      BY <3>1, <3>2, <3>3
  <2> HIDE DEF publish, after
  <2>6. PICK s \in {<<>>, <<f>>, <<p>>, <<p, f>>} : next(s) /\ (over => s \in {<<f>>, <<p, f>>})
    BY <2>2, <2>5
  <2>7. s \in Seq(Range(s)) /\ Range(s) \subseteq {p, f} /\ (over => f \in Range(s))
    BY <2>4, <2>6
  <2> QED
    BY <2>3, <2>6, <2>7
<1>6. /\ Range(agenda') = Range(s) \cup Range(Tail(agenda))
      /\ Range(agenda) = {Head(agenda)} \cup Range(Tail(agenda))
      /\ \A q : callsFor(agenda', q) = callsFor(s, q) \cup callsFor(Tail(agenda), q)
      /\ \A q : callsFor(agenda, q) = callsFor(Tail(agenda), q) \cup (IF forRow(Head(agenda), q) THEN {Head(agenda)} ELSE {})
  BY <1>1, <1>5, NextCalls
<1>7. GrowsFit'
  <2>1. \A c \in Range(agenda') : c.op # "grow"
    BY <1>1, <1>5, <1>6, GrowsFirst DEF Room
  <2> QED
    BY <2>1 DEF GrowsFit
<1>8. "finish" \notin opsFor(agenda, r)
  BY <1>1, <1>2 DEF opsFor
<1>9. outLen(r) \in Int /\ MaxNew[r] \in Nat /\ outLen(r) < MaxNew[r] /\ outLen(r)' = outLen(r) + 1
  <2>1. MaxNew[r] \in Nat
    BY <1>2, RequestAssumption
  <2>2. outLen(r) < MaxNew[r]
    BY <1>2, <1>8 DEF Room, Budgets
  <2>3. Len(rw.tokens) \in Nat /\ Len(row'[r].tokens) = Len(rw.tokens) + 1
    BY <1>3, <1>4
  <2>4. outLen(r) = Len(rw.tokens) - promptLen(r)
    BY DEF outLen, promptLen
  <2>5. outLen(r)' = Len(row'[r].tokens) - promptLen(r)
    BY DEF outLen, promptLen
  <2> HIDE DEF rw
  <2> QED
    BY <1>3, <2>1, <2>2, <2>3, <2>4, <2>5
<1>10. outLen(r)' < MaxNew[r] \/ (outLen(r)' = MaxNew[r] /\ "finish" \in opsFor(agenda', r))
  <2>1. over => "finish" \in opsFor(agenda', r)
    <3>1. f.op = "finish" /\ f.r = r
      OBVIOUS
    <3> HIDE DEF f, over
    <3>2. over => f \in callsFor(agenda', r)
      BY <1>5, <1>6, <3>1 DEF callsFor, forRow, RowOps
    <3> QED
      BY <3>1, <3>2 DEF opsFor
  <2>2. ~ over => outLen(r)' < MaxNew[r]
    BY <1>9
  <2> QED
    BY <1>9, <2>1, <2>2
<1> HIDE DEF over, f, p, T
<1>11. ASSUME NEW q \in Range(running), q # r
       PROVE  /\ q \in Req /\ outLen(q)' = outLen(q)
              /\ "finish" \in opsFor(agenda, q) => "finish" \in opsFor(agenda', q)
  <2>1. q \in Req
    BY RunningRow
  <2>2. outLen(q)' = outLen(q)
    BY <1>4, <1>11, <2>1 DEF outLen
  <2>3. callsFor(agenda, q) \subseteq callsFor(Tail(agenda), q) \cup {Head(agenda)}
    BY <1>6
  <2>4. "finish" \in opsFor(agenda, q) => "finish" \in opsFor(agenda', q)
    BY <1>1, <1>6, <2>3 DEF opsFor
  <2> QED
    BY <2>1, <2>2, <2>4
<1>12. Budgets'
  <2>1. /\ \A q \in Range(waiting) \cup Range(running) : MaxNew[q] > 0
        /\ \A q \in Range(running) : outLen(q) <= MaxNew[q] /\ ("finish" \in opsFor(agenda, q) \/ outLen(q) < MaxNew[q])
    BY DEF Room, Budgets
  <2>2. ASSUME NEW q \in Range(running)
        PROVE  outLen(q)' <= MaxNew[q] /\ ("finish" \in opsFor(agenda', q) \/ outLen(q)' < MaxNew[q])
    <3>1. CASE q = r
      <4> DEFINE z == outLen(r)'
      <4>1. z \in Int /\ MaxNew[r] \in Nat /\ (z < MaxNew[r] \/ (z = MaxNew[r] /\ "finish" \in opsFor(agenda', r)))
        BY <1>9, <1>10
      <4> HIDE DEF z
      <4>2. z <= MaxNew[r] /\ ("finish" \in opsFor(agenda', r) \/ z < MaxNew[r])
        BY <4>1
      <4> QED
        BY <3>1, <4>2 DEF z
    <3>2. CASE q # r
      BY <1>11, <2>1, <3>2
    <3> QED
      BY <3>1, <3>2
  <2> QED
    BY <1>1, <2>1, <2>2 DEF Budgets
<1> QED
  BY <1>7, <1>12 DEF Room

\* A row that is admitted has generated nothing yet.
LEMMA RoomAdopt == ASSUME EngineInv, Room, Adopt PROVE Room'
<1> DEFINE r == Head(waiting)
           hit == hitIn(Range(store), row[r].tokens)
           new == freshOf(free, needed(r))
           slot == Last(freeSlots)
           rx == AdoptedRowOf(r, hit, new, slot)
           s == <<[op |-> "plan"]>>
<1>1. /\ r \in Req /\ r \notin Range(running) /\ callsFor(agenda, r) = {}
      /\ row' = [row EXCEPT ![r] = rx]
      /\ running' = Append(running, r) /\ next(s)
  BY AdoptedAs
<1>2. agenda # <<>> /\ Head(agenda).op = "adopt" /\ waiting' = Tail(waiting)
  BY DEF Adopt, doing
<1>3. s \in Seq(Range(s)) /\ Range(s) = {[op |-> "plan"]}
  BY FewCalls
<1> HIDE DEF s
<1>4. row \in [Req -> RowType] /\ row[r] \in RowType /\ running \in Seq(Req) /\ waiting \in Seq(Req)
  BY <1>1 DEF EngineInv, TypeOK
<1>5. waiting # <<>>
  <2>1. Head(agenda) \in Range(agenda)
    BY <1>2, TakenCall DEF EngineInv
  <2> QED
    BY <1>2, <2>1 DEF EngineInv, Admission, roomForOne
<1>6. r \in Range(waiting) /\ Range(waiting') \subseteq Range(waiting)
  <2>1. IsInjective(waiting)
    BY DEF EngineInv, Queue
  <2> QED
    BY <1>2, <1>4, <1>5, <2>1, TailOf
<1> HIDE DEF r
<1>7. rx.tokens = row[r].tokens
  <2> DEFINE bs == hit.blocks \o new
             n == Len(new)
             m == Len(hit.tokens)
  <2>1. rx = [row[r] EXCEPT !.blocks = bs, !.own = n, !.slot = slot, !.seqLen = m, !.prefillFrom = m]
    BY DEF AdoptedRowOf
  <2> HIDE DEF hit, new, slot, bs, n, m, rx
  <2> QED
    BY <1>4, <2>1, TokensApart
<1>8. row[r].tokens = Prompt[r]
  <2>1. RowRight(r, row[r], callsFor(agenda, r), Live(r), Queued(r), result[r])
    BY <1>1, RowKnown
  <2>2. row[r] = [newRow(r) EXCEPT !.phase = "prefill"]
    BY <1>6, <2>1 DEF RowRight, Queued
  <2> QED
    BY <2>2 DEF newRow
<1> HIDE DEF hit, new, slot, rx
<1>9. /\ Range(running') = Range(running) \cup {r}
      /\ row'[r].tokens = Prompt[r] /\ \A q \in Req \ {r} : row'[q] = row[q]
  <2>1. Range(Append(running, r)) = Range(running) \cup {r}
    BY <1>1, <1>4, AppendedOnce
  <2> QED
    BY <1>1, <1>4, <1>7, <1>8, <2>1
<1>10. /\ Range(agenda') = Range(s) \cup Range(Tail(agenda))
       /\ Range(agenda) = {Head(agenda)} \cup Range(Tail(agenda))
       /\ \A q : callsFor(agenda', q) = callsFor(s, q) \cup callsFor(Tail(agenda), q)
       /\ \A q : callsFor(agenda, q) = callsFor(Tail(agenda), q) \cup (IF forRow(Head(agenda), q) THEN {Head(agenda)} ELSE {})
  BY <1>1, <1>2, <1>3, NextCalls
<1>11. GrowsFit'
  <2>1. \A c \in Range(agenda') : c.op # "grow"
    BY <1>2, <1>3, <1>10, GrowsFirst DEF Room
  <2> QED
    BY <2>1 DEF GrowsFit
<1>12. \A q : opsFor(agenda, q) \subseteq opsFor(agenda', q)
  <2>1. \A q : ~ forRow(Head(agenda), q)
    BY <1>2 DEF forRow, RowOps
  <2> QED
    BY <1>10, <2>1 DEF opsFor
<1>13. Budgets'
  <2>1. /\ \A q \in Range(waiting) \cup Range(running) : MaxNew[q] > 0
        /\ \A q \in Range(running) : outLen(q) <= MaxNew[q] /\ ("finish" \in opsFor(agenda, q) \/ outLen(q) < MaxNew[q])
    BY DEF Room, Budgets
  <2>2. ASSUME NEW q \in Range(running') PROVE outLen(q)' <= MaxNew[q] /\ ("finish" \in opsFor(agenda', q) \/ outLen(q)' < MaxNew[q])
    <3>1. CASE q = r
      <4>1. outLen(q)' = Len(Prompt[r]) - Len(Prompt[r])
        BY <1>9, <3>1 DEF outLen
      <4>2. Len(Prompt[r]) \in Nat
        BY <1>1, TokensAre DEF promptLen
      <4>3. outLen(q)' = 0 /\ MaxNew[q] > 0 /\ MaxNew[q] \in Nat
        BY <1>1, <1>6, <2>1, <3>1, <4>1, <4>2, RequestAssumption
      <4> QED
        BY <4>3
    <3>2. CASE q # r
      <4>1. q \in Range(running) /\ q \in Req
        BY <1>9, <3>2, RunningRow
      <4>2. outLen(q)' = outLen(q)
        BY <1>9, <3>2, <4>1 DEF outLen
      <4> QED
        BY <1>12, <2>1, <4>1, <4>2
    <3> QED
      BY <3>1, <3>2
  <2>3. \A q \in Range(waiting') \cup Range(running') : MaxNew[q] > 0
    BY <1>6, <1>9, <2>1
  <2> QED
    BY <2>2, <2>3 DEF Budgets
<1> QED
  BY <1>11, <1>13 DEF Room

-----------------------------------------------------------------------------
(* The blocks that rows are to take *)

\* The store is asked for what the decoding rows of the batch lack.
LEMMA RoomFormBatch == ASSUME EngineInv, EngineInv', Room, FormBatch PROVE Room'
<1> DEFINE D == those(running, {r \in Req : row[r].phase = "decode"})
           ps == prefillPlan(D)
           ds == chainsOf(D, ps)
           work == [op |-> "forward", decodes |-> ds, prefills |-> ps]
           e == [op |-> "evict", until |-> growth(ds)]
           g == growsOf(ds)
           t == Append(g, work)
           u == t \o Tail(agenda)
           s == [i \in DOMAIN ds |-> decodeExtraBlocks(row[ds[i].r].seqLen, Len(ds[i].chain), Len(row[ds[i].r].blocks))]
<1>1. agenda # <<>> /\ Head(agenda).op = "batch" /\ UNCHANGED <<waiting, running, row, free>>
  BY DEF FormBatch, doing
<1>2. next(IF ds = <<>> /\ ps = <<>> THEN <<>> ELSE (IF growth(ds) = 0 THEN <<>> ELSE <<e>>) \o t)
  BY DEF FormBatch, growsOf
<1>3. work.op = "forward" /\ e.op = "evict" /\ e.until = growth(ds)
  OBVIOUS
<1> HIDE DEF work, e
<1>4. row \in [Req -> RowType] /\ running \in Seq(Req) /\ AgendaRight(agenda) /\ free \in Seq(Block)
  BY DEF EngineInv, TypeOK
<1>5. Len(ds) \in Nat /\ DOMAIN ds = 1 .. Len(ds)
  <2>1. D \in Seq(Req)
    BY <1>4, ThoseOf
  <2> HIDE DEF D, ps
  <2>2. Len(D) \in Nat /\ DOMAIN D = 1 .. Len(D)
    BY <2>1
  <2> DEFINE c(i) == ds[i]
  <2>3. ds = [i \in DOMAIN D |-> c(i)]
    BY DEF chainsOf
  <2> HIDE DEF ds, c
  <2> QED
    BY <2>2, <2>3
<1> HIDE DEF D, ps, ds
<1>6. /\ g \in Seq(Range(g)) /\ Len(g) = Len(ds)
      /\ \A i \in 1 .. Len(ds) : g[i].op = "grow" /\ lack(row, g[i]) = s[i]
  <2> DEFINE c(i) == [op |-> "grow", r |-> ds[i].r, q |-> Len(ds[i].chain)]
  <2>1. g = [i \in 1 .. Len(ds) |-> c(i)]
    BY <1>5 DEF growsOf
  <2>2. \A i \in 1 .. Len(ds) : c(i).op = "grow" /\ lack(row, c(i)) = s[i]
    BY <1>5 DEF lack
  <2> HIDE DEF g, s, c
  <2>3. Len(g) = Len(ds) /\ \A i \in 1 .. Len(ds) : g[i] = c(i)
    BY <1>5, <2>1
  <2>4. g \in Seq(Range(g))
    <3> DEFINE S == {c(i) : i \in 1 .. Len(ds)}
    <3>1. \A i \in 1 .. Len(ds) : c(i) \in S
      OBVIOUS
    <3> HIDE DEF S
    <3>2. g \in Seq(S)
      BY <1>5, <2>1, <3>1
    <3> QED
      BY <3>2, OfItsOwn
  <2> QED
    BY <2>2, <2>3, <2>4
<1>7. growth(ds) = total(s)
  BY DEF growth
<1> HIDE DEF g, s
<1>8. /\ Tail(agenda) \in Seq(Range(Tail(agenda)))
      /\ \A c \in Range(Tail(agenda)) : c.op = "end"
  <2>1. AgendaRight(Tail(agenda)) /\ \A c \in Range(Tail(agenda)) : Head(agenda).op \in Lone => c.op = "end"
    BY <1>1, <1>4, TakenCall
  <2> QED
    BY <1>1, <2>1 DEF Lone, AgendaRight
<1>9. Budgets'
  <2>1. \A r \in Range(running) : r \in Req
    BY RunningRow
  <2>2. \A r \in Req : callsFor(agenda, r) = {}
    <3>1. \A r \in Req : /\ callsFor(agenda, r) = callsFor(Tail(agenda), r) \cup (IF forRow(Head(agenda), r) THEN {Head(agenda)} ELSE {})
                         /\ callsFor(Tail(agenda), r) = {}
      BY <1>1, <1>4, TakenFor DEF Lone
    <3> QED
      BY <1>1, <3>1 DEF forRow, RowOps
  <2>3. \A r \in Range(running) : opsFor(agenda, r) = {}
    BY <2>1, <2>2 DEF opsFor
  <2> QED
    BY <1>1, <2>3, BudgetsStay DEF Room
<1>10. CASE agenda' = Tail(agenda)
  <2>1. GrowsFit'
    BY <1>8, <1>10 DEF GrowsFit
  <2> QED
    BY <1>9, <2>1 DEF Room
<1> DEFINE m == Len(ds)
<1>11. /\ u \in Seq(Range(u)) /\ Len(u) > m /\ u[m + 1] = work /\ work \in Range(u) /\ u # <<>> /\ Head(u) = u[1]
       /\ \A i \in 1 .. Len(u) : IF i <= m THEN u[i] = g[i] ELSE u[i].op # "grow"
       /\ \A c \in Range(u) : c.op # "evict"
  <2> DEFINE v == Tail(agenda)
  <2>1. v \in Seq(Range(v)) /\ \A c \in Range(v) : c.op = "end"
    BY <1>8
  <2> HIDE DEF v
  <2> DEFINE S == Range(g) \cup {work} \cup Range(v)
  <2>2. g \in Seq(S) /\ v \in Seq(S) /\ work \in S
    BY <1>6, <2>1
  <2> HIDE DEF S
  <2>3. t \in Seq(S) /\ Len(t) = m + 1 /\ (\A i \in 1 .. m : t[i] = g[i]) /\ t[m + 1] = work
    BY <1>5, <1>6, <2>2
  <2> HIDE DEF t
  <2>4. /\ t \o v \in Seq(S) /\ Len(t \o v) = Len(t) + Len(v) /\ Len(v) \in Nat
        /\ (\A i \in 1 .. m + 1 : (t \o v)[i] = t[i])
        /\ \A i \in 1 .. Len(v) : (t \o v)[m + 1 + i] = v[i]
    <3>1. m \in Nat /\ Len(v) \in Nat /\ Len(t) \in Nat
      BY <1>5, <2>2, <2>3
    <3> HIDE DEF m
    <3>2. t \o v \in Seq(S) /\ Len(t \o v) = Len(t) + Len(v)
      BY <2>2, <2>3
    <3>3. \A i \in 1 .. Len(t) + Len(v) : (t \o v)[i] = IF i <= Len(t) THEN t[i] ELSE v[i - Len(t)]
      BY <2>2, <2>3
    <3>4. \A i \in 1 .. m + 1 : (t \o v)[i] = t[i]
      BY <2>3, <3>1, <3>3
    <3>5. ASSUME NEW i \in 1 .. Len(v) PROVE (t \o v)[m + 1 + i] = v[i]
      <4>1. m + 1 + i \in 1 .. Len(t) + Len(v) /\ ~ (m + 1 + i <= Len(t)) /\ (m + 1 + i) - Len(t) = i
        BY <2>3, <3>1
      <4> QED
        BY <3>3, <4>1
    <3> QED
      BY <3>1, <3>2, <3>4, <3>5
  <2>5. u = t \o v
    BY DEF v
  <2> HIDE DEF u, m
  <2>6. m \in Nat
    BY <1>5 DEF m
  <2>7. \A i \in 1 .. Len(v) : v[i].op = "end"
    BY <2>1
  <2>8. \A i \in 1 .. Len(u) : i > m + 1 => u[i].op = "end"
    <3> SUFFICES ASSUME NEW i \in 1 .. Len(u), i > m + 1 PROVE u[i].op = "end"
      OBVIOUS
    <3> DEFINE j == i - (m + 1)
    <3>1. j \in 1 .. Len(v) /\ m + 1 + j = i
      BY <2>3, <2>4, <2>5, <2>6
    <3> HIDE DEF j
    <3> QED
      BY <2>4, <2>5, <2>7, <3>1
  <2>9. u[m + 1] = work /\ \A i \in 1 .. m : u[i] = g[i]
    BY <2>3, <2>4, <2>5, <2>6
  <2>10. u \in Seq(S) /\ Len(u) \in Nat /\ Len(u) >= m + 1
    BY <2>3, <2>4, <2>5, <2>6
  <2>11. Range(u) = {u[i] : i \in 1 .. Len(u)} /\ u \in Seq(Range(u))
    BY <2>10, RangeOf, OfItsOwn
  <2>12. m + 1 \in 1 .. Len(u)
    BY <2>6, <2>10
  <2>13. \A i \in 1 .. Len(u) : i <= m \/ i = m + 1 \/ i > m + 1
    BY <2>6, <2>10
  <2>14. \A i \in 1 .. Len(u) : IF i <= m THEN u[i] = g[i] ELSE u[i].op # "grow"
    BY <1>3, <2>6, <2>8, <2>9, <2>13
  <2>15. \A i \in 1 .. Len(u) : u[i].op # "evict"
    <3>1. \A i \in 1 .. m : g[i].op = "grow"
      BY <1>6 DEF m
    <3> QED
      BY <1>3, <2>6, <2>8, <2>9, <2>13, <3>1
  <2>16. u # <<>> /\ Head(u) = u[1]
    BY <2>6, <2>10
  <2> QED
    BY <2>6, <2>9, <2>10, <2>11, <2>12, <2>14, <2>15, <2>16
<1> HIDE DEF u
<1>12. Range(u) = {u[i] : i \in 1 .. Len(u)}
  BY <1>11, RangeOf
<1>13. ASSUME AgendaRight(u) PROVE lacks(row, u) = growth(ds) /\ growth(ds) \in Nat
  <2>1. ASSUME NEW i \in 1 .. Len(ds) PROVE s[i] \in Nat
    <3>1. i \in 1 .. Len(u) /\ u[i] = g[i]
      BY <1>5, <1>11
    <3>2. u[i] \in Range(u)
      BY <1>12, <3>1
    <3>3. CallType(g[i])
      BY <1>13, <3>1, <3>2 DEF AgendaRight
    <3> QED
      BY <1>4, <1>6, <3>3, LackIs
  <2>2. s \in Seq(Nat) /\ Len(s) = Len(ds)
    <3> DEFINE c(i) == decodeExtraBlocks(row[ds[i].r].seqLen, Len(ds[i].chain), Len(row[ds[i].r].blocks))
    <3>1. s = [i \in 1 .. Len(ds) |-> c(i)]
      BY <1>5 DEF s
    <3> HIDE DEF c
    <3>2. s \in [1 .. Len(ds) -> Nat]
      BY <2>1, <3>1
    <3> QED
      BY <1>5, <3>2
  <2>3. lacks(row, u) = total(s)
    <3>1. \A i \in 1 .. Len(ds) : lack(row, u[i]) = s[i]
      BY <1>5, <1>6, <1>11
    <3>2. \A i \in 1 .. Len(u) : i > Len(ds) => u[i].op # "grow"
      BY <1>5, <1>11
    <3>3. Len(ds) <= Len(u)
      BY <1>5, <1>11
    <3>4. row \in [Req -> RowType] /\ AgendaRight(u) /\ Len(ds) \in Nat /\ s \in Seq(Nat) /\ Len(s) = Len(ds)
      BY <1>4, <1>5, <1>13, <2>2
    <3>5. PICK q : q = [i \in DOMAIN u |-> lack(row, u[i])]
      OBVIOUS
    <3>6. q \in Seq(Nat) /\ Len(q) = Len(u) /\ Len(u) \in Nat /\ DOMAIN u = 1 .. Len(u)
      BY <3>4, <3>5, LacksAre
    <3>7. \A i \in 1 .. Len(u) : q[i] = lack(row, u[i])
      BY <3>5, <3>6
    <3>8. \A c : c.op # "grow" => lack(row, c) = 0
      BY DEF lack
    <3>9. \A i \in 1 .. Len(q) : q[i] = IF i <= Len(s) THEN s[i] ELSE 0
      <4> SUFFICES ASSUME NEW i \in 1 .. Len(q) PROVE q[i] = IF i <= Len(s) THEN s[i] ELSE 0
        OBVIOUS
      <4>1. i \in 1 .. Len(u) /\ q[i] = lack(row, u[i])
        BY <3>6, <3>7
      <4>2. CASE i <= Len(s)
        BY <3>1, <3>4, <4>1, <4>2
      <4>3. CASE ~ (i <= Len(s))
        <5>1. u[i].op # "grow"
          BY <3>2, <3>4, <4>1, <4>3
        <5> QED
          BY <3>8, <4>1, <4>3, <5>1
      <4> QED
        BY <4>2, <4>3
    <3>10. total(q) = total(s)
      <4>1. s \in Seq(Int) /\ q \in Seq(Int) /\ Len(s) <= Len(q)
        BY <3>3, <3>4, <3>6
      <4> QED
        BY <3>9, <4>1, TotalPadded
    <3> QED
      BY <3>5, <3>10 DEF lacks
  <2>4. total(s) \in Nat
    BY <2>2, TotalOfNats
  <2> QED
    BY <1>7, <2>3, <2>4
<1>14. agenda' = Tail(agenda) \/ (growth(ds) = 0 /\ agenda' = u) \/ (growth(ds) # 0 /\ agenda' = <<e>> \o u)
  <2> DEFINE v == Tail(agenda)
             S == Range(g) \cup {work, e} \cup Range(v)
  <2>1. g \in Seq(S) /\ v \in Seq(S) /\ work \in S /\ e \in S
    BY <1>6, <1>8
  <2>2. agenda' = <<>> \o v \/ (growth(ds) = 0 /\ agenda' = (<<>> \o t) \o v) \/ (growth(ds) # 0 /\ agenda' = (<<e>> \o t) \o v)
    BY <1>2 DEF next
  <2>3. u = t \o v
    BY DEF u
  <2> HIDE DEF S, v
  <2>4. t \in Seq(S) /\ <<e>> \in Seq(S)
    BY <2>1
  <2> HIDE DEF t
  <2>5. <<>> \o v = v /\ <<>> \o t = t
    BY <2>1, <2>4
  <2>6. (<<e>> \o t) \o v = <<e>> \o (t \o v)
    BY <2>1, <2>4, ConcatAssociative
  <2> QED
    BY <2>2, <2>3, <2>5, <2>6 DEF v
<1>15. AgendaRight(agenda')
  BY DEF EngineInv
<1>16. CASE growth(ds) = 0 /\ agenda' = u
  <2>1. lacks(row, u) = 0
    BY <1>13, <1>15, <1>16
  <2>2. Len(free) \in Nat
    BY <1>4
  <2>3. \A c \in Range(Tail(u)) : c.op # "evict"
    <3>1. Range(Tail(u)) \subseteq Range(u)
      BY <1>11, <1>15, <1>16, TakenCall
    <3> QED
      BY <1>11, <3>1
  <2>4. Head(u).op # "evict"
    <3>1. Head(u) \in Range(u)
      BY <1>11, <1>15, <1>16, TakenCall
    <3> QED
      BY <1>11, <3>1
  <2>5. GrowsFit'
    BY <1>1, <1>3, <1>11, <1>16, <2>1, <2>2, <2>3, <2>4 DEF GrowsFit, doing
  <2> QED
    BY <1>9, <2>5 DEF Room
<1>17. CASE growth(ds) # 0 /\ agenda' = <<e>> \o u
  <2>1. agenda' # <<>> /\ Head(agenda') = e /\ Tail(agenda') = u
    <3> DEFINE S == Range(u) \cup {e}
               v == <<e>> \o u
    <3>1. u \in Seq(S) /\ <<e>> \in Seq(S) /\ e \in S
      BY <1>11
    <3> HIDE DEF S
    <3>2. v \in Seq(S) /\ Len(v) = Len(u) + 1 /\ Len(u) \in Nat /\ v[1] = e /\ \A i \in 1 .. Len(u) : v[i + 1] = u[i]
      BY <3>1
    <3> HIDE DEF v
    <3>3. v # <<>> /\ Head(v) = e
      BY <3>2
    <3>4. Tail(v) = u
      <4>1. Tail(v) \in Seq(S) /\ Len(Tail(v)) = Len(v) - 1 /\ \A i \in 1 .. Len(v) - 1 : Tail(v)[i] = v[i + 1]
        BY <3>2, <3>3, TailOf
      <4> DEFINE w == Tail(v)
      <4>2. w \in Seq(S) /\ Len(w) = Len(u) /\ \A i \in 1 .. Len(w) : w[i] = u[i]
        BY <3>2, <4>1
      <4> HIDE DEF w
      <4>3. w = u
        BY <3>1, <4>2, SeqEqual
      <4> QED
        BY <4>3 DEF w
    <3> QED
      BY <1>17, <3>3, <3>4 DEF v
  <2>2. AgendaRight(u) /\ Range(agenda') = {e} \cup Range(u)
    BY <1>15, <2>1, TakenCall
  <2>3. lacks(row, agenda') = growth(ds)
    <3>1. lacks(row, u) = growth(ds) /\ growth(ds) \in Nat
      BY <1>13, <2>2
    <3>2. lack(row, e) = 0
      BY <1>3 DEF lack
    <3>3. lacks(row, agenda') = lack(row, e) + lacks(row, u)
      BY <1>4, <1>15, <2>1, LacksTaken
    <3> QED
      BY <3>1, <3>2, <3>3
  <2>4. GrowsFit'
    BY <1>1, <1>3, <1>11, <2>1, <2>2, <2>3 DEF GrowsFit, doing, call
  <2> QED
    BY <1>9, <2>4 DEF Room
<1> QED
  BY <1>10, <1>14, <1>16, <1>17

\* Entries go for the rows that are to grow, until there is enough or none is left.
LEMMA RoomEvict == ASSUME EngineInv, EngineInv', Room, EvictOne \/ EvictEnough PROVE Room'
<1>1. agenda # <<>> /\ Head(agenda).op = "evict" /\ UNCHANGED <<waiting, running, row>> /\ doing("evict") /\ call = Head(agenda)
  BY DEF EvictOne, EvictEnough, doing, call
<1>2. /\ AgendaRight(agenda) /\ AgendaRight(Tail(agenda)) /\ Range(agenda) = {Head(agenda)} \cup Range(Tail(agenda))
      /\ row \in [Req -> RowType]
  BY <1>1, TakenCall DEF EngineInv, TypeOK
<1>3. CASE EvictOne
  <2>1. agenda' = agenda
    BY <1>3 DEF EvictOne
  <2>2. GrowsFit'
    BY <1>1, <2>1 DEF Room, GrowsFit, doing, call, lacks, lack
  <2>3. \A r : opsFor(agenda', r) = opsFor(agenda, r)
    BY <2>1
  <2>4. Budgets'
    BY <1>1, <2>3, BudgetsStay DEF Room
  <2> QED
    BY <2>2, <2>4 DEF Room
<1>4. CASE EvictEnough
  <2> DEFINE v == Tail(agenda)
  <2>1. agenda' = v /\ UNCHANGED <<free, store>> /\ (Len(free) >= call.until \/ store = <<>>)
    <3>1. <<>> \o v = v
      BY <1>1, <1>2, Dropped
    <3> QED
      BY <1>4, <3>1 DEF EvictEnough, next
  <2>2. \A r : opsFor(agenda, r) \subseteq opsFor(agenda', r)
    <3>1. \A r : callsFor(agenda, r) \subseteq callsFor(v, r)
      BY <1>1, <1>2 DEF callsFor, forRow, RowOps
    <3> QED
      BY <2>1, <3>1 DEF opsFor
  <2>3. Budgets'
    BY <1>1, <2>2, BudgetsStay DEF Room
  <2>4. ASSUME NEW c \in Range(v), c.op = "grow"
        PROVE  /\ \E f \in Range(v) : f.op = "forward"
               /\ \A e \in Range(Tail(v)) : e.op # "evict"
               /\ v # <<>> /\ Head(v).op # "evict" /\ (store = <<>> \/ lacks(row, v) <= Len(free))
    <3>1. /\ \E f \in Range(agenda) : f.op = "forward"
          /\ \A e \in Range(v) : e.op # "evict"
          /\ call.until = lacks(row, agenda)
      BY <1>1, <1>2, <2>4 DEF Room, GrowsFit
    <3>2. v # <<>>
      BY <2>4, FewCalls
    <3>3. Range(v) = {Head(v)} \cup Range(Tail(v))
      BY <1>2, <3>2, TakenCall
    <3>4. lacks(row, agenda) = lacks(row, v)
      <4>1. lacks(row, agenda) = lack(row, Head(agenda)) + lacks(row, v) /\ lacks(row, v) \in Nat
        BY <1>1, <1>2, LacksTaken
      <4>2. lack(row, Head(agenda)) = 0
        BY <1>1 DEF lack
      <4> QED
        BY <4>1, <4>2
    <3>5. Len(free) \in Nat /\ lacks(row, v) \in Nat
      <4>1. free \in Seq(Block)
        BY DEF EngineInv, TypeOK
      <4> QED
        BY <1>1, <1>2, <4>1, LacksTaken
    <3> HIDE DEF v
    <3> QED
      BY <1>1, <1>2, <2>1, <3>1, <3>2, <3>3, <3>4, <3>5 DEF v
  <2> HIDE DEF v
  <2>5. GrowsFit'
    BY <1>1, <2>1, <2>4 DEF GrowsFit, doing
  <2> QED
    BY <2>3, <2>5 DEF Room
<1> QED
  BY <1>3, <1>4

\* A row grows, or fails when the store is empty: what the others lack is as free as before.
LEMMA RoomGrow == ASSUME EngineInv, Room, Grow PROVE Room'
<1>1. /\ doing("grow") /\ "grow" \in RowOps /\ agenda # <<>> /\ Head(agenda).op = "grow" /\ call = Head(agenda)
      /\ call.q = 1 /\ Head(agenda) \in Range(agenda)
  <2>1. doing("grow") /\ "grow" \in RowOps
    BY DEF Grow, RowOps
  <2>2. agenda # <<>> /\ call.op = "grow" /\ call = Head(agenda) /\ CallType(call) /\ AgendaRight(agenda)
    BY <2>1, Doing DEF call, doing
  <2> QED
    BY <2>1, <2>2, TakenCall DEF CallType
<1>2. PICK r \in Req : r = call.r
  BY <1>1, CallOfLive
<1> DEFINE rw == row[r]
           need == decodeExtraBlocks(rw.seqLen, 1, Len(rw.blocks))
           v == Tail(agenda)
<1>3. agenda' = v /\ next(<<>>) /\ UNCHANGED <<waiting, store>>
  BY <1>1, Dropped DEF Grow, next, EngineInv
<1>4. /\ AgendaRight(agenda) /\ AgendaRight(v) /\ Range(agenda) = {Head(agenda)} \cup Range(v)
      /\ \A c \in Range(v) : ~ (c.op = "grow" /\ c.r = r)
  <2>1. AgendaRight(agenda)
    BY DEF EngineInv
  <2>2. \A c \in Range(v) : \A q \in Req : forRow(Head(agenda), q) /\ forRow(c, q) => turn(Head(agenda).op) < turn(c.op)
    BY <1>1, <2>1, TakenCall
  <2>3. ASSUME NEW c \in Range(v), c.op = "grow", c.r = r PROVE FALSE
    <3>1. forRow(Head(agenda), r) /\ forRow(c, r)
      BY <1>1, <1>2, <2>3 DEF forRow
    <3>2. turn("grow") < turn("grow")
      BY <1>1, <2>2, <2>3, <3>1
    <3> QED
      BY <3>2 DEF turn
  <2> QED
    BY <1>1, <2>1, <2>3, TakenCall
<1>5. /\ r \in Range(running) /\ row \in [Req -> RowType] /\ rw \in RowType /\ rw.blocks \in Seq(Block) /\ rw.seqLen \in Nat
      /\ Range(running) \subseteq Req /\ free \in Seq(Block) /\ Len(free) \in Nat
  <2>1. r \in Range(running)
    BY <1>1, <1>2, CallOfLive DEF Live
  <2>2. free \in Seq(Block)
    BY DEF EngineInv, TypeOK
  <2> QED
    BY <2>1, <2>2, RunningRow
<1>6. /\ \E f \in Range(v) : f.op = "forward"
      /\ \A e \in Range(v) : e.op # "evict"
      /\ store = <<>> \/ lacks(row, agenda) <= Len(free)
  <2>1. /\ \E f \in Range(agenda) : f.op = "forward"
        /\ \A e \in Range(v) : e.op # "evict"
        /\ IF doing("evict") THEN call.until = lacks(row, agenda) ELSE store = <<>> \/ lacks(row, agenda) <= Len(free)
    BY <1>1 DEF Room, GrowsFit
  <2>2. ~ doing("evict")
    BY <1>1 DEF doing
  <2> QED
    BY <1>1, <1>4, <2>1, <2>2
<1>7. need = lack(row, Head(agenda))
  BY <1>1, <1>2 DEF lack
<1>8. lacks(row, agenda) = need + lacks(row, v) /\ lacks(row, v) \in Nat /\ need \in Nat
  BY <1>1, <1>4, <1>5, <1>7, LacksTaken
<1> HIDE DEF need
<1>9. \A q : "finish" \in opsFor(agenda, q) => "finish" \in opsFor(agenda', q)
  <2> SUFFICES ASSUME NEW q, NEW c \in callsFor(agenda, q), c.op = "finish" PROVE "finish" \in opsFor(agenda', q)
    BY DEF opsFor
  <2>1. c \in callsFor(agenda', q)
    BY <1>1, <1>3, <1>4 DEF callsFor
  <2> QED
    BY <2>1 DEF opsFor
<1>10. ASSUME \A q \in Req \ {r} : row'[q] = row[q],
              store = <<>> \/ lacks(row, v) <= Len(free')
       PROVE  GrowsFit'
  <2>1. \A c \in Range(v) : c.op = "grow" => c.r \in Req \ {r}
    BY <1>4 DEF AgendaRight, CallType, RowOps
  <2>2. \A i \in DOMAIN v : v[i] \in Range(v)
    BY DEF Range
  <2>3. \A i \in DOMAIN v : lack(row', v[i]) = lack(row, v[i])
    BY <1>10, <2>1, <2>2 DEF lack
  <2>4. lacks(row', v) = lacks(row, v)
    BY <2>3, LacksStay
  <2>5. v # <<>> /\ Head(v) \in Range(v) /\ Range(Tail(v)) \subseteq Range(v)
    <3>1. v # <<>>
      BY <1>6, FewCalls
    <3> QED
      BY <1>4, <3>1, TakenCall
  <2> HIDE DEF v
  <2> QED
    BY <1>3, <1>6, <1>10, <2>4, <2>5 DEF GrowsFit, doing
<1>11. CASE need > Len(free)
  <2>1. finish(r, "failed")
    BY <1>1, <1>2, <1>11 DEF Grow, need
  <2>2. Range(running') = Range(running) \ {r} /\ \A q \in Req \ {r} : row'[q] = row[q]
    BY <1>3, <1>5, <2>1, FinishedRow
  <2>3. store = <<>>
    BY <1>5, <1>6, <1>8, <1>11
  <2>4. GrowsFit'
    BY <1>10, <2>2, <2>3
  <2>5. Budgets'
    BY <1>3, <1>5, <1>9, <2>2, BudgetsStay DEF Room
  <2> QED
    BY <2>4, <2>5 DEF Room
<1>12. CASE ~ (need > Len(free))
  <2> DEFINE bs == rw.blocks \o freshOf(free, need)
             own == rw.own + need
             rx == [rw EXCEPT !.blocks = bs, !.own = own]
  <2>1. row' = [row EXCEPT ![r] = rx] /\ UNCHANGED running /\ free' = SubSeq(free, 1, Len(free) - need)
    <3>1. /\ row' = [row EXCEPT ![r].blocks = @ \o fresh(need), ![r].own = @ + need]
          /\ free' = freeWithout(need) /\ UNCHANGED running
      BY <1>1, <1>2, <1>12 DEF Grow, need
    <3>2. fresh(need) = freshOf(free, need)
      BY DEF fresh, freshOf
    <3>3. row' = [row EXCEPT ![r] = rx]
      BY <1>5, <3>1, <3>2
    <3> QED
      BY <3>1, <3>3 DEF freeWithout
  <2>2. rx.tokens = rw.tokens
    <3> HIDE DEF bs, own, rw
    <3> QED
      BY <1>5, TokensApart
  <2>3. row'[r] = rx /\ \A q \in Req \ {r} : row'[q] = row[q]
    <3> HIDE DEF rx
    <3> QED
      BY <1>5, <2>1
  <2> HIDE DEF rx
  <2>4. Len(free') = Len(free) - need
    <3>1. Len(free) - need \in 0 .. Len(free)
      BY <1>5, <1>8, <1>12
    <3> QED
      BY <1>5, <2>1, <3>1
  <2>5. store = <<>> \/ lacks(row, v) <= Len(free')
    <3> HIDE DEF v
    <3> QED
      BY <1>5, <1>6, <1>8, <2>4
  <2>6. GrowsFit'
    BY <1>10, <2>3, <2>5
  <2>7. \A q \in Range(running') : q \in Range(running) /\ row'[q].tokens = row[q].tokens
    BY <1>5, <2>1, <2>2, <2>3
  <2>8. Budgets'
    BY <1>3, <1>9, <2>7, BudgetsStay DEF Room
  <2> QED
    BY <2>6, <2>8 DEF Room
<1> QED
  BY <1>11, <1>12

-----------------------------------------------------------------------------
(* Together *)

\* What changes nothing leaves the room there is.
LEMMA RoomStands == ASSUME Room, UNCHANGED <<waiting, running, row, free, store, agenda>> PROVE Room'
<1>1. \A r : opsFor(agenda', r) = opsFor(agenda, r)
  OBVIOUS
<1>2. Budgets'
  BY <1>1, BudgetsStay DEF Room
<1>3. GrowsFit'
  BY DEF Room, GrowsFit, doing, call, lacks, lack
<1> QED
  BY <1>2, <1>3 DEF Room

\* Every step keeps room for the tokens to come.
LEMMA RoomStep == Drafter = "none" /\ EngineInv /\ EngineInv' /\ Room /\ [Next]_vars => Room'
<1> SUFFICES ASSUME Drafter = "none", EngineInv, EngineInv', Room, [Next]_vars PROVE Room'
  OBVIOUS
<1>1. CASE Client
  BY <1>1, RoomClient
<1>2. CASE Plan
  BY <1>2, RoomLoneSteps, RoomEvict, RoomAdopt, RoomFormBatch, RoomGrow DEF Plan
<1>3. CASE Commit
  BY <1>3, NeverDrafts, RoomSamples, RoomCommit, RoomLeavers, RoomPublish, RoomTrims, RoomChunks DEF Commit
<1>4. CASE DraftStep
  BY <1>4, NeverDrafts
<1>5. CASE StepBegin \/ Forward \/ ForwardRaises \/ FailAll \/ StepEnd
  BY <1>5, RoomLoneSteps, RoomForward, RoomLeavers, RoomSamples
<1>6. CASE UNCHANGED vars
  BY <1>6, RoomStands DEF vars
<1>7. CASE LoopIdle
  BY <1>6, <1>7 DEF LoopIdle
<1> QED
  BY <1>1, <1>2, <1>3, <1>4, <1>5, <1>6, <1>7 DEF Next, Tick

\* No row waits, runs or is to grow at first.
LEMMA InitRoom == Init => Room
<1> SUFFICES ASSUME Init PROVE Room
  OBVIOUS
<1>1. waiting = <<>> /\ running = <<>> /\ agenda = <<>>
  BY DEF Init
<1>2. Range(waiting) = {} /\ Range(running) = {} /\ Range(agenda) = {}
  BY <1>1, FewCalls
<1> QED
  BY <1>2 DEF Room, GrowsFit, Budgets

\* For any requests, budgets, page size, pool and batch size, a build without a drafter has
\* room for the blocks it planned to take: once the store was asked for what a batch lacks
\* (engine.py:2014-2020), that is free until the last of the batch has grown, or no entry is left.
THEOREM EngineRoom == ASSUME Drafter = "none" PROVE Spec => []Room
<1>1. EngineInv /\ EngineInv' /\ Room /\ [Next]_vars => Room'
  BY RoomStep
<1> QED
  BY InitRoom, EngineInvariant, <1>1, PTL DEF Spec

\* When one row runs and no entry is stored, the blocks are the row's or free.
LEMMA BlocksOfOne ==
  ASSUME EngineInv, NEW r \in Req, Range(running) = {r}, store = <<>>
  PROVE  NumBlocks <= Len(row[r].blocks) + Len(free)
<1> DEFINE bs == row[r].blocks
<1>1. bs \in Seq(Block) /\ free \in Seq(Block) /\ FreeRight(free, ref) /\ RefsRight(running, row, store, ref)
  BY RunningRow DEF EngineInv, Pools, PoolsRight, FreeRight
<1> HIDE DEF bs
<1>2. ASSUME NEW b \in Block PROVE b \in Range(bs) \cup Range(free)
  <2> SUFFICES ASSUME b \notin Range(bs) PROVE ref[b] = 0
    BY <1>1 DEF FreeRight
  <2>1. rowsWith(running, row, b) = {}
    BY DEF rowsWith, bs
  <2>2. entriesWith(store, b) = {}
    <3>1. Range(store) = {}
      BY FewCalls
    <3> QED
      BY <3>1 DEF entriesWith
  <2>3. ref[b] = Cardinality(rowsWith(running, row, b)) + Cardinality(entriesWith(store, b))
    BY <1>1 DEF RefsRight
  <2>4. Cardinality({}) = 0
    BY FS_EmptySet
  <2>5. ref[b] = 0 + 0
    BY <2>1, <2>2, <2>3, <2>4
  <2>6. b \in Range(free) <=> ref[b] = 0
    BY <1>1 DEF FreeRight
  <2> QED
    BY <2>5
<1>3. ASSUME NEW s \in Seq(Block) PROVE IsFiniteSet(Range(s)) /\ Cardinality(Range(s)) <= Len(s) /\ Cardinality(Range(s)) \in Nat
  <2>1. s \in [1 .. Len(s) -> Block] /\ Len(s) \in Nat /\ Range(s) = {s[i] : i \in 1 .. Len(s)}
    BY LenProperties, RangeOf
  <2>2. IsFiniteSet(1 .. Len(s)) /\ Cardinality(1 .. Len(s)) = Len(s)
    <3>1. \A n \in Nat : IsFiniteSet(1 .. n) /\ Cardinality(1 .. n) = n
      BY FS_Interval
    <3> QED
      BY <2>1, <3>1
  <2>3. s \in Surjection(1 .. Len(s), Range(s))
    BY <2>1 DEF Surjection
  <2> QED
    BY <2>2, <2>3, FS_Surjection, FS_CardinalityType
<1>4. Block \subseteq Range(bs) \cup Range(free)
  BY <1>2
<1>5. /\ IsFiniteSet(Range(bs)) /\ Cardinality(Range(bs)) <= Len(bs) /\ Cardinality(Range(bs)) \in Nat
      /\ IsFiniteSet(Range(free)) /\ Cardinality(Range(free)) <= Len(free) /\ Cardinality(Range(free)) \in Nat
  BY <1>1, <1>3
<1> DEFINE S == Range(bs)
           T == Range(free)
<1>6. /\ IsFiniteSet(S \cup T) /\ Cardinality(S \cup T) = Cardinality(S) + Cardinality(T) - Cardinality(S \cap T)
      /\ Cardinality(S \cap T) \in Nat
  <2>1. IsFiniteSet(S \cap T)
    BY <1>5, FS_Intersection
  <2> QED
    BY <1>5, <2>1, FS_Union, FS_CardinalityType
<1>7. Cardinality(Block) = NumBlocks /\ Cardinality(Block) <= Cardinality(S \cup T) /\ NumBlocks \in Nat
  <2>1. NumBlocks \in Nat
    BY PoolAssumption
  <2>2. Cardinality(1 .. NumBlocks) = NumBlocks
    BY <2>1, FS_Interval
  <2>3. Block \in SUBSET (S \cup T)
    BY <1>4
  <2> QED
    BY <1>6, <2>1, <2>2, <2>3, FS_Subset DEF Block
<1> QED
  BY <1>1, <1>5, <1>6, <1>7, LenProperties DEF bs

\* What submit accepted fits the pool: a row with tokens to generate lacks no more than
\* the pool has beside its own blocks.
LEMMA LacksFew ==
  ASSUME NEW r \in Req, MaxNew[r] > 0, NEW n \in Nat, n <= promptLen(r) + MaxNew[r], NEW h \in Nat, h <= NumBlocks
  PROVE  decodeExtraBlocks(n, 1, h) <= NumBlocks - h
<1>1. /\ BlockTokens \in Nat \ {0} /\ NumBlocks \in Nat \ {0} /\ Width \in Nat \ {0}
      /\ promptLen(r) \in Nat /\ MaxNew[r] \in Nat
      /\ promptLen(r) + MaxNew[r] + Width - 1 <= NumBlocks * BlockTokens
  <2>1. Prompt[r] \in Seq(Range(Prompt[r])) /\ MaxNew[r] \in Nat
        /\ Len(Prompt[r]) + MaxNew[r] + Width - 1 <= NumBlocks * BlockTokens
    BY RequestAssumption
  <2> QED
    BY <2>1, PoolAssumption, LenProperties DEF promptLen
<1> DEFINE z == n + 1 - 2 + BlockTokens
           x == z \div BlockTokens
<1>2. NumBlocks * BlockTokens \in Nat
  BY <1>1
<1>3. z \in Int /\ z <= NumBlocks * BlockTokens + (BlockTokens - 1)
  BY <1>1, <1>2
<1> HIDE DEF z
<1>4. x \in Int /\ x * BlockTokens <= z
  BY <1>1, <1>3, Multiples
<1> HIDE DEF x
<1>5. x <= NumBlocks
  <2> SUFFICES ASSUME x >= NumBlocks + 1 PROVE FALSE
    BY <1>1, <1>4
  <2>1. x * BlockTokens >= (NumBlocks + 1) * BlockTokens
    BY <1>1, <1>4
  <2>2. (NumBlocks + 1) * BlockTokens = NumBlocks * BlockTokens + BlockTokens
    BY <1>1
  <2> QED
    BY <1>1, <1>2, <1>3, <1>4, <2>1, <2>2
<1>6. decodeExtraBlocks(n, 1, h) = Max({0, x - h})
  BY DEF decodeExtraBlocks, x, z
<1>7. PICK y \in Int : y = x - h
  BY <1>4
<1>8. Max({0, y}) \in {0, y}
  <2>1. PICK zero \in Int : zero = 0
    OBVIOUS
  <2>2. Max({zero, y}) \in {zero, y}
    BY <1>7, GreaterOf
  <2> QED
    BY <2>1, <2>2
<1> QED
  BY <1>1, <1>4, <1>5, <1>6, <1>7, <1>8

\* For any requests, prompts, page size and pool, a build without a drafter never fails a
\* row that runs alone for want of a block: the plan evicts what the batch lacks, and what
\* submit accepted is no more than the pool has (engine.py:1126, 2014-2048).
THEOREM EngineLoneRowFits == ASSUME Drafter = "none" PROVE Spec => []LoneRowAlwaysFits
<1>1. EngineInv /\ Room => LoneRowAlwaysFits
  <2> SUFFICES ASSUME EngineInv, Room, doing("grow"), Len(running) = 1
               PROVE  decodeExtraBlocks(row[call.r].seqLen, call.q, Len(row[call.r].blocks)) <= Len(free)
    BY DEF LoneRowAlwaysFits
  <2>1. "grow" \in RowOps /\ agenda # <<>> /\ call = Head(agenda) /\ call.op = "grow" /\ call.q = 1
        /\ call \in Range(agenda) /\ AgendaRight(agenda)
    <3>1. "grow" \in RowOps
      BY DEF RowOps
    <3>2. agenda # <<>> /\ call.op = "grow" /\ call = Head(agenda) /\ CallType(call) /\ AgendaRight(agenda)
      BY <3>1, Doing DEF call, doing
    <3> QED
      BY <3>1, <3>2, TakenCall DEF CallType
  <2>2. PICK r \in Req : r = call.r
    BY <2>1, CallOfLive
  <2>3. /\ r \in Range(running) /\ "grow" \in opsFor(agenda, r)
    BY <2>1, <2>2, CallOfLive DEF Live
  <2>4. /\ row \in [Req -> RowType] /\ row[r].blocks \in Seq(Block) /\ IsInjective(row[r].blocks) /\ row[r].tokens \in Seq(Tokens)
        /\ LiveRight(row[r], r, callsFor(agenda, r), opsFor(agenda, r)) /\ running \in Seq(Req) /\ free \in Seq(Block)
    BY <2>3, RunningRow DEF EngineInv, TypeOK
  <2> DEFINE need == decodeExtraBlocks(row[r].seqLen, 1, Len(row[r].blocks))
  <2> SUFFICES need <= Len(free)
    BY <2>1, <2>2
  <2>5. need = lack(row, Head(agenda))
    BY <2>1, <2>2 DEF lack
  <2>6. store = <<>> \/ lacks(row, agenda) <= Len(free)
    <3>1. ~ doing("evict")
      BY <2>1 DEF doing
    <3> QED
      BY <2>1, <3>1 DEF Room, GrowsFit
  <2> HIDE DEF need
  <2>7. CASE lacks(row, agenda) <= Len(free)
    <3>1. lacks(row, agenda) = need + lacks(row, Tail(agenda)) /\ lacks(row, Tail(agenda)) \in Nat /\ need \in Nat
      BY <2>1, <2>4, <2>5, LacksTaken
    <3>2. Len(free) \in Nat
      BY <2>4, LenProperties
    <3> QED
      BY <2>7, <3>1, <3>2
  <2>8. CASE store = <<>>
    <3>1. Range(running) = {r}
      <4>1. Range(running) = {running[i] : i \in 1 .. Len(running)}
        BY <2>4, RangeOf
      <4>2. Range(running) = {running[1]}
        BY <4>1
      <4> QED
        BY <2>3, <4>2
    <3>2. row[r].seqLen = Len(row[r].tokens)
      BY <2>3, <2>4 DEF LiveRight, PrefillRight, DecodeRight
    <3>3. MaxNew[r] > 0 /\ outLen(r) <= MaxNew[r]
      BY <2>3 DEF Room, Budgets
    <3>4. /\ row[r].seqLen \in Nat /\ row[r].seqLen <= promptLen(r) + MaxNew[r]
      <4>1. promptLen(r) \in Nat /\ Len(row[r].tokens) \in Nat /\ MaxNew[r] \in Nat
        BY <2>3, <2>4, RunningRow, LenProperties, RequestAssumption
      <4>2. Len(row[r].tokens) - promptLen(r) <= MaxNew[r]
        BY <3>3 DEF outLen, promptLen
      <4>3. Len(row[r].tokens) <= promptLen(r) + MaxNew[r]
        BY <4>1, <4>2
      <4> QED
        BY <3>2, <4>1, <4>3
    <3>5. Len(row[r].blocks) \in 0 .. NumBlocks
      BY <2>4, FewBlocks
    <3>6. NumBlocks <= Len(row[r].blocks) + Len(free)
      BY <2>8, <3>1, BlocksOfOne
    <3>7. need <= NumBlocks - Len(row[r].blocks)
      BY <3>3, <3>4, <3>5, LacksFew DEF need
    <3>8. Len(free) \in Nat /\ NumBlocks \in Nat /\ need \in Nat
      BY <2>1, <2>4, <2>5, LacksTaken, LenProperties, PoolAssumption
    <3> QED
      BY <3>5, <3>6, <3>7, <3>8
  <2> QED
    BY <2>6, <2>7, <2>8
<1> QED
  BY <1>1, EngineInvariant, EngineRoom, PTL

\* So the three parts of the inductive invariant hold between any two calls of a tick.
THEOREM EngineInductive == ASSUME Drafter = "none" PROVE Spec => []IInv
BY EngineInvariant, EngineRoom, EngineExact, PTL DEF IInv
=============================================================================
