---------------------------- MODULE EnginePages ----------------------------
(***************************************************************************)
(* The engine keeps the promises of KvPages.  A row's table is req.blocks  *)
(* while it runs, its sealed blocks are those wholly behind its next       *)
(* forward, and what an entry was published with is the K/V of its key.    *)
(***************************************************************************)
EXTENDS Engine

CONSTANT Keys   \* the block-aligned prefixes an entry can be stored under

tableOf(r) == IF r \in Range(running) THEN Range(row[r].blocks) ELSE {}

sealedOf(r) ==
  IF r \in Range(running)
  THEN {row[r].blocks[i] : i \in 1 .. materialized(r) \div BlockTokens} ELSE {}

entryBlocks(k) == IF stored(k) THEN store[indexOf(k)].blocks ELSE <<>>

\* The contents the i-th block of entry k must have.
kvOf(k, i) == [o \in Offset |-> SubSeq(k, 1, (i - 1) * BlockTokens + o + 1)]

savedOf(k, b) ==
  IF b \in Range(entryBlocks(k))
  THEN kvOf(k, CHOOSE i \in DOMAIN entryBlocks(k) : entryBlocks(k)[i] = b) ELSE "none"

Pages == INSTANCE KvPages WITH
  Row <- Req, Key <- Keys, Value <- [Offset -> Seq(Tokens)], NoValue <- "none",
  page <- cell,
  table <- [r \in Req |-> tableOf(r)],
  sealed <- [r \in Req |-> sealedOf(r)],
  pinned <- [k \in Keys |-> Range(entryBlocks(k))],
  saved <- [k \in Keys |-> [b \in Block |-> savedOf(k, b)]]

\* The engine's ticks, evictions, failures and cancels are all steps of KvPages.
ImplementsPages == Pages!Spec
=============================================================================
