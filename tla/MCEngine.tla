------------------------------ MODULE MCEngine ------------------------------
(* Three requests over a pool of four blocks of two tokens: two prompts that *)
(* share a first block, and one that extends the second.                     *)
EXTENDS EnginePages, EngineInv

Nothing == <<>>
MCReq == {1, 2, 3}
MCPrompt == <<<<1, 1, 1>>, <<1, 1, 2, 1>>, <<1, 1, 2, 1, 1>>>>
MCMaxNew == <<5, 2, 2>>
MCThinkCap == [r \in MCReq |-> NoCap]

\* Every whole-block prefix of a prompt and what may be generated after it.
MCKeys ==
  LET texts == UNION {{MCPrompt[r] \o g : g \in [1 .. MCMaxNew[r] -> Vocab]} : r \in MCReq}
  IN  UNION {{SubSeq(t, 1, n * BlockTokens) : n \in 1 .. Len(t) \div BlockTokens} : t \in texts}
=============================================================================
