------------------------------ MODULE MCTight ------------------------------
(* The drafting engine over a pool of three blocks, which its rows exhaust.  *)
EXTENDS Engine

Nothing == <<>>
MCReq == {1, 2, 3}
MCPrompt == <<<<1, 1, 1>>, <<1>>, <<1>>>>
MCMaxNew == <<2, 3, 0>>
MCThinkCap == [r \in MCReq |-> NoCap]
=============================================================================
