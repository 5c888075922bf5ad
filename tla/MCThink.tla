------------------------------ MODULE MCThink ------------------------------
(* One request with a thinking budget under the block drafter, which fills   *)
(* every chain to the width.                                                 *)
EXTENDS Engine

MCEndThink == <<9, 10>>
MCReq == {1}
MCPrompt == <<<<1, 1>>>>
MCMaxNew == <<6>>
MCThinkCap == <<2>>
=============================================================================
