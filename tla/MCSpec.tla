------------------------------- MODULE MCSpec -------------------------------
(* The engine with a drafter: every tick drafts, and a decode tick verifies. *)
(* Three requests over four blocks, which two rows exhaust: a short prompt;  *)
(* one of three chunks, whose second boundary is held for completion and     *)
(* which extends what the first one generates; one that may generate nothing. *)
EXTENDS Engine

Nothing == <<>>
MCReq == {1, 2, 3}
MCPrompt == <<<<1, 1, 1>>, <<1, 1, 1, 1, 1, 1, 1, 1, 1>>, <<1>>>>
MCMaxNew == <<6, 4, 0>>
MCThinkCap == [r \in MCReq |-> NoCap]
=============================================================================
