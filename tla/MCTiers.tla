------------------------------ MODULE MCTiers ------------------------------
(* Three processes: one that trains, one that saves a context, one that boots *)
(* from it.                                                                   *)
EXTENDS TiersInv

MCKey == {<<"a", "b", "c">>}
history(key) == [i \in DOMAIN key |-> <<key[i], 0>>]
MCState == [key \in MCKey |-> history(key)]
MCKv == [key \in MCKey |-> [i \in DOMAIN key |-> SubSeq(history(key), 1, i)]]

MCPrompt == << <<"a", "b">>, <<"a", "b", "t">>, <<"c", "d">>, <<"a", "d">>,
               <<"a", "b", "c">>, <<"a", "d">>,
               <<"a", "b", "c", "t">>, <<"a", "d">>, <<"a", "b", "c", "t">> >>
MCProcess == <<1, 1, 1, 1, 2, 2, 3, 3, 3>>
MCMaxReply == <<2, 0, 1, 1, 0, 1, 0, 2, 0>>
MCRequest == DOMAIN MCPrompt

\* For the run that boots a prompt of whole pages.
WholePrompt == << <<"a", "b", "c">>, <<"a", "b", "c">> >>
TwoProcesses == <<1, 2>>
NoReply == <<0, 0>>
BothRequests == 1 .. 2

\* What the theorems about contents assume of the constants is so in both runs.
ASSUME WithinTheTheorems == SavesWholePages /\ KeysPrefilled
=============================================================================
