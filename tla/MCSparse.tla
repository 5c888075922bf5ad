------------------------------ MODULE MCSparse ------------------------------
(* Three requests of two whole pages and a token, two at a time: the last     *)
(* adopts the pages of the first, whose entries the second pushes out of the  *)
(* index when it publishes its own.                                           *)
EXTENDS Sparse

MCRow == 1 .. 3
MCPrompt == << <<"a","a","b","b","a">>, <<"c","c","d","d","c">>, <<"a","a","b","b","b">> >>
MCMaxNew == <<1, 3, 3>>
=============================================================================
