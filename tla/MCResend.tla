------------------------------ MODULE MCResend ------------------------------
(* Three requests with one prompt of two whole pages: whoever matches it as a *)
(* whole runs its last page again.                                            *)
EXTENDS Sparse
MCRow == 1 .. 3
MCPrompt == [r \in MCRow |-> <<"a", "a", "b", "b">>]
MCMaxNew == <<3, 4, 1>>
=============================================================================
