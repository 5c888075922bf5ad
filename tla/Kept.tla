-------------------------------- MODULE Kept --------------------------------
(***************************************************************************)
(* What a filter leaves of a list, as a recursive function: SelectSeq says *)
(* the same, but takes an operator, of which nothing can be proved.        *)
(***************************************************************************)
EXTENDS Integers, Sequences

\* The elements of s that are in T, in their order.
those(s, T) ==
  LET kept[i \in 0 .. Len(s)] ==
        IF i = 0 THEN <<>> ELSE IF s[i] \in T THEN Append(kept[i - 1], s[i]) ELSE kept[i - 1]
  IN  kept[Len(s)]
=============================================================================
