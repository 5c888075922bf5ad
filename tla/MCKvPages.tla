----------------------------- MODULE MCKvPages -----------------------------
(* A pool of four blocks shared by two rows and two stored prefixes. *)
EXTENDS KvPages, TLC

Symmetry ==
  Permutations(Block) \cup Permutations(Row) \cup Permutations(Key)
    \cup Permutations(Value)
=============================================================================
