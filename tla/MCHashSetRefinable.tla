-------------------------- MODULE MCHashSetRefinable --------------------------
(***************************************************************************)
(* Instances of HashSetRefinable for TLC: e1 and e2 are in different       *)
(* buckets of two, and in the second and the third of four.               *)
(***************************************************************************)
EXTENDS HashSetRefinable, TLC

CONSTANTS e1, e2

Hashes == (e1 :> 1 @@ e2 :> 2)

Symmetry == Permutations(Thread)
=============================================================================
