------------------------- MODULE MCHashSetLockFree -------------------------
(***************************************************************************)
(* An instance of HashSetLockFree for TLC.                                 *)
(***************************************************************************)
EXTENDS HashSetLockFree, TLC

CONSTANTS e1, e2

\* e1 and e2 are in one bucket of two and apart in four, where that of e1 has to
\* be initialized by way of its parent's, unless that was needed before.
Hashes == (e1 :> 3 @@ e2 :> 1)

Symmetry == Permutations(Thread)
=============================================================================
