---------------------------- MODULE MCBucketList ----------------------------
(***************************************************************************)
(* Instances of BucketList for TLC.  The sentinel of bucket 1 comes after  *)
(* that of the root and before the elements; e1 and e2 have the same hash. *)
(***************************************************************************)
EXTENDS BucketList, TLC

Keys == [e \in Elem |-> 5]
BucketKeys == (0 :> 0 @@ 1 :> 4)

Symmetry ==
  Permutations(Thread) \cup Permutations(Node \ {Root, Tail}) \cup Permutations(Elem)
=============================================================================
