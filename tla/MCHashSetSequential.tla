------------------------ MODULE MCHashSetSequential ------------------------
(* Instances of HashSetSequential for TLC: the elements are their hashes.  *)
EXTENDS HashSetSequential

Identity == [e \in Elem |-> e]
=============================================================================
