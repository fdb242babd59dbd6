-------------------------- MODULE MCHashSetStriped --------------------------
(***************************************************************************)
(* An instance of HashSetStriped for TLC.  Of two buckets e1 and e3 share  *)
(* one, of four each element has its own.                                  *)
(***************************************************************************)
EXTENDS HashSetStriped, TLC

CONSTANTS e1, e2, e3

Hashes == [e \in Elem |-> CASE e = e1 -> 1 [] e = e2 -> 2 [] e = e3 -> 3]
=============================================================================
