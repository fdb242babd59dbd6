-------------------------- MODULE MCEpochReclaimer --------------------------
(* Instances of EpochReclaimer for TLC.  The nodes are finitely many and    *)
(* each is used once, which bounds the epoch; threads and nodes are         *)
(* interchangeable.                                                         *)
EXTENDS EpochReclaimer, TLC

Symmetry == Permutations(Participant) \cup Permutations(Node)
=============================================================================
