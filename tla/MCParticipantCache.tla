------------------------- MODULE MCParticipantCache -------------------------
(* Instances of ParticipantCache for TLC. *)
EXTENDS ParticipantCache, TLC

Symmetry == Permutations(Thread) \cup Permutations(Owner) \cup Permutations(Participant)
=============================================================================
