------------------------- MODULE MCEnvironmentDisk -------------------------
(* EnvironmentDisk for TLC. *)
EXTENDS EnvironmentDisk, TLC

(* Jobs, sessions and releases are interchangeable.                        *)
Symmetry == Permutations(Jobs) \cup Permutations(Sessions) \cup Permutations(Releases)
=============================================================================
