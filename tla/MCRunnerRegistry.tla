-------------------------- MODULE MCRunnerRegistry --------------------------
(* RunnerRegistry for TLC. *)
EXTENDS RunnerRegistry, TLC

CONSTANTS k1, k2, k3, s1, s2

ControlOnly == {"control"}
BothKinds == {"control", "bulk"}
NoSession == {}
OneSession == {s1}
TwoSessions == {s1, s2}
OneConnections == {k1}
TwoConnections == {k1, k2}
ThreeConnections == {k1, k2, k3}

Symmetry == Permutations(Sessions) \cup Permutations(Connections)
=============================================================================
