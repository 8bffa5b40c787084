----------------------- MODULE MCEnvironmentLifecycle -----------------------
(* EnvironmentLifecycle for TLC. *)
EXTENDS EnvironmentLifecycle, TLC

CONSTANTS c1, c2, i1, i2, i3, none

TwoCallers == {c1, c2}
OneCaller == {c1}
OneInstance == {i1}
TwoInstances == {i1, i2}
ThreeInstances == {i1, i2, i3}

(* Callers and instances are interchangeable: no safety property here names *)
(* one of them.                                                             *)
Symmetry == Permutations(Callers) \cup Permutations(Instances)
=============================================================================
