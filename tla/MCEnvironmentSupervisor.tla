---------------------- MODULE MCEnvironmentSupervisor -----------------------
(* EnvironmentSupervisor for TLC. *)
EXTENDS EnvironmentSupervisor

CONSTANTS h1, h2, h3, s1, small, large

OneSession == {s1}
TwoHandlers == {h1, h2}
ThreeHandlers == {h1, h2, h3}

OneSize == {small}
TwoSizes == {small, large}
=============================================================================
