------------------------- MODULE MCEnvironmentLink -------------------------
(* EnvironmentLink for TLC. *)
EXTENDS EnvironmentLink
=============================================================================
