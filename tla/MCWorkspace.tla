---------------------------- MODULE MCWorkspace ----------------------------
(* An instance of Workspace for TLC. *)
EXTENDS Workspace
=============================================================================
