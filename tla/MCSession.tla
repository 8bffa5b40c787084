----------------------------- MODULE MCSession -----------------------------
(* Session for TLC. *)
EXTENDS Session

AllButReprovision == Requests \ {"retry-provisioning"}
=============================================================================
