------------------------ MODULE EnvironmentContract -------------------------
(***************************************************************************)
(* What an environment promises whoever reads the states it publishes: a   *)
(* disk attached to at most one VM, by a boot that began from "stopped";   *)
(* "running" only with a VM on the disk, and "stopped" only without one.   *)
(* An abstract specification: EnvironmentLifecycle implements it.          *)
(***************************************************************************)
VARIABLES
    state,      \* the state last published
    attached    \* a VM has the root disk open

vars == <<state, attached>>

Init == state = "stopped" /\ ~attached

(* A boot is published before its VM may open the disk.                    *)
Start ==
    /\ state = "stopped" /\ ~attached
    /\ state' = "starting"
    /\ UNCHANGED attached

Attach ==
    /\ state # "stopped" /\ ~attached
    /\ attached'
    /\ UNCHANGED state

Release ==
    /\ state # "stopped" /\ attached
    /\ ~attached'
    /\ state' \in {state, "error"}

Report ==
    /\ state # "stopped"
    /\ state' \in {"running", "stopping", "error", "stopped"}
    /\ state' = "running" => attached
    /\ state' = "stopped" => ~attached
    /\ UNCHANGED attached

Next == Start \/ Attach \/ Release \/ Report

Spec == Init /\ [][Next]_vars
=============================================================================
