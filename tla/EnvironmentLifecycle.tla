------------------------ MODULE EnvironmentLifecycle ------------------------
(***************************************************************************)
(* One environment's compute on a runner: at most one VM, started and      *)
(* stopped under one lock, over one persistent root disk                   *)
(* (packages/runner/src/environment/session/lifecycle.ts), with the state  *)
(* and the link the actor keeps in its `changed` callback (actor.ts) and   *)
(* the Gondolin VM it acquires (gondolin/layer.ts).                        *)
(*                                                                         *)
(* Callers are the fibers inside control, stop or forceStop.  Every await  *)
(* of the code separates two steps; what runs between two awaits is one    *)
(* step, because a fiber is only interrupted or overtaken while suspended. *)
(* A deadline may pass at any moment of the operation it bounds.           *)
(***************************************************************************)
EXTENDS Naturals, FiniteSets

CONSTANTS
    Callers,        \* fibers that call the lifecycle
    Instances,      \* identities of Instance objects, reused as garbage
    None,           \* no caller, no instance (`undefined`)
    Interrupts,     \* whether a caller's fiber may be interrupted
    MaxStrays       \* VMs a failing startup may leave attached at a time

ASSUME CallersAssumption == None \notin Callers
ASSUME InstancesAssumption == None \notin Instances
ASSUME InterruptsAssumption == Interrupts \in BOOLEAN
ASSUME StraysAssumption == MaxStrays \in Nat

VARIABLES
    lock,       \* the lifecycle's semaphore: its holder, or None
    call,       \* per caller: where it is, and its last outcome
    current,    \* `instance`
    state,      \* `state`, as published by `changed`
    link,       \* the instance whose daemon the link fiber dials, or None
    inst,       \* the fields and fibers of each Instance
    vm,         \* instances whose VM has the root disk attached
    stray,      \* of those, VMs that no Instance can close any more
    lossy,      \* instances whose detach began without a guest sync
    disk        \* the persistent root disk has been published

vars == <<lock, call, current, state, link, inst, vm, stray, lossy, disk>>

States == {"stopped", "starting", "running", "stopping", "error"}
Actions == {"start", "stop", "restart", "forceStop"}

Booting == {"prepare", "acquire", "probe"}
Call ==
    [pc : {"idle", "lock", "start", "unboot", "sync", "detach", "close",
           "disk", "ready"},
     cmd : Actions,
     on : Instances \cup {None},     \* the boot it waits for
     forced : BOOLEAN,
     out : {"none", "running", "stopped", "failed", "died", "interrupted"}]
Instance ==
    [boot : {"none"} \cup Booting \cup {"ok", "failed", "interrupted"},
     kill : {"none", "timeout", "interrupt"},  \* waits for the acquisition
     env : BOOLEAN,                  \* `environment` has been assigned
     final : BOOLEAN,                \* the scope holds the VM's finalizer
     detaching : {"none", "running", "done", "failed"},
     shut : BOOLEAN,                 \* the VM refuses commands
     closing : {"none", "running", "done", "died"},
     forced : BOOLEAN]

TypeOK ==
    /\ lock \in Callers \cup {None}
    /\ call \in [Callers -> Call]
    /\ current \in Instances \cup {None}
    /\ state \in States
    /\ link \in Instances \cup {None}
    /\ inst \in [Instances -> Instance]
    /\ vm \in SUBSET Instances
    /\ stray \in SUBSET Instances
    /\ lossy \in SUBSET Instances
    /\ disk \in BOOLEAN

NewCall(a) == [pc |-> "lock", cmd |-> a, on |-> None, forced |-> FALSE,
               out |-> "none"]
Answered(out, forced) == [pc |-> "idle", cmd |-> "stop", on |-> None,
                          forced |-> forced, out |-> out]
NewInstance(b) ==
    [boot |-> b, kill |-> "none", env |-> FALSE, final |-> FALSE,
     detaching |-> "none", shut |-> FALSE, closing |-> "none", forced |-> FALSE]

Init ==
    /\ lock = None
    /\ call = [c \in Callers |-> Answered("none", FALSE)]
    /\ current = None
    /\ state = "stopped"
    /\ link = None
    /\ inst = [i \in Instances |-> NewInstance("none")]
    /\ vm = {}
    /\ stray = {}
    /\ lossy = {}
    /\ disk \in BOOLEAN    \* a restarted runner finds the disk it published
-----------------------------------------------------------------------------
(* Helpers *)

(* change and the actor's `changed`: the running guest starts the link     *)
(* fiber unless one exists, any other report interrupts it.                *)
Changed(next, running) ==
    /\ state' = next
    /\ link' = IF running = None THEN None
               ELSE IF link = None THEN running ELSE link

Goto(c, pc) == call' = [call EXCEPT ![c].pc = pc]
(* A call's result; `forced` is part of it when the call succeeds.         *)
Reply(c, out) ==
    call' = [call EXCEPT ![c] =
        Answered(out, call[c].forced /\ out \in {"running", "stopped"})]

(* allowForce: stop(true) is what restart, forceStop and a start after an  *)
(* error call.                                                             *)
AllowForce(c) == call[c].cmd # "stop"

(* Plausible defect of Fail: the release is taken for done.                *)
Fail_AsStopped(c) ==
    Changed("stopped", None) /\ lock' = None /\ Reply(c, "failed")

(* stop's tapError: the failure is reported, the instance kept.            *)
Fail(c) ==
    /\ Changed("error", None)
    /\ lock' = None
    /\ Reply(c, "failed")

(* An Instance object nothing refers to, whose identity a new one may take. *)
Garbage(i) ==
    /\ i # current /\ i \notin vm
    /\ \A c \in Callers : call[c].pc = "ready" => call[c].on # i
-----------------------------------------------------------------------------
(* Callers: control, stop, forceStop *)

Begin(c, a) ==
    /\ call[c].pc = "idle"
    /\ call' = [call EXCEPT ![c] = NewCall(a)]
    /\ UNCHANGED <<lock, current, state, link, inst, vm, stray, lossy, disk>>

(* stop with no instance returns at once.                                  *)
StopNothing(c) ==
    /\ call[c].pc = "lock" /\ lock = None
    /\ current = None
    /\ call[c].cmd \in {"stop", "forceStop"}
    /\ Reply(c, "stopped")
    /\ UNCHANGED <<lock, current, state, link, inst, vm, stray, lossy, disk>>

(* stop with an instance; start calls it only for one left in error.       *)
StopBegin(c) ==
    /\ call[c].pc = "lock" /\ lock = None
    /\ current # None
    /\ call[c].cmd = "start" => state = "error"
    /\ lock' = c
    /\ call' = [call EXCEPT ![c] =
                    [@ EXCEPT !.pc = "unboot", !.forced = inst[current].forced]]
    /\ Changed("stopping", None)
    /\ UNCHANGED <<current, inst, vm, stray, lossy, disk>>

(* start with an instance that is not in error shares its boot.            *)
StartShared(c) ==
    /\ call[c].pc = "lock" /\ lock = None
    /\ current # None
    /\ call[c].cmd = "start" /\ state # "error"
    /\ call' = [call EXCEPT ![c] = [@ EXCEPT !.pc = "ready", !.on = current]]
    /\ UNCHANGED <<lock, current, state, link, inst, vm, stray, lossy, disk>>

(* start without an instance, at once or after its stop.  Plausible defect: *)
(* a failed instance is replaced without its release.                      *)
Vacant_OrError == current = None \/ state = "error"
Vacant == current = None

StartBoot(c, i) ==
    /\ \/ call[c].pc = "lock" /\ lock = None
       \/ call[c].pc = "start"
    /\ call[c].cmd \in {"start", "restart"}
    /\ Vacant
    /\ Garbage(i)
    /\ current' = i
    /\ inst' = [inst EXCEPT ![i] = NewInstance("prepare")]
    /\ Changed("starting", None)
    /\ lock' = None
    /\ call' = [call EXCEPT ![c] = [@ EXCEPT !.pc = "ready", !.on = i]]
    /\ UNCHANGED <<vm, stray, lossy, disk>>

(* The boot fiber ends for an interruption, or for its readiness deadline. *)
EndBoot(i, outcome) == inst' = [inst EXCEPT ![i].boot = outcome]

(* Fiber.interrupt(current.boot) reaches the boot.  Acquiring a VM is      *)
(* uninterruptible; an interrupted preparation may still publish its disk. *)
InterruptBoot(c) ==
    /\ call[c].pc = "unboot"
    /\ inst[current].boot \in Booting
    /\ \/ /\ inst[current].boot = "acquire"
          /\ inst[current].kill # "interrupt"
          /\ inst' = [inst EXCEPT ![current].kill = "interrupt"]
          /\ UNCHANGED disk
       \/ /\ inst[current].boot = "prepare"
          /\ EndBoot(current, "interrupted")
          /\ disk' \in {disk, TRUE}
       \/ /\ inst[current].boot = "probe"
          /\ EndBoot(current, "interrupted")
          /\ UNCHANGED disk
    /\ UNCHANGED <<lock, call, current, state, link, vm, stray, lossy>>

(* current.closing ??= fork of Scope.close                                 *)
CloseScope(c) ==
    /\ Goto(c, "close")
    /\ inst' = IF inst[current].closing = "none"
                 THEN [inst EXCEPT ![current].closing = "running"] ELSE inst

Retire(c, force) ==
    call' = [call EXCEPT ![c] =
                [@ EXCEPT !.pc = "detach", !.forced = call[c].forced \/ force]]

(* Plausible defect of Detach: a later stop forgets the forced one.        *)
Detach_Forgets(c, force) ==
    /\ Retire(c, force)
    /\ inst' = [inst EXCEPT ![current] =
                    [@ EXCEPT !.detaching = "running", !.shut = TRUE]]

(* current.detaching = fork of environment.stop                            *)
Detach(c, force) ==
    /\ Retire(c, force)
    /\ inst' = [inst EXCEPT ![current] =
                    [@ EXCEPT !.detaching = "running", !.shut = TRUE,
                              !.forced = inst[current].forced \/ force]]

(* Plausible defect: the stop does not wait for the boot it interrupts.    *)
BootEnded_Any(i) == TRUE
BootEnded(i) == inst[i].boot \notin Booting

(* The boot is gone: sync the guest, wait for its detach, or close.        *)
BootGone(c) ==
    /\ call[c].pc = "unboot"
    /\ BootEnded(current)
    /\ \/ /\ inst[current].env /\ inst[current].detaching = "none"
          /\ Goto(c, "sync")
          /\ UNCHANGED inst
       \/ /\ inst[current].detaching # "none"
          /\ Goto(c, "detach")
          /\ UNCHANGED inst
       \/ /\ ~inst[current].env /\ inst[current].detaching = "none"
          /\ CloseScope(c)
    /\ UNCHANGED <<lock, current, state, link, vm, stray, lossy, disk>>

SyncOk(c) ==
    /\ call[c].pc = "sync"
    /\ ~inst[current].shut
    /\ Detach(c, FALSE)
    /\ UNCHANGED <<lock, current, state, link, vm, stray, lossy, disk>>

(* The guest's sync fails or outlives its deadline: forced, or refused.    *)
SyncForced(c) ==
    /\ call[c].pc = "sync"
    /\ AllowForce(c)
    /\ lossy' = IF inst[current].shut THEN lossy ELSE lossy \cup {current}
    /\ Detach(c, TRUE)
    /\ UNCHANGED <<lock, current, state, link, vm, stray, disk>>

SyncRefused(c) ==
    /\ call[c].pc = "sync"
    /\ ~AllowForce(c)
    /\ Fail(c)
    /\ UNCHANGED <<current, inst, vm, stray, lossy, disk>>

Detached(c) ==
    /\ call[c].pc = "detach"
    /\ inst[current].detaching = "done"
    /\ CloseScope(c)
    /\ UNCHANGED <<lock, current, state, link, vm, stray, lossy, disk>>

(* Only a completed failure may be retried.                                *)
DetachFailed(c) ==
    /\ call[c].pc = "detach"
    /\ inst[current].detaching = "failed"
    /\ inst' = [inst EXCEPT ![current].detaching = "none"]
    /\ Fail(c)
    /\ UNCHANGED <<current, vm, stray, lossy, disk>>

(* Plausible defect: the deadline passes for the end of the closing.       *)
ScopeClosed_OrLate(i) == inst[i].closing \in {"running", "done"}
ScopeClosed(i) == inst[i].closing = "done"

Closed(c) ==
    /\ call[c].pc = "close"
    /\ ScopeClosed(current)
    /\ Goto(c, "disk")
    /\ UNCHANGED <<lock, current, state, link, inst, vm, stray, lossy, disk>>

(* The finalizer is close.orDie: its failure is a defect, which tapError   *)
(* does not see, so no state is reported.                                  *)
CloseDied(c) ==
    /\ call[c].pc = "close"
    /\ inst[current].closing = "died"
    /\ lock' = None
    /\ Reply(c, "died")
    /\ UNCHANGED <<current, state, link, inst, vm, stray, lossy, disk>>

(* Plausible defect of Deadline: a detach is joined without a bound.       *)
Deadline_ExceptDetach(c) ==
    /\ \/ /\ call[c].pc = "unboot"
          /\ inst[current].boot \in Booting /\ inst[current].kill = "interrupt"
       \/ call[c].pc = "close" /\ inst[current].closing = "running"
    /\ Fail(c)
    /\ UNCHANGED <<current, inst, vm, stray, lossy, disk>>

(* bounded: the caller gives up; the fiber it waits for keeps running.     *)
Deadline(c) ==
    /\ \/ /\ call[c].pc = "unboot"
          /\ inst[current].boot \in Booting /\ inst[current].kill = "interrupt"
       \/ call[c].pc = "detach" /\ inst[current].detaching = "running"
       \/ call[c].pc = "close" /\ inst[current].closing = "running"
    /\ Fail(c)
    /\ UNCHANGED <<current, inst, vm, stray, lossy, disk>>

(* `instance = undefined`: of the object only a fiber at work is left, and *)
(* the boot, for the callers waiting for it.                               *)
Forgotten(instance) ==
    IF instance.detaching = "running" \/ instance.closing = "running"
      THEN instance ELSE NewInstance(instance.boot)

DiskSynced(c) ==
    /\ call[c].pc = "disk"
    /\ disk
    /\ current' = None
    /\ Changed("stopped", None)
    /\ inst' = [inst EXCEPT ![current] = Forgotten(@)]
    /\ lossy' = lossy \ {current}
    /\ IF call[c].cmd \in {"start", "restart"}
         THEN Goto(c, "start") /\ UNCHANGED lock
         ELSE Reply(c, "stopped") /\ lock' = None
    /\ UNCHANGED <<vm, stray, disk>>

(* syncDisk fails, outlives its deadline, or finds no disk to open.        *)
DiskFailed(c) ==
    /\ call[c].pc = "disk"
    /\ Fail(c)
    /\ UNCHANGED <<current, inst, vm, stray, lossy, disk>>

(* ready: outside the lock, the outcome of the boot.                       *)
Ready(c) ==
    /\ call[c].pc = "ready"
    /\ inst[call[c].on].boot \notin Booting
    /\ Reply(c, IF inst[call[c].on].boot = "ok" THEN "running" ELSE "failed")
    /\ UNCHANGED <<lock, current, state, link, inst, vm, stray, lossy, disk>>

(* The caller's fiber is interrupted at an await: the lock is released and *)
(* tapError, which only sees failures, reports nothing.                    *)
Interrupt(c) ==
    /\ Interrupts
    /\ call[c].pc \notin {"idle", "start"}
    /\ lock' = IF lock = c THEN None ELSE lock
    /\ Reply(c, "interrupted")
    /\ UNCHANGED <<current, state, link, inst, vm, stray, lossy, disk>>
-----------------------------------------------------------------------------
(* The boot fiber, with the VM it acquires *)

(* A boot that fails, by itself or at its deadline, reports it; one that is *)
(* interrupted does not.                                                    *)
BootOutcome(i) ==
    IF inst[i].kill = "interrupt" THEN "interrupted" ELSE "failed"
BootReports(i) ==
    IF inst[i].kill = "interrupt" THEN UNCHANGED <<state, link>>
                                  ELSE Changed("error", None)

BootFails(i) ==
    /\ EndBoot(i, BootOutcome(i))
    /\ BootReports(i)

(* The disk is published, if it was not, and the VM's options are read.    *)
BootPrepare(i) ==
    /\ inst[i].boot = "prepare"
    /\ disk' = TRUE
    /\ EndBoot(i, "acquire")
    /\ UNCHANGED <<lock, call, current, state, link, vm, stray, lossy>>

(* The preparation or the probe fails, or the readiness deadline passes    *)
(* there; the disk may have been published first.                          *)
BootFail(i) ==
    /\ inst[i].boot \in {"prepare", "probe"}
    /\ BootFails(i)
    /\ disk' \in {disk, TRUE}
    /\ UNCHANGED <<lock, call, current, vm, stray, lossy>>

(* The readiness deadline passes while a VM is acquired: the acquisition   *)
(* is awaited before the boot fails.                                       *)
BootTimeout(i) ==
    /\ inst[i].boot = "acquire" /\ inst[i].kill = "none"
    /\ inst' = [inst EXCEPT ![i].kill = "timeout"]
    /\ UNCHANGED <<lock, call, current, state, link, vm, stray, lossy, disk>>

(* VM.create attaches the disk, which no other VM may have open.           *)
VmCreated(i) ==
    /\ inst[i].boot = "acquire" /\ i \notin vm
    /\ vm = {}
    /\ vm' = {i}
    /\ UNCHANGED <<lock, call, current, state, link, inst, stray, lossy, disk>>

(* The disk is refused, or VM.create fails.                                *)
VmRefused(i) ==
    /\ inst[i].boot = "acquire" /\ i \notin vm
    /\ BootFails(i)
    /\ UNCHANGED <<lock, call, current, vm, stray, lossy, disk>>

(* The created VM fails its probe.  closeVm closes it; when it cannot, the *)
(* acquisition fails and no handle to the VM is left.                      *)
VmFails(i) ==
    /\ inst[i].boot = "acquire" /\ i \in vm
    /\ BootFails(i)
    /\ \/ vm' = vm \ {i} /\ UNCHANGED stray
       \/ /\ Cardinality(stray) < MaxStrays
          /\ stray' = stray \cup {i}
          /\ UNCHANGED vm
    /\ UNCHANGED <<lock, call, current, lossy, disk>>

(* The VM is acquired: its finalizer is in the scope, and unless the boot  *)
(* was cut off meanwhile the lifecycle gets its handle.                    *)
VmAcquired(i) ==
    /\ inst[i].boot = "acquire" /\ i \in vm
    /\ IF inst[i].kill = "none"
         THEN /\ inst' = [inst EXCEPT ![i] =
                    [@ EXCEPT !.final = TRUE, !.env = TRUE, !.boot = "probe"]]
              /\ UNCHANGED <<state, link>>
         ELSE /\ inst' = [inst EXCEPT ![i] =
                    [@ EXCEPT !.final = TRUE, !.boot = BootOutcome(i)]]
              /\ BootReports(i)
    /\ UNCHANGED <<lock, call, current, vm, stray, lossy, disk>>

(* The probe answers: the environment is running.                          *)
BootReady(i) ==
    /\ inst[i].boot = "probe"
    /\ EndBoot(i, "ok")
    /\ Changed("running", i)
    /\ UNCHANGED <<lock, call, current, vm, stray, lossy, disk>>

(* environment.stop: a failed close may or may not have released the disk. *)
DetachEnds(i) ==
    /\ inst[i].detaching = "running"
    /\ \/ /\ inst' = [inst EXCEPT ![i].detaching = "done"]
          /\ vm' = vm \ {i}
       \/ /\ inst' = [inst EXCEPT ![i].detaching = "failed"]
          /\ vm' \in {vm, vm \ {i}}
    /\ UNCHANGED <<lock, call, current, state, link, stray, lossy, disk>>

(* Scope.close runs the VM's finalizer, which finds it closed or closes it. *)
CloseEnds(i) ==
    /\ inst[i].closing = "running"
    /\ \/ /\ inst' = [inst EXCEPT ![i].closing = "done"]
          /\ vm' = IF inst[i].final THEN vm \ {i} ELSE vm
       \/ /\ inst[i].final /\ inst[i].detaching # "done"
          /\ inst' = [inst EXCEPT ![i].closing = "died"]
          /\ vm' \in {vm, vm \ {i}}
    /\ UNCHANGED <<lock, call, current, state, link, stray, lossy, disk>>

(* A VM without a handle exits by itself.                                  *)
StrayExits(i) ==
    /\ i \in stray
    /\ vm' = vm \ {i}
    /\ stray' = stray \ {i}
    /\ UNCHANGED <<lock, call, current, state, link, inst, lossy, disk>>
-----------------------------------------------------------------------------
Enter(c) ==
    \/ StopNothing(c) \/ StopBegin(c) \/ StartShared(c)
    \/ \E i \in Instances : StartBoot(c, i)

CallerStep(c) ==
    \/ InterruptBoot(c) \/ BootGone(c)
    \/ SyncOk(c) \/ SyncForced(c) \/ SyncRefused(c)
    \/ Detached(c) \/ DetachFailed(c)
    \/ Closed(c) \/ CloseDied(c) \/ Deadline(c)
    \/ DiskSynced(c) \/ DiskFailed(c)
    \/ Ready(c)

BootStep(i) ==
    \/ BootPrepare(i) \/ BootFail(i) \/ BootTimeout(i)
    \/ VmCreated(i) \/ VmRefused(i) \/ VmFails(i) \/ VmAcquired(i)
    \/ BootReady(i)

Next ==
    \/ \E c \in Callers :
          \/ \E a \in Actions : Begin(c, a)
          \/ Enter(c)
          \/ CallerStep(c)
          \/ Interrupt(c)
    \/ \E i \in Instances :
          BootStep(i) \/ DetachEnds(i) \/ CloseEnds(i) \/ StrayExits(i)

(* Deadlines and the Effect scheduler let every caller go on, and the      *)
(* semaphore serves its waiters in turn.  The readiness deadline ends a    *)
(* preparation or a probe, which it interrupts, but waits for a VM that is *)
(* being acquired, uninterruptibly: nothing makes an acquisition end, nor  *)
(* a detach, a scope's finalizers or a stray VM.                           *)
Fairness ==
    /\ \A c \in Callers : SF_vars(Enter(c)) /\ WF_vars(CallerStep(c))
    /\ \A i \in Instances : WF_vars(BootPrepare(i) \/ BootFail(i) \/ BootReady(i))

Spec == Init /\ [][Next]_vars
FairSpec == Spec /\ Fairness
-----------------------------------------------------------------------------
(* Properties *)

(* A VM holding the root disk is the current instance's, which every stop  *)
(* releases, or a failed startup's that could not be closed: a deadline,   *)
(* an interruption or a failed detach never loses a VM.                    *)
VmOwned == \A i \in vm : i = current \/ i \in stray

(* An instance with a fiber of its own still running.                      *)
AtWork(i) ==
    \/ inst[i].boot \in Booting
    \/ inst[i].detaching = "running"
    \/ inst[i].closing = "running"

(* "stopped" is reported only when nothing is left to release: no VM, no   *)
(* link, and no boot, detach or scope of any instance still at work.       *)
StoppedIsReleased ==
    state = "stopped" =>
        /\ vm \subseteq stray
        /\ link = None
        /\ \A i \in Instances : ~AtWork(i)

(* Only the current instance has a fiber at work, and its boot, detach and *)
(* closing never overlap: each waits for the end of the one before it,     *)
(* which no deadline stands for.                                           *)
OneFiberAtWork ==
    \A i \in Instances :
        /\ AtWork(i) => i = current
        /\ inst[i].boot \in Booting =>
              inst[i].detaching = "none" /\ inst[i].closing = "none"
        /\ inst[i].detaching = "running" => inst[i].closing = "none"

(* A guest detached without a sync is never released by a command that     *)
(* reports an orderly stop, however many failed commands came in between.  *)
LossIsReported ==
    [][(current \in lossy /\ current' # current)
          => \E c \in Callers : lock = c /\ call[c].forced]_vars

(* A boot begins only when no VM holds the disk, but one whose startup     *)
(* failed and could not be closed, of which no handle is left.             *)
BootsOnFreeDisk == [][current' \notin {current, None} => vm \subseteq stray]_vars

(* Every command comes to an end, however long its VM, guest or disk hang, *)
(* but for the wait for a boot outside the lock, which lasts as long as    *)
(* the acquisition of the boot's VM: its deadline does not end that.       *)
CommandsEnd ==
    \A c \in Callers :
        \/ []<>(call[c].pc = "idle")
        \/ <>[](call[c].pc = "ready" /\ inst[call[c].on].boot = "acquire")

(* What the gateway may rely on: see EnvironmentContract.                  *)
Contract == INSTANCE EnvironmentContract WITH attached <- vm # stray
ContractSpec == Contract!Spec
=============================================================================
