--------------------- MODULE EnvironmentLifecycleProofs ----------------------
(***************************************************************************)
(* Proofs about EnvironmentLifecycle, for every set of callers and of      *)
(* instances, with and without interruptions and stray VMs.                *)
(***************************************************************************)
EXTENDS EnvironmentLifecycle, TLAPS

(* Where a caller holds the lifecycle's lock.                              *)
Locked == {"start", "unboot", "sync", "detach", "close", "disk"}

(* One caller at most is inside the lock, and what it may rely on there.   *)
LockInv ==
    \A c \in Callers :
        /\ lock = c <=> call[c].pc \in Locked
        /\ call[c].pc = "start" =>
              current = None /\ call[c].cmd \in {"start", "restart"}

(* How far the holder's stop has come with the current instance.           *)
StopInv ==
    \A c \in Callers :
        /\ call[c].pc \in Locked \ {"start"} => current # None
        /\ call[c].pc \in {"sync", "detach", "close", "disk"} =>
              inst[current].boot \notin Booting
        /\ call[c].pc = "sync" =>
              inst[current].env /\ inst[current].detaching = "none"
        /\ call[c].pc = "detach" => inst[current].detaching # "none"
        /\ call[c].pc = "close" => inst[current].closing # "none"
        /\ call[c].pc = "disk" => inst[current].closing = "done"

StateInv == current = None <=> state = "stopped"

(* Nothing is left of an instance that is not current, but a stray VM.     *)
OthersInv ==
    \A i \in Instances : i # current =>
        /\ ~AtWork(i)
        /\ i \in vm => i \in stray

StrayInv ==
    /\ stray \subseteq vm
    /\ \A i \in stray : inst[i].boot \notin Booting /\ ~inst[i].final

(* What the phase of a boot, a detach or a closing says of the VM.         *)
VmInv ==
    \A i \in Instances :
        /\ inst[i].boot \in {"prepare", "acquire"} => ~inst[i].final
        /\ inst[i].boot = "prepare" => i \notin vm
        /\ inst[i].boot = "probe" => i \in vm /\ inst[i].final
        /\ inst[i].boot \in Booting =>
              inst[i].detaching = "none" /\ inst[i].closing = "none"
        /\ inst[i].env => inst[i].final
        /\ inst[i].detaching # "none" => inst[i].env
        /\ inst[i].detaching = "done" => i \notin vm
        /\ inst[i].closing # "none" /\ inst[i].env => inst[i].detaching = "done"
        /\ inst[i].closing = "done" /\ i \in vm => i \in stray
        /\ i \in vm => \/ i \in stray \/ inst[i].final
                       \/ inst[i].boot = "acquire"

IInv ==
    /\ TypeOK /\ LockInv /\ StopInv /\ StateInv
    /\ OthersInv /\ StrayInv /\ VmInv
-----------------------------------------------------------------------------
(* The steps of Next, one by one, as the proofs below take them.           *)
LEMMA NextCases ==
    ASSUME Next
    PROVE  \/ \E c \in Callers :
                 \/ \E a \in Actions : Begin(c, a)
                 \/ StopNothing(c) \/ StopBegin(c) \/ StartShared(c)
                 \/ \E i \in Instances : StartBoot(c, i)
                 \/ InterruptBoot(c) \/ BootGone(c)
                 \/ SyncOk(c) \/ SyncForced(c) \/ SyncRefused(c)
                 \/ Detached(c) \/ DetachFailed(c)
                 \/ Closed(c) \/ CloseDied(c) \/ Deadline(c)
                 \/ DiskSynced(c) \/ DiskFailed(c) \/ Ready(c) \/ Interrupt(c)
           \/ \E i \in Instances :
                 \/ BootPrepare(i) \/ BootFail(i) \/ BootTimeout(i)
                 \/ VmCreated(i) \/ VmRefused(i) \/ VmFails(i)
                 \/ VmAcquired(i) \/ BootReady(i)
                 \/ DetachEnds(i) \/ CloseEnds(i) \/ StrayExits(i)
BY DEF Next, Enter, CallerStep, BootStep

LEMMA RecordTypes ==
    /\ \A a \in Actions : NewCall(a) \in Call
    /\ \A forced \in BOOLEAN :
          \A out \in {"none", "running", "stopped", "failed", "died",
                      "interrupted"} : Answered(out, forced) \in Call
    /\ \A b \in {"none"} \cup Booting \cup {"ok", "failed", "interrupted"} :
          NewInstance(b) \in Instance
BY DEF NewCall, Answered, NewInstance, Call, Instance, Actions

LEMMA TypeInit == Init => TypeOK
BY RecordTypes DEF Init, TypeOK, States

(* What a reply, a jump and a failed stop do to the callers' records.      *)
LEMMA ReplyType ==
    ASSUME TypeOK, NEW c \in Callers, NEW out, Reply(c, out),
           out \in {"running", "stopped", "failed", "died", "interrupted"}
    PROVE  call' \in [Callers -> Call]
<1>1. call[c].forced \in BOOLEAN
  BY DEF TypeOK, Call
<1>2. (call[c].forced /\ out \in {"running", "stopped"}) \in BOOLEAN
  OBVIOUS
<1>3. Answered(out, call[c].forced /\ out \in {"running", "stopped"}) \in Call
  BY <1>2, RecordTypes
<1> QED
  BY <1>3 DEF TypeOK, Reply

LEMMA GotoType ==
    ASSUME TypeOK, NEW c \in Callers, NEW pc, Goto(c, pc),
           pc \in {"start", "sync", "detach", "close", "disk"}
    PROVE  call' \in [Callers -> Call]
BY DEF TypeOK, Call, Goto

LEMMA FailType ==
    ASSUME TypeOK, NEW c \in Callers, Fail(c)
    PROVE  /\ call' \in [Callers -> Call]
           /\ lock' \in Callers \cup {None}
           /\ state' \in States
           /\ link' \in Instances \cup {None}
BY ReplyType DEF Fail, Changed, States, TypeOK

LEMMA HolderInstance ==
    ASSUME TypeOK, StopInv, NEW c \in Callers,
           call[c].pc \in Locked \ {"start"}
    PROVE  current \in Instances
BY DEF TypeOK, StopInv

LEMMA DetachType ==
    ASSUME TypeOK, StopInv, NEW c \in Callers, NEW force \in BOOLEAN,
           call[c].pc = "sync", Detach(c, force)
    PROVE  call' \in [Callers -> Call] /\ inst' \in [Instances -> Instance]
<1>1. current \in Instances
  BY HolderInstance DEF Locked
<1>2. call[c] \in Call /\ inst[current] \in Instance
  BY <1>1 DEF TypeOK
<1>3. /\ (call[c].forced \/ force) \in BOOLEAN
      /\ (inst[current].forced \/ force) \in BOOLEAN
  BY <1>2 DEF Call, Instance
<1>4. [call[c] EXCEPT !.pc = "detach", !.forced = call[c].forced \/ force] \in Call
  BY <1>2, <1>3 DEF Call
<1>5. [inst[current] EXCEPT !.detaching = "running", !.shut = TRUE,
                            !.forced = inst[current].forced \/ force] \in Instance
  BY <1>2, <1>3 DEF Instance
<1> QED
  BY <1>4, <1>5 DEF Detach, Retire, TypeOK

LEMMA CloseScopeType ==
    ASSUME TypeOK, current \in Instances, NEW c \in Callers, CloseScope(c)
    PROVE  inst' \in [Instances -> Instance]
<1>1. CASE inst' = [inst EXCEPT ![current].closing = "running"]
  BY <1>1 DEF TypeOK, Instance
<1> QED
  BY <1>1 DEF CloseScope, TypeOK

LEMMA TypeStep ==
    ASSUME TypeOK, StopInv, [Next]_vars
    PROVE  TypeOK'
<1>1. CASE UNCHANGED vars
  BY <1>1 DEF vars, TypeOK
<1>2. ASSUME NEW c \in Callers, NEW a \in Actions, Begin(c, a)
      PROVE  TypeOK'
  BY <1>2, RecordTypes DEF Begin, TypeOK
<1>3. ASSUME NEW c \in Callers, StopNothing(c)
      PROVE  TypeOK'
  <2>1. call' \in [Callers -> Call]
    BY <1>3, ReplyType DEF StopNothing
  <2> QED
    BY <1>3, <2>1 DEF StopNothing, TypeOK
<1>4. ASSUME NEW c \in Callers, StopBegin(c)
      PROVE  TypeOK'
  <2>1. call' \in [Callers -> Call]
    <3>1. inst[current].forced \in BOOLEAN /\ call[c] \in Call
      BY <1>4 DEF StopBegin, TypeOK, Instance
    <3>2. [call[c] EXCEPT !.pc = "unboot", !.forced = inst[current].forced] \in Call
      BY <3>1 DEF Call
    <3> QED
      BY <1>4, <3>2 DEF StopBegin, TypeOK
  <2> QED
    BY <1>4, <2>1 DEF StopBegin, TypeOK, Changed, States
<1>5. ASSUME NEW c \in Callers, StartShared(c)
      PROVE  TypeOK'
  <2>1. call' \in [Callers -> Call]
    BY ZenonT(40), <1>5 DEF StartShared, TypeOK, Call
  <2> QED
    BY <1>5, <2>1 DEF StartShared, TypeOK
<1>6. ASSUME NEW c \in Callers, NEW i \in Instances, StartBoot(c, i)
      PROVE  TypeOK'
  <2>1. call' \in [Callers -> Call]
    BY ZenonT(40), <1>6 DEF StartBoot, TypeOK, Call
  <2>2. inst' \in [Instances -> Instance]
    BY <1>6, RecordTypes DEF StartBoot, TypeOK, Booting
  <2> QED
    BY <1>6, <2>1, <2>2 DEF StartBoot, TypeOK, Changed, States
<1>7. ASSUME NEW c \in Callers, InterruptBoot(c)
      PROVE  TypeOK'
  <2>1. inst' \in [Instances -> Instance]
    <3>1. current \in Instances
      BY <1>7, HolderInstance DEF InterruptBoot, Locked
    <3>2. CASE inst' = [inst EXCEPT ![current].kill = "interrupt"]
      BY <3>1, <3>2 DEF TypeOK, Instance
    <3>3. CASE inst' = [inst EXCEPT ![current].boot = "interrupted"]
      BY <3>1, <3>3 DEF TypeOK, Instance
    <3> QED
      BY <1>7, <3>2, <3>3 DEF InterruptBoot, EndBoot
  <2> QED
    BY <1>7, <2>1 DEF InterruptBoot, TypeOK
<1>8. ASSUME NEW c \in Callers, BootGone(c)
      PROVE  TypeOK'
  <2>1. call' \in [Callers -> Call]
    BY <1>8, GotoType DEF BootGone, CloseScope
  <2>2. inst' \in [Instances -> Instance]
    BY <1>8, CloseScopeType, HolderInstance DEF BootGone, Locked, TypeOK
  <2> QED
    BY <1>8, <2>1, <2>2 DEF BootGone, TypeOK
<1>9. ASSUME NEW c \in Callers, SyncOk(c)
      PROVE  TypeOK'
  <2>1. call' \in [Callers -> Call] /\ inst' \in [Instances -> Instance]
    BY <1>9, DetachType DEF SyncOk
  <2> QED
    BY <1>9, <2>1 DEF SyncOk, TypeOK
<1>10. ASSUME NEW c \in Callers, SyncForced(c)
      PROVE  TypeOK'
  <2>1. call' \in [Callers -> Call] /\ inst' \in [Instances -> Instance]
    BY <1>10, DetachType DEF SyncForced
  <2>2. current \in Instances
    BY <1>10, HolderInstance DEF SyncForced, Locked
  <2> QED
    BY <1>10, <2>1, <2>2 DEF SyncForced, TypeOK
<1>11. ASSUME NEW c \in Callers, SyncRefused(c)
      PROVE  TypeOK'
  BY <1>11, FailType DEF SyncRefused, TypeOK
<1>12. ASSUME NEW c \in Callers, Detached(c)
      PROVE  TypeOK'
  <2>1. call' \in [Callers -> Call]
    BY <1>12, GotoType DEF Detached, CloseScope
  <2>2. inst' \in [Instances -> Instance]
    BY <1>12, CloseScopeType, HolderInstance DEF Detached, Locked
  <2> QED
    BY <1>12, <2>1, <2>2 DEF Detached, TypeOK
<1>13. ASSUME NEW c \in Callers, DetachFailed(c)
      PROVE  TypeOK'
  <2>1. inst' \in [Instances -> Instance]
    <3>1. inst' = [inst EXCEPT ![current].detaching = "none"]
      BY <1>13 DEF DetachFailed
    <3>2. current \in Instances
      BY <1>13, HolderInstance DEF DetachFailed, Locked
    <3> QED
      BY <3>1, <3>2 DEF TypeOK, Instance
  <2> QED
    BY <1>13, FailType, <2>1 DEF DetachFailed, TypeOK
<1>14. ASSUME NEW c \in Callers, Closed(c)
      PROVE  TypeOK'
  <2>1. call' \in [Callers -> Call]
    BY <1>14, GotoType DEF Closed
  <2> QED
    BY <1>14, <2>1 DEF Closed, TypeOK
<1>15. ASSUME NEW c \in Callers, CloseDied(c)
      PROVE  TypeOK'
  <2>1. call' \in [Callers -> Call]
    BY <1>15, ReplyType DEF CloseDied
  <2> QED
    BY <1>15, <2>1 DEF CloseDied, TypeOK
<1>16. ASSUME NEW c \in Callers, Deadline(c)
      PROVE  TypeOK'
  BY <1>16, FailType DEF Deadline, TypeOK
<1>17. ASSUME NEW c \in Callers, DiskSynced(c)
      PROVE  TypeOK'
  <2>1. call' \in [Callers -> Call]
    BY <1>17, ReplyType, GotoType DEF DiskSynced
  <2>2. inst' \in [Instances -> Instance]
    BY ZenonT(40), <1>17, RecordTypes DEF DiskSynced, Forgotten, TypeOK, Instance
  <2> QED
    BY <1>17, <2>1, <2>2 DEF DiskSynced, TypeOK, Changed, States
<1>18. ASSUME NEW c \in Callers, DiskFailed(c)
      PROVE  TypeOK'
  BY <1>18, FailType DEF DiskFailed, TypeOK
<1>19. ASSUME NEW c \in Callers, Ready(c)
      PROVE  TypeOK'
  <2>1. call' \in [Callers -> Call]
    BY <1>19, ReplyType DEF Ready
  <2> QED
    BY <1>19, <2>1 DEF Ready, TypeOK
<1>20. ASSUME NEW c \in Callers, Interrupt(c)
      PROVE  TypeOK'
  <2>1. call' \in [Callers -> Call]
    BY <1>20, ReplyType DEF Interrupt
  <2> QED
    BY <1>20, <2>1 DEF Interrupt, TypeOK
<1>21. ASSUME NEW i \in Instances, BootPrepare(i)
      PROVE  TypeOK'
  <2>1. inst' \in [Instances -> Instance]
    BY <1>21 DEF BootPrepare, EndBoot, TypeOK, Instance, Booting
  <2> QED
    BY <1>21, <2>1 DEF BootPrepare, TypeOK
<1>22. ASSUME NEW i \in Instances, BootFail(i)
      PROVE  TypeOK'
  <2>1. inst' \in [Instances -> Instance]
    BY <1>22 DEF BootFail, BootFails, BootOutcome, EndBoot, TypeOK, Instance
  <2> QED
    BY <1>22, <2>1
       DEF BootFail, TypeOK, BootFails, BootReports, Changed, States
<1>23. ASSUME NEW i \in Instances, BootTimeout(i)
      PROVE  TypeOK'
  <2>1. inst' \in [Instances -> Instance]
    BY <1>23 DEF BootTimeout, TypeOK, Instance
  <2> QED
    BY <1>23, <2>1 DEF BootTimeout, TypeOK
<1>24. ASSUME NEW i \in Instances, VmCreated(i)
      PROVE  TypeOK'
  BY <1>24 DEF VmCreated, TypeOK
<1>25. ASSUME NEW i \in Instances, VmRefused(i)
      PROVE  TypeOK'
  <2>1. inst' \in [Instances -> Instance]
    BY <1>25 DEF VmRefused, BootFails, BootOutcome, EndBoot, TypeOK, Instance
  <2> QED
    BY <1>25, <2>1
       DEF VmRefused, TypeOK, BootFails, BootReports, Changed, States
<1>26. ASSUME NEW i \in Instances, VmFails(i)
      PROVE  TypeOK'
  <2>1. inst' \in [Instances -> Instance]
    BY <1>26 DEF VmFails, BootFails, BootOutcome, EndBoot, TypeOK, Instance
  <2> QED
    BY <1>26, <2>1 DEF VmFails, TypeOK, BootFails, BootReports, Changed, States
<1>27. ASSUME NEW i \in Instances, VmAcquired(i)
      PROVE  TypeOK'
  <2>1. inst[i] \in Instance
    BY DEF TypeOK
  <2>2. [inst[i] EXCEPT !.final = TRUE, !.env = TRUE, !.boot = "probe"] \in Instance
    BY <2>1 DEF Instance, Booting
  <2>3. [inst[i] EXCEPT !.final = TRUE, !.boot = BootOutcome(i)] \in Instance
    BY <2>1 DEF Instance, BootOutcome
  <2>4. inst' \in [Instances -> Instance]
    BY <1>27, <2>2, <2>3 DEF VmAcquired, TypeOK
  <2> QED
    BY <1>27, <2>4 DEF VmAcquired, TypeOK, BootReports, Changed, States
<1>28. ASSUME NEW i \in Instances, BootReady(i)
      PROVE  TypeOK'
  <2>1. inst' \in [Instances -> Instance]
    BY <1>28 DEF BootReady, EndBoot, TypeOK, Instance
  <2> QED
    BY <1>28, <2>1 DEF BootReady, TypeOK, Changed, States
<1>29. ASSUME NEW i \in Instances, DetachEnds(i)
      PROVE  TypeOK'
  <2>1. inst' \in [Instances -> Instance]
    BY <1>29 DEF DetachEnds, TypeOK, Instance
  <2> QED
    BY <1>29, <2>1 DEF DetachEnds, TypeOK
<1>30. ASSUME NEW i \in Instances, CloseEnds(i)
      PROVE  TypeOK'
  <2>1. inst' \in [Instances -> Instance]
    BY <1>30 DEF CloseEnds, TypeOK, Instance
  <2> QED
    BY <1>30, <2>1 DEF CloseEnds, TypeOK
<1>31. ASSUME NEW i \in Instances, StrayExits(i)
      PROVE  TypeOK'
  BY <1>31 DEF StrayExits, TypeOK
<1> QED
  BY <1>1, <1>2, <1>3, <1>4, <1>5, <1>6, <1>7, <1>8, <1>9, <1>10, <1>11,
     <1>12, <1>13, <1>14, <1>15, <1>16, <1>17, <1>18, <1>19, <1>20, <1>21,
     <1>22, <1>23, <1>24, <1>25, <1>26, <1>27, <1>28, <1>29, <1>30, <1>31,
     NextCases

(* What a caller that replies, or goes on, leaves of the callers' records. *)
LEMMA ReplyPc ==
    ASSUME TypeOK, NEW c \in Callers, NEW out, Reply(c, out)
    PROVE  /\ call'[c].pc = "idle"
           /\ \A d \in Callers \ {c} : call'[d] = call[d]
BY DEF TypeOK, Reply, Answered

LEMMA GotoPc ==
    ASSUME TypeOK, NEW c \in Callers, NEW pc, Goto(c, pc)
    PROVE  /\ call'[c].pc = pc /\ call'[c].cmd = call[c].cmd
           /\ \A d \in Callers \ {c} : call'[d] = call[d]
BY DEF TypeOK, Goto, Call

LEMMA LockInvStep ==
    ASSUME IInv, TypeOK', [Next]_vars
    PROVE  LockInv'
<1> USE DEF IInv
<1>1. CASE UNCHANGED vars
  BY <1>1 DEF vars, LockInv, AtWork
<1>2. ASSUME NEW c \in Callers, NEW a \in Actions, Begin(c, a)
      PROVE  LockInv'
  BY <1>2, CallersAssumption DEF Begin, NewCall, LockInv, Locked
<1>3. ASSUME NEW c \in Callers, StopNothing(c)
      PROVE  LockInv'
  BY <1>3, ReplyPc, CallersAssumption DEF StopNothing, LockInv, Locked
<1>4. ASSUME NEW c \in Callers, StopBegin(c)
      PROVE  LockInv'
  <2>1. call'[c].pc = "unboot" /\ \A d \in Callers \ {c} : call'[d] = call[d]
    BY <1>4 DEF StopBegin, TypeOK, Call
  <2> QED
    BY <1>4, <2>1, CallersAssumption DEF StopBegin, LockInv, Locked
<1>5. ASSUME NEW c \in Callers, StartShared(c)
      PROVE  LockInv'
  BY <1>5, CallersAssumption DEF StartShared, Call, LockInv, Locked
<1>6. ASSUME NEW c \in Callers, NEW i \in Instances, StartBoot(c, i)
      PROVE  LockInv'
  <2>1. call'[c].pc = "ready" /\ \A d \in Callers \ {c} : call'[d] = call[d]
    BY <1>6 DEF StartBoot, TypeOK, Call
  <2> QED
    BY <1>6, <2>1, CallersAssumption DEF StartBoot, LockInv, Locked
<1>7. ASSUME NEW c \in Callers, InterruptBoot(c)
      PROVE  LockInv'
  BY <1>7, CallersAssumption DEF InterruptBoot, EndBoot, LockInv, Locked
<1>8. ASSUME NEW c \in Callers, BootGone(c)
      PROVE  LockInv'
  BY <1>8, GotoPc, CallersAssumption
     DEF BootGone, CloseScope, BootEnded, LockInv, Locked
<1>9. ASSUME NEW c \in Callers, SyncOk(c)
      PROVE  LockInv'
  BY <1>9, CallersAssumption DEF SyncOk, Detach, Retire, Call, LockInv, Locked
<1>10. ASSUME NEW c \in Callers, SyncForced(c)
      PROVE  LockInv'
  BY <1>10, CallersAssumption
     DEF SyncForced, Detach, Retire, Call, LockInv, Locked
<1>11. ASSUME NEW c \in Callers, SyncRefused(c)
      PROVE  LockInv'
  BY <1>11, ReplyPc, CallersAssumption
     DEF SyncRefused, Fail, Changed, LockInv, Locked
<1>12. ASSUME NEW c \in Callers, Detached(c)
      PROVE  LockInv'
  BY <1>12, GotoPc, CallersAssumption DEF Detached, CloseScope, LockInv, Locked
<1>13. ASSUME NEW c \in Callers, DetachFailed(c)
      PROVE  LockInv'
  BY <1>13, ReplyPc, CallersAssumption
     DEF DetachFailed, Fail, Changed, LockInv, Locked
<1>14. ASSUME NEW c \in Callers, Closed(c)
      PROVE  LockInv'
  BY <1>14, GotoPc, CallersAssumption DEF Closed, ScopeClosed, LockInv, Locked
<1>15. ASSUME NEW c \in Callers, CloseDied(c)
      PROVE  LockInv'
  BY <1>15, ReplyPc, CallersAssumption DEF CloseDied, LockInv, Locked
<1>16. ASSUME NEW c \in Callers, Deadline(c)
      PROVE  LockInv'
  BY <1>16, ReplyPc, CallersAssumption
     DEF Deadline, Fail, Changed, LockInv, Locked
<1>17. ASSUME NEW c \in Callers, DiskSynced(c)
      PROVE  LockInv'
  BY <1>17, ReplyPc, GotoPc, CallersAssumption
     DEF DiskSynced, Forgotten, NewInstance, Changed, LockInv, Locked
<1>18. ASSUME NEW c \in Callers, DiskFailed(c)
      PROVE  LockInv'
  BY <1>18, ReplyPc, CallersAssumption
     DEF DiskFailed, Fail, Changed, LockInv, Locked
<1>19. ASSUME NEW c \in Callers, Ready(c)
      PROVE  LockInv'
  BY <1>19, ReplyPc, CallersAssumption DEF Ready, LockInv, Locked
<1>20. ASSUME NEW c \in Callers, Interrupt(c)
      PROVE  LockInv'
  BY <1>20, ReplyPc, CallersAssumption DEF Interrupt, LockInv, Locked
<1>21. ASSUME NEW i \in Instances, BootPrepare(i)
      PROVE  LockInv'
  BY <1>21, CallersAssumption DEF BootPrepare, EndBoot, LockInv, Locked
<1>22. ASSUME NEW i \in Instances, BootFail(i)
      PROVE  LockInv'
  BY <1>22, CallersAssumption
     DEF BootFail, BootFails, BootOutcome, BootReports, EndBoot, Changed,
         LockInv, Locked
<1>23. ASSUME NEW i \in Instances, BootTimeout(i)
      PROVE  LockInv'
  BY <1>23, CallersAssumption DEF BootTimeout, LockInv, Locked
<1>24. ASSUME NEW i \in Instances, VmCreated(i)
      PROVE  LockInv'
  BY <1>24, CallersAssumption DEF VmCreated, LockInv, Locked
<1>25. ASSUME NEW i \in Instances, VmRefused(i)
      PROVE  LockInv'
  BY <1>25, CallersAssumption
     DEF VmRefused, BootFails, BootOutcome, BootReports, EndBoot, Changed,
         LockInv, Locked
<1>26. ASSUME NEW i \in Instances, VmFails(i)
      PROVE  LockInv'
  BY <1>26, CallersAssumption
     DEF VmFails, BootFails, BootOutcome, BootReports, EndBoot, Changed,
         LockInv, Locked
<1>27. ASSUME NEW i \in Instances, VmAcquired(i)
      PROVE  LockInv'
  BY <1>27, CallersAssumption
     DEF VmAcquired, BootOutcome, BootReports, Changed, LockInv, Locked
<1>28. ASSUME NEW i \in Instances, BootReady(i)
      PROVE  LockInv'
  BY <1>28, CallersAssumption DEF BootReady, EndBoot, Changed, LockInv, Locked
<1>29. ASSUME NEW i \in Instances, DetachEnds(i)
      PROVE  LockInv'
  BY <1>29, CallersAssumption DEF DetachEnds, LockInv, Locked
<1>30. ASSUME NEW i \in Instances, CloseEnds(i)
      PROVE  LockInv'
  BY <1>30, CallersAssumption DEF CloseEnds, LockInv, Locked
<1>31. ASSUME NEW i \in Instances, StrayExits(i)
      PROVE  LockInv'
  BY <1>31, CallersAssumption DEF StrayExits, LockInv, Locked
<1> QED
  BY <1>1, <1>2, <1>3, <1>4, <1>5, <1>6, <1>7, <1>8, <1>9, <1>10, <1>11,
     <1>12, <1>13, <1>14, <1>15, <1>16, <1>17, <1>18, <1>19, <1>20, <1>21,
     <1>22, <1>23, <1>24, <1>25, <1>26, <1>27, <1>28, <1>29, <1>30, <1>31,
     NextCases

LEMMA StopInvStep ==
    ASSUME IInv, TypeOK', [Next]_vars
    PROVE  StopInv'
<1> USE DEF IInv
<1>1. CASE UNCHANGED vars
  BY <1>1 DEF vars, StopInv, AtWork
<1>2. ASSUME NEW c \in Callers, NEW a \in Actions, Begin(c, a)
      PROVE  StopInv'
  BY <1>2, CallersAssumption, InstancesAssumption
     DEF Begin, NewCall, TypeOK, Instance, StopInv, LockInv, OthersInv, VmInv,
         Locked, AtWork, Booting
<1>3. ASSUME NEW c \in Callers, StopNothing(c)
      PROVE  StopInv'
  BY <1>3, ReplyPc, CallersAssumption, InstancesAssumption
     DEF StopNothing, TypeOK, Instance, StopInv, LockInv, OthersInv, VmInv,
         Locked, AtWork, Booting
<1>4. ASSUME NEW c \in Callers, StopBegin(c)
      PROVE  StopInv'
  BY <1>4, CallersAssumption, InstancesAssumption
     DEF StopBegin, Changed, Call, TypeOK, Instance, StopInv, LockInv,
         OthersInv, VmInv, Locked, AtWork, Booting
<1>5. ASSUME NEW c \in Callers, StartShared(c)
      PROVE  StopInv'
  BY <1>5, CallersAssumption, InstancesAssumption
     DEF StartShared, Call, TypeOK, Instance, StopInv, LockInv, OthersInv,
         VmInv, Locked, AtWork, Booting
<1>6. ASSUME NEW c \in Callers, NEW i \in Instances, StartBoot(c, i)
      PROVE  StopInv'
  BY <1>6, CallersAssumption, InstancesAssumption
     DEF StartBoot, Vacant, Garbage, NewInstance, Changed, Call, TypeOK,
         Instance, StopInv, LockInv, OthersInv, VmInv, Locked, AtWork, Booting
<1>7. ASSUME NEW c \in Callers, InterruptBoot(c)
      PROVE  StopInv'
  BY <1>7, CallersAssumption, InstancesAssumption
     DEF InterruptBoot, EndBoot, TypeOK, Instance, StopInv, LockInv,
         OthersInv, VmInv, Locked, AtWork, Booting
<1>8. ASSUME NEW c \in Callers, BootGone(c)
      PROVE  StopInv'
  BY <1>8, GotoPc, CallersAssumption, InstancesAssumption
     DEF BootGone, CloseScope, BootEnded, TypeOK, Instance, StopInv, LockInv,
         OthersInv, VmInv, Locked, AtWork, Booting
<1>9. ASSUME NEW c \in Callers, SyncOk(c)
      PROVE  StopInv'
  BY <1>9, CallersAssumption, InstancesAssumption
     DEF SyncOk, Detach, Retire, Call, TypeOK, Instance, StopInv, LockInv,
         OthersInv, VmInv, Locked, AtWork, Booting
<1>10. ASSUME NEW c \in Callers, SyncForced(c)
      PROVE  StopInv'
  BY <1>10, CallersAssumption, InstancesAssumption
     DEF SyncForced, Detach, Retire, Call, TypeOK, Instance, StopInv, LockInv,
         OthersInv, VmInv, Locked, AtWork, Booting
<1>11. ASSUME NEW c \in Callers, SyncRefused(c)
      PROVE  StopInv'
  BY <1>11, ReplyPc, CallersAssumption, InstancesAssumption
     DEF SyncRefused, Fail, Changed, TypeOK, Instance, StopInv, LockInv,
         OthersInv, VmInv, Locked, AtWork, Booting
<1>12. ASSUME NEW c \in Callers, Detached(c)
      PROVE  StopInv'
  BY <1>12, GotoPc, CallersAssumption, InstancesAssumption
     DEF Detached, CloseScope, TypeOK, Instance, StopInv, LockInv, OthersInv,
         VmInv, Locked, AtWork, Booting
<1>13. ASSUME NEW c \in Callers, DetachFailed(c)
      PROVE  StopInv'
  BY <1>13, ReplyPc, CallersAssumption, InstancesAssumption
     DEF DetachFailed, Fail, Changed, TypeOK, Instance, StopInv, LockInv,
         OthersInv, VmInv, Locked, AtWork, Booting
<1>14. ASSUME NEW c \in Callers, Closed(c)
      PROVE  StopInv'
  BY <1>14, GotoPc, CallersAssumption, InstancesAssumption
     DEF Closed, ScopeClosed, TypeOK, Instance, StopInv, LockInv, OthersInv,
         VmInv, Locked, AtWork, Booting
<1>15. ASSUME NEW c \in Callers, CloseDied(c)
      PROVE  StopInv'
  BY <1>15, ReplyPc, CallersAssumption, InstancesAssumption
     DEF CloseDied, TypeOK, Instance, StopInv, LockInv, OthersInv, VmInv,
         Locked, AtWork, Booting
<1>16. ASSUME NEW c \in Callers, Deadline(c)
      PROVE  StopInv'
  BY <1>16, ReplyPc, CallersAssumption, InstancesAssumption
     DEF Deadline, Fail, Changed, TypeOK, Instance, StopInv, LockInv,
         OthersInv, VmInv, Locked, AtWork, Booting
<1>17. ASSUME NEW c \in Callers, DiskSynced(c)
      PROVE  StopInv'
  BY <1>17, ReplyPc, GotoPc, CallersAssumption, InstancesAssumption
     DEF DiskSynced, Forgotten, NewInstance, Changed, TypeOK, Instance,
         StopInv, LockInv, OthersInv, VmInv, Locked, AtWork, Booting
<1>18. ASSUME NEW c \in Callers, DiskFailed(c)
      PROVE  StopInv'
  BY <1>18, ReplyPc, CallersAssumption, InstancesAssumption
     DEF DiskFailed, Fail, Changed, TypeOK, Instance, StopInv, LockInv,
         OthersInv, VmInv, Locked, AtWork, Booting
<1>19. ASSUME NEW c \in Callers, Ready(c)
      PROVE  StopInv'
  BY <1>19, ReplyPc, CallersAssumption, InstancesAssumption
     DEF Ready, TypeOK, Instance, StopInv, LockInv, OthersInv, VmInv, Locked,
         AtWork, Booting
<1>20. ASSUME NEW c \in Callers, Interrupt(c)
      PROVE  StopInv'
  BY <1>20, ReplyPc, CallersAssumption, InstancesAssumption
     DEF Interrupt, TypeOK, Instance, StopInv, LockInv, OthersInv, VmInv,
         Locked, AtWork, Booting
<1>21. ASSUME NEW i \in Instances, BootPrepare(i)
      PROVE  StopInv'
  BY <1>21, CallersAssumption, InstancesAssumption
     DEF BootPrepare, EndBoot, TypeOK, Instance, StopInv, LockInv, OthersInv,
         VmInv, Locked, AtWork, Booting
<1>22. ASSUME NEW i \in Instances, BootFail(i)
      PROVE  StopInv'
  BY <1>22, CallersAssumption, InstancesAssumption
     DEF BootFail, BootFails, BootOutcome, BootReports, EndBoot, Changed,
         TypeOK, Instance, StopInv, LockInv, OthersInv, VmInv, Locked, AtWork,
         Booting
<1>23. ASSUME NEW i \in Instances, BootTimeout(i)
      PROVE  StopInv'
  BY <1>23, CallersAssumption, InstancesAssumption
     DEF BootTimeout, TypeOK, Instance, StopInv, LockInv, OthersInv, VmInv,
         Locked, AtWork, Booting
<1>24. ASSUME NEW i \in Instances, VmCreated(i)
      PROVE  StopInv'
  BY <1>24, CallersAssumption, InstancesAssumption
     DEF VmCreated, TypeOK, Instance, StopInv, LockInv, OthersInv, VmInv,
         Locked, AtWork, Booting
<1>25. ASSUME NEW i \in Instances, VmRefused(i)
      PROVE  StopInv'
  BY <1>25, CallersAssumption, InstancesAssumption
     DEF VmRefused, BootFails, BootOutcome, BootReports, EndBoot, Changed,
         TypeOK, Instance, StopInv, LockInv, OthersInv, VmInv, Locked, AtWork,
         Booting
<1>26. ASSUME NEW i \in Instances, VmFails(i)
      PROVE  StopInv'
  BY <1>26, CallersAssumption, InstancesAssumption
     DEF VmFails, BootFails, BootOutcome, BootReports, EndBoot, Changed,
         TypeOK, Instance, StopInv, LockInv, OthersInv, VmInv, Locked, AtWork,
         Booting
<1>27. ASSUME NEW i \in Instances, VmAcquired(i)
      PROVE  StopInv'
  BY <1>27, CallersAssumption, InstancesAssumption
     DEF VmAcquired, BootOutcome, BootReports, Changed, TypeOK, Instance,
         StopInv, LockInv, OthersInv, VmInv, Locked, AtWork, Booting
<1>28. ASSUME NEW i \in Instances, BootReady(i)
      PROVE  StopInv'
  BY <1>28, CallersAssumption, InstancesAssumption
     DEF BootReady, EndBoot, Changed, TypeOK, Instance, StopInv, LockInv,
         OthersInv, VmInv, Locked, AtWork, Booting
<1>29. ASSUME NEW i \in Instances, DetachEnds(i)
      PROVE  StopInv'
  BY <1>29, CallersAssumption, InstancesAssumption
     DEF DetachEnds, TypeOK, Instance, StopInv, LockInv, OthersInv, VmInv,
         Locked, AtWork, Booting
<1>30. ASSUME NEW i \in Instances, CloseEnds(i)
      PROVE  StopInv'
  BY <1>30, CallersAssumption, InstancesAssumption
     DEF CloseEnds, TypeOK, Instance, StopInv, LockInv, OthersInv, VmInv,
         Locked, AtWork, Booting
<1>31. ASSUME NEW i \in Instances, StrayExits(i)
      PROVE  StopInv'
  BY <1>31, CallersAssumption, InstancesAssumption
     DEF StrayExits, TypeOK, Instance, StopInv, LockInv, OthersInv, VmInv,
         Locked, AtWork, Booting
<1> QED
  BY <1>1, <1>2, <1>3, <1>4, <1>5, <1>6, <1>7, <1>8, <1>9, <1>10, <1>11,
     <1>12, <1>13, <1>14, <1>15, <1>16, <1>17, <1>18, <1>19, <1>20, <1>21,
     <1>22, <1>23, <1>24, <1>25, <1>26, <1>27, <1>28, <1>29, <1>30, <1>31,
     NextCases

LEMMA StateInvStep ==
    ASSUME IInv, TypeOK', [Next]_vars
    PROVE  StateInv'
<1> USE DEF IInv
<1>1. CASE UNCHANGED vars
  BY <1>1 DEF vars, StateInv, AtWork
<1>2. ASSUME NEW c \in Callers, NEW a \in Actions, Begin(c, a)
      PROVE  StateInv'
  BY <1>2, InstancesAssumption
     DEF Begin, NewCall, TypeOK, StateInv, StopInv, LockInv, OthersInv,
         Locked, AtWork, Booting
<1>3. ASSUME NEW c \in Callers, StopNothing(c)
      PROVE  StateInv'
  BY <1>3, ReplyPc, InstancesAssumption
     DEF StopNothing, TypeOK, StateInv, StopInv, LockInv, OthersInv, Locked,
         AtWork, Booting
<1>4. ASSUME NEW c \in Callers, StopBegin(c)
      PROVE  StateInv'
  BY <1>4, InstancesAssumption
     DEF StopBegin, Changed, Call, TypeOK, StateInv, StopInv, LockInv,
         OthersInv, Locked, AtWork, Booting
<1>5. ASSUME NEW c \in Callers, StartShared(c)
      PROVE  StateInv'
  BY <1>5, InstancesAssumption
     DEF StartShared, Call, TypeOK, StateInv, StopInv, LockInv, OthersInv,
         Locked, AtWork, Booting
<1>6. ASSUME NEW c \in Callers, NEW i \in Instances, StartBoot(c, i)
      PROVE  StateInv'
  BY <1>6, InstancesAssumption
     DEF StartBoot, Vacant, Garbage, NewInstance, Changed, Call, TypeOK,
         StateInv, StopInv, LockInv, OthersInv, Locked, AtWork, Booting
<1>7. ASSUME NEW c \in Callers, InterruptBoot(c)
      PROVE  StateInv'
  BY <1>7, InstancesAssumption
     DEF InterruptBoot, EndBoot, TypeOK, StateInv, StopInv, LockInv,
         OthersInv, Locked, AtWork, Booting
<1>8. ASSUME NEW c \in Callers, BootGone(c)
      PROVE  StateInv'
  BY <1>8, GotoPc, InstancesAssumption
     DEF BootGone, CloseScope, BootEnded, TypeOK, StateInv, StopInv, LockInv,
         OthersInv, Locked, AtWork, Booting
<1>9. ASSUME NEW c \in Callers, SyncOk(c)
      PROVE  StateInv'
  BY <1>9, InstancesAssumption
     DEF SyncOk, Detach, Retire, Call, TypeOK, StateInv, StopInv, LockInv,
         OthersInv, Locked, AtWork, Booting
<1>10. ASSUME NEW c \in Callers, SyncForced(c)
      PROVE  StateInv'
  BY <1>10, InstancesAssumption
     DEF SyncForced, Detach, Retire, Call, TypeOK, StateInv, StopInv, LockInv,
         OthersInv, Locked, AtWork, Booting
<1>11. ASSUME NEW c \in Callers, SyncRefused(c)
      PROVE  StateInv'
  BY <1>11, ReplyPc, InstancesAssumption
     DEF SyncRefused, Fail, Changed, TypeOK, StateInv, StopInv, LockInv,
         OthersInv, Locked, AtWork, Booting
<1>12. ASSUME NEW c \in Callers, Detached(c)
      PROVE  StateInv'
  BY <1>12, GotoPc, InstancesAssumption
     DEF Detached, CloseScope, TypeOK, StateInv, StopInv, LockInv, OthersInv,
         Locked, AtWork, Booting
<1>13. ASSUME NEW c \in Callers, DetachFailed(c)
      PROVE  StateInv'
  BY <1>13, ReplyPc, InstancesAssumption
     DEF DetachFailed, Fail, Changed, TypeOK, StateInv, StopInv, LockInv,
         OthersInv, Locked, AtWork, Booting
<1>14. ASSUME NEW c \in Callers, Closed(c)
      PROVE  StateInv'
  BY <1>14, GotoPc, InstancesAssumption
     DEF Closed, ScopeClosed, TypeOK, StateInv, StopInv, LockInv, OthersInv,
         Locked, AtWork, Booting
<1>15. ASSUME NEW c \in Callers, CloseDied(c)
      PROVE  StateInv'
  BY <1>15, ReplyPc, InstancesAssumption
     DEF CloseDied, TypeOK, StateInv, StopInv, LockInv, OthersInv, Locked,
         AtWork, Booting
<1>16. ASSUME NEW c \in Callers, Deadline(c)
      PROVE  StateInv'
  BY <1>16, ReplyPc, InstancesAssumption
     DEF Deadline, Fail, Changed, TypeOK, StateInv, StopInv, LockInv,
         OthersInv, Locked, AtWork, Booting
<1>17. ASSUME NEW c \in Callers, DiskSynced(c)
      PROVE  StateInv'
  BY <1>17, ReplyPc, GotoPc, InstancesAssumption
     DEF DiskSynced, Forgotten, NewInstance, Changed, TypeOK, StateInv,
         StopInv, LockInv, OthersInv, Locked, AtWork, Booting
<1>18. ASSUME NEW c \in Callers, DiskFailed(c)
      PROVE  StateInv'
  BY <1>18, ReplyPc, InstancesAssumption
     DEF DiskFailed, Fail, Changed, TypeOK, StateInv, StopInv, LockInv,
         OthersInv, Locked, AtWork, Booting
<1>19. ASSUME NEW c \in Callers, Ready(c)
      PROVE  StateInv'
  BY <1>19, ReplyPc, InstancesAssumption
     DEF Ready, TypeOK, StateInv, StopInv, LockInv, OthersInv, Locked, AtWork,
         Booting
<1>20. ASSUME NEW c \in Callers, Interrupt(c)
      PROVE  StateInv'
  BY <1>20, ReplyPc, InstancesAssumption
     DEF Interrupt, TypeOK, StateInv, StopInv, LockInv, OthersInv, Locked,
         AtWork, Booting
<1>21. ASSUME NEW i \in Instances, BootPrepare(i)
      PROVE  StateInv'
  BY <1>21, InstancesAssumption
     DEF BootPrepare, EndBoot, TypeOK, StateInv, StopInv, LockInv, OthersInv,
         Locked, AtWork, Booting
<1>22. ASSUME NEW i \in Instances, BootFail(i)
      PROVE  StateInv'
  BY <1>22, InstancesAssumption
     DEF BootFail, BootFails, BootOutcome, BootReports, EndBoot, Changed,
         TypeOK, StateInv, StopInv, LockInv, OthersInv, Locked, AtWork,
         Booting
<1>23. ASSUME NEW i \in Instances, BootTimeout(i)
      PROVE  StateInv'
  BY <1>23, InstancesAssumption
     DEF BootTimeout, TypeOK, StateInv, StopInv, LockInv, OthersInv, Locked,
         AtWork, Booting
<1>24. ASSUME NEW i \in Instances, VmCreated(i)
      PROVE  StateInv'
  BY <1>24, InstancesAssumption
     DEF VmCreated, TypeOK, StateInv, StopInv, LockInv, OthersInv, Locked,
         AtWork, Booting
<1>25. ASSUME NEW i \in Instances, VmRefused(i)
      PROVE  StateInv'
  BY <1>25, InstancesAssumption
     DEF VmRefused, BootFails, BootOutcome, BootReports, EndBoot, Changed,
         TypeOK, StateInv, StopInv, LockInv, OthersInv, Locked, AtWork,
         Booting
<1>26. ASSUME NEW i \in Instances, VmFails(i)
      PROVE  StateInv'
  BY <1>26, InstancesAssumption
     DEF VmFails, BootFails, BootOutcome, BootReports, EndBoot, Changed,
         TypeOK, StateInv, StopInv, LockInv, OthersInv, Locked, AtWork,
         Booting
<1>27. ASSUME NEW i \in Instances, VmAcquired(i)
      PROVE  StateInv'
  BY <1>27, InstancesAssumption
     DEF VmAcquired, BootOutcome, BootReports, Changed, TypeOK, StateInv,
         StopInv, LockInv, OthersInv, Locked, AtWork, Booting
<1>28. ASSUME NEW i \in Instances, BootReady(i)
      PROVE  StateInv'
  BY <1>28, InstancesAssumption
     DEF BootReady, EndBoot, Changed, TypeOK, StateInv, StopInv, LockInv,
         OthersInv, Locked, AtWork, Booting
<1>29. ASSUME NEW i \in Instances, DetachEnds(i)
      PROVE  StateInv'
  BY <1>29, InstancesAssumption
     DEF DetachEnds, TypeOK, StateInv, StopInv, LockInv, OthersInv, Locked,
         AtWork, Booting
<1>30. ASSUME NEW i \in Instances, CloseEnds(i)
      PROVE  StateInv'
  BY <1>30, InstancesAssumption
     DEF CloseEnds, TypeOK, StateInv, StopInv, LockInv, OthersInv, Locked,
         AtWork, Booting
<1>31. ASSUME NEW i \in Instances, StrayExits(i)
      PROVE  StateInv'
  BY <1>31, InstancesAssumption
     DEF StrayExits, TypeOK, StateInv, StopInv, LockInv, OthersInv, Locked,
         AtWork, Booting
<1> QED
  BY <1>1, <1>2, <1>3, <1>4, <1>5, <1>6, <1>7, <1>8, <1>9, <1>10, <1>11,
     <1>12, <1>13, <1>14, <1>15, <1>16, <1>17, <1>18, <1>19, <1>20, <1>21,
     <1>22, <1>23, <1>24, <1>25, <1>26, <1>27, <1>28, <1>29, <1>30, <1>31,
     NextCases

LEMMA OthersInvStep ==
    ASSUME IInv, TypeOK', [Next]_vars
    PROVE  OthersInv'
<1> USE DEF IInv
<1>1. CASE UNCHANGED vars
  BY <1>1 DEF vars, OthersInv, AtWork
<1>2. ASSUME NEW c \in Callers, NEW a \in Actions, Begin(c, a)
      PROVE  OthersInv'
  BY <1>2, InstancesAssumption
     DEF Begin, NewCall, TypeOK, Instance, OthersInv, StopInv, VmInv, Locked,
         AtWork, Booting
<1>3. ASSUME NEW c \in Callers, StopNothing(c)
      PROVE  OthersInv'
  BY <1>3, ReplyPc, InstancesAssumption
     DEF StopNothing, TypeOK, Instance, OthersInv, StopInv, VmInv, Locked,
         AtWork, Booting
<1>4. ASSUME NEW c \in Callers, StopBegin(c)
      PROVE  OthersInv'
  BY <1>4, InstancesAssumption
     DEF StopBegin, Changed, Call, TypeOK, Instance, OthersInv, StopInv,
         VmInv, Locked, AtWork, Booting
<1>5. ASSUME NEW c \in Callers, StartShared(c)
      PROVE  OthersInv'
  BY <1>5, InstancesAssumption
     DEF StartShared, Call, TypeOK, Instance, OthersInv, StopInv, VmInv,
         Locked, AtWork, Booting
<1>6. ASSUME NEW c \in Callers, NEW i \in Instances, StartBoot(c, i)
      PROVE  OthersInv'
  BY <1>6, InstancesAssumption
     DEF StartBoot, Vacant, Garbage, NewInstance, Changed, Call, TypeOK,
         Instance, OthersInv, StopInv, VmInv, Locked, AtWork, Booting
<1>7. ASSUME NEW c \in Callers, InterruptBoot(c)
      PROVE  OthersInv'
  <2>1. current \in Instances /\ stray' = stray /\ vm' = vm /\ current' = current
    BY <1>7, HolderInstance DEF InterruptBoot, Locked
  <2>2. CASE inst' = [inst EXCEPT ![current].kill = "interrupt"]
    BY <2>1, <2>2
       DEF TypeOK, Instance, VmInv, OthersInv, StrayInv, StopInv, Locked,
           AtWork, Booting
  <2>3. CASE inst' = [inst EXCEPT ![current].boot = "interrupted"]
    <3>1. inst[current].boot \in Booting
      BY <1>7 DEF InterruptBoot
    <3> QED
      BY <2>1, <2>3, <3>1
         DEF TypeOK, Instance, VmInv, OthersInv, StrayInv, StopInv, Locked,
             AtWork, Booting
  <2> QED
    BY <1>7, <2>2, <2>3 DEF InterruptBoot, EndBoot
<1>8. ASSUME NEW c \in Callers, BootGone(c)
      PROVE  OthersInv'
  BY <1>8, GotoPc, InstancesAssumption
     DEF BootGone, CloseScope, BootEnded, TypeOK, Instance, OthersInv,
         StopInv, VmInv, Locked, AtWork, Booting
<1>9. ASSUME NEW c \in Callers, SyncOk(c)
      PROVE  OthersInv'
  BY <1>9, InstancesAssumption
     DEF SyncOk, Detach, Retire, Call, TypeOK, Instance, OthersInv, StopInv,
         VmInv, Locked, AtWork, Booting
<1>10. ASSUME NEW c \in Callers, SyncForced(c)
      PROVE  OthersInv'
  BY <1>10, InstancesAssumption
     DEF SyncForced, Detach, Retire, Call, TypeOK, Instance, OthersInv,
         StopInv, VmInv, Locked, AtWork, Booting
<1>11. ASSUME NEW c \in Callers, SyncRefused(c)
      PROVE  OthersInv'
  BY <1>11, ReplyPc, InstancesAssumption
     DEF SyncRefused, Fail, Changed, TypeOK, Instance, OthersInv, StopInv,
         VmInv, Locked, AtWork, Booting
<1>12. ASSUME NEW c \in Callers, Detached(c)
      PROVE  OthersInv'
  BY <1>12, GotoPc, InstancesAssumption
     DEF Detached, CloseScope, TypeOK, Instance, OthersInv, StopInv, VmInv,
         Locked, AtWork, Booting
<1>13. ASSUME NEW c \in Callers, DetachFailed(c)
      PROVE  OthersInv'
  BY <1>13, ReplyPc, InstancesAssumption
     DEF DetachFailed, Fail, Changed, TypeOK, Instance, OthersInv, StopInv,
         VmInv, Locked, AtWork, Booting
<1>14. ASSUME NEW c \in Callers, Closed(c)
      PROVE  OthersInv'
  BY <1>14, GotoPc, InstancesAssumption
     DEF Closed, ScopeClosed, TypeOK, Instance, OthersInv, StopInv, VmInv,
         Locked, AtWork, Booting
<1>15. ASSUME NEW c \in Callers, CloseDied(c)
      PROVE  OthersInv'
  BY <1>15, ReplyPc, InstancesAssumption
     DEF CloseDied, TypeOK, Instance, OthersInv, StopInv, VmInv, Locked,
         AtWork, Booting
<1>16. ASSUME NEW c \in Callers, Deadline(c)
      PROVE  OthersInv'
  BY <1>16, ReplyPc, InstancesAssumption
     DEF Deadline, Fail, Changed, TypeOK, Instance, OthersInv, StopInv, VmInv,
         Locked, AtWork, Booting
<1>17. ASSUME NEW c \in Callers, DiskSynced(c)
      PROVE  OthersInv'
  BY <1>17, ReplyPc, GotoPc, InstancesAssumption
     DEF DiskSynced, Forgotten, NewInstance, Changed, TypeOK, Instance,
         OthersInv, StopInv, VmInv, Locked, AtWork, Booting
<1>18. ASSUME NEW c \in Callers, DiskFailed(c)
      PROVE  OthersInv'
  BY <1>18, ReplyPc, InstancesAssumption
     DEF DiskFailed, Fail, Changed, TypeOK, Instance, OthersInv, StopInv,
         VmInv, Locked, AtWork, Booting
<1>19. ASSUME NEW c \in Callers, Ready(c)
      PROVE  OthersInv'
  BY <1>19, ReplyPc, InstancesAssumption
     DEF Ready, TypeOK, Instance, OthersInv, StopInv, VmInv, Locked, AtWork,
         Booting
<1>20. ASSUME NEW c \in Callers, Interrupt(c)
      PROVE  OthersInv'
  BY <1>20, ReplyPc, InstancesAssumption
     DEF Interrupt, TypeOK, Instance, OthersInv, StopInv, VmInv, Locked,
         AtWork, Booting
<1>21. ASSUME NEW i \in Instances, BootPrepare(i)
      PROVE  OthersInv'
  BY <1>21, InstancesAssumption
     DEF BootPrepare, EndBoot, TypeOK, Instance, OthersInv, StopInv, VmInv,
         Locked, AtWork, Booting
<1>22. ASSUME NEW i \in Instances, BootFail(i)
      PROVE  OthersInv'
  BY <1>22, InstancesAssumption
     DEF BootFail, BootFails, BootOutcome, BootReports, EndBoot, Changed,
         TypeOK, Instance, OthersInv, StopInv, VmInv, Locked, AtWork, Booting
<1>23. ASSUME NEW i \in Instances, BootTimeout(i)
      PROVE  OthersInv'
  BY <1>23, InstancesAssumption
     DEF BootTimeout, TypeOK, Instance, OthersInv, StopInv, VmInv, Locked,
         AtWork, Booting
<1>24. ASSUME NEW i \in Instances, VmCreated(i)
      PROVE  OthersInv'
  BY <1>24, InstancesAssumption
     DEF VmCreated, TypeOK, Instance, OthersInv, StopInv, VmInv, Locked,
         AtWork, Booting
<1>25. ASSUME NEW i \in Instances, VmRefused(i)
      PROVE  OthersInv'
  BY <1>25, InstancesAssumption
     DEF VmRefused, BootFails, BootOutcome, BootReports, EndBoot, Changed,
         TypeOK, Instance, OthersInv, StopInv, VmInv, Locked, AtWork, Booting
<1>26. ASSUME NEW i \in Instances, VmFails(i)
      PROVE  OthersInv'
  BY <1>26, InstancesAssumption
     DEF VmFails, BootFails, BootOutcome, BootReports, EndBoot, Changed,
         TypeOK, Instance, OthersInv, StopInv, VmInv, Locked, AtWork, Booting
<1>27. ASSUME NEW i \in Instances, VmAcquired(i)
      PROVE  OthersInv'
  BY <1>27, InstancesAssumption
     DEF VmAcquired, BootOutcome, BootReports, Changed, TypeOK, Instance,
         OthersInv, StopInv, VmInv, Locked, AtWork, Booting
<1>28. ASSUME NEW i \in Instances, BootReady(i)
      PROVE  OthersInv'
  BY <1>28, InstancesAssumption
     DEF BootReady, EndBoot, Changed, TypeOK, Instance, OthersInv, StopInv,
         VmInv, Locked, AtWork, Booting
<1>29. ASSUME NEW i \in Instances, DetachEnds(i)
      PROVE  OthersInv'
  BY <1>29, InstancesAssumption
     DEF DetachEnds, TypeOK, Instance, OthersInv, StopInv, VmInv, Locked,
         AtWork, Booting
<1>30. ASSUME NEW i \in Instances, CloseEnds(i)
      PROVE  OthersInv'
  BY <1>30, InstancesAssumption
     DEF CloseEnds, TypeOK, Instance, OthersInv, StopInv, VmInv, Locked,
         AtWork, Booting
<1>31. ASSUME NEW i \in Instances, StrayExits(i)
      PROVE  OthersInv'
  BY <1>31, InstancesAssumption
     DEF StrayExits, TypeOK, Instance, OthersInv, StopInv, VmInv, Locked,
         AtWork, Booting
<1> QED
  BY <1>1, <1>2, <1>3, <1>4, <1>5, <1>6, <1>7, <1>8, <1>9, <1>10, <1>11,
     <1>12, <1>13, <1>14, <1>15, <1>16, <1>17, <1>18, <1>19, <1>20, <1>21,
     <1>22, <1>23, <1>24, <1>25, <1>26, <1>27, <1>28, <1>29, <1>30, <1>31,
     NextCases

LEMMA StrayInvStep ==
    ASSUME IInv, TypeOK', [Next]_vars
    PROVE  StrayInv'
<1> USE DEF IInv
<1>1. CASE UNCHANGED vars
  BY <1>1 DEF vars, StrayInv, AtWork
<1>2. ASSUME NEW c \in Callers, NEW a \in Actions, Begin(c, a)
      PROVE  StrayInv'
  BY <1>2
     DEF Begin, NewCall, TypeOK, Instance, StrayInv, OthersInv, VmInv,
         StopInv, Locked, AtWork, Booting
<1>3. ASSUME NEW c \in Callers, StopNothing(c)
      PROVE  StrayInv'
  BY <1>3, ReplyPc
     DEF StopNothing, TypeOK, Instance, StrayInv, OthersInv, VmInv, StopInv,
         Locked, AtWork, Booting
<1>4. ASSUME NEW c \in Callers, StopBegin(c)
      PROVE  StrayInv'
  BY <1>4
     DEF StopBegin, Changed, Call, TypeOK, Instance, StrayInv, OthersInv,
         VmInv, StopInv, Locked, AtWork, Booting
<1>5. ASSUME NEW c \in Callers, StartShared(c)
      PROVE  StrayInv'
  BY <1>5
     DEF StartShared, Call, TypeOK, Instance, StrayInv, OthersInv, VmInv,
         StopInv, Locked, AtWork, Booting
<1>6. ASSUME NEW c \in Callers, NEW i \in Instances, StartBoot(c, i)
      PROVE  StrayInv'
  BY <1>6
     DEF StartBoot, Vacant, Garbage, NewInstance, Changed, Call, TypeOK,
         Instance, StrayInv, OthersInv, VmInv, StopInv, Locked, AtWork,
         Booting
<1>7. ASSUME NEW c \in Callers, InterruptBoot(c)
      PROVE  StrayInv'
  <2>1. current \in Instances /\ stray' = stray /\ vm' = vm /\ current' = current
    BY <1>7, HolderInstance DEF InterruptBoot, Locked
  <2>2. CASE inst' = [inst EXCEPT ![current].kill = "interrupt"]
    BY <2>1, <2>2
       DEF TypeOK, Instance, VmInv, OthersInv, StrayInv, StopInv, Locked,
           AtWork, Booting
  <2>3. CASE inst' = [inst EXCEPT ![current].boot = "interrupted"]
    <3>1. inst[current].boot \in Booting
      BY <1>7 DEF InterruptBoot
    <3> QED
      BY <2>1, <2>3, <3>1
         DEF TypeOK, Instance, VmInv, OthersInv, StrayInv, StopInv, Locked,
             AtWork, Booting
  <2> QED
    BY <1>7, <2>2, <2>3 DEF InterruptBoot, EndBoot
<1>8. ASSUME NEW c \in Callers, BootGone(c)
      PROVE  StrayInv'
  BY <1>8, GotoPc
     DEF BootGone, CloseScope, BootEnded, TypeOK, Instance, StrayInv,
         OthersInv, VmInv, StopInv, Locked, AtWork, Booting
<1>9. ASSUME NEW c \in Callers, SyncOk(c)
      PROVE  StrayInv'
  BY <1>9
     DEF SyncOk, Detach, Retire, Call, TypeOK, Instance, StrayInv, OthersInv,
         VmInv, StopInv, Locked, AtWork, Booting
<1>10. ASSUME NEW c \in Callers, SyncForced(c)
      PROVE  StrayInv'
  BY <1>10
     DEF SyncForced, Detach, Retire, Call, TypeOK, Instance, StrayInv,
         OthersInv, VmInv, StopInv, Locked, AtWork, Booting
<1>11. ASSUME NEW c \in Callers, SyncRefused(c)
      PROVE  StrayInv'
  BY <1>11, ReplyPc
     DEF SyncRefused, Fail, Changed, TypeOK, Instance, StrayInv, OthersInv,
         VmInv, StopInv, Locked, AtWork, Booting
<1>12. ASSUME NEW c \in Callers, Detached(c)
      PROVE  StrayInv'
  BY <1>12, GotoPc
     DEF Detached, CloseScope, TypeOK, Instance, StrayInv, OthersInv, VmInv,
         StopInv, Locked, AtWork, Booting
<1>13. ASSUME NEW c \in Callers, DetachFailed(c)
      PROVE  StrayInv'
  BY <1>13, ReplyPc
     DEF DetachFailed, Fail, Changed, TypeOK, Instance, StrayInv, OthersInv,
         VmInv, StopInv, Locked, AtWork, Booting
<1>14. ASSUME NEW c \in Callers, Closed(c)
      PROVE  StrayInv'
  BY <1>14, GotoPc
     DEF Closed, ScopeClosed, TypeOK, Instance, StrayInv, OthersInv, VmInv,
         StopInv, Locked, AtWork, Booting
<1>15. ASSUME NEW c \in Callers, CloseDied(c)
      PROVE  StrayInv'
  BY <1>15, ReplyPc
     DEF CloseDied, TypeOK, Instance, StrayInv, OthersInv, VmInv, StopInv,
         Locked, AtWork, Booting
<1>16. ASSUME NEW c \in Callers, Deadline(c)
      PROVE  StrayInv'
  BY <1>16, ReplyPc
     DEF Deadline, Fail, Changed, TypeOK, Instance, StrayInv, OthersInv,
         VmInv, StopInv, Locked, AtWork, Booting
<1>17. ASSUME NEW c \in Callers, DiskSynced(c)
      PROVE  StrayInv'
  BY <1>17, ReplyPc, GotoPc
     DEF DiskSynced, Forgotten, NewInstance, Changed, TypeOK, Instance,
         StrayInv, OthersInv, VmInv, StopInv, Locked, AtWork, Booting
<1>18. ASSUME NEW c \in Callers, DiskFailed(c)
      PROVE  StrayInv'
  BY <1>18, ReplyPc
     DEF DiskFailed, Fail, Changed, TypeOK, Instance, StrayInv, OthersInv,
         VmInv, StopInv, Locked, AtWork, Booting
<1>19. ASSUME NEW c \in Callers, Ready(c)
      PROVE  StrayInv'
  BY <1>19, ReplyPc
     DEF Ready, TypeOK, Instance, StrayInv, OthersInv, VmInv, StopInv, Locked,
         AtWork, Booting
<1>20. ASSUME NEW c \in Callers, Interrupt(c)
      PROVE  StrayInv'
  BY <1>20, ReplyPc
     DEF Interrupt, TypeOK, Instance, StrayInv, OthersInv, VmInv, StopInv,
         Locked, AtWork, Booting
<1>21. ASSUME NEW i \in Instances, BootPrepare(i)
      PROVE  StrayInv'
  BY <1>21
     DEF BootPrepare, EndBoot, TypeOK, Instance, StrayInv, OthersInv, VmInv,
         StopInv, Locked, AtWork, Booting
<1>22. ASSUME NEW i \in Instances, BootFail(i)
      PROVE  StrayInv'
  BY <1>22
     DEF BootFail, BootFails, BootOutcome, BootReports, EndBoot, Changed,
         TypeOK, Instance, StrayInv, OthersInv, VmInv, StopInv, Locked,
         AtWork, Booting
<1>23. ASSUME NEW i \in Instances, BootTimeout(i)
      PROVE  StrayInv'
  BY <1>23
     DEF BootTimeout, TypeOK, Instance, StrayInv, OthersInv, VmInv, StopInv,
         Locked, AtWork, Booting
<1>24. ASSUME NEW i \in Instances, VmCreated(i)
      PROVE  StrayInv'
  BY <1>24
     DEF VmCreated, TypeOK, Instance, StrayInv, OthersInv, VmInv, StopInv,
         Locked, AtWork, Booting
<1>25. ASSUME NEW i \in Instances, VmRefused(i)
      PROVE  StrayInv'
  BY <1>25
     DEF VmRefused, BootFails, BootOutcome, BootReports, EndBoot, Changed,
         TypeOK, Instance, StrayInv, OthersInv, VmInv, StopInv, Locked,
         AtWork, Booting
<1>26. ASSUME NEW i \in Instances, VmFails(i)
      PROVE  StrayInv'
  BY <1>26
     DEF VmFails, BootFails, BootOutcome, BootReports, EndBoot, Changed,
         TypeOK, Instance, StrayInv, OthersInv, VmInv, StopInv, Locked,
         AtWork, Booting
<1>27. ASSUME NEW i \in Instances, VmAcquired(i)
      PROVE  StrayInv'
  BY <1>27
     DEF VmAcquired, BootOutcome, BootReports, Changed, TypeOK, Instance,
         StrayInv, OthersInv, VmInv, StopInv, Locked, AtWork, Booting
<1>28. ASSUME NEW i \in Instances, BootReady(i)
      PROVE  StrayInv'
  BY <1>28
     DEF BootReady, EndBoot, Changed, TypeOK, Instance, StrayInv, OthersInv,
         VmInv, StopInv, Locked, AtWork, Booting
<1>29. ASSUME NEW i \in Instances, DetachEnds(i)
      PROVE  StrayInv'
  BY <1>29
     DEF DetachEnds, TypeOK, Instance, StrayInv, OthersInv, VmInv, StopInv,
         Locked, AtWork, Booting
<1>30. ASSUME NEW i \in Instances, CloseEnds(i)
      PROVE  StrayInv'
  BY <1>30
     DEF CloseEnds, TypeOK, Instance, StrayInv, OthersInv, VmInv, StopInv,
         Locked, AtWork, Booting
<1>31. ASSUME NEW i \in Instances, StrayExits(i)
      PROVE  StrayInv'
  BY <1>31
     DEF StrayExits, TypeOK, Instance, StrayInv, OthersInv, VmInv, StopInv,
         Locked, AtWork, Booting
<1> QED
  BY <1>1, <1>2, <1>3, <1>4, <1>5, <1>6, <1>7, <1>8, <1>9, <1>10, <1>11,
     <1>12, <1>13, <1>14, <1>15, <1>16, <1>17, <1>18, <1>19, <1>20, <1>21,
     <1>22, <1>23, <1>24, <1>25, <1>26, <1>27, <1>28, <1>29, <1>30, <1>31,
     NextCases

LEMMA VmInvStep ==
    ASSUME IInv, TypeOK', [Next]_vars
    PROVE  VmInv'
<1> USE DEF IInv
<1>1. CASE UNCHANGED vars
  BY <1>1 DEF vars, VmInv, AtWork
<1>2. ASSUME NEW c \in Callers, NEW a \in Actions, Begin(c, a)
      PROVE  VmInv'
  BY <1>2
     DEF Begin, NewCall, TypeOK, Instance, VmInv, OthersInv, StrayInv,
         StopInv, Locked, AtWork, Booting
<1>3. ASSUME NEW c \in Callers, StopNothing(c)
      PROVE  VmInv'
  BY <1>3, ReplyPc
     DEF StopNothing, TypeOK, Instance, VmInv, OthersInv, StrayInv, StopInv,
         Locked, AtWork, Booting
<1>4. ASSUME NEW c \in Callers, StopBegin(c)
      PROVE  VmInv'
  BY <1>4
     DEF StopBegin, Changed, Call, TypeOK, Instance, VmInv, OthersInv,
         StrayInv, StopInv, Locked, AtWork, Booting
<1>5. ASSUME NEW c \in Callers, StartShared(c)
      PROVE  VmInv'
  BY <1>5
     DEF StartShared, Call, TypeOK, Instance, VmInv, OthersInv, StrayInv,
         StopInv, Locked, AtWork, Booting
<1>6. ASSUME NEW c \in Callers, NEW i \in Instances, StartBoot(c, i)
      PROVE  VmInv'
  BY <1>6
     DEF StartBoot, Vacant, Garbage, NewInstance, Changed, Call, TypeOK,
         Instance, VmInv, OthersInv, StrayInv, StopInv, Locked, AtWork,
         Booting
<1>7. ASSUME NEW c \in Callers, InterruptBoot(c)
      PROVE  VmInv'
  <2>1. current \in Instances /\ stray' = stray /\ vm' = vm /\ current' = current
    BY <1>7, HolderInstance DEF InterruptBoot, Locked
  <2>2. CASE inst' = [inst EXCEPT ![current].kill = "interrupt"]
    BY <2>1, <2>2 DEF TypeOK, Instance, VmInv, Booting
  <2>3. CASE /\ inst[current].boot \in {"prepare", "probe"}
             /\ inst' = [inst EXCEPT ![current].boot = "interrupted"]
    BY <2>1, <2>3 DEF TypeOK, Instance, VmInv, Booting
  <2> QED
    BY <1>7, <2>2, <2>3 DEF InterruptBoot, EndBoot
<1>8. ASSUME NEW c \in Callers, BootGone(c)
      PROVE  VmInv'
  BY <1>8, GotoPc
     DEF BootGone, CloseScope, BootEnded, TypeOK, Instance, VmInv, OthersInv,
         StrayInv, StopInv, Locked, AtWork, Booting
<1>9. ASSUME NEW c \in Callers, SyncOk(c)
      PROVE  VmInv'
  BY <1>9
     DEF SyncOk, Detach, Retire, Call, TypeOK, Instance, VmInv, OthersInv,
         StrayInv, StopInv, Locked, AtWork, Booting
<1>10. ASSUME NEW c \in Callers, SyncForced(c)
      PROVE  VmInv'
  BY <1>10
     DEF SyncForced, Detach, Retire, Call, TypeOK, Instance, VmInv, OthersInv,
         StrayInv, StopInv, Locked, AtWork, Booting
<1>11. ASSUME NEW c \in Callers, SyncRefused(c)
      PROVE  VmInv'
  BY <1>11, ReplyPc
     DEF SyncRefused, Fail, Changed, TypeOK, Instance, VmInv, OthersInv,
         StrayInv, StopInv, Locked, AtWork, Booting
<1>12. ASSUME NEW c \in Callers, Detached(c)
      PROVE  VmInv'
  BY <1>12, GotoPc
     DEF Detached, CloseScope, TypeOK, Instance, VmInv, OthersInv, StrayInv,
         StopInv, Locked, AtWork, Booting
<1>13. ASSUME NEW c \in Callers, DetachFailed(c)
      PROVE  VmInv'
  BY <1>13, ReplyPc
     DEF DetachFailed, Fail, Changed, TypeOK, Instance, VmInv, OthersInv,
         StrayInv, StopInv, Locked, AtWork, Booting
<1>14. ASSUME NEW c \in Callers, Closed(c)
      PROVE  VmInv'
  BY <1>14, GotoPc
     DEF Closed, ScopeClosed, TypeOK, Instance, VmInv, OthersInv, StrayInv,
         StopInv, Locked, AtWork, Booting
<1>15. ASSUME NEW c \in Callers, CloseDied(c)
      PROVE  VmInv'
  BY <1>15, ReplyPc
     DEF CloseDied, TypeOK, Instance, VmInv, OthersInv, StrayInv, StopInv,
         Locked, AtWork, Booting
<1>16. ASSUME NEW c \in Callers, Deadline(c)
      PROVE  VmInv'
  BY <1>16, ReplyPc
     DEF Deadline, Fail, Changed, TypeOK, Instance, VmInv, OthersInv,
         StrayInv, StopInv, Locked, AtWork, Booting
<1>17. ASSUME NEW c \in Callers, DiskSynced(c)
      PROVE  VmInv'
  BY <1>17, ReplyPc, GotoPc
     DEF DiskSynced, Forgotten, NewInstance, Changed, TypeOK, Instance, VmInv,
         OthersInv, StrayInv, StopInv, Locked, AtWork, Booting
<1>18. ASSUME NEW c \in Callers, DiskFailed(c)
      PROVE  VmInv'
  BY <1>18, ReplyPc
     DEF DiskFailed, Fail, Changed, TypeOK, Instance, VmInv, OthersInv,
         StrayInv, StopInv, Locked, AtWork, Booting
<1>19. ASSUME NEW c \in Callers, Ready(c)
      PROVE  VmInv'
  BY <1>19, ReplyPc
     DEF Ready, TypeOK, Instance, VmInv, OthersInv, StrayInv, StopInv, Locked,
         AtWork, Booting
<1>20. ASSUME NEW c \in Callers, Interrupt(c)
      PROVE  VmInv'
  BY <1>20, ReplyPc
     DEF Interrupt, TypeOK, Instance, VmInv, OthersInv, StrayInv, StopInv,
         Locked, AtWork, Booting
<1>21. ASSUME NEW i \in Instances, BootPrepare(i)
      PROVE  VmInv'
  BY <1>21
     DEF BootPrepare, EndBoot, TypeOK, Instance, VmInv, OthersInv, StrayInv,
         StopInv, Locked, AtWork, Booting
<1>22. ASSUME NEW i \in Instances, BootFail(i)
      PROVE  VmInv'
  BY <1>22
     DEF BootFail, BootFails, BootOutcome, BootReports, EndBoot, Changed,
         TypeOK, Instance, VmInv, OthersInv, StrayInv, StopInv, Locked,
         AtWork, Booting
<1>23. ASSUME NEW i \in Instances, BootTimeout(i)
      PROVE  VmInv'
  BY <1>23
     DEF BootTimeout, TypeOK, Instance, VmInv, OthersInv, StrayInv, StopInv,
         Locked, AtWork, Booting
<1>24. ASSUME NEW i \in Instances, VmCreated(i)
      PROVE  VmInv'
  BY <1>24
     DEF VmCreated, TypeOK, Instance, VmInv, OthersInv, StrayInv, StopInv,
         Locked, AtWork, Booting
<1>25. ASSUME NEW i \in Instances, VmRefused(i)
      PROVE  VmInv'
  BY <1>25
     DEF VmRefused, BootFails, BootOutcome, BootReports, EndBoot, Changed,
         TypeOK, Instance, VmInv, OthersInv, StrayInv, StopInv, Locked,
         AtWork, Booting
<1>26. ASSUME NEW i \in Instances, VmFails(i)
      PROVE  VmInv'
  BY <1>26
     DEF VmFails, BootFails, BootOutcome, BootReports, EndBoot, Changed,
         TypeOK, Instance, VmInv, OthersInv, StrayInv, StopInv, Locked,
         AtWork, Booting
<1>27. ASSUME NEW i \in Instances, VmAcquired(i)
      PROVE  VmInv'
  <2>1. CASE inst[i].kill = "none"
    <3>1. /\ inst' = [inst EXCEPT ![i] =
                 [@ EXCEPT !.final = TRUE, !.env = TRUE, !.boot = "probe"]]
          /\ vm' = vm /\ stray' = stray
          /\ i \in vm /\ inst[i].boot = "acquire"
      BY <1>27, <2>1 DEF VmAcquired
    <3>2. /\ inst'[i].final /\ inst'[i].env /\ inst'[i].boot = "probe"
          /\ inst'[i].detaching = inst[i].detaching
          /\ inst'[i].closing = inst[i].closing
          /\ \A j \in Instances \ {i} : inst'[j] = inst[j]
      BY <3>1 DEF TypeOK, Instance
    <3> QED
      BY <3>1, <3>2
         DEF TypeOK, Instance, VmInv, OthersInv, StrayInv, AtWork, Booting
  <2>2. CASE inst[i].kill # "none"
    <3>1. /\ inst' = [inst EXCEPT ![i] = [@ EXCEPT !.final = TRUE, !.boot = BootOutcome(i)]]
          /\ BootOutcome(i) \in {"interrupted", "failed"}
          /\ vm' = vm /\ stray' = stray
      BY <1>27, <2>2 DEF VmAcquired, BootOutcome
    <3> QED
      BY <1>27, <3>1
         DEF VmAcquired, TypeOK, Instance, VmInv, OthersInv, StrayInv, AtWork,
             Booting
  <2> QED
    BY <2>1, <2>2
<1>28. ASSUME NEW i \in Instances, BootReady(i)
      PROVE  VmInv'
  BY <1>28
     DEF BootReady, EndBoot, Changed, TypeOK, Instance, VmInv, OthersInv,
         StrayInv, StopInv, Locked, AtWork, Booting
<1>29. ASSUME NEW i \in Instances, DetachEnds(i)
      PROVE  VmInv'
  BY <1>29
     DEF DetachEnds, TypeOK, Instance, VmInv, OthersInv, StrayInv, StopInv,
         Locked, AtWork, Booting
<1>30. ASSUME NEW i \in Instances, CloseEnds(i)
      PROVE  VmInv'
  BY <1>30
     DEF CloseEnds, TypeOK, Instance, VmInv, OthersInv, StrayInv, StopInv,
         Locked, AtWork, Booting
<1>31. ASSUME NEW i \in Instances, StrayExits(i)
      PROVE  VmInv'
  BY <1>31
     DEF StrayExits, TypeOK, Instance, VmInv, OthersInv, StrayInv, StopInv,
         Locked, AtWork, Booting
<1> QED
  BY <1>1, <1>2, <1>3, <1>4, <1>5, <1>6, <1>7, <1>8, <1>9, <1>10, <1>11,
     <1>12, <1>13, <1>14, <1>15, <1>16, <1>17, <1>18, <1>19, <1>20, <1>21,
     <1>22, <1>23, <1>24, <1>25, <1>26, <1>27, <1>28, <1>29, <1>30, <1>31,
     NextCases
-----------------------------------------------------------------------------
LEMMA IInvInit == Init => IInv
<1> SUFFICES ASSUME Init PROVE IInv
  OBVIOUS
<1>1. TypeOK
  BY TypeInit
<1>2. \A c \in Callers : call[c].pc = "idle"
  BY DEF Init, Answered
<1>3. \A i \in Instances : inst[i] = NewInstance("none")
  BY DEF Init
<1>4. LockInv /\ StopInv
  BY <1>2, CallersAssumption DEF Init, LockInv, StopInv, Locked
<1>5. StateInv /\ OthersInv /\ StrayInv /\ VmInv
  BY <1>3 DEF Init, NewInstance, StateInv, OthersInv, StrayInv, VmInv, AtWork,
              Booting
<1> QED
  BY <1>1, <1>4, <1>5 DEF IInv

LEMMA IInvStep ==
    ASSUME IInv, [Next]_vars
    PROVE  IInv'
<1>1. TypeOK'
  BY TypeStep DEF IInv
<1>2. LockInv' /\ StopInv' /\ StateInv' /\ OthersInv' /\ StrayInv' /\ VmInv'
  BY <1>1, LockInvStep, StopInvStep, StateInvStep, OthersInvStep, StrayInvStep,
     VmInvStep
<1> QED
  BY <1>1, <1>2 DEF IInv

(* The inductive invariant holds in every reachable state.                 *)
THEOREM Inductive == Spec => []IInv
<1>1. Init => IInv
  BY IInvInit
<1>2. IInv /\ [Next]_vars => IInv'
  BY IInvStep
<1> QED
  BY <1>1, <1>2, PTL DEF Spec

(* The variables of lifecycle.ts keep their types.                         *)
THEOREM TypeCorrect == Spec => []TypeOK
<1>1. IInv => TypeOK
  BY DEF IInv
<1> QED
  BY <1>1, Inductive, PTL

(* No VM is lost: whatever holds the disk is the current instance's, or a  *)
(* failed startup's that could not be closed.                              *)
THEOREM VmIsOwned == Spec => []VmOwned
<1>1. IInv => VmOwned
  BY DEF IInv, OthersInv, VmOwned, TypeOK
<1> QED
  BY <1>1, Inductive, PTL

(* Boot, detach and closing never overlap, in one instance or in two.      *)
THEOREM FibersTakeTurns == Spec => []OneFiberAtWork
<1>1. IInv => OneFiberAtWork
  <2> SUFFICES ASSUME IInv, NEW i \in Instances
               PROVE  /\ AtWork(i) => i = current
                      /\ inst[i].boot \in Booting =>
                            inst[i].detaching = "none" /\ inst[i].closing = "none"
                      /\ inst[i].detaching = "running" => inst[i].closing = "none"
    BY DEF OneFiberAtWork
  <2>1. AtWork(i) => i = current
    BY DEF IInv, OthersInv
  <2>2. inst[i].boot \in Booting =>
            inst[i].detaching = "none" /\ inst[i].closing = "none"
    BY DEF IInv, VmInv
  <2>3. inst[i].detaching = "running" => inst[i].closing = "none"
    BY DEF IInv, VmInv
  <2> QED
    BY <2>1, <2>2, <2>3
<1> QED
  BY <1>1, Inductive, PTL

(* The link fiber only dials while the environment is published running.   *)
LinkInv == link # None => state = "running"

LEMMA LinkStep ==
    ASSUME LinkInv, [Next]_vars
    PROVE  LinkInv'
<1>1. \A next, running :
        Changed(next, running) /\ (running = None \/ next = "running")
          => LinkInv'
  BY DEF Changed, LinkInv
<1>2. ASSUME UNCHANGED <<state, link>> PROVE LinkInv'
  BY <1>2 DEF LinkInv
<1>3. \A c \in Callers : Fail(c) => LinkInv'
  BY <1>1 DEF Fail
<1>4. \A i \in Instances : BootReports(i) => LinkInv'
  BY <1>1, <1>2 DEF BootReports
<1>5. CASE UNCHANGED vars
  BY <1>5, <1>2 DEF vars
<1>6. ASSUME NEW c \in Callers,
             \/ \E a \in Actions : Begin(c, a)
             \/ StopNothing(c) \/ StopBegin(c) \/ StartShared(c)
             \/ \E i \in Instances : StartBoot(c, i)
             \/ InterruptBoot(c) \/ BootGone(c)
             \/ SyncOk(c) \/ SyncForced(c) \/ SyncRefused(c)
             \/ Detached(c) \/ DetachFailed(c)
             \/ Closed(c) \/ CloseDied(c) \/ Deadline(c)
             \/ DiskSynced(c) \/ DiskFailed(c) \/ Ready(c) \/ Interrupt(c)
      PROVE  LinkInv'
  BY <1>1, <1>2, <1>3, <1>6
     DEF Begin, StopNothing, StopBegin, StartShared, StartBoot, InterruptBoot,
         BootGone, SyncOk, SyncForced, SyncRefused, Detached, DetachFailed,
         Closed, CloseDied, Deadline, DiskSynced, DiskFailed, Ready, Interrupt
<1>7. ASSUME NEW i \in Instances,
             \/ BootPrepare(i) \/ BootFail(i) \/ BootTimeout(i)
             \/ VmCreated(i) \/ VmRefused(i) \/ VmFails(i)
             \/ VmAcquired(i) \/ BootReady(i)
             \/ DetachEnds(i) \/ CloseEnds(i) \/ StrayExits(i)
      PROVE  LinkInv'
  BY <1>1, <1>2, <1>4, <1>7
     DEF BootPrepare, BootFail, BootFails, BootTimeout, VmCreated, VmRefused,
         VmFails, VmAcquired, BootReady, DetachEnds, CloseEnds, StrayExits
<1> QED
  BY <1>5, <1>6, <1>7, NextCases

(* "stopped" is a promise: nothing of any instance is left to release.     *)
THEOREM StopReleases == Spec => []StoppedIsReleased
<1>1. Init => LinkInv
  BY DEF Init, LinkInv
<1>2. LinkInv /\ [Next]_vars => LinkInv'
  BY LinkStep
<1>3. IInv /\ LinkInv => StoppedIsReleased
  BY InstancesAssumption
     DEF IInv, TypeOK, StateInv, OthersInv, LinkInv, StoppedIsReleased
<1> QED
  BY <1>1, <1>2, <1>3, Inductive, PTL DEF Spec

-----------------------------------------------------------------------------
(***************************************************************************)
(* EnvironmentLifecycle implements EnvironmentContract, and no orderly     *)
(* stop hides a lossy one: what follows from the inductive invariant for   *)
(* the steps of the lifecycle, again for every instance of the constants.  *)
(***************************************************************************)

(* What the refinement needs of the invariant: an instance with a fiber of *)
(* its own is current, so the state published is not "stopped".            *)
LEMMA AtWorkIsCurrent ==
    ASSUME IInv, NEW i \in Instances, AtWork(i)
    PROVE  i = current /\ state # "stopped"
BY InstancesAssumption DEF IInv, OthersInv, StateInv

(* The disk is attached exactly when the current instance's VM, not a      *)
(* stray one, holds it.                                                    *)
LEMMA AttachedMeans ==
    ASSUME IInv
    PROVE  vm # stray <=> current \in vm \ stray
BY DEF IInv, TypeOK, OthersInv, StrayInv

LEMMA HolderState ==
    ASSUME IInv, NEW c \in Callers, call[c].pc \in Locked \ {"start"}
    PROVE  current \in Instances /\ state # "stopped"
BY HolderInstance, InstancesAssumption DEF IInv, StateInv

(* A failed stop is a report of the contract.                              *)
LEMMA FailReports ==
    ASSUME NEW c \in Callers, Fail(c), state # "stopped",
           vm' = vm, stray' = stray
    PROVE  Contract!Next
BY DEF Fail, Changed, Contract!Next, Contract!Report, Contract!vars

(* A step that publishes nothing and keeps the VMs is invisible.           *)
LEMMA Invisible ==
    ASSUME state' = state, vm' = vm, stray' = stray
    PROVE  UNCHANGED Contract!vars
BY DEF Contract!vars

LEMMA BootReportsSteps ==
    ASSUME NEW i \in Instances, BootReports(i), state # "stopped",
           vm' = vm, stray' = stray
    PROVE  Contract!Next \/ UNCHANGED Contract!vars
BY DEF BootReports, Changed, Contract!Next, Contract!Report, Contract!vars

LEMMA CallerRefines ==
    ASSUME IInv, NEW c \in Callers,
           \/ \E a \in Actions : Begin(c, a)
           \/ StopNothing(c) \/ StopBegin(c) \/ StartShared(c)
           \/ \E i \in Instances : StartBoot(c, i)
           \/ InterruptBoot(c) \/ BootGone(c)
           \/ SyncOk(c) \/ SyncForced(c) \/ SyncRefused(c)
           \/ Detached(c) \/ DetachFailed(c)
           \/ Closed(c) \/ CloseDied(c) \/ Deadline(c)
           \/ DiskSynced(c) \/ DiskFailed(c) \/ Ready(c) \/ Interrupt(c)
    PROVE  Contract!Next \/ UNCHANGED Contract!vars
<1>1. CASE \/ \E a \in Actions : Begin(c, a)
           \/ StopNothing(c) \/ StartShared(c)
           \/ InterruptBoot(c) \/ BootGone(c) \/ SyncOk(c) \/ SyncForced(c)
           \/ Detached(c) \/ Closed(c) \/ CloseDied(c)
           \/ Ready(c) \/ Interrupt(c)
  <2>1. state' = state /\ vm' = vm /\ stray' = stray
    BY <1>1 DEF Begin, StopNothing, StartShared, InterruptBoot, BootGone,
                SyncOk, SyncForced, Detached, Closed, CloseDied, Ready,
                Interrupt
  <2> QED
    BY <2>1, Invisible
<1>2. CASE SyncRefused(c) \/ DetachFailed(c) \/ Deadline(c) \/ DiskFailed(c)
  <2>1. Fail(c) /\ vm' = vm /\ stray' = stray
    BY <1>2 DEF SyncRefused, DetachFailed, Deadline, DiskFailed
  <2>2. state # "stopped"
    BY <1>2, HolderState
       DEF SyncRefused, DetachFailed, Deadline, DiskFailed, Locked
  <2> QED
    BY <2>1, <2>2, FailReports
<1>3. CASE StopBegin(c)
  <2>1. state # "stopped" /\ state' = "stopping"
    BY <1>3 DEF StopBegin, Changed, IInv, StateInv
  <2>2. vm' = vm /\ stray' = stray
    BY <1>3 DEF StopBegin
  <2> QED
    BY <2>1, <2>2 DEF Contract!Next, Contract!Report
<1>4. ASSUME NEW i \in Instances, StartBoot(c, i)
      PROVE  Contract!Next
  <2>1. current = None /\ state = "stopped" /\ state' = "starting"
    BY <1>4 DEF StartBoot, Vacant, Changed, IInv, StateInv
  <2>2. vm = stray
    BY <2>1, InstancesAssumption DEF IInv, TypeOK, OthersInv, StrayInv
  <2>3. vm' = vm /\ stray' = stray
    BY <1>4 DEF StartBoot
  <2> QED
    BY <2>1, <2>2, <2>3 DEF Contract!Next, Contract!Start
<1>5. CASE DiskSynced(c)
  <2>1. state # "stopped" /\ current \in Instances
    BY <1>5, HolderState DEF DiskSynced, Locked
  <2>2. inst[current].closing = "done"
    BY <1>5 DEF DiskSynced, IInv, StopInv
  <2>3. vm = stray
    BY <2>1, <2>2, AttachedMeans DEF IInv, VmInv
  <2>4. state' = "stopped" /\ vm' = vm /\ stray' = stray
    BY <1>5 DEF DiskSynced, Changed
  <2> QED
    BY <2>1, <2>3, <2>4 DEF Contract!Next, Contract!Report
<1> QED
  BY <1>1, <1>2, <1>3, <1>4, <1>5

LEMMA BootRefines ==
    ASSUME IInv, NEW i \in Instances,
           \/ BootPrepare(i) \/ BootFail(i) \/ BootTimeout(i)
           \/ VmCreated(i) \/ VmRefused(i) \/ VmFails(i)
           \/ VmAcquired(i) \/ BootReady(i)
           \/ DetachEnds(i) \/ CloseEnds(i) \/ StrayExits(i)
    PROVE  Contract!Next \/ UNCHANGED Contract!vars
<1>1. CASE BootPrepare(i) \/ BootTimeout(i)
  BY <1>1, Invisible DEF BootPrepare, BootTimeout
<1>2. CASE BootFail(i) \/ VmRefused(i)
  <2>1. BootReports(i) /\ vm' = vm /\ stray' = stray
    BY <1>2 DEF BootFail, VmRefused, BootFails
  <2>2. state # "stopped"
    BY <1>2, AtWorkIsCurrent DEF BootFail, VmRefused, AtWork, Booting
  <2> QED
    BY <2>1, <2>2, BootReportsSteps
<1>3. CASE VmCreated(i)
  <2>1. state # "stopped" /\ state' = state
    BY <1>3, AtWorkIsCurrent DEF VmCreated, AtWork, Booting
  <2>2. vm = stray /\ vm' # stray'
    BY <1>3 DEF VmCreated, IInv, StrayInv
  <2> QED
    BY <2>1, <2>2 DEF Contract!Next, Contract!Attach
<1>4. CASE VmFails(i)
  <2>1. i = current /\ state # "stopped" /\ state' \in {state, "error"}
    BY <1>4, AtWorkIsCurrent
       DEF VmFails, BootFails, BootReports, Changed, AtWork, Booting
  <2>2. i \in vm /\ i \notin stray
    BY <1>4 DEF VmFails, IInv, StrayInv, Booting
  <2>3. vm \ {i} = stray
    BY <2>1, <2>2 DEF IInv, TypeOK, OthersInv, StrayInv
  <2>4. vm' = stray'
    BY <1>4, <2>2, <2>3 DEF VmFails
  <2> QED
    BY <2>1, <2>2, <2>4 DEF Contract!Next, Contract!Release
<1>5. CASE VmAcquired(i)
  <2>1. state # "stopped"
    BY <1>5, AtWorkIsCurrent DEF VmAcquired, AtWork, Booting
  <2> QED
    BY <1>5, <2>1, BootReportsSteps, Invisible DEF VmAcquired
<1>6. CASE BootReady(i)
  <2>1. state # "stopped" /\ state' = "running"
    BY <1>6, AtWorkIsCurrent DEF BootReady, Changed, AtWork, Booting
  <2>2. i \in vm \ stray
    BY <1>6 DEF BootReady, IInv, VmInv, StrayInv
  <2>3. vm' = vm /\ stray' = stray
    BY <1>6 DEF BootReady
  <2> QED
    BY <2>1, <2>2, <2>3 DEF Contract!Next, Contract!Report
<1>7. CASE DetachEnds(i) \/ CloseEnds(i)
  <2>1. i = current /\ state # "stopped" /\ state' = state
    BY <1>7, AtWorkIsCurrent DEF DetachEnds, CloseEnds, AtWork
  <2>2. stray' = stray /\ vm' \in {vm, vm \ {i}}
    BY <1>7 DEF DetachEnds, CloseEnds
  <2>3. vm' # vm => i \notin stray
    BY <1>7 DEF DetachEnds, CloseEnds, IInv, VmInv, StrayInv
  <2>4. CASE vm' = vm
    BY <2>1, <2>2, <2>4, Invisible
  <2>5. CASE vm' # vm
    <3>1. i \in vm \ stray /\ vm' = vm \ {i}
      BY <2>2, <2>3, <2>5
    <3>2. vm' = stray'
      BY <2>1, <2>2, <3>1 DEF IInv, TypeOK, OthersInv, StrayInv
    <3> QED
      BY <2>1, <3>1, <3>2 DEF Contract!Next, Contract!Release
  <2> QED
    BY <2>4, <2>5
<1>8. CASE StrayExits(i)
  <2>1. state' = state /\ i \in vm /\ i \in stray
    BY <1>8 DEF StrayExits, IInv, StrayInv
  <2>2. (vm' # stray') = (vm # stray)
    BY <1>8, <2>1 DEF StrayExits
  <2> QED
    BY <2>1, <2>2 DEF Contract!vars
<1> QED
  BY <1>1, <1>2, <1>3, <1>4, <1>5, <1>6, <1>7, <1>8

LEMMA RefinementInit == Init => Contract!Init
BY DEF Init, Contract!Init

LEMMA RefinementStep ==
    ASSUME IInv, [Next]_vars
    PROVE  [Contract!Next]_(Contract!vars)
<1>1. CASE UNCHANGED vars
  BY <1>1, Invisible DEF vars
<1>2. CASE Next
  BY <1>2, NextCases, CallerRefines, BootRefines
<1> QED
  BY <1>1, <1>2

(* The lifecycle implements the contract of the states it publishes.       *)
THEOREM ImplementsContract == Spec => ContractSpec
<1>1. Init => Contract!Init
  BY RefinementInit
<1>2. IInv /\ [Next]_vars => [Contract!Next]_(Contract!vars)
  BY RefinementStep
<1> QED
  BY <1>1, <1>2, Inductive, PTL DEF Spec, ContractSpec, Contract!Spec
-----------------------------------------------------------------------------
(* What is known of a guest detached without a sync: it is the current     *)
(* instance's, and the stop under way, if any, answers that it was forced. *)
LossInv ==
    /\ lossy \subseteq {current}
    /\ \A i \in lossy : inst[i].forced
    /\ \A c \in Callers :
          call[c].pc \in Locked \ {"start"} /\ inst[current].forced
            => call[c].forced

(* One holder: a step by c leaves no other caller inside the lock.         *)
LEMMA OneHolder ==
    ASSUME IInv, NEW c \in Callers, NEW d \in Callers,
           call[c].pc \in Locked, call[d].pc \in Locked
    PROVE  c = d
BY DEF IInv, LockInv

(* A step that takes no part in a stop.                                    *)
LEMMA LossKept ==
    ASSUME IInv, LossInv, lossy' = lossy, current' = current,
           \A i \in Instances : inst'[i].forced = inst[i].forced,
           \A c \in Callers : call'[c].pc \in Locked \ {"start"} =>
                 /\ call[c].pc \in Locked \ {"start"}
                 /\ call'[c].forced = call[c].forced
    PROVE  LossInv'
<1>1. \A i \in lossy : i \in Instances
  BY DEF IInv, TypeOK
<1>2. \A c \in Callers : call[c].pc \in Locked \ {"start"} => current \in Instances
  BY HolderInstance DEF IInv
<1> QED
  BY <1>1, <1>2 DEF LossInv

(* What the jumps of a caller do to the other callers and to its own       *)
(* answer.                                                                 *)
LEMMA ReplyKeeps ==
    ASSUME TypeOK, NEW c \in Callers, NEW out, Reply(c, out)
    PROVE  \A d \in Callers : call'[d].pc \in Locked =>
              call[d].pc \in Locked /\ call'[d] = call[d]
BY DEF TypeOK, Reply, Answered, Locked

LEMMA GotoKeeps ==
    ASSUME TypeOK, NEW c \in Callers, NEW pc, Goto(c, pc)
    PROVE  /\ \A d \in Callers : d # c => call'[d] = call[d]
           /\ call'[c].pc = pc /\ call'[c].forced = call[c].forced
BY DEF TypeOK, Call, Goto

LEMMA DetachKeepsLoss ==
    ASSUME IInv, LossInv, NEW c \in Callers, NEW force \in BOOLEAN,
           call[c].pc = "sync", Detach(c, force), current' = current,
           lossy' \subseteq lossy \cup (IF force THEN {current} ELSE {})
    PROVE  LossInv'
<1>1. current \in Instances
  BY HolderInstance DEF IInv, Locked
<1>2. /\ inst'[current].forced = (inst[current].forced \/ force)
      /\ \A i \in Instances : i # current => inst'[i] = inst[i]
  BY <1>1 DEF Detach, IInv, TypeOK, Instance
<1>3. /\ call'[c].forced = (call[c].forced \/ force)
      /\ \A d \in Callers : d # c => call'[d] = call[d]
  BY DEF Detach, Retire, IInv, TypeOK, Call
<1>4. inst[current].forced => call[c].forced
  BY DEF LossInv, Locked
<1>5. inst'[current].forced => call'[c].forced
  BY <1>2, <1>3, <1>4
<1>6. \A d \in Callers : d # c => call'[d].pc \notin Locked
  BY <1>3, OneHolder DEF Locked
<1>7. lossy' \subseteq {current} /\ \A i \in lossy' : inst'[i].forced
  BY <1>1, <1>2 DEF LossInv
<1> QED
  BY <1>5, <1>6, <1>7 DEF LossInv

LEMMA LossStep ==
    ASSUME IInv, LossInv, [Next]_vars
    PROVE  LossInv'
<1> USE DEF IInv
<1>1. CASE UNCHANGED vars
  BY <1>1 DEF vars, LossInv
<1>2. ASSUME NEW c \in Callers,
             \/ \E a \in Actions : Begin(c, a)
             \/ StopNothing(c) \/ StartShared(c) \/ CloseDied(c)
             \/ SyncRefused(c) \/ Deadline(c) \/ DiskFailed(c)
             \/ Ready(c) \/ Interrupt(c)
      PROVE  LossInv'
  <2>1. lossy' = lossy /\ current' = current /\ inst' = inst
    BY <1>2 DEF Begin, StopNothing, StartShared, CloseDied, SyncRefused,
                Deadline, DiskFailed, Ready, Interrupt
  <2>2. \A d \in Callers : call'[d].pc \in Locked \ {"start"} =>
            call[d].pc \in Locked \ {"start"} /\ call'[d].forced = call[d].forced
    <3>1. CASE \E out : Reply(c, out)
      BY <3>1, ReplyKeeps
    <3>2. CASE \E a \in Actions : Begin(c, a)
      <4>1. call'[c].pc = "lock" /\ \A d \in Callers \ {c} : call'[d] = call[d]
        BY <3>2 DEF Begin, NewCall, TypeOK
      <4> QED
        BY <4>1 DEF Locked
    <3>3. CASE StartShared(c)
      <4>1. call'[c].pc = "ready" /\ \A d \in Callers \ {c} : call'[d] = call[d]
        BY <3>3 DEF StartShared, TypeOK, Call
      <4> QED
        BY <4>1 DEF Locked
    <3> QED
      BY <1>2, <3>1, <3>2, <3>3
         DEF StopNothing, CloseDied, SyncRefused, Deadline, DiskFailed, Fail,
             Ready, Interrupt
  <2> QED
    BY <2>1, <2>2, LossKept
<1>3. ASSUME NEW c \in Callers, StopBegin(c)
      PROVE  LossInv'
  <2>1. call'[c].forced = inst[current].forced
    BY <1>3 DEF StopBegin, TypeOK, Call
  <2>2. \A d \in Callers : d # c => call'[d] = call[d] /\ call[d].pc \notin Locked
    BY <1>3, CallersAssumption DEF StopBegin, TypeOK, LockInv
  <2>3. lossy' = lossy /\ current' = current /\ inst' = inst
    BY <1>3 DEF StopBegin
  <2> QED
    BY <2>1, <2>2, <2>3 DEF LossInv
<1>4. ASSUME NEW c \in Callers, NEW i \in Instances, StartBoot(c, i)
      PROVE  LossInv'
  <2>1. lossy' = {}
    BY <1>4, InstancesAssumption DEF StartBoot, Vacant, LossInv, TypeOK
  <2>2. call'[c].pc = "ready" /\ \A d \in Callers \ {c} : call'[d] = call[d]
    BY <1>4 DEF StartBoot, TypeOK, Call
  <2>3. \A d \in Callers \ {c} : call[d].pc \notin Locked
    BY <1>4, CallersAssumption DEF StartBoot, LockInv, Locked
  <2>4. \A d \in Callers : call'[d].pc \notin Locked
    BY <2>2, <2>3 DEF Locked
  <2> QED
    BY <2>1, <2>4 DEF LossInv
<1>5. ASSUME NEW c \in Callers,
             InterruptBoot(c) \/ BootGone(c) \/ Detached(c) \/ Closed(c)
      PROVE  LossInv'
  <2>1. /\ lossy' = lossy /\ current' = current
        /\ call' = call \/ \E pc : Goto(c, pc)
        /\ call[c].pc \in Locked \ {"start"}
    BY <1>5 DEF InterruptBoot, BootGone, CloseScope, Detached, Closed, Locked
  <2>2. \A i \in Instances : inst'[i].forced = inst[i].forced
    <3>1. CASE InterruptBoot(c)
      <4>1. \/ inst' = [inst EXCEPT ![current].kill = "interrupt"]
            \/ inst' = [inst EXCEPT ![current].boot = "interrupted"]
        BY <3>1 DEF InterruptBoot, EndBoot
      <4> QED
        BY <4>1 DEF TypeOK, Instance
    <3>2. CASE CloseScope(c)
      BY <3>2 DEF CloseScope, TypeOK, Instance
    <3> QED
      BY <1>5, <3>1, <3>2 DEF BootGone, Detached, Closed
  <2>3. \A d \in Callers : call'[d].pc \in Locked \ {"start"} =>
            call[d].pc \in Locked \ {"start"} /\ call'[d].forced = call[d].forced
    BY <2>1, GotoKeeps
  <2> QED
    BY <2>1, <2>2, <2>3, LossKept
<1>6. ASSUME NEW c \in Callers, SyncOk(c)
      PROVE  LossInv'
  BY <1>6, DetachKeepsLoss DEF SyncOk
<1>7. ASSUME NEW c \in Callers, SyncForced(c)
      PROVE  LossInv'
  BY <1>7, DetachKeepsLoss DEF SyncForced
<1>8. ASSUME NEW c \in Callers, DetachFailed(c)
      PROVE  LossInv'
  <2>1. lossy' = lossy /\ current' = current /\ Reply(c, "failed")
    BY <1>8 DEF DetachFailed, Fail
  <2>2. \A i \in Instances : inst'[i].forced = inst[i].forced
    BY <1>8 DEF DetachFailed, TypeOK, Instance
  <2> QED
    BY <2>1, <2>2, ReplyKeeps, LossKept
<1>9. ASSUME NEW c \in Callers, DiskSynced(c)
      PROVE  LossInv'
  <2>1. lossy' = {}
    BY <1>9 DEF DiskSynced, LossInv
  <2>2. call'[c].pc \in {"start", "idle"}
    BY <1>9, GotoKeeps DEF DiskSynced, Reply, Answered, TypeOK
  <2>3. \A d \in Callers : d # c => call'[d] = call[d]
    BY <1>9, GotoKeeps DEF DiskSynced, Reply, TypeOK
  <2>4. \A d \in Callers : d # c => call[d].pc \notin Locked
    BY <1>9, OneHolder DEF DiskSynced, Locked
  <2> QED
    BY <2>1, <2>2, <2>3, <2>4 DEF LossInv, Locked
<1>10. ASSUME NEW i \in Instances,
              \/ BootPrepare(i) \/ BootFail(i) \/ BootTimeout(i)
              \/ VmCreated(i) \/ VmRefused(i) \/ VmFails(i)
              \/ VmAcquired(i) \/ BootReady(i)
              \/ DetachEnds(i) \/ CloseEnds(i) \/ StrayExits(i)
      PROVE  LossInv'
  <2>1. lossy' = lossy /\ current' = current /\ call' = call
    BY <1>10 DEF BootPrepare, BootFail, BootTimeout, VmCreated, VmRefused,
                 VmFails, VmAcquired, BootReady, DetachEnds, CloseEnds,
                 StrayExits
  <2>2. \A j \in Instances : inst'[j].forced = inst[j].forced
    <3>1. CASE VmAcquired(i)
      <4>1. inst \in [Instances -> Instance]
        BY DEF IInv, TypeOK
      <4>2. \/ inst' = [inst EXCEPT ![i] = [inst[i] EXCEPT !.final = TRUE, !.env = TRUE, !.boot = "probe"]]
            \/ inst' = [inst EXCEPT ![i] = [inst[i] EXCEPT !.final = TRUE, !.boot = BootOutcome(i)]]
        BY <3>1 DEF VmAcquired
      <4>3. CASE inst' = [inst EXCEPT ![i] = [inst[i] EXCEPT !.final = TRUE, !.env = TRUE, !.boot = "probe"]]
        BY <4>1, <4>3 DEF Instance
      <4>4. CASE inst' = [inst EXCEPT ![i] = [inst[i] EXCEPT !.final = TRUE, !.boot = BootOutcome(i)]]
        BY <4>1, <4>4 DEF Instance
      <4> QED BY <4>2, <4>3, <4>4
    <3>2. CASE \E outcome : EndBoot(i, outcome)
      BY <3>2 DEF EndBoot, TypeOK, Instance
    <3>3. CASE \/ BootTimeout(i) \/ VmCreated(i) \/ DetachEnds(i)
               \/ CloseEnds(i) \/ StrayExits(i)
      BY <3>3 DEF BootTimeout, VmCreated, DetachEnds, CloseEnds, StrayExits,
                  TypeOK, Instance
    <3> QED
      BY <1>10, <3>1, <3>2, <3>3
         DEF BootPrepare, BootFail, VmRefused, VmFails, BootFails, BootReady
  <2> QED
    BY <2>1, <2>2, LossKept
<1> QED
  BY <1>1, <1>2, <1>3, <1>4, <1>5, <1>6, <1>7, <1>8, <1>9, <1>10, NextCases

(* Only the lock's holder, or a boot in a vacant lifecycle, changes        *)
(* `instance`.                                                             *)
LEMMA LossAnswered ==
    ASSUME IInv, LossInv, [Next]_vars, current \in lossy, current' # current
    PROVE  \E c \in Callers : lock = c /\ call[c].forced
<1> USE DEF IInv
<1>1. current \in Instances
  BY DEF TypeOK
<1>2. PICK c \in Callers :
          DiskSynced(c) \/ \E i \in Instances : StartBoot(c, i)
  <2>1. Next
    BY DEF vars
  <2> QED
    BY <2>1, NextCases
       DEF Begin, StopNothing, StopBegin, StartShared, InterruptBoot, BootGone,
           SyncOk, SyncForced, SyncRefused, Detached, DetachFailed, Closed,
           CloseDied, Deadline, DiskFailed, Ready, Interrupt, BootPrepare,
           BootFail, BootTimeout, VmCreated, VmRefused, VmFails, VmAcquired,
           BootReady, DetachEnds, CloseEnds, StrayExits
<1>3. DiskSynced(c)
  BY <1>1, <1>2, InstancesAssumption DEF StartBoot, Vacant
<1>4. lock = c
  BY <1>3 DEF DiskSynced, LockInv, Locked
<1>5. inst[current].forced => call[c].forced
  BY <1>3 DEF DiskSynced, LossInv, Locked
<1> QED
  BY <1>4, <1>5 DEF LossInv

(* A guest detached without a sync is only ever released by a command      *)
(* whose answer says that it was forced.                                   *)
THEOREM LossReported == Spec => LossIsReported
<1>1. Init => LossInv
  BY DEF Init, LossInv, Answered, Locked
<1>2. IInv /\ LossInv /\ [Next]_vars => LossInv'
  BY LossStep
<1>3. IInv /\ LossInv /\ [Next]_vars =>
        [(current \in lossy /\ current' # current)
            => \E c \in Callers : lock = c /\ call[c].forced]_vars
  BY LossAnswered
<1> QED
  BY <1>1, <1>2, <1>3, Inductive, PTL DEF Spec, LossIsReported
-----------------------------------------------------------------------------
(* Only a start without an instance makes an instance current.             *)
LEMMA OnlyBootsAppoint ==
    ASSUME Next, current' \notin {current, None}
    PROVE  current = None
<1>1. ASSUME NEW c \in Callers, NEW i \in Instances, StartBoot(c, i)
      PROVE  current = None
  BY <1>1 DEF StartBoot, Vacant
<1>2. ASSUME NEW c \in Callers, DiskSynced(c) PROVE FALSE
  BY <1>2 DEF DiskSynced
<1>3. ASSUME NEW c \in Callers,
             \/ \E a \in Actions : Begin(c, a)
             \/ StopNothing(c) \/ StopBegin(c) \/ StartShared(c)
             \/ InterruptBoot(c) \/ BootGone(c)
             \/ SyncOk(c) \/ SyncForced(c) \/ SyncRefused(c)
             \/ Detached(c) \/ DetachFailed(c)
             \/ Closed(c) \/ CloseDied(c) \/ Deadline(c)
             \/ DiskFailed(c) \/ Ready(c) \/ Interrupt(c)
      PROVE  current' = current
  BY <1>3 DEF Begin, StopNothing, StopBegin, StartShared, InterruptBoot,
              BootGone, SyncOk, SyncForced, SyncRefused, Detached,
              DetachFailed, Closed, CloseDied, Deadline, DiskFailed, Ready,
              Interrupt
<1>4. ASSUME NEW i \in Instances,
             \/ BootPrepare(i) \/ BootFail(i) \/ BootTimeout(i)
             \/ VmCreated(i) \/ VmRefused(i) \/ VmFails(i)
             \/ VmAcquired(i) \/ BootReady(i)
             \/ DetachEnds(i) \/ CloseEnds(i) \/ StrayExits(i)
      PROVE  current' = current
  BY <1>4 DEF BootPrepare, BootFail, BootTimeout, VmCreated, VmRefused,
              VmFails, VmAcquired, BootReady, DetachEnds, CloseEnds, StrayExits
<1> QED
  BY <1>1, <1>2, <1>3, <1>4, NextCases

(* BootsOnFreeDisk: a boot that begins (lifecycle.ts, start) finds the     *)
(* root disk held by no VM but one whose failed startup could not be       *)
(* closed: every instance before it was released, or is still current.     *)
THEOREM DiskIsFree == Spec => BootsOnFreeDisk
<1>1. IInv /\ [Next]_vars =>
        [current' \notin {current, None} => vm \subseteq stray]_vars
  <2> SUFFICES ASSUME IInv, Next, current' \notin {current, None},
                      NEW i \in vm
               PROVE  i \in stray
    OBVIOUS
  <2>1. current = None
    BY OnlyBootsAppoint
  <2>2. i \in Instances /\ i # None
    BY InstancesAssumption DEF IInv, TypeOK
  <2> QED
    BY <2>1, <2>2 DEF IInv, OthersInv
<1> QED
  BY <1>1, Inductive, PTL DEF Spec, BootsOnFreeDisk
=============================================================================
