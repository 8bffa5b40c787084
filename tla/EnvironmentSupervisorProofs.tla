---------------------- MODULE EnvironmentSupervisorProofs ---------------------
(***************************************************************************)
(* Proofs about EnvironmentSupervisor, for every set of sessions, handlers *)
(* and sizes, and any number of crashes.                                   *)
(*                                                                         *)
(* Three things make the runner's promises hold.  One creation or deletion *)
(* is served at a time (CallInv), so whose files it changes belong to no   *)
(* actor and no gateway counts on them (ActorInv, ToldInv, GoneInv).  A    *)
(* deletion is last in its actor's queue, so nothing boots behind it       *)
(* (QueueInv, ComputeInv).  And whatever a power loss may leave has what   *)
(* the actors stand for and what was told (ViewsInv), because a definition *)
(* is synced before its actor exists and a directory is moved away, and    *)
(* that synced, before it is purged (WorkInv).                             *)
(***************************************************************************)
EXTENDS EnvironmentSupervisor, SequenceTheorems, TLAPS

Makes == {"mkdir", "rootsync", "publish", "defsync"}
Removes == {"rename", "dirsync", "purge", "purgesync"}
Ends == {"stop", "check", "shutdown"}
Queues == {"control", "ready", "stop", "shutdown"}
Lifecycles == {"stopped", "booting", "attached", "released"}

CallType == call \in [Handlers -> Call]
QueueType == commands \in [Sessions -> Seq(Handlers)]
FilesType == /\ files \in [Sessions -> Storage]
             /\ images \subseteq [Sessions -> Storage]
             /\ files \in images
ActorType == /\ admission \in Handlers \cup {None}
             /\ actors \in [Sessions -> Sizes \cup {None}]
             /\ deleting \subseteq Sessions
             /\ compute \in [Sessions -> Lifecycles]
             /\ stray \subseteq Sessions
OtherType == /\ up \in {"purging", "restoring", "up"}
             /\ crashes \in 0..MaxCrashes
             /\ told \in [Sessions -> {"nothing"} \cup Told]
Types == CallType /\ QueueType /\ FilesType /\ ActorType /\ OtherType

(* What a call is at each of its steps.                                    *)
CallOK(c) ==
    /\ c.pc # "idle" => c.session \in Sessions
    /\ c.pc = "admit" => /\ c.op \in {"create", "delete"}
                         /\ c.op = "create" => c.size \in Sizes
    /\ c.pc \in {"control", "ready"} => c.op \in {"start", "stop"}
    /\ c.pc \in Makes => c.op = "create" /\ c.size \in Sizes
    /\ c.pc \in Ends => c.op = "delete"
    /\ c.pc \in Removes => /\ c.op \in {"create", "delete"}
                           /\ c.removes = "undo" <=> c.op = "create"

(* A call that is being served has the admission permit.                   *)
Serves == Makes \cup Ends \cup Removes
CallInv ==
    \A h \in Handlers :
        CallOK(call[h]) /\ (call[h].pc \in Serves => admission = h)

Acknowledged(storage) == storage.dir /\ storage.def # None
Sound(storage) ==
    /\ ~storage.dir => storage.def = None
    /\ storage.def = None => ~storage.disk

DownInv ==
    up # "up" =>
        /\ \A h \in Handlers : call[h].pc = "idle"
        /\ \A s \in Sessions : actors[s] = None
        /\ \A view \in images, s \in Sessions :
              files[s].def # None => Acknowledged(view[s])
        /\ up = "restoring" /\ ~Faults =>
              \A s \in Sessions : ~files[s].queued

(* A session's actor is there until its deletion shuts it down.            *)
ActorOK(h) ==
    /\ call[h].pc \in Ends =>
          actors[call[h].session] # None /\ call[h].session \in deleting
    /\ call[h].pc \in Makes \cup Removes => actors[call[h].session] = None
ActorInv == \A h \in Handlers : ActorOK(h)

Distinct(q) == \A i, j \in 1..Len(q) : q[i] = q[j] => i = j

(* The callers in an actor's queue: each once, and each at a step at which *)
(* it waits for the permit or holds it.                                    *)
QueueOK(s) ==
    /\ Distinct(commands[s])
    /\ Len(commands[s]) > 0 => actors[s] # None
    /\ \A i \in 1..Len(commands[s]) :
          /\ call[commands[s][i]].session = s
          /\ call[commands[s][i]].pc \in Queues

(* A deletion comes after every command that found the environment.        *)
LastOK(h) ==
    /\ call[h].pc = "stop" =>
          /\ Len(commands[call[h].session]) > 0
          /\ commands[call[h].session][Len(commands[call[h].session])] = h
    /\ call[h].pc = "check" => Len(commands[call[h].session]) = 0
    /\ call[h].pc = "shutdown" =>
          /\ Len(commands[call[h].session]) = 1
          /\ commands[call[h].session][1] = h
QueueInv == /\ \A s \in Sessions : QueueOK(s)
            /\ \A h \in Handlers : LastOK(h)

(* Without an actor there is no compute, and nothing has the disk open; nor *)
(* once a deletion stopped the compute, and found the disk detached.       *)
ComputeOK(h) ==
    /\ call[h].pc \in {"check", "shutdown"} => compute[call[h].session] = "stopped"
    /\ call[h].pc = "shutdown" => call[h].session \notin stray
NoCompute ==
    \A s \in Sessions :
        actors[s] = None => compute[s] = "stopped" /\ s \notin stray
ComputeInv == /\ NoCompute
              /\ \A h \in Handlers : ComputeOK(h)

(* Whatever a power loss leaves has what the actors stand for.             *)
ViewsInv ==
    \A view \in images, s \in Sessions :
        /\ Sound(view[s])
        /\ actors[s] # None => Acknowledged(view[s])

(* What a call has done to its session's files so far.                     *)
WorkOK(h) ==
    /\ call[h].pc \in {"rootsync", "publish", "defsync"} =>
          files[call[h].session].dir
    /\ call[h].pc = "defsync" => files[call[h].session].def # None
    /\ call[h].pc \in {"dirsync", "purge", "purgesync"} =>
          ~files[call[h].session].dir
WorkInv == \A h \in Handlers : WorkOK(h)

(* A call that may change whether a session has an environment.            *)
Changes(h, s) == /\ call[h].pc # "idle" /\ call[h].session = s
                 /\ call[h].op \in {"create", "delete"}
Deletes(h, s) == /\ call[h].pc # "idle" /\ call[h].session = s
                 /\ call[h].op = "delete"

(* Who was told of an environment has it, whatever a power loss leaves.    *)
Promised(s) == told[s] \in {"environment", "hidden"}
ToldInv ==
    \A s \in Sessions : Promised(s) =>
        /\ \A h \in Handlers : ~Deletes(h, s)
        /\ \A view \in images : Acknowledged(view[s])
        /\ up = "up" => actors[s] # None
        /\ told[s] = "environment" => s \notin deleting

GoneInv ==
    \A s \in Sessions : told[s] = "deleted" =>
        /\ \A h \in Handlers : ~Changes(h, s)
        /\ \A view \in images : ~view[s].dir

IInv == Types /\ CallInv /\ DownInv /\ ActorInv /\ QueueInv /\ ComputeInv
            /\ ViewsInv /\ WorkInv /\ ToldInv /\ GoneInv
-----------------------------------------------------------------------------
(* The steps of Next, one by one, as the proofs below take them.           *)
NextCases ==
    \/ \E h \in Handlers :
          \/ \E op \in {"create", "delete"}, s \in Sessions, z \in Sizes :
                Begin(h, op, s, z)
          \/ \E op \in {"start", "stop"}, s \in Sessions : BeginControl(h, op, s)
          \/ ControlStarts(h)
          \/ ControlReady(h)
          \/ ControlStops(h)
          \/ CreateAnswered(h)
          \/ CreateBegins(h)
          \/ MakeDirectory(h)
          \/ SyncRoot(h)
          \/ PublishDefinition(h)
          \/ Created(h)
          \/ CreateFails(h)
          \/ MoveAway(h)
          \/ SyncMove(h)
          \/ Purge(h)
          \/ Removed(h)
          \/ RemoveFails(h)
          \/ DeleteOrphan(h)
          \/ DeleteBegins(h)
          \/ StopForDeletion(h)
          \/ CheckDetached(h)
          \/ Shutdown(h)
          \/ Interrupt(h)
    \/ \E s \in Sessions : \/ BootAttaches(s) \/ BootFails(s)
                         \/ StrayExits(s)
                         \/ StartPurges(s) \/ StartDiscards(s)
    \/ Crash \/ StartLists \/ StartRestores \/ UNCHANGED vars

LEMMA Cases == ASSUME [Next]_vars PROVE NextCases
BY DEF Next, NextCases, HandlerStep, CreateStep, DeleteStep, RemoveStep,
   ControlStep, Boot, Start

(* What is left of a sequence without its k-th element.                    *)
LEMMA RemoveAtFacts ==
  ASSUME NEW S, NEW q \in Seq(S), NEW k \in 1..Len(q)
  PROVE  /\ RemoveAt(q, k) \in Seq(S)
         /\ Len(RemoveAt(q, k)) = Len(q) - 1
         /\ \A i \in 1..(Len(q) - 1) :
               RemoveAt(q, k)[i] = IF i < k THEN q[i] ELSE q[i + 1]
<1> DEFINE a == SubSeq(q, 1, k - 1)
           b == SubSeq(q, k + 1, Len(q))
<1>1. /\ a \in Seq(S) /\ Len(a) = k - 1
      /\ \A i \in 1..(k - 1) : a[i] = q[i]
  OBVIOUS
<1>2. /\ b \in Seq(S) /\ Len(b) = Len(q) - k
      /\ \A i \in 1..(Len(q) - k) : b[i] = q[k + i]
  OBVIOUS
<1> HIDE DEF a, b
<1>3. /\ a \o b \in Seq(S) /\ Len(a \o b) = Len(a) + Len(b)
      /\ \A i \in 1..(Len(a) + Len(b)) :
            (a \o b)[i] = IF i <= Len(a) THEN a[i] ELSE b[i - Len(a)]
  BY <1>1, <1>2, ConcatProperties
<1>4. RemoveAt(q, k) = a \o b
  BY DEF RemoveAt, a, b
<1>5. ASSUME NEW i \in 1..(Len(q) - 1)
      PROVE  (a \o b)[i] = IF i < k THEN q[i] ELSE q[i + 1]
  BY <1>1, <1>2, <1>3
<1>6. Len(a \o b) = Len(q) - 1
  BY <1>1, <1>2, <1>3
<1> QED
  BY <1>3, <1>4, <1>5, <1>6

(* A caller leaves a queue from one of its places, if it has one.          *)
LEMMA WithoutPlace ==
  ASSUME NEW S, NEW q \in Seq(S), NEW h
  PROVE  \/ /\ \A i \in 1..Len(q) : q[i] # h
            /\ Without(q, h) = q
         \/ \E k \in 1..Len(q) : q[k] = h /\ Without(q, h) = RemoveAt(q, k)
BY DEF Without, Place

(* A queue without a caller: nobody new is in it, its last caller stays    *)
(* last unless it is the one who left, and who was in it once is gone.     *)
LEMMA WithoutFacts ==
  ASSUME NEW S, NEW q \in Seq(S), NEW h
  PROVE  /\ Without(q, h) \in Seq(S)
         /\ \A i \in 1..Len(Without(q, h)) :
               \E j \in 1..Len(q) : Without(q, h)[i] = q[j]
         /\ Len(Without(q, h)) > 0 => Len(q) > 0
         /\ Len(q) > 0 /\ q[Len(q)] # h =>
               /\ Len(Without(q, h)) > 0
               /\ Without(q, h)[Len(Without(q, h))] = q[Len(q)]
         /\ Distinct(q) =>
               /\ Distinct(Without(q, h))
               /\ \A i \in 1..Len(Without(q, h)) : Without(q, h)[i] # h
         /\ Len(q) = 1 /\ q[1] = h => Len(Without(q, h)) = 0
<1>1. CASE \A i \in 1..Len(q) : q[i] # h
  BY <1>1, WithoutPlace, LenProperties DEF Distinct
<1>2. CASE \E i \in 1..Len(q) : q[i] = h
  <2>1. PICK k \in 1..Len(q) : q[k] = h /\ Without(q, h) = RemoveAt(q, k)
    BY <1>2, WithoutPlace
  <2> DEFINE r == Without(q, h)
  <2>2. /\ r \in Seq(S) /\ Len(r) = Len(q) - 1
        /\ \A i \in 1..(Len(q) - 1) : r[i] = IF i < k THEN q[i] ELSE q[i + 1]
    BY <2>1, RemoveAtFacts
  <2> HIDE DEF r
  <2>3. Len(q) \in Nat OBVIOUS
  <2>4. \A i \in 1..Len(r) : \E j \in 1..Len(q) : r[i] = q[j]
    BY <2>2, <2>3
  <2>5. Len(q) > 0 /\ q[Len(q)] # h => Len(r) > 0 /\ r[Len(r)] = q[Len(q)]
    BY <2>1, <2>2, <2>3
  <2>6. ASSUME Distinct(q)
        PROVE  Distinct(r) /\ \A i \in 1..Len(r) : r[i] # h
    <3> DEFINE from(i) == IF i < k THEN i ELSE i + 1
    <3>1. \A i \in 1..Len(r) : /\ from(i) \in 1..Len(q) /\ from(i) # k
                              /\ r[i] = q[from(i)]
      BY <2>1, <2>2, <2>3
    <3>2. \A i, j \in 1..Len(r) : from(i) = from(j) => i = j
      BY <2>1, <2>2, <2>3
    <3> HIDE DEF from
    <3> QED
      BY <2>1, <2>6, <3>1, <3>2 DEF Distinct
  <2>7. Len(q) = 1 => Len(r) = 0
    BY <2>2
  <2> QED
    BY <2>2, <2>3, <2>4, <2>5, <2>6, <2>7 DEF r
<1> QED BY <1>1, <1>2

-----------------------------------------------------------------------------
(* How a handler moves on.                                                 *)

Pcs == {"idle", "admit", "control", "ready"} \cup Makes \cup Removes \cup Ends

Turns(h, pc, removes) ==
    /\ call' \in [Handlers -> Call]
    /\ \A g \in Handlers : g # h => call'[g] = call[g]
    /\ call'[h].pc = pc /\ call'[h].removes = removes
    /\ call'[h].op = call[h].op
    /\ call'[h].session = call[h].session
    /\ call'[h].size = call[h].size

Quits(h) ==
    /\ call' \in [Handlers -> Call]
    /\ \A g \in Handlers : g # h => call'[g] = call[g]
    /\ call'[h].pc = "idle"
    /\ admission' = IF admission = h THEN None ELSE admission
    /\ commands' = Released(h)

Keeps == UNCHANGED <<admission, commands>>

(* A call is taken on.                                                     *)
Takes(h, pc, op, s) ==
    /\ call' \in [Handlers -> Call]
    /\ \A g \in Handlers : g # h => call'[g] = call[g]
    /\ call'[h].pc = pc /\ call'[h].op = op
    /\ call'[h].session = s

(* A call that only moves to its next step keeps all else.                 *)
LEMMA GoesOn ==
  ASSUME CallType, NEW h \in Handlers, NEW pc \in Pcs,
         call' = [call EXCEPT ![h].pc = pc]
  PROVE  Turns(h, pc, call[h].removes)
BY DEF CallType, Call, Pcs, Makes, Removes, Ends, Turns

(* A call that goes on to remove a storage says why.                       *)
LEMMA GoesToRemove ==
  ASSUME CallType, NEW h \in Handlers, NEW removes \in {"undo", "orphan", "deletion"},
         call' = [call EXCEPT ![h] = [@ EXCEPT !.pc = "rename", !.removes = removes]]
  PROVE  Turns(h, "rename", removes)
<1> DEFINE c == [call[h] EXCEPT !.pc = "rename", !.removes = removes]
<1>1. call[h] \in Call
  BY DEF CallType
<1>2. /\ c \in Call
      /\ c.pc = "rename" /\ c.removes = removes /\ c.op = call[h].op
      /\ c.session = call[h].session /\ c.size = call[h].size
  BY <1>1 DEF Call
<1>3. call' = [call EXCEPT ![h] = c]
  OBVIOUS
<1> HIDE DEF c
<1> QED
  BY <1>2, <1>3 DEF CallType, Turns

(* An answered call is over, and has given its permits back.               *)
LEMMA ReplyQuits ==
  ASSUME CallType, NEW h \in Handlers, NEW out, Reply(h, out)
  PROVE  Quits(h)
BY DEF CallType, Call, Idle, Quits, Reply

(* A create or a delete is taken on with its session and size.             *)
LEMMA BeginTakes ==
  ASSUME CallType, NEW h \in Handlers, NEW op \in {"create", "delete"},
         NEW s \in Sessions, NEW z \in Sizes, Begin(h, op, s, z)
  PROVE  Takes(h, "admit", op, s) /\ call'[h].size = (IF op = "create" THEN z ELSE None)
<1> DEFINE c == [call[h] EXCEPT !.pc = "admit", !.op = op, !.session = s,
                               !.size = IF op = "create" THEN z ELSE None]
<1>1. call[h] \in Call
  BY DEF CallType
<1>2. /\ c \in Call
      /\ c.pc = "admit" /\ c.op = op /\ c.session = s
      /\ c.size = (IF op = "create" THEN z ELSE None)
  BY <1>1 DEF Call
<1>3. call' = [call EXCEPT ![h] = c]
  BY DEF Begin
<1> HIDE DEF c
<1> QED
  BY <1>2, <1>3 DEF CallType, Takes

(* So is a control call, with its session.                                 *)
LEMMA BeginControlTakes ==
  ASSUME CallType, NEW h \in Handlers, NEW op \in {"start", "stop"},
         NEW s \in Sessions, BeginControl(h, op, s)
  PROVE  Takes(h, "control", op, s)
<1> DEFINE c == [call[h] EXCEPT !.pc = "control", !.op = op, !.session = s]
<1>1. call[h] \in Call
  BY DEF CallType
<1>2. /\ c \in Call
      /\ c.pc = "control" /\ c.op = op /\ c.session = s
  BY <1>1 DEF Call
<1>3. call' = [call EXCEPT ![h] = c]
  BY DEF BeginControl
<1> HIDE DEF c
<1> QED
  BY <1>2, <1>3 DEF CallType, Takes

(* A creation that is undone goes on to remove what it wrote.              *)
LEMMA UndoTurns ==
  ASSUME CallType, NEW h \in Handlers, Undo(h)
  PROVE  Turns(h, "rename", "undo") /\ Keeps
BY GoesToRemove DEF Undo, Keeps

(* A creation that fails is over, or is undone.                            *)
LEMMA CreateFailsTurns ==
  ASSUME CallType, NEW h \in Handlers, CreateFails(h)
  PROVE  \/ call[h].pc = "mkdir" /\ Quits(h)
         \/ call[h].pc # "mkdir" /\ Turns(h, "rename", "undo") /\ Keeps
<1>1. CASE call[h].pc = "mkdir"
  <2>1. Reply(h, "rejected")
    BY <1>1 DEF CreateFails, At
  <2> QED
    BY <1>1, <2>1, ReplyQuits
<1>2. CASE call[h].pc # "mkdir"
  <2>1. Undo(h)
    BY <1>2 DEF CreateFails, At
  <2> QED
    BY <1>2, <2>1, UndoTurns
<1> QED
  BY <1>1, <1>2

(* An interrupted call is over, or a creation that is undone.              *)
LEMMA InterruptTurns ==
  ASSUME CallType, NEW h \in Handlers, Interrupt(h)
  PROVE  \/ Quits(h)
         \/ call[h].pc \in Makes /\ Turns(h, "rename", "undo") /\ Keeps
<1>1. CASE call[h].pc \in {"rootsync", "publish", "defsync"}
  <2>1. Undo(h)
    BY <1>1 DEF Interrupt
  <2> QED
    BY <1>1, <2>1, UndoTurns DEF Makes
<1>2. CASE call[h].pc \notin {"rootsync", "publish", "defsync"}
  <2>1. Reply(h, "interrupted")
    BY <1>2 DEF Interrupt, Interrupted
  <2> QED
    BY <2>1, ReplyQuits
<1> QED
  BY <1>1, <1>2

(* Where each step of a handler takes its call.                            *)
LEMMA Turning ==
  ASSUME CallType, NEW h \in Handlers
  PROVE  /\ ControlStarts(h) => Turns(h, "ready", call[h].removes)
         /\ ControlReady(h) => Quits(h)
         /\ ControlStops(h) => Quits(h)
         /\ CreateAnswered(h) => Quits(h)
         /\ CreateBegins(h) => Turns(h, "mkdir", call[h].removes)
         /\ MakeDirectory(h) =>
               \/ Quits(h)
               \/ Turns(h, "rootsync", call[h].removes) /\ Keeps
         /\ SyncRoot(h) => Turns(h, "publish", call[h].removes)
         /\ PublishDefinition(h) => Turns(h, "defsync", call[h].removes)
         /\ Created(h) => Quits(h)
         /\ MoveAway(h) =>
               \/ Turns(h, "dirsync", call[h].removes)
               \/ Turns(h, "purge", call[h].removes)
         /\ SyncMove(h) => Turns(h, "purge", call[h].removes)
         /\ Purge(h) => Turns(h, "purgesync", call[h].removes)
         /\ Removed(h) => Quits(h)
         /\ RemoveFails(h) => Quits(h)
         /\ DeleteOrphan(h) => Turns(h, "rename", "orphan")
         /\ DeleteBegins(h) => Turns(h, "stop", call[h].removes)
         /\ StopForDeletion(h) =>
               \/ Quits(h)
               \/ /\ Turns(h, "check", call[h].removes)
                  /\ commands' = Released(h)
                  /\ compute' = [compute EXCEPT ![Mine(h)] = "stopped"]
                  /\ UNCHANGED <<admission, deleting, told>>
         /\ CheckDetached(h) =>
               \/ Quits(h)
               \/ /\ Turns(h, "shutdown", call[h].removes)
                  /\ Enqueued(h) /\ UNCHANGED <<admission, deleting, told>>
         /\ Shutdown(h) => Turns(h, "rename", "deletion")
<1> /\ {"ready", "mkdir", "rootsync", "publish", "defsync", "dirsync", "purge", "purgesync", "stop", "check", "shutdown"} \subseteq Pcs
  BY DEF Pcs, Makes, Removes, Ends
<1>1. ControlStarts(h) => Turns(h, "ready", call[h].removes)
  BY GoesOn DEF ControlStarts, Goto, At, Makes
<1>2. ControlReady(h) => Quits(h)
  BY ReplyQuits DEF ControlReady, At, Makes
<1>3. ControlStops(h) => Quits(h)
  BY ReplyQuits DEF ControlStops, At, Makes
<1>4. CreateAnswered(h) => Quits(h)
  BY ReplyQuits DEF CreateAnswered, Admitted, At, Makes
<1>5. CreateBegins(h) => Turns(h, "mkdir", call[h].removes)
  BY GoesOn DEF CreateBegins, Admitted, At, Makes
<1>6. MakeDirectory(h) =>
         \/ Quits(h)
         \/ Turns(h, "rootsync", call[h].removes) /\ Keeps
  <2>1. MakeDirectory(h) =>
           \/ Reply(h, "conflict")
           \/ call' = [call EXCEPT ![h].pc = "rootsync"] /\ Keeps
    BY DEF MakeDirectory, Goto, Keeps
  <2> QED
    BY <2>1, GoesOn, ReplyQuits
<1>7. SyncRoot(h) => Turns(h, "publish", call[h].removes)
  BY GoesOn DEF SyncRoot, Goto, At, Makes
<1>8. PublishDefinition(h) => Turns(h, "defsync", call[h].removes)
  BY GoesOn DEF PublishDefinition, Goto, At, Makes
<1>9. Created(h) => Quits(h)
  BY ReplyQuits DEF Created, At, Makes
<1>11. MoveAway(h) =>
          \/ Turns(h, "dirsync", call[h].removes)
          \/ Turns(h, "purge", call[h].removes)
  BY GoesOn DEF MoveAway, Goto, At, Makes
<1>12. SyncMove(h) => Turns(h, "purge", call[h].removes)
  BY GoesOn DEF SyncMove, Goto, At, Makes
<1>13. Purge(h) => Turns(h, "purgesync", call[h].removes)
  BY GoesOn DEF Purge, Goto, At, Makes
<1>14. Removed(h) => Quits(h)
  BY ReplyQuits DEF Removed, At, Makes
<1>15. RemoveFails(h) => Quits(h)
  BY ReplyQuits DEF RemoveFails, At, Makes
<1>16. DeleteOrphan(h) => Turns(h, "rename", "orphan")
  BY GoesToRemove DEF DeleteOrphan, Admitted, At, Makes
<1>17. DeleteBegins(h) => Turns(h, "stop", call[h].removes)
  BY GoesOn DEF DeleteBegins, Admitted, At, Makes
<1>18. StopForDeletion(h) =>
               \/ Quits(h)
               \/ /\ Turns(h, "check", call[h].removes)
                  /\ commands' = Released(h)
                  /\ compute' = [compute EXCEPT ![Mine(h)] = "stopped"]
                  /\ UNCHANGED <<admission, deleting, told>>
  BY GoesOn, ReplyQuits DEF StopForDeletion, At, Makes
<1>19. CheckDetached(h) =>
               \/ Quits(h)
               \/ /\ Turns(h, "shutdown", call[h].removes)
                  /\ Enqueued(h) /\ UNCHANGED <<admission, deleting, told>>
  BY GoesOn, ReplyQuits DEF CheckDetached, At, Makes
<1>20. Shutdown(h) => Turns(h, "rename", "deletion")
  BY GoesToRemove DEF Shutdown, At, Makes
<1> QED
  BY <1>1, <1>2, <1>3, <1>4, <1>5, <1>6, <1>7, <1>8, <1>9, <1>11, <1>12, <1>13,
     <1>14, <1>15, <1>16, <1>17, <1>18, <1>19, <1>20

(* Calls keep their type.                                                  *)
LEMMA CallTypeInductive ==
  ASSUME CallType, NextCases
  PROVE  CallType'
<1>1. ASSUME NEW h \in Handlers, NEW op \in {"create", "delete"},
             NEW s \in Sessions, NEW z \in Sizes, Begin(h, op, s, z)
      PROVE  CallType'
  <2>1. /\ Takes(h, "admit", op, s)
        /\ call'[h].size = (IF op = "create" THEN z ELSE None)
    BY <1>1, BeginTakes
  <2> QED
    BY <1>1, <2>1 DEF Begin, At, CallType, Turns, Quits, Takes
<1>2. ASSUME NEW h \in Handlers, NEW op \in {"start", "stop"},
             NEW s \in Sessions, BeginControl(h, op, s)
      PROVE  CallType'
  <2>1. Takes(h, "control", op, s)
    BY <1>2, BeginControlTakes
  <2> QED
    BY <1>2, <2>1 DEF BeginControl, At, CallType, Turns, Quits, Takes
<1>3. ASSUME NEW h \in Handlers, ControlStarts(h)
      PROVE  CallType'
  <2>1. Turns(h, "ready", call[h].removes)
    BY <1>3, Turning
  <2> QED
    BY <1>3, <2>1 DEF ControlStarts, Goto, At, Holds, CallType, Turns, Quits,
       Takes
<1>4. ASSUME NEW h \in Handlers, ControlReady(h)
      PROVE  CallType'
  <2>1. Quits(h)
    BY <1>4, Turning
  <2> QED
    BY <1>4, <2>1 DEF ControlReady, At, CallType, Turns, Quits, Takes
<1>5. ASSUME NEW h \in Handlers, ControlStops(h)
      PROVE  CallType'
  <2>1. Quits(h)
    BY <1>5, Turning
  <2> QED
    BY <1>5, <2>1 DEF ControlStops, At, Holds, CallType, Turns, Quits, Takes
<1>6. ASSUME NEW h \in Handlers, CreateAnswered(h)
      PROVE  CallType'
  <2>1. Quits(h)
    BY <1>6, Turning
  <2> QED
    BY <1>6, <2>1 DEF CreateAnswered, Admitted, At, CallType, Turns, Quits,
       Takes
<1>7. ASSUME NEW h \in Handlers, CreateBegins(h)
      PROVE  CallType'
  <2>1. Turns(h, "mkdir", call[h].removes)
    BY <1>7, Turning
  <2> QED
    BY <1>7, <2>1 DEF CreateBegins, Admitted, At, CallType, Turns, Quits, Takes
<1>8. ASSUME NEW h \in Handlers, MakeDirectory(h)
      PROVE  CallType'
  <2>1. \/ Quits(h)
        \/ Turns(h, "rootsync", call[h].removes) /\ Keeps
    BY <1>8, Turning
  <2> QED
    BY <1>8, <2>1 DEF MakeDirectory, Goto, At, CallType, Turns, Quits, Takes
<1>9. ASSUME NEW h \in Handlers, SyncRoot(h)
      PROVE  CallType'
  <2>1. Turns(h, "publish", call[h].removes)
    BY <1>9, Turning
  <2> QED
    BY <1>9, <2>1 DEF SyncRoot, Goto, At, CallType, Turns, Quits, Takes
<1>10. ASSUME NEW h \in Handlers, PublishDefinition(h)
      PROVE  CallType'
  <2>1. Turns(h, "defsync", call[h].removes)
    BY <1>10, Turning
  <2> QED
    BY <1>10, <2>1 DEF PublishDefinition, Goto, At, CallType, Turns, Quits,
       Takes
<1>11. ASSUME NEW h \in Handlers, Created(h)
      PROVE  CallType'
  <2>1. Quits(h)
    BY <1>11, Turning
  <2> QED
    BY <1>11, <2>1 DEF Created, At, CallType, Turns, Quits, Takes
<1>12. ASSUME NEW h \in Handlers, CreateFails(h)
      PROVE  CallType'
  <2>1. \/ call[h].pc = "mkdir" /\ Quits(h)
        \/ call[h].pc # "mkdir" /\ Turns(h, "rename", "undo") /\ Keeps
    BY <1>12, CreateFailsTurns
  <2> QED
    BY <1>12, <2>1 DEF CreateFails, At, CallType, Turns, Quits, Takes
<1>13. ASSUME NEW h \in Handlers, MoveAway(h)
      PROVE  CallType'
  <2>1. \/ Turns(h, "dirsync", call[h].removes)
        \/ Turns(h, "purge", call[h].removes)
    BY <1>13, Turning
  <2> QED
    BY <1>13, <2>1 DEF MoveAway, Goto, At, CallType, Turns, Quits, Takes
<1>14. ASSUME NEW h \in Handlers, SyncMove(h)
      PROVE  CallType'
  <2>1. Turns(h, "purge", call[h].removes)
    BY <1>14, Turning
  <2> QED
    BY <1>14, <2>1 DEF SyncMove, Goto, At, CallType, Turns, Quits, Takes
<1>15. ASSUME NEW h \in Handlers, Purge(h)
      PROVE  CallType'
  <2>1. Turns(h, "purgesync", call[h].removes)
    BY <1>15, Turning
  <2> QED
    BY <1>15, <2>1 DEF Purge, Goto, At, CallType, Turns, Quits, Takes
<1>16. ASSUME NEW h \in Handlers, Removed(h)
      PROVE  CallType'
  <2>1. Quits(h)
    BY <1>16, Turning
  <2> QED
    BY <1>16, <2>1 DEF Removed, At, CallType, Turns, Quits, Takes
<1>17. ASSUME NEW h \in Handlers, RemoveFails(h)
      PROVE  CallType'
  <2>1. Quits(h)
    BY <1>17, Turning
  <2> QED
    BY <1>17, <2>1 DEF RemoveFails, At, CallType, Turns, Quits, Takes
<1>18. ASSUME NEW h \in Handlers, DeleteOrphan(h)
      PROVE  CallType'
  <2>1. Turns(h, "rename", "orphan")
    BY <1>18, Turning
  <2> QED
    BY <1>18, <2>1 DEF DeleteOrphan, Admitted, At, CallType, Turns, Quits, Takes
<1>19. ASSUME NEW h \in Handlers, DeleteBegins(h)
      PROVE  CallType'
  <2>1. Turns(h, "stop", call[h].removes)
    BY <1>19, Turning
  <2> QED
    BY <1>19, <2>1 DEF DeleteBegins, Admitted, At, CallType, Turns, Quits, Takes
<1>20. ASSUME NEW h \in Handlers, StopForDeletion(h)
      PROVE  CallType'
  <2>1. \/ Quits(h)
        \/ /\ Turns(h, "check", call[h].removes)
           /\ commands' = Released(h)
           /\ compute' = [compute EXCEPT ![Mine(h)] = "stopped"]
           /\ UNCHANGED <<admission, deleting, told>>
    BY <1>20, Turning
  <2> QED
    BY <1>20, <2>1 DEF StopForDeletion, At, Holds, CallType, Turns, Quits, Takes
<1>21. ASSUME NEW h \in Handlers, CheckDetached(h)
      PROVE  CallType'
  <2>1. \/ Quits(h)
        \/ /\ Turns(h, "shutdown", call[h].removes)
           /\ Enqueued(h) /\ UNCHANGED <<admission, deleting, told>>
    BY <1>21, Turning
  <2> QED
    BY <1>21, <2>1 DEF CheckDetached, At, CallType, Turns, Quits, Takes
<1>22. ASSUME NEW h \in Handlers, Shutdown(h)
      PROVE  CallType'
  <2>1. Turns(h, "rename", "deletion")
    BY <1>22, Turning
  <2> QED
    BY <1>22, <2>1 DEF Shutdown, At, Holds, CallType, Turns, Quits, Takes
<1>23. ASSUME NEW h \in Handlers, Interrupt(h)
      PROVE  CallType'
  <2>1. \/ Quits(h)
        \/ call[h].pc \in Makes /\ Turns(h, "rename", "undo") /\ Keeps
    BY <1>23, InterruptTurns
  <2> QED
    BY <1>23, <2>1 DEF Interrupt, CallType, Turns, Quits, Takes
<1>24. ASSUME NEW s \in Sessions, BootAttaches(s)
      PROVE  CallType'
  BY <1>24 DEF BootAttaches, CallType, Turns, Quits, Takes
<1>25. ASSUME NEW s \in Sessions, BootFails(s)
      PROVE  CallType'
  BY <1>25 DEF BootFails, CallType, Turns, Quits, Takes
<1>32. ASSUME NEW s \in Sessions, StrayExits(s)
      PROVE  CallType'
  BY <1>32 DEF StrayExits, CallType, Turns, Quits, Takes
<1>26. ASSUME NEW s \in Sessions, StartPurges(s)
      PROVE  CallType'
  BY <1>26 DEF StartPurges, CallType, Turns, Quits, Takes
<1>27. ASSUME NEW s \in Sessions, StartDiscards(s)
      PROVE  CallType'
  BY <1>27 DEF StartDiscards, CallType, Turns, Quits, Takes
<1>28. ASSUME Crash
      PROVE  CallType'
  BY <1>28 DEF Crash, CallType, Call, Idle
<1>29. ASSUME StartLists
      PROVE  CallType'
  BY <1>29 DEF StartLists, CallType, Turns, Quits, Takes
<1>30. ASSUME StartRestores
      PROVE  CallType'
  BY <1>30 DEF StartRestores, CallType, Turns, Quits, Takes
<1>31. CASE UNCHANGED vars
  BY <1>31 DEF vars, CallType, Turns, Quits, Takes
<1> QED
  BY <1>1, <1>2, <1>3, <1>4, <1>5, <1>6, <1>7, <1>8, <1>9, <1>10, <1>11, <1>12,
     <1>13, <1>14, <1>15, <1>16, <1>17, <1>18, <1>19, <1>20, <1>21, <1>22,
     <1>23, <1>24, <1>25, <1>26, <1>27, <1>28, <1>29, <1>30, <1>31, <1>32 DEF NextCases

(* A call that goes on with the admission permit it has.                   *)
LEMMA CallKept ==
  ASSUME CallInv, NEW h \in Handlers,
         \A g \in Handlers : g # h => call'[g] = call[g],
         CallOK(call[h])', call'[h].pc \in Serves => admission' = h,
         admission' # admission => admission \in {None, h}
  PROVE  CallInv'
<1>1. ASSUME NEW g \in Handlers, g # h
      PROVE  CallOK(call[g])' /\ (call'[g].pc \in Serves => admission' = g)
  <2>1. call'[g] = call[g] /\ CallOK(call[g])
    BY <1>1 DEF CallInv
  <2>2. CallOK(call[g])'
    BY <2>1 DEF CallOK
  <2>3. call[g].pc \in Serves => admission = g
    BY DEF CallInv
  <2> QED
    BY <1>1, <2>1, <2>2, <2>3, HandlersAssumption
<1> QED
  BY <1>1 DEF CallInv

(* CallInv is inductive: who serves has the admission permit, alone.       *)
LEMMA CallInductive ==
  ASSUME CallType, CallInv, NextCases
  PROVE  CallInv'
<1>1. ASSUME NEW h \in Handlers, NEW op \in {"create", "delete"},
             NEW s \in Sessions, NEW z \in Sizes, Begin(h, op, s, z)
      PROVE  CallInv'
  <2>1. /\ Takes(h, "admit", op, s)
        /\ call'[h].size = (IF op = "create" THEN z ELSE None)
    BY <1>1, BeginTakes
  <2>2. CallOK(call[h]) /\ (call[h].pc \in Serves => admission = h)
    BY DEF CallInv
  <2>3. CallOK(call[h])'
    BY <1>1, <2>1, <2>2 DEF Begin, At, CallOK, Keeps, Turns, Quits, Takes,
       Makes, Removes, Ends
  <2>4. /\ \A g \in Handlers : g # h => call'[g] = call[g]
        /\ call'[h].pc \in Serves => admission' = h
        /\ admission' # admission => admission \in {None, h}
    BY <1>1, <2>1, <2>2 DEF Begin, At, Keeps, Turns, Quits, Takes, Makes,
       Removes, Ends, Serves
  <2> QED
    BY <2>3, <2>4, CallKept
<1>2. ASSUME NEW h \in Handlers, NEW op \in {"start", "stop"},
             NEW s \in Sessions, BeginControl(h, op, s)
      PROVE  CallInv'
  <2>1. Takes(h, "control", op, s)
    BY <1>2, BeginControlTakes
  <2>2. CallOK(call[h]) /\ (call[h].pc \in Serves => admission = h)
    BY DEF CallInv
  <2>3. CallOK(call[h])'
    BY <1>2, <2>1, <2>2 DEF BeginControl, At, CallOK, Keeps, Turns, Quits,
       Takes, Makes, Removes, Ends
  <2>4. /\ \A g \in Handlers : g # h => call'[g] = call[g]
        /\ call'[h].pc \in Serves => admission' = h
        /\ admission' # admission => admission \in {None, h}
    BY <1>2, <2>1, <2>2 DEF BeginControl, At, Keeps, Turns, Quits, Takes, Makes,
       Removes, Ends, Serves
  <2> QED
    BY <2>3, <2>4, CallKept
<1>3. ASSUME NEW h \in Handlers, ControlStarts(h)
      PROVE  CallInv'
  <2>1. Turns(h, "ready", call[h].removes)
    BY <1>3, Turning
  <2>2. CallOK(call[h]) /\ (call[h].pc \in Serves => admission = h)
    BY DEF CallInv
  <2>3. CallOK(call[h])'
    BY <1>3, <2>1, <2>2 DEF ControlStarts, Goto, At, Holds, CallOK, Keeps,
       Turns, Quits, Takes, Makes, Removes, Ends
  <2>4. /\ \A g \in Handlers : g # h => call'[g] = call[g]
        /\ call'[h].pc \in Serves => admission' = h
        /\ admission' # admission => admission \in {None, h}
    BY <1>3, <2>1, <2>2 DEF ControlStarts, Goto, At, Holds, Keeps, Turns, Quits,
       Takes, Makes, Removes, Ends, Serves
  <2> QED
    BY <2>3, <2>4, CallKept
<1>4. ASSUME NEW h \in Handlers, ControlReady(h)
      PROVE  CallInv'
  <2>1. Quits(h)
    BY <1>4, Turning
  <2>2. CallOK(call[h]) /\ (call[h].pc \in Serves => admission = h)
    BY DEF CallInv
  <2>3. CallOK(call[h])'
    BY <1>4, <2>1, <2>2 DEF ControlReady, At, CallOK, Keeps, Turns, Quits,
       Takes, Makes, Removes, Ends
  <2>4. /\ \A g \in Handlers : g # h => call'[g] = call[g]
        /\ call'[h].pc \in Serves => admission' = h
        /\ admission' # admission => admission \in {None, h}
    BY <1>4, <2>1, <2>2 DEF ControlReady, At, Keeps, Turns, Quits, Takes, Makes,
       Removes, Ends, Serves
  <2> QED
    BY <2>3, <2>4, CallKept
<1>5. ASSUME NEW h \in Handlers, ControlStops(h)
      PROVE  CallInv'
  <2>1. Quits(h)
    BY <1>5, Turning
  <2>2. CallOK(call[h]) /\ (call[h].pc \in Serves => admission = h)
    BY DEF CallInv
  <2>3. CallOK(call[h])'
    BY <1>5, <2>1, <2>2 DEF ControlStops, At, Holds, CallOK, Keeps, Turns,
       Quits, Takes, Makes, Removes, Ends
  <2>4. /\ \A g \in Handlers : g # h => call'[g] = call[g]
        /\ call'[h].pc \in Serves => admission' = h
        /\ admission' # admission => admission \in {None, h}
    BY <1>5, <2>1, <2>2 DEF ControlStops, At, Holds, Keeps, Turns, Quits, Takes,
       Makes, Removes, Ends, Serves
  <2> QED
    BY <2>3, <2>4, CallKept
<1>6. ASSUME NEW h \in Handlers, CreateAnswered(h)
      PROVE  CallInv'
  <2>1. Quits(h)
    BY <1>6, Turning
  <2>2. CallOK(call[h]) /\ (call[h].pc \in Serves => admission = h)
    BY DEF CallInv
  <2>3. CallOK(call[h])'
    BY <1>6, <2>1, <2>2 DEF CreateAnswered, Admitted, At, CallOK, Keeps, Turns,
       Quits, Takes, Makes, Removes, Ends
  <2>4. /\ \A g \in Handlers : g # h => call'[g] = call[g]
        /\ call'[h].pc \in Serves => admission' = h
        /\ admission' # admission => admission \in {None, h}
    BY <1>6, <2>1, <2>2 DEF CreateAnswered, Admitted, At, Keeps, Turns, Quits,
       Takes, Makes, Removes, Ends, Serves
  <2> QED
    BY <2>3, <2>4, CallKept
<1>7. ASSUME NEW h \in Handlers, CreateBegins(h)
      PROVE  CallInv'
  <2>1. Turns(h, "mkdir", call[h].removes)
    BY <1>7, Turning
  <2>2. CallOK(call[h]) /\ (call[h].pc \in Serves => admission = h)
    BY DEF CallInv
  <2>3. CallOK(call[h])'
    BY <1>7, <2>1, <2>2 DEF CreateBegins, Admitted, At, CallOK, Keeps, Turns,
       Quits, Takes, Makes, Removes, Ends
  <2>4. /\ \A g \in Handlers : g # h => call'[g] = call[g]
        /\ call'[h].pc \in Serves => admission' = h
        /\ admission' # admission => admission \in {None, h}
    BY <1>7, <2>1, <2>2 DEF CreateBegins, Admitted, At, Keeps, Turns, Quits,
       Takes, Makes, Removes, Ends, Serves
  <2> QED
    BY <2>3, <2>4, CallKept
<1>8. ASSUME NEW h \in Handlers, MakeDirectory(h)
      PROVE  CallInv'
  <2>1. \/ Quits(h)
        \/ Turns(h, "rootsync", call[h].removes) /\ Keeps
    BY <1>8, Turning
  <2>2. CallOK(call[h]) /\ (call[h].pc \in Serves => admission = h)
    BY DEF CallInv
  <2>3. CallOK(call[h])'
    BY <1>8, <2>1, <2>2 DEF MakeDirectory, Goto, At, CallOK, Keeps, Turns,
       Quits, Takes, Makes, Removes, Ends
  <2>4. /\ \A g \in Handlers : g # h => call'[g] = call[g]
        /\ call'[h].pc \in Serves => admission' = h
        /\ admission' # admission => admission \in {None, h}
    BY <1>8, <2>1, <2>2 DEF MakeDirectory, Goto, At, Keeps, Turns, Quits, Takes,
       Makes, Removes, Ends, Serves
  <2> QED
    BY <2>3, <2>4, CallKept
<1>9. ASSUME NEW h \in Handlers, SyncRoot(h)
      PROVE  CallInv'
  <2>1. Turns(h, "publish", call[h].removes)
    BY <1>9, Turning
  <2>2. CallOK(call[h]) /\ (call[h].pc \in Serves => admission = h)
    BY DEF CallInv
  <2>3. CallOK(call[h])'
    BY <1>9, <2>1, <2>2 DEF SyncRoot, Goto, At, CallOK, Keeps, Turns, Quits,
       Takes, Makes, Removes, Ends
  <2>4. /\ \A g \in Handlers : g # h => call'[g] = call[g]
        /\ call'[h].pc \in Serves => admission' = h
        /\ admission' # admission => admission \in {None, h}
    BY <1>9, <2>1, <2>2 DEF SyncRoot, Goto, At, Keeps, Turns, Quits, Takes,
       Makes, Removes, Ends, Serves
  <2> QED
    BY <2>3, <2>4, CallKept
<1>10. ASSUME NEW h \in Handlers, PublishDefinition(h)
      PROVE  CallInv'
  <2>1. Turns(h, "defsync", call[h].removes)
    BY <1>10, Turning
  <2>2. CallOK(call[h]) /\ (call[h].pc \in Serves => admission = h)
    BY DEF CallInv
  <2>3. CallOK(call[h])'
    BY <1>10, <2>1, <2>2 DEF PublishDefinition, Goto, At, CallOK, Keeps, Turns,
       Quits, Takes, Makes, Removes, Ends
  <2>4. /\ \A g \in Handlers : g # h => call'[g] = call[g]
        /\ call'[h].pc \in Serves => admission' = h
        /\ admission' # admission => admission \in {None, h}
    BY <1>10, <2>1, <2>2 DEF PublishDefinition, Goto, At, Keeps, Turns, Quits,
       Takes, Makes, Removes, Ends, Serves
  <2> QED
    BY <2>3, <2>4, CallKept
<1>11. ASSUME NEW h \in Handlers, Created(h)
      PROVE  CallInv'
  <2>1. Quits(h)
    BY <1>11, Turning
  <2>2. CallOK(call[h]) /\ (call[h].pc \in Serves => admission = h)
    BY DEF CallInv
  <2>3. CallOK(call[h])'
    BY <1>11, <2>1, <2>2 DEF Created, At, CallOK, Keeps, Turns, Quits, Takes,
       Makes, Removes, Ends
  <2>4. /\ \A g \in Handlers : g # h => call'[g] = call[g]
        /\ call'[h].pc \in Serves => admission' = h
        /\ admission' # admission => admission \in {None, h}
    BY <1>11, <2>1, <2>2 DEF Created, At, Keeps, Turns, Quits, Takes, Makes,
       Removes, Ends, Serves
  <2> QED
    BY <2>3, <2>4, CallKept
<1>12. ASSUME NEW h \in Handlers, CreateFails(h)
      PROVE  CallInv'
  <2>1. \/ call[h].pc = "mkdir" /\ Quits(h)
        \/ call[h].pc # "mkdir" /\ Turns(h, "rename", "undo") /\ Keeps
    BY <1>12, CreateFailsTurns
  <2>2. CallOK(call[h]) /\ (call[h].pc \in Serves => admission = h)
    BY DEF CallInv
  <2>3. CallOK(call[h])'
    BY <1>12, <2>1, <2>2 DEF CreateFails, At, CallOK, Keeps, Turns, Quits,
       Takes, Makes, Removes, Ends
  <2>4. /\ \A g \in Handlers : g # h => call'[g] = call[g]
        /\ call'[h].pc \in Serves => admission' = h
        /\ admission' # admission => admission \in {None, h}
    BY <1>12, <2>1, <2>2 DEF CreateFails, At, Keeps, Turns, Quits, Takes, Makes,
       Removes, Ends, Serves
  <2> QED
    BY <2>3, <2>4, CallKept
<1>13. ASSUME NEW h \in Handlers, MoveAway(h)
      PROVE  CallInv'
  <2>1. \/ Turns(h, "dirsync", call[h].removes)
        \/ Turns(h, "purge", call[h].removes)
    BY <1>13, Turning
  <2>2. CallOK(call[h]) /\ (call[h].pc \in Serves => admission = h)
    BY DEF CallInv
  <2>3. CallOK(call[h])'
    BY <1>13, <2>1, <2>2 DEF MoveAway, Goto, At, CallOK, Keeps, Turns, Quits,
       Takes, Makes, Removes, Ends
  <2>4. /\ \A g \in Handlers : g # h => call'[g] = call[g]
        /\ call'[h].pc \in Serves => admission' = h
        /\ admission' # admission => admission \in {None, h}
    BY <1>13, <2>1, <2>2 DEF MoveAway, Goto, At, Keeps, Turns, Quits, Takes,
       Makes, Removes, Ends, Serves
  <2> QED
    BY <2>3, <2>4, CallKept
<1>14. ASSUME NEW h \in Handlers, SyncMove(h)
      PROVE  CallInv'
  <2>1. Turns(h, "purge", call[h].removes)
    BY <1>14, Turning
  <2>2. CallOK(call[h]) /\ (call[h].pc \in Serves => admission = h)
    BY DEF CallInv
  <2>3. CallOK(call[h])'
    BY <1>14, <2>1, <2>2 DEF SyncMove, Goto, At, CallOK, Keeps, Turns, Quits,
       Takes, Makes, Removes, Ends
  <2>4. /\ \A g \in Handlers : g # h => call'[g] = call[g]
        /\ call'[h].pc \in Serves => admission' = h
        /\ admission' # admission => admission \in {None, h}
    BY <1>14, <2>1, <2>2 DEF SyncMove, Goto, At, Keeps, Turns, Quits, Takes,
       Makes, Removes, Ends, Serves
  <2> QED
    BY <2>3, <2>4, CallKept
<1>15. ASSUME NEW h \in Handlers, Purge(h)
      PROVE  CallInv'
  <2>1. Turns(h, "purgesync", call[h].removes)
    BY <1>15, Turning
  <2>2. CallOK(call[h]) /\ (call[h].pc \in Serves => admission = h)
    BY DEF CallInv
  <2>3. CallOK(call[h])'
    BY <1>15, <2>1, <2>2 DEF Purge, Goto, At, CallOK, Keeps, Turns, Quits,
       Takes, Makes, Removes, Ends
  <2>4. /\ \A g \in Handlers : g # h => call'[g] = call[g]
        /\ call'[h].pc \in Serves => admission' = h
        /\ admission' # admission => admission \in {None, h}
    BY <1>15, <2>1, <2>2 DEF Purge, Goto, At, Keeps, Turns, Quits, Takes, Makes,
       Removes, Ends, Serves
  <2> QED
    BY <2>3, <2>4, CallKept
<1>16. ASSUME NEW h \in Handlers, Removed(h)
      PROVE  CallInv'
  <2>1. Quits(h)
    BY <1>16, Turning
  <2>2. CallOK(call[h]) /\ (call[h].pc \in Serves => admission = h)
    BY DEF CallInv
  <2>3. CallOK(call[h])'
    BY <1>16, <2>1, <2>2 DEF Removed, At, CallOK, Keeps, Turns, Quits, Takes,
       Makes, Removes, Ends
  <2>4. /\ \A g \in Handlers : g # h => call'[g] = call[g]
        /\ call'[h].pc \in Serves => admission' = h
        /\ admission' # admission => admission \in {None, h}
    BY <1>16, <2>1, <2>2 DEF Removed, At, Keeps, Turns, Quits, Takes, Makes,
       Removes, Ends, Serves
  <2> QED
    BY <2>3, <2>4, CallKept
<1>17. ASSUME NEW h \in Handlers, RemoveFails(h)
      PROVE  CallInv'
  <2>1. Quits(h)
    BY <1>17, Turning
  <2>2. CallOK(call[h]) /\ (call[h].pc \in Serves => admission = h)
    BY DEF CallInv
  <2>3. CallOK(call[h])'
    BY <1>17, <2>1, <2>2 DEF RemoveFails, At, CallOK, Keeps, Turns, Quits,
       Takes, Makes, Removes, Ends
  <2>4. /\ \A g \in Handlers : g # h => call'[g] = call[g]
        /\ call'[h].pc \in Serves => admission' = h
        /\ admission' # admission => admission \in {None, h}
    BY <1>17, <2>1, <2>2 DEF RemoveFails, At, Keeps, Turns, Quits, Takes, Makes,
       Removes, Ends, Serves
  <2> QED
    BY <2>3, <2>4, CallKept
<1>18. ASSUME NEW h \in Handlers, DeleteOrphan(h)
      PROVE  CallInv'
  <2>1. Turns(h, "rename", "orphan")
    BY <1>18, Turning
  <2>2. CallOK(call[h]) /\ (call[h].pc \in Serves => admission = h)
    BY DEF CallInv
  <2>3. CallOK(call[h])'
    BY <1>18, <2>1, <2>2 DEF DeleteOrphan, Admitted, At, CallOK, Keeps, Turns,
       Quits, Takes, Makes, Removes, Ends
  <2>4. /\ \A g \in Handlers : g # h => call'[g] = call[g]
        /\ call'[h].pc \in Serves => admission' = h
        /\ admission' # admission => admission \in {None, h}
    BY <1>18, <2>1, <2>2 DEF DeleteOrphan, Admitted, At, Keeps, Turns, Quits,
       Takes, Makes, Removes, Ends, Serves
  <2> QED
    BY <2>3, <2>4, CallKept
<1>19. ASSUME NEW h \in Handlers, DeleteBegins(h)
      PROVE  CallInv'
  <2>1. Turns(h, "stop", call[h].removes)
    BY <1>19, Turning
  <2>2. CallOK(call[h]) /\ (call[h].pc \in Serves => admission = h)
    BY DEF CallInv
  <2>3. CallOK(call[h])'
    BY <1>19, <2>1, <2>2 DEF DeleteBegins, Admitted, At, CallOK, Keeps, Turns,
       Quits, Takes, Makes, Removes, Ends
  <2>4. /\ \A g \in Handlers : g # h => call'[g] = call[g]
        /\ call'[h].pc \in Serves => admission' = h
        /\ admission' # admission => admission \in {None, h}
    BY <1>19, <2>1, <2>2 DEF DeleteBegins, Admitted, At, Keeps, Turns, Quits,
       Takes, Makes, Removes, Ends, Serves
  <2> QED
    BY <2>3, <2>4, CallKept
<1>20. ASSUME NEW h \in Handlers, StopForDeletion(h)
      PROVE  CallInv'
  <2>1. \/ Quits(h)
        \/ /\ Turns(h, "check", call[h].removes)
           /\ commands' = Released(h)
           /\ compute' = [compute EXCEPT ![Mine(h)] = "stopped"]
           /\ UNCHANGED <<admission, deleting, told>>
    BY <1>20, Turning
  <2>2. CallOK(call[h]) /\ (call[h].pc \in Serves => admission = h)
    BY DEF CallInv
  <2>3. CallOK(call[h])'
    BY <1>20, <2>1, <2>2 DEF StopForDeletion, At, Holds, CallOK, Keeps, Turns,
       Quits, Takes, Makes, Removes, Ends
  <2>4. /\ \A g \in Handlers : g # h => call'[g] = call[g]
        /\ call'[h].pc \in Serves => admission' = h
        /\ admission' # admission => admission \in {None, h}
    BY <1>20, <2>1, <2>2 DEF StopForDeletion, At, Holds, Keeps, Turns, Quits,
       Takes, Makes, Removes, Ends, Serves
  <2> QED
    BY <2>3, <2>4, CallKept
<1>21. ASSUME NEW h \in Handlers, CheckDetached(h)
      PROVE  CallInv'
  <2>1. \/ Quits(h)
        \/ /\ Turns(h, "shutdown", call[h].removes)
           /\ Enqueued(h) /\ UNCHANGED <<admission, deleting, told>>
    BY <1>21, Turning
  <2>2. CallOK(call[h]) /\ (call[h].pc \in Serves => admission = h)
    BY DEF CallInv
  <2>3. CallOK(call[h])'
    BY <1>21, <2>1, <2>2 DEF CheckDetached, At, CallOK, Keeps, Turns, Quits,
       Takes, Makes, Removes, Ends
  <2>4. /\ \A g \in Handlers : g # h => call'[g] = call[g]
        /\ call'[h].pc \in Serves => admission' = h
        /\ admission' # admission => admission \in {None, h}
    BY <1>21, <2>1, <2>2 DEF CheckDetached, At, Keeps, Turns, Quits, Takes,
       Makes, Removes, Ends, Serves
  <2> QED
    BY <2>3, <2>4, CallKept
<1>22. ASSUME NEW h \in Handlers, Shutdown(h)
      PROVE  CallInv'
  <2>1. Turns(h, "rename", "deletion")
    BY <1>22, Turning
  <2>2. CallOK(call[h]) /\ (call[h].pc \in Serves => admission = h)
    BY DEF CallInv
  <2>3. CallOK(call[h])'
    BY <1>22, <2>1, <2>2 DEF Shutdown, At, Holds, CallOK, Keeps, Turns, Quits,
       Takes, Makes, Removes, Ends
  <2>4. /\ \A g \in Handlers : g # h => call'[g] = call[g]
        /\ call'[h].pc \in Serves => admission' = h
        /\ admission' # admission => admission \in {None, h}
    BY <1>22, <2>1, <2>2 DEF Shutdown, At, Holds, Keeps, Turns, Quits, Takes,
       Makes, Removes, Ends, Serves
  <2> QED
    BY <2>3, <2>4, CallKept
<1>23. ASSUME NEW h \in Handlers, Interrupt(h)
      PROVE  CallInv'
  <2>1. \/ Quits(h)
        \/ call[h].pc \in Makes /\ Turns(h, "rename", "undo") /\ Keeps
    BY <1>23, InterruptTurns
  <2>2. CallOK(call[h]) /\ (call[h].pc \in Serves => admission = h)
    BY DEF CallInv
  <2>3. CallOK(call[h])'
    BY <1>23, <2>1, <2>2 DEF Interrupt, CallOK, Keeps, Turns, Quits, Takes,
       Makes, Removes, Ends
  <2>4. /\ \A g \in Handlers : g # h => call'[g] = call[g]
        /\ call'[h].pc \in Serves => admission' = h
        /\ admission' # admission => admission \in {None, h}
    BY <1>23, <2>1, <2>2 DEF Interrupt, Keeps, Turns, Quits, Takes, Makes,
       Removes, Ends, Serves
  <2> QED
    BY <2>3, <2>4, CallKept
<1>24. ASSUME NEW s \in Sessions, BootAttaches(s)
      PROVE  CallInv'
  BY <1>24 DEF BootAttaches, CallInv, CallOK
<1>25. ASSUME NEW s \in Sessions, BootFails(s)
      PROVE  CallInv'
  BY <1>25 DEF BootFails, CallInv, CallOK
<1>32. ASSUME NEW s \in Sessions, StrayExits(s)
      PROVE  CallInv'
  BY <1>32 DEF StrayExits, CallInv, CallOK
<1>26. ASSUME NEW s \in Sessions, StartPurges(s)
      PROVE  CallInv'
  BY <1>26 DEF StartPurges, CallInv, CallOK
<1>27. ASSUME NEW s \in Sessions, StartDiscards(s)
      PROVE  CallInv'
  BY <1>27 DEF StartDiscards, CallInv, CallOK
<1>28. ASSUME Crash
      PROVE  CallInv'
  BY <1>28 DEF Crash, CallInv, CallOK, Idle, Makes, Removes, Ends, Serves
<1>29. ASSUME StartLists
      PROVE  CallInv'
  BY <1>29 DEF StartLists, CallInv, CallOK
<1>30. ASSUME StartRestores
      PROVE  CallInv'
  BY <1>30 DEF StartRestores, CallInv, CallOK
<1>31. CASE UNCHANGED vars
  BY <1>31 DEF vars, CallInv, CallOK
<1> QED
  BY <1>1, <1>2, <1>3, <1>4, <1>5, <1>6, <1>7, <1>8, <1>9, <1>10, <1>11, <1>12,
     <1>13, <1>14, <1>15, <1>16, <1>17, <1>18, <1>19, <1>20, <1>21, <1>22,
     <1>23, <1>24, <1>25, <1>26, <1>27, <1>28, <1>29, <1>30, <1>31, <1>32 DEF NextCases

(* The phase of the process and what was told keep their types.            *)
LEMMA OtherTypeInductive ==
  ASSUME OtherType, NextCases
  PROVE  OtherType'
<1>1. ASSUME NEW h \in Handlers, NEW op \in {"create", "delete"},
             NEW s \in Sessions, NEW z \in Sizes, Begin(h, op, s, z)
      PROVE  OtherType'
  BY <1>1, CrashesAssumption DEF Begin, At, OtherType
<1>2. ASSUME NEW h \in Handlers, NEW op \in {"start", "stop"},
             NEW s \in Sessions, BeginControl(h, op, s)
      PROVE  OtherType'
  BY <1>2, CrashesAssumption DEF BeginControl, At, Found, OtherType
<1>3. ASSUME NEW h \in Handlers, ControlStarts(h)
      PROVE  OtherType'
  BY <1>3, CrashesAssumption DEF ControlStarts, Goto, At, Mine, Holds, OtherType
<1>4. ASSUME NEW h \in Handlers, ControlReady(h)
      PROVE  OtherType'
  BY <1>4, CrashesAssumption DEF ControlReady, Reply, At, Mine, OtherType
<1>5. ASSUME NEW h \in Handlers, ControlStops(h)
      PROVE  OtherType'
  BY <1>5, CrashesAssumption DEF ControlStops, Reply, At, Mine, Holds, Stopped,
     OtherType
<1>6. ASSUME NEW h \in Handlers, CreateAnswered(h)
      PROVE  OtherType'
  BY <1>6, CrashesAssumption DEF CreateAnswered, Reply, Mine, Admitted,
     SameDefinition, At, OtherType
<1>7. ASSUME NEW h \in Handlers, CreateBegins(h)
      PROVE  OtherType'
  BY <1>7, CrashesAssumption DEF CreateBegins, Mine, Admitted, At, OtherType
<1>8. ASSUME NEW h \in Handlers, MakeDirectory(h)
      PROVE  OtherType'
  BY <1>8, CrashesAssumption DEF MakeDirectory, Goto, Reply, At, Mine, Write,
     OtherType
<1>9. ASSUME NEW h \in Handlers, SyncRoot(h)
      PROVE  OtherType'
  BY <1>9, CrashesAssumption DEF SyncRoot, Goto, At, Sync, OtherType
<1>10. ASSUME NEW h \in Handlers, PublishDefinition(h)
      PROVE  OtherType'
  BY <1>10, CrashesAssumption DEF PublishDefinition, Goto, At, Mine, Write,
     OtherType
<1>11. ASSUME NEW h \in Handlers, Created(h)
      PROVE  OtherType'
  BY <1>11, CrashesAssumption DEF Created, Reply, At, Mine, Sync, OtherType
<1>12. ASSUME NEW h \in Handlers, CreateFails(h)
      PROVE  OtherType'
  BY <1>12, CrashesAssumption DEF CreateFails, Reply, Undo, At, Mine, MayWrite,
     Write, OtherType
<1>13. ASSUME NEW h \in Handlers, MoveAway(h)
      PROVE  OtherType'
  BY <1>13, CrashesAssumption DEF MoveAway, Goto, At, Mine, Write, Queued,
     NoStorage, OtherType
<1>14. ASSUME NEW h \in Handlers, SyncMove(h)
      PROVE  OtherType'
  BY <1>14, CrashesAssumption DEF SyncMove, Goto, At, Sync, OtherType
<1>15. ASSUME NEW h \in Handlers, Purge(h)
      PROVE  OtherType'
  BY <1>15, CrashesAssumption DEF Purge, Goto, At, Mine, Write, OtherType
<1>16. ASSUME NEW h \in Handlers, Removed(h)
      PROVE  OtherType'
  BY <1>16, CrashesAssumption DEF Removed, Reply, At, Mine, Sync, OtherType
<1>17. ASSUME NEW h \in Handlers, RemoveFails(h)
      PROVE  OtherType'
  BY <1>17, CrashesAssumption DEF RemoveFails, Reply, At, Mine, MayWrite,
     Queued, NoStorage, Write, OtherType
<1>18. ASSUME NEW h \in Handlers, DeleteOrphan(h)
      PROVE  OtherType'
  BY <1>18, CrashesAssumption DEF DeleteOrphan, Mine, Admitted, At, OtherType
<1>19. ASSUME NEW h \in Handlers, DeleteBegins(h)
      PROVE  OtherType'
  BY <1>19, CrashesAssumption DEF DeleteBegins, Mine, Admitted, Enqueued, At,
     OtherType
<1>20. ASSUME NEW h \in Handlers, StopForDeletion(h)
      PROVE  OtherType'
  BY <1>20, CrashesAssumption DEF StopForDeletion, Reply, At, Mine, Holds,
     Stopped, OtherType
<1>21. ASSUME NEW h \in Handlers, CheckDetached(h)
      PROVE  OtherType'
  BY <1>21, CrashesAssumption DEF CheckDetached, Reply, At, Mine, Enqueued,
     Detached, OtherType
<1>22. ASSUME NEW h \in Handlers, Shutdown(h)
      PROVE  OtherType'
  BY <1>22, CrashesAssumption DEF Shutdown, At, Mine, Holds, Stopped, OtherType
<1>23. ASSUME NEW h \in Handlers, Interrupt(h)
      PROVE  OtherType'
  BY <1>23, CrashesAssumption DEF Interrupt, Undo, Interrupted, Mine, MayWrite,
     Queued, NoStorage, Write, Reply, OtherType
<1>24. ASSUME NEW s \in Sessions, BootAttaches(s)
      PROVE  OtherType'
  BY <1>24, CrashesAssumption DEF BootAttaches, OtherType
<1>25. ASSUME NEW s \in Sessions, BootFails(s)
      PROVE  OtherType'
  BY <1>25, CrashesAssumption DEF BootFails, OtherType
<1>32. ASSUME NEW s \in Sessions, StrayExits(s)
      PROVE  OtherType'
  BY <1>32, CrashesAssumption DEF StrayExits, OtherType
<1>26. ASSUME NEW s \in Sessions, StartPurges(s)
      PROVE  OtherType'
  BY <1>26, CrashesAssumption DEF StartPurges, OtherType
<1>27. ASSUME NEW s \in Sessions, StartDiscards(s)
      PROVE  OtherType'
  BY <1>27, CrashesAssumption DEF StartDiscards, NoStorage, Unacknowledged,
     OtherType
<1>28. ASSUME Crash
      PROVE  OtherType'
  BY <1>28, CrashesAssumption DEF Crash, OtherType
<1>29. ASSUME StartLists
      PROVE  OtherType'
  BY <1>29, CrashesAssumption DEF StartLists, OtherType
<1>30. ASSUME StartRestores
      PROVE  OtherType'
  BY <1>30, CrashesAssumption DEF StartRestores, Unacknowledged, OtherType
<1>31. CASE UNCHANGED vars
  BY <1>31 DEF vars, OtherType
<1> QED
  BY <1>1, <1>2, <1>3, <1>4, <1>5, <1>6, <1>7, <1>8, <1>9, <1>10, <1>11, <1>12,
     <1>13, <1>14, <1>15, <1>16, <1>17, <1>18, <1>19, <1>20, <1>21, <1>22,
     <1>23, <1>24, <1>25, <1>26, <1>27, <1>28, <1>29, <1>30, <1>31, <1>32 DEF NextCases

-----------------------------------------------------------------------------
(* A handler at work has a session.                                        *)

LEMMA MineIsSession ==
  ASSUME CallInv, NEW h \in Handlers, call[h].pc # "idle"
  PROVE  Mine(h) \in Sessions
BY DEF CallInv, CallOK, Mine

(* Leaving the queues leaves queues.                                       *)
LEMMA ReleasedType ==
  ASSUME QueueType, NEW h
  PROVE  Released(h) \in [Sessions -> Seq(Handlers)]
BY WithoutFacts DEF QueueType, Released

(* Three ways in which a step treats the actors' queues.                   *)
LEMMA QueueTypeKept ==
  ASSUME QueueType,
         \/ commands' = commands
         \/ \E h : commands' = Released(h)
         \/ \E h \in Handlers, s \in Sessions :
               commands' = [commands EXCEPT ![s] = Append(@, h)]
         \/ commands' = [s \in Sessions |-> <<>>]
  PROVE  QueueType'
<1>1. CASE commands' = commands
  BY <1>1 DEF QueueType
<1>2. ASSUME NEW h, commands' = Released(h)
      PROVE  QueueType'
  BY <1>2, ReleasedType DEF QueueType
<1>3. ASSUME NEW h \in Handlers, NEW s \in Sessions,
             commands' = [commands EXCEPT ![s] = Append(@, h)]
      PROVE  QueueType'
  <2>1. Append(commands[s], h) \in Seq(Handlers)
    BY AppendProperties DEF QueueType
  <2> QED
    BY <1>3, <2>1 DEF QueueType
<1>4. CASE commands' = [s \in Sessions |-> <<>>]
  BY <1>4 DEF QueueType
<1> QED
  BY <1>1, <1>2, <1>3, <1>4

(* Queues hold handlers.                                                   *)
LEMMA QueueTypeInductive ==
  ASSUME CallType, CallInv, QueueType, NextCases
  PROVE  QueueType'
<1>1. ASSUME NEW h \in Handlers, NEW op \in {"create", "delete"},
             NEW s \in Sessions, NEW z \in Sizes, Begin(h, op, s, z)
      PROVE  QueueType'
  <2>1. /\ Takes(h, "admit", op, s)
        /\ call'[h].size = (IF op = "create" THEN z ELSE None)
    BY <1>1, BeginTakes
  <2> QED
    BY <1>1, <2>1, MineIsSession, QueueTypeKept DEF Begin, At, Keeps, Quits
<1>2. ASSUME NEW h \in Handlers, NEW op \in {"start", "stop"},
             NEW s \in Sessions, BeginControl(h, op, s)
      PROVE  QueueType'
  <2>1. Takes(h, "control", op, s)
    BY <1>2, BeginControlTakes
  <2> QED
    BY <1>2, <2>1, MineIsSession, QueueTypeKept DEF BeginControl, At, Keeps,
       Quits
<1>3. ASSUME NEW h \in Handlers, ControlStarts(h)
      PROVE  QueueType'
  <2>1. Turns(h, "ready", call[h].removes)
    BY <1>3, Turning
  <2> QED
    BY <1>3, <2>1, MineIsSession, QueueTypeKept DEF ControlStarts, Goto, At,
       Holds, Keeps, Quits
<1>4. ASSUME NEW h \in Handlers, ControlReady(h)
      PROVE  QueueType'
  <2>1. Quits(h)
    BY <1>4, Turning
  <2> QED
    BY <1>4, <2>1, MineIsSession, QueueTypeKept DEF ControlReady, At, Keeps,
       Quits
<1>5. ASSUME NEW h \in Handlers, ControlStops(h)
      PROVE  QueueType'
  <2>1. Quits(h)
    BY <1>5, Turning
  <2> QED
    BY <1>5, <2>1, MineIsSession, QueueTypeKept DEF ControlStops, At, Holds,
       Keeps, Quits
<1>6. ASSUME NEW h \in Handlers, CreateAnswered(h)
      PROVE  QueueType'
  <2>1. Quits(h)
    BY <1>6, Turning
  <2> QED
    BY <1>6, <2>1, MineIsSession, QueueTypeKept DEF CreateAnswered, Admitted,
       At, Keeps, Quits
<1>7. ASSUME NEW h \in Handlers, CreateBegins(h)
      PROVE  QueueType'
  <2>1. Turns(h, "mkdir", call[h].removes)
    BY <1>7, Turning
  <2> QED
    BY <1>7, <2>1, MineIsSession, QueueTypeKept DEF CreateBegins, Admitted, At,
       Keeps, Quits
<1>8. ASSUME NEW h \in Handlers, MakeDirectory(h)
      PROVE  QueueType'
  <2>1. \/ Quits(h)
        \/ Turns(h, "rootsync", call[h].removes) /\ Keeps
    BY <1>8, Turning
  <2> QED
    BY <1>8, <2>1, MineIsSession, QueueTypeKept DEF MakeDirectory, Goto, At,
       Keeps, Quits
<1>9. ASSUME NEW h \in Handlers, SyncRoot(h)
      PROVE  QueueType'
  <2>1. Turns(h, "publish", call[h].removes)
    BY <1>9, Turning
  <2> QED
    BY <1>9, <2>1, MineIsSession, QueueTypeKept DEF SyncRoot, Goto, At, Keeps,
       Quits
<1>10. ASSUME NEW h \in Handlers, PublishDefinition(h)
      PROVE  QueueType'
  <2>1. Turns(h, "defsync", call[h].removes)
    BY <1>10, Turning
  <2> QED
    BY <1>10, <2>1, MineIsSession, QueueTypeKept DEF PublishDefinition, Goto,
       At, Keeps, Quits
<1>11. ASSUME NEW h \in Handlers, Created(h)
      PROVE  QueueType'
  <2>1. Quits(h)
    BY <1>11, Turning
  <2> QED
    BY <1>11, <2>1, MineIsSession, QueueTypeKept DEF Created, At, Keeps, Quits
<1>12. ASSUME NEW h \in Handlers, CreateFails(h)
      PROVE  QueueType'
  <2>1. \/ call[h].pc = "mkdir" /\ Quits(h)
        \/ call[h].pc # "mkdir" /\ Turns(h, "rename", "undo") /\ Keeps
    BY <1>12, CreateFailsTurns
  <2> QED
    BY <1>12, <2>1, MineIsSession, QueueTypeKept DEF CreateFails, At, Keeps,
       Quits
<1>13. ASSUME NEW h \in Handlers, MoveAway(h)
      PROVE  QueueType'
  <2>1. \/ Turns(h, "dirsync", call[h].removes)
        \/ Turns(h, "purge", call[h].removes)
    BY <1>13, Turning
  <2> QED
    BY <1>13, <2>1, MineIsSession, QueueTypeKept DEF MoveAway, Goto, At, Keeps,
       Quits
<1>14. ASSUME NEW h \in Handlers, SyncMove(h)
      PROVE  QueueType'
  <2>1. Turns(h, "purge", call[h].removes)
    BY <1>14, Turning
  <2> QED
    BY <1>14, <2>1, MineIsSession, QueueTypeKept DEF SyncMove, Goto, At, Keeps,
       Quits
<1>15. ASSUME NEW h \in Handlers, Purge(h)
      PROVE  QueueType'
  <2>1. Turns(h, "purgesync", call[h].removes)
    BY <1>15, Turning
  <2> QED
    BY <1>15, <2>1, MineIsSession, QueueTypeKept DEF Purge, Goto, At, Keeps,
       Quits
<1>16. ASSUME NEW h \in Handlers, Removed(h)
      PROVE  QueueType'
  <2>1. Quits(h)
    BY <1>16, Turning
  <2> QED
    BY <1>16, <2>1, MineIsSession, QueueTypeKept DEF Removed, At, Keeps, Quits
<1>17. ASSUME NEW h \in Handlers, RemoveFails(h)
      PROVE  QueueType'
  <2>1. Quits(h)
    BY <1>17, Turning
  <2> QED
    BY <1>17, <2>1, MineIsSession, QueueTypeKept DEF RemoveFails, At, Keeps,
       Quits
<1>18. ASSUME NEW h \in Handlers, DeleteOrphan(h)
      PROVE  QueueType'
  <2>1. Turns(h, "rename", "orphan")
    BY <1>18, Turning
  <2> QED
    BY <1>18, <2>1, MineIsSession, QueueTypeKept DEF DeleteOrphan, Admitted, At,
       Keeps, Quits
<1>19. ASSUME NEW h \in Handlers, DeleteBegins(h)
      PROVE  QueueType'
  <2>1. Turns(h, "stop", call[h].removes)
    BY <1>19, Turning
  <2> QED
    BY <1>19, <2>1, MineIsSession, QueueTypeKept DEF DeleteBegins, Mine,
       Admitted, Enqueued, At, Keeps, Quits
<1>20. ASSUME NEW h \in Handlers, StopForDeletion(h)
      PROVE  QueueType'
  <2>1. \/ Quits(h)
        \/ /\ Turns(h, "check", call[h].removes)
           /\ commands' = Released(h)
           /\ compute' = [compute EXCEPT ![Mine(h)] = "stopped"]
           /\ UNCHANGED <<admission, deleting, told>>
    BY <1>20, Turning
  <2> QED
    BY <1>20, <2>1, MineIsSession, QueueTypeKept DEF StopForDeletion, At, Holds,
       Keeps, Quits
<1>21. ASSUME NEW h \in Handlers, CheckDetached(h)
      PROVE  QueueType'
  <2>1. \/ Quits(h)
        \/ /\ Turns(h, "shutdown", call[h].removes)
           /\ Enqueued(h) /\ UNCHANGED <<admission, deleting, told>>
    BY <1>21, Turning
  <2> QED
    BY <1>21, <2>1, MineIsSession, QueueTypeKept DEF CheckDetached, At,
       Enqueued, Quits, Mine
<1>22. ASSUME NEW h \in Handlers, Shutdown(h)
      PROVE  QueueType'
  <2>1. Turns(h, "rename", "deletion")
    BY <1>22, Turning
  <2> QED
    BY <1>22, <2>1, MineIsSession, QueueTypeKept DEF Shutdown, At, Holds, Keeps,
       Quits
<1>23. ASSUME NEW h \in Handlers, Interrupt(h)
      PROVE  QueueType'
  <2>1. \/ Quits(h)
        \/ call[h].pc \in Makes /\ Turns(h, "rename", "undo") /\ Keeps
    BY <1>23, InterruptTurns
  <2> QED
    BY <1>23, <2>1, MineIsSession, QueueTypeKept DEF Interrupt, Keeps, Quits
<1>24. ASSUME NEW s \in Sessions, BootAttaches(s)
      PROVE  QueueType'
  BY <1>24, MineIsSession, QueueTypeKept DEF BootAttaches, Keeps, Quits
<1>25. ASSUME NEW s \in Sessions, BootFails(s)
      PROVE  QueueType'
  BY <1>25, MineIsSession, QueueTypeKept DEF BootFails, Keeps, Quits
<1>32. ASSUME NEW s \in Sessions, StrayExits(s)
      PROVE  QueueType'
  BY <1>32, MineIsSession, QueueTypeKept DEF StrayExits, Keeps, Quits
<1>26. ASSUME NEW s \in Sessions, StartPurges(s)
      PROVE  QueueType'
  BY <1>26, MineIsSession, QueueTypeKept DEF StartPurges, Keeps, Quits
<1>27. ASSUME NEW s \in Sessions, StartDiscards(s)
      PROVE  QueueType'
  BY <1>27, MineIsSession, QueueTypeKept DEF StartDiscards, Keeps, Quits
<1>28. ASSUME Crash
      PROVE  QueueType'
  BY <1>28, MineIsSession, QueueTypeKept DEF Crash, Keeps, Quits
<1>29. ASSUME StartLists
      PROVE  QueueType'
  BY <1>29, MineIsSession, QueueTypeKept DEF StartLists, Keeps, Quits
<1>30. ASSUME StartRestores
      PROVE  QueueType'
  BY <1>30, MineIsSession, QueueTypeKept DEF StartRestores, Keeps, Quits
<1>31. CASE UNCHANGED vars
  BY <1>31, QueueTypeKept DEF vars
<1> QED
  BY <1>1, <1>2, <1>3, <1>4, <1>5, <1>6, <1>7, <1>8, <1>9, <1>10, <1>11, <1>12,
     <1>13, <1>14, <1>15, <1>16, <1>17, <1>18, <1>19, <1>20, <1>21, <1>22,
     <1>23, <1>24, <1>25, <1>26, <1>27, <1>28, <1>29, <1>30, <1>31, <1>32 DEF NextCases

(* The admission permit, the actors, the deletions and the compute keep    *)
(* their types.                                                            *)
LEMMA ActorTypeInductive ==
  ASSUME CallType, CallInv, FilesType, ActorType, NextCases
  PROVE  ActorType'
<1>1. ASSUME NEW h \in Handlers, NEW op \in {"create", "delete"},
             NEW s \in Sessions, NEW z \in Sizes, Begin(h, op, s, z)
      PROVE  ActorType'
  <2>1. /\ Takes(h, "admit", op, s)
        /\ call'[h].size = (IF op = "create" THEN z ELSE None)
    BY <1>1, BeginTakes
  <2> QED
    BY <1>1, <2>1, MineIsSession DEF Begin, At, ActorType, Lifecycles, Keeps,
       Quits, CallInv, CallOK, Makes, FilesType, Storage
<1>2. ASSUME NEW h \in Handlers, NEW op \in {"start", "stop"},
             NEW s \in Sessions, BeginControl(h, op, s)
      PROVE  ActorType'
  <2>1. Takes(h, "control", op, s)
    BY <1>2, BeginControlTakes
  <2> QED
    BY <1>2, <2>1, MineIsSession DEF BeginControl, At, ActorType, Lifecycles,
       Keeps, Quits, CallInv, CallOK, Makes, FilesType, Storage
<1>3. ASSUME NEW h \in Handlers, ControlStarts(h)
      PROVE  ActorType'
  <2>1. Turns(h, "ready", call[h].removes)
    BY <1>3, Turning
  <2> QED
    BY <1>3, <2>1, MineIsSession DEF ControlStarts, Goto, At, Mine, Holds,
       ActorType, Lifecycles, Keeps, Quits, CallInv, CallOK, Makes, FilesType,
       Storage
<1>4. ASSUME NEW h \in Handlers, ControlReady(h)
      PROVE  ActorType'
  <2>1. Quits(h)
    BY <1>4, Turning
  <2> QED
    BY <1>4, <2>1, MineIsSession DEF ControlReady, At, Mine, ActorType,
       Lifecycles, Keeps, Quits, CallInv, CallOK, Makes, FilesType, Storage
<1>5. ASSUME NEW h \in Handlers, ControlStops(h)
      PROVE  ActorType'
  <2>1. Quits(h)
    BY <1>5, Turning
  <2> QED
    BY <1>5, <2>1, MineIsSession DEF ControlStops, At, Mine, Holds, Stopped,
       ActorType, Lifecycles, Keeps, Quits, CallInv, CallOK, Makes, FilesType,
       Storage
<1>6. ASSUME NEW h \in Handlers, CreateAnswered(h)
      PROVE  ActorType'
  <2>1. Quits(h)
    BY <1>6, Turning
  <2> QED
    BY <1>6, <2>1, MineIsSession DEF CreateAnswered, Mine, Admitted, At,
       ActorType, Lifecycles, Keeps, Quits, CallInv, CallOK, Makes, FilesType,
       Storage
<1>7. ASSUME NEW h \in Handlers, CreateBegins(h)
      PROVE  ActorType'
  <2>1. Turns(h, "mkdir", call[h].removes)
    BY <1>7, Turning
  <2> QED
    BY <1>7, <2>1, MineIsSession DEF CreateBegins, Mine, Admitted, At,
       ActorType, Lifecycles, Keeps, Quits, CallInv, CallOK, Makes, FilesType,
       Storage
<1>8. ASSUME NEW h \in Handlers, MakeDirectory(h)
      PROVE  ActorType'
  <2>1. \/ Quits(h)
        \/ Turns(h, "rootsync", call[h].removes) /\ Keeps
    BY <1>8, Turning
  <2> QED
    BY <1>8, <2>1, MineIsSession DEF MakeDirectory, Goto, At, Mine, ActorType,
       Lifecycles, Keeps, Quits, CallInv, CallOK, Makes, FilesType, Storage
<1>9. ASSUME NEW h \in Handlers, SyncRoot(h)
      PROVE  ActorType'
  <2>1. Turns(h, "publish", call[h].removes)
    BY <1>9, Turning
  <2> QED
    BY <1>9, <2>1, MineIsSession DEF SyncRoot, Goto, At, ActorType, Lifecycles,
       Keeps, Quits, CallInv, CallOK, Makes, FilesType, Storage
<1>10. ASSUME NEW h \in Handlers, PublishDefinition(h)
      PROVE  ActorType'
  <2>1. Turns(h, "defsync", call[h].removes)
    BY <1>10, Turning
  <2> QED
    BY <1>10, <2>1, MineIsSession DEF PublishDefinition, Goto, At, Mine,
       ActorType, Lifecycles, Keeps, Quits, CallInv, CallOK, Makes, FilesType,
       Storage
<1>11. ASSUME NEW h \in Handlers, Created(h)
      PROVE  ActorType'
  <2>1. Quits(h)
    BY <1>11, Turning
  <2> QED
    BY <1>11, <2>1, MineIsSession DEF Created, At, Mine, ActorType, Lifecycles,
       Keeps, Quits, CallInv, CallOK, Makes, FilesType, Storage
<1>12. ASSUME NEW h \in Handlers, CreateFails(h)
      PROVE  ActorType'
  <2>1. \/ call[h].pc = "mkdir" /\ Quits(h)
        \/ call[h].pc # "mkdir" /\ Turns(h, "rename", "undo") /\ Keeps
    BY <1>12, CreateFailsTurns
  <2> QED
    BY <1>12, <2>1, MineIsSession DEF CreateFails, At, Mine, ActorType,
       Lifecycles, Keeps, Quits, CallInv, CallOK, Makes, FilesType, Storage
<1>13. ASSUME NEW h \in Handlers, MoveAway(h)
      PROVE  ActorType'
  <2>1. \/ Turns(h, "dirsync", call[h].removes)
        \/ Turns(h, "purge", call[h].removes)
    BY <1>13, Turning
  <2> QED
    BY <1>13, <2>1, MineIsSession DEF MoveAway, Goto, At, Mine, ActorType,
       Lifecycles, Keeps, Quits, CallInv, CallOK, Makes, FilesType, Storage
<1>14. ASSUME NEW h \in Handlers, SyncMove(h)
      PROVE  ActorType'
  <2>1. Turns(h, "purge", call[h].removes)
    BY <1>14, Turning
  <2> QED
    BY <1>14, <2>1, MineIsSession DEF SyncMove, Goto, At, ActorType, Lifecycles,
       Keeps, Quits, CallInv, CallOK, Makes, FilesType, Storage
<1>15. ASSUME NEW h \in Handlers, Purge(h)
      PROVE  ActorType'
  <2>1. Turns(h, "purgesync", call[h].removes)
    BY <1>15, Turning
  <2> QED
    BY <1>15, <2>1, MineIsSession DEF Purge, Goto, At, Mine, ActorType,
       Lifecycles, Keeps, Quits, CallInv, CallOK, Makes, FilesType, Storage
<1>16. ASSUME NEW h \in Handlers, Removed(h)
      PROVE  ActorType'
  <2>1. Quits(h)
    BY <1>16, Turning
  <2> QED
    BY <1>16, <2>1, MineIsSession DEF Removed, At, Mine, ActorType, Lifecycles,
       Keeps, Quits, CallInv, CallOK, Makes, FilesType, Storage
<1>17. ASSUME NEW h \in Handlers, RemoveFails(h)
      PROVE  ActorType'
  <2>1. Quits(h)
    BY <1>17, Turning
  <2> QED
    BY <1>17, <2>1, MineIsSession DEF RemoveFails, At, Mine, ActorType,
       Lifecycles, Keeps, Quits, CallInv, CallOK, Makes, FilesType, Storage
<1>18. ASSUME NEW h \in Handlers, DeleteOrphan(h)
      PROVE  ActorType'
  <2>1. Turns(h, "rename", "orphan")
    BY <1>18, Turning
  <2> QED
    BY <1>18, <2>1, MineIsSession DEF DeleteOrphan, Mine, Admitted, At,
       ActorType, Lifecycles, Keeps, Quits, CallInv, CallOK, Makes, FilesType,
       Storage
<1>19. ASSUME NEW h \in Handlers, DeleteBegins(h)
      PROVE  ActorType'
  <2>1. Turns(h, "stop", call[h].removes)
    BY <1>19, Turning
  <2> QED
    BY <1>19, <2>1, MineIsSession DEF DeleteBegins, Mine, Admitted, At,
       ActorType, Lifecycles, Keeps, Quits, CallInv, CallOK, Makes, FilesType,
       Storage
<1>20. ASSUME NEW h \in Handlers, StopForDeletion(h)
      PROVE  ActorType'
  <2>1. \/ Quits(h)
        \/ /\ Turns(h, "check", call[h].removes)
           /\ commands' = Released(h)
           /\ compute' = [compute EXCEPT ![Mine(h)] = "stopped"]
           /\ UNCHANGED <<admission, deleting, told>>
    BY <1>20, Turning
  <2> QED
    BY <1>20, <2>1, MineIsSession DEF StopForDeletion, At, Mine, Holds, Stopped,
       ActorType, Lifecycles, Keeps, Quits, CallInv, CallOK, Makes, FilesType,
       Storage
<1>21. ASSUME NEW h \in Handlers, CheckDetached(h)
      PROVE  ActorType'
  <2>1. \/ Quits(h)
        \/ /\ Turns(h, "shutdown", call[h].removes)
           /\ Enqueued(h) /\ UNCHANGED <<admission, deleting, told>>
    BY <1>21, Turning
  <2> QED
    BY <1>21, <2>1, MineIsSession DEF CheckDetached, At, Mine, ActorType,
       Lifecycles, Keeps, Quits, CallInv, CallOK, Makes, FilesType, Storage
<1>22. ASSUME NEW h \in Handlers, Shutdown(h)
      PROVE  ActorType'
  <2>1. Turns(h, "rename", "deletion")
    BY <1>22, Turning
  <2> QED
    BY <1>22, <2>1, MineIsSession DEF Shutdown, At, Mine, Holds, Stopped,
       ActorType, Lifecycles, Keeps, Quits, CallInv, CallOK, Makes, FilesType,
       Storage
<1>23. ASSUME NEW h \in Handlers, Interrupt(h)
      PROVE  ActorType'
  <2>1. \/ Quits(h)
        \/ call[h].pc \in Makes /\ Turns(h, "rename", "undo") /\ Keeps
    BY <1>23, InterruptTurns
  <2> QED
    BY <1>23, <2>1, MineIsSession DEF Interrupt, Mine, ActorType, Lifecycles,
       Keeps, Quits, CallInv, CallOK, Makes, FilesType, Storage
<1>24. ASSUME NEW s \in Sessions, BootAttaches(s)
      PROVE  ActorType'
  BY <1>24, MineIsSession DEF BootAttaches, ActorType, Lifecycles, Keeps, Quits,
     CallInv, CallOK, Makes, FilesType, Storage
<1>25. ASSUME NEW s \in Sessions, BootFails(s)
      PROVE  ActorType'
  BY <1>25, MineIsSession DEF BootFails, ActorType, Lifecycles, Keeps, Quits,
     CallInv, CallOK, Makes, FilesType, Storage
<1>32. ASSUME NEW s \in Sessions, StrayExits(s)
      PROVE  ActorType'
  BY <1>32, MineIsSession DEF StrayExits, ActorType, Lifecycles, Keeps, Quits,
     CallInv, CallOK, Makes, FilesType, Storage
<1>26. ASSUME NEW s \in Sessions, StartPurges(s)
      PROVE  ActorType'
  BY <1>26, MineIsSession DEF StartPurges, ActorType, Lifecycles, Keeps, Quits,
     CallInv, CallOK, Makes, FilesType, Storage
<1>27. ASSUME NEW s \in Sessions, StartDiscards(s)
      PROVE  ActorType'
  BY <1>27, MineIsSession DEF StartDiscards, ActorType, Lifecycles, Keeps,
     Quits, CallInv, CallOK, Makes, FilesType, Storage
<1>28. ASSUME Crash
      PROVE  ActorType'
  BY <1>28, MineIsSession DEF Crash, ActorType, Lifecycles, Keeps, Quits,
     CallInv, CallOK, Makes, FilesType, Storage
<1>29. ASSUME StartLists
      PROVE  ActorType'
  BY <1>29, MineIsSession DEF StartLists, ActorType, Lifecycles, Keeps, Quits,
     CallInv, CallOK, Makes, FilesType, Storage
<1>30. ASSUME StartRestores
      PROVE  ActorType'
  BY <1>30, MineIsSession DEF StartRestores, ActorType, Lifecycles, Keeps,
     Quits, CallInv, CallOK, Makes, FilesType, Storage
<1>31. CASE UNCHANGED vars
  BY <1>31 DEF vars, ActorType, Lifecycles, Keeps, Quits, CallInv, CallOK,
     Makes, FilesType, Storage
<1> QED
  BY <1>1, <1>2, <1>3, <1>4, <1>5, <1>6, <1>7, <1>8, <1>9, <1>10, <1>11, <1>12,
     <1>13, <1>14, <1>15, <1>16, <1>17, <1>18, <1>19, <1>20, <1>21, <1>22,
     <1>23, <1>24, <1>25, <1>26, <1>27, <1>28, <1>29, <1>30, <1>31, <1>32 DEF NextCases

-----------------------------------------------------------------------------
(* What a step does to the storage.                                        *)

Loses == files' \in images' /\ images' \subseteq images
Rewrites(s, new) ==
    /\ files' \in images'
    /\ images' \subseteq images \cup {[files EXCEPT ![s] = new]}

WithDirectory(s) == [files[s] EXCEPT !.dir = TRUE]
WithDefinition(s, size) == [files[s] EXCEPT !.def = size]
WithDisk(s) == [files[s] EXCEPT !.disk = TRUE]
Emptied(s, left) == [files[s] EXCEPT !.queued = left, !.full = FALSE]

(* The storages a step may write, field by field.                          *)
LEMMA StorageFields ==
  ASSUME FilesType, NEW s \in Sessions
  PROVE  /\ WithDirectory(s) \in Storage
         /\ WithDirectory(s).dir /\ WithDirectory(s).def = files[s].def
         /\ WithDirectory(s).disk = files[s].disk
         /\ \A z \in Sizes :
               /\ WithDefinition(s, z) \in Storage
               /\ WithDefinition(s, z).dir = files[s].dir
               /\ WithDefinition(s, z).def = z
         /\ WithDisk(s) \in Storage
         /\ WithDisk(s).dir = files[s].dir /\ WithDisk(s).def = files[s].def
         /\ \A left \in BOOLEAN :
               /\ Emptied(s, left) \in Storage
               /\ Emptied(s, left).dir = files[s].dir
               /\ Emptied(s, left).def = files[s].def
               /\ Emptied(s, left).disk = files[s].disk
         /\ Queued(s) \in Storage
         /\ Queued(s) = files[s] \/ /\ ~Queued(s).dir /\ Queued(s).def = None
                                    /\ ~Queued(s).disk
         /\ ~Refused(s) /\ files[s].dir => ~Queued(s).dir
         /\ NoStorage \in Storage
         /\ ~NoStorage.dir /\ NoStorage.def = None /\ ~NoStorage.disk
<1>1. files[s] \in Storage
  BY DEF FilesType
<1>2. /\ files[s].dir \in BOOLEAN /\ files[s].queued \in BOOLEAN
      /\ files[s].disk \in BOOLEAN /\ files[s].full \in BOOLEAN
  BY <1>1 DEF Storage
<1>3. /\ NoStorage \in Storage
      /\ ~NoStorage.dir /\ NoStorage.def = None /\ ~NoStorage.disk
  BY DEF NoStorage, Storage
<1>4. /\ WithDirectory(s) \in Storage
      /\ WithDirectory(s).dir /\ WithDirectory(s).def = files[s].def
      /\ WithDirectory(s).disk = files[s].disk
  BY <1>1 DEF WithDirectory, Storage
<1>5. ASSUME NEW z \in Sizes
      PROVE  /\ WithDefinition(s, z) \in Storage
             /\ WithDefinition(s, z).dir = files[s].dir
             /\ WithDefinition(s, z).def = z
  BY <1>1 DEF WithDefinition, Storage
<1>6. /\ WithDisk(s) \in Storage
      /\ WithDisk(s).dir = files[s].dir /\ WithDisk(s).def = files[s].def
  BY <1>1 DEF WithDisk, Storage
<1>7. ASSUME NEW left \in BOOLEAN
      PROVE  /\ Emptied(s, left) \in Storage
             /\ Emptied(s, left).dir = files[s].dir
             /\ Emptied(s, left).def = files[s].def
             /\ Emptied(s, left).disk = files[s].disk
  BY <1>1 DEF Emptied, Storage
<1>8. /\ Queued(s) \in Storage
      /\ Queued(s) = files[s] \/ /\ ~Queued(s).dir /\ Queued(s).def = None
                                 /\ ~Queued(s).disk
      /\ ~Refused(s) /\ files[s].dir => ~Queued(s).dir
  <2> DEFINE full == files[s].def # None \/ files[s].disk
  <2>1. full \in BOOLEAN
    BY <1>2
  <2>2. /\ [NoStorage EXCEPT !.queued = TRUE, !.full = full] \in Storage
        /\ ~[NoStorage EXCEPT !.queued = TRUE, !.full = full].dir
        /\ [NoStorage EXCEPT !.queued = TRUE, !.full = full].def = None
        /\ ~[NoStorage EXCEPT !.queued = TRUE, !.full = full].disk
    <3> HIDE DEF full
    <3> QED
      BY <2>1 DEF NoStorage, Storage
  <2> QED
    BY <1>1, <2>2 DEF Queued, Refused
<1> QED
  BY <1>3, <1>4, <1>5, <1>6, <1>7, <1>8

(* A write, or one that may have failed, rewrites one session's storage in *)
(* the file system and in what a power loss may leave.                     *)
LEMMA WriteRewrites ==
  ASSUME FilesType, NEW s, NEW new, Write(s, new) \/ MayWrite(s, new)
  PROVE  Rewrites(s, new)
BY DEF FilesType, Write, MayWrite, Rewrites

(* So does a purge that was cut short: of what waits among the deletions.  *)
Empties(s) == \E left \in BOOLEAN : Rewrites(s, Emptied(s, left))

LEMMA MayPurgeEmpties ==
  ASSUME FilesType, NEW h \in Handlers, Mine(h) \in Sessions, MayPurge(Mine(h))
  PROVE  Empties(Mine(h))
<1> DEFINE s == Mine(h)
<1>1. files[s].queued \in BOOLEAN
  BY DEF FilesType, Storage
<1>2. PICK left \in {FALSE, files[s].queued} :
         MayWrite(s, [files[s] EXCEPT !.queued = left, !.full = FALSE])
  BY DEF MayPurge
<1>3. left \in BOOLEAN /\ MayWrite(s, Emptied(s, left))
  BY <1>1, <1>2 DEF Emptied
<1> QED
  BY <1>3, WriteRewrites DEF Empties

(* What each step of a handler does to the storage.                        *)
LEMMA Filing ==
  ASSUME FilesType, NEW h \in Handlers,
         call[h].pc # "idle" => Mine(h) \in Sessions
  PROVE  /\ MakeDirectory(h) => Loses \/ Rewrites(Mine(h), WithDirectory(Mine(h)))
         /\ PublishDefinition(h) =>
               Rewrites(Mine(h), WithDefinition(Mine(h), call[h].size))
         /\ CreateFails(h) =>
               \/ Loses
               \/ /\ call[h].pc = "publish"
                  /\ Rewrites(Mine(h), WithDefinition(Mine(h), call[h].size))
         /\ MoveAway(h) => Loses \/ Rewrites(Mine(h), Queued(Mine(h)))
         /\ Purge(h) => Rewrites(Mine(h), Emptied(Mine(h), FALSE))
         /\ RemoveFails(h) =>
               \/ Loses
               \/ call[h].pc = "rename" /\ Rewrites(Mine(h), Queued(Mine(h)))
               \/ call[h].pc = "purge" /\ Empties(Mine(h))
         /\ Interrupt(h) =>
               \/ Loses
               \/ /\ call[h].pc = "mkdir"
                  /\ Rewrites(Mine(h), WithDirectory(Mine(h)))
               \/ /\ call[h].pc = "publish"
                  /\ Rewrites(Mine(h), WithDefinition(Mine(h), call[h].size))
               \/ call[h].pc = "rename" /\ Rewrites(Mine(h), Queued(Mine(h)))
               \/ call[h].pc = "purge" /\ Empties(Mine(h))
<1> USE DEF FilesType, Loses, WithDirectory, WithDefinition, At
<1>1. MakeDirectory(h) => Loses \/ Rewrites(Mine(h), WithDirectory(Mine(h)))
  BY WriteRewrites DEF MakeDirectory
<1>2. PublishDefinition(h) => Rewrites(Mine(h), WithDefinition(Mine(h), call[h].size))
  BY WriteRewrites DEF PublishDefinition
<1>3. CreateFails(h) =>
         \/ Loses
         \/ /\ call[h].pc = "publish"
            /\ Rewrites(Mine(h), WithDefinition(Mine(h), call[h].size))
  BY WriteRewrites DEF CreateFails
<1>4. MoveAway(h) => Loses \/ Rewrites(Mine(h), Queued(Mine(h)))
  BY WriteRewrites DEF MoveAway
<1>5. Purge(h) => Rewrites(Mine(h), Emptied(Mine(h), FALSE))
  BY WriteRewrites DEF Purge, Purged, Emptied
<1>6. RemoveFails(h) =>
         \/ Loses
         \/ call[h].pc = "rename" /\ Rewrites(Mine(h), Queued(Mine(h)))
         \/ call[h].pc = "purge" /\ Empties(Mine(h))
  BY WriteRewrites, MayPurgeEmpties DEF RemoveFails
<1>7. Interrupt(h) =>
         \/ Loses
         \/ /\ call[h].pc = "mkdir"
            /\ Rewrites(Mine(h), WithDirectory(Mine(h)))
         \/ /\ call[h].pc = "publish"
            /\ Rewrites(Mine(h), WithDefinition(Mine(h), call[h].size))
         \/ call[h].pc = "rename" /\ Rewrites(Mine(h), Queued(Mine(h)))
         \/ call[h].pc = "purge" /\ Empties(Mine(h))
  BY WriteRewrites, MayPurgeEmpties DEF Interrupt
<1> QED
  BY <1>1, <1>2, <1>3, <1>4, <1>5, <1>6, <1>7

(* Every other step loses at most what was not synced, or keeps of its     *)
(* session what ViewsInv is about.                                         *)
Quiet(h) ==
    \/ ControlStarts(h) \/ ControlReady(h) \/ ControlStops(h)
    \/ CreateAnswered(h) \/ CreateBegins(h) \/ SyncRoot(h) \/ Created(h)
    \/ SyncMove(h) \/ Removed(h) \/ DeleteOrphan(h) \/ DeleteBegins(h)
    \/ StopForDeletion(h) \/ CheckDetached(h) \/ Shutdown(h)

(* The other steps of a handler write nothing.                             *)
LEMMA QuietLoses ==
  ASSUME FilesType, NEW h \in Handlers, Quiet(h)
  PROVE  Loses
BY DEF FilesType, Loses, Quiet, Sync, Goto, ControlStarts, ControlReady,
       ControlStops, CreateAnswered, CreateBegins, SyncRoot, Created, SyncMove,
       Removed, DeleteOrphan, DeleteBegins, StopForDeletion, CheckDetached,
       Shutdown

-----------------------------------------------------------------------------
(* Three kinds of steps, as far as the storage is concerned.               *)

Keeping(s, new) ==
    /\ Rewrites(s, new) /\ Sound(new)
    /\ new.dir = files[s].dir /\ new.def = files[s].def
Working(s, new) ==
    /\ Rewrites(s, new) /\ Sound(new)
    /\ actors[s] = None /\ ~Promised(s)
    /\ told[s] = "deleted" => ~new.dir
FilesStep ==
    \/ Loses
    \/ \E s \in Sessions, new \in Storage : Keeping(s, new) \/ Working(s, new)

(* Whose files a call may change: a session nobody was told anything of.   *)
LEMMA WorkIsFree ==
  ASSUME IInv, NEW h \in Handlers, up = "up", call[h].pc \in Makes \cup Removes
  PROVE  /\ Mine(h) \in Sessions /\ actors[Mine(h)] = None
         /\ ~Promised(Mine(h)) /\ told[Mine(h)] # "deleted"
<1>1. CallOK(call[h]) /\ call[h].pc # "idle"
  BY DEF IInv, CallInv, Makes, Removes
<1>2. /\ call[h].session \in Sessions
      /\ call[h].op \in {"create", "delete"}
  BY <1>1 DEF CallOK
<1>3. actors[call[h].session] = None
  BY DEF IInv, ActorInv, ActorOK
<1>4. ~Promised(call[h].session)
  BY <1>1, <1>2, <1>3 DEF IInv, ToldInv
<1>5. Changes(h, call[h].session)
  BY <1>1, <1>2 DEF Changes
<1>6. told[call[h].session] # "deleted"
  BY <1>2, <1>5 DEF IInv, GoneInv
<1> QED
  BY <1>2, <1>3, <1>4, <1>6 DEF Mine

(* A step of a creation or a removal works on such a session's storage.    *)
LEMMA WorkStep ==
  ASSUME IInv, NEW h \in Handlers, up = "up", call[h].pc \in Makes \cup Removes,
         NEW new \in Storage, Sound(new), Rewrites(Mine(h), new)
  PROVE  FilesStep
BY WorkIsFree DEF Working, FilesStep

(* The file system is one of the storages a power loss may leave.          *)
LEMMA FileIsSound ==
  ASSUME IInv, NEW s \in Sessions
  PROVE  /\ Sound(files[s])
         /\ actors[s] # None => Acknowledged(files[s])
BY DEF IInv, ViewsInv, Types, FilesType

(* The handlers' writes leave sound files.                                 *)
LEMMA WrittenIsSound ==
  ASSUME IInv, NEW h \in Handlers, call[h].pc \in Makes \cup Removes
  PROVE  /\ WithDirectory(Mine(h)) \in Storage /\ Sound(WithDirectory(Mine(h)))
         /\ Queued(Mine(h)) \in Storage /\ Sound(Queued(Mine(h)))
         /\ \A left \in BOOLEAN : /\ Emptied(Mine(h), left) \in Storage
                                  /\ Sound(Emptied(Mine(h), left))
         /\ call[h].pc = "publish" =>
               /\ WithDefinition(Mine(h), call[h].size) \in Storage
               /\ Sound(WithDefinition(Mine(h), call[h].size))
<1>1. CallOK(call[h]) /\ call[h].pc # "idle"
  BY DEF IInv, CallInv, Makes, Removes
<1>2. Mine(h) \in Sessions
  BY <1>1 DEF CallOK, Mine
<1>3. Sound(files[Mine(h)])
  BY <1>2, FileIsSound
<1>4. CASE call[h].pc = "publish"
  <2>1. call[h].size \in Sizes /\ call[h].size # None
    BY <1>1, <1>4, SizesAssumption DEF CallOK, Makes
  <2>2. files[Mine(h)].dir
    BY <1>4 DEF IInv, WorkInv, WorkOK, Mine
  <2> QED
    BY <1>2, <1>3, <2>1, <2>2, StorageFields DEF IInv, Types, Sound
<1>5. CASE call[h].pc # "publish"
  BY <1>2, <1>3, <1>5, StorageFields DEF IInv, Types, Sound
<1> QED
  BY <1>4, <1>5

(* A handler's step is a step of one of the three kinds.                   *)
LEMMA HandlerFiles ==
  ASSUME IInv, NEW h \in Handlers,
         \/ MakeDirectory(h) \/ PublishDefinition(h) \/ CreateFails(h)
         \/ MoveAway(h) \/ Purge(h) \/ RemoveFails(h) \/ Interrupt(h)
  PROVE  FilesStep
<1>1. FilesType /\ up = "up"
  BY DEF IInv, Types, At, MakeDirectory, PublishDefinition, CreateFails,
     MoveAway,
         Purge, RemoveFails, Interrupt
<1>11. call[h].pc # "idle" => Mine(h) \in Sessions
  BY MineIsSession DEF IInv
<1>2. CASE Loses
  BY <1>2 DEF FilesStep
<1>3. CASE /\ call[h].pc \in Makes \cup Removes
           /\ \/ Rewrites(Mine(h), WithDirectory(Mine(h)))
              \/ Rewrites(Mine(h), Queued(Mine(h)))
              \/ Empties(Mine(h))
              \/ /\ call[h].pc = "publish"
                 /\ Rewrites(Mine(h), WithDefinition(Mine(h), call[h].size))
  BY <1>1, <1>3, WrittenIsSound, WorkStep DEF Empties
<1>4. CASE MakeDirectory(h)
  BY <1>1, <1>2, <1>3, <1>4, <1>11, Filing DEF MakeDirectory, At, Makes
<1>5. CASE PublishDefinition(h)
  BY <1>1, <1>2, <1>3, <1>5, <1>11, Filing DEF PublishDefinition, At, Makes
<1>6. CASE CreateFails(h)
  BY <1>1, <1>2, <1>3, <1>6, <1>11, Filing DEF Makes
<1>7. CASE MoveAway(h)
  BY <1>1, <1>2, <1>3, <1>7, <1>11, Filing DEF MoveAway, At, Removes
<1>8. CASE Purge(h)
  BY <1>1, <1>2, <1>3, <1>8, <1>11, Filing DEF Purge, At, Removes, Empties
<1>9. CASE RemoveFails(h)
  BY <1>1, <1>2, <1>3, <1>9, <1>11, Filing DEF Removes
<1>10. CASE Interrupt(h)
  BY <1>1, <1>2, <1>3, <1>10, <1>11, Filing DEF Makes, Removes
<1> QED
  BY <1>4, <1>5, <1>6, <1>7, <1>8, <1>9, <1>10

(* So is a write that is durable at once.                                  *)
LEMMA DurableRewrites ==
  ASSUME FilesType, NEW s, NEW new, files' = [files EXCEPT ![s] = new],
         images' = {files'}
  PROVE  Rewrites(s, new)
BY DEF Rewrites

(* Every step of the runner is of one of the three kinds.                  *)
LEMMA FilesSteps ==
  ASSUME IInv, NextCases
  PROVE  FilesStep
<1>1. FilesType
  BY DEF IInv, Types
<1>2. ASSUME NEW h \in Handlers, Quiet(h)
      PROVE  FilesStep
  BY <1>1, <1>2, QuietLoses DEF FilesStep
<1>3. CASE \/ \E h \in Handlers :
               \/ \E op \in {"create", "delete"}, s \in Sessions, z \in Sizes :
                     Begin(h, op, s, z)
               \/ \E op \in {"start", "stop"}, s \in Sessions :
                     BeginControl(h, op, s)
           \/ \E s \in Sessions : StrayExits(s)
           \/ Crash \/ StartLists \/ StartRestores \/ UNCHANGED vars
  <2>1. Loses
    BY <1>1, <1>3 DEF FilesType, Loses, Begin, BeginControl, StrayExits, Crash,
                      StartLists, StartRestores, vars
  <2> QED
    BY <2>1 DEF FilesStep
<1>4. ASSUME NEW s \in Sessions, BootAttaches(s) \/ BootFails(s)
      PROVE  FilesStep
  <2>1. actors[s] # None
    BY <1>4 DEF BootAttaches, BootFails, IInv, ComputeInv, NoCompute
  <2>2. files[s].def # None /\ files[s].dir
    BY <2>1, FileIsSound DEF Acknowledged
  <2>3. CASE UNCHANGED <<files, images>>
    BY <1>1, <2>3 DEF FilesType, Loses, FilesStep
  <2>4. CASE PublishDisk(s)
    <3>1. Rewrites(s, WithDisk(s))
      BY <1>1, <2>4, DurableRewrites DEF PublishDisk, WithDisk
    <3>2. Keeping(s, WithDisk(s)) /\ WithDisk(s) \in Storage
      BY <1>1, <2>2, <3>1, StorageFields DEF Keeping, Sound
    <3> QED
      BY <3>2 DEF FilesStep
  <2> QED
    BY <1>4, <2>3, <2>4 DEF BootAttaches, BootFails
<1>5. ASSUME NEW s \in Sessions, StartPurges(s)
      PROVE  FilesStep
  <2> DEFINE new == Emptied(s, FALSE)
  <2>1. Rewrites(s, new)
    BY <1>1, <1>5, DurableRewrites DEF StartPurges, Purged, Emptied
  <2>2. Keeping(s, new) /\ new \in Storage
    BY <1>1, <2>1, StorageFields, FileIsSound DEF Keeping, Sound
  <2> QED
    BY <2>2 DEF FilesStep
<1>6. ASSUME NEW s \in Sessions, StartDiscards(s)
      PROVE  FilesStep
  <2>1. Rewrites(s, NoStorage) \/ Rewrites(s, Queued(s))
    BY <1>1, <1>6, DurableRewrites, WriteRewrites DEF StartDiscards
  <2>2. files[s].def = None
    BY <1>6 DEF StartDiscards, Unacknowledged
  <2>3. actors[s] = None
    BY <2>2, FileIsSound DEF Acknowledged
  <2>4. ~Promised(s)
    BY <1>1, <2>2 DEF IInv, ToldInv, Acknowledged, FilesType
  <2>6. told[s] # "deleted"
    BY <1>1, <1>6 DEF IInv, GoneInv, FilesType, StartDiscards, Unacknowledged
  <2>5. \A new \in {NoStorage, Queued(s)} : new \in Storage /\ Sound(new)
    BY <1>1, StorageFields, FileIsSound DEF Sound
  <2> QED
    BY <2>1, <2>3, <2>4, <2>5, <2>6 DEF Working, FilesStep
<1> QED
  BY <1>2, <1>3, <1>4, <1>5, <1>6, HandlerFiles DEF NextCases, Quiet

(* They keep the type of the storage.                                      *)
LEMMA FilesTypeInductive ==
  ASSUME FilesType, FilesStep
  PROVE  FilesType'
<1>1. CASE Loses
  BY <1>1 DEF FilesType, Loses
<1>2. ASSUME NEW s \in Sessions, NEW new \in Storage,
             Keeping(s, new) \/ Working(s, new)
      PROVE  FilesType'
  <2>1. [files EXCEPT ![s] = new] \in [Sessions -> Storage]
    BY DEF FilesType
  <2>2. Rewrites(s, new)
    BY <1>2 DEF Keeping, Working
  <2>3. files' \in images' /\ images' \subseteq [Sessions -> Storage]
    BY <2>1, <2>2 DEF FilesType, Rewrites
  <2> QED
    BY <2>3 DEF FilesType
<1> QED
  BY <1>1, <1>2 DEF FilesStep

(* What is left on storage is sound, and there for whom it must be.        *)
LEMMA ViewsStep ==
  ASSUME IInv, FilesStep, NEW view \in images', NEW x \in Sessions
  PROVE  /\ Sound(view[x])
         /\ actors[x] # None \/ Promised(x) => Acknowledged(view[x])
         /\ told[x] = "deleted" => ~view[x].dir
<1>1. ASSUME NEW old \in images
      PROVE  /\ Sound(old[x])
             /\ actors[x] # None \/ Promised(x) => Acknowledged(old[x])
             /\ told[x] = "deleted" => ~old[x].dir
  BY DEF IInv, ViewsInv, ToldInv, GoneInv
<1>2. CASE view \in images
  BY <1>1, <1>2
<1>3. ASSUME NEW s \in Sessions, NEW new \in Storage,
             Keeping(s, new) \/ Working(s, new),
             view = [files EXCEPT ![s] = new]
      PROVE  /\ Sound(view[x])
             /\ actors[x] # None \/ Promised(x) => Acknowledged(view[x])
             /\ told[x] = "deleted" => ~view[x].dir
  <2>1. files \in images /\ files \in [Sessions -> Storage]
    BY DEF IInv, Types, FilesType
  <2>2. CASE x # s
    <3>1. view[x] = files[x]
      BY <1>3, <2>1, <2>2
    <3> QED
      BY <1>1, <2>1, <3>1
  <2>3. CASE x = s
    <3>1. view[x] = new
      BY <1>3, <2>1, <2>3
    <3>2. /\ actors[x] # None \/ Promised(x) => Acknowledged(files[x])
          /\ told[x] = "deleted" => ~files[x].dir
      BY <1>1, <2>1
    <3>3. CASE Keeping(s, new)
      BY <2>3, <3>1, <3>2, <3>3 DEF Keeping, Acknowledged
    <3>4. CASE Working(s, new)
      BY <2>3, <3>1, <3>4 DEF Working
    <3> QED
      BY <1>3, <3>3, <3>4
  <2> QED
    BY <2>2, <2>3
<1> QED
  BY <1>2, <1>3 DEF FilesStep, Loses, Rewrites, Keeping, Working

-----------------------------------------------------------------------------
(* Actors.                                                                 *)

LEMMA OthersActor ==
  ASSUME IInv, NEW h \in Handlers, NEW g \in Handlers, g # h, call'[g] = call[g],
         \/ actors' = actors /\ deleting \subseteq deleting'
         \/ call[h].pc \in Serves
  PROVE  ActorOK(g)'
<1>1. ActorOK(g) /\ (call[g].pc \in Serves => admission = g)
  BY DEF IInv, ActorInv, CallInv
<1>2. call[h].pc \in Serves => admission = h
  BY DEF IInv, CallInv
<1> QED
  BY <1>1, <1>2 DEF ActorOK, Serves

(* The state a handler's step looks up by its session.                     *)
LEMMA MineTyped ==
  ASSUME IInv, NEW h \in Handlers, call[h].pc # "idle"
  PROVE  /\ call[h].session \in Sessions
         /\ actors \in [Sessions -> Sizes \cup {None}]
         /\ compute \in [Sessions -> Lifecycles]
         /\ files \in [Sessions -> Storage]
         /\ commands \in [Sessions -> Seq(Handlers)]
BY DEF IInv, Types, ActorType, FilesType, QueueType, CallInv, CallOK

(* ActorInv is inductive.                                                  *)
LEMMA ActorInductive ==
  ASSUME IInv, NextCases
  PROVE  ActorInv'
<1>1. ASSUME NEW h \in Handlers, NEW op \in {"create", "delete"},
             NEW s \in Sessions, NEW z \in Sizes, Begin(h, op, s, z)
      PROVE  ActorInv'
  <2>1. /\ Takes(h, "admit", op, s)
        /\ call'[h].size = (IF op = "create" THEN z ELSE None)
    BY <1>1, BeginTakes DEF IInv, Types
  <2>2. /\ \A g \in Handlers : g # h => call'[g] = call[g]
        /\ \/ actors' = actors /\ deleting \subseteq deleting'
           \/ call[h].pc \in Serves
    BY <1>1, <2>1 DEF Begin, At, Keeps, Turns, Quits, Takes, Makes, Removes,
       Ends, Serves
  <2>3. ActorOK(h)
    BY DEF IInv, ActorInv
  <2>4. ActorOK(h)'
    BY <1>1, <2>1, <2>3, MineTyped DEF Begin, At, Keeps, Turns, Quits, Takes,
       ActorOK, Makes, Removes, Ends, Serves, Mine
  <2> QED
    BY <2>2, <2>4, OthersActor DEF ActorInv
<1>2. ASSUME NEW h \in Handlers, NEW op \in {"start", "stop"},
             NEW s \in Sessions, BeginControl(h, op, s)
      PROVE  ActorInv'
  <2>1. Takes(h, "control", op, s)
    BY <1>2, BeginControlTakes DEF IInv, Types
  <2>2. /\ \A g \in Handlers : g # h => call'[g] = call[g]
        /\ \/ actors' = actors /\ deleting \subseteq deleting'
           \/ call[h].pc \in Serves
    BY <1>2, <2>1 DEF BeginControl, At, Keeps, Turns, Quits, Takes, Makes,
       Removes, Ends, Serves
  <2>3. ActorOK(h)
    BY DEF IInv, ActorInv
  <2>4. ActorOK(h)'
    BY <1>2, <2>1, <2>3, MineTyped DEF BeginControl, At, Keeps, Turns, Quits,
       Takes, ActorOK, Makes, Removes, Ends, Serves, Mine
  <2> QED
    BY <2>2, <2>4, OthersActor DEF ActorInv
<1>3. ASSUME NEW h \in Handlers, ControlStarts(h)
      PROVE  ActorInv'
  <2>1. Turns(h, "ready", call[h].removes)
    BY <1>3, Turning DEF IInv, Types
  <2>2. /\ \A g \in Handlers : g # h => call'[g] = call[g]
        /\ \/ actors' = actors /\ deleting \subseteq deleting'
           \/ call[h].pc \in Serves
    BY <1>3, <2>1 DEF ControlStarts, Goto, At, Mine, Holds, Keeps, Turns, Quits,
       Takes, Makes, Removes, Ends, Serves
  <2>3. ActorOK(h)
    BY DEF IInv, ActorInv
  <2>4. ActorOK(h)'
    BY <1>3, <2>1, <2>3, MineTyped DEF ControlStarts, Goto, At, Mine, Holds,
       Keeps, Turns, Quits, Takes, ActorOK, Makes, Removes, Ends, Serves
  <2> QED
    BY <2>2, <2>4, OthersActor DEF ActorInv
<1>4. ASSUME NEW h \in Handlers, ControlReady(h)
      PROVE  ActorInv'
  <2>1. Quits(h)
    BY <1>4, Turning DEF IInv, Types
  <2>2. /\ \A g \in Handlers : g # h => call'[g] = call[g]
        /\ \/ actors' = actors /\ deleting \subseteq deleting'
           \/ call[h].pc \in Serves
    BY <1>4, <2>1 DEF ControlReady, At, Mine, Keeps, Turns, Quits, Takes, Makes,
       Removes, Ends, Serves
  <2>3. ActorOK(h)
    BY DEF IInv, ActorInv
  <2>4. ActorOK(h)'
    BY <1>4, <2>1, <2>3, MineTyped DEF ControlReady, At, Mine, Keeps, Turns,
       Quits, Takes, ActorOK, Makes, Removes, Ends, Serves
  <2> QED
    BY <2>2, <2>4, OthersActor DEF ActorInv
<1>5. ASSUME NEW h \in Handlers, ControlStops(h)
      PROVE  ActorInv'
  <2>1. Quits(h)
    BY <1>5, Turning DEF IInv, Types
  <2>2. /\ \A g \in Handlers : g # h => call'[g] = call[g]
        /\ \/ actors' = actors /\ deleting \subseteq deleting'
           \/ call[h].pc \in Serves
    BY <1>5, <2>1 DEF ControlStops, At, Mine, Holds, Keeps, Turns, Quits, Takes,
       Makes, Removes, Ends, Serves
  <2>3. ActorOK(h)
    BY DEF IInv, ActorInv
  <2>4. ActorOK(h)'
    BY <1>5, <2>1, <2>3, MineTyped DEF ControlStops, At, Mine, Holds, Keeps,
       Turns, Quits, Takes, ActorOK, Makes, Removes, Ends, Serves
  <2> QED
    BY <2>2, <2>4, OthersActor DEF ActorInv
<1>6. ASSUME NEW h \in Handlers, CreateAnswered(h)
      PROVE  ActorInv'
  <2>1. Quits(h)
    BY <1>6, Turning DEF IInv, Types
  <2>2. /\ \A g \in Handlers : g # h => call'[g] = call[g]
        /\ \/ actors' = actors /\ deleting \subseteq deleting'
           \/ call[h].pc \in Serves
    BY <1>6, <2>1 DEF CreateAnswered, Mine, Admitted, At, Keeps, Turns, Quits,
       Takes, Makes, Removes, Ends, Serves
  <2>3. ActorOK(h)
    BY DEF IInv, ActorInv
  <2>4. ActorOK(h)'
    BY <1>6, <2>1, <2>3, MineTyped DEF CreateAnswered, Mine, Admitted, At,
       Keeps, Turns, Quits, Takes, ActorOK, Makes, Removes, Ends, Serves
  <2> QED
    BY <2>2, <2>4, OthersActor DEF ActorInv
<1>7. ASSUME NEW h \in Handlers, CreateBegins(h)
      PROVE  ActorInv'
  <2>1. Turns(h, "mkdir", call[h].removes)
    BY <1>7, Turning DEF IInv, Types
  <2>2. /\ \A g \in Handlers : g # h => call'[g] = call[g]
        /\ \/ actors' = actors /\ deleting \subseteq deleting'
           \/ call[h].pc \in Serves
    BY <1>7, <2>1 DEF CreateBegins, Mine, Admitted, At, Keeps, Turns, Quits,
       Takes, Makes, Removes, Ends, Serves
  <2>3. ActorOK(h)
    BY DEF IInv, ActorInv
  <2>4. ActorOK(h)'
    BY <1>7, <2>1, <2>3, MineTyped DEF CreateBegins, Mine, Admitted, At, Keeps,
       Turns, Quits, Takes, ActorOK, Makes, Removes, Ends, Serves
  <2> QED
    BY <2>2, <2>4, OthersActor DEF ActorInv
<1>8. ASSUME NEW h \in Handlers, MakeDirectory(h)
      PROVE  ActorInv'
  <2>1. \/ Quits(h)
        \/ Turns(h, "rootsync", call[h].removes) /\ Keeps
    BY <1>8, Turning DEF IInv, Types
  <2>2. /\ \A g \in Handlers : g # h => call'[g] = call[g]
        /\ \/ actors' = actors /\ deleting \subseteq deleting'
           \/ call[h].pc \in Serves
    BY <1>8, <2>1 DEF MakeDirectory, Goto, At, Mine, Keeps, Turns, Quits, Takes,
       Makes, Removes, Ends, Serves
  <2>3. ActorOK(h)
    BY DEF IInv, ActorInv
  <2>4. ActorOK(h)'
    BY <1>8, <2>1, <2>3, MineTyped DEF MakeDirectory, Goto, At, Mine, Keeps,
       Turns, Quits, Takes, ActorOK, Makes, Removes, Ends, Serves
  <2> QED
    BY <2>2, <2>4, OthersActor DEF ActorInv
<1>9. ASSUME NEW h \in Handlers, SyncRoot(h)
      PROVE  ActorInv'
  <2>1. Turns(h, "publish", call[h].removes)
    BY <1>9, Turning DEF IInv, Types
  <2>2. /\ \A g \in Handlers : g # h => call'[g] = call[g]
        /\ \/ actors' = actors /\ deleting \subseteq deleting'
           \/ call[h].pc \in Serves
    BY <1>9, <2>1 DEF SyncRoot, Goto, At, Keeps, Turns, Quits, Takes, Makes,
       Removes, Ends, Serves
  <2>3. ActorOK(h)
    BY DEF IInv, ActorInv
  <2>4. ActorOK(h)'
    BY <1>9, <2>1, <2>3, MineTyped DEF SyncRoot, Goto, At, Keeps, Turns, Quits,
       Takes, ActorOK, Makes, Removes, Ends, Serves, Mine
  <2> QED
    BY <2>2, <2>4, OthersActor DEF ActorInv
<1>10. ASSUME NEW h \in Handlers, PublishDefinition(h)
      PROVE  ActorInv'
  <2>1. Turns(h, "defsync", call[h].removes)
    BY <1>10, Turning DEF IInv, Types
  <2>2. /\ \A g \in Handlers : g # h => call'[g] = call[g]
        /\ \/ actors' = actors /\ deleting \subseteq deleting'
           \/ call[h].pc \in Serves
    BY <1>10, <2>1 DEF PublishDefinition, Goto, At, Mine, Keeps, Turns, Quits,
       Takes, Makes, Removes, Ends, Serves
  <2>3. ActorOK(h)
    BY DEF IInv, ActorInv
  <2>4. ActorOK(h)'
    BY <1>10, <2>1, <2>3, MineTyped DEF PublishDefinition, Goto, At, Mine,
       Keeps, Turns, Quits, Takes, ActorOK, Makes, Removes, Ends, Serves
  <2> QED
    BY <2>2, <2>4, OthersActor DEF ActorInv
<1>11. ASSUME NEW h \in Handlers, Created(h)
      PROVE  ActorInv'
  <2>1. Quits(h)
    BY <1>11, Turning DEF IInv, Types
  <2>2. /\ \A g \in Handlers : g # h => call'[g] = call[g]
        /\ \/ actors' = actors /\ deleting \subseteq deleting'
           \/ call[h].pc \in Serves
    BY <1>11, <2>1 DEF Created, At, Mine, Keeps, Turns, Quits, Takes, Makes,
       Removes, Ends, Serves
  <2>3. ActorOK(h)
    BY DEF IInv, ActorInv
  <2>4. ActorOK(h)'
    BY <1>11, <2>1, <2>3, MineTyped DEF Created, At, Mine, Keeps, Turns, Quits,
       Takes, ActorOK, Makes, Removes, Ends, Serves
  <2> QED
    BY <2>2, <2>4, OthersActor DEF ActorInv
<1>12. ASSUME NEW h \in Handlers, CreateFails(h)
      PROVE  ActorInv'
  <2>1. \/ call[h].pc = "mkdir" /\ Quits(h)
        \/ call[h].pc # "mkdir" /\ Turns(h, "rename", "undo") /\ Keeps
    BY <1>12, CreateFailsTurns DEF IInv, Types
  <2>2. /\ \A g \in Handlers : g # h => call'[g] = call[g]
        /\ \/ actors' = actors /\ deleting \subseteq deleting'
           \/ call[h].pc \in Serves
    BY <1>12, <2>1 DEF CreateFails, At, Mine, Keeps, Turns, Quits, Takes, Makes,
       Removes, Ends, Serves
  <2>3. ActorOK(h)
    BY DEF IInv, ActorInv
  <2>4. ActorOK(h)'
    BY <1>12, <2>1, <2>3, MineTyped DEF CreateFails, At, Mine, Keeps, Turns,
       Quits, Takes, ActorOK, Makes, Removes, Ends, Serves
  <2> QED
    BY <2>2, <2>4, OthersActor DEF ActorInv
<1>13. ASSUME NEW h \in Handlers, MoveAway(h)
      PROVE  ActorInv'
  <2>1. \/ Turns(h, "dirsync", call[h].removes)
        \/ Turns(h, "purge", call[h].removes)
    BY <1>13, Turning DEF IInv, Types
  <2>2. /\ \A g \in Handlers : g # h => call'[g] = call[g]
        /\ \/ actors' = actors /\ deleting \subseteq deleting'
           \/ call[h].pc \in Serves
    BY <1>13, <2>1 DEF MoveAway, Goto, At, Mine, Keeps, Turns, Quits, Takes,
       Makes, Removes, Ends, Serves
  <2>3. ActorOK(h)
    BY DEF IInv, ActorInv
  <2>4. ActorOK(h)'
    BY <1>13, <2>1, <2>3, MineTyped DEF MoveAway, Goto, At, Mine, Keeps, Turns,
       Quits, Takes, ActorOK, Makes, Removes, Ends, Serves
  <2> QED
    BY <2>2, <2>4, OthersActor DEF ActorInv
<1>14. ASSUME NEW h \in Handlers, SyncMove(h)
      PROVE  ActorInv'
  <2>1. Turns(h, "purge", call[h].removes)
    BY <1>14, Turning DEF IInv, Types
  <2>2. /\ \A g \in Handlers : g # h => call'[g] = call[g]
        /\ \/ actors' = actors /\ deleting \subseteq deleting'
           \/ call[h].pc \in Serves
    BY <1>14, <2>1 DEF SyncMove, Goto, At, Keeps, Turns, Quits, Takes, Makes,
       Removes, Ends, Serves
  <2>3. ActorOK(h)
    BY DEF IInv, ActorInv
  <2>4. ActorOK(h)'
    BY <1>14, <2>1, <2>3, MineTyped DEF SyncMove, Goto, At, Keeps, Turns, Quits,
       Takes, ActorOK, Makes, Removes, Ends, Serves, Mine
  <2> QED
    BY <2>2, <2>4, OthersActor DEF ActorInv
<1>15. ASSUME NEW h \in Handlers, Purge(h)
      PROVE  ActorInv'
  <2>1. Turns(h, "purgesync", call[h].removes)
    BY <1>15, Turning DEF IInv, Types
  <2>2. /\ \A g \in Handlers : g # h => call'[g] = call[g]
        /\ \/ actors' = actors /\ deleting \subseteq deleting'
           \/ call[h].pc \in Serves
    BY <1>15, <2>1 DEF Purge, Goto, At, Mine, Keeps, Turns, Quits, Takes, Makes,
       Removes, Ends, Serves
  <2>3. ActorOK(h)
    BY DEF IInv, ActorInv
  <2>4. ActorOK(h)'
    BY <1>15, <2>1, <2>3, MineTyped DEF Purge, Goto, At, Mine, Keeps, Turns,
       Quits, Takes, ActorOK, Makes, Removes, Ends, Serves
  <2> QED
    BY <2>2, <2>4, OthersActor DEF ActorInv
<1>16. ASSUME NEW h \in Handlers, Removed(h)
      PROVE  ActorInv'
  <2>1. Quits(h)
    BY <1>16, Turning DEF IInv, Types
  <2>2. /\ \A g \in Handlers : g # h => call'[g] = call[g]
        /\ \/ actors' = actors /\ deleting \subseteq deleting'
           \/ call[h].pc \in Serves
    BY <1>16, <2>1 DEF Removed, At, Mine, Keeps, Turns, Quits, Takes, Makes,
       Removes, Ends, Serves
  <2>3. ActorOK(h)
    BY DEF IInv, ActorInv
  <2>4. ActorOK(h)'
    BY <1>16, <2>1, <2>3, MineTyped DEF Removed, At, Mine, Keeps, Turns, Quits,
       Takes, ActorOK, Makes, Removes, Ends, Serves
  <2> QED
    BY <2>2, <2>4, OthersActor DEF ActorInv
<1>17. ASSUME NEW h \in Handlers, RemoveFails(h)
      PROVE  ActorInv'
  <2>1. Quits(h)
    BY <1>17, Turning DEF IInv, Types
  <2>2. /\ \A g \in Handlers : g # h => call'[g] = call[g]
        /\ \/ actors' = actors /\ deleting \subseteq deleting'
           \/ call[h].pc \in Serves
    BY <1>17, <2>1 DEF RemoveFails, At, Mine, Keeps, Turns, Quits, Takes, Makes,
       Removes, Ends, Serves
  <2>3. ActorOK(h)
    BY DEF IInv, ActorInv
  <2>4. ActorOK(h)'
    BY <1>17, <2>1, <2>3, MineTyped DEF RemoveFails, At, Mine, Keeps, Turns,
       Quits, Takes, ActorOK, Makes, Removes, Ends, Serves
  <2> QED
    BY <2>2, <2>4, OthersActor DEF ActorInv
<1>18. ASSUME NEW h \in Handlers, DeleteOrphan(h)
      PROVE  ActorInv'
  <2>1. Turns(h, "rename", "orphan")
    BY <1>18, Turning DEF IInv, Types
  <2>2. /\ \A g \in Handlers : g # h => call'[g] = call[g]
        /\ \/ actors' = actors /\ deleting \subseteq deleting'
           \/ call[h].pc \in Serves
    BY <1>18, <2>1 DEF DeleteOrphan, Mine, Admitted, At, Keeps, Turns, Quits,
       Takes, Makes, Removes, Ends, Serves
  <2>3. ActorOK(h)
    BY DEF IInv, ActorInv
  <2>4. ActorOK(h)'
    BY <1>18, <2>1, <2>3, MineTyped DEF DeleteOrphan, Mine, Admitted, At, Keeps,
       Turns, Quits, Takes, ActorOK, Makes, Removes, Ends, Serves
  <2> QED
    BY <2>2, <2>4, OthersActor DEF ActorInv
<1>19. ASSUME NEW h \in Handlers, DeleteBegins(h)
      PROVE  ActorInv'
  <2>1. Turns(h, "stop", call[h].removes)
    BY <1>19, Turning DEF IInv, Types
  <2>2. /\ \A g \in Handlers : g # h => call'[g] = call[g]
        /\ \/ actors' = actors /\ deleting \subseteq deleting'
           \/ call[h].pc \in Serves
    BY <1>19, <2>1 DEF DeleteBegins, Mine, Admitted, At, Keeps, Turns, Quits,
       Takes, Makes, Removes, Ends, Serves
  <2>3. ActorOK(h)
    BY DEF IInv, ActorInv
  <2>4. ActorOK(h)'
    BY <1>19, <2>1, <2>3, MineTyped DEF DeleteBegins, Mine, Admitted, At, Keeps,
       Turns, Quits, Takes, ActorOK, Makes, Removes, Ends, Serves
  <2> QED
    BY <2>2, <2>4, OthersActor DEF ActorInv
<1>20. ASSUME NEW h \in Handlers, StopForDeletion(h)
      PROVE  ActorInv'
  <2>1. \/ Quits(h)
        \/ /\ Turns(h, "check", call[h].removes)
           /\ commands' = Released(h)
           /\ compute' = [compute EXCEPT ![Mine(h)] = "stopped"]
           /\ UNCHANGED <<admission, deleting, told>>
    BY <1>20, Turning DEF IInv, Types
  <2>2. /\ \A g \in Handlers : g # h => call'[g] = call[g]
        /\ \/ actors' = actors /\ deleting \subseteq deleting'
           \/ call[h].pc \in Serves
    BY <1>20, <2>1 DEF StopForDeletion, At, Mine, Holds, Keeps, Turns, Quits,
       Takes, Makes, Removes, Ends, Serves
  <2>3. ActorOK(h)
    BY DEF IInv, ActorInv
  <2>4. ActorOK(h)'
    BY <1>20, <2>1, <2>3, MineTyped DEF StopForDeletion, At, Mine, Holds, Keeps,
       Turns, Quits, Takes, ActorOK, Makes, Removes, Ends, Serves
  <2> QED
    BY <2>2, <2>4, OthersActor DEF ActorInv
<1>21. ASSUME NEW h \in Handlers, CheckDetached(h)
      PROVE  ActorInv'
  <2>1. \/ Quits(h)
        \/ /\ Turns(h, "shutdown", call[h].removes)
           /\ Enqueued(h) /\ UNCHANGED <<admission, deleting, told>>
    BY <1>21, Turning DEF IInv, Types
  <2>2. /\ \A g \in Handlers : g # h => call'[g] = call[g]
        /\ \/ actors' = actors /\ deleting \subseteq deleting'
           \/ call[h].pc \in Serves
    BY <1>21, <2>1 DEF CheckDetached, At, Mine, Keeps, Turns, Quits, Takes,
       Makes, Removes, Ends, Serves
  <2>3. ActorOK(h)
    BY DEF IInv, ActorInv
  <2>4. ActorOK(h)'
    BY <1>21, <2>1, <2>3, MineTyped DEF CheckDetached, At, Mine, Keeps, Turns,
       Quits, Takes, ActorOK, Makes, Removes, Ends, Serves
  <2> QED
    BY <2>2, <2>4, OthersActor DEF ActorInv
<1>22. ASSUME NEW h \in Handlers, Shutdown(h)
      PROVE  ActorInv'
  <2>1. Turns(h, "rename", "deletion")
    BY <1>22, Turning DEF IInv, Types
  <2>2. /\ \A g \in Handlers : g # h => call'[g] = call[g]
        /\ \/ actors' = actors /\ deleting \subseteq deleting'
           \/ call[h].pc \in Serves
    BY <1>22, <2>1 DEF Shutdown, At, Mine, Holds, Keeps, Turns, Quits, Takes,
       Makes, Removes, Ends, Serves
  <2>3. ActorOK(h)
    BY DEF IInv, ActorInv
  <2>4. ActorOK(h)'
    BY <1>22, <2>1, <2>3, MineTyped DEF Shutdown, At, Mine, Holds, Keeps, Turns,
       Quits, Takes, ActorOK, Makes, Removes, Ends, Serves
  <2> QED
    BY <2>2, <2>4, OthersActor DEF ActorInv
<1>23. ASSUME NEW h \in Handlers, Interrupt(h)
      PROVE  ActorInv'
  <2>1. \/ Quits(h)
        \/ call[h].pc \in Makes /\ Turns(h, "rename", "undo") /\ Keeps
    BY <1>23, InterruptTurns DEF IInv, Types
  <2>2. /\ \A g \in Handlers : g # h => call'[g] = call[g]
        /\ \/ actors' = actors /\ deleting \subseteq deleting'
           \/ call[h].pc \in Serves
    BY <1>23, <2>1 DEF Interrupt, Mine, Keeps, Turns, Quits, Takes, Makes,
       Removes, Ends, Serves
  <2>3. ActorOK(h)
    BY DEF IInv, ActorInv
  <2>4. ActorOK(h)'
    BY <1>23, <2>1, <2>3, MineTyped DEF Interrupt, Mine, Keeps, Turns, Quits,
       Takes, ActorOK, Makes, Removes, Ends, Serves
  <2> QED
    BY <2>2, <2>4, OthersActor DEF ActorInv
<1>24. ASSUME NEW s \in Sessions, BootAttaches(s)
      PROVE  ActorInv'
  BY <1>24 DEF BootAttaches, IInv, ActorInv, ActorOK
<1>25. ASSUME NEW s \in Sessions, BootFails(s)
      PROVE  ActorInv'
  BY <1>25 DEF BootFails, IInv, ActorInv, ActorOK
<1>32. ASSUME NEW s \in Sessions, StrayExits(s)
      PROVE  ActorInv'
  BY <1>32 DEF StrayExits, IInv, ActorInv, ActorOK
<1>26. ASSUME NEW s \in Sessions, StartPurges(s)
      PROVE  ActorInv'
  BY <1>26 DEF StartPurges, IInv, ActorInv, ActorOK
<1>27. ASSUME NEW s \in Sessions, StartDiscards(s)
      PROVE  ActorInv'
  BY <1>27 DEF StartDiscards, IInv, ActorInv, ActorOK
<1>28. ASSUME Crash
      PROVE  ActorInv'
  BY <1>28 DEF Crash, ActorInv, ActorOK, Idle, Makes, Removes, Ends
<1>29. ASSUME StartLists
      PROVE  ActorInv'
  BY <1>29 DEF StartLists, IInv, ActorInv, ActorOK
<1>30. ASSUME StartRestores
      PROVE  ActorInv'
  BY <1>30 DEF StartRestores, IInv, DownInv, ActorInv, ActorOK, Makes, Removes,
     Ends
<1>31. CASE UNCHANGED vars
  BY <1>31 DEF vars, IInv, ActorInv, ActorOK
<1> QED
  BY <1>1, <1>2, <1>3, <1>4, <1>5, <1>6, <1>7, <1>8, <1>9, <1>10, <1>11, <1>12,
     <1>13, <1>14, <1>15, <1>16, <1>17, <1>18, <1>19, <1>20, <1>21, <1>22,
     <1>23, <1>24, <1>25, <1>26, <1>27, <1>28, <1>29, <1>30, <1>31, <1>32 DEF NextCases

-----------------------------------------------------------------------------
(* Compute.                                                                *)

LEMMA HeadFacts ==
  ASSUME IInv, NEW h \in Handlers, call[h].pc # "idle", Holds(h)
  PROVE  /\ Len(commands[call[h].session]) > 0
         /\ commands[call[h].session][1] = h
         /\ actors[call[h].session] # None
<1>1. /\ call[h].session \in Sessions
      /\ commands[call[h].session] \in Seq(Handlers)
  BY MineTyped
<1>2. /\ Len(commands[call[h].session]) > 0
      /\ commands[call[h].session][1] = h
  BY <1>1 DEF Holds
<1> QED
  BY <1>1, <1>2 DEF IInv, QueueInv, QueueOK

(* Another handler's deletion keeps the compute it stopped.                *)
LEMMA OthersCompute ==
  ASSUME IInv, NEW h \in Handlers, NEW g \in Handlers, g # h, call'[g] = call[g],
         \/ compute' = compute
         \/ /\ Holds(h) /\ call[h].pc # "idle"
            /\ \A s \in Sessions : s # Mine(h) => compute'[s] = compute[s],
         stray' = stray
  PROVE  ComputeOK(g)'
<1>6. call[g].pc = "shutdown" => call[g].session \notin stray
  BY DEF IInv, ComputeInv, ComputeOK
<1> SUFFICES ASSUME call[g].pc \in {"check", "shutdown"}
             PROVE  compute'[call[g].session] = "stopped"
  BY <1>6 DEF ComputeOK
<1>1. call[g].session \in Sessions
  BY MineTyped
<1>2. compute[call[g].session] = "stopped"
  BY DEF IInv, ComputeInv, ComputeOK
<1>3. /\ call[g].pc = "check" => Len(commands[call[g].session]) = 0
      /\ call[g].pc = "shutdown" => commands[call[g].session][1] = g
  BY DEF IInv, QueueInv, LastOK
<1>4. CASE call[g].session = Mine(h)
  BY <1>2, <1>3, <1>4, HeadFacts DEF Mine
<1>5. CASE call[g].session # Mine(h)
  BY <1>1, <1>2, <1>5
<1> QED
  BY <1>4, <1>5

(* NoCompute is inductive: only an environment with an actor has compute.  *)
LEMMA NoComputeInductive ==
  ASSUME IInv, NextCases
  PROVE  NoCompute'
<1>1. ASSUME NEW h \in Handlers, NEW op \in {"create", "delete"},
             NEW s \in Sessions, NEW z \in Sizes, Begin(h, op, s, z)
      PROVE  NoCompute'
  BY <1>1, HeadFacts, MineTyped, SizesAssumption DEF Begin, At, IInv,
     ComputeInv, ComputeOK, NoCompute, Mine, CallInv, CallOK, Makes
<1>2. ASSUME NEW h \in Handlers, NEW op \in {"start", "stop"},
             NEW s \in Sessions, BeginControl(h, op, s)
      PROVE  NoCompute'
  BY <1>2, HeadFacts, MineTyped, SizesAssumption DEF BeginControl, At, IInv,
     ComputeInv, ComputeOK, NoCompute, Mine, CallInv, CallOK, Makes
<1>3. ASSUME NEW h \in Handlers, ControlStarts(h)
      PROVE  NoCompute'
  BY <1>3, HeadFacts, MineTyped, SizesAssumption DEF ControlStarts, Goto, At,
     Mine, IInv, ComputeInv, ComputeOK, NoCompute, CallInv, CallOK, Makes
<1>4. ASSUME NEW h \in Handlers, ControlReady(h)
      PROVE  NoCompute'
  BY <1>4, HeadFacts, MineTyped, SizesAssumption DEF ControlReady, At, Mine,
     IInv, ComputeInv, ComputeOK, NoCompute, CallInv, CallOK, Makes
<1>5. ASSUME NEW h \in Handlers, ControlStops(h)
      PROVE  NoCompute'
  BY <1>5, HeadFacts, MineTyped, SizesAssumption DEF ControlStops, At, Mine,
     Stopped, IInv, ComputeInv, ComputeOK, NoCompute, CallInv, CallOK, Makes
<1>6. ASSUME NEW h \in Handlers, CreateAnswered(h)
      PROVE  NoCompute'
  BY <1>6, HeadFacts, MineTyped, SizesAssumption DEF CreateAnswered, Mine,
     Admitted, At, IInv, ComputeInv, ComputeOK, NoCompute, CallInv, CallOK,
     Makes
<1>7. ASSUME NEW h \in Handlers, CreateBegins(h)
      PROVE  NoCompute'
  BY <1>7, HeadFacts, MineTyped, SizesAssumption DEF CreateBegins, Mine,
     Admitted, At, IInv, ComputeInv, ComputeOK, NoCompute, CallInv, CallOK,
     Makes
<1>8. ASSUME NEW h \in Handlers, MakeDirectory(h)
      PROVE  NoCompute'
  BY <1>8, HeadFacts, MineTyped, SizesAssumption DEF MakeDirectory, Goto, At,
     Mine, IInv, ComputeInv, ComputeOK, NoCompute, CallInv, CallOK, Makes
<1>9. ASSUME NEW h \in Handlers, SyncRoot(h)
      PROVE  NoCompute'
  BY <1>9, HeadFacts, MineTyped, SizesAssumption DEF SyncRoot, Goto, At, IInv,
     ComputeInv, ComputeOK, NoCompute, Mine, CallInv, CallOK, Makes
<1>10. ASSUME NEW h \in Handlers, PublishDefinition(h)
      PROVE  NoCompute'
  BY <1>10, HeadFacts, MineTyped, SizesAssumption DEF PublishDefinition, Goto,
     At, Mine, IInv, ComputeInv, ComputeOK, NoCompute, CallInv, CallOK, Makes
<1>11. ASSUME NEW h \in Handlers, Created(h)
      PROVE  NoCompute'
  BY <1>11, HeadFacts, MineTyped, SizesAssumption DEF Created, At, Mine, IInv,
     ComputeInv, ComputeOK, NoCompute, CallInv, CallOK, Makes
<1>12. ASSUME NEW h \in Handlers, CreateFails(h)
      PROVE  NoCompute'
  BY <1>12, HeadFacts, MineTyped, SizesAssumption DEF CreateFails, At, Mine,
     IInv, ComputeInv, ComputeOK, NoCompute, CallInv, CallOK, Makes
<1>13. ASSUME NEW h \in Handlers, MoveAway(h)
      PROVE  NoCompute'
  BY <1>13, HeadFacts, MineTyped, SizesAssumption DEF MoveAway, Goto, At, Mine,
     IInv, ComputeInv, ComputeOK, NoCompute, CallInv, CallOK, Makes
<1>14. ASSUME NEW h \in Handlers, SyncMove(h)
      PROVE  NoCompute'
  BY <1>14, HeadFacts, MineTyped, SizesAssumption DEF SyncMove, Goto, At, IInv,
     ComputeInv, ComputeOK, NoCompute, Mine, CallInv, CallOK, Makes
<1>15. ASSUME NEW h \in Handlers, Purge(h)
      PROVE  NoCompute'
  BY <1>15, HeadFacts, MineTyped, SizesAssumption DEF Purge, Goto, At, Mine,
     IInv, ComputeInv, ComputeOK, NoCompute, CallInv, CallOK, Makes
<1>16. ASSUME NEW h \in Handlers, Removed(h)
      PROVE  NoCompute'
  BY <1>16, HeadFacts, MineTyped, SizesAssumption DEF Removed, At, Mine, IInv,
     ComputeInv, ComputeOK, NoCompute, CallInv, CallOK, Makes
<1>17. ASSUME NEW h \in Handlers, RemoveFails(h)
      PROVE  NoCompute'
  BY <1>17, HeadFacts, MineTyped, SizesAssumption DEF RemoveFails, At, Mine,
     IInv, ComputeInv, ComputeOK, NoCompute, CallInv, CallOK, Makes
<1>18. ASSUME NEW h \in Handlers, DeleteOrphan(h)
      PROVE  NoCompute'
  BY <1>18, HeadFacts, MineTyped, SizesAssumption DEF DeleteOrphan, Mine,
     Admitted, At, IInv, ComputeInv, ComputeOK, NoCompute, CallInv, CallOK,
     Makes
<1>19. ASSUME NEW h \in Handlers, DeleteBegins(h)
      PROVE  NoCompute'
  BY <1>19, HeadFacts, MineTyped, SizesAssumption DEF DeleteBegins, Mine,
     Admitted, At, IInv, ComputeInv, ComputeOK, NoCompute, CallInv, CallOK,
     Makes
<1>20. ASSUME NEW h \in Handlers, StopForDeletion(h)
      PROVE  NoCompute'
  BY <1>20, HeadFacts, MineTyped, SizesAssumption DEF StopForDeletion, At, Mine,
     Stopped, IInv, ComputeInv, ComputeOK, NoCompute, CallInv, CallOK, Makes
<1>21. ASSUME NEW h \in Handlers, CheckDetached(h)
      PROVE  NoCompute'
  BY <1>21, HeadFacts, MineTyped, SizesAssumption DEF CheckDetached, At, Mine,
     IInv, ComputeInv, ComputeOK, NoCompute, CallInv, CallOK, Makes
<1>22. ASSUME NEW h \in Handlers, Shutdown(h)
      PROVE  NoCompute'
  BY <1>22, HeadFacts, MineTyped, SizesAssumption DEF Shutdown, At, Mine,
     Stopped, IInv, ComputeInv, ComputeOK, NoCompute, CallInv, CallOK, Makes
<1>23. ASSUME NEW h \in Handlers, Interrupt(h)
      PROVE  NoCompute'
  BY <1>23, HeadFacts, MineTyped, SizesAssumption DEF Interrupt, Mine, IInv,
     ComputeInv, ComputeOK, NoCompute, CallInv, CallOK, Makes
<1>24. ASSUME NEW s \in Sessions, BootAttaches(s)
      PROVE  NoCompute'
  BY <1>24, HeadFacts, MineTyped, SizesAssumption DEF BootAttaches, IInv,
     ComputeInv, ComputeOK, NoCompute, Mine, CallInv, CallOK, Makes
<1>25. ASSUME NEW s \in Sessions, BootFails(s)
      PROVE  NoCompute'
  BY <1>25, HeadFacts, MineTyped, SizesAssumption DEF BootFails, IInv,
     ComputeInv, ComputeOK, NoCompute, Mine, CallInv, CallOK, Makes
<1>32. ASSUME NEW s \in Sessions, StrayExits(s)
      PROVE  NoCompute'
  BY <1>32, HeadFacts, MineTyped, SizesAssumption DEF StrayExits, IInv,
     ComputeInv, ComputeOK, NoCompute, Mine, CallInv, CallOK, Makes
<1>26. ASSUME NEW s \in Sessions, StartPurges(s)
      PROVE  NoCompute'
  BY <1>26, HeadFacts, MineTyped, SizesAssumption DEF StartPurges, IInv,
     ComputeInv, ComputeOK, NoCompute, Mine, CallInv, CallOK, Makes
<1>27. ASSUME NEW s \in Sessions, StartDiscards(s)
      PROVE  NoCompute'
  BY <1>27, HeadFacts, MineTyped, SizesAssumption DEF StartDiscards, IInv,
     ComputeInv, ComputeOK, NoCompute, Mine, CallInv, CallOK, Makes
<1>28. ASSUME Crash
      PROVE  NoCompute'
  BY <1>28, HeadFacts, MineTyped, SizesAssumption DEF Crash, IInv, ComputeInv,
     ComputeOK, NoCompute, Mine, CallInv, CallOK, Makes
<1>29. ASSUME StartLists
      PROVE  NoCompute'
  BY <1>29, HeadFacts, MineTyped, SizesAssumption DEF StartLists, IInv,
     ComputeInv, ComputeOK, NoCompute, Mine, CallInv, CallOK, Makes
<1>30. ASSUME StartRestores
      PROVE  NoCompute'
  BY <1>30 DEF StartRestores, IInv, DownInv, ComputeInv, NoCompute
<1>31. CASE UNCHANGED vars
  BY <1>31 DEF vars, IInv, ComputeInv, ComputeOK, NoCompute, Mine, CallInv,
     CallOK, Makes
<1> QED
  BY <1>1, <1>2, <1>3, <1>4, <1>5, <1>6, <1>7, <1>8, <1>9, <1>10, <1>11, <1>12,
     <1>13, <1>14, <1>15, <1>16, <1>17, <1>18, <1>19, <1>20, <1>21, <1>22,
     <1>23, <1>24, <1>25, <1>26, <1>27, <1>28, <1>29, <1>30, <1>31, <1>32 DEF NextCases

(* So is ComputeOK: a deletion is alone in its queue once it stopped the   *)
(* compute, so nothing boots again.                                        *)
LEMMA ComputeInductive ==
  ASSUME IInv, NextCases
  PROVE  \A g \in Handlers : ComputeOK(g)'
<1>1. ASSUME NEW h \in Handlers, NEW op \in {"create", "delete"},
             NEW s \in Sessions, NEW z \in Sizes, Begin(h, op, s, z)
      PROVE  \A g \in Handlers : ComputeOK(g)'
  <2>1. /\ Takes(h, "admit", op, s)
        /\ call'[h].size = (IF op = "create" THEN z ELSE None)
    BY <1>1, BeginTakes DEF IInv, Types
  <2>2. /\ \A g \in Handlers : g # h => call'[g] = call[g]
        /\ \/ compute' = compute
           \/ /\ Holds(h) /\ call[h].pc # "idle"
              /\ \A x \in Sessions : x # Mine(h) => compute'[x] = compute[x]
        /\ stray' = stray
    BY <1>1, <2>1, MineTyped DEF Begin, At, Keeps, Turns, Quits, Takes
  <2>3. ComputeOK(h)
    BY DEF IInv, ComputeInv
  <2>4. ComputeOK(h)'
    BY <1>1, <2>1, <2>3, MineTyped DEF Begin, At, Keeps, Turns, Quits, Takes,
       ComputeOK, Mine
  <2> QED
    BY <2>2, <2>4, OthersCompute
<1>2. ASSUME NEW h \in Handlers, NEW op \in {"start", "stop"},
             NEW s \in Sessions, BeginControl(h, op, s)
      PROVE  \A g \in Handlers : ComputeOK(g)'
  <2>1. Takes(h, "control", op, s)
    BY <1>2, BeginControlTakes DEF IInv, Types
  <2>2. /\ \A g \in Handlers : g # h => call'[g] = call[g]
        /\ \/ compute' = compute
           \/ /\ Holds(h) /\ call[h].pc # "idle"
              /\ \A x \in Sessions : x # Mine(h) => compute'[x] = compute[x]
        /\ stray' = stray
    BY <1>2, <2>1, MineTyped DEF BeginControl, At, Keeps, Turns, Quits, Takes
  <2>3. ComputeOK(h)
    BY DEF IInv, ComputeInv
  <2>4. ComputeOK(h)'
    BY <1>2, <2>1, <2>3, MineTyped DEF BeginControl, At, Keeps, Turns, Quits,
       Takes, ComputeOK, Mine
  <2> QED
    BY <2>2, <2>4, OthersCompute
<1>3. ASSUME NEW h \in Handlers, ControlStarts(h)
      PROVE  \A g \in Handlers : ComputeOK(g)'
  <2>1. Turns(h, "ready", call[h].removes)
    BY <1>3, Turning DEF IInv, Types
  <2>2. /\ \A g \in Handlers : g # h => call'[g] = call[g]
        /\ \/ compute' = compute
           \/ /\ Holds(h) /\ call[h].pc # "idle"
              /\ \A s \in Sessions : s # Mine(h) => compute'[s] = compute[s]
        /\ stray' = stray
    BY <1>3, <2>1, MineTyped DEF ControlStarts, Goto, At, Keeps, Turns, Quits,
       Takes
  <2>3. ComputeOK(h)
    BY DEF IInv, ComputeInv
  <2>4. ComputeOK(h)'
    BY <1>3, <2>1, <2>3, MineTyped DEF ControlStarts, Goto, At, Mine, Keeps,
       Turns, Quits, Takes, ComputeOK
  <2> QED
    BY <2>2, <2>4, OthersCompute
<1>4. ASSUME NEW h \in Handlers, ControlReady(h)
      PROVE  \A g \in Handlers : ComputeOK(g)'
  <2>1. Quits(h)
    BY <1>4, Turning DEF IInv, Types
  <2>2. /\ \A g \in Handlers : g # h => call'[g] = call[g]
        /\ \/ compute' = compute
           \/ /\ Holds(h) /\ call[h].pc # "idle"
              /\ \A s \in Sessions : s # Mine(h) => compute'[s] = compute[s]
        /\ stray' = stray
    BY <1>4, <2>1, MineTyped DEF ControlReady, At, Keeps, Turns, Quits, Takes
  <2>3. ComputeOK(h)
    BY DEF IInv, ComputeInv
  <2>4. ComputeOK(h)'
    BY <1>4, <2>1, <2>3, MineTyped DEF ControlReady, At, Mine, Keeps, Turns,
       Quits, Takes, ComputeOK
  <2> QED
    BY <2>2, <2>4, OthersCompute
<1>5. ASSUME NEW h \in Handlers, ControlStops(h)
      PROVE  \A g \in Handlers : ComputeOK(g)'
  <2>1. Quits(h)
    BY <1>5, Turning DEF IInv, Types
  <2>2. /\ \A g \in Handlers : g # h => call'[g] = call[g]
        /\ \/ compute' = compute
           \/ /\ Holds(h) /\ call[h].pc # "idle"
              /\ \A s \in Sessions : s # Mine(h) => compute'[s] = compute[s]
        /\ stray' = stray
    BY <1>5, <2>1, MineTyped DEF ControlStops, At, Keeps, Turns, Quits, Takes
  <2>3. ComputeOK(h)
    BY DEF IInv, ComputeInv
  <2>4. ComputeOK(h)'
    BY <1>5, <2>1, <2>3, MineTyped DEF ControlStops, At, Mine, Stopped, Keeps,
       Turns, Quits, Takes, ComputeOK
  <2> QED
    BY <2>2, <2>4, OthersCompute
<1>6. ASSUME NEW h \in Handlers, CreateAnswered(h)
      PROVE  \A g \in Handlers : ComputeOK(g)'
  <2>1. Quits(h)
    BY <1>6, Turning DEF IInv, Types
  <2>2. /\ \A g \in Handlers : g # h => call'[g] = call[g]
        /\ \/ compute' = compute
           \/ /\ Holds(h) /\ call[h].pc # "idle"
              /\ \A s \in Sessions : s # Mine(h) => compute'[s] = compute[s]
        /\ stray' = stray
    BY <1>6, <2>1, MineTyped DEF CreateAnswered, Admitted, At, Keeps, Turns,
       Quits, Takes
  <2>3. ComputeOK(h)
    BY DEF IInv, ComputeInv
  <2>4. ComputeOK(h)'
    BY <1>6, <2>1, <2>3, MineTyped DEF CreateAnswered, Mine, Admitted, At,
       Keeps, Turns, Quits, Takes, ComputeOK
  <2> QED
    BY <2>2, <2>4, OthersCompute
<1>7. ASSUME NEW h \in Handlers, CreateBegins(h)
      PROVE  \A g \in Handlers : ComputeOK(g)'
  <2>1. Turns(h, "mkdir", call[h].removes)
    BY <1>7, Turning DEF IInv, Types
  <2>2. /\ \A g \in Handlers : g # h => call'[g] = call[g]
        /\ \/ compute' = compute
           \/ /\ Holds(h) /\ call[h].pc # "idle"
              /\ \A s \in Sessions : s # Mine(h) => compute'[s] = compute[s]
        /\ stray' = stray
    BY <1>7, <2>1, MineTyped DEF CreateBegins, Admitted, At, Keeps, Turns,
       Quits, Takes
  <2>3. ComputeOK(h)
    BY DEF IInv, ComputeInv
  <2>4. ComputeOK(h)'
    BY <1>7, <2>1, <2>3, MineTyped DEF CreateBegins, Mine, Admitted, At, Keeps,
       Turns, Quits, Takes, ComputeOK
  <2> QED
    BY <2>2, <2>4, OthersCompute
<1>8. ASSUME NEW h \in Handlers, MakeDirectory(h)
      PROVE  \A g \in Handlers : ComputeOK(g)'
  <2>1. \/ Quits(h)
        \/ Turns(h, "rootsync", call[h].removes) /\ Keeps
    BY <1>8, Turning DEF IInv, Types
  <2>2. /\ \A g \in Handlers : g # h => call'[g] = call[g]
        /\ \/ compute' = compute
           \/ /\ Holds(h) /\ call[h].pc # "idle"
              /\ \A s \in Sessions : s # Mine(h) => compute'[s] = compute[s]
        /\ stray' = stray
    BY <1>8, <2>1, MineTyped DEF MakeDirectory, Goto, At, Keeps, Turns, Quits,
       Takes
  <2>3. ComputeOK(h)
    BY DEF IInv, ComputeInv
  <2>4. ComputeOK(h)'
    BY <1>8, <2>1, <2>3, MineTyped DEF MakeDirectory, Goto, At, Mine, Keeps,
       Turns, Quits, Takes, ComputeOK
  <2> QED
    BY <2>2, <2>4, OthersCompute
<1>9. ASSUME NEW h \in Handlers, SyncRoot(h)
      PROVE  \A g \in Handlers : ComputeOK(g)'
  <2>1. Turns(h, "publish", call[h].removes)
    BY <1>9, Turning DEF IInv, Types
  <2>2. /\ \A g \in Handlers : g # h => call'[g] = call[g]
        /\ \/ compute' = compute
           \/ /\ Holds(h) /\ call[h].pc # "idle"
              /\ \A s \in Sessions : s # Mine(h) => compute'[s] = compute[s]
        /\ stray' = stray
    BY <1>9, <2>1, MineTyped DEF SyncRoot, Goto, At, Keeps, Turns, Quits, Takes
  <2>3. ComputeOK(h)
    BY DEF IInv, ComputeInv
  <2>4. ComputeOK(h)'
    BY <1>9, <2>1, <2>3, MineTyped DEF SyncRoot, Goto, At, Keeps, Turns, Quits,
       Takes, ComputeOK, Mine
  <2> QED
    BY <2>2, <2>4, OthersCompute
<1>10. ASSUME NEW h \in Handlers, PublishDefinition(h)
      PROVE  \A g \in Handlers : ComputeOK(g)'
  <2>1. Turns(h, "defsync", call[h].removes)
    BY <1>10, Turning DEF IInv, Types
  <2>2. /\ \A g \in Handlers : g # h => call'[g] = call[g]
        /\ \/ compute' = compute
           \/ /\ Holds(h) /\ call[h].pc # "idle"
              /\ \A s \in Sessions : s # Mine(h) => compute'[s] = compute[s]
        /\ stray' = stray
    BY <1>10, <2>1, MineTyped DEF PublishDefinition, Goto, At, Keeps, Turns,
       Quits, Takes
  <2>3. ComputeOK(h)
    BY DEF IInv, ComputeInv
  <2>4. ComputeOK(h)'
    BY <1>10, <2>1, <2>3, MineTyped DEF PublishDefinition, Goto, At, Mine,
       Keeps, Turns, Quits, Takes, ComputeOK
  <2> QED
    BY <2>2, <2>4, OthersCompute
<1>11. ASSUME NEW h \in Handlers, Created(h)
      PROVE  \A g \in Handlers : ComputeOK(g)'
  <2>1. Quits(h)
    BY <1>11, Turning DEF IInv, Types
  <2>2. /\ \A g \in Handlers : g # h => call'[g] = call[g]
        /\ \/ compute' = compute
           \/ /\ Holds(h) /\ call[h].pc # "idle"
              /\ \A s \in Sessions : s # Mine(h) => compute'[s] = compute[s]
        /\ stray' = stray
    BY <1>11, <2>1, MineTyped DEF Created, At, Keeps, Turns, Quits, Takes
  <2>3. ComputeOK(h)
    BY DEF IInv, ComputeInv
  <2>4. ComputeOK(h)'
    BY <1>11, <2>1, <2>3, MineTyped DEF Created, At, Mine, Keeps, Turns, Quits,
       Takes, ComputeOK
  <2> QED
    BY <2>2, <2>4, OthersCompute
<1>12. ASSUME NEW h \in Handlers, CreateFails(h)
      PROVE  \A g \in Handlers : ComputeOK(g)'
  <2>1. \/ call[h].pc = "mkdir" /\ Quits(h)
        \/ call[h].pc # "mkdir" /\ Turns(h, "rename", "undo") /\ Keeps
    BY <1>12, CreateFailsTurns DEF IInv, Types
  <2>2. /\ \A g \in Handlers : g # h => call'[g] = call[g]
        /\ \/ compute' = compute
           \/ /\ Holds(h) /\ call[h].pc # "idle"
              /\ \A s \in Sessions : s # Mine(h) => compute'[s] = compute[s]
        /\ stray' = stray
    BY <1>12, <2>1, MineTyped DEF CreateFails, At, Keeps, Turns, Quits, Takes
  <2>3. ComputeOK(h)
    BY DEF IInv, ComputeInv
  <2>4. ComputeOK(h)'
    BY <1>12, <2>1, <2>3, MineTyped DEF CreateFails, At, Mine, Keeps, Turns,
       Quits, Takes, ComputeOK
  <2> QED
    BY <2>2, <2>4, OthersCompute
<1>13. ASSUME NEW h \in Handlers, MoveAway(h)
      PROVE  \A g \in Handlers : ComputeOK(g)'
  <2>1. \/ Turns(h, "dirsync", call[h].removes)
        \/ Turns(h, "purge", call[h].removes)
    BY <1>13, Turning DEF IInv, Types
  <2>2. /\ \A g \in Handlers : g # h => call'[g] = call[g]
        /\ \/ compute' = compute
           \/ /\ Holds(h) /\ call[h].pc # "idle"
              /\ \A s \in Sessions : s # Mine(h) => compute'[s] = compute[s]
        /\ stray' = stray
    BY <1>13, <2>1, MineTyped DEF MoveAway, Goto, At, Keeps, Turns, Quits, Takes
  <2>3. ComputeOK(h)
    BY DEF IInv, ComputeInv
  <2>4. ComputeOK(h)'
    BY <1>13, <2>1, <2>3, MineTyped DEF MoveAway, Goto, At, Mine, Keeps, Turns,
       Quits, Takes, ComputeOK
  <2> QED
    BY <2>2, <2>4, OthersCompute
<1>14. ASSUME NEW h \in Handlers, SyncMove(h)
      PROVE  \A g \in Handlers : ComputeOK(g)'
  <2>1. Turns(h, "purge", call[h].removes)
    BY <1>14, Turning DEF IInv, Types
  <2>2. /\ \A g \in Handlers : g # h => call'[g] = call[g]
        /\ \/ compute' = compute
           \/ /\ Holds(h) /\ call[h].pc # "idle"
              /\ \A s \in Sessions : s # Mine(h) => compute'[s] = compute[s]
        /\ stray' = stray
    BY <1>14, <2>1, MineTyped DEF SyncMove, Goto, At, Keeps, Turns, Quits, Takes
  <2>3. ComputeOK(h)
    BY DEF IInv, ComputeInv
  <2>4. ComputeOK(h)'
    BY <1>14, <2>1, <2>3, MineTyped DEF SyncMove, Goto, At, Keeps, Turns, Quits,
       Takes, ComputeOK, Mine
  <2> QED
    BY <2>2, <2>4, OthersCompute
<1>15. ASSUME NEW h \in Handlers, Purge(h)
      PROVE  \A g \in Handlers : ComputeOK(g)'
  <2>1. Turns(h, "purgesync", call[h].removes)
    BY <1>15, Turning DEF IInv, Types
  <2>2. /\ \A g \in Handlers : g # h => call'[g] = call[g]
        /\ \/ compute' = compute
           \/ /\ Holds(h) /\ call[h].pc # "idle"
              /\ \A s \in Sessions : s # Mine(h) => compute'[s] = compute[s]
        /\ stray' = stray
    BY <1>15, <2>1, MineTyped DEF Purge, Goto, At, Keeps, Turns, Quits, Takes
  <2>3. ComputeOK(h)
    BY DEF IInv, ComputeInv
  <2>4. ComputeOK(h)'
    BY <1>15, <2>1, <2>3, MineTyped DEF Purge, Goto, At, Mine, Keeps, Turns,
       Quits, Takes, ComputeOK
  <2> QED
    BY <2>2, <2>4, OthersCompute
<1>16. ASSUME NEW h \in Handlers, Removed(h)
      PROVE  \A g \in Handlers : ComputeOK(g)'
  <2>1. Quits(h)
    BY <1>16, Turning DEF IInv, Types
  <2>2. /\ \A g \in Handlers : g # h => call'[g] = call[g]
        /\ \/ compute' = compute
           \/ /\ Holds(h) /\ call[h].pc # "idle"
              /\ \A s \in Sessions : s # Mine(h) => compute'[s] = compute[s]
        /\ stray' = stray
    BY <1>16, <2>1, MineTyped DEF Removed, At, Keeps, Turns, Quits, Takes
  <2>3. ComputeOK(h)
    BY DEF IInv, ComputeInv
  <2>4. ComputeOK(h)'
    BY <1>16, <2>1, <2>3, MineTyped DEF Removed, At, Mine, Keeps, Turns, Quits,
       Takes, ComputeOK
  <2> QED
    BY <2>2, <2>4, OthersCompute
<1>17. ASSUME NEW h \in Handlers, RemoveFails(h)
      PROVE  \A g \in Handlers : ComputeOK(g)'
  <2>1. Quits(h)
    BY <1>17, Turning DEF IInv, Types
  <2>2. /\ \A g \in Handlers : g # h => call'[g] = call[g]
        /\ \/ compute' = compute
           \/ /\ Holds(h) /\ call[h].pc # "idle"
              /\ \A s \in Sessions : s # Mine(h) => compute'[s] = compute[s]
        /\ stray' = stray
    BY <1>17, <2>1, MineTyped DEF RemoveFails, At, Keeps, Turns, Quits, Takes
  <2>3. ComputeOK(h)
    BY DEF IInv, ComputeInv
  <2>4. ComputeOK(h)'
    BY <1>17, <2>1, <2>3, MineTyped DEF RemoveFails, At, Mine, Keeps, Turns,
       Quits, Takes, ComputeOK
  <2> QED
    BY <2>2, <2>4, OthersCompute
<1>18. ASSUME NEW h \in Handlers, DeleteOrphan(h)
      PROVE  \A g \in Handlers : ComputeOK(g)'
  <2>1. Turns(h, "rename", "orphan")
    BY <1>18, Turning DEF IInv, Types
  <2>2. /\ \A g \in Handlers : g # h => call'[g] = call[g]
        /\ \/ compute' = compute
           \/ /\ Holds(h) /\ call[h].pc # "idle"
              /\ \A s \in Sessions : s # Mine(h) => compute'[s] = compute[s]
        /\ stray' = stray
    BY <1>18, <2>1, MineTyped DEF DeleteOrphan, Admitted, At, Keeps, Turns,
       Quits, Takes
  <2>3. ComputeOK(h)
    BY DEF IInv, ComputeInv
  <2>4. ComputeOK(h)'
    BY <1>18, <2>1, <2>3, MineTyped DEF DeleteOrphan, Mine, Admitted, At, Keeps,
       Turns, Quits, Takes, ComputeOK
  <2> QED
    BY <2>2, <2>4, OthersCompute
<1>19. ASSUME NEW h \in Handlers, DeleteBegins(h)
      PROVE  \A g \in Handlers : ComputeOK(g)'
  <2>1. Turns(h, "stop", call[h].removes)
    BY <1>19, Turning DEF IInv, Types
  <2>2. /\ \A g \in Handlers : g # h => call'[g] = call[g]
        /\ \/ compute' = compute
           \/ /\ Holds(h) /\ call[h].pc # "idle"
              /\ \A s \in Sessions : s # Mine(h) => compute'[s] = compute[s]
        /\ stray' = stray
    BY <1>19, <2>1, MineTyped DEF DeleteBegins, Admitted, At, Keeps, Turns,
       Quits, Takes
  <2>3. ComputeOK(h)
    BY DEF IInv, ComputeInv
  <2>4. ComputeOK(h)'
    BY <1>19, <2>1, <2>3, MineTyped DEF DeleteBegins, Mine, Admitted, At, Keeps,
       Turns, Quits, Takes, ComputeOK
  <2> QED
    BY <2>2, <2>4, OthersCompute
<1>20. ASSUME NEW h \in Handlers, StopForDeletion(h)
      PROVE  \A g \in Handlers : ComputeOK(g)'
  <2>1. \/ Quits(h)
        \/ /\ Turns(h, "check", call[h].removes)
           /\ commands' = Released(h)
           /\ compute' = [compute EXCEPT ![Mine(h)] = "stopped"]
           /\ UNCHANGED <<admission, deleting, told>>
    BY <1>20, Turning DEF IInv, Types
  <2>2. /\ \A g \in Handlers : g # h => call'[g] = call[g]
        /\ \/ compute' = compute
           \/ /\ Holds(h) /\ call[h].pc # "idle"
              /\ \A s \in Sessions : s # Mine(h) => compute'[s] = compute[s]
        /\ stray' = stray
    BY <1>20, <2>1, MineTyped DEF StopForDeletion, At, Keeps, Turns, Quits,
       Takes
  <2>3. ComputeOK(h)
    BY DEF IInv, ComputeInv
  <2>4. ComputeOK(h)'
    BY <1>20, <2>1, <2>3, MineTyped DEF StopForDeletion, At, Mine, Stopped,
       Keeps, Turns, Quits, Takes, ComputeOK
  <2> QED
    BY <2>2, <2>4, OthersCompute
<1>21. ASSUME NEW h \in Handlers, CheckDetached(h)
      PROVE  \A g \in Handlers : ComputeOK(g)'
  <2>1. \/ Quits(h)
        \/ /\ Turns(h, "shutdown", call[h].removes)
           /\ Enqueued(h) /\ UNCHANGED <<admission, deleting, told>>
    BY <1>21, Turning DEF IInv, Types
  <2>2. /\ \A g \in Handlers : g # h => call'[g] = call[g]
        /\ \/ compute' = compute
           \/ /\ Holds(h) /\ call[h].pc # "idle"
              /\ \A s \in Sessions : s # Mine(h) => compute'[s] = compute[s]
        /\ stray' = stray
    BY <1>21, <2>1, MineTyped DEF CheckDetached, At, Keeps, Turns, Quits, Takes
  <2>3. ComputeOK(h)
    BY DEF IInv, ComputeInv
  <2>4. ComputeOK(h)'
    BY <1>21, <2>1, <2>3, MineTyped DEF CheckDetached, Detached, Reply, Idle,
       At, Mine, Keeps, Turns, Quits, Takes, ComputeOK
  <2> QED
    BY <2>2, <2>4, OthersCompute
<1>22. ASSUME NEW h \in Handlers, Shutdown(h)
      PROVE  \A g \in Handlers : ComputeOK(g)'
  <2>1. Turns(h, "rename", "deletion")
    BY <1>22, Turning DEF IInv, Types
  <2>2. /\ \A g \in Handlers : g # h => call'[g] = call[g]
        /\ \/ compute' = compute
           \/ /\ Holds(h) /\ call[h].pc # "idle"
              /\ \A s \in Sessions : s # Mine(h) => compute'[s] = compute[s]
        /\ stray' = stray
    BY <1>22, <2>1, MineTyped DEF Shutdown, At, Keeps, Turns, Quits, Takes
  <2>3. ComputeOK(h)
    BY DEF IInv, ComputeInv
  <2>4. ComputeOK(h)'
    BY <1>22, <2>1, <2>3, MineTyped DEF Shutdown, At, Mine, Stopped, Keeps,
       Turns, Quits, Takes, ComputeOK
  <2> QED
    BY <2>2, <2>4, OthersCompute
<1>23. ASSUME NEW h \in Handlers, Interrupt(h)
      PROVE  \A g \in Handlers : ComputeOK(g)'
  <2>1. \/ Quits(h)
        \/ call[h].pc \in Makes /\ Turns(h, "rename", "undo") /\ Keeps
    BY <1>23, InterruptTurns DEF IInv, Types
  <2>2. /\ \A g \in Handlers : g # h => call'[g] = call[g]
        /\ \/ compute' = compute
           \/ /\ Holds(h) /\ call[h].pc # "idle"
              /\ \A s \in Sessions : s # Mine(h) => compute'[s] = compute[s]
        /\ stray' = stray
    BY <1>23, <2>1, MineTyped DEF Interrupt, Keeps, Turns, Quits, Takes
  <2>3. ComputeOK(h)
    BY DEF IInv, ComputeInv
  <2>4. ComputeOK(h)'
    BY <1>23, <2>1, <2>3, MineTyped DEF Interrupt, Mine, Keeps, Turns, Quits,
       Takes, ComputeOK
  <2> QED
    BY <2>2, <2>4, OthersCompute
<1>24. ASSUME NEW s \in Sessions, BootAttaches(s)
      PROVE  \A g \in Handlers : ComputeOK(g)'
  BY <1>24, MineTyped DEF BootAttaches, IInv, ComputeInv, ComputeOK
<1>25. ASSUME NEW s \in Sessions, BootFails(s)
      PROVE  \A g \in Handlers : ComputeOK(g)'
  BY <1>25, MineTyped DEF BootFails, IInv, ComputeInv, ComputeOK
<1>32. ASSUME NEW s \in Sessions, StrayExits(s)
      PROVE  \A g \in Handlers : ComputeOK(g)'
  BY <1>32, MineTyped DEF StrayExits, IInv, ComputeInv, ComputeOK
<1>26. ASSUME NEW s \in Sessions, StartPurges(s)
      PROVE  \A g \in Handlers : ComputeOK(g)'
  BY <1>26, MineTyped DEF StartPurges, IInv, ComputeInv, ComputeOK
<1>27. ASSUME NEW s \in Sessions, StartDiscards(s)
      PROVE  \A g \in Handlers : ComputeOK(g)'
  BY <1>27, MineTyped DEF StartDiscards, IInv, ComputeInv, ComputeOK
<1>28. ASSUME Crash
      PROVE  \A g \in Handlers : ComputeOK(g)'
  BY <1>28 DEF Crash, ComputeOK, Idle
<1>29. ASSUME StartLists
      PROVE  \A g \in Handlers : ComputeOK(g)'
  BY <1>29, MineTyped DEF StartLists, IInv, ComputeInv, ComputeOK
<1>30. ASSUME StartRestores
      PROVE  \A g \in Handlers : ComputeOK(g)'
  BY <1>30 DEF StartRestores, IInv, DownInv, ComputeOK
<1>31. CASE UNCHANGED vars
  BY <1>31 DEF vars, IInv, ComputeInv, ComputeOK
<1> QED
  BY <1>1, <1>2, <1>3, <1>4, <1>5, <1>6, <1>7, <1>8, <1>9, <1>10, <1>11, <1>12,
     <1>13, <1>14, <1>15, <1>16, <1>17, <1>18, <1>19, <1>20, <1>21, <1>22,
     <1>23, <1>24, <1>25, <1>26, <1>27, <1>28, <1>29, <1>30, <1>31, <1>32 DEF NextCases

-----------------------------------------------------------------------------
(* The work of calls on the storage.                                       *)

LEMMA OthersWork ==
  ASSUME IInv, NEW h \in Handlers, NEW g \in Handlers, g # h, call'[g] = call[g],
         files' = files \/ call[h].pc \in Serves
  PROVE  WorkOK(g)'
<1>1. WorkOK(g) /\ (call[g].pc \in Serves => admission = g)
  BY DEF IInv, WorkInv, CallInv
<1>2. call[h].pc \in Serves => admission = h
  BY DEF IInv, CallInv
<1> QED
  BY <1>1, <1>2 DEF WorkOK, Serves, Makes, Removes

(* The storages a handler writes, by its call's session.                   *)
LEMMA MineFields ==
  ASSUME IInv, NEW h \in Handlers, call[h].pc # "idle"
  PROVE  /\ files \in [Sessions -> Storage]
         /\ call[h].session \in Sessions
         /\ WithDirectory(call[h].session).dir
         /\ ~Refused(call[h].session) /\ files[call[h].session].dir =>
               ~Queued(call[h].session).dir
         /\ Purged(call[h].session).dir = files[call[h].session].dir
         /\ call[h].pc = "publish" =>
               /\ WithDefinition(call[h].session, call[h].size).dir
                     = files[call[h].session].dir
               /\ WithDefinition(call[h].session, call[h].size).def # None
<1>1. call[h].session \in Sessions /\ FilesType
  BY MineTyped DEF IInv, Types
<1>2. call[h].pc = "publish" => call[h].size \in Sizes /\ call[h].size # None
  BY SizesAssumption DEF IInv, CallInv, CallOK, Makes
<1>3. Purged(call[h].session) = Emptied(call[h].session, FALSE)
  BY DEF Purged, Emptied
<1> QED
  BY <1>1, <1>2, <1>3, StorageFields DEF FilesType

(* WorkInv is inductive.                                                   *)
LEMMA WorkInductive ==
  ASSUME IInv, NextCases
  PROVE  \A g \in Handlers : WorkOK(g)'
<1>1. ASSUME NEW h \in Handlers, NEW op \in {"create", "delete"},
             NEW s \in Sessions, NEW z \in Sizes, Begin(h, op, s, z)
      PROVE  \A g \in Handlers : WorkOK(g)'
  <2>1. /\ Takes(h, "admit", op, s)
        /\ call'[h].size = (IF op = "create" THEN z ELSE None)
    BY <1>1, BeginTakes DEF IInv, Types
  <2>2. /\ \A g \in Handlers : g # h => call'[g] = call[g]
        /\ files' = files \/ call[h].pc \in Serves
    BY <1>1, <2>1 DEF Begin, At, Keeps, Turns, Quits, Takes, Makes, Removes,
       Ends, Serves
  <2>3. WorkOK(h)
    BY DEF IInv, WorkInv
  <2>4. WorkOK(h)'
    BY <1>1, <2>1, <2>3 DEF Begin, At, Keeps, Turns, Quits, Takes, WorkOK,
       Makes, Removes, Ends, Serves, Mine
  <2> QED
    BY <2>2, <2>4, OthersWork
<1>2. ASSUME NEW h \in Handlers, NEW op \in {"start", "stop"},
             NEW s \in Sessions, BeginControl(h, op, s)
      PROVE  \A g \in Handlers : WorkOK(g)'
  <2>1. Takes(h, "control", op, s)
    BY <1>2, BeginControlTakes DEF IInv, Types
  <2>2. /\ \A g \in Handlers : g # h => call'[g] = call[g]
        /\ files' = files \/ call[h].pc \in Serves
    BY <1>2, <2>1 DEF BeginControl, At, Keeps, Turns, Quits, Takes, Makes,
       Removes, Ends, Serves
  <2>3. WorkOK(h)
    BY DEF IInv, WorkInv
  <2>4. WorkOK(h)'
    BY <1>2, <2>1, <2>3 DEF BeginControl, At, Keeps, Turns, Quits, Takes,
       WorkOK, Makes, Removes, Ends, Serves, Mine
  <2> QED
    BY <2>2, <2>4, OthersWork
<1>3. ASSUME NEW h \in Handlers, ControlStarts(h)
      PROVE  \A g \in Handlers : WorkOK(g)'
  <2>1. Turns(h, "ready", call[h].removes)
    BY <1>3, Turning DEF IInv, Types
  <2>2. /\ \A g \in Handlers : g # h => call'[g] = call[g]
        /\ files' = files \/ call[h].pc \in Serves
    BY <1>3, <2>1 DEF ControlStarts, Goto, At, Holds, Keeps, Turns, Quits,
       Takes, Makes, Removes, Ends, Serves
  <2>3. WorkOK(h)
    BY DEF IInv, WorkInv
  <2>4. WorkOK(h)'
    BY <1>3, <2>1, <2>3 DEF ControlStarts, Goto, At, Mine, Holds, Keeps, Turns,
       Quits, Takes, WorkOK, Makes, Removes, Ends, Serves
  <2> QED
    BY <2>2, <2>4, OthersWork
<1>4. ASSUME NEW h \in Handlers, ControlReady(h)
      PROVE  \A g \in Handlers : WorkOK(g)'
  <2>1. Quits(h)
    BY <1>4, Turning DEF IInv, Types
  <2>2. /\ \A g \in Handlers : g # h => call'[g] = call[g]
        /\ files' = files \/ call[h].pc \in Serves
    BY <1>4, <2>1 DEF ControlReady, At, Keeps, Turns, Quits, Takes, Makes,
       Removes, Ends, Serves
  <2>3. WorkOK(h)
    BY DEF IInv, WorkInv
  <2>4. WorkOK(h)'
    BY <1>4, <2>1, <2>3 DEF ControlReady, At, Mine, Keeps, Turns, Quits, Takes,
       WorkOK, Makes, Removes, Ends, Serves
  <2> QED
    BY <2>2, <2>4, OthersWork
<1>5. ASSUME NEW h \in Handlers, ControlStops(h)
      PROVE  \A g \in Handlers : WorkOK(g)'
  <2>1. Quits(h)
    BY <1>5, Turning DEF IInv, Types
  <2>2. /\ \A g \in Handlers : g # h => call'[g] = call[g]
        /\ files' = files \/ call[h].pc \in Serves
    BY <1>5, <2>1 DEF ControlStops, At, Holds, Keeps, Turns, Quits, Takes,
       Makes, Removes, Ends, Serves
  <2>3. WorkOK(h)
    BY DEF IInv, WorkInv
  <2>4. WorkOK(h)'
    BY <1>5, <2>1, <2>3 DEF ControlStops, At, Mine, Holds, Keeps, Turns, Quits,
       Takes, WorkOK, Makes, Removes, Ends, Serves
  <2> QED
    BY <2>2, <2>4, OthersWork
<1>6. ASSUME NEW h \in Handlers, CreateAnswered(h)
      PROVE  \A g \in Handlers : WorkOK(g)'
  <2>1. Quits(h)
    BY <1>6, Turning DEF IInv, Types
  <2>2. /\ \A g \in Handlers : g # h => call'[g] = call[g]
        /\ files' = files \/ call[h].pc \in Serves
    BY <1>6, <2>1 DEF CreateAnswered, Admitted, At, Keeps, Turns, Quits, Takes,
       Makes, Removes, Ends, Serves
  <2>3. WorkOK(h)
    BY DEF IInv, WorkInv
  <2>4. WorkOK(h)'
    BY <1>6, <2>1, <2>3 DEF CreateAnswered, Mine, Admitted, At, Keeps, Turns,
       Quits, Takes, WorkOK, Makes, Removes, Ends, Serves
  <2> QED
    BY <2>2, <2>4, OthersWork
<1>7. ASSUME NEW h \in Handlers, CreateBegins(h)
      PROVE  \A g \in Handlers : WorkOK(g)'
  <2>1. Turns(h, "mkdir", call[h].removes)
    BY <1>7, Turning DEF IInv, Types
  <2>2. /\ \A g \in Handlers : g # h => call'[g] = call[g]
        /\ files' = files \/ call[h].pc \in Serves
    BY <1>7, <2>1 DEF CreateBegins, Admitted, At, Keeps, Turns, Quits, Takes,
       Makes, Removes, Ends, Serves
  <2>3. WorkOK(h)
    BY DEF IInv, WorkInv
  <2>4. WorkOK(h)'
    BY <1>7, <2>1, <2>3 DEF CreateBegins, Mine, Admitted, At, Keeps, Turns,
       Quits, Takes, WorkOK, Makes, Removes, Ends, Serves
  <2> QED
    BY <2>2, <2>4, OthersWork
<1>8. ASSUME NEW h \in Handlers, MakeDirectory(h)
      PROVE  \A g \in Handlers : WorkOK(g)'
  <2>1. \/ Quits(h)
        \/ Turns(h, "rootsync", call[h].removes) /\ Keeps
    BY <1>8, Turning DEF IInv, Types
  <2>2. /\ \A g \in Handlers : g # h => call'[g] = call[g]
        /\ files' = files \/ call[h].pc \in Serves
    BY <1>8, <2>1 DEF MakeDirectory, Goto, At, Keeps, Turns, Quits, Takes,
       Makes, Removes, Ends, Serves
  <2>3. WorkOK(h)
    BY DEF IInv, WorkInv
  <2>4. WorkOK(h)'
    <3>1. CASE Quits(h)
      BY <3>1 DEF Quits, WorkOK
    <3>2. CASE Turns(h, "rootsync", call[h].removes)
      <4>1. CASE files[Mine(h)].dir
        BY <1>8, <3>2, <4>1 DEF MakeDirectory, Mine, Turns, WorkOK
      <4>2. CASE ~files[Mine(h)].dir
        <5>1. files' = [files EXCEPT ![Mine(h)] = WithDirectory(Mine(h))]
          BY <1>8, <4>2 DEF MakeDirectory, Write, WithDirectory
        <5>2. files'[Mine(h)].dir
          BY <1>8, <5>1, MineFields DEF MakeDirectory, At, Mine
        <5> QED
          BY <3>2, <5>2 DEF Mine, Turns, WorkOK
      <4> QED
        BY <4>1, <4>2
    <3> QED
      BY <2>1, <3>1, <3>2
  <2> QED
    BY <2>2, <2>4, OthersWork
<1>9. ASSUME NEW h \in Handlers, SyncRoot(h)
      PROVE  \A g \in Handlers : WorkOK(g)'
  <2>1. Turns(h, "publish", call[h].removes)
    BY <1>9, Turning DEF IInv, Types
  <2>2. /\ \A g \in Handlers : g # h => call'[g] = call[g]
        /\ files' = files \/ call[h].pc \in Serves
    BY <1>9, <2>1 DEF SyncRoot, Goto, At, Sync, Keeps, Turns, Quits, Takes,
       Makes, Removes, Ends, Serves
  <2>3. WorkOK(h)
    BY DEF IInv, WorkInv
  <2>4. WorkOK(h)'
    BY <1>9, <2>1, <2>3 DEF SyncRoot, Goto, At, Sync, Keeps, Turns, Quits,
       Takes, WorkOK, Makes, Removes, Ends, Serves, Mine
  <2> QED
    BY <2>2, <2>4, OthersWork
<1>10. ASSUME NEW h \in Handlers, PublishDefinition(h)
      PROVE  \A g \in Handlers : WorkOK(g)'
  <2>1. Turns(h, "defsync", call[h].removes)
    BY <1>10, Turning DEF IInv, Types
  <2>2. /\ \A g \in Handlers : g # h => call'[g] = call[g]
        /\ files' = files \/ call[h].pc \in Serves
    BY <1>10, <2>1 DEF PublishDefinition, Goto, At, Keeps, Turns, Quits, Takes,
       Makes, Removes, Ends, Serves
  <2>3. WorkOK(h)
    BY DEF IInv, WorkInv
  <2>4. WorkOK(h)'
    BY <1>10, <2>1, <2>3, MineFields DEF PublishDefinition, Goto, At, Mine,
       Write, Keeps, Turns, Quits, Takes, WorkOK, Makes, Removes, Ends, Serves,
       WithDefinition
  <2> QED
    BY <2>2, <2>4, OthersWork
<1>11. ASSUME NEW h \in Handlers, Created(h)
      PROVE  \A g \in Handlers : WorkOK(g)'
  <2>1. Quits(h)
    BY <1>11, Turning DEF IInv, Types
  <2>2. /\ \A g \in Handlers : g # h => call'[g] = call[g]
        /\ files' = files \/ call[h].pc \in Serves
    BY <1>11, <2>1 DEF Created, At, Sync, Keeps, Turns, Quits, Takes, Makes,
       Removes, Ends, Serves
  <2>3. WorkOK(h)
    BY DEF IInv, WorkInv
  <2>4. WorkOK(h)'
    BY <1>11, <2>1, <2>3 DEF Created, At, Mine, Sync, Keeps, Turns, Quits,
       Takes, WorkOK, Makes, Removes, Ends, Serves
  <2> QED
    BY <2>2, <2>4, OthersWork
<1>12. ASSUME NEW h \in Handlers, CreateFails(h)
      PROVE  \A g \in Handlers : WorkOK(g)'
  <2>1. \/ call[h].pc = "mkdir" /\ Quits(h)
        \/ call[h].pc # "mkdir" /\ Turns(h, "rename", "undo") /\ Keeps
    BY <1>12, CreateFailsTurns DEF IInv, Types
  <2>2. /\ \A g \in Handlers : g # h => call'[g] = call[g]
        /\ files' = files \/ call[h].pc \in Serves
    BY <1>12, <2>1 DEF CreateFails, At, Keeps, Turns, Quits, Takes, Makes,
       Removes, Ends, Serves
  <2>3. WorkOK(h)
    BY DEF IInv, WorkInv
  <2>4. WorkOK(h)'
    BY <1>12, <2>1, <2>3 DEF CreateFails, At, Mine, Keeps, Turns, Quits, Takes,
       WorkOK, Makes, Removes, Ends, Serves
  <2> QED
    BY <2>2, <2>4, OthersWork
<1>13. ASSUME NEW h \in Handlers, MoveAway(h)
      PROVE  \A g \in Handlers : WorkOK(g)'
  <2>1. \/ Turns(h, "dirsync", call[h].removes)
        \/ Turns(h, "purge", call[h].removes)
    BY <1>13, Turning DEF IInv, Types
  <2>2. /\ \A g \in Handlers : g # h => call'[g] = call[g]
        /\ files' = files \/ call[h].pc \in Serves
    BY <1>13, <2>1 DEF MoveAway, Goto, At, Keeps, Turns, Quits, Takes, Makes,
       Removes, Ends, Serves
  <2>3. WorkOK(h)
    BY DEF IInv, WorkInv
  <2>4. WorkOK(h)'
    BY <1>13, <2>1, <2>3, MineFields DEF MoveAway, Goto, At, Mine, Write, Keeps,
       Turns, Quits, Takes, WorkOK, Makes, Removes, Ends, Serves
  <2> QED
    BY <2>2, <2>4, OthersWork
<1>14. ASSUME NEW h \in Handlers, SyncMove(h)
      PROVE  \A g \in Handlers : WorkOK(g)'
  <2>1. Turns(h, "purge", call[h].removes)
    BY <1>14, Turning DEF IInv, Types
  <2>2. /\ \A g \in Handlers : g # h => call'[g] = call[g]
        /\ files' = files \/ call[h].pc \in Serves
    BY <1>14, <2>1 DEF SyncMove, Goto, At, Sync, Keeps, Turns, Quits, Takes,
       Makes, Removes, Ends, Serves
  <2>3. WorkOK(h)
    BY DEF IInv, WorkInv
  <2>4. WorkOK(h)'
    BY <1>14, <2>1, <2>3 DEF SyncMove, Goto, At, Sync, Keeps, Turns, Quits,
       Takes, WorkOK, Makes, Removes, Ends, Serves, Mine
  <2> QED
    BY <2>2, <2>4, OthersWork
<1>15. ASSUME NEW h \in Handlers, Purge(h)
      PROVE  \A g \in Handlers : WorkOK(g)'
  <2>1. Turns(h, "purgesync", call[h].removes)
    BY <1>15, Turning DEF IInv, Types
  <2>2. /\ \A g \in Handlers : g # h => call'[g] = call[g]
        /\ files' = files \/ call[h].pc \in Serves
    BY <1>15, <2>1 DEF Purge, Goto, At, Keeps, Turns, Quits, Takes, Makes,
       Removes, Ends, Serves
  <2>3. WorkOK(h)
    BY DEF IInv, WorkInv
  <2>4. WorkOK(h)'
    BY <1>15, <2>1, <2>3, MineFields DEF Purge, Goto, At, Mine, Write, Keeps,
       Turns, Quits, Takes, WorkOK, Makes, Removes, Ends, Serves, Purged
  <2> QED
    BY <2>2, <2>4, OthersWork
<1>16. ASSUME NEW h \in Handlers, Removed(h)
      PROVE  \A g \in Handlers : WorkOK(g)'
  <2>1. Quits(h)
    BY <1>16, Turning DEF IInv, Types
  <2>2. /\ \A g \in Handlers : g # h => call'[g] = call[g]
        /\ files' = files \/ call[h].pc \in Serves
    BY <1>16, <2>1 DEF Removed, At, Sync, Keeps, Turns, Quits, Takes, Makes,
       Removes, Ends, Serves
  <2>3. WorkOK(h)
    BY DEF IInv, WorkInv
  <2>4. WorkOK(h)'
    BY <1>16, <2>1, <2>3 DEF Removed, At, Mine, Sync, Keeps, Turns, Quits,
       Takes, WorkOK, Makes, Removes, Ends, Serves
  <2> QED
    BY <2>2, <2>4, OthersWork
<1>17. ASSUME NEW h \in Handlers, RemoveFails(h)
      PROVE  \A g \in Handlers : WorkOK(g)'
  <2>1. Quits(h)
    BY <1>17, Turning DEF IInv, Types
  <2>2. /\ \A g \in Handlers : g # h => call'[g] = call[g]
        /\ files' = files \/ call[h].pc \in Serves
    BY <1>17, <2>1 DEF RemoveFails, At, Keeps, Turns, Quits, Takes, Makes,
       Removes, Ends, Serves
  <2>3. WorkOK(h)
    BY DEF IInv, WorkInv
  <2>4. WorkOK(h)'
    BY <1>17, <2>1, <2>3 DEF RemoveFails, At, Mine, Keeps, Turns, Quits, Takes,
       WorkOK, Makes, Removes, Ends, Serves
  <2> QED
    BY <2>2, <2>4, OthersWork
<1>18. ASSUME NEW h \in Handlers, DeleteOrphan(h)
      PROVE  \A g \in Handlers : WorkOK(g)'
  <2>1. Turns(h, "rename", "orphan")
    BY <1>18, Turning DEF IInv, Types
  <2>2. /\ \A g \in Handlers : g # h => call'[g] = call[g]
        /\ files' = files \/ call[h].pc \in Serves
    BY <1>18, <2>1 DEF DeleteOrphan, Admitted, At, Keeps, Turns, Quits, Takes,
       Makes, Removes, Ends, Serves
  <2>3. WorkOK(h)
    BY DEF IInv, WorkInv
  <2>4. WorkOK(h)'
    BY <1>18, <2>1, <2>3 DEF DeleteOrphan, Mine, Admitted, At, Keeps, Turns,
       Quits, Takes, WorkOK, Makes, Removes, Ends, Serves
  <2> QED
    BY <2>2, <2>4, OthersWork
<1>19. ASSUME NEW h \in Handlers, DeleteBegins(h)
      PROVE  \A g \in Handlers : WorkOK(g)'
  <2>1. Turns(h, "stop", call[h].removes)
    BY <1>19, Turning DEF IInv, Types
  <2>2. /\ \A g \in Handlers : g # h => call'[g] = call[g]
        /\ files' = files \/ call[h].pc \in Serves
    BY <1>19, <2>1 DEF DeleteBegins, Admitted, At, Keeps, Turns, Quits, Takes,
       Makes, Removes, Ends, Serves
  <2>3. WorkOK(h)
    BY DEF IInv, WorkInv
  <2>4. WorkOK(h)'
    BY <1>19, <2>1, <2>3 DEF DeleteBegins, Mine, Admitted, At, Keeps, Turns,
       Quits, Takes, WorkOK, Makes, Removes, Ends, Serves
  <2> QED
    BY <2>2, <2>4, OthersWork
<1>20. ASSUME NEW h \in Handlers, StopForDeletion(h)
      PROVE  \A g \in Handlers : WorkOK(g)'
  <2>1. \/ Quits(h)
        \/ /\ Turns(h, "check", call[h].removes)
           /\ commands' = Released(h)
           /\ compute' = [compute EXCEPT ![Mine(h)] = "stopped"]
           /\ UNCHANGED <<admission, deleting, told>>
    BY <1>20, Turning DEF IInv, Types
  <2>2. /\ \A g \in Handlers : g # h => call'[g] = call[g]
        /\ files' = files \/ call[h].pc \in Serves
    BY <1>20, <2>1 DEF StopForDeletion, At, Holds, Keeps, Turns, Quits, Takes,
       Makes, Removes, Ends, Serves
  <2>3. WorkOK(h)
    BY DEF IInv, WorkInv
  <2>4. WorkOK(h)'
    BY <1>20, <2>1, <2>3 DEF StopForDeletion, At, Mine, Holds, Keeps, Turns,
       Quits, Takes, WorkOK, Makes, Removes, Ends, Serves
  <2> QED
    BY <2>2, <2>4, OthersWork
<1>21. ASSUME NEW h \in Handlers, CheckDetached(h)
      PROVE  \A g \in Handlers : WorkOK(g)'
  <2>1. \/ Quits(h)
        \/ /\ Turns(h, "shutdown", call[h].removes)
           /\ Enqueued(h) /\ UNCHANGED <<admission, deleting, told>>
    BY <1>21, Turning DEF IInv, Types
  <2>2. /\ \A g \in Handlers : g # h => call'[g] = call[g]
        /\ files' = files \/ call[h].pc \in Serves
    BY <1>21, <2>1 DEF CheckDetached, At, Keeps, Turns, Quits, Takes, Makes,
       Removes, Ends, Serves
  <2>3. WorkOK(h)
    BY DEF IInv, WorkInv
  <2>4. WorkOK(h)'
    BY <1>21, <2>1, <2>3 DEF CheckDetached, At, Mine, Keeps, Turns, Quits,
       Takes, WorkOK, Makes, Removes, Ends, Serves
  <2> QED
    BY <2>2, <2>4, OthersWork
<1>22. ASSUME NEW h \in Handlers, Shutdown(h)
      PROVE  \A g \in Handlers : WorkOK(g)'
  <2>1. Turns(h, "rename", "deletion")
    BY <1>22, Turning DEF IInv, Types
  <2>2. /\ \A g \in Handlers : g # h => call'[g] = call[g]
        /\ files' = files \/ call[h].pc \in Serves
    BY <1>22, <2>1 DEF Shutdown, At, Holds, Keeps, Turns, Quits, Takes, Makes,
       Removes, Ends, Serves
  <2>3. WorkOK(h)
    BY DEF IInv, WorkInv
  <2>4. WorkOK(h)'
    BY <1>22, <2>1, <2>3 DEF Shutdown, At, Mine, Holds, Keeps, Turns, Quits,
       Takes, WorkOK, Makes, Removes, Ends, Serves
  <2> QED
    BY <2>2, <2>4, OthersWork
<1>23. ASSUME NEW h \in Handlers, Interrupt(h)
      PROVE  \A g \in Handlers : WorkOK(g)'
  <2>1. \/ Quits(h)
        \/ call[h].pc \in Makes /\ Turns(h, "rename", "undo") /\ Keeps
    BY <1>23, InterruptTurns DEF IInv, Types
  <2>2. /\ \A g \in Handlers : g # h => call'[g] = call[g]
        /\ files' = files \/ call[h].pc \in Serves
    BY <1>23, <2>1 DEF Interrupt, Keeps, Turns, Quits, Takes, Makes, Removes,
       Ends, Serves
  <2>3. WorkOK(h)
    BY DEF IInv, WorkInv
  <2>4. WorkOK(h)'
    BY <1>23, <2>1, <2>3 DEF Interrupt, Mine, Keeps, Turns, Quits, Takes,
       WorkOK, Makes, Removes, Ends, Serves
  <2> QED
    BY <2>2, <2>4, OthersWork
<1>33. ASSUME NEW s \in Sessions, PublishDisk(s), call' = call
      PROVE  \A g \in Handlers : WorkOK(g)'
  <2>1. /\ files' = [files EXCEPT ![s] = WithDisk(s)]
        /\ WithDisk(s).dir = files[s].dir /\ WithDisk(s).def = files[s].def
    BY <1>33, StorageFields DEF PublishDisk, WithDisk, IInv, Types
  <2>2. ASSUME NEW g \in Handlers
        PROVE  WorkOK(g)'
    <3>1. WorkOK(g)
      BY DEF IInv, WorkInv
    <3>2. CASE call[g].pc = "idle"
      BY <1>33, <3>2 DEF WorkOK
    <3>3. CASE call[g].pc # "idle"
      <4>1. files \in [Sessions -> Storage] /\ call[g].session \in Sessions
        BY <3>3, MineTyped
      <4>2. /\ files'[call[g].session].dir = files[call[g].session].dir
            /\ files'[call[g].session].def = files[call[g].session].def
        BY <2>1, <4>1
      <4> QED
        BY <1>33, <3>1, <4>2 DEF WorkOK
    <3> QED
      BY <3>2, <3>3
  <2> QED
    BY <2>2
<1>24. ASSUME NEW s \in Sessions, BootAttaches(s)
      PROVE  \A g \in Handlers : WorkOK(g)'
  BY <1>24, <1>33 DEF BootAttaches
<1>25. ASSUME NEW s \in Sessions, BootFails(s)
      PROVE  \A g \in Handlers : WorkOK(g)'
  <2>1. call' = call /\ (UNCHANGED files \/ PublishDisk(s))
    BY <1>25 DEF BootFails
  <2>2. CASE UNCHANGED files
    BY <2>1, <2>2 DEF IInv, WorkInv, WorkOK
  <2> QED
    BY <1>33, <2>1, <2>2
<1>32. ASSUME NEW s \in Sessions, StrayExits(s)
      PROVE  \A g \in Handlers : WorkOK(g)'
  BY <1>32 DEF StrayExits, IInv, WorkInv, WorkOK
<1>26. ASSUME NEW s \in Sessions, StartPurges(s)
      PROVE  \A g \in Handlers : WorkOK(g)'
  BY <1>26 DEF StartPurges, IInv, DownInv, WorkOK
<1>27. ASSUME NEW s \in Sessions, StartDiscards(s)
      PROVE  \A g \in Handlers : WorkOK(g)'
  BY <1>27 DEF StartDiscards, IInv, DownInv, WorkOK
<1>28. ASSUME Crash
      PROVE  \A g \in Handlers : WorkOK(g)'
  BY <1>28 DEF Crash, WorkOK, Idle
<1>29. ASSUME StartLists
      PROVE  \A g \in Handlers : WorkOK(g)'
  BY <1>29 DEF StartLists, IInv, WorkInv, WorkOK
<1>30. ASSUME StartRestores
      PROVE  \A g \in Handlers : WorkOK(g)'
  BY <1>30 DEF StartRestores, IInv, DownInv, WorkOK
<1>31. CASE UNCHANGED vars
  BY <1>31 DEF vars, IInv, WorkInv, WorkOK
<1> QED
  BY <1>1, <1>2, <1>3, <1>4, <1>5, <1>6, <1>7, <1>8, <1>9, <1>10, <1>11, <1>12,
     <1>13, <1>14, <1>15, <1>16, <1>17, <1>18, <1>19, <1>20, <1>21, <1>22,
     <1>23, <1>24, <1>25, <1>26, <1>27, <1>28, <1>29, <1>30, <1>31, <1>32 DEF NextCases

-----------------------------------------------------------------------------
(* The actors' queues.                                                     *)

LEMMA QueueReleased ==
  ASSUME IInv, NEW h \in Handlers, commands' = Released(h),
         \A g \in Handlers : g # h => call'[g] = call[g],
         \A s \in Sessions : actors'[s] = None =>
                                actors[s] = None \/ Len(commands'[s]) = 0
  PROVE  /\ \A s \in Sessions : QueueOK(s)'
         /\ \A g \in Handlers : g # h => LastOK(g)'
<1>1. commands \in [Sessions -> Seq(Handlers)]
  BY DEF IInv, Types, QueueType
<1>2. ASSUME NEW s \in Sessions
      PROVE  /\ commands'[s] = Without(commands[s], h)
             /\ commands[s] \in Seq(Handlers) /\ QueueOK(s)
  BY <1>1 DEF Released, IInv, QueueInv
<1>3. ASSUME NEW s \in Sessions
      PROVE  QueueOK(s)'
  <2> DEFINE q == commands[s]
             r == Without(q, h)
  <2>1. /\ r \in Seq(Handlers)
        /\ \A i \in 1..Len(r) : \E j \in 1..Len(q) : r[i] = q[j]
        /\ Len(r) > 0 => Len(q) > 0
        /\ Distinct(r)
        /\ \A i \in 1..Len(r) : r[i] # h
    BY <1>2, WithoutFacts DEF QueueOK
  <2>2. q \in Seq(Handlers) /\ commands'[s] = r
    BY <1>2
  <2> HIDE DEF q, r
  <2>3. ASSUME NEW i \in 1..Len(r)
        PROVE  call'[r[i]].session = s /\ call'[r[i]].pc \in Queues
    <3>1. PICK j \in 1..Len(q) : r[i] = q[j]
      BY <2>1
    <3>2. call[q[j]].session = s /\ call[q[j]].pc \in Queues
      BY <1>2 DEF QueueOK, q
    <3>3. q[j] \in Handlers /\ q[j] # h
      BY <2>1, <2>2, <3>1
    <3> QED
      BY <3>1, <3>2, <3>3
  <2>4. Len(r) > 0 => actors'[s] # None
    BY <1>2, <2>1, <2>2 DEF QueueOK, q
  <2> QED
    BY <2>1, <2>2, <2>3, <2>4 DEF QueueOK
<1>4. ASSUME NEW g \in Handlers, g # h
      PROVE  LastOK(g)'
  <2>1. LastOK(g) /\ call'[g] = call[g]
    BY <1>4 DEF IInv, QueueInv
  <2>2. CASE call[g].pc \in {"stop", "check", "shutdown"}
    <3> DEFINE s == call[g].session
               q == commands[s]
               r == Without(q, h)
    <3>1. s \in Sessions
      BY <2>2, MineTyped
    <3>2. q \in Seq(Handlers) /\ commands'[s] = r
      BY <1>2, <3>1
    <3>3. /\ r \in Seq(Handlers)
          /\ Len(r) > 0 => Len(q) > 0
          /\ Len(q) > 0 /\ q[Len(q)] # h => Len(r) > 0 /\ r[Len(r)] = q[Len(q)]
      BY <3>2, WithoutFacts
    <3>4. CASE call[g].pc = "stop"
      BY <1>4, <2>1, <3>2, <3>3, <3>4 DEF LastOK
    <3>5. CASE call[g].pc = "check"
      BY <2>1, <3>2, <3>3, <3>5 DEF LastOK
    <3>6. CASE call[g].pc = "shutdown"
      <4>1. Len(q) = 1 /\ q[1] = g
        BY <2>1, <3>6 DEF LastOK
      <4>2. r = q
        BY <1>4, <3>2, <4>1, WithoutPlace
      <4> QED
        BY <2>1, <3>2, <3>6, <4>1, <4>2 DEF LastOK
    <3> QED
      BY <2>2, <3>4, <3>5, <3>6
  <2>3. CASE call[g].pc \notin {"stop", "check", "shutdown"}
    BY <2>1, <2>3 DEF LastOK
  <2> QED
    BY <2>2, <2>3
<1> QED
  BY <1>3, <1>4

(* So does a step that changes no queue.                                   *)
LEMMA QueueSame ==
  ASSUME IInv, NEW h \in Handlers, commands' = commands,
         \A g \in Handlers : g # h => call'[g] = call[g],
         \/ call[h].pc \notin Queues
         \/ call'[h].session = call[h].session /\ call'[h].pc \in Queues,
         \A s \in Sessions : actors'[s] = None => actors[s] = None
  PROVE  /\ \A s \in Sessions : QueueOK(s)'
         /\ \A g \in Handlers : g # h => LastOK(g)'
<1>1. commands \in [Sessions -> Seq(Handlers)]
  BY DEF IInv, Types, QueueType
<1>2. ASSUME NEW s \in Sessions
      PROVE  QueueOK(s)'
  <2>1. QueueOK(s) /\ commands[s] \in Seq(Handlers)
    BY <1>1 DEF IInv, QueueInv
  <2>2. ASSUME NEW i \in 1..Len(commands[s])
        PROVE  /\ call'[commands[s][i]].session = s
               /\ call'[commands[s][i]].pc \in Queues
    <3>1. commands[s][i] \in Handlers
      BY <2>1
    <3>2. call[commands[s][i]].session = s /\ call[commands[s][i]].pc \in Queues
      BY <2>1 DEF QueueOK
    <3> QED
      BY <3>1, <3>2
  <2> QED
    BY <2>1, <2>2 DEF QueueOK
<1>3. ASSUME NEW g \in Handlers, g # h
      PROVE  LastOK(g)'
  BY <1>3 DEF IInv, QueueInv, LastOK
<1> QED
  BY <1>2, <1>3

(* A caller takes its place at the end of the queue of a session that no   *)
(* other deletion is under way for.                                        *)
Appends(h, s) ==
    /\ commands' = [commands EXCEPT ![s] = Append(@, h)]
    /\ \A g \in Handlers : g # h => call'[g] = call[g]
    /\ call[h].pc \notin Queues
    /\ call'[h].session = s /\ call'[h].pc \in Queues
    /\ actors' = actors /\ actors[s] # None
    /\ \A g \in Handlers : g # h /\ call[g].pc \in Ends => call[g].session # s

(* QueueInv holds then for all others, and the caller is last.             *)
LEMMA QueueAppended ==
  ASSUME IInv, NEW h \in Handlers, NEW s \in Sessions, Appends(h, s)
  PROVE  /\ \A x \in Sessions : QueueOK(x)'
         /\ \A g \in Handlers : g # h => LastOK(g)'
         /\ Len(commands'[s]) = Len(commands[s]) + 1
         /\ commands'[s][Len(commands'[s])] = h
<1> USE DEF Appends
<1>1. commands \in [Sessions -> Seq(Handlers)]
  BY DEF IInv, Types, QueueType
<1> DEFINE q == commands[s]
           r == Append(q, h)
<1>2. /\ q \in Seq(Handlers) /\ r \in Seq(Handlers)
      /\ Len(q) \in Nat /\ Len(r) = Len(q) + 1
      /\ \A i \in 1..Len(q) : r[i] = q[i]
      /\ r[Len(r)] = h
      /\ commands'[s] = r
  BY <1>1, AppendProperties
<1>3. QueueOK(s)
  BY DEF IInv, QueueInv
<1> HIDE DEF r
<1>4. ASSUME NEW i \in 1..Len(q)
      PROVE  /\ q[i] \in Handlers /\ q[i] # h
             /\ call[q[i]].session = s /\ call[q[i]].pc \in Queues
  BY <1>2, <1>3 DEF QueueOK
<1>5. Distinct(r)
  <2>1. Distinct(q)
    BY <1>3 DEF QueueOK
  <2> QED
    BY <1>2, <1>4, <2>1 DEF Distinct
<1>6. ASSUME NEW i \in 1..Len(r)
      PROVE  call'[r[i]].session = s /\ call'[r[i]].pc \in Queues
  <2>1. CASE i = Len(r)
    <3>1. r[i] = h
      BY <1>2, <2>1
    <3> QED
      BY <3>1
  <2>2. CASE i # Len(r)
    <3>1. i \in 1..Len(q) /\ r[i] = q[i]
      BY <1>2, <2>2
    <3> QED
      BY <1>4, <3>1
  <2> QED
    BY <2>1, <2>2
<1>7. QueueOK(s)'
  <2>1. Distinct(commands'[s]) /\ actors'[s] # None
    BY <1>2, <1>5
  <2>2. \A i \in 1..Len(commands'[s]) :
           call'[commands'[s][i]].session = s /\ call'[commands'[s][i]].pc \in Queues
    BY <1>2, <1>6
  <2> QED
    BY <2>1, <2>2 DEF QueueOK
<1>8. ASSUME NEW x \in Sessions, x # s
      PROVE  QueueOK(x)'
  <2>1. QueueOK(x) /\ commands'[x] = commands[x] /\ commands[x] \in Seq(Handlers)
    BY <1>1, <1>8 DEF IInv, QueueInv
  <2>2. ASSUME NEW i \in 1..Len(commands[x])
        PROVE  call'[commands[x][i]] = call[commands[x][i]]
    <3>1. commands[x][i] \in Handlers /\ call[commands[x][i]].pc \in Queues
      BY <2>1 DEF QueueOK
    <3> QED
      BY <3>1
  <2> QED
    BY <2>1, <2>2 DEF QueueOK
<1>9. ASSUME NEW g \in Handlers, g # h
      PROVE  LastOK(g)'
  <2>1. LastOK(g) /\ call'[g] = call[g]
    BY <1>9 DEF IInv, QueueInv
  <2>2. call[g].pc \in Ends => commands'[call[g].session] = commands[call[g].session]
    BY <1>1, <1>9 DEF Ends
  <2> QED
    BY <2>1, <2>2 DEF LastOK, Ends
<1> QED
  BY <1>2, <1>7, <1>8, <1>9

(* A call that ends keeps QueueInv.                                        *)
LEMMA QuitsQueue ==
  ASSUME IInv, NEW h \in Handlers, Quits(h),
         \A s \in Sessions : actors'[s] = None => actors[s] = None
  PROVE  QueueInv'
<1>1. /\ commands' = Released(h)
      /\ \A g \in Handlers : g # h => call'[g] = call[g]
      /\ LastOK(h)'
  BY DEF Quits, LastOK
<1> QED
  BY <1>1, QueueReleased DEF QueueInv

(* So does one that moves on and keeps its place.                          *)
LEMMA TurnsQueue ==
  ASSUME IInv, NEW h \in Handlers, NEW pc, NEW removes, Turns(h, pc, removes),
         commands' = commands, call[h].pc \notin Queues \/ pc \in Queues,
         pc \notin {"stop", "check", "shutdown"}, actors' = actors
  PROVE  QueueInv'
<1>1. /\ \A g \in Handlers : g # h => call'[g] = call[g]
      /\ call'[h].pc = pc /\ call'[h].session = call[h].session
      /\ LastOK(h)'
  BY DEF Turns, LastOK
<1> QED
  BY <1>1, QueueSame DEF QueueInv

(* Only the admitted call is in the midst of a deletion.                   *)
LEMMA OneServes ==
  ASSUME IInv, NEW h \in Handlers, admission = None \/ call[h].pc \in Serves,
         NEW g \in Handlers, g # h
  PROVE  call[g].pc \notin Serves
BY HandlersAssumption DEF IInv, CallInv

(* QueueInv is inductive.                                                  *)
LEMMA QueueInductive ==
  ASSUME IInv, NextCases
  PROVE  QueueInv'
<1>1. ASSUME NEW h \in Handlers, NEW op \in {"create", "delete"},
             NEW s \in Sessions, NEW z \in Sizes, Begin(h, op, s, z)
      PROVE  QueueInv'
  <2>1. Takes(h, "admit", op, s)
    BY <1>1, BeginTakes DEF IInv, Types
  <2>2. /\ commands' = commands /\ actors' = actors
        /\ \A g \in Handlers : g # h => call'[g] = call[g]
        /\ call[h].pc \notin Queues /\ LastOK(h)'
    BY <1>1, <2>1 DEF Begin, At, Queues, Takes, LastOK
  <2> QED
    BY <2>2, QueueSame DEF QueueInv
<1>2. ASSUME NEW h \in Handlers, NEW op \in {"start", "stop"},
             NEW s \in Sessions, BeginControl(h, op, s)
      PROVE  QueueInv'
  <2>1. Takes(h, "control", op, s)
    BY <1>2, BeginControlTakes DEF IInv, Types
  <2>2. /\ commands' = [commands EXCEPT ![s] = Append(@, h)]
        /\ actors' = actors /\ actors[s] # None /\ s \notin deleting
        /\ call[h].pc \notin Queues
    BY <1>2 DEF BeginControl, At, Queues, Found
  <2>3. /\ \A g \in Handlers : g # h => call'[g] = call[g]
        /\ call'[h].session = s /\ call'[h].pc \in Queues
        /\ LastOK(h)'
    BY <2>1 DEF Takes, Queues, LastOK
  <2>4. \A g \in Handlers : g # h /\ call[g].pc \in Ends => call[g].session # s
    BY <2>2 DEF IInv, ActorInv, ActorOK
  <2>5. Appends(h, s)
    BY <2>2, <2>3, <2>4 DEF Appends
  <2>6. /\ \A x \in Sessions : QueueOK(x)'
        /\ \A g \in Handlers : g # h => LastOK(g)'
    BY <2>5, QueueAppended
  <2> QED
    BY <2>3, <2>6 DEF QueueInv
<1>3. ASSUME NEW h \in Handlers, ControlStarts(h)
      PROVE  QueueInv'
  <2>1. Turns(h, "ready", call[h].removes)
    BY <1>3, Turning DEF IInv, Types
  <2>2. /\ commands' = commands /\ actors' = actors
        /\ "ready" \in Queues
    BY <1>3 DEF ControlStarts, At, Queues, Goto
  <2> QED
    BY <2>1, <2>2, TurnsQueue DEF Queues
<1>4. ASSUME NEW h \in Handlers, ControlReady(h)
      PROVE  QueueInv'
  <2>1. Quits(h)
    BY <1>4, Turning DEF IInv, Types
  <2>2. \A s \in Sessions : actors'[s] = None => actors[s] = None
    BY <1>4 DEF ControlReady
  <2> QED
    BY <2>1, <2>2, QuitsQueue
<1>5. ASSUME NEW h \in Handlers, ControlStops(h)
      PROVE  QueueInv'
  <2>1. Quits(h)
    BY <1>5, Turning DEF IInv, Types
  <2>2. \A s \in Sessions : actors'[s] = None => actors[s] = None
    BY <1>5 DEF ControlStops
  <2> QED
    BY <2>1, <2>2, QuitsQueue
<1>6. ASSUME NEW h \in Handlers, CreateAnswered(h)
      PROVE  QueueInv'
  <2>1. Quits(h)
    BY <1>6, Turning DEF IInv, Types
  <2>2. \A s \in Sessions : actors'[s] = None => actors[s] = None
    BY <1>6 DEF CreateAnswered
  <2> QED
    BY <2>1, <2>2, QuitsQueue
<1>7. ASSUME NEW h \in Handlers, CreateBegins(h)
      PROVE  QueueInv'
  <2>1. Turns(h, "mkdir", call[h].removes)
    BY <1>7, Turning DEF IInv, Types
  <2>2. /\ commands' = commands /\ actors' = actors
        /\ call[h].pc \notin Queues
    BY <1>7 DEF CreateBegins, At, Queues, Admitted
  <2> QED
    BY <2>1, <2>2, TurnsQueue DEF Queues
<1>8. ASSUME NEW h \in Handlers, MakeDirectory(h)
      PROVE  QueueInv'
  <2>1. \/ Quits(h)
        \/ Turns(h, "rootsync", call[h].removes) /\ Keeps
    BY <1>8, Turning DEF IInv, Types
  <2>2. actors' = actors
    BY <1>8 DEF MakeDirectory
  <2>3. CASE Quits(h)
    BY <2>2, <2>3, QuitsQueue
  <2>4. CASE Turns(h, "rootsync", call[h].removes) /\ Keeps /\ call[h].pc \in Makes
    BY <2>2, <2>4, TurnsQueue DEF Keeps, Makes, Queues
  <2> QED
    BY <1>8, <2>1, <2>3, <2>4 DEF MakeDirectory, At, Makes
<1>9. ASSUME NEW h \in Handlers, SyncRoot(h)
      PROVE  QueueInv'
  <2>1. Turns(h, "publish", call[h].removes)
    BY <1>9, Turning DEF IInv, Types
  <2>2. /\ commands' = commands /\ actors' = actors
        /\ call[h].pc \notin Queues
    BY <1>9 DEF SyncRoot, At, Queues, Goto
  <2> QED
    BY <2>1, <2>2, TurnsQueue DEF Queues
<1>10. ASSUME NEW h \in Handlers, PublishDefinition(h)
      PROVE  QueueInv'
  <2>1. Turns(h, "defsync", call[h].removes)
    BY <1>10, Turning DEF IInv, Types
  <2>2. /\ commands' = commands /\ actors' = actors
        /\ call[h].pc \notin Queues
    BY <1>10 DEF PublishDefinition, At, Queues, Goto
  <2> QED
    BY <2>1, <2>2, TurnsQueue DEF Queues
<1>11. ASSUME NEW h \in Handlers, Created(h)
      PROVE  QueueInv'
  <2>1. Quits(h)
    BY <1>11, Turning DEF IInv, Types
  <2>2. \A s \in Sessions : actors'[s] = None => actors[s] = None
    BY <1>11, MineTyped, SizesAssumption DEF Created, At, Mine, IInv, CallInv,
       CallOK, Makes
  <2> QED
    BY <2>1, <2>2, QuitsQueue
<1>12. ASSUME NEW h \in Handlers, CreateFails(h)
      PROVE  QueueInv'
  <2>1. \/ call[h].pc = "mkdir" /\ Quits(h)
        \/ call[h].pc # "mkdir" /\ Turns(h, "rename", "undo") /\ Keeps
    BY <1>12, CreateFailsTurns DEF IInv, Types
  <2>2. actors' = actors
    BY <1>12 DEF CreateFails
  <2>3. CASE Quits(h)
    BY <2>2, <2>3, QuitsQueue
  <2>4. CASE Turns(h, "rename", "undo") /\ Keeps /\ call[h].pc \in Makes
    BY <2>2, <2>4, TurnsQueue DEF Keeps, Makes, Queues
  <2> QED
    BY <1>12, <2>1, <2>3, <2>4 DEF CreateFails, At, Makes
<1>13. ASSUME NEW h \in Handlers, MoveAway(h)
      PROVE  QueueInv'
  <2>1. \/ Turns(h, "dirsync", call[h].removes)
        \/ Turns(h, "purge", call[h].removes)
    BY <1>13, Turning DEF IInv, Types
  <2>2. /\ commands' = commands /\ actors' = actors
        /\ call[h].pc \notin Queues
    BY <1>13 DEF MoveAway, At, Queues, Goto
  <2> QED
    BY <2>1, <2>2, TurnsQueue DEF Queues
<1>14. ASSUME NEW h \in Handlers, SyncMove(h)
      PROVE  QueueInv'
  <2>1. Turns(h, "purge", call[h].removes)
    BY <1>14, Turning DEF IInv, Types
  <2>2. /\ commands' = commands /\ actors' = actors
        /\ call[h].pc \notin Queues
    BY <1>14 DEF SyncMove, At, Queues, Goto
  <2> QED
    BY <2>1, <2>2, TurnsQueue DEF Queues
<1>15. ASSUME NEW h \in Handlers, Purge(h)
      PROVE  QueueInv'
  <2>1. Turns(h, "purgesync", call[h].removes)
    BY <1>15, Turning DEF IInv, Types
  <2>2. /\ commands' = commands /\ actors' = actors
        /\ call[h].pc \notin Queues
    BY <1>15 DEF Purge, At, Queues, Goto
  <2> QED
    BY <2>1, <2>2, TurnsQueue DEF Queues
<1>16. ASSUME NEW h \in Handlers, Removed(h)
      PROVE  QueueInv'
  <2>1. Quits(h)
    BY <1>16, Turning DEF IInv, Types
  <2>2. \A s \in Sessions : actors'[s] = None => actors[s] = None
    BY <1>16 DEF Removed
  <2> QED
    BY <2>1, <2>2, QuitsQueue
<1>17. ASSUME NEW h \in Handlers, RemoveFails(h)
      PROVE  QueueInv'
  <2>1. Quits(h)
    BY <1>17, Turning DEF IInv, Types
  <2>2. \A s \in Sessions : actors'[s] = None => actors[s] = None
    BY <1>17 DEF RemoveFails
  <2> QED
    BY <2>1, <2>2, QuitsQueue
<1>18. ASSUME NEW h \in Handlers, DeleteOrphan(h)
      PROVE  QueueInv'
  <2>1. Turns(h, "rename", "orphan")
    BY <1>18, Turning DEF IInv, Types
  <2>2. /\ commands' = commands /\ actors' = actors
        /\ call[h].pc \notin Queues
    BY <1>18 DEF DeleteOrphan, At, Queues, Admitted
  <2> QED
    BY <2>1, <2>2, TurnsQueue DEF Queues
<1>19. ASSUME NEW h \in Handlers, DeleteBegins(h)
      PROVE  QueueInv'
  <2>1. Turns(h, "stop", call[h].removes)
    BY <1>19, Turning DEF IInv, Types
  <2>2. /\ call[h].session \in Sessions
        /\ commands \in [Sessions -> Seq(Handlers)]
    BY <1>19, MineTyped DEF DeleteBegins, Admitted, At
  <2>3. /\ commands' = [commands EXCEPT ![call[h].session] = Append(@, h)]
        /\ actors' = actors /\ actors[call[h].session] # None
        /\ call[h].pc \notin Queues /\ admission = None
    BY <1>19 DEF DeleteBegins, Admitted, At, Mine, Enqueued, Queues
  <2>4. /\ \A g \in Handlers : g # h => call'[g] = call[g]
        /\ call'[h].session = call[h].session /\ call'[h].pc = "stop"
        /\ call'[h].pc \in Queues
    BY <2>1 DEF Turns, Queues
  <2>5. \A g \in Handlers : g # h /\ call[g].pc \in Ends =>
                               call[g].session # call[h].session
    BY <2>3, OneServes DEF Serves
  <2>9. Appends(h, call[h].session)
    BY <2>2, <2>3, <2>4, <2>5 DEF Appends
  <2>6. /\ \A x \in Sessions : QueueOK(x)'
        /\ \A g \in Handlers : g # h => LastOK(g)'
        /\ Len(commands'[call[h].session]) = Len(commands[call[h].session]) + 1
        /\ commands'[call[h].session][Len(commands'[call[h].session])] = h
    BY <2>2, <2>9, QueueAppended
  <2>7. Len(commands[call[h].session]) \in Nat
    BY <2>2
  <2>8. LastOK(h)'
    BY <2>4, <2>6, <2>7 DEF LastOK
  <2> QED
    BY <2>6, <2>8 DEF QueueInv
<1>20. ASSUME NEW h \in Handlers, StopForDeletion(h)
      PROVE  QueueInv'
  <2>1. \/ Quits(h)
        \/ /\ Turns(h, "check", call[h].removes)
           /\ commands' = Released(h)
           /\ compute' = [compute EXCEPT ![Mine(h)] = "stopped"]
           /\ UNCHANGED <<admission, deleting, told>>
    BY <1>20, Turning DEF IInv, Types
  <2>2. actors' = actors /\ call[h].pc = "stop" /\ Holds(h)
    BY <1>20 DEF StopForDeletion, At
  <2>3. CASE Quits(h)
    BY <2>2, <2>3, QuitsQueue
  <2>4. CASE Turns(h, "check", call[h].removes) /\ commands' = Released(h)
    <3> DEFINE q == commands[call[h].session]
    <3>1. /\ call[h].session \in Sessions /\ q \in Seq(Handlers)
          /\ q[1] = h /\ Len(q) > 0
      BY <2>2, MineTyped, HeadFacts
    <3>2. q[Len(q)] = h /\ Distinct(q)
      BY <2>2, <3>1 DEF IInv, QueueInv, QueueOK, LastOK
    <3>3. 1 \in 1..Len(q) /\ Len(q) \in 1..Len(q)
      BY <3>1
    <3>7. Len(q) = 1
      BY <3>1, <3>2, <3>3 DEF Distinct
    <3>4. Len(Without(q, h)) = 0
      BY <3>1, <3>7, WithoutFacts
    <3>5. commands'[call[h].session] = Without(q, h)
      BY <2>4, <3>1 DEF Released
    <3>6. /\ \A g \in Handlers : g # h => call'[g] = call[g]
          /\ LastOK(h)'
      BY <2>4, <3>4, <3>5 DEF Turns, LastOK
    <3> QED
      BY <2>2, <2>4, <3>6, QueueReleased DEF QueueInv
  <2> QED
    BY <2>1, <2>3, <2>4
<1>21. ASSUME NEW h \in Handlers, CheckDetached(h)
      PROVE  QueueInv'
  <2>1. \/ Quits(h)
        \/ /\ Turns(h, "shutdown", call[h].removes)
           /\ Enqueued(h) /\ UNCHANGED <<admission, deleting, told>>
    BY <1>21, Turning DEF IInv, Types
  <2>2. actors' = actors /\ call[h].pc = "check"
    BY <1>21 DEF CheckDetached, At
  <2>3. CASE Quits(h)
    BY <2>2, <2>3, QuitsQueue
  <2>4. CASE Turns(h, "shutdown", call[h].removes) /\ Enqueued(h)
    <3>1. /\ call[h].session \in Sessions
          /\ commands \in [Sessions -> Seq(Handlers)]
      BY <2>2, MineTyped
    <3>2. /\ actors[call[h].session] # None
          /\ Len(commands[call[h].session]) = 0
      BY <2>2 DEF IInv, ActorInv, ActorOK, Ends, QueueInv, LastOK
    <3>3. /\ commands' = [commands EXCEPT ![call[h].session] = Append(@, h)]
          /\ call[h].pc \notin Queues /\ call[h].pc \in Serves
      BY <2>2, <2>4 DEF Enqueued, Queues, Serves, Ends
    <3>4. /\ \A g \in Handlers : g # h => call'[g] = call[g]
          /\ call'[h].session = call[h].session /\ call'[h].pc = "shutdown"
          /\ call'[h].pc \in Queues
      BY <2>4 DEF Turns, Queues
    <3>5. \A g \in Handlers : g # h /\ call[g].pc \in Ends =>
                                 call[g].session # call[h].session
      BY <3>3, OneServes DEF Serves
    <3>8. Appends(h, call[h].session)
      BY <2>2, <3>1, <3>2, <3>3, <3>4, <3>5 DEF Appends
    <3>6. /\ \A x \in Sessions : QueueOK(x)'
          /\ \A g \in Handlers : g # h => LastOK(g)'
          /\ Len(commands'[call[h].session]) = Len(commands[call[h].session]) + 1
          /\ commands'[call[h].session][Len(commands'[call[h].session])] = h
      BY <3>1, <3>8, QueueAppended
    <3>7. LastOK(h)'
      BY <3>2, <3>4, <3>6 DEF LastOK
    <3> QED
      BY <3>6, <3>7 DEF QueueInv
  <2> QED
    BY <2>1, <2>3, <2>4
<1>22. ASSUME NEW h \in Handlers, Shutdown(h)
      PROVE  QueueInv'
  <2>1. Turns(h, "rename", "deletion")
    BY <1>22, Turning DEF IInv, Types
  <2>2. /\ call[h].pc = "shutdown" /\ commands' = Released(h)
        /\ actors' = [actors EXCEPT ![call[h].session] = None]
    BY <1>22 DEF Shutdown, At, Mine
  <2>3. /\ call[h].session \in Sessions /\ actors \in [Sessions -> Sizes \cup {None}]
        /\ commands[call[h].session] \in Seq(Handlers)
    BY <2>2, MineTyped
  <2>4. Len(commands[call[h].session]) = 1 /\ commands[call[h].session][1] = h
    BY <2>2 DEF IInv, QueueInv, LastOK
  <2>5. Len(Without(commands[call[h].session], h)) = 0
    BY <2>3, <2>4, WithoutFacts
  <2>6. Len(commands'[call[h].session]) = 0
    BY <2>2, <2>3, <2>5 DEF Released
  <2>7. \A s \in Sessions : actors'[s] = None =>
                               actors[s] = None \/ Len(commands'[s]) = 0
    BY <2>2, <2>3, <2>6
  <2>8. /\ \A g \in Handlers : g # h => call'[g] = call[g]
        /\ LastOK(h)'
    BY <2>1 DEF Turns, LastOK
  <2> QED
    BY <2>2, <2>7, <2>8, QueueReleased DEF QueueInv
<1>23. ASSUME NEW h \in Handlers, Interrupt(h)
      PROVE  QueueInv'
  <2>1. \/ Quits(h)
        \/ call[h].pc \in Makes /\ Turns(h, "rename", "undo") /\ Keeps
    BY <1>23, InterruptTurns DEF IInv, Types
  <2>2. actors' = actors
    BY <1>23 DEF Interrupt
  <2>3. CASE Quits(h)
    BY <2>2, <2>3, QuitsQueue
  <2>4. CASE Turns(h, "rename", "undo") /\ Keeps /\ call[h].pc \in Makes
    BY <2>2, <2>4, TurnsQueue DEF Keeps, Makes, Queues
  <2> QED
    BY <1>23, <2>1, <2>3, <2>4 DEF Interrupt, At, Makes
<1>24. ASSUME NEW s \in Sessions, BootAttaches(s)
      PROVE  QueueInv'
  BY <1>24 DEF BootAttaches, IInv, QueueInv, QueueOK, LastOK
<1>25. ASSUME NEW s \in Sessions, BootFails(s)
      PROVE  QueueInv'
  BY <1>25 DEF BootFails, IInv, QueueInv, QueueOK, LastOK
<1>32. ASSUME NEW s \in Sessions, StrayExits(s)
      PROVE  QueueInv'
  BY <1>32 DEF StrayExits, IInv, QueueInv, QueueOK, LastOK
<1>26. ASSUME NEW s \in Sessions, StartPurges(s)
      PROVE  QueueInv'
  BY <1>26 DEF StartPurges, IInv, QueueInv, QueueOK, LastOK
<1>27. ASSUME NEW s \in Sessions, StartDiscards(s)
      PROVE  QueueInv'
  BY <1>27 DEF StartDiscards, IInv, QueueInv, QueueOK, LastOK
<1>28. ASSUME Crash
      PROVE  QueueInv'
  <2>1. \A s \in Sessions : commands'[s] = <<>>
    BY <1>28 DEF Crash
  <2>2. \A h \in Handlers : call'[h].pc = "idle"
    BY <1>28 DEF Crash, Idle
  <2> QED
    BY <2>1, <2>2 DEF QueueInv, QueueOK, LastOK, Distinct
<1>29. ASSUME StartLists
      PROVE  QueueInv'
  BY <1>29 DEF StartLists, IInv, QueueInv, QueueOK, LastOK
<1>30. ASSUME StartRestores
      PROVE  QueueInv'
  <2>1. \A h \in Handlers : call[h].pc = "idle"
    BY <1>30 DEF StartRestores, IInv, DownInv
  <2>2. ASSUME NEW s \in Sessions
        PROVE  Len(commands[s]) = 0
    <3>1. commands[s] \in Seq(Handlers) /\ QueueOK(s)
      BY DEF IInv, Types, QueueType, QueueInv
    <3> QED
      BY <2>1, <3>1 DEF QueueOK, Queues
  <2>3. commands' = commands /\ call' = call
    BY <1>30 DEF StartRestores
  <2>4. \A s \in Sessions : QueueOK(s)'
    BY <2>2, <2>3 DEF QueueOK, Distinct
  <2>5. \A h \in Handlers : LastOK(h)'
    BY <2>1, <2>3 DEF LastOK
  <2> QED
    BY <2>4, <2>5 DEF QueueInv
<1>31. CASE UNCHANGED vars
  BY <1>31 DEF vars, IInv, QueueInv, QueueOK, LastOK
<1> QED
  BY <1>1, <1>2, <1>3, <1>4, <1>5, <1>6, <1>7, <1>8, <1>9, <1>10, <1>11, <1>12,
     <1>13, <1>14, <1>15, <1>16, <1>17, <1>18, <1>19, <1>20, <1>21, <1>22,
     <1>23, <1>24, <1>25, <1>26, <1>27, <1>28, <1>29, <1>30, <1>31, <1>32 DEF NextCases

-----------------------------------------------------------------------------
(* A start, and what may be left on storage.                               *)

(* An answer that is not about the environment tells nothing.              *)
Silent(h) ==
    \/ ControlStarts(h) \/ ControlReady(h) \/ ControlStops(h) \/ CreateBegins(h)
    \/ MakeDirectory(h) \/ SyncRoot(h) \/ PublishDefinition(h) \/ CreateFails(h)
    \/ MoveAway(h) \/ SyncMove(h) \/ Purge(h) \/ DeleteOrphan(h) \/ DeleteBegins(h)
    \/ StopForDeletion(h) \/ CheckDetached(h) \/ Interrupt(h)

(* The answers it gives are not about the environment.                     *)
LEMMA SilentKeeps ==
  ASSUME NEW h, Silent(h)
  PROVE  /\ told' = told /\ actors' = actors /\ up' = up /\ up = "up"
         /\ call[h].pc # "idle"
         /\ deleting' \subseteq deleting \/ DeleteBegins(h)
<1>1. CASE ControlStarts(h)
  BY <1>1 DEF ControlStarts, Goto, At
<1>2. CASE ControlReady(h)
  BY <1>2 DEF ControlReady, Reply, At, Told
<1>3. CASE ControlStops(h)
  BY <1>3 DEF ControlStops, Reply, At, Told
<1>4. CASE CreateBegins(h)
  BY <1>4 DEF CreateBegins, Admitted, At
<1>5. CASE MakeDirectory(h)
  BY <1>5 DEF MakeDirectory, Goto, Reply, At, Told
<1>6. CASE SyncRoot(h)
  BY <1>6 DEF SyncRoot, Goto, At
<1>7. CASE PublishDefinition(h)
  BY <1>7 DEF PublishDefinition, Goto, At
<1>8. CASE CreateFails(h)
  BY <1>8 DEF CreateFails, Reply, Undo, At, Told
<1>9. CASE MoveAway(h)
  BY <1>9 DEF MoveAway, Goto, At
<1>10. CASE SyncMove(h)
  BY <1>10 DEF SyncMove, Goto, At
<1>11. CASE Purge(h)
  BY <1>11 DEF Purge, Goto, At
<1>12. CASE DeleteOrphan(h)
  BY <1>12 DEF DeleteOrphan, Admitted, At
<1>13. CASE DeleteBegins(h)
  BY <1>13 DEF DeleteBegins, Admitted, At
<1>14. CASE StopForDeletion(h)
  BY <1>14 DEF StopForDeletion, Reply, At, Told
<1>15. CASE CheckDetached(h)
  BY <1>15 DEF CheckDetached, Reply, At, Told
<1>16. CASE Interrupt(h)
  BY <1>16 DEF Interrupt, Undo, Interrupted, Reply, Told
<1> QED
  BY <1>1, <1>2, <1>3, <1>4, <1>5, <1>6, <1>7, <1>8, <1>9, <1>10, <1>11, <1>12,
     <1>13, <1>14, <1>15, <1>16 DEF Silent

(* DownInv is inductive: nobody is served during a start.                  *)
LEMMA DownInductive ==
  ASSUME IInv, NextCases
  PROVE  DownInv'
<1>1. ASSUME NEW h \in Handlers,
             \/ Silent(h) \/ CreateAnswered(h) \/ Created(h) \/ Removed(h)
             \/ RemoveFails(h) \/ Shutdown(h)
             \/ \E op \in {"create", "delete"}, s \in Sessions, z \in Sizes :
                   Begin(h, op, s, z)
             \/ \E op \in {"start", "stop"}, s \in Sessions : BeginControl(h, op, s)
      PROVE  DownInv'
  <2>1. up = "up" /\ up' = up
    BY <1>1, SilentKeeps DEF CreateAnswered, Admitted, Created, Removed,
       RemoveFails,
                             Shutdown, Begin, BeginControl, At
  <2> QED
    BY <2>1 DEF DownInv
<1>2. ASSUME NEW s \in Sessions, BootAttaches(s) \/ BootFails(s)
      PROVE  DownInv'
  BY <1>2 DEF BootAttaches, BootFails, DownInv
<1>9. ASSUME NEW s \in Sessions, StrayExits(s)
      PROVE  DownInv'
  BY <1>9 DEF StrayExits, IInv, DownInv, Acknowledged
<1>3. ASSUME NEW s \in Sessions, StartPurges(s)
      PROVE  DownInv'
  <2>1. /\ files' \in [Sessions -> Storage] /\ images' = {files'}
        /\ up' = up /\ up = "purging" /\ call' = call /\ actors' = actors
    BY <1>3, FilesSteps, FilesTypeInductive DEF StartPurges, IInv, Types, FilesType
  <2>2. \A x \in Sessions : Sound(files'[x])
    BY <2>1, FilesSteps, ViewsStep
  <2> QED
    BY <2>1, <2>2 DEF IInv, DownInv, Acknowledged, Sound
<1>4. ASSUME NEW s \in Sessions, StartDiscards(s)
      PROVE  DownInv'
  <2>1. /\ up' = up /\ up = "restoring" /\ call' = call /\ actors' = actors
        /\ files \in [Sessions -> Storage] /\ files[s].def = None
    BY <1>4 DEF StartDiscards, Unacknowledged, IInv, Types, FilesType
  <2>2. PICK new \in {NoStorage, Queued(s)} :
           /\ files' = [files EXCEPT ![s] = new]
           /\ images' \subseteq images \cup {files'}
           /\ ~Faults => new = NoStorage
    BY <1>4 DEF StartDiscards, Write
  <2>3. new.def = None /\ (~Faults => ~new.queued)
    BY <2>1, <2>2, StorageFields DEF IInv, Types, NoStorage
  <2>4. ASSUME NEW view \in images', NEW x \in Sessions, files'[x].def # None
        PROVE  Acknowledged(view[x])
    <3>1. x # s /\ files'[x] = files[x]
      BY <2>1, <2>2, <2>3, <2>4
    <3>2. CASE view \in images
      BY <2>1, <2>4, <3>1, <3>2 DEF IInv, DownInv
    <3>3. CASE view = files'
      <4>1. Acknowledged(files[x])
        BY <2>1, <2>4, <3>1 DEF IInv, DownInv, Types, FilesType
      <4> QED
        BY <3>1, <3>3, <4>1
    <3> QED
      BY <2>2, <3>2, <3>3
  <2>5. ~Faults => \A x \in Sessions : ~files'[x].queued
    BY <2>1, <2>2, <2>3 DEF IInv, DownInv
  <2> QED
    BY <2>1, <2>4, <2>5 DEF IInv, DownInv
<1>5. CASE Crash
  <2>1. files' \in images /\ images' = {files'} /\ up' = "purging"
    BY <1>5 DEF Crash
  <2>2. \A x \in Sessions : Sound(files'[x])
    BY <2>1 DEF IInv, ViewsInv
  <2> QED
    BY <1>5, <2>1, <2>2 DEF Crash, DownInv, Idle, Acknowledged, Sound
<1>6. CASE StartLists
  BY <1>6 DEF StartLists, IInv, DownInv, Acknowledged
<1>7. CASE StartRestores
  BY <1>7 DEF StartRestores, IInv, DownInv
<1>8. CASE UNCHANGED vars
  BY <1>8 DEF vars, IInv, DownInv, Acknowledged
<1> QED
  BY <1>1, <1>2, <1>3, <1>4, <1>5, <1>6, <1>7, <1>8, <1>9 DEF NextCases, Silent

(* ViewsInv survives a step that adds no actor.                            *)
LEMMA ViewsKept ==
  ASSUME IInv, FilesStep, \A s \in Sessions : actors'[s] = None \/ actors[s] # None
  PROVE  ViewsInv'
BY ViewsStep DEF ViewsInv

(* A creation adds its actor once its definition is durable.               *)
LEMMA CreatedViews ==
  ASSUME IInv, FilesStep, NEW h \in Handlers, Created(h)
  PROVE  /\ ViewsInv'
         /\ call[h].session \in Sessions
         /\ actors'[call[h].session] # None
         /\ \A s \in Sessions : actors[s] # None => actors'[s] # None
         /\ \A view \in images' : Acknowledged(view[call[h].session])
<1>1. call[h].pc = "defsync" /\ images' = {files} /\ files \in images
  BY DEF Created, At, Sync, IInv, Types, FilesType
<1>2. /\ call[h].session \in Sessions /\ actors \in [Sessions -> Sizes \cup {None}]
      /\ call[h].size # None
  BY <1>1, MineTyped, SizesAssumption DEF IInv, CallInv, CallOK, Makes
<1>3. actors' = [actors EXCEPT ![call[h].session] = call[h].size]
  BY DEF Created, Mine
<1>4. Acknowledged(files[call[h].session])
  BY <1>1 DEF IInv, WorkInv, WorkOK, Acknowledged
<1> QED
  BY <1>1, <1>2, <1>3, <1>4 DEF IInv, ViewsInv

(* A start adds the actors whose definitions it found.                     *)
LEMMA RestoredViews ==
  ASSUME IInv, StartRestores
  PROVE  ViewsInv' /\ \A s \in Sessions : Promised(s) => actors'[s] # None
<1>1. /\ files \in images /\ images' = images
      /\ \A view \in images, s \in Sessions :
            files[s].def # None => Acknowledged(view[s])
  BY DEF StartRestores, IInv, DownInv, Types, FilesType
<1>2. \A s \in Sessions : actors'[s] = files[s].def
  BY DEF StartRestores
<1>3. \A s \in Sessions :
         /\ \A view \in images : Sound(view[s])
         /\ Promised(s) => Acknowledged(files[s])
  BY <1>1 DEF IInv, ViewsInv, ToldInv
<1> QED
  BY <1>1, <1>2, <1>3 DEF ViewsInv, Acknowledged, Sound

(* ViewsInv is inductive.                                                  *)
LEMMA ViewsInductive ==
  ASSUME IInv, NextCases
  PROVE  ViewsInv'
<1>1. CASE \E h \in Handlers : Created(h)
  BY <1>1, FilesSteps, CreatedViews
<1>2. CASE StartRestores
  BY <1>2, RestoredViews
<1>3. ASSUME NEW h \in Handlers, Shutdown(h)
      PROVE  ViewsInv'
  <2>1. \A s \in Sessions : actors'[s] = None \/ actors[s] # None
    BY <1>3, MineTyped DEF Shutdown, Mine, At
  <2> QED
    BY <2>1, FilesSteps, ViewsKept
<1>4. ASSUME NEW h \in Handlers,
             \/ Silent(h) \/ CreateAnswered(h) \/ Removed(h) \/ RemoveFails(h)
             \/ \E op \in {"create", "delete"}, s \in Sessions, z \in Sizes :
                   Begin(h, op, s, z)
             \/ \E op \in {"start", "stop"}, s \in Sessions : BeginControl(h, op, s)
      PROVE  ViewsInv'
  <2>1. actors' = actors
    BY <1>4, SilentKeeps DEF CreateAnswered, Removed, RemoveFails, Begin,
       BeginControl
  <2> QED
    BY <2>1, FilesSteps, ViewsKept
<1>5. CASE \/ \E s \in Sessions : \/ BootAttaches(s) \/ BootFails(s)
                                \/ StrayExits(s) \/ StartPurges(s) \/ StartDiscards(s)
           \/ Crash \/ StartLists \/ UNCHANGED vars
  <2>1. \A s \in Sessions : actors'[s] = None \/ actors[s] # None
    BY <1>5 DEF BootAttaches, BootFails, StrayExits, StartPurges, StartDiscards, Crash,
       StartLists,
                vars
  <2> QED
    BY <2>1, FilesSteps, ViewsKept
<1> QED
  BY <1>1, <1>2, <1>3, <1>4, <1>5 DEF NextCases, Silent

-----------------------------------------------------------------------------
(* What the gateway was told.                                              *)

Moves(h) == Quits(h) \/ \E pc \in Pcs : \E removes : Turns(h, pc, removes)

(* No call turns into a creation or a deletion by moving on.               *)
LEMMA OpsKept ==
  ASSUME NEW h \in Handlers, call[h].pc # "idle", Moves(h)
  PROVE  /\ \A g \in Handlers, s \in Sessions : Changes(g, s)' => Changes(g, s)
         /\ \A g \in Handlers, s \in Sessions : Deletes(g, s)' => Deletes(g, s)
BY DEF Moves, Quits, Turns, Changes, Deletes

(* The steps that tell nothing move their call on, or end it.              *)
LEMMA SilentMoves ==
  ASSUME CallType, NEW h \in Handlers, Silent(h)
  PROVE  Moves(h)
<1> USE DEF Moves, Pcs, Makes, Removes, Ends
<1>1. CASE ControlStarts(h)
  BY <1>1, Turning
<1>2. CASE ControlReady(h)
  BY <1>2, Turning
<1>3. CASE ControlStops(h)
  BY <1>3, Turning
<1>4. CASE CreateBegins(h)
  BY <1>4, Turning
<1>5. CASE MakeDirectory(h)
  BY <1>5, Turning
<1>6. CASE SyncRoot(h)
  BY <1>6, Turning
<1>7. CASE PublishDefinition(h)
  BY <1>7, Turning
<1>8. CASE CreateFails(h)
  BY <1>8, CreateFailsTurns
<1>9. CASE MoveAway(h)
  BY <1>9, Turning
<1>10. CASE SyncMove(h)
  BY <1>10, Turning
<1>11. CASE Purge(h)
  BY <1>11, Turning
<1>12. CASE DeleteOrphan(h)
  BY <1>12, Turning
<1>13. CASE DeleteBegins(h)
  BY <1>13, Turning
<1>14. CASE StopForDeletion(h)
  BY <1>14, Turning
<1>15. CASE CheckDetached(h)
  BY <1>15, Turning
<1>16. CASE Interrupt(h)
  BY <1>16, InterruptTurns
<1> QED
  BY <1>1, <1>2, <1>3, <1>4, <1>5, <1>6, <1>7, <1>8, <1>9, <1>10, <1>11, <1>12,
     <1>13, <1>14, <1>15, <1>16 DEF Silent

(* ToldInv and GoneInv, for one session.                                   *)
ToldOK(s) == Promised(s) =>
    /\ \A h \in Handlers : ~Deletes(h, s)
    /\ \A view \in images : Acknowledged(view[s])
    /\ up = "up" => actors[s] # None
    /\ told[s] = "environment" => s \notin deleting
GoneOK(s) == told[s] = "deleted" =>
    /\ \A h \in Handlers : ~Changes(h, s)
    /\ \A view \in images : ~view[s].dir

LEMMA ToldParts == /\ ToldInv <=> \A s \in Sessions : ToldOK(s)
                   /\ GoneInv <=> \A s \in Sessions : GoneOK(s)
BY DEF ToldInv, GoneInv, ToldOK, GoneOK

(* They survive a step that tells nothing new of the session, takes on no  *)
(* call that contradicts it, and neither hides it nor ends its actor.      *)
LEMMA ToldKept ==
  ASSUME IInv, FilesStep, NEW s \in Sessions,
         Promised(s)' =>
            /\ told'[s] = told[s]
            /\ \A g \in Handlers : Deletes(g, s)' => Deletes(g, s)
            /\ up' = "up" => actors'[s] # None
            /\ told[s] = "environment" => s \notin deleting',
         told'[s] = "deleted" =>
            /\ told[s] = "deleted"
            /\ \A g \in Handlers : Changes(g, s)' => Changes(g, s)
  PROVE  ToldOK(s)' /\ GoneOK(s)'
<1>1. ToldOK(s) /\ GoneOK(s)
  BY ToldParts DEF IInv
<1>4. Promised(s)' => Promised(s)
  BY DEF Promised
<1>2. ToldOK(s)'
  BY <1>1, <1>4, ViewsStep DEF ToldOK
<1>3. GoneOK(s)'
  BY <1>1, ViewsStep DEF GoneOK
<1> QED
  BY <1>2, <1>3

(* An answer tells a session as it stands only when no other call is about *)
(* to change that.                                                         *)
LEMMA Answered ==
  ASSUME CallType, OtherType, NEW h \in Handlers, NEW out, Reply(h, out),
         NEW s \in Sessions
  PROVE  \/ told'[s] = told[s]
         \/ /\ s = Mine(h) /\ told'[s] = out
            /\ out \in Told
            /\ \A g \in Handlers : ~Changes(g, s)'
<1>1. Quits(h)
  BY ReplyQuits
<1>2. CASE told' = told
  BY <1>2
<1>3. CASE /\ told' = [told EXCEPT ![Mine(h)] = out]
           /\ out \in Told /\ ~Contended(h)
  <2>1. CASE s # Mine(h)
    BY <1>3, <2>1 DEF OtherType
  <2>2. CASE s = Mine(h)
    BY <1>1, <1>3, <2>2 DEF OtherType, Changes, Contended, Quits, Mine
  <2> QED
    BY <2>1, <2>2
<1> QED
  BY <1>2, <1>3 DEF Reply, Mine

(* ToldInv and GoneInv are inductive.                                      *)
LEMMA ToldInductive ==
  ASSUME IInv, NextCases
  PROVE  ToldInv' /\ GoneInv'
<1> SUFFICES ASSUME NEW x \in Sessions
             PROVE  ToldOK(x)' /\ GoneOK(x)'
  BY DEF ToldInv, GoneInv, ToldOK, GoneOK
<1>1. FilesStep /\ CallType /\ OtherType /\ ToldOK(x) /\ GoneOK(x)
  BY FilesSteps, ToldParts DEF IInv, Types
<1>2. ASSUME NEW h \in Handlers, call[h].pc # "idle", Moves(h), told'[x] = told[x],
             Promised(x) => /\ up' = "up" => actors'[x] # None
                            /\ told[x] = "environment" => x \notin deleting'
      PROVE  ToldOK(x)' /\ GoneOK(x)'
  <2>1. /\ \A g \in Handlers : Changes(g, x)' => Changes(g, x)
        /\ \A g \in Handlers : Deletes(g, x)' => Deletes(g, x)
    BY <1>2, OpsKept
  <2>2. Promised(x)' => Promised(x)
    BY <1>2 DEF Promised
  <2> QED
    BY <1>1, <1>2, <2>1, <2>2, ToldKept
<1>14. ASSUME NEW h \in Handlers, DeleteBegins(h), Promised(x)
       PROVE  x \notin deleting'  \/ told[x] # "environment"
  <2>1. /\ call[h].pc # "idle" /\ call[h].op = "delete"
        /\ deleting' = deleting \cup {Mine(h)}
    BY <1>14 DEF DeleteBegins, Admitted, At
  <2>2. Deletes(h, Mine(h))
    BY <2>1 DEF Deletes, Mine
  <2>3. x # Mine(h)
    BY <1>1, <1>14, <2>2 DEF ToldOK
  <2> QED
    BY <1>1, <1>14, <2>1, <2>3 DEF ToldOK
<1>3. ASSUME NEW h \in Handlers, Silent(h)
      PROVE  ToldOK(x)' /\ GoneOK(x)'
  <2>1. /\ told' = told /\ actors' = actors /\ up = "up"
        /\ call[h].pc # "idle"
        /\ deleting' \subseteq deleting \/ DeleteBegins(h)
    BY <1>3, SilentKeeps
  <2>2. Moves(h)
    BY <1>1, <1>3, SilentMoves
  <2>3. Promised(x) => /\ actors'[x] # None
                       /\ told[x] = "environment" => x \notin deleting'
    BY <1>1, <1>14, <2>1 DEF ToldOK
  <2> QED
    BY <1>2, <2>1, <2>2, <2>3
<1>4. ASSUME NEW h \in Handlers, NEW op \in {"create", "delete"},
             NEW s \in Sessions, NEW z \in Sizes, Begin(h, op, s, z)
      PROVE  ToldOK(x)' /\ GoneOK(x)'
  <2>1. Takes(h, "admit", op, s)
    BY <1>1, <1>4, BeginTakes
  <2>2. /\ up = "up" /\ up' = up /\ actors' = actors /\ deleting' = deleting
        /\ x # s => told'[x] = told[x]
        /\ x = s => \/ told'[x] = "nothing"
                    \/ /\ op # "delete" /\ told'[x] = told[x]
                       /\ told[x] # "deleted"
    BY <1>1, <1>4 DEF Begin, At, OtherType
  <2>3. Promised(x)' =>
            /\ told'[x] = told[x]
            /\ \A g \in Handlers : Deletes(g, x)' => Deletes(g, x)
            /\ up' = "up" => actors'[x] # None
            /\ told[x] = "environment" => x \notin deleting'
    BY <1>1, <2>1, <2>2 DEF Takes, Deletes, ToldOK, Promised
  <2>4. told'[x] = "deleted" =>
            /\ told[x] = "deleted"
            /\ \A g \in Handlers : Changes(g, x)' => Changes(g, x)
    BY <2>1, <2>2 DEF Takes, Changes
  <2> QED
    BY <1>1, <2>3, <2>4, ToldKept
<1>5. ASSUME NEW h \in Handlers, NEW op \in {"start", "stop"},
             NEW s \in Sessions, BeginControl(h, op, s)
      PROVE  ToldOK(x)' /\ GoneOK(x)'
  <2>1. Takes(h, "control", op, s)
    BY <1>1, <1>5, BeginControlTakes
  <2>2. /\ up = "up" /\ up' = up /\ actors' = actors /\ told' = told
        /\ deleting' = deleting
    BY <1>5 DEF BeginControl, At
  <2>3. /\ \A g \in Handlers : Changes(g, x)' => Changes(g, x)
        /\ \A g \in Handlers : Deletes(g, x)' => Deletes(g, x)
    BY <2>1 DEF Takes, Changes, Deletes
  <2> QED
    BY <1>1, <2>2, <2>3, ToldKept DEF ToldOK, Promised
<1>6. ASSUME NEW h \in Handlers, NEW out, Reply(h, out), call[h].pc # "idle",
             Promised(x) => actors'[x] # None,
             deleting' \subseteq deleting,
             out \in {"environment", "hidden"} /\ x = Mine(h) =>
                /\ \A view \in images' : Acknowledged(view[x])
                /\ actors'[x] # None
                /\ out = "environment" => x \notin deleting',
             out = "deleted" /\ x = Mine(h) =>
                \A view \in images' : ~view[x].dir
      PROVE  ToldOK(x)' /\ GoneOK(x)'
  <2>1. CASE told'[x] = told[x]
    <3>1. Moves(h)
      BY <1>1, <1>6, ReplyQuits DEF Moves
    <3>2. Promised(x) /\ told[x] = "environment" => x \notin deleting'
      BY <1>1, <1>6 DEF ToldOK
    <3> QED
      BY <1>2, <1>6, <2>1, <3>1, <3>2
  <2>2. CASE /\ x = Mine(h) /\ told'[x] = out
             /\ \A g \in Handlers : ~Changes(g, x)'
    <3>1. \A g \in Handlers : ~Deletes(g, x)'
      BY <2>2 DEF Changes, Deletes
    <3> QED
      BY <1>6, <2>2, <3>1 DEF ToldOK, GoneOK, Promised
  <2> QED
    BY <1>1, <1>6, <2>1, <2>2, Answered
<1>7. ASSUME NEW h \in Handlers, CreateAnswered(h)
      PROVE  ToldOK(x)' /\ GoneOK(x)'
  <2>1. /\ call[h].pc # "idle" /\ up = "up" /\ actors' = actors
        /\ deleting' = deleting
    BY <1>7 DEF CreateAnswered, Admitted, At
  <2>2. CASE Reply(h, "capacity") \/ Reply(h, "conflict")
    BY <1>1, <1>6, <2>1, <2>2 DEF ToldOK
  <2>3. CASE /\ Reply(h, "environment") /\ actors[Mine(h)] # None
             /\ Mine(h) \notin deleting
    <3>1. x = Mine(h) => \A view \in images' : Acknowledged(view[x])
      BY <1>1, <2>3, ViewsStep
    <3> QED
      BY <1>1, <1>6, <2>1, <2>3, <3>1 DEF ToldOK
  <2> QED
    BY <1>7, <2>2, <2>3 DEF CreateAnswered, SameDefinition
<1>8. ASSUME NEW h \in Handlers, Created(h)
      PROVE  ToldOK(x)' /\ GoneOK(x)'
  <2>1. /\ call[h].pc # "idle" /\ up = "up" /\ deleting' = deleting
        /\ \/ Reply(h, "environment") /\ Mine(h) \notin deleting
           \/ Reply(h, "hidden")
    BY <1>8 DEF Created, At
  <2>2. /\ actors[x] # None => actors'[x] # None
        /\ x = Mine(h) => /\ \A view \in images' : Acknowledged(view[x])
                          /\ actors'[x] # None
    BY <1>1, <1>8, CreatedViews DEF Mine
  <2> QED
    BY <1>1, <1>6, <2>1, <2>2 DEF ToldOK
<1>9. ASSUME NEW h \in Handlers, Removed(h)
      PROVE  ToldOK(x)' /\ GoneOK(x)'
  <2>1. /\ call[h].pc = "purgesync" /\ up = "up" /\ actors' = actors
        /\ images' = {files} /\ deleting' \subseteq deleting
        /\ Reply(h, "rejected") \/ Reply(h, "deleted")
    BY <1>9 DEF Removed, At, Sync
  <2>2. x = Mine(h) => \A view \in images' : ~view[x].dir
    BY <2>1 DEF IInv, WorkInv, WorkOK, Mine
  <2> QED
    BY <1>1, <1>6, <2>1, <2>2 DEF ToldOK
<1>10. ASSUME NEW h \in Handlers, RemoveFails(h)
       PROVE  ToldOK(x)' /\ GoneOK(x)'
  <2>1. /\ call[h].pc # "idle" /\ up = "up" /\ actors' = actors
        /\ deleting' = deleting
        /\ call[h].removes \in {"undo", "orphan", "deletion"}
    BY <1>1, <1>10 DEF RemoveFails, At, CallType, Call
  <2>2. Reply(h, "rejected") \/ Reply(h, "unremoved") \/ Reply(h, "deleteFailed")
    BY <1>10, <2>1 DEF RemoveFails
  <2> QED
    BY <1>1, <1>6, <2>1, <2>2 DEF ToldOK
<1>11. ASSUME NEW h \in Handlers, Shutdown(h)
       PROVE  ToldOK(x)' /\ GoneOK(x)'
  <2>1. /\ call[h].pc = "shutdown" /\ up = "up" /\ told' = told
        /\ actors' = [actors EXCEPT ![Mine(h)] = None] /\ deleting' = deleting
    BY <1>11 DEF Shutdown, At
  <2>2. Moves(h)
    BY <1>1, <1>11, Turning DEF Moves, Pcs, Removes
  <2>3. Deletes(h, Mine(h))
    BY <2>1 DEF IInv, CallInv, CallOK, Ends, Deletes, Mine
  <2>4. Promised(x) => /\ actors'[x] # None
                       /\ told[x] = "environment" => x \notin deleting'
    BY <1>1, <2>1, <2>3 DEF ToldOK, IInv, Types, ActorType
  <2> QED
    BY <1>2, <2>1, <2>2, <2>4
<1>12. CASE \/ \E s \in Sessions : \/ BootAttaches(s) \/ BootFails(s)
                                 \/ StrayExits(s) \/ StartPurges(s) \/ StartDiscards(s)
            \/ StartLists \/ StartRestores \/ UNCHANGED vars
  <2>1. told' = told /\ call' = call /\ deleting' = deleting
    BY <1>12 DEF BootAttaches, BootFails, StrayExits, StartPurges, StartDiscards,
       StartLists,
                 StartRestores, vars
  <2>2. up' = "up" /\ Promised(x) => actors'[x] # None
    <3>1. CASE StartRestores
      BY <3>1, RestoredViews
    <3>2. CASE ~StartRestores
      <4>1. actors' = actors /\ (up' = "up" => up = "up")
        BY <1>12, <3>2 DEF BootAttaches, BootFails, StrayExits, StartPurges, StartDiscards,
                           StartLists, vars
      <4> QED
        BY <1>1, <4>1 DEF ToldOK
    <3> QED
      BY <3>1, <3>2
  <2>3. \A g \in Handlers : /\ Changes(g, x)' => Changes(g, x)
                            /\ Deletes(g, x)' => Deletes(g, x)
    BY <2>1 DEF Changes, Deletes
  <2> QED
    BY <1>1, <2>1, <2>2, <2>3, ToldKept DEF ToldOK, Promised
<1>13. CASE Crash
  <2>1. up' # "up" /\ told' = told /\ deleting' = {}
    BY <1>13 DEF Crash
  <2>2. \A g \in Handlers : ~Changes(g, x)' /\ ~Deletes(g, x)'
    BY <1>13 DEF Crash, Idle, Changes, Deletes
  <2> QED
    BY <1>1, <2>1, <2>2, ToldKept
<1> QED
  BY <1>3, <1>4, <1>5, <1>7, <1>8, <1>9, <1>10, <1>11, <1>12, <1>13
     DEF NextCases, Silent

-----------------------------------------------------------------------------
(* The theorems.                                                           *)

LEMMA InitInv == Init => IInv
<1> SUFFICES ASSUME Init
             PROVE  IInv
  OBVIOUS
<1>1. CallType /\ \A h \in Handlers : call[h].pc = "idle"
  BY DEF Init, Idle, CallType, Call
<1>2. QueueType
  BY DEF Init, QueueType
<1>3. FilesType
  BY DEF Init, FilesType, NoStorage, Storage
<1>4. ActorType /\ OtherType
  BY CrashesAssumption DEF Init, ActorType, OtherType, Lifecycles
<1>5. CallInv /\ ActorInv /\ WorkInv
  BY <1>1 DEF CallInv, CallOK, ActorInv, ActorOK, WorkInv, WorkOK, Makes, Ends,
              Removes, Serves
<1>6. DownInv
  BY DEF Init, DownInv
<1>7. QueueInv
  BY <1>1 DEF Init, QueueInv, QueueOK, LastOK, Distinct
<1>8. ComputeInv
  BY <1>1 DEF Init, ComputeInv, NoCompute, ComputeOK
<1>9. ViewsInv
  BY DEF Init, ViewsInv, Sound, NoStorage
<1>10. ToldInv /\ GoneInv
  BY DEF Init, ToldInv, GoneInv, Promised
<1> QED
  BY <1>1, <1>2, <1>3, <1>4, <1>5, <1>6, <1>7, <1>8, <1>9, <1>10 DEF IInv, Types

(* Every step keeps it.                                                    *)
LEMMA Inductive == IInv /\ [Next]_vars => IInv'
<1> SUFFICES ASSUME IInv, NextCases
             PROVE  IInv'
  BY Cases
<1>1. FilesStep
  BY FilesSteps
<1>2. Types'
  BY <1>1, CallTypeInductive, QueueTypeInductive, FilesTypeInductive,
     ActorTypeInductive, OtherTypeInductive DEF IInv, Types
<1>3. CallInv'
  BY CallInductive DEF IInv, Types
<1>4. ComputeInv'
  BY NoComputeInductive, ComputeInductive DEF ComputeInv
<1>5. WorkInv'
  BY WorkInductive DEF WorkInv
<1> QED
  BY <1>2, <1>3, <1>4, <1>5, DownInductive, ActorInductive, QueueInductive,
     ViewsInductive, ToldInductive DEF IInv

(* The inductive invariant holds in every state the runner reaches, for    *)
(* any sessions, handlers and sizes and any number of crashes.             *)
THEOREM Invariance == Spec => []IInv
BY InitInv, Inductive, PTL DEF Spec

(* Only calls that wait for a permit, or hold it, are in a queue.          *)
LEMMA QueuesServe ==
  ASSUME IInv
  PROVE  commands \in [Sessions -> Seq({h \in Handlers : call[h].pc \in Queues})]
<1>1. commands \in [Sessions -> Seq(Handlers)]
  BY DEF IInv, Types, QueueType
<1>2. ASSUME NEW s \in Sessions
      PROVE  commands[s] \in Seq({h \in Handlers : call[h].pc \in Queues})
  <2> DEFINE H == {h \in Handlers : call[h].pc \in Queues}
  <2>1. commands[s] \in Seq(Handlers) /\ QueueOK(s)
    BY <1>1 DEF IInv, QueueInv
  <2>2. \A i \in 1..Len(commands[s]) : commands[s][i] \in H
    BY <2>1 DEF QueueOK
  <2> HIDE DEF H
  <2>3. commands[s] \in Seq(H)
    BY <2>1, <2>2, SeqDef
  <2> QED
    BY <2>3 DEF H
<1> QED
  BY <1>1, <1>2

(* Every variable keeps its type; the queues of the actors hold only calls *)
(* that wait for their permit or hold it.                                  *)
THEOREM TypeCorrect == Spec => []TypeOK
<1>1. IInv => TypeOK
  BY QueuesServe DEF IInv, Types, CallType, ActorType, OtherType, FilesType,
     TypeOK,
     Queues, Lifecycles
<1> QED
  BY <1>1, Invariance, PTL

(* What supervisor.create acknowledged is kept: until its deletion is      *)
(* asked for, the definition is in every storage a crash may leave, and a  *)
(* runner that is up has its actor; control calls find it, unless it was   *)
(* created under the mark of an earlier deletion.                          *)
THEOREM CreatedKept == Spec => []CreatedIsKept
<1>1. IInv => CreatedIsKept
  BY DEF IInv, ToldInv, Promised, Acknowledged, Found, CreatedIsKept
<1> QED
  BY <1>1, Invariance, PTL

(* What supervisor.delete acknowledged after its removal is gone, whether  *)
(* or not storage operations fail: no actor has it and no storage a crash  *)
(* may leave.                                                              *)
THEOREM DeletedGone == Spec => []DeletedIsGone
<1>1. IInv => DeletedIsGone
  <2> SUFFICES ASSUME IInv, NEW s \in Sessions, told[s] = "deleted"
               PROVE  Gone(s)
    BY DEF DeletedIsGone
  <2>1. \A view \in images : ~view[s].dir
    BY DEF IInv, GoneInv
  <2>2. files \in images
    BY DEF IInv, Types, FilesType
  <2> QED
    BY <2>1, <2>2, FileIsSound DEF Acknowledged, Gone
<1> QED
  BY <1>1, Invariance, PTL

(* No step removes the root disk of a session while a VM may have it open: *)
(* its environment's, or one that a failed startup left.                   *)
THEOREM DiskDetached == Spec => RemovedIsDetached
<1>1. ASSUME IInv, [Next]_vars, NEW s \in Sessions,
             files[s].dir, ~files'[s].dir
      PROVE  compute[s] # "attached" /\ s \notin stray
  <2>1. FilesStep
    BY <1>1, Cases, FilesSteps
  <2>2. files' \in images'
    BY <1>1, <2>1, FilesTypeInductive DEF IInv, Types, FilesType
  <2>3. actors[s] = None
    BY <1>1, <2>1, <2>2, ViewsStep DEF Acknowledged
  <2> QED
    BY <1>1, <2>3 DEF IInv, ComputeInv, NoCompute
<1>2. IInv /\ [Next]_vars =>
         [\A s \in Sessions : files[s].dir /\ ~files'[s].dir =>
             compute[s] # "attached" /\ s \notin stray]_vars
  BY <1>1
<1> QED
  BY <1>2, Invariance, PTL DEF Spec, RemovedIsDetached

(* A runner comes up by the last step of its start alone.                  *)
LEMMA OnlyRestoring ==
  ASSUME NextCases, up # "up", up' = "up"
  PROVE  StartRestores
<1>1. ASSUME NEW h \in Handlers, Silent(h)
      PROVE  FALSE
  BY <1>1, SilentKeeps
<1>2. ASSUME NEW h \in Handlers,
             \/ CreateAnswered(h) \/ Created(h) \/ Removed(h) \/ RemoveFails(h)
             \/ Shutdown(h)
             \/ \E op \in {"create", "delete"}, s \in Sessions, z \in Sizes :
                   Begin(h, op, s, z)
             \/ \E op \in {"start", "stop"}, s \in Sessions : BeginControl(h, op, s)
      PROVE  FALSE
  BY <1>2 DEF At, Admitted, Begin, BeginControl, CreateAnswered, Created, Removed,
              RemoveFails, Shutdown
<1>3. ASSUME \/ \E s \in Sessions : \/ BootAttaches(s) \/ BootFails(s)
                                   \/ StrayExits(s) \/ StartPurges(s) \/ StartDiscards(s)
             \/ Crash \/ StartLists \/ UNCHANGED vars
      PROVE  FALSE
  BY <1>3 DEF BootAttaches, BootFails, StrayExits, StartPurges, StartDiscards, Crash, StartLists,
              vars
<1> QED
  BY <1>1, <1>2, <1>3 DEF NextCases, Silent

(* A start serves exactly the storages it has and none waits to be         *)
(* deleted, but for an empty one that a failing storage would not remove.  *)
THEOREM RestoredExactly == Spec => RestoresExactly
<1> DEFINE Restored(s) ==
              /\ actors'[s] # None => files'[s].dir
              /\ files'[s].dir /\ actors'[s] = None =>
                    Faults /\ files'[s].def = None /\ ~files'[s].disk
              /\ files'[s].queued => Faults
<1>1. ASSUME IInv, [Next]_vars, up # "up", up' = "up", NEW s \in Sessions
      PROVE  Restored(s)
  <2>1. StartRestores
    BY <1>1, Cases, OnlyRestoring
  <2>2. /\ files' = files /\ actors'[s] = files[s].def
        /\ Faults \/ (~files[s].queued /\ ~Unacknowledged(s))
    BY <1>1, <2>1 DEF StartRestores, IInv, DownInv
  <2>3. Sound(files[s])
    BY <1>1, FileIsSound
  <2> QED
    BY <2>2, <2>3 DEF Sound, Unacknowledged
<1>2. IInv /\ [Next]_vars =>
         [up # "up" /\ up' = "up" => \A s \in Sessions : Restored(s)]_vars
  BY <1>1
<1> QED
  BY <1>2, Invariance, PTL DEF Spec, RestoresExactly

=============================================================================
