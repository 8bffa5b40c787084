------------------------ MODULE EnvironmentSupervisor ------------------------
(***************************************************************************)
(* The runner's environments: which exist, and what of them is on disk     *)
(* (packages/runner/src/environment/session/supervisor.ts over store.ts,   *)
(* with the command permit of actor.ts).                                   *)
(*                                                                         *)
(* A handler is the fiber of one create, control or delete call; creations *)
(* and deletions take the admission permit, and every command of an actor  *)
(* its `commands` permit, in order.  An actor's compute is abstracted to   *)
(* what EnvironmentContract promises of it.  The runner may crash between  *)
(* any two steps, and lose what the file system did since the last sync;   *)
(* it keeps its identity, so every definition in its directory is its own. *)
(***************************************************************************)
EXTENDS Naturals, Sequences, FiniteSets, SequencesExt

CONSTANTS
    Sessions,
    Handlers,       \* fibers that serve the gateway's calls
    Sizes,          \* orb sizes
    Fitting,        \* those the runner has the capacity for
    None,
    Faults,         \* whether storage operations may fail
    Interrupts,     \* whether a call may be interrupted (disconnect, timeout)
    MaxCrashes      \* crashes of the runner in a behaviour

ASSUME SizesAssumption == Fitting \subseteq Sizes /\ None \notin Sizes
ASSUME HandlersAssumption == None \notin Handlers
ASSUME FlagsAssumption == Faults \in BOOLEAN /\ Interrupts \in BOOLEAN
ASSUME CrashesAssumption == MaxCrashes \in Nat

VARIABLES
    up,         \* the process: "purging", "restoring" or "up"
    crashes,
    admission,  \* the admission permit's holder, or None
    actors,     \* sessions with an actor, and their definition's orb size
    deleting,   \* sessions whose deletion has begun
    commands,   \* per actor: its permit's holder, then who waits for it
    compute,    \* per actor: what its lifecycle holds
    stray,      \* sessions of whose disk a failed startup's VM is not closed
    call,       \* per handler: what it serves and where it is
    files,      \* the storage, per session
    images,     \* the storages a power loss may leave
    told        \* what a gateway was last told of the session (history)

vars == <<up, crashes, admission, actors, deleting, commands, compute, stray,
          call, files, images, told>>

(* A session's directory with its definition (a published orb size) and    *)
(* root disk; whether an earlier one waits among the deletions, and with   *)
(* something in it (a definition's candidate alone is not counted).        *)
Storage == [dir : BOOLEAN, def : Sizes \cup {None}, disk : BOOLEAN,
            queued : BOOLEAN, full : BOOLEAN]
NoStorage == [dir |-> FALSE, def |-> None, disk |-> FALSE, queued |-> FALSE,
              full |-> FALSE]

(* What a gateway is told: that the environment is there, although hidden  *)
(* by the mark of an earlier deletion; that it is deleted, although its    *)
(* storage could not be removed.                                           *)
Told == {"environment", "hidden", "deleted", "unremoved"}

Call == [pc : {"idle", "admit", "mkdir", "rootsync", "publish", "defsync",
               "rename", "dirsync", "purge", "purgesync",
               "control", "ready", "stop", "check", "shutdown"},
         op : {"create", "start", "stop", "delete"},
         session : Sessions \cup {None}, size : Sizes \cup {None},
         removes : {"undo", "orphan", "deletion"}]  \* why it calls store.remove

TypeOK ==
    /\ up \in {"purging", "restoring", "up"}
    /\ crashes \in 0..MaxCrashes
    /\ admission \in Handlers \cup {None}
    /\ actors \in [Sessions -> Sizes \cup {None}]
    /\ deleting \subseteq Sessions
    /\ commands \in [Sessions -> Seq({h \in Handlers : call[h].pc \in
                                        {"control", "ready", "stop", "shutdown"}})]
    /\ compute \in [Sessions -> {"stopped", "booting", "attached", "released"}]
    /\ stray \subseteq Sessions
    /\ call \in [Handlers -> Call]
    /\ files \in [Sessions -> Storage]
    /\ files \in images
    /\ told \in [Sessions -> {"nothing"} \cup Told]

Idle == [pc |-> "idle", op |-> "create", session |-> None, size |-> None,
         removes |-> "undo"]

Init ==
    /\ up = "up"
    /\ crashes = 0
    /\ admission = None
    /\ actors = [s \in Sessions |-> None]
    /\ deleting = {}
    /\ commands = [s \in Sessions |-> <<>>]
    /\ compute = [s \in Sessions |-> "stopped"]
    /\ stray = {}
    /\ call = [h \in Handlers |-> Idle]
    /\ files = [s \in Sessions |-> NoStorage]
    /\ images = {files}
    /\ told = [s \in Sessions |-> "nothing"]
-----------------------------------------------------------------------------
(* Helpers *)

(* A change of the storage that no sync has made durable yet, and a sync.  *)
Write(s, new) ==
    /\ files' = [files EXCEPT ![s] = new]
    /\ images' = images \cup {files'}
Sync == UNCHANGED files /\ images' = {files}

(* An operation that fails, or is interrupted, may have had its effect;    *)
(* a purge, a part of it.                                                  *)
MayWrite(s, new) == Write(s, new) \/ UNCHANGED <<files, images>>
MayPurge(s) == \E left \in {FALSE, files[s].queued} :
                  MayWrite(s, [files[s] EXCEPT !.queued = left, !.full = FALSE])

Goto(h, pc) ==
    /\ call' = [call EXCEPT ![h].pc = pc]
    /\ UNCHANGED <<admission, commands, told>>

(* commands: a caller waits for its session's permit and holds it as head. *)
Enqueued(h) ==
    commands' = [commands EXCEPT ![call[h].session] = Append(@, h)]
Place(q, h) == CHOOSE i \in 1..Len(q) : q[i] = h
Without(q, h) ==
    IF \E i \in 1..Len(q) : q[i] = h THEN RemoveAt(q, Place(q, h)) ELSE q
Released(h) == [s \in Sessions |-> Without(commands[s], h)]
Holds(h) ==
    /\ commands[call[h].session] # <<>>
    /\ Head(commands[call[h].session]) = h

(* The end of a call, which gives its permits back.  It tells the gateway  *)
(* how a session stands unless another call is about to change that.       *)
Contended(h) ==
    \E g \in Handlers \ {h} : /\ call[g].session = call[h].session
                             /\ call[g].op \in {"create", "delete"}
(* Plausible defect: a call that ends early keeps the actor's permit.      *)
Reply_KeepsPermit(h, out) ==
    /\ call' = [call EXCEPT ![h] = Idle]
    /\ admission' = IF admission = h THEN None ELSE admission
    /\ UNCHANGED commands
    /\ told' = IF out \in Told /\ ~Contended(h)
                 THEN [told EXCEPT ![call[h].session] = out] ELSE told

Reply(h, out) ==
    /\ call' = [call EXCEPT ![h] = Idle]
    /\ admission' = IF admission = h THEN None ELSE admission
    /\ commands' = Released(h)
    /\ told' = IF out \in Told /\ ~Contended(h)
                 THEN [told EXCEPT ![call[h].session] = out] ELSE told

(* A handler at work on its session; nobody is served during a start.      *)
At(h, pc) == up = "up" /\ call[h].pc = pc
Mine(h) == call[h].session
-----------------------------------------------------------------------------
(* Calls *)

(* A create or a delete is admitted in its turn.  What the gateway was     *)
(* told before holds no longer, unless the call repeats a creation.        *)
Begin(h, op, s, z) ==
    /\ At(h, "idle")
    /\ op \in {"create", "delete"}
    /\ call' = [call EXCEPT ![h] =
                    [@ EXCEPT !.pc = "admit", !.op = op, !.session = s,
                              !.size = IF op = "create" THEN z ELSE None]]
    /\ told' = IF op = "create" /\ told[s] \in {"environment", "hidden"}
                 THEN told ELSE [told EXCEPT ![s] = "nothing"]
    /\ UNCHANGED <<up, crashes, admission, actors, deleting, commands, compute,
                   stray, files, images>>

(* find: a control call for an environment that exists, and is not being   *)
(* deleted, waits for the actor's permit at once.                          *)
Found_Deleting(s) == actors[s] # None    \* plausible defect: only the actor counts
Found(s) == actors[s] # None /\ s \notin deleting

BeginControl(h, op, s) ==
    /\ At(h, "idle")
    /\ op \in {"start", "stop"}
    /\ Found(s)
    /\ call' = [call EXCEPT ![h] = [@ EXCEPT !.pc = "control", !.op = op,
                                             !.session = s]]
    /\ commands' = [commands EXCEPT ![s] = Append(@, h)]
    /\ UNCHANGED <<up, crashes, admission, actors, deleting, compute, stray,
                   files, images, told>>

PublishDisk(s) ==
    /\ files' = [files EXCEPT ![s].disk = TRUE]
    /\ images' = {files'}

(* A boot has its own fiber: it goes on when the call that began it ends.  *)
(* It needs a disk that no VM has open.                                    *)
BootAttaches(s) ==
    /\ up = "up" /\ compute[s] = "booting" /\ s \notin stray
    /\ compute' = [compute EXCEPT ![s] = "attached"]
    /\ PublishDisk(s)
    /\ UNCHANGED <<up, crashes, admission, actors, deleting, commands, stray,
                   call, told>>

(* It may fail before it has published the disk, or after; and leave a VM  *)
(* that could not be closed, whose handle is lost.                         *)
BootFails(s) ==
    /\ up = "up" /\ compute[s] = "booting"
    /\ compute' = [compute EXCEPT ![s] = "released"]
    /\ \/ UNCHANGED <<stray, files, images>>
       \/ stray' \in {stray, stray \cup {s}} /\ PublishDisk(s)
    /\ UNCHANGED <<up, crashes, admission, actors, deleting, commands, call, told>>

StrayExits(s) ==
    /\ s \in stray
    /\ stray' = stray \ {s}
    /\ UNCHANGED <<up, crashes, admission, actors, deleting, commands, compute,
                   call, files, images, told>>

(* What a stop leaves: nothing, or after a failure its instance, which may *)
(* or may not have let go of the disk.                                     *)
Stopped(held) == IF held = "stopped" THEN {held} ELSE {"stopped", held, "released"}

(* Under the permit a start shares a boot or, once what an earlier one     *)
(* left is released, boots; a restart always boots.                        *)
ControlStarts(h) ==
    /\ At(h, "control") /\ Holds(h)
    /\ call[h].op = "start"
    /\ \/ compute' = [compute EXCEPT ![Mine(h)] = "booting"]
       \/ compute[Mine(h)] \in {"booting", "attached"} /\ UNCHANGED compute
    /\ Goto(h, "ready")
    /\ UNCHANGED <<up, crashes, actors, deleting, stray, files, images>>

ControlReady(h) ==
    /\ At(h, "ready")
    /\ compute[Mine(h)] # "booting"
    /\ Reply(h, "controlled")
    /\ UNCHANGED <<up, crashes, actors, deleting, compute, stray, files, images>>

(* A stop, or a start that cannot release what an earlier one left.        *)
ControlStops(h) ==
    /\ At(h, "control") /\ Holds(h)
    /\ \E left \in Stopped(compute[Mine(h)]) :
          /\ call[h].op = "start" => left # "stopped"
          /\ compute' = [compute EXCEPT ![Mine(h)] = left]
    /\ Reply(h, "controlled")
    /\ UNCHANGED <<up, crashes, actors, deleting, stray, files, images>>
-----------------------------------------------------------------------------
(* create *)

(* The admission permit, which one creation or deletion holds at a time.   *)
Admitted(h, op) ==
    /\ At(h, "admit") /\ call[h].op = op
    /\ admission = None

(* Over capacity; or, of an environment that exists, its snapshot when the *)
(* definition is the same, a conflict otherwise.                           *)
SameDefinition(h) ==
    actors[Mine(h)] = call[h].size /\ Mine(h) \notin deleting

CreateAnswered(h) ==
    /\ Admitted(h, "create")
    /\ \/ call[h].size \notin Fitting /\ Reply(h, "capacity")
       \/ /\ call[h].size \in Fitting /\ actors[Mine(h)] # None
          /\ Reply(h, IF SameDefinition(h) THEN "environment" ELSE "conflict")
    /\ UNCHANGED <<up, crashes, actors, deleting, compute, stray, files, images>>

CreateBegins(h) ==
    /\ Admitted(h, "create")
    /\ call[h].size \in Fitting /\ actors[Mine(h)] = None
    /\ admission' = h
    /\ call' = [call EXCEPT ![h].pc = "mkdir"]
    /\ UNCHANGED <<up, crashes, actors, deleting, commands, compute, stray,
                   files, images, told>>

NewDirectory == [NoStorage EXCEPT !.dir = TRUE]

(* store.create: mkdir decides, a storage that exists is never reused.     *)
MakeDirectory(h) ==
    /\ At(h, "mkdir")
    /\ IF files[Mine(h)].dir
         THEN Reply(h, "conflict") /\ UNCHANGED <<files, images>>
         ELSE /\ Write(Mine(h), [files[Mine(h)] EXCEPT !.dir = TRUE])
              /\ Goto(h, "rootsync")
    /\ UNCHANGED <<up, crashes, actors, deleting, compute, stray>>

SyncRoot(h) ==
    /\ At(h, "rootsync")
    /\ Sync
    /\ Goto(h, "publish")
    /\ UNCHANGED <<up, crashes, actors, deleting, compute, stray>>

(* writeDefinition: a synced candidate is renamed to the definition.       *)
PublishDefinition(h) ==
    /\ At(h, "publish")
    /\ Write(Mine(h), [files[Mine(h)] EXCEPT !.def = call[h].size])
    /\ Goto(h, "defsync")
    /\ UNCHANGED <<up, crashes, actors, deleting, compute, stray>>

(* Plausible defect: the rename of the definition is not synced.           *)
Created_Unsynced(h) ==
    /\ At(h, "defsync")
    /\ UNCHANGED <<files, images>>
    /\ actors' = [actors EXCEPT ![Mine(h)] = call[h].size]
    /\ Reply(h, IF Mine(h) \in deleting THEN "hidden" ELSE "environment")
    /\ UNCHANGED <<up, crashes, deleting, compute, stray>>

(* The definition is durable: the actor exists and the gateway is told.    *)
(* An earlier deletion that was cut short, or failed, has left its mark in *)
(* `deleting`, which hides the environment from every control call.        *)
Created(h) ==
    /\ At(h, "defsync")
    /\ Sync
    /\ actors' = [actors EXCEPT ![Mine(h)] = call[h].size]
    /\ Reply(h, IF Mine(h) \in deleting THEN "hidden" ELSE "environment")
    /\ UNCHANGED <<up, crashes, deleting, compute, stray>>

(* onError: what a failed creation wrote is removed before it is rejected. *)
Undo(h) ==
    /\ call' = [call EXCEPT ![h] = [@ EXCEPT !.pc = "rename", !.removes = "undo"]]
    /\ UNCHANGED <<admission, commands, told>>

CreateFails(h) ==
    /\ Faults
    /\ \/ /\ At(h, "mkdir")
          /\ Reply(h, "rejected")
          /\ UNCHANGED <<files, images>>
       \/ /\ At(h, "rootsync") \/ At(h, "defsync")
          /\ Undo(h)
          /\ UNCHANGED <<files, images>>
       \/ /\ At(h, "publish")
          /\ Undo(h)
          /\ MayWrite(Mine(h), [files[Mine(h)] EXCEPT !.def = call[h].size])
    /\ UNCHANGED <<up, crashes, actors, deleting, compute, stray>>
-----------------------------------------------------------------------------
(* store.remove: the directory is renamed among the deletions, durably,    *)
(* and then purged.                                                        *)

(* What is left of an earlier removal, unless it is an empty directory,    *)
(* refuses the rename.                                                     *)
Refused(s) == files[s].dir /\ files[s].full

(* Plausible defect: the directory is emptied in place, definition first.  *)
Queued_InPlace(s) == [files[s] EXCEPT !.def = None]
Queued(s) ==
    IF ~files[s].dir \/ Refused(s) THEN files[s]
      ELSE [NoStorage EXCEPT !.queued = TRUE,
                             !.full = files[s].def # None \/ files[s].disk]
Purged(s) == [files[s] EXCEPT !.queued = FALSE, !.full = FALSE]

MoveAway(h) ==
    /\ At(h, "rename")
    /\ ~Refused(Mine(h))
    /\ IF files[Mine(h)].dir
         THEN Write(Mine(h), Queued(Mine(h))) /\ Goto(h, "dirsync")
         ELSE UNCHANGED <<files, images>> /\ Goto(h, "purge")
    /\ UNCHANGED <<up, crashes, actors, deleting, compute, stray>>

SyncMove(h) ==
    /\ At(h, "dirsync")
    /\ Sync
    /\ Goto(h, "purge")
    /\ UNCHANGED <<up, crashes, actors, deleting, compute, stray>>

Purge(h) ==
    /\ At(h, "purge")
    /\ Write(Mine(h), Purged(Mine(h)))
    /\ Goto(h, "purgesync")
    /\ UNCHANGED <<up, crashes, actors, deleting, compute, stray>>

(* The end of a removal: of what a failed creation wrote, of a session no  *)
(* actor knows, or of a deleted environment.                               *)
Removed(h) ==
    /\ At(h, "purgesync")
    /\ Sync
    /\ Reply(h, IF call[h].removes = "undo" THEN "rejected" ELSE "deleted")
    /\ deleting' = IF call[h].removes = "deletion" THEN deleting \ {Mine(h)}
                                                   ELSE deleting
    /\ UNCHANGED <<up, crashes, actors, compute, stray>>

(* Only the removal of an environment's storage reports its failure; of a  *)
(* session no actor knows, it is ignored.                                  *)
RemoveFails(h) ==
    /\ \/ /\ At(h, "rename") /\ Refused(Mine(h))
          /\ UNCHANGED <<files, images>>
       \/ /\ Faults /\ At(h, "rename")
          /\ MayWrite(Mine(h), Queued(Mine(h)))
       \/ /\ Faults /\ At(h, "purge")
          /\ MayPurge(Mine(h))
       \/ /\ Faults /\ (At(h, "dirsync") \/ At(h, "purgesync"))
          /\ UNCHANGED <<files, images>>
    /\ Reply(h, CASE call[h].removes = "undo"     -> "rejected"
                  [] call[h].removes = "orphan"   -> "unremoved"
                  [] call[h].removes = "deletion" -> "deleteFailed")
    /\ UNCHANGED <<up, crashes, actors, deleting, compute, stray>>
-----------------------------------------------------------------------------
(* delete *)

(* Plausible defect: an environment without an actor is taken for gone.    *)
DeleteOrphan_Trusted(h) ==
    /\ Admitted(h, "delete")
    /\ actors[Mine(h)] = None
    /\ Reply(h, "deleted")
    /\ UNCHANGED <<up, crashes, actors, deleting, compute, stray, files, images>>

(* Without an actor the storage is removed all the same.                   *)
DeleteOrphan(h) ==
    /\ Admitted(h, "delete")
    /\ actors[Mine(h)] = None
    /\ admission' = h
    /\ call' = [call EXCEPT ![h] = [@ EXCEPT !.pc = "rename", !.removes = "orphan"]]
    /\ UNCHANGED <<up, crashes, actors, deleting, commands, compute, stray,
                   files, images, told>>

(* From here on no control call finds the environment; those that had are  *)
(* ahead of the deletion in the actor's queue.                             *)
DeleteBegins(h) ==
    /\ Admitted(h, "delete")
    /\ actors[Mine(h)] # None
    /\ admission' = h
    /\ deleting' = deleting \cup {Mine(h)}
    /\ call' = [call EXCEPT ![h].pc = "stop"]
    /\ Enqueued(h)
    /\ UNCHANGED <<up, crashes, actors, compute, stray, files, images, told>>

(* stopForDeletion: a failure makes the environment visible again.         *)
StopForDeletion(h) ==
    /\ At(h, "stop") /\ Holds(h)
    /\ \E left \in Stopped(compute[Mine(h)]) :
          /\ compute' = [compute EXCEPT ![Mine(h)] = left]
          /\ IF left = "stopped"
               THEN /\ call' = [call EXCEPT ![h].pc = "check"]
                    /\ commands' = Released(h)
                    /\ UNCHANGED <<admission, told, deleting>>
               ELSE /\ Reply(h, "rejected")
                    /\ deleting' = deleting \ {Mine(h)}
    /\ UNCHANGED <<up, crashes, actors, stray, files, images>>

(* assertDetached: the root disk must not be open.                         *)
Detached(s) == compute[s] # "attached" /\ s \notin stray

CheckDetached(h) ==
    /\ At(h, "check")
    /\ IF Detached(Mine(h))
         THEN /\ call' = [call EXCEPT ![h].pc = "shutdown"]
              /\ Enqueued(h)
              /\ UNCHANGED <<admission, told, deleting>>
         ELSE /\ Reply(h, "rejected")
              /\ deleting' = deleting \ {Mine(h)}
    /\ UNCHANGED <<up, crashes, actors, compute, stray, files, images>>

(* shutdown ignores that neither its stop nor its forced one may succeed.  *)
Shutdown(h) ==
    /\ At(h, "shutdown") /\ Holds(h)
    /\ \E left \in Stopped(compute[Mine(h)]) :
          compute' = [compute EXCEPT ![Mine(h)] = left]
    /\ actors' = [actors EXCEPT ![Mine(h)] = None]
    /\ commands' = Released(h)
    /\ call' = [call EXCEPT ![h] = [@ EXCEPT !.pc = "rename",
                                             !.removes = "deletion"]]
    /\ UNCHANGED <<up, crashes, admission, deleting, stray, files, images, told>>
-----------------------------------------------------------------------------
(* Interruptions, crashes and restarts *)

(* A call interrupted while its storage operation is under way leaves it   *)
(* to complete or not; a creation past its mkdir is undone first, and      *)
(* nothing interrupts that.                                                *)
Interrupted(h) == Reply(h, "interrupted")

Interrupt(h) ==
    /\ Interrupts /\ up = "up"
    /\ \/ /\ call[h].pc \in {"admit", "control", "ready", "stop", "check", "shutdown"}
          /\ Interrupted(h)
          /\ UNCHANGED <<files, images>>
       \/ /\ call[h].pc = "mkdir" /\ ~files[Mine(h)].dir
          /\ Interrupted(h)
          /\ MayWrite(Mine(h), [files[Mine(h)] EXCEPT !.dir = TRUE])
       \/ /\ call[h].pc \in {"rootsync", "defsync"}
          /\ Undo(h)
          /\ UNCHANGED <<files, images>>
       \/ /\ call[h].pc = "publish"
          /\ Undo(h)
          /\ MayWrite(Mine(h), [files[Mine(h)] EXCEPT !.def = call[h].size])
       \/ /\ call[h].pc = "rename" /\ call[h].removes # "undo"
          /\ Interrupted(h)
          /\ MayWrite(Mine(h), Queued(Mine(h)))
       \/ /\ call[h].pc = "purge" /\ call[h].removes # "undo"
          /\ Interrupted(h)
          /\ MayPurge(Mine(h))
       \/ /\ call[h].pc \in {"dirsync", "purgesync"}
          /\ call[h].removes # "undo"
          /\ Interrupted(h)
          /\ UNCHANGED <<files, images>>
    /\ UNCHANGED <<up, crashes, actors, deleting, compute, stray>>

(* The process ends, with every VM of its own, or the host loses power.    *)
Crash ==
    /\ crashes < MaxCrashes
    /\ crashes' = crashes + 1
    /\ files' \in images
    /\ images' = {files'}
    /\ up' = "purging"
    /\ admission' = None
    /\ actors' = [s \in Sessions |-> None]
    /\ deleting' = {}
    /\ commands' = [s \in Sessions |-> <<>>]
    /\ compute' = [s \in Sessions |-> "stopped"]
    /\ stray' = {}
    /\ call' = [h \in Handlers |-> Idle]
    /\ UNCHANGED told

(* A start purges the deletions a crash interrupted before it lists.       *)
StartPurges(s) ==
    /\ up = "purging"
    /\ files[s].queued
    /\ files' = [files EXCEPT ![s] = Purged(s)]
    /\ images' = {files'}
    /\ UNCHANGED <<up, crashes, admission, actors, deleting, commands, compute,
                   stray, call, told>>

StartLists ==
    /\ up = "purging"
    /\ \A s \in Sessions : ~files[s].queued
    /\ up' = "restoring"
    /\ UNCHANGED <<crashes, admission, actors, deleting, commands, compute, stray,
                   call, files, images, told>>

(* A directory without a definition was never acknowledged: it is removed, *)
(* unless it has a disk.  A removal that fails may leave it where it was,  *)
(* or among the deletions.                                                 *)
Unacknowledged(s) == files[s].dir /\ files[s].def = None /\ ~files[s].disk

StartDiscards(s) ==
    /\ up = "restoring"
    /\ Unacknowledged(s)
    /\ \/ files' = [files EXCEPT ![s] = NoStorage] /\ images' = {files'}
       \/ Faults /\ Write(s, Queued(s))
    /\ UNCHANGED <<up, crashes, admission, actors, deleting, commands, compute,
                   stray, call, told>>

(* Every other definition is an environment again, and stopped.            *)
StartRestores ==
    /\ up = "restoring"
    /\ Faults \/ \A s \in Sessions : ~Unacknowledged(s)
    /\ actors' = [s \in Sessions |-> files[s].def]
    /\ up' = "up"
    /\ UNCHANGED <<crashes, admission, deleting, commands, compute, stray, call,
                   files, images, told>>
-----------------------------------------------------------------------------
CreateStep(h) ==
    \/ CreateAnswered(h) \/ CreateBegins(h) \/ MakeDirectory(h) \/ SyncRoot(h)
    \/ PublishDefinition(h) \/ Created(h) \/ CreateFails(h)

DeleteStep(h) ==
    \/ DeleteOrphan(h) \/ DeleteBegins(h) \/ StopForDeletion(h)
    \/ CheckDetached(h) \/ Shutdown(h)

RemoveStep(h) ==
    MoveAway(h) \/ SyncMove(h) \/ Purge(h) \/ Removed(h) \/ RemoveFails(h)

ControlStep(h) == ControlStarts(h) \/ ControlReady(h) \/ ControlStops(h)

HandlerStep(h) ==
    CreateStep(h) \/ DeleteStep(h) \/ RemoveStep(h) \/ ControlStep(h)

Boot(s) == BootAttaches(s) \/ BootFails(s)
Start == StartLists \/ StartRestores
         \/ \E s \in Sessions : StartPurges(s) \/ StartDiscards(s)

Next ==
    \/ \E h \in Handlers :
          \/ \E op \in {"create", "delete"}, s \in Sessions, z \in Sizes :
                Begin(h, op, s, z)
          \/ \E op \in {"start", "stop"}, s \in Sessions : BeginControl(h, op, s)
          \/ HandlerStep(h)
          \/ Interrupt(h)
    \/ \E s \in Sessions : Boot(s) \/ StrayExits(s)
    \/ Crash
    \/ Start

(* Storage operations end, a stop has deadlines of its own, the            *)
(* supervisor's permits are served in turn, and a runner is restarted.     *)
(* Nothing makes a boot end: its deadline waits for the VM's acquisition.  *)
Fairness ==
    /\ \A h \in Handlers : SF_vars(HandlerStep(h))
    /\ WF_vars(Start)

Spec == Init /\ [][Next]_vars
FairSpec == Spec /\ Fairness
-----------------------------------------------------------------------------
(* Properties *)

(* An environment the gateway was told of is there until its deletion is   *)
(* asked for, through every crash: its definition is on disk, and a runner *)
(* that is up has its actor, which every control call finds unless the     *)
(* environment was created under the mark of an earlier deletion.          *)
CreatedIsKept ==
    \A s \in Sessions : told[s] \in {"environment", "hidden"} =>
        /\ \A view \in images : view[s].dir /\ view[s].def # None
        /\ up = "up" => actors[s] # None /\ (told[s] = "hidden" \/ Found(s))

(* Nothing of it is left: no actor, and no storage in whatever state a     *)
(* crash may leave.                                                        *)
Gone(s) == actors[s] = None /\ \A view \in images : ~view[s].dir

(* An environment the gateway was told is deleted never comes back, unless *)
(* the removal that it was told of had failed.                             *)
DeletedIsGone == \A s \in Sessions : told[s] = "deleted" => Gone(s)

(* What supervisor.ts says of a deletion that is repeated, "finishing it   *)
(* is idempotent": whoever is told that it succeeded finds nothing left.   *)
AnsweredIsGone ==
    \A s \in Sessions : told[s] \in {"deleted", "unremoved"} => Gone(s)

(* A root disk is never removed while a VM may have it open.               *)
RemovedIsDetached ==
    [][\A s \in Sessions :
          files[s].dir /\ ~files'[s].dir =>
              compute[s] # "attached" /\ s \notin stray]_vars

(* A start after a crash serves exactly the storages it has: it restores   *)
(* what was acknowledged and leaves nothing of a creation or a deletion    *)
(* that was not completed, which would refuse a repeated creation.  When   *)
(* storage fails, a directory that holds nothing may stay unserved.        *)
RestoresExactly ==
    [][up # "up" /\ up' = "up" =>
          \A s \in Sessions :
              /\ actors'[s] # None => files'[s].dir
              /\ files'[s].dir /\ actors'[s] = None =>
                    Faults /\ files'[s].def = None /\ ~files'[s].disk
              /\ files'[s].queued => Faults]_vars

(* Every call is answered, although creations and deletions, and a         *)
(* deletion and the commands before it, wait for each other: unless an     *)
(* environment boots for ever, behind which its commands wait, and behind  *)
(* its deletion every other creation and deletion.                         *)
CallsEnd ==
    \/ \A h \in Handlers : []<>(call[h].pc = "idle")
    \/ \E s \in Sessions : <>[](compute[s] = "booting")
=============================================================================
