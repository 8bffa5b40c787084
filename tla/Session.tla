------------------------------ MODULE Session ------------------------------
(***************************************************************************)
(* The Session Durable Object                                              *)
(* (packages/gateway/app/cells/session/session.ts): its record, the queue  *)
(* of environment operations, the queue of decisions, the alarm, and its   *)
(* deletion, over an object that may be evicted between any two steps.     *)
(*                                                                         *)
(* A step runs from one `await` of the code to the next: the storage calls *)
(* between them are written together.  What the object keeps in memory is  *)
(* lost with it; calls it has sent to the runner are still served, in      *)
(* order.  The agent (Pi) is external: a durable turn that runs once it is *)
(* driven and the operations before it have settled.                       *)
(***************************************************************************)
EXTENDS Naturals, Sequences

CONSTANTS
    NoRecord,
    Asks,           \* what users and the agent ask, of the ten Requests
    MaxRequests,    \* requests of users in a behaviour, after the creation
    MaxEvictions,   \* evictions in a behaviour
    MaxFaults,      \* calls refused or answers lost, guests that fail
    MaxMishaps      \* evictions and faults together

ASSUME BoundsAssumption ==
    MaxRequests \in Nat /\ MaxEvictions \in Nat
                              /\ MaxFaults \in Nat /\ MaxMishaps \in Nat

VARIABLES
    record,     \* the Session's row, NoRecord before and after its life
    turn,       \* the agent's durable work
    alarm,      \* whether the object's alarm is set
    runner,     \* the Session's environment on the runner
    wire,       \* calls under way to the runner, and who awaits them
    notice,     \* the runner has a change to tell
    alive,      \* the object is in memory; so is all that follows
    queue,      \* #operations, the one under way first
    pc,         \* where that one is
    decisions,  \* #decisions, the one under way first
    looked,     \* what that one saw of the agent
    driven,     \* the harness works on the turn
    admitting,  \* a prompt is between its alarm and its submission
    ringing,    \* where the alarm's handler is
    deletion,   \* where each #finishDeletion is
    idle,       \* IDLE_STOP_MS have passed since lastActivityAt
    created,    \* the Session was created: its id is never used again
    requests, evictions, faults,
    raced       \* a create was sent although the Session was being deleted

memory == <<queue, pc, decisions, looked, driven, admitting, ringing,
            deletion>>
counters == <<requests, evictions, faults>>
vars == <<record, turn, alarm, runner, wire, notice, alive, memory, idle,
          created, counters, raced>>

Recoveries == {"retry-provisioning", "restart-environment"}
Requests ==
    {"prompt", "wake", "stop", "abort", "delete", "agent start",
     "agent stop", "agent restart"} \cup Recoveries
ASSUME AsksAssumption == Asks \subseteq Requests
Record ==
    [env : {"stopped", "running", "error"},
     checkout : {"pending", "available", "unavailable"},
     failure : Recoveries \cup {"none"},
     operation : {"none", "provisioning", "resuming"},
     deleting : BOOLEAN]
ASSUME NoRecordAssumption == NoRecord \notin Record
Operations == {"provision", "start", "restart", "admit", "stop", "idle stop"}
Steps == {"idle", "credentials", "create", "start", "clear", "clone",
          "restart", "resume", "refresh", "stop"}
Deleters == {"request", "alarm"}
Call == [call : {"create", "start", "restart", "stop", "delete"},
         by : {"operation", "agent", "nobody"} \cup Deleters]

(* What the types of the code allow.                                       *)
TypeOK ==
    /\ record \in Record \cup {NoRecord}
    /\ turn \in {"none", "queued", "running"}
    /\ alarm \in BOOLEAN
    /\ runner \in [env : {"absent", "stopped", "running", "error"},
                   files : {"none", "partial", "clone", "work"}]
    /\ wire \in Seq(Call)
    /\ notice \in BOOLEAN
    /\ alive \in BOOLEAN
    /\ queue \in Seq(Operations)
    /\ pc \in Steps
    /\ decisions \in Seq({"reconcile", "stop if idle"})
    /\ looked \in {"no", "quiet", "work"}
    /\ driven \in BOOLEAN
    /\ admitting \in BOOLEAN
    /\ ringing \in {"no", "deciding", "stopping", "deleting"}
    /\ deletion \in [Deleters -> {"none", "media", "call", "answered"}]
    /\ idle \in BOOLEAN
    /\ created \in BOOLEAN
    /\ requests \in 0..MaxRequests
    /\ evictions \in 0..MaxEvictions
    /\ faults \in 0..MaxFaults
    /\ raced \in BOOLEAN

Fresh == [env |-> "stopped", checkout |-> "pending", failure |-> "none",
          operation |-> "provisioning", deleting |-> FALSE]

Init ==
    /\ record = NoRecord
    /\ turn = "none"
    /\ alarm = FALSE
    /\ runner = [env |-> "absent", files |-> "none"]
    /\ wire = <<>>
    /\ notice = FALSE
    /\ alive = TRUE
    /\ queue = <<>>
    /\ pc = "idle"
    /\ decisions = <<>>
    /\ looked = "no"
    /\ driven = FALSE
    /\ admitting = FALSE
    /\ ringing = "no"
    /\ deletion = [x \in Deleters |-> "none"]
    /\ idle = FALSE
    /\ created = FALSE
    /\ requests = 0
    /\ evictions = 0
    /\ faults = 0
    /\ raced = FALSE

-----------------------------------------------------------------------------
(* Queues, the record and the wire.                                        *)

Reconciling_Begun(q) ==
    IF q # <<>> /\ q[Len(q)] = "reconcile" THEN q ELSE Append(q, "reconcile")
(* #decide: a reconciliation that has not begun stands for the ones that   *)
(* would follow it at once.                                                *)
Reconciling(q) ==
    IF q # <<>> /\ q[Len(q)] = "reconcile" /\ (Len(q) > 1 \/ looked = "no")
    THEN q ELSE Append(q, "reconcile")

Present == record # NoRecord
Updated(r) == IF Present THEN r ELSE record             \* #update
Reported(env) == Updated([record EXCEPT !.env = env])   \* host.report

Needs_Idle(r, work) == work \/ r.deleting \/ r.operation # "none"
(* nextAlarm: something needs the object to wake again.                    *)
Needs(r, work) ==
    work \/ r.deleting \/ r.operation # "none" \/ r.env = "running"

Faults(n) ==
    /\ faults' = faults + n
    /\ faults' <= MaxFaults /\ evictions + faults' <= MaxMishaps

Send(call, by) == wire' = Append(wire, [call |-> call, by |-> by])

(* The end of an operation: the next may begin, and #operate reconciles.   *)
EndOperation ==
    /\ queue' = Tail(queue)
    /\ pc' = "idle"
    /\ decisions' = Reconciling(decisions)
    /\ ringing' = IF Head(queue) = "idle stop" /\ ringing = "stopping"
                  THEN "no" ELSE ringing

(* #setup ends: a failure of it replaces the one there was.                *)
Settled(r, failed) ==
    [r EXCEPT !.operation = "none",
              !.failure = IF ~failed THEN @
                          ELSE IF r.operation = "provisioning"
                               THEN "retry-provisioning"
                               ELSE "restart-environment"]
Settle(failed) ==
    record' = Updated(Settled(record, failed)) /\ EndOperation

-----------------------------------------------------------------------------
(* The object's life in memory.                                            *)

(* create: the record is written, the object opened, its first prompt      *)
(* admitted behind the provisioning.  The alarm is set as it opens.        *)
Create ==
    /\ alive /\ ~created
    /\ created' = TRUE
    /\ alarm' = TRUE
    /\ \/ /\ record' = Fresh
          /\ queue' = <<"provision", "admit">>
          /\ decisions' = <<"reconcile">>
          /\ admitting' = TRUE
       \/ UNCHANGED <<record, queue, decisions, admitting>>  \* cannot open
    /\ UNCHANGED <<turn, runner, wire, notice, alive, pc, looked, driven,
                   ringing, deletion, idle, counters, raced>>

(* The object is evicted, or crashes.                                      *)
Evict ==
    /\ alive /\ Present
    /\ evictions < MaxEvictions /\ evictions + faults < MaxMishaps
    /\ evictions' = evictions + 1
    /\ alive' = FALSE
    /\ queue' = <<>> /\ decisions' = <<>>
    /\ pc' = "idle" /\ looked' = "no" /\ ringing' = "no"
    /\ driven' = FALSE /\ admitting' = FALSE
    /\ deletion' = [x \in Deleters |-> "none"]
    /\ turn' = IF turn = "running" THEN "queued" ELSE turn
    /\ wire' = [i \in DOMAIN wire |-> [wire[i] EXCEPT !.by = "nobody"]]
    /\ UNCHANGED <<record, alarm, runner, notice, idle, created, requests,
                   faults, raced>>

(* Plausible defect: whatever the operation, it is provisioned anew.       *)
Load_Provisions ==
    /\ ~alive
    /\ alive' = TRUE
    /\ alarm' = TRUE
    /\ queue' = IF record.operation # "none" THEN <<"provision">> ELSE <<>>
    /\ decisions' = <<"reconcile">>
    /\ UNCHANGED <<record, turn, runner, wire, notice, pc, looked, driven,
                   admitting, ringing, deletion, idle, created, counters,
                   raced>>

(* Its alarm, a notice or any request loads it again: #open restarts an    *)
(* operation the record names.                                             *)
Load ==
    /\ ~alive
    /\ alive' = TRUE
    /\ alarm' = TRUE
    /\ queue' = CASE record.operation = "provisioning" -> <<"provision">>
                  [] record.operation = "resuming" -> <<"start">>
                  [] OTHER -> <<>>
    /\ decisions' = <<"reconcile">>
    /\ UNCHANGED <<record, turn, runner, wire, notice, pc, looked, driven,
                   admitting, ringing, deletion, idle, created, counters,
                   raced>>

-----------------------------------------------------------------------------
(* Requests.  #required turns them away once the Session is deleted.       *)

Request(ask) ==
    /\ ask \in Asks
    /\ alive /\ Present /\ ~record.deleting
    /\ requests < MaxRequests
    /\ requests' = requests + 1

(* #admit: an operation that starts a stopped environment, then the alarm, *)
(* then the prompt.  One prompt is being admitted at a time.               *)
Admit ==
    /\ Request("prompt") /\ ~admitting
    /\ queue' = Append(queue, "admit")
    /\ alarm' = TRUE
    /\ admitting' = TRUE
    /\ idle' = FALSE
    /\ UNCHANGED <<record, turn, runner, wire, notice, alive, pc, decisions,
                   looked, driven, ringing, deletion, created, evictions,
                   faults, raced>>

(* The prompt is durable, and the harness works on it.                     *)
Submit ==
    /\ admitting
    /\ admitting' = FALSE
    /\ IF Present
       THEN /\ turn' = IF turn = "none" THEN "queued" ELSE turn
            /\ driven' = TRUE
            /\ decisions' = Reconciling(decisions)
       ELSE UNCHANGED <<turn, driven, decisions>>
    /\ UNCHANGED <<record, alarm, runner, wire, notice, alive, queue, pc,
                   looked, ringing, deletion, idle, created, counters, raced>>

Wake ==
    /\ Request("wake")
    /\ queue' = Append(queue, "start")
    /\ UNCHANGED <<record, turn, alarm, runner, wire, notice, alive, pc,
                   decisions, looked, driven, admitting, ringing, deletion,
                   idle, created, evictions, faults, raced>>

(* conversation.abort: the turn and queued prompts are dropped; the end of *)
(* a run reconciles.                                                       *)
Abort ==
    /\ turn' = "none"
    /\ decisions' = IF turn = "running" THEN Reconciling(decisions)
                    ELSE decisions

(* stop and abort: the stop is queued before the agent's work is dropped.  *)
Stop ==
    /\ \/ Request("stop") /\ queue' = Append(queue, "stop")
       \/ Request("abort") /\ queue' = queue
    /\ Abort
    /\ UNCHANGED <<record, alarm, runner, wire, notice, alive, pc, looked,
                   driven, admitting, ringing, deletion, idle, created,
                   evictions, faults, raced>>

(* The recovery the view offers: the newest failure's, or a restart.       *)
Offered(r) ==
    IF r.failure # "none" THEN {r.failure}
    ELSE IF r.env = "error" THEN {"restart-environment"} ELSE {}

Retry(recovery) ==
    /\ Request(recovery)
    /\ recovery \in Offered(record)
    /\ record' = [record EXCEPT !.failure = "none"]
    /\ queue' = Append(queue, IF recovery = "retry-provisioning"
                              THEN "provision" ELSE "restart")
    /\ UNCHANGED <<turn, alarm, runner, wire, notice, alive, pc, decisions,
                   looked, driven, admitting, ringing, deletion, idle,
                   created, evictions, faults, raced>>

(* The runner's notice of a change.                                        *)
Notice ==
    /\ alive /\ notice
    /\ notice' = FALSE
    /\ IF Present /\ runner.env # "absent"
       THEN /\ record' = Reported(runner.env)
            /\ decisions' = Reconciling(decisions)
       ELSE UNCHANGED <<record, decisions>>
    /\ UNCHANGED <<turn, alarm, runner, wire, alive, queue, pc, looked,
                   driven, admitting, ringing, deletion, idle, created,
                   counters, raced>>

-----------------------------------------------------------------------------
(* Decisions: #reconcile and #stopIfIdle, one at a time.                   *)

(* A decision looks at the agent; what it does next it does from that.     *)
Look ==
    /\ decisions # <<>> /\ looked = "no"
    /\ looked' = IF turn = "none" THEN "quiet" ELSE "work"
    /\ UNCHANGED <<record, turn, alarm, runner, wire, notice, alive, queue,
                   pc, decisions, driven, admitting, ringing, deletion, idle,
                   created, counters, raced>>

Reconcile_Undriven ==
    /\ decisions # <<>> /\ looked # "no" /\ Head(decisions) = "reconcile"
    /\ decisions' = Tail(decisions)
    /\ looked' = "no"
    /\ IF Present
       THEN /\ alarm' = Needs(record, looked = "work")
            /\ idle' = (idle /\ looked # "work")
       ELSE UNCHANGED <<alarm, idle>>
    /\ UNCHANGED <<record, turn, runner, wire, notice, alive, queue, pc,
                   driven, admitting, ringing, deletion, created, counters,
                   raced>>
(* #reconcile: the alarm is set for what is unfinished, and dropped when   *)
(* nothing is; unfinished work is touched and driven.                      *)
Reconcile ==
    /\ decisions # <<>> /\ looked # "no" /\ Head(decisions) = "reconcile"
    /\ decisions' = Tail(decisions)
    /\ looked' = "no"
    /\ IF Present
       THEN /\ alarm' = Needs(record, looked = "work")
            /\ idle' = (idle /\ looked # "work")
            /\ driven' = (driven \/ looked = "work")
       ELSE UNCHANGED <<alarm, idle, driven>>
    /\ UNCHANGED <<record, turn, runner, wire, notice, alive, queue, pc,
                   admitting, ringing, deletion, created, counters, raced>>

MayStop_Trusting == Present /\ looked = "quiet" /\ record.env = "running"
(* Setup, admission and control may have changed what the look showed.     *)
MayStop ==
    /\ Present
    /\ looked = "quiet"
    /\ record.env = "running"
    /\ record.operation = "none"
    /\ queue = <<>>
    /\ idle

(* #stopIfIdle, in the alarm's handler, which then reconciles.             *)
StopIfIdle ==
    /\ decisions # <<>> /\ looked # "no" /\ Head(decisions) = "stop if idle"
    /\ looked' = "no"
    /\ IF MayStop
       THEN /\ queue' = Append(queue, "idle stop")
            /\ ringing' = "stopping"
            /\ decisions' = Tail(decisions)
       ELSE /\ queue' = queue
            /\ ringing' = "no"
            /\ decisions' = Append(Tail(decisions), "reconcile")
    /\ UNCHANGED <<record, turn, alarm, runner, wire, notice, alive, pc,
                   driven, admitting, deletion, idle, created, counters,
                   raced>>

(* alarm: one handler at a time; it sets the next alarm first.             *)
Ring ==
    /\ alive /\ alarm /\ ringing = "no"
    /\ IF ~Present
       THEN alarm' = FALSE /\ UNCHANGED <<decisions, ringing, deletion>>
       ELSE IF record.deleting
       THEN /\ ringing' = "deleting"
            /\ deletion' = [deletion EXCEPT !["alarm"] = "media"]
            /\ UNCHANGED <<alarm, decisions>>
       ELSE /\ ringing' = "deciding"
            /\ decisions' = Append(decisions, "stop if idle")
            /\ UNCHANGED <<alarm, deletion>>
    /\ UNCHANGED <<record, turn, runner, wire, notice, alive, queue, pc,
                   looked, driven, admitting, idle, created, counters, raced>>

(* Fifteen minutes pass: longer than a decision or an admission takes.     *)
Idle ==
    /\ Present /\ ~idle /\ record.env = "running"
    /\ looked = "no" /\ ~admitting
    /\ idle' = TRUE
    /\ UNCHANGED <<record, turn, alarm, runner, wire, notice, alive, memory,
                   created, counters, raced>>

-----------------------------------------------------------------------------
(* The agent.                                                              *)

(* A run reaches the guest, and works in its checkout, once #setupSettled  *)
(* finds no operation queued.                                              *)
RunTurn ==
    /\ alive /\ driven /\ turn = "queued"
    /\ queue = <<>>
    /\ turn' = "running"
    /\ runner' = IF runner.env = "running" /\ runner.files = "clone"
                 THEN [runner EXCEPT !.files = "work"] ELSE runner
    /\ UNCHANGED <<record, alarm, wire, notice, alive, memory, idle,
                   created, counters, raced>>

(* The run ends: its end is touched and reconciled.                        *)
EndTurn ==
    /\ turn = "running"
    /\ turn' = "none"
    /\ idle' = FALSE
    /\ decisions' = Reconciling(decisions)
    /\ UNCHANGED <<record, alarm, runner, wire, notice, alive, queue, pc,
                   looked, driven, admitting, ringing, deletion, created,
                   counters, raced>>

(* The environment tool controls the runner behind no queue.               *)
AgentControl(ask, action) ==
    /\ turn = "running"
    /\ ask \in Asks
    /\ requests < MaxRequests
    /\ requests' = requests + 1
    /\ Send(action, "agent")
    /\ idle' = (idle /\ action = "stop")
    /\ UNCHANGED <<record, turn, alarm, runner, notice, alive, memory,
                   created, evictions, faults, raced>>

-----------------------------------------------------------------------------
(* Operations: the head of the queue, from one await to the next.          *)

(* The operations that end at once: #starting returns early, or the record *)
(* they read is gone.                                                      *)
Skips ==
    Present =>
    \/ /\ Head(queue) = "admit"
       /\ record.env # "stopped" \/ record.failure # "none"
    \/ /\ Head(queue) \in {"start", "admit"}
       /\ record.checkout # "pending"
       /\ record.env = "running" /\ record.operation = "none"

Skip ==
    /\ queue # <<>> /\ pc = "idle"
    /\ Head(queue) \notin {"stop", "idle stop"}
    /\ Skips
    /\ EndOperation
    /\ UNCHANGED <<record, turn, alarm, runner, wire, notice, alive, looked,
                   driven, admitting, deletion, idle, created, counters,
                   raced>>

(* #setup begins, with the operation recorded; a pending checkout makes    *)
(* any start a provisioning.                                               *)
BeginSetup ==
    /\ queue # <<>> /\ pc = "idle"
    /\ Head(queue) \notin {"stop", "idle stop"}
    /\ ~Skips
    /\ record' = [record EXCEPT !.operation =
           IF Head(queue) = "provision" \/ record.checkout = "pending"
           THEN "provisioning" ELSE "resuming"]
    /\ pc' = "credentials"
    /\ UNCHANGED <<turn, alarm, runner, wire, notice, alive, queue, decisions,
                   looked, driven, admitting, ringing, deletion, idle,
                   created, counters, raced>>

(* The credentials are read; without a record, nothing is asked.           *)
Credentials ==
    /\ pc = "credentials" /\ Present
    /\ IF record.operation = "provisioning"
       THEN /\ Send("create", "operation")
            /\ pc' = "create"
            /\ raced' = (raced \/ record.deleting)
            /\ idle' = idle
       ELSE /\ Send(IF Head(queue) = "restart" THEN "restart" ELSE "start",
                    "operation")
            /\ pc' = "restart"
            /\ raced' = raced
            /\ idle' = FALSE
    /\ UNCHANGED <<record, turn, alarm, runner, notice, alive, queue,
                   decisions, looked, driven, admitting, ringing, deletion,
                   created, counters>>

CredentialsFail ==
    /\ pc = "credentials"
    /\ Faults(IF Present THEN 1 ELSE 0)
    /\ Settle(TRUE)
    /\ UNCHANGED <<turn, alarm, runner, wire, notice, alive, looked, driven,
                   admitting, deletion, idle, created, requests, evictions,
                   raced>>

(* #stopEnvironment: the last Git snapshot is taken before compute stops.  *)
BeginStop ==
    /\ queue # <<>> /\ pc = "idle" /\ Head(queue) \in {"stop", "idle stop"}
    /\ pc' = "refresh"
    /\ UNCHANGED <<record, turn, alarm, runner, wire, notice, alive, queue,
                   decisions, looked, driven, admitting, ringing, deletion,
                   idle, created, counters, raced>>

Refreshed ==
    /\ pc = "refresh"
    /\ Send("stop", "operation")
    /\ pc' = "stop"
    /\ UNCHANGED <<record, turn, alarm, runner, notice, alive, queue,
                   decisions, looked, driven, admitting, ringing, deletion,
                   idle, created, counters, raced>>

(* Guest commands fail without a guest, or by a fault.                     *)
Guest(ok) ==
    IF runner.env = "running" /\ ok THEN UNCHANGED faults
    ELSE /\ ~ok
         /\ Faults(IF runner.env = "running" THEN 1 ELSE 0)

(* provisionCheckout empties /workspace, whatever it holds.                *)
Clear(ok) ==
    /\ pc = "clear"
    /\ Guest(ok)
    /\ IF ok
       THEN /\ runner' = [runner EXCEPT !.files = "partial"]
            /\ pc' = "clone"
            /\ UNCHANGED <<record, queue, decisions, ringing>>
       ELSE Settle(TRUE) /\ runner' = runner
    /\ UNCHANGED <<turn, alarm, wire, notice, alive, looked, driven,
                   admitting, deletion, idle, created, requests, evictions,
                   raced>>

(* A clone that failed, whatever the reason, is a warning; what follows a  *)
(* clone is not.                                                           *)
Clone(outcome) ==
    /\ pc = "clone"
    /\ Guest(outcome = "available")
    /\ runner' = IF outcome = "available"
                 THEN [runner EXCEPT !.files = "clone"] ELSE runner
    /\ record' = Updated(Settled(
           [record EXCEPT !.checkout = IF outcome = "failure" THEN @
                                       ELSE outcome],
           outcome = "failure"))
    /\ EndOperation
    /\ UNCHANGED <<turn, alarm, wire, notice, alive, looked, driven,
                   admitting, deletion, idle, created, requests, evictions,
                   raced>>

(* .agents/resume: its failure is a warning.                               *)
Resume ==
    /\ pc = "resume"
    /\ Settle(FALSE)
    /\ UNCHANGED <<turn, alarm, runner, wire, notice, alive, looked, driven,
                   admitting, deletion, idle, created, counters, raced>>

-----------------------------------------------------------------------------
(* The runner serves the oldest call; its answer may be lost.              *)

Possible(call) == call \in {"create", "delete"} \/ runner.env # "absent"

(* What the runner makes of it.                                            *)
After(call) ==
    CASE call = "create" ->
           IF runner.env = "absent" THEN [runner EXCEPT !.env = "stopped"]
           ELSE runner
      [] call \in {"start", "restart"} -> [runner EXCEPT !.env = "running"]
      [] call = "stop" -> [runner EXCEPT !.env = "stopped"]
      [] call = "delete" -> [env |-> "absent", files |-> "none"]

Served(call, ok) ==
    /\ IF Possible(call) /\ ok
       THEN runner' = After(call) /\ UNCHANGED faults
       ELSE /\ ~ok
            /\ Faults(IF Possible(call) THEN 1 ELSE 0)
            /\ runner' \in {runner} \cup
                   (IF Possible(call) THEN {After(call)} ELSE {})
    /\ notice' = (notice \/ runner'.env # runner.env)

Serving(callers) == wire # <<>> /\ Head(wire).by \in callers

(* The operation under way goes on from its answer.                        *)
ServeOperation(ok) ==
    /\ Serving({"operation"})
    /\ Served(Head(wire).call, ok)
    /\ CASE pc = "create" /\ ok ->
              /\ record' = Reported(runner'.env)
              /\ wire' = Append(Tail(wire),
                                [call |-> "start", by |-> "operation"])
              /\ pc' = "start"
              /\ idle' = FALSE
              /\ UNCHANGED <<queue, decisions, ringing>>
         [] pc = "start" /\ ok ->
              /\ record' = Reported(runner'.env)
              /\ wire' = Tail(wire)
              /\ pc' = "clear"
              /\ UNCHANGED <<idle, queue, decisions, ringing>>
         [] pc = "restart" /\ ok /\ Present /\ record.checkout = "available" ->
              /\ record' = Reported(runner'.env)
              /\ wire' = Tail(wire)
              /\ pc' = "resume"
              /\ UNCHANGED <<idle, queue, decisions, ringing>>
         [] pc = "restart" /\ ok
                /\ ~(Present /\ record.checkout = "available") ->
              /\ record' = Updated(Settled(
                     [record EXCEPT !.env = runner'.env], FALSE))
              /\ wire' = Tail(wire)
              /\ EndOperation
              /\ UNCHANGED idle
         [] pc = "stop" ->
              /\ record' = IF ok THEN Reported(runner'.env) ELSE record
              /\ wire' = Tail(wire)
              /\ EndOperation
              /\ UNCHANGED idle
         [] pc \in {"create", "start", "restart"} /\ ~ok ->
              /\ Settle(TRUE)
              /\ wire' = Tail(wire)
              /\ UNCHANGED idle
    /\ UNCHANGED <<turn, alarm, alive, looked, driven, admitting, deletion,
                   created, requests, evictions, raced>>

(* The agent's tool reports the answer; nobody hears one after an eviction. *)
ServeOther(ok) ==
    /\ Serving({"agent", "nobody"})
    /\ Served(Head(wire).call, ok)
    /\ wire' = Tail(wire)
    /\ record' = IF ok /\ Head(wire).by = "agent" THEN Reported(runner'.env)
                 ELSE record
    /\ UNCHANGED <<turn, alarm, alive, memory, idle, created, requests,
                   evictions, raced>>

(* A guest fails, and its runner notices.                                  *)
GuestFails ==
    /\ runner.env = "running"
    /\ Faults(1)
    /\ runner' = [runner EXCEPT !.env = "error"]
    /\ notice' = TRUE
    /\ UNCHANGED <<record, turn, alarm, wire, alive, memory, idle, created,
                   requests, evictions, raced>>

-----------------------------------------------------------------------------
(* Deletion: the request's, and the alarm's retries of it.                 *)

Delete ==
    /\ "delete" \in Asks
    /\ alive /\ Present /\ requests < MaxRequests
    /\ deletion["request"] = "none"
    /\ requests' = requests + 1
    /\ record' = [record EXCEPT !.deleting = TRUE]
    /\ Abort
    /\ deletion' = [deletion EXCEPT !["request"] = "media"]
    /\ UNCHANGED <<alarm, runner, wire, notice, alive, queue, pc, looked,
                   driven, admitting, ringing, idle, created, evictions,
                   faults, raced>>

Ended(d) == ringing' = IF d = "alarm" THEN "no" ELSE ringing

Postpone_Unset(d) ==
    /\ alarm' = alarm
    /\ deletion' = [deletion EXCEPT ![d] = "none"]
    /\ Ended(d)
(* A step of #finishDeletion fails: the alarm retries.                     *)
Postpone(d) ==
    /\ alarm' = TRUE
    /\ deletion' = [deletion EXCEPT ![d] = "none"]
    /\ Ended(d)

DeleteMedia(d, ok) ==
    /\ deletion[d] = "media"
    /\ IF ok
       THEN /\ Send("delete", d)
            /\ deletion' = [deletion EXCEPT ![d] = "call"]
            /\ UNCHANGED <<alarm, ringing, faults>>
       ELSE /\ Faults(1)
            /\ Postpone(d)
            /\ wire' = wire
    /\ UNCHANGED <<record, turn, runner, notice, alive, queue, pc, decisions,
                   looked, driven, admitting, idle, created, requests,
                   evictions, raced>>

ServeDeletion_Assumed(d, ok) ==
    /\ Serving({d})
    /\ Served("delete", ok)
    /\ wire' = Tail(wire)
    /\ deletion' = [deletion EXCEPT ![d] = "answered"]
    /\ UNCHANGED <<record, turn, alarm, alive, queue, pc, decisions, looked,
                   driven, admitting, ringing, idle, created, requests,
                   evictions, raced>>
ServeDeletion(d, ok) ==
    /\ Serving({d})
    /\ Served("delete", ok)
    /\ wire' = Tail(wire)
    /\ IF ok
       THEN /\ deletion' = [deletion EXCEPT ![d] = "answered"]
            /\ UNCHANGED <<alarm, ringing>>
       ELSE Postpone(d)
    /\ UNCHANGED <<record, turn, alive, queue, pc, decisions, looked, driven,
                   admitting, idle, created, requests, evictions, raced>>

(* The harness is closed; the alarm and the storage go together.           *)
Drop(d) ==
    /\ deletion[d] = "answered"
    /\ record' = NoRecord
    /\ turn' = "none"
    /\ driven' = FALSE
    /\ alarm' = FALSE
    /\ deletion' = [deletion EXCEPT ![d] = "none"]
    /\ Ended(d)
    /\ UNCHANGED <<runner, wire, notice, alive, queue, pc, decisions, looked,
                   admitting, idle, created, counters, raced>>

-----------------------------------------------------------------------------
Users ==
    \/ Create \/ Admit \/ Wake \/ Stop \/ Delete
    \/ \E recovery \in Recoveries : Retry(recovery)
Operate ==
    \/ Skip \/ BeginSetup \/ Credentials \/ CredentialsFail
    \/ BeginStop \/ Refreshed \/ Resume
    \/ \E ok \in BOOLEAN : Clear(ok) \/ ServeOperation(ok) \/ ServeOther(ok)
    \/ \E outcome \in {"available", "unavailable", "failure"} : Clone(outcome)
Decide == Look \/ Reconcile \/ StopIfIdle
Deletes ==
    \E d \in Deleters :
        \/ Drop(d)
        \/ \E ok \in BOOLEAN : DeleteMedia(d, ok) \/ ServeDeletion(d, ok)
Agent ==
    \/ Submit \/ RunTurn \/ EndTurn
    \/ AgentControl("agent start", "start")
    \/ AgentControl("agent stop", "stop")
    \/ AgentControl("agent restart", "restart")

Next ==
    \/ Users \/ Operate \/ Decide \/ Deletes \/ Agent
    \/ Evict \/ Load \/ Notice \/ Ring \/ Idle \/ GuestFails

Spec == Init /\ [][Next]_vars

(* What the scheduling justifies: while the object is in memory what it    *)
(* has begun goes on, and so do the runner and the agent; an alarm that is *)
(* set rings, and it or a notice loads the object; fifteen minutes pass    *)
(* however often it rings.                                                 *)
(* Nothing makes a user ask.                                               *)
Work == Operate \/ Deletes \/ Submit \/ RunTurn \/ EndTurn \/ Notice

Fairness ==
    /\ WF_vars(Work)
    /\ WF_vars(Decide)
    /\ WF_vars(Ring)
    /\ WF_vars((alarm \/ notice) /\ Load)
    /\ SF_vars(Idle)

FairSpec == Spec /\ Fairness

-----------------------------------------------------------------------------
(* Properties.                                                             *)

(* Something in memory, or the runner's next notice, leads to another      *)
(* reconciliation, or sets the alarm itself.                               *)
Pending ==
    \/ decisions # <<>> \/ queue # <<>> \/ admitting \/ notice
    \/ \E d \in Deleters : deletion[d] # "none"

(* While the object is in memory, a Session with a turn, a setup or a      *)
(* deletion to finish, or an environment to stop once idle, has its alarm  *)
(* set, or something under way that will set it: whatever order operations *)
(* end, decisions are taken and prompts are admitted in.                   *)
Backed ==
    alive /\ Present /\ Needs(record, turn # "none") => alarm \/ Pending

(* The stop of an idle environment is never queued before, or run under, a *)
(* run of the agent, although the decision is taken on what was seen of    *)
(* the agent an await earlier.                                             *)
IdleStopSparesRuns ==
    (\E i \in DOMAIN queue : queue[i] = "idle stop") => turn # "running"

(* What the agent did in an available checkout is lost to nothing but the  *)
(* Session's deletion: no eviction, wake, prompt or restart provisions     *)
(* over it.                                                                *)
WorkIsKept ==
    [][/\ Present /\ ~record.deleting
       /\ record.checkout = "available" /\ runner.files = "work"
       => runner'.files = "work"]_vars

(* From the moment the Session is gone, its runner holds no environment of *)
(* it, although calls of before are still under way; unless an operation   *)
(* that found it being deleted created it again.                           *)
GoneLeavesNothing ==
    created /\ ~Present => runner.env = "absent" \/ raced

(* The object sleeps with nothing to wake it.                              *)
Forgotten == ~alive /\ ~alarm /\ ~notice

(* A deletion that was begun ends, whatever fails on the way, unless the   *)
(* object is evicted before anything set an alarm for it.                  *)
DeletionEnds ==
    (Present /\ record.deleting) ~> (~Present \/ Forgotten)

(* So does every setup, and every turn.                                    *)
WorkEnds ==
    /\ (Present /\ record.operation # "none") ~>
           (~Present \/ record.operation = "none" \/ Forgotten)
    /\ (turn # "none") ~> (turn = "none" \/ Forgotten)

(* And an environment that is left running is stopped, once the agent is   *)
(* done with it, even if a stop of it fails.                               *)
IdleIsStopped ==
    [](<>(~Present \/ record.env # "running" \/ Forgotten))

=============================================================================
