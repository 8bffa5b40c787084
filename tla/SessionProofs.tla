--------------------------- MODULE SessionProofs ---------------------------
(***************************************************************************)
(* Of the Session, for any number of requests, evictions and faults: what  *)
(* is unfinished has its alarm or something under way that sets it, the    *)
(* stop of an idle environment meets no run, the agent's work is cleared   *)
(* by no setup, and a deleted Session leaves no environment.               *)
(***************************************************************************)
EXTENDS Session, SequenceTheorems, TLAPS

-----------------------------------------------------------------------------
(* What every step relies on.                                              *)

Runner == [env : {"absent", "stopped", "running", "error"},
           files : {"none", "partial", "clone", "work"}]
Environments == {"stopped", "running", "error"}
Decisions == {"reconcile", "stop if idle"}

(* The parts of TypeOK. *)
QueuesType ==
    /\ wire \in Seq(Call) /\ queue \in Seq(Operations)
    /\ decisions \in Seq(Decisions)
RecordType ==
    /\ record \in Record \cup {NoRecord}
    /\ runner \in Runner /\ faults \in 0..MaxFaults /\ notice \in BOOLEAN
FlagsType ==
    /\ alarm \in BOOLEAN /\ alive \in BOOLEAN /\ driven \in BOOLEAN
    /\ admitting \in BOOLEAN /\ idle \in BOOLEAN /\ created \in BOOLEAN
    /\ raced \in BOOLEAN
PhasesType ==
    /\ turn \in {"none", "queued", "running"}
    /\ pc \in Steps
    /\ looked \in {"no", "quiet", "work"}
    /\ ringing \in {"no", "deciding", "stopping", "deleting"}
    /\ deletion \in [Deleters -> {"none", "media", "call", "answered"}]
    /\ requests \in 0..MaxRequests /\ evictions \in 0..MaxEvictions

(* Where an operation waits for the runner's answer.                       *)
Waits == {"create", "start", "restart", "stop"}

(* One call at most is the operation's, and it waits for it; calls of a    *)
(* deletion are deletions, and the only ones, until an eviction.           *)
WireInv ==
    /\ \A i \in 1..Len(wire) :
          /\ wire[i].by = "operation" => pc \in Waits
          /\ wire[i].by \in {"operation", "agent"} => wire[i].call # "delete"
          /\ wire[i].by \in Deleters => wire[i].call = "delete"
    /\ \A i, j \in 1..Len(wire) :
          wire[i].by = "operation" /\ wire[j].by = "operation" => i = j

QueueInv ==
    /\ pc # "idle" => queue # <<>>
    /\ looked # "no" => decisions # <<>>

(* An object that is not in memory has a record, and nothing under way     *)
(* that anybody waits for.                                                 *)
AsleepInv ==
    ~alive =>
        /\ record # NoRecord
        /\ queue = <<>> /\ pc = "idle" /\ decisions = <<>> /\ looked = "no"
        /\ ~admitting /\ turn # "running"
        /\ \A d \in Deleters : deletion[d] = "none"
        /\ \A i \in 1..Len(wire) : wire[i].by = "nobody"

UncreatedInv ==
    ~created =>
        /\ record = NoRecord /\ turn = "none" /\ alive
        /\ runner.env = "absent" /\ wire = <<>> /\ ~notice
        /\ queue = <<>> /\ pc = "idle" /\ decisions = <<>> /\ looked = "no"
        /\ ~admitting /\ ~idle
        /\ \A d \in Deleters : deletion[d] = "none"

BaseInv == TypeOK /\ WireInv /\ QueueInv /\ AsleepInv /\ UncreatedInv

-----------------------------------------------------------------------------
(* The stop of an idle environment.                                        *)

(* A prompt that is being admitted ended the idleness, so while it lasts   *)
(* nothing is put to an agent that was seen quiet.                         *)
QuietInv ==
    /\ admitting => ~idle
    /\ looked = "quiet" /\ idle => turn = "none"
SparesInv ==
    \A i \in 1..Len(queue) : queue[i] = "idle stop" => turn # "running"

-----------------------------------------------------------------------------
(* What wakes the object.                                                  *)

(* A deletion that is under way is retried.                                *)
RetriedInv ==
    alive /\ record # NoRecord /\ record.deleting =>
        alarm \/ \E d \in Deleters : deletion[d] # "none"

(* Only a Session that is being deleted is deleted at the runner.          *)
DeletingInv ==
    record # NoRecord /\ ~record.deleting =>
        /\ \A d \in Deleters : deletion[d] = "none"
        /\ \A i \in 1..Len(wire) : wire[i].call # "delete"

(* A notice is under way while the record differs from the runner.         *)
ReportInv ==
    record # NoRecord /\ runner.env # "absent" /\ record.env # runner.env
        => notice

(* A turn that came after the look of a decision has asked for another.    *)
LookInv ==
    looked = "quiet" /\ turn # "none" => Len(decisions) > 1

(* Backed, without the notices that are dropped because no environment is  *)
(* left.                                                                   *)
BackedInv ==
    alive /\ record # NoRecord /\ Needs(record, turn # "none") =>
        \/ alarm \/ decisions # <<>> \/ queue # <<>> \/ admitting
        \/ notice /\ runner.env # "absent"
        \/ \E d \in Deleters : deletion[d] # "none"

-----------------------------------------------------------------------------
(* What a deletion leaves.                                                 *)

(* A create that is sent before any deletion is served before it, and one  *)
(* sent later is `raced`.                                                  *)
Deleted ==
    \/ created /\ record = NoRecord
    \/ \E d \in Deleters : deletion[d] = "answered"
OrderInv ==
    ~raced =>
        \A i, j \in 1..Len(wire) :
            i < j /\ wire[i].call = "delete" => wire[j].call # "create"
LeftInv ==
    ~raced /\ Deleted =>
        /\ runner.env = "absent"
        /\ \A i \in 1..Len(wire) : wire[i].call # "create"

-----------------------------------------------------------------------------
(* The agent's work.                                                       *)

(* Only a setup that found no checkout, or is not over since it did not,   *)
(* provisions.                                                             *)
ProvisionInv ==
    record # NoRecord =>
        /\ record.operation = "provisioning" => record.checkout = "pending"
        /\ pc \in {"create", "start", "clear", "clone"} =>
              record.operation = "provisioning"
        /\ \A i \in 1..Len(queue) : queue[i] = "provision" =>
              i = 1 /\ record.operation = "provisioning"

-----------------------------------------------------------------------------
(* Sequences.                                                              *)

(* An element goes to the end of a sequence.                               *)
LEMMA Appended ==
  ASSUME NEW S, NEW q \in Seq(S), NEW e \in S
  PROVE  /\ Append(q, e) \in Seq(S)
         /\ Append(q, e) # <<>>
         /\ Len(Append(q, e)) = Len(q) + 1
         /\ \A i \in 1..Len(q) : Append(q, e)[i] = q[i]
         /\ Append(q, e)[Len(q) + 1] = e
BY AppendProperties

(* A sequence without its head.                                            *)
LEMMA Tailed ==
  ASSUME NEW S, NEW q \in Seq(S), q # <<>>
  PROVE  /\ Tail(q) \in Seq(S)
         /\ Len(q) \in Nat \ {0}
         /\ Head(q) = q[1] /\ Head(q) \in S
         /\ Len(Tail(q)) = Len(q) - 1
         /\ \A i \in 1..Len(q) - 1 : Tail(q)[i] = q[i + 1]
OBVIOUS

(* The sequences that are written out.                                     *)
LEMMA Short ==
  ASSUME NEW S, NEW a \in S, NEW b \in S
  PROVE  /\ <<>> \in Seq(S) /\ <<a>> \in Seq(S) /\ <<a, b>> \in Seq(S)
         /\ Len(<<a>>) = 1 /\ Len(<<a, b>>) = 2
         /\ <<a>>[1] = a /\ <<a, b>>[1] = a /\ <<a, b>>[2] = b
OBVIOUS

(* A call is sent, after those under way.                                  *)
LEMMA Sent ==
  ASSUME wire \in Seq(Call),
         NEW c \in {"create", "start", "restart", "stop", "delete"},
         NEW b \in {"operation", "agent", "nobody"} \cup Deleters,
         Send(c, b)
  PROVE  /\ wire' \in Seq(Call)
         /\ Len(wire) \in Nat /\ Len(wire') = Len(wire) + 1
         /\ \A i \in 1..Len(wire) : wire'[i] = wire[i]
         /\ wire'[Len(wire) + 1].call = c /\ wire'[Len(wire) + 1].by = b
<1> DEFINE e == [call |-> c, by |-> b]
<1>1. e \in Call /\ e.call = c /\ e.by = b
  BY DEF Call
<1>2. wire' = Append(wire, e)
  BY DEF Send
<1> HIDE DEF e
<1> QED
  BY <1>1, <1>2, Appended, LenProperties

(* A decision is queued, behind one that has begun.                        *)
LEMMA Queued ==
  ASSUME decisions \in Seq(Decisions), looked # "no" => decisions # <<>>
  PROVE  /\ Reconciling(decisions) \in Seq(Decisions)
         /\ Reconciling(decisions) # <<>>
         /\ Len(Reconciling(decisions)) >= Len(decisions)
         /\ looked # "no" => Len(Reconciling(decisions)) > 1
<1>1. /\ Append(decisions, "reconcile") \in Seq(Decisions)
      /\ Append(decisions, "reconcile") # <<>>
      /\ Len(Append(decisions, "reconcile")) = Len(decisions) + 1
  <2> "reconcile" \in Decisions
    BY DEF Decisions
  <2> QED
    BY Appended
<1>2. Len(decisions) \in Nat /\ (decisions # <<>> => Len(decisions) > 0)
  BY EmptySeq
<1> QED
  BY <1>1, <1>2 DEF Reconciling

-----------------------------------------------------------------------------
(* The steps that change the record.                                       *)

(* An operation ends, and leaves the record as it is or settled.           *)
Finishes ==
    /\ queue # <<>> /\ queue' = Tail(queue) /\ pc' = "idle"
    /\ decisions' = Reconciling(decisions)
    /\ ringing' \in {"no", ringing}
    /\ record = NoRecord => record' = NoRecord
    /\ record # NoRecord =>
          /\ record' \in Record
          /\ record'.deleting = record.deleting
          /\ record'.env \in {record.env, runner'.env}
          /\ \/ record'.operation = "none"
             \/ /\ record'.operation = record.operation
                /\ record'.checkout = record.checkout

(* The record is told what the runner's environment is.                    *)
Reports ==
    /\ record = NoRecord => record' = NoRecord
    /\ record # NoRecord =>
          /\ record' \in Record
          /\ record'.deleting = record.deleting
          /\ record'.env = runner'.env
          /\ record'.operation = record.operation
          /\ record'.checkout = record.checkout

(* What a served call does to the runner.                                  *)
Serves(c, ok) ==
    /\ runner' \in Runner
    /\ notice' \in BOOLEAN /\ faults' \in 0..MaxFaults
    /\ notice => notice'
    /\ runner'.env # runner.env => notice'
    /\ ok /\ c # "delete" => runner'.env # "absent"
    /\ ok /\ c = "delete" => runner'.env = "absent"
    /\ c # "create" /\ runner.env = "absent" => runner'.env = "absent"
    /\ c # "delete" => /\ runner'.files = runner.files
                       /\ runner.env # "absent" => runner'.env # "absent"

(* A record that is there is a record.                                     *)
LEMMA RecordTyped ==
  ASSUME TypeOK, record # NoRecord
  PROVE  /\ record \in Record
         /\ record.env \in Environments
         /\ record.checkout \in {"pending", "available", "unavailable"}
         /\ record.operation \in {"none", "provisioning", "resuming"}
         /\ record.deleting \in BOOLEAN
BY DEF TypeOK, Record, Environments

(* A record that is not there is not updated.                              *)
LEMMA Settling ==
  ASSUME NEW r, NEW failed \in BOOLEAN, record # NoRecord => r \in Record
  PROVE  /\ record = NoRecord => Updated(Settled(r, failed)) = NoRecord
         /\ record # NoRecord =>
               /\ Updated(Settled(r, failed)) \in Record
               /\ Updated(Settled(r, failed)).deleting = r.deleting
               /\ Updated(Settled(r, failed)).env = r.env
               /\ Updated(Settled(r, failed)).checkout = r.checkout
               /\ Updated(Settled(r, failed)).operation = "none"
BY DEF Updated, Settled, Present, Record, Recoveries

(* What the report of the runner changes.                                  *)
LEMMA Reporting ==
  ASSUME TypeOK, NEW e \in Environments
  PROVE  /\ record = NoRecord => Reported(e) = NoRecord
         /\ record # NoRecord =>
               /\ Reported(e) \in Record
               /\ Reported(e).deleting = record.deleting
               /\ Reported(e).env = e
               /\ Reported(e).checkout = record.checkout
               /\ Reported(e).operation = record.operation
BY DEF TypeOK, Reported, Updated, Present, Record, Environments

(* Faults are bounded.                                                     *)
LEMMA FaultsTyped ==
  ASSUME TypeOK, BoundsAssumption, NEW n \in {0, 1}, Faults(n)
  PROVE  faults' \in 0..MaxFaults
<1>1. faults \in 0..MaxFaults /\ MaxFaults \in Nat
  BY DEF TypeOK, BoundsAssumption
<1> QED
  BY <1>1 DEF Faults

(* What a call served by the runner does, and what it cannot.              *)
LEMMA ServedServes ==
  ASSUME TypeOK, NEW c \in {"create", "start", "restart", "stop", "delete"},
         NEW ok \in BOOLEAN, Served(c, ok)
  PROVE  Serves(c, ok)
<1>1. runner \in Runner
  BY DEF TypeOK, Runner
<1>2. /\ After(c) \in Runner
      /\ c # "delete" => /\ After(c).files = runner.files
                         /\ Possible(c) => After(c).env # "absent"
      /\ c = "delete" => After(c).env = "absent"
  BY <1>1 DEF After, Possible, Runner
<1>3. runner' \in {runner, After(c)}
  BY DEF Served
<1>4. faults' \in 0..MaxFaults
  BY BoundsAssumption, FaultsTyped DEF Served, TypeOK
<1>5. ok => Possible(c) /\ runner' = After(c)
  BY DEF Served
<1>6. runner' # runner => Possible(c)
  BY DEF Served
<1>7. notice' = (notice \/ runner'.env # runner.env) /\ notice \in BOOLEAN
  BY DEF Served, TypeOK
<1>8. c # "create" /\ c # "delete" /\ runner.env = "absent" => ~Possible(c)
  BY DEF Possible
<1> QED
  BY <1>1, <1>2, <1>3, <1>4, <1>5, <1>6, <1>7, <1>8 DEF Serves

(* The end of an operation.                                                *)
LEMMA EndsOperation ==
  ASSUME TypeOK, queue # <<>>, EndOperation
  PROVE  /\ queue' = Tail(queue) /\ pc' = "idle"
         /\ decisions' = Reconciling(decisions)
         /\ ringing' \in {"no", ringing}
BY DEF EndOperation

(* A setup that settles ends its operation.                                *)
LEMMA SettleFinishes ==
  ASSUME TypeOK, queue # <<>>, NEW failed \in BOOLEAN, Settle(failed)
  PROVE  Finishes
BY EndsOperation, Settling, RecordTyped DEF Settle, Finishes

(* A clone ends its operation, whatever comes of it.                       *)
LEMMA CloneFinishes ==
  ASSUME TypeOK, QueueInv,
         NEW outcome \in {"available", "unavailable", "failure"},
         Clone(outcome)
  PROVE  Finishes
<1> DEFINE r == [record EXCEPT !.checkout = IF outcome = "failure" THEN @
                                            ELSE outcome]
<1>1. record # NoRecord =>
         r \in Record /\ r.deleting = record.deleting /\ r.env = record.env
  BY RecordTyped DEF Record
<1>2. record' = Updated(Settled(r, outcome = "failure"))
  BY DEF Clone
<1> HIDE DEF r
<1>3. /\ record = NoRecord => record' = NoRecord
      /\ record # NoRecord =>
            /\ record' \in Record
            /\ record'.deleting = record.deleting
            /\ record'.env = record.env
            /\ record'.operation = "none"
  BY <1>1, <1>2, Settling
<1>4. queue # <<>> /\ EndOperation
  BY DEF Clone, QueueInv
<1> QED
  BY <1>3, <1>4, EndsOperation DEF Finishes

(* The five ways an operation goes on from its answer.                     *)
Answers(ok) ==
    /\ pc \in Waits /\ wire # <<>>
    /\ Head(wire).by = "operation" /\ Head(wire).call # "delete"
    /\ Serves(Head(wire).call, ok)
    /\ \/ /\ pc = "create" /\ pc' = "start" /\ Reports
          /\ wire' = Append(Tail(wire),
                            [call |-> "start", by |-> "operation"])
          /\ idle' = FALSE
          /\ UNCHANGED <<queue, decisions, ringing>>
       \/ /\ pc = "start" /\ pc' = "clear" /\ Reports
          /\ wire' = Tail(wire)
          /\ UNCHANGED <<idle, queue, decisions, ringing>>
       \/ /\ pc = "restart" /\ pc' = "resume" /\ Reports
          /\ wire' = Tail(wire)
          /\ UNCHANGED <<idle, queue, decisions, ringing>>
       \/ Finishes /\ wire' = Tail(wire) /\ UNCHANGED idle

(* An answer is one of these five.                                         *)
LEMMA ServeOperationAnswers ==
  ASSUME TypeOK, WireInv, QueueInv, NEW ok \in BOOLEAN, ServeOperation(ok)
  PROVE  Answers(ok)
<1> wire \in Seq(Call)
  BY DEF TypeOK
<1>1. /\ wire # <<>> /\ Head(wire) = wire[1] /\ 1 \in 1..Len(wire)
      /\ Head(wire) \in Call
      /\ Head(wire).by = "operation"
  BY Tailed DEF ServeOperation, Serving
<1>2. Head(wire).call # "delete" /\ pc \in Waits
  BY <1>1 DEF WireInv
<1>3. Serves(Head(wire).call, ok)
  BY <1>1, ServedServes DEF ServeOperation, Call
<1>4. ok => runner'.env \in Environments
  BY <1>2, <1>3 DEF Serves, Runner, Environments
<1>5. ok /\ record' = Reported(runner'.env) => Reports
  BY <1>4, Reporting DEF Reports
<1>6. queue # <<>>
  BY <1>2 DEF Waits, QueueInv
<1>7. CASE pc = "create" /\ ok
  BY <1>1, <1>2, <1>3, <1>5, <1>7 DEF ServeOperation, Answers
<1>8. CASE pc = "start" /\ ok
  BY <1>1, <1>2, <1>3, <1>5, <1>8 DEF ServeOperation, Answers
<1>9. CASE pc = "restart" /\ ok /\ Present /\ record.checkout = "available"
  BY <1>1, <1>2, <1>3, <1>5, <1>9 DEF ServeOperation, Answers
<1>10. CASE pc = "restart" /\ ok
              /\ ~(Present /\ record.checkout = "available")
  <2> DEFINE r == [record EXCEPT !.env = runner'.env]
  <2>1. record # NoRecord =>
           r \in Record /\ r.deleting = record.deleting /\ r.env = runner'.env
    BY <1>4, <1>10, RecordTyped DEF Record, Environments
  <2>2. /\ record' = Updated(Settled(r, FALSE)) /\ EndOperation
        /\ wire' = Tail(wire) /\ idle' = idle
    BY <1>10 DEF ServeOperation
  <2> HIDE DEF r
  <2>3. Finishes
    BY <1>6, <2>1, <2>2, Settling, EndsOperation DEF Finishes
  <2> QED
    BY <1>1, <1>2, <1>3, <2>2, <2>3 DEF Answers
<1>11. CASE pc = "stop"
  <2>1. /\ record' = IF ok THEN Reported(runner'.env) ELSE record
        /\ wire' = Tail(wire) /\ idle' = idle /\ EndOperation
    BY <1>11 DEF ServeOperation
  <2>2. Finishes
    BY <1>4, <1>6, <2>1, Reporting, RecordTyped, EndsOperation DEF Finishes
  <2> QED
    BY <1>1, <1>2, <1>3, <2>1, <2>2 DEF Answers
<1>12. CASE pc \in {"create", "start", "restart"} /\ ~ok
  <2>1. Settle(TRUE) /\ wire' = Tail(wire) /\ idle' = idle
    BY <1>12 DEF ServeOperation
  <2> QED
    BY <1>1, <1>2, <1>3, <1>6, <2>1, SettleFinishes DEF Answers
<1> QED
  BY <1>2, <1>7, <1>8, <1>9, <1>10, <1>11, <1>12 DEF Waits

(* What the steps of a setup that fail or end do.                          *)
LEMMA SetupFinishes ==
  ASSUME TypeOK, QueueInv
  PROVE  /\ Resume \/ CredentialsFail \/ Clear(FALSE) \/ Skip => Finishes
<1>1. Resume \/ CredentialsFail \/ Clear(FALSE) =>
         queue # <<>> /\ \E failed \in BOOLEAN : Settle(failed)
  BY DEF Resume, CredentialsFail, Clear, QueueInv
<1>2. Skip => Finishes
  BY EndsOperation, RecordTyped DEF Skip, Finishes
<1> QED
  BY <1>1, <1>2, SettleFinishes

(* An answer that the agent's tool, a deletion or nobody hears.            *)
LEMMA OtherAnswers ==
  ASSUME TypeOK, WireInv, NEW ok \in BOOLEAN, ServeOther(ok)
  PROVE  /\ wire # <<>> /\ wire' = Tail(wire)
         /\ Head(wire).by \in {"agent", "nobody"}
         /\ Serves(Head(wire).call, ok)
         /\ \/ record' = record
            \/ Head(wire).by = "agent" /\ Head(wire).call # "delete" /\ Reports
<1> wire \in Seq(Call)
  BY DEF TypeOK
<1>1. /\ wire # <<>> /\ Head(wire) = wire[1] /\ 1 \in 1..Len(wire)
      /\ Head(wire) \in Call
      /\ Head(wire).by \in {"agent", "nobody"}
  BY Tailed DEF ServeOther, Serving
<1>2. Head(wire).by = "agent" => Head(wire).call # "delete"
  BY <1>1 DEF WireInv
<1>3. Serves(Head(wire).call, ok)
  BY <1>1, ServedServes DEF ServeOther, Call
<1>4. ok /\ Head(wire).call # "delete" => runner'.env \in Environments
  BY <1>3 DEF Serves, Runner, Environments
<1>5. CASE ok /\ Head(wire).by = "agent"
  <2>1. record' = Reported(runner'.env)
    BY <1>5 DEF ServeOther
  <2>2. Reports
    BY <1>2, <1>4, <1>5, <2>1, Reporting DEF Reports
  <2> QED
    BY <1>1, <1>2, <1>3, <1>5, <2>2 DEF ServeOther
<1>6. CASE ~(ok /\ Head(wire).by = "agent")
  BY <1>1, <1>3, <1>6 DEF ServeOther
<1> QED
  BY <1>5, <1>6

(* A deletion hears its own answer.                                        *)
LEMMA DeletionAnswers ==
  ASSUME TypeOK, WireInv, NEW d \in Deleters, NEW ok \in BOOLEAN,
         ServeDeletion(d, ok)
  PROVE  /\ wire # <<>> /\ wire' = Tail(wire)
         /\ Head(wire).by = d /\ Head(wire).call = "delete"
         /\ Serves("delete", ok)
<1> wire \in Seq(Call)
  BY DEF TypeOK
<1>1. /\ wire # <<>> /\ Head(wire) = wire[1] /\ 1 \in 1..Len(wire)
      /\ Head(wire).by = d
  BY Tailed DEF ServeDeletion, Serving
<1>2. Serves("delete", ok)
  BY ServedServes DEF ServeDeletion
<1> QED
  BY <1>1, <1>2 DEF ServeDeletion, WireInv

(* A notice reports an environment that is there.                          *)
LEMMA NoticeReports ==
  ASSUME TypeOK, Notice
  PROVE  /\ runner' = runner
         /\ \/ record # NoRecord /\ runner.env # "absent" /\ Reports
            \/ /\ record' = record
               /\ record = NoRecord \/ runner.env = "absent"
<1>1. runner.env # "absent" => runner.env \in Environments
  BY DEF TypeOK, Environments
<1> QED
  BY <1>1, Reporting DEF Notice, Reports, Present

(* The other steps that change the record keep most of it.                 *)
LEMMA RequestsRecord ==
  ASSUME TypeOK
  PROVE  /\ Delete => /\ record # NoRecord /\ record' \in Record
                      /\ record'.env = record.env
                      /\ record'.checkout = record.checkout
                      /\ record'.operation = record.operation
                      /\ record'.deleting
         /\ \A recovery \in Recoveries : Retry(recovery) =>
                      /\ record # NoRecord /\ record' \in Record
                      /\ record'.env = record.env
                      /\ record'.checkout = record.checkout
                      /\ record'.operation = record.operation
                      /\ record'.deleting = record.deleting
BY RecordTyped DEF Delete, Retry, Request, Record, Present

(* A setup that begins names its operation.                                *)
LEMMA SetupRecord ==
  ASSUME TypeOK, BeginSetup
  PROVE  /\ record # NoRecord /\ record' \in Record
         /\ record'.env = record.env
         /\ record'.checkout = record.checkout
         /\ record'.operation =
               IF Head(queue) = "provision" \/ record.checkout = "pending"
               THEN "provisioning" ELSE "resuming"
         /\ record'.deleting = record.deleting
<1>1. record # NoRecord
  BY DEF BeginSetup, Skips, Present
<1> QED
  BY <1>1, RecordTyped DEF BeginSetup, Record

(* A created Session is to be provisioned.                                 *)
LEMMA FreshRecord ==
  /\ Fresh \in Record
  /\ Fresh.env = "stopped" /\ Fresh.checkout = "pending"
  /\ Fresh.operation = "provisioning" /\ Fresh.deleting = FALSE
BY DEF Fresh, Record

(* No step counts a fault beyond the bound.                                *)
LEMMA FaultsKept ==
  ASSUME TypeOK
  PROVE  /\ CredentialsFail \/ GuestFails => faults' \in 0..MaxFaults
         /\ \A ok \in BOOLEAN : Clear(ok) => faults' \in 0..MaxFaults
         /\ \A outcome : Clone(outcome) => faults' \in 0..MaxFaults
         /\ \A d, ok : DeleteMedia(d, ok) => faults' \in 0..MaxFaults
<1>1. \A n \in {0, 1} : Faults(n) => faults' \in 0..MaxFaults
  BY BoundsAssumption, FaultsTyped
<1>2. faults \in 0..MaxFaults
  BY DEF TypeOK
<1>3. CredentialsFail \/ GuestFails => \E n \in {0, 1} : Faults(n)
  BY DEF CredentialsFail, GuestFails
<1>4. \A ok : Guest(ok) => faults' = faults \/ \E n \in {0, 1} : Faults(n)
  BY DEF Guest
<1>5. \A d, ok : DeleteMedia(d, ok) =>
         faults' = faults \/ \E n \in {0, 1} : Faults(n)
  BY DEF DeleteMedia
<1> QED
  BY <1>1, <1>2, <1>3, <1>4, <1>5 DEF Clear, Clone

(* What happens in the guest.                                              *)
LEMMA GuestRunner ==
  ASSUME TypeOK
  PROVE  /\ RunTurn => /\ runner' \in Runner /\ runner'.env = runner.env
                       /\ \/ runner' = runner
                          \/ runner.files = "clone" /\ runner'.files = "work"
         /\ GuestFails => /\ runner' \in Runner /\ runner.env = "running"
                          /\ runner'.env = "error" /\ notice'
                          /\ runner'.files = runner.files
         /\ \A ok \in BOOLEAN : Clear(ok) =>
                 /\ runner' \in Runner /\ runner'.env = runner.env
                 /\ ~ok => runner' = runner
         /\ \A outcome : Clone(outcome) =>
                 runner' \in Runner /\ runner'.env = runner.env
<1>1. runner \in Runner
  BY DEF TypeOK, Runner
<1> QED
  BY <1>1 DEF RunTurn, GuestFails, Clear, Clone, Runner

(* What the calls under way are after the oldest is served.                *)
LEMMA WireTail ==
  ASSUME TypeOK, wire # <<>>
  PROVE  /\ Len(wire) \in Nat \ {0} /\ Head(wire) = wire[1]
         /\ Len(Tail(wire)) = Len(wire) - 1
         /\ \A i \in 1..Len(wire) - 1 : Tail(wire)[i] = wire[i + 1]
         /\ Len(Append(Tail(wire), [call |-> "start", by |-> "operation"]))
              = Len(wire)
         /\ \A i \in 1..Len(wire) - 1 :
              Append(Tail(wire), [call |-> "start", by |-> "operation"])[i]
                = wire[i + 1]
         /\ Append(Tail(wire), [call |-> "start", by |-> "operation"])
              [Len(wire)] = [call |-> "start", by |-> "operation"]
<1>1. wire \in Seq(Call)
  BY DEF TypeOK
<1>2. /\ Len(wire) \in Nat \ {0} /\ Head(wire) = wire[1]
      /\ Tail(wire) \in Seq(Call) /\ Len(Tail(wire)) = Len(wire) - 1
      /\ \A i \in 1..Len(wire) - 1 : Tail(wire)[i] = wire[i + 1]
  BY <1>1, Tailed
<1>3. [call |-> "start", by |-> "operation"] \in Call
  BY DEF Call
<1> DEFINE e == [call |-> "start", by |-> "operation"]
<1> HIDE DEF e
<1>4. /\ Len(Append(Tail(wire), e)) = Len(wire)
      /\ \A i \in 1..Len(wire) - 1 :
            Append(Tail(wire), e)[i] = Tail(wire)[i]
      /\ Append(Tail(wire), e)[Len(wire)] = e
  BY <1>2, <1>3, Appended DEF e
<1> QED
  BY <1>2, <1>4 DEF e

(* What a call that is sent adds to the wire.                              *)
LEMMA WireSent ==
  ASSUME TypeOK,
         NEW c \in {"create", "start", "restart", "stop", "delete"},
         NEW b \in {"operation", "agent", "nobody"} \cup Deleters,
         Send(c, b)
  PROVE  /\ Len(wire) \in Nat /\ Len(wire') = Len(wire) + 1
         /\ \A i \in 1..Len(wire) : wire'[i] = wire[i]
         /\ wire'[Len(wire) + 1].call = c /\ wire'[Len(wire) + 1].by = b
<1>1. wire \in Seq(Call)
  BY DEF TypeOK
<1> QED
  BY <1>1, Sent

(* An eviction leaves the calls, and nobody who awaits them.               *)
LEMMA WireCut ==
  ASSUME TypeOK, Evict
  PROVE  /\ Len(wire') = Len(wire)
         /\ \A i \in 1..Len(wire) :
               wire'[i].call = wire[i].call /\ wire'[i].by = "nobody"
<1>1. \A i \in 1..Len(wire) : wire[i] \in Call
  BY ElementOfSeq DEF TypeOK
<1>2. wire' = [i \in 1..Len(wire) |-> [wire[i] EXCEPT !.by = "nobody"]]
      /\ Len(wire) \in Nat
  BY LenProperties DEF Evict, TypeOK
<1> QED
  BY <1>1, <1>2 DEF Call

(* A queued reconciliation is behind the decision under way.               *)
LEMMA Reconciled ==
  ASSUME BaseInv
  PROVE  /\ Reconciling(decisions) # <<>>
         /\ Len(Reconciling(decisions)) >= Len(decisions)
         /\ looked # "no" => Len(Reconciling(decisions)) > 1
         /\ \A x \in Decisions : /\ Append(decisions, x) # <<>>
                                 /\ Len(Append(decisions, x)) = Len(decisions) + 1
         /\ Len(decisions) \in Nat
<1>1. decisions \in Seq(Decisions)
  BY DEF BaseInv, TypeOK, Decisions
<1>2. /\ Len(decisions) \in Nat
      /\ \A x \in Decisions : /\ Append(decisions, x) # <<>>
                              /\ Len(Append(decisions, x)) = Len(decisions) + 1
  BY <1>1, Appended
<1> QED
  BY <1>1, <1>2, Queued DEF BaseInv, QueueInv

(* The operations, with one more and without the first.                    *)
LEMMA QueueShifts ==
  ASSUME BaseInv
  PROVE  /\ Len(queue) \in Nat /\ (queue # <<>> => Len(queue) > 0)
         /\ queue # <<>> =>
               /\ Len(Tail(queue)) = Len(queue) - 1
               /\ Head(queue) = queue[1]
               /\ \A i \in 1..Len(queue) - 1 : Tail(queue)[i] = queue[i + 1]
         /\ \A x \in Operations :
               /\ Append(queue, x) # <<>>
               /\ Len(Append(queue, x)) = Len(queue) + 1
               /\ \A i \in 1..Len(queue) : Append(queue, x)[i] = queue[i]
               /\ Append(queue, x)[Len(queue) + 1] = x
<1>1. queue \in Seq(Operations)
  BY DEF BaseInv, TypeOK
<1> QED
  BY <1>1, Appended, Tailed, EmptySeq

(* After the end of an operation each is one place further.                *)
LEMMA Shorter ==
  ASSUME BaseInv, queue # <<>>, queue' = Tail(queue)
  PROVE  \A i \in 1..Len(queue') :
            queue'[i] = queue[i + 1] /\ i + 1 \in 2..Len(queue)
                                     /\ i + 1 \in 1..Len(queue)
<1>1. Len(queue) \in Nat /\ Len(queue') = Len(queue) - 1
  BY QueueShifts
<1> QED
  BY <1>1, QueueShifts

(* A queued operation changes no other.                                    *)
LEMMA Longer ==
  ASSUME BaseInv, NEW x \in Operations, queue' = Append(queue, x)
  PROVE  \A i \in 1..Len(queue') :
            \/ i \in 1..Len(queue) /\ queue'[i] = queue[i]
            \/ queue'[i] = x
<1>1. Len(queue) \in Nat /\ Len(queue') = Len(queue) + 1
  BY QueueShifts
<1>2. \A i \in 1..Len(queue) : queue'[i] = queue[i]
  BY QueueShifts
<1>3. queue'[Len(queue) + 1] = x
  BY QueueShifts
<1> QED
  BY <1>1, <1>2, <1>3

(* A deletion goes on; the other stays where it is.                        *)
LEMMA Deletions ==
  ASSUME TypeOK, NEW d \in Deleters, NEW x
  PROVE  /\ [deletion EXCEPT ![d] = x][d] = x
         /\ \A e \in Deleters \ {d} : [deletion EXCEPT ![d] = x][e] = deletion[e]
BY DEF TypeOK

(* A create that was served is followed by the start, at the end of the    *)
(* wire.                                                                   *)
LEMMA WireGoesOn ==
  ASSUME TypeOK, wire # <<>>,
         wire' = Append(Tail(wire), [call |-> "start", by |-> "operation"])
  PROVE  /\ Len(wire') = Len(wire) /\ Len(wire) \in Nat \ {0}
         /\ \A i \in 1..Len(wire') : i < Len(wire) =>
               /\ wire'[i] = wire[i + 1]
               /\ i + 1 \in 1..Len(wire) /\ i + 1 \in 2..Len(wire)
         /\ wire'[Len(wire)].call = "start"
         /\ wire'[Len(wire)].by = "operation"
<1>1. /\ Len(wire') = Len(wire) /\ Len(wire) \in Nat \ {0}
      /\ \A i \in 1..Len(wire) - 1 : wire'[i] = wire[i + 1]
      /\ wire'[Len(wire)] = [call |-> "start", by |-> "operation"]
  BY WireTail
<1>2. wire'[Len(wire)].call = "start" /\ wire'[Len(wire)].by = "operation"
  BY <1>1
<1>3. ASSUME NEW i \in 1..Len(wire'), i < Len(wire)
      PROVE  /\ i \in 1..Len(wire) - 1
             /\ i + 1 \in 1..Len(wire) /\ i + 1 \in 2..Len(wire)
  BY <1>1, <1>3
<1> QED
  BY <1>1, <1>2, <1>3

(* The decisions without the first.                                        *)
LEMMA DecisionsShift ==
  ASSUME BaseInv, decisions # <<>>
  PROVE  /\ Len(decisions) > 1 => Tail(decisions) # <<>>
         /\ \A x \in Decisions : Append(Tail(decisions), x) # <<>>
         /\ Head(decisions) \in Decisions
<1>1. decisions \in Seq(Decisions)
  BY DEF BaseInv, TypeOK, Decisions
<1>2. /\ Tail(decisions) \in Seq(Decisions) /\ Head(decisions) \in Decisions
      /\ Len(Tail(decisions)) = Len(decisions) - 1
  BY <1>1, Tailed
<1>3. Len(decisions) > 1 => Tail(decisions) # <<>>
  <2>1. ASSUME Tail(decisions) = <<>>
        PROVE  Len(Tail(decisions)) = 0
    BY <1>2, <2>1, EmptySeq
  <2>2. Len(decisions) \in Nat
    BY <1>1, LenProperties
  <2> QED
    BY <1>2, <2>1, <2>2
<1> QED
  BY <1>1, <1>2, <1>3, Appended

(* The phases and the counters stay in their ranges.                       *)
LEMMA PhasesKept ==
  ASSUME BaseInv, PhasesType, [Next]_vars
  PROVE  PhasesType'
<1>1. ASSUME Create
      PROVE  PhasesType'
  BY <1>1, FreshRecord, BoundsAssumption DEF Create, counters, PhasesType,
     Steps, Deleters, BoundsAssumption
<1>2. ASSUME Admit
      PROVE  PhasesType'
  BY <1>2, BoundsAssumption DEF Admit, Request, Present, PhasesType, Steps,
     Deleters, BoundsAssumption
<1>3. ASSUME Wake
      PROVE  PhasesType'
  BY <1>3, BoundsAssumption DEF Wake, Request, Present, PhasesType, Steps,
     Deleters, BoundsAssumption
<1>4. ASSUME Stop
      PROVE  PhasesType'
  BY <1>4, BoundsAssumption DEF Stop, Request, Abort, Present, PhasesType,
     Steps, Deleters, BoundsAssumption
<1>5. ASSUME Delete
      PROVE  PhasesType'
  BY <1>5, RequestsRecord, BoundsAssumption DEF Delete, Abort, Present,
     PhasesType, Steps, Deleters, BoundsAssumption
<1>6. ASSUME NEW recovery \in Recoveries, Retry(recovery)
      PROVE  PhasesType'
  BY <1>6, RequestsRecord, BoundsAssumption DEF Retry, Request, Present,
     PhasesType, Steps, Deleters, BoundsAssumption
<1>7. ASSUME Skip
      PROVE  PhasesType'
  <2>1. Finishes
    BY <1>7, SetupFinishes DEF BaseInv
  <2> QED
    BY <1>7, <2>1, BoundsAssumption DEF Finishes, Skip, counters, PhasesType,
       Steps, Deleters, BoundsAssumption
<1>8. ASSUME BeginSetup
      PROVE  PhasesType'
  BY <1>8, SetupRecord, BoundsAssumption DEF BeginSetup, counters, Present,
     PhasesType, Steps, Deleters, BoundsAssumption
<1>9. ASSUME Credentials
      PROVE  PhasesType'
  BY <1>9, BoundsAssumption DEF Credentials, Send, counters, Present,
     PhasesType, Steps, Deleters, BoundsAssumption
<1>10. ASSUME CredentialsFail
      PROVE  PhasesType'
  <2>1. Finishes
    BY <1>10, SetupFinishes DEF BaseInv
  <2> QED
    BY <1>10, <2>1, BoundsAssumption DEF Finishes, CredentialsFail, Present,
       PhasesType, Steps, Deleters, BoundsAssumption
<1>11. ASSUME BeginStop
      PROVE  PhasesType'
  BY <1>11, BoundsAssumption DEF BeginStop, counters, PhasesType, Steps,
     Deleters, BoundsAssumption
<1>12. ASSUME Refreshed
      PROVE  PhasesType'
  BY <1>12, BoundsAssumption DEF Refreshed, Send, counters, PhasesType, Steps,
     Deleters, BoundsAssumption
<1>13. ASSUME Resume
      PROVE  PhasesType'
  <2>1. Finishes
    BY <1>13, SetupFinishes DEF BaseInv
  <2> QED
    BY <1>13, <2>1, BoundsAssumption DEF Finishes, Resume, counters, PhasesType,
       Steps, Deleters, BoundsAssumption
<1>14. ASSUME NEW ok \in BOOLEAN, Clear(ok)
      PROVE  PhasesType'
  <2>1. CASE ok
    BY <1>14, <2>1, BoundsAssumption DEF Clear, Guest, Faults, PhasesType,
       Steps, Deleters, BoundsAssumption
  <2>2. CASE ~ok
    <3>1. Finishes
      BY <1>14, <2>2, SetupFinishes DEF BaseInv
    <3> QED
      BY <1>14, <2>2, <3>1, BoundsAssumption DEF Finishes, Clear, PhasesType,
         Steps, Deleters, BoundsAssumption
  <2> QED
    BY <2>1, <2>2
<1>15. ASSUME NEW ok \in BOOLEAN, ServeOperation(ok)
      PROVE  PhasesType'
  <2>1. Answers(ok)
    BY <1>15, ServeOperationAnswers DEF BaseInv
  <2> QED
    BY <1>15, <2>1, BoundsAssumption DEF Answers, Finishes, Reports, Serves,
       ServeOperation, Present, PhasesType, Steps, Deleters, BoundsAssumption
<1>16. ASSUME NEW ok \in BOOLEAN, ServeOther(ok)
      PROVE  PhasesType'
  <2>1. /\ wire # <<>> /\ wire' = Tail(wire)
        /\ Head(wire).by \in {"agent", "nobody"}
        /\ Serves(Head(wire).call, ok)
        /\ \/ record' = record
           \/ Head(wire).by = "agent" /\ Head(wire).call # "delete" /\ Reports
    BY <1>16, OtherAnswers DEF BaseInv
  <2> QED
    BY <1>16, <2>1, BoundsAssumption DEF Reports, Serves, ServeOther, memory,
       PhasesType, Steps, Deleters, BoundsAssumption
<1>17. ASSUME NEW outcome \in {"available", "unavailable", "failure"}, Clone(outcome)
      PROVE  PhasesType'
  <2>1. Finishes
    BY <1>17, CloneFinishes DEF BaseInv
  <2> QED
    BY <1>17, <2>1, BoundsAssumption DEF Finishes, Clone, PhasesType, Steps,
       Deleters, BoundsAssumption
<1>18. ASSUME Look
      PROVE  PhasesType'
  BY <1>18, BoundsAssumption DEF Look, counters, PhasesType, Steps, Deleters,
     BoundsAssumption
<1>19. ASSUME Reconcile
      PROVE  PhasesType'
  BY <1>19, BoundsAssumption DEF Reconcile, counters, Present, PhasesType,
     Steps, Deleters, BoundsAssumption
<1>20. ASSUME StopIfIdle
      PROVE  PhasesType'
  BY <1>20, BoundsAssumption DEF StopIfIdle, MayStop, counters, Present,
     PhasesType, Steps, Deleters, BoundsAssumption
<1>21. ASSUME NEW d \in Deleters, Drop(d)
      PROVE  PhasesType'
  BY <1>21, BoundsAssumption DEF Drop, Ended, counters, PhasesType, Steps,
     Deleters, BoundsAssumption
<1>22. ASSUME NEW d \in Deleters, NEW ok \in BOOLEAN, DeleteMedia(d, ok)
      PROVE  PhasesType'
  BY <1>22, BoundsAssumption DEF DeleteMedia, Send, Faults, Postpone, Ended,
     PhasesType, Steps, Deleters, BoundsAssumption
<1>23. ASSUME NEW d \in Deleters, NEW ok \in BOOLEAN, ServeDeletion(d, ok)
      PROVE  PhasesType'
  <2>1. /\ wire # <<>> /\ wire' = Tail(wire)
        /\ Head(wire).by = d /\ Head(wire).call = "delete"
        /\ Serves("delete", ok)
    BY <1>23, DeletionAnswers DEF BaseInv
  <2> QED
    BY <1>23, <2>1, BoundsAssumption DEF Serves, ServeDeletion, Postpone, Ended,
       PhasesType, Steps, Deleters, BoundsAssumption
<1>24. ASSUME Submit
      PROVE  PhasesType'
  BY <1>24, BoundsAssumption DEF Submit, counters, Present, PhasesType, Steps,
     Deleters, BoundsAssumption
<1>25. ASSUME RunTurn
      PROVE  PhasesType'
  BY <1>25, GuestRunner, BoundsAssumption DEF RunTurn, counters, memory,
     PhasesType, Steps, Deleters, BoundsAssumption
<1>26. ASSUME EndTurn
      PROVE  PhasesType'
  BY <1>26, BoundsAssumption DEF EndTurn, counters, PhasesType, Steps, Deleters,
     BoundsAssumption
<1>27. ASSUME NEW ask, NEW action \in {"start", "stop", "restart"}, AgentControl(ask, action)
      PROVE  PhasesType'
  BY <1>27, BoundsAssumption DEF AgentControl, Send, memory, PhasesType, Steps,
     Deleters, BoundsAssumption
<1>28. ASSUME Evict
      PROVE  PhasesType'
  BY <1>28, BoundsAssumption DEF Evict, Present, PhasesType, Steps, Deleters,
     BoundsAssumption
<1>29. ASSUME Load
      PROVE  PhasesType'
  BY <1>29, BoundsAssumption DEF Load, counters, PhasesType, Steps, Deleters,
     BoundsAssumption
<1>30. ASSUME Notice
      PROVE  PhasesType'
  <2>1. /\ runner' = runner
        /\ \/ record # NoRecord /\ runner.env # "absent" /\ Reports
           \/ record' = record /\ (record = NoRecord \/ runner.env = "absent")
    BY <1>30, NoticeReports DEF BaseInv
  <2> QED
    BY <1>30, <2>1, BoundsAssumption DEF Reports, Notice, counters, Present,
       PhasesType, Steps, Deleters, BoundsAssumption
<1>31. ASSUME Ring
      PROVE  PhasesType'
  BY <1>31, BoundsAssumption DEF Ring, counters, Present, PhasesType, Steps,
     Deleters, BoundsAssumption
<1>32. ASSUME Idle
      PROVE  PhasesType'
  BY <1>32, BoundsAssumption DEF Idle, counters, memory, Present, PhasesType,
     Steps, Deleters, BoundsAssumption
<1>33. ASSUME GuestFails
      PROVE  PhasesType'
  BY <1>33, GuestRunner, BoundsAssumption DEF GuestFails, memory, PhasesType,
     Steps, Deleters, BoundsAssumption
<1>34. CASE UNCHANGED vars
  BY <1>34, BoundsAssumption DEF vars, memory, counters, PhasesType, Steps,
     Deleters, BoundsAssumption
<1> QED
  BY <1>1, <1>2, <1>3, <1>4, <1>5, <1>6, <1>7, <1>8, <1>9, <1>10, <1>11, <1>12,
     <1>13, <1>14, <1>15, <1>16, <1>17, <1>18, <1>19, <1>20, <1>21, <1>22,
     <1>23, <1>24, <1>25, <1>26, <1>27, <1>28, <1>29, <1>30, <1>31, <1>32,
     <1>33, <1>34 DEF Next, Users, Operate, Decide, Deletes, Agent

(* The flags stay Boolean.                                                 *)
LEMMA FlagsKept ==
  ASSUME BaseInv, FlagsType, [Next]_vars
  PROVE  FlagsType'
<1>1. ASSUME Create
      PROVE  FlagsType'
  BY <1>1, FreshRecord DEF Create, counters, FlagsType
<1>2. ASSUME Admit
      PROVE  FlagsType'
  BY <1>2 DEF Admit, Request, Present, FlagsType
<1>3. ASSUME Wake
      PROVE  FlagsType'
  BY <1>3 DEF Wake, Request, Present, FlagsType
<1>4. ASSUME Stop
      PROVE  FlagsType'
  BY <1>4 DEF Stop, Request, Abort, Present, FlagsType
<1>5. ASSUME Delete
      PROVE  FlagsType'
  BY <1>5, RequestsRecord DEF Delete, Abort, Present, FlagsType
<1>6. ASSUME NEW recovery \in Recoveries, Retry(recovery)
      PROVE  FlagsType'
  BY <1>6, RequestsRecord DEF Retry, Request, Present, FlagsType
<1>7. ASSUME Skip
      PROVE  FlagsType'
  <2>1. Finishes
    BY <1>7, SetupFinishes DEF BaseInv
  <2> QED
    BY <1>7, <2>1 DEF Finishes, Skip, counters, FlagsType
<1>8. ASSUME BeginSetup
      PROVE  FlagsType'
  BY <1>8, SetupRecord DEF BeginSetup, counters, Present, FlagsType
<1>9. ASSUME Credentials
      PROVE  FlagsType'
  BY <1>9 DEF Credentials, Send, counters, Present, FlagsType
<1>10. ASSUME CredentialsFail
      PROVE  FlagsType'
  <2>1. Finishes
    BY <1>10, SetupFinishes DEF BaseInv
  <2> QED
    BY <1>10, <2>1 DEF Finishes, CredentialsFail, Present, FlagsType
<1>11. ASSUME BeginStop
      PROVE  FlagsType'
  BY <1>11 DEF BeginStop, counters, FlagsType
<1>12. ASSUME Refreshed
      PROVE  FlagsType'
  BY <1>12 DEF Refreshed, Send, counters, FlagsType
<1>13. ASSUME Resume
      PROVE  FlagsType'
  <2>1. Finishes
    BY <1>13, SetupFinishes DEF BaseInv
  <2> QED
    BY <1>13, <2>1 DEF Finishes, Resume, counters, FlagsType
<1>14. ASSUME NEW ok \in BOOLEAN, Clear(ok)
      PROVE  FlagsType'
  <2>1. CASE ok
    BY <1>14, <2>1 DEF Clear, Guest, Faults, FlagsType
  <2>2. CASE ~ok
    <3>1. Finishes
      BY <1>14, <2>2, SetupFinishes DEF BaseInv
    <3> QED
      BY <1>14, <2>2, <3>1 DEF Finishes, Clear, FlagsType
  <2> QED
    BY <2>1, <2>2
<1>15. ASSUME NEW ok \in BOOLEAN, ServeOperation(ok)
      PROVE  FlagsType'
  <2>1. Answers(ok)
    BY <1>15, ServeOperationAnswers DEF BaseInv
  <2> QED
    BY <1>15, <2>1 DEF Answers, Finishes, Reports, Serves, ServeOperation,
       Present, FlagsType
<1>16. ASSUME NEW ok \in BOOLEAN, ServeOther(ok)
      PROVE  FlagsType'
  <2>1. /\ wire # <<>> /\ wire' = Tail(wire)
        /\ Head(wire).by \in {"agent", "nobody"}
        /\ Serves(Head(wire).call, ok)
        /\ \/ record' = record
           \/ Head(wire).by = "agent" /\ Head(wire).call # "delete" /\ Reports
    BY <1>16, OtherAnswers DEF BaseInv
  <2> QED
    BY <1>16, <2>1 DEF Reports, Serves, ServeOther, memory, FlagsType
<1>17. ASSUME NEW outcome \in {"available", "unavailable", "failure"}, Clone(outcome)
      PROVE  FlagsType'
  <2>1. Finishes
    BY <1>17, CloneFinishes DEF BaseInv
  <2> QED
    BY <1>17, <2>1 DEF Finishes, Clone, FlagsType
<1>18. ASSUME Look
      PROVE  FlagsType'
  BY <1>18 DEF Look, counters, FlagsType
<1>19. ASSUME Reconcile
      PROVE  FlagsType'
  BY <1>19 DEF Reconcile, Needs, FlagsType, counters
<1>20. ASSUME StopIfIdle
      PROVE  FlagsType'
  BY <1>20 DEF StopIfIdle, MayStop, counters, Present, FlagsType
<1>21. ASSUME NEW d \in Deleters, Drop(d)
      PROVE  FlagsType'
  BY <1>21 DEF Drop, Ended, counters, FlagsType
<1>22. ASSUME NEW d \in Deleters, NEW ok \in BOOLEAN, DeleteMedia(d, ok)
      PROVE  FlagsType'
  BY <1>22 DEF DeleteMedia, Send, Faults, Postpone, Ended, FlagsType
<1>23. ASSUME NEW d \in Deleters, NEW ok \in BOOLEAN, ServeDeletion(d, ok)
      PROVE  FlagsType'
  <2>1. /\ wire # <<>> /\ wire' = Tail(wire)
        /\ Head(wire).by = d /\ Head(wire).call = "delete"
        /\ Serves("delete", ok)
    BY <1>23, DeletionAnswers DEF BaseInv
  <2> QED
    BY <1>23, <2>1 DEF Serves, ServeDeletion, Postpone, Ended, FlagsType
<1>24. ASSUME Submit
      PROVE  FlagsType'
  BY <1>24 DEF Submit, counters, Present, FlagsType
<1>25. ASSUME RunTurn
      PROVE  FlagsType'
  BY <1>25, GuestRunner DEF RunTurn, counters, memory, FlagsType
<1>26. ASSUME EndTurn
      PROVE  FlagsType'
  BY <1>26 DEF EndTurn, counters, FlagsType
<1>27. ASSUME NEW ask, NEW action \in {"start", "stop", "restart"}, AgentControl(ask, action)
      PROVE  FlagsType'
  BY <1>27 DEF AgentControl, Send, memory, FlagsType
<1>28. ASSUME Evict
      PROVE  FlagsType'
  BY <1>28 DEF Evict, Present, FlagsType
<1>29. ASSUME Load
      PROVE  FlagsType'
  BY <1>29 DEF Load, counters, FlagsType
<1>30. ASSUME Notice
      PROVE  FlagsType'
  <2>1. /\ runner' = runner
        /\ \/ record # NoRecord /\ runner.env # "absent" /\ Reports
           \/ record' = record /\ (record = NoRecord \/ runner.env = "absent")
    BY <1>30, NoticeReports DEF BaseInv
  <2> QED
    BY <1>30, <2>1 DEF Reports, Notice, counters, Present, FlagsType
<1>31. ASSUME Ring
      PROVE  FlagsType'
  BY <1>31 DEF Ring, counters, Present, FlagsType
<1>32. ASSUME Idle
      PROVE  FlagsType'
  BY <1>32 DEF Idle, counters, memory, Present, FlagsType
<1>33. ASSUME GuestFails
      PROVE  FlagsType'
  BY <1>33, GuestRunner DEF GuestFails, memory, FlagsType
<1>34. CASE UNCHANGED vars
  BY <1>34 DEF vars, memory, counters, FlagsType
<1> QED
  BY <1>1, <1>2, <1>3, <1>4, <1>5, <1>6, <1>7, <1>8, <1>9, <1>10, <1>11, <1>12,
     <1>13, <1>14, <1>15, <1>16, <1>17, <1>18, <1>19, <1>20, <1>21, <1>22,
     <1>23, <1>24, <1>25, <1>26, <1>27, <1>28, <1>29, <1>30, <1>31, <1>32,
     <1>33, <1>34 DEF Next, Users, Operate, Decide, Deletes, Agent

(* One call at most is awaited by the operation under way; deletions send  *)
(* deletions.                                                              *)
LEMMA WireKept ==
  ASSUME BaseInv, [Next]_vars
  PROVE  WireInv'
<1>1. ASSUME Create
      PROVE  WireInv'
  BY <1>1, FreshRecord, WireTail DEF Create, counters, WireInv, BaseInv, Waits
<1>2. ASSUME Admit
      PROVE  WireInv'
  BY <1>2, WireTail DEF Admit, Request, Present, WireInv, BaseInv, Waits
<1>3. ASSUME Wake
      PROVE  WireInv'
  BY <1>3, WireTail DEF Wake, Request, Present, WireInv, BaseInv, Waits
<1>4. ASSUME Stop
      PROVE  WireInv'
  BY <1>4, WireTail DEF Stop, Request, Abort, Present, WireInv, BaseInv, Waits
<1>5. ASSUME Delete
      PROVE  WireInv'
  BY <1>5, RequestsRecord, WireTail DEF Delete, Abort, Present, WireInv,
     BaseInv, Waits
<1>6. ASSUME NEW recovery \in Recoveries, Retry(recovery)
      PROVE  WireInv'
  BY <1>6, RequestsRecord, WireTail DEF Retry, Request, Present, WireInv,
     BaseInv, Waits
<1>7. ASSUME Skip
      PROVE  WireInv'
  <2>1. Finishes
    BY <1>7, SetupFinishes DEF BaseInv
  <2> QED
    BY <1>7, <2>1, WireTail DEF Finishes, Skip, counters, WireInv, BaseInv,
       Waits
<1>8. ASSUME BeginSetup
      PROVE  WireInv'
  BY <1>8, SetupRecord, WireTail DEF BeginSetup, counters, Present, WireInv,
     BaseInv, Waits
<1>9. ASSUME Credentials
      PROVE  WireInv'
  <2>1. PICK c \in {"create", "start", "restart"} : Send(c, "operation")
    BY <1>9 DEF Credentials
  <2>2. /\ Len(wire) \in Nat /\ Len(wire') = Len(wire) + 1
        /\ \A i \in 1..Len(wire) : wire'[i] = wire[i]
        /\ wire'[Len(wire) + 1].call = c /\ wire'[Len(wire) + 1].by = "operation"
    BY <2>1, WireSent DEF BaseInv
  <2>3. pc = "credentials" /\ pc' \in Waits
    BY <1>9 DEF Credentials, Waits
  <2>4. \A i \in 1..Len(wire) : wire[i].by # "operation"
    BY <2>3 DEF BaseInv, WireInv, Waits
  <2> QED
    BY <2>2, <2>3, <2>4 DEF BaseInv, WireInv, Deleters
<1>10. ASSUME CredentialsFail
      PROVE  WireInv'
  <2>1. Finishes
    BY <1>10, SetupFinishes DEF BaseInv
  <2> QED
    BY <1>10, <2>1, WireTail DEF Finishes, CredentialsFail, Present, WireInv,
       BaseInv, Waits
<1>11. ASSUME BeginStop
      PROVE  WireInv'
  BY <1>11, WireTail DEF BeginStop, counters, WireInv, BaseInv, Waits
<1>12. ASSUME Refreshed
      PROVE  WireInv'
  <2>1. Send("stop", "operation")
    BY <1>12 DEF Refreshed
  <2>2. /\ Len(wire) \in Nat /\ Len(wire') = Len(wire) + 1
        /\ \A i \in 1..Len(wire) : wire'[i] = wire[i]
        /\ wire'[Len(wire) + 1].call = "stop" /\ wire'[Len(wire) + 1].by = "operation"
    BY <2>1, WireSent DEF BaseInv
  <2>3. pc = "refresh" /\ pc' \in Waits
    BY <1>12 DEF Refreshed, Waits
  <2>4. \A i \in 1..Len(wire) : wire[i].by # "operation"
    BY <2>3 DEF BaseInv, WireInv, Waits
  <2> QED
    BY <2>2, <2>3, <2>4 DEF BaseInv, WireInv, Deleters
<1>13. ASSUME Resume
      PROVE  WireInv'
  <2>1. Finishes
    BY <1>13, SetupFinishes DEF BaseInv
  <2> QED
    BY <1>13, <2>1, WireTail DEF Finishes, Resume, counters, WireInv, BaseInv,
       Waits
<1>14. ASSUME NEW ok \in BOOLEAN, Clear(ok)
      PROVE  WireInv'
  <2>1. CASE ok
    BY <1>14, <2>1, WireTail DEF Clear, Guest, Faults, WireInv, BaseInv, Waits
  <2>2. CASE ~ok
    <3>1. Finishes
      BY <1>14, <2>2, SetupFinishes DEF BaseInv
    <3> QED
      BY <1>14, <2>2, <3>1, WireTail DEF Finishes, Clear, WireInv, BaseInv,
         Waits
  <2> QED
    BY <2>1, <2>2
<1>15. ASSUME NEW ok \in BOOLEAN, ServeOperation(ok)
      PROVE  WireInv'
  <2>1. Answers(ok)
    BY <1>15, ServeOperationAnswers DEF BaseInv
  <2>2. TypeOK /\ wire # <<>> /\ wire[1].by = "operation" /\ Len(wire) \in Nat \ {0}
    BY <2>1, WireTail DEF Answers, BaseInv
  <2>3. \A i \in 1..Len(wire) : wire[i].by = "operation" => i = 1
    BY <2>2 DEF BaseInv, WireInv
  <2>4. CASE wire' = Tail(wire)
    <3>1. \A i \in 1..Len(wire') : wire'[i] = wire[i + 1] /\ i + 1 \in 2..Len(wire)
      BY <2>2, <2>4, WireTail
    <3>2. \A i \in 1..Len(wire') : wire'[i].by # "operation"
      BY <2>2, <2>3, <3>1
    <3> QED
      BY <2>2, <3>1, <3>2 DEF WireInv, BaseInv
  <2>5. CASE /\ wire' = Append(Tail(wire),
                              [call |-> "start", by |-> "operation"])
             /\ pc' = "start"
    <3>1. /\ \A i \in 1..Len(wire') :
                i < Len(wire) => wire'[i] = wire[i + 1] /\ i + 1 \in 2..Len(wire)
          /\ Len(wire') = Len(wire)
          /\ wire'[Len(wire)].call = "start" /\ wire'[Len(wire)].by = "operation"
      BY <2>2, <2>5, WireGoesOn
    <3>2. \A i \in 1..Len(wire') : i < Len(wire) => wire'[i].by # "operation"
      BY <2>2, <2>3, <3>1
    <3>3. \A i \in 1..Len(wire') : i < Len(wire) \/ i = Len(wire)
      BY <2>2, <3>1
    <3>4. \A i \in 1..Len(wire') : i < Len(wire) =>
             /\ wire'[i].by = "agent" => wire'[i].call # "delete"
             /\ wire'[i].by \in Deleters => wire'[i].call = "delete"
      BY <3>1 DEF WireInv, BaseInv
    <3>5. pc' \in Waits /\ "operation" \notin Deleters
      BY <2>5 DEF Waits, Deleters
    <3>6. \A i \in 1..Len(wire') :
             /\ wire'[i].by \in {"operation", "agent"} => wire'[i].call # "delete"
             /\ wire'[i].by \in Deleters => wire'[i].call = "delete"
      BY <3>1, <3>2, <3>3, <3>4, <3>5
    <3> QED
      BY <3>2, <3>3, <3>5, <3>6 DEF WireInv
  <2> QED
    BY <2>1, <2>4, <2>5 DEF Answers
<1>16. ASSUME NEW ok \in BOOLEAN, ServeOther(ok)
      PROVE  WireInv'
  <2>1. /\ wire # <<>> /\ wire' = Tail(wire)
        /\ Head(wire).by \in {"agent", "nobody"}
        /\ Serves(Head(wire).call, ok)
        /\ \/ record' = record
           \/ Head(wire).by = "agent" /\ Head(wire).call # "delete" /\ Reports
    BY <1>16, OtherAnswers DEF BaseInv
  <2> QED
    BY <1>16, <2>1, WireTail DEF Reports, Serves, ServeOther, memory, WireInv,
       BaseInv, Waits
<1>17. ASSUME NEW outcome \in {"available", "unavailable", "failure"}, Clone(outcome)
      PROVE  WireInv'
  <2>1. Finishes
    BY <1>17, CloneFinishes DEF BaseInv
  <2> QED
    BY <1>17, <2>1, WireTail DEF Finishes, Clone, WireInv, BaseInv, Waits
<1>18. ASSUME Look
      PROVE  WireInv'
  BY <1>18, WireTail DEF Look, counters, WireInv, BaseInv, Waits
<1>19. ASSUME Reconcile
      PROVE  WireInv'
  BY <1>19, WireTail DEF Reconcile, counters, Present, WireInv, BaseInv, Waits
<1>20. ASSUME StopIfIdle
      PROVE  WireInv'
  BY <1>20, WireTail DEF StopIfIdle, MayStop, counters, Present, WireInv,
     BaseInv, Waits
<1>21. ASSUME NEW d \in Deleters, Drop(d)
      PROVE  WireInv'
  BY <1>21, WireTail DEF Drop, Ended, counters, WireInv, BaseInv, Waits
<1>22. ASSUME NEW d \in Deleters, NEW ok \in BOOLEAN, DeleteMedia(d, ok)
      PROVE  WireInv'
  <2>1. CASE wire' = wire
    BY <1>22, <2>1 DEF DeleteMedia, WireInv, BaseInv
  <2>2. CASE Send("delete", d)
    <3>1. /\ Len(wire) \in Nat /\ Len(wire') = Len(wire) + 1
          /\ \A i \in 1..Len(wire) : wire'[i] = wire[i]
          /\ wire'[Len(wire) + 1].call = "delete" /\ wire'[Len(wire) + 1].by = d
      BY <2>2, WireSent DEF BaseInv
    <3> QED
      BY <1>22, <3>1 DEF DeleteMedia, WireInv, BaseInv, Deleters
  <2> QED
    BY <1>22, <2>1, <2>2 DEF DeleteMedia
<1>23. ASSUME NEW d \in Deleters, NEW ok \in BOOLEAN, ServeDeletion(d, ok)
      PROVE  WireInv'
  <2>1. /\ wire # <<>> /\ wire' = Tail(wire)
        /\ Head(wire).by = d /\ Head(wire).call = "delete"
        /\ Serves("delete", ok)
    BY <1>23, DeletionAnswers DEF BaseInv
  <2> QED
    BY <1>23, <2>1, WireTail DEF Serves, ServeDeletion, Postpone, Ended,
       WireInv, BaseInv, Waits
<1>24. ASSUME Submit
      PROVE  WireInv'
  BY <1>24, WireTail DEF Submit, counters, Present, WireInv, BaseInv, Waits
<1>25. ASSUME RunTurn
      PROVE  WireInv'
  BY <1>25, GuestRunner, WireTail DEF RunTurn, counters, memory, WireInv,
     BaseInv, Waits
<1>26. ASSUME EndTurn
      PROVE  WireInv'
  BY <1>26, WireTail DEF EndTurn, counters, WireInv, BaseInv, Waits
<1>27. ASSUME NEW ask, NEW action \in {"start", "stop", "restart"}, AgentControl(ask, action)
      PROVE  WireInv'
  <2>1. Send(action, "agent")
    BY <1>27 DEF AgentControl
  <2>2. /\ Len(wire) \in Nat /\ Len(wire') = Len(wire) + 1
        /\ \A i \in 1..Len(wire) : wire'[i] = wire[i]
        /\ wire'[Len(wire) + 1].call = action /\ wire'[Len(wire) + 1].by = "agent"
    BY <2>1, WireSent DEF BaseInv
  <2> QED
    BY <1>27, <2>2 DEF AgentControl, memory, WireInv, BaseInv, Deleters
<1>28. ASSUME Evict
      PROVE  WireInv'
  BY <1>28, WireCut DEF WireInv, BaseInv, Deleters
<1>29. ASSUME Load
      PROVE  WireInv'
  BY <1>29, WireTail DEF Load, counters, WireInv, BaseInv, Waits
<1>30. ASSUME Notice
      PROVE  WireInv'
  <2>1. /\ runner' = runner
        /\ \/ record # NoRecord /\ runner.env # "absent" /\ Reports
           \/ record' = record /\ (record = NoRecord \/ runner.env = "absent")
    BY <1>30, NoticeReports DEF BaseInv
  <2> QED
    BY <1>30, <2>1, WireTail DEF Reports, Notice, counters, Present, WireInv,
       BaseInv, Waits
<1>31. ASSUME Ring
      PROVE  WireInv'
  BY <1>31, WireTail DEF Ring, counters, Present, WireInv, BaseInv, Waits
<1>32. ASSUME Idle
      PROVE  WireInv'
  BY <1>32, WireTail DEF Idle, counters, memory, Present, WireInv, BaseInv,
     Waits
<1>33. ASSUME GuestFails
      PROVE  WireInv'
  BY <1>33, GuestRunner, WireTail DEF GuestFails, memory, WireInv, BaseInv,
     Waits
<1>34. CASE UNCHANGED vars
  BY <1>34, WireTail DEF vars, memory, counters, WireInv, BaseInv, Waits
<1> QED
  BY <1>1, <1>2, <1>3, <1>4, <1>5, <1>6, <1>7, <1>8, <1>9, <1>10, <1>11, <1>12,
     <1>13, <1>14, <1>15, <1>16, <1>17, <1>18, <1>19, <1>20, <1>21, <1>22,
     <1>23, <1>24, <1>25, <1>26, <1>27, <1>28, <1>29, <1>30, <1>31, <1>32,
     <1>33, <1>34 DEF Next, Users, Operate, Decide, Deletes, Agent

(* An operation or a look under way is the head of its queue.              *)
LEMMA QueueKept ==
  ASSUME BaseInv, [Next]_vars
  PROVE  QueueInv'
<1>1. ASSUME Create
      PROVE  QueueInv'
  <2>1. <<"reconcile">> # <<>>
    OBVIOUS
  <2> QED
    BY <1>1, <2>1 DEF Create, QueueInv, BaseInv
<1>2. ASSUME Admit
      PROVE  QueueInv'
  BY <1>2, Reconciled, QueueShifts DEF Admit, Request, Present, QueueInv,
     BaseInv, Decisions, Operations
<1>3. ASSUME Wake
      PROVE  QueueInv'
  BY <1>3, Reconciled, QueueShifts DEF Wake, Request, Present, QueueInv,
     BaseInv, Decisions, Operations
<1>4. ASSUME Stop
      PROVE  QueueInv'
  BY <1>4, Reconciled, QueueShifts DEF Stop, Request, Abort, Present, QueueInv,
     BaseInv, Decisions, Operations
<1>5. ASSUME Delete
      PROVE  QueueInv'
  BY <1>5, RequestsRecord, Reconciled, QueueShifts DEF Delete, Abort, Present,
     QueueInv, BaseInv, Decisions, Operations
<1>6. ASSUME NEW recovery \in Recoveries, Retry(recovery)
      PROVE  QueueInv'
  BY <1>6, RequestsRecord, Reconciled, QueueShifts DEF Retry, Request, Present,
     QueueInv, BaseInv, Decisions, Operations
<1>7. ASSUME Skip
      PROVE  QueueInv'
  <2>1. Finishes
    BY <1>7, SetupFinishes DEF BaseInv
  <2> QED
    BY <1>7, <2>1, Reconciled, QueueShifts DEF Finishes, Skip, counters,
       QueueInv, BaseInv, Decisions, Operations
<1>8. ASSUME BeginSetup
      PROVE  QueueInv'
  BY <1>8, SetupRecord, Reconciled, QueueShifts DEF BeginSetup, counters,
     Present, QueueInv, BaseInv, Decisions, Operations
<1>9. ASSUME Credentials
      PROVE  QueueInv'
  BY <1>9, Reconciled, QueueShifts DEF Credentials, Send, counters, Present,
     QueueInv, BaseInv, Decisions, Operations
<1>10. ASSUME CredentialsFail
      PROVE  QueueInv'
  <2>1. Finishes
    BY <1>10, SetupFinishes DEF BaseInv
  <2> QED
    BY <1>10, <2>1, Reconciled, QueueShifts DEF Finishes, CredentialsFail,
       Present, QueueInv, BaseInv, Decisions, Operations
<1>11. ASSUME BeginStop
      PROVE  QueueInv'
  BY <1>11, Reconciled, QueueShifts DEF BeginStop, counters, QueueInv, BaseInv,
     Decisions, Operations
<1>12. ASSUME Refreshed
      PROVE  QueueInv'
  BY <1>12, Reconciled, QueueShifts DEF Refreshed, Send, counters, QueueInv,
     BaseInv, Decisions, Operations
<1>13. ASSUME Resume
      PROVE  QueueInv'
  <2>1. Finishes
    BY <1>13, SetupFinishes DEF BaseInv
  <2> QED
    BY <1>13, <2>1, Reconciled, QueueShifts DEF Finishes, Resume, counters,
       QueueInv, BaseInv, Decisions, Operations
<1>14. ASSUME NEW ok \in BOOLEAN, Clear(ok)
      PROVE  QueueInv'
  <2>1. CASE ok
    BY <1>14, <2>1, Reconciled, QueueShifts DEF Clear, Guest, Faults, QueueInv,
       BaseInv, Decisions, Operations
  <2>2. CASE ~ok
    <3>1. Finishes
      BY <1>14, <2>2, SetupFinishes DEF BaseInv
    <3> QED
      BY <1>14, <2>2, <3>1, Reconciled, QueueShifts DEF Finishes, Clear,
         QueueInv, BaseInv, Decisions, Operations
  <2> QED
    BY <2>1, <2>2
<1>15. ASSUME NEW ok \in BOOLEAN, ServeOperation(ok)
      PROVE  QueueInv'
  <2>1. Answers(ok)
    BY <1>15, ServeOperationAnswers DEF BaseInv
  <2> QED
    BY <1>15, <2>1, Reconciled, QueueShifts DEF Answers, Finishes, Reports,
       Serves, ServeOperation, Present, QueueInv, BaseInv, Decisions, Operations
<1>16. ASSUME NEW ok \in BOOLEAN, ServeOther(ok)
      PROVE  QueueInv'
  <2>1. /\ wire # <<>> /\ wire' = Tail(wire)
        /\ Head(wire).by \in {"agent", "nobody"}
        /\ Serves(Head(wire).call, ok)
        /\ \/ record' = record
           \/ Head(wire).by = "agent" /\ Head(wire).call # "delete" /\ Reports
    BY <1>16, OtherAnswers DEF BaseInv
  <2> QED
    BY <1>16, <2>1, Reconciled, QueueShifts DEF Reports, Serves, ServeOther,
       memory, QueueInv, BaseInv, Decisions, Operations
<1>17. ASSUME NEW outcome \in {"available", "unavailable", "failure"}, Clone(outcome)
      PROVE  QueueInv'
  <2>1. Finishes
    BY <1>17, CloneFinishes DEF BaseInv
  <2> QED
    BY <1>17, <2>1, Reconciled, QueueShifts DEF Finishes, Clone, QueueInv,
       BaseInv, Decisions, Operations
<1>18. ASSUME Look
      PROVE  QueueInv'
  BY <1>18, Reconciled, QueueShifts DEF Look, counters, QueueInv, BaseInv,
     Decisions, Operations
<1>19. ASSUME Reconcile
      PROVE  QueueInv'
  BY <1>19, Reconciled, QueueShifts DEF Reconcile, counters, Present, QueueInv,
     BaseInv, Decisions, Operations
<1>20. ASSUME StopIfIdle
      PROVE  QueueInv'
  BY <1>20, Reconciled, QueueShifts DEF StopIfIdle, MayStop, counters, Present,
     QueueInv, BaseInv, Decisions, Operations
<1>21. ASSUME NEW d \in Deleters, Drop(d)
      PROVE  QueueInv'
  BY <1>21, Reconciled, QueueShifts DEF Drop, Ended, counters, QueueInv,
     BaseInv, Decisions, Operations
<1>22. ASSUME NEW d \in Deleters, NEW ok \in BOOLEAN, DeleteMedia(d, ok)
      PROVE  QueueInv'
  BY <1>22, Reconciled, QueueShifts DEF DeleteMedia, Send, Faults, Postpone,
     Ended, QueueInv, BaseInv, Decisions, Operations
<1>23. ASSUME NEW d \in Deleters, NEW ok \in BOOLEAN, ServeDeletion(d, ok)
      PROVE  QueueInv'
  <2>1. /\ wire # <<>> /\ wire' = Tail(wire)
        /\ Head(wire).by = d /\ Head(wire).call = "delete"
        /\ Serves("delete", ok)
    BY <1>23, DeletionAnswers DEF BaseInv
  <2> QED
    BY <1>23, <2>1, Reconciled, QueueShifts DEF Serves, ServeDeletion, Postpone,
       Ended, QueueInv, BaseInv, Decisions, Operations
<1>24. ASSUME Submit
      PROVE  QueueInv'
  BY <1>24, Reconciled, QueueShifts DEF Submit, counters, Present, QueueInv,
     BaseInv, Decisions, Operations
<1>25. ASSUME RunTurn
      PROVE  QueueInv'
  BY <1>25, GuestRunner, Reconciled, QueueShifts DEF RunTurn, counters, memory,
     QueueInv, BaseInv, Decisions, Operations
<1>26. ASSUME EndTurn
      PROVE  QueueInv'
  BY <1>26, Reconciled, QueueShifts DEF EndTurn, counters, QueueInv, BaseInv,
     Decisions, Operations
<1>27. ASSUME NEW ask, NEW action \in {"start", "stop", "restart"}, AgentControl(ask, action)
      PROVE  QueueInv'
  BY <1>27, Reconciled, QueueShifts DEF AgentControl, Send, memory, QueueInv,
     BaseInv, Decisions, Operations
<1>28. ASSUME Evict
      PROVE  QueueInv'
  BY <1>28, Reconciled, QueueShifts DEF Evict, Present, QueueInv, BaseInv,
     Decisions, Operations
<1>29. ASSUME Load
      PROVE  QueueInv'
  <2>1. <<"reconcile">> # <<>>
    OBVIOUS
  <2> QED
    BY <1>29, <2>1 DEF Load, AsleepInv, QueueInv, BaseInv
<1>30. ASSUME Notice
      PROVE  QueueInv'
  <2>1. /\ runner' = runner
        /\ \/ record # NoRecord /\ runner.env # "absent" /\ Reports
           \/ record' = record /\ (record = NoRecord \/ runner.env = "absent")
    BY <1>30, NoticeReports DEF BaseInv
  <2> QED
    BY <1>30, <2>1, Reconciled, QueueShifts DEF Reports, Notice, counters,
       Present, QueueInv, BaseInv, Decisions, Operations
<1>31. ASSUME Ring
      PROVE  QueueInv'
  BY <1>31, Reconciled, QueueShifts DEF Ring, counters, Present, QueueInv,
     BaseInv, Decisions, Operations
<1>32. ASSUME Idle
      PROVE  QueueInv'
  BY <1>32, Reconciled, QueueShifts DEF Idle, counters, memory, Present,
     QueueInv, BaseInv, Decisions, Operations
<1>33. ASSUME GuestFails
      PROVE  QueueInv'
  BY <1>33, GuestRunner, Reconciled, QueueShifts DEF GuestFails, memory,
     QueueInv, BaseInv, Decisions, Operations
<1>34. CASE UNCHANGED vars
  BY <1>34, Reconciled, QueueShifts DEF vars, memory, counters, QueueInv,
     BaseInv, Decisions, Operations
<1> QED
  BY <1>1, <1>2, <1>3, <1>4, <1>5, <1>6, <1>7, <1>8, <1>9, <1>10, <1>11, <1>12,
     <1>13, <1>14, <1>15, <1>16, <1>17, <1>18, <1>19, <1>20, <1>21, <1>22,
     <1>23, <1>24, <1>25, <1>26, <1>27, <1>28, <1>29, <1>30, <1>31, <1>32,
     <1>33, <1>34 DEF Next, Users, Operate, Decide, Deletes, Agent

(* The queues and the wire hold what they may.                             *)
LEMMA QueuesTyped ==
  ASSUME BaseInv, QueuesType, [Next]_vars
  PROVE  QueuesType'
<1>1. ASSUME Create
      PROVE  QueuesType'
  <2>1. <<"provision", "admit">> \in Seq(Operations)
    BY DEF Operations
  <2>2. <<"reconcile">> \in Seq(Decisions)
    BY DEF Decisions
  <2> QED
    BY <1>1, <2>1, <2>2 DEF Create, QueuesType
<1>2. ASSUME Admit
      PROVE  QueuesType'
  <2>1. queue' = Append(queue, "admit") /\ wire' = wire /\ decisions' = decisions
    BY <1>2 DEF Admit
  <2>2. queue' \in Seq(Operations)
    BY <2>1, Appended DEF QueuesType, Operations
  <2> QED
    BY <2>1, <2>2 DEF QueuesType
<1>3. ASSUME Wake
      PROVE  QueuesType'
  <2>1. queue' = Append(queue, "start") /\ wire' = wire /\ decisions' = decisions
    BY <1>3 DEF Wake
  <2>2. queue' \in Seq(Operations)
    BY <2>1, Appended DEF QueuesType, Operations
  <2> QED
    BY <2>1, <2>2 DEF QueuesType
<1>4. ASSUME Stop
      PROVE  QueuesType'
  <2>1. /\ wire' = wire
        /\ queue' = queue \/ queue' = Append(queue, "stop")
        /\ decisions' = decisions \/ decisions' = Reconciling(decisions)
    BY <1>4 DEF Stop, Abort
  <2>2. queue' \in Seq(Operations)
    <3>1. "stop" \in Operations /\ queue \in Seq(Operations)
      BY DEF Operations, QueuesType
    <3>2. Append(queue, "stop") \in Seq(Operations)
      BY <3>1, Appended
    <3> QED
      BY <2>1, <3>1, <3>2
  <2>3. decisions' \in Seq(Decisions)
    BY <2>1, Queued DEF QueuesType, QueueInv, BaseInv
  <2> QED
    BY <2>1, <2>2, <2>3 DEF QueuesType
<1>5. ASSUME Delete
      PROVE  QueuesType'
  <2>1. /\ wire' = wire /\ queue' = queue
        /\ decisions' = decisions \/ decisions' = Reconciling(decisions)
    BY <1>5 DEF Delete, Abort
  <2>2. decisions' \in Seq(Decisions)
    BY <2>1, Queued DEF QueuesType, QueueInv, BaseInv
  <2> QED
    BY <2>1, <2>2 DEF QueuesType
<1>6. ASSUME NEW recovery \in Recoveries, Retry(recovery)
      PROVE  QueuesType'
  <2>1. wire' = wire /\ decisions' = decisions
    BY <1>6 DEF Retry
  <2>2. PICK x \in {"provision", "restart"} : queue' = Append(queue, x)
    BY <1>6 DEF Retry
  <2>3. queue' \in Seq(Operations)
    <3>1. x \in Operations /\ queue \in Seq(Operations)
      BY DEF Operations, QueuesType
    <3> QED
      BY <2>2, <3>1, Appended
  <2> QED
    BY <2>1, <2>3 DEF QueuesType
<1>7. ASSUME Skip
      PROVE  QueuesType'
  <2>1. Finishes /\ wire' = wire
    BY <1>7, SetupFinishes DEF Skip, BaseInv
  <2>2. queue' \in Seq(Operations) /\ decisions' \in Seq(Decisions)
    BY <2>1, Tailed, Queued DEF Finishes, QueuesType, QueueInv, BaseInv
  <2> QED
    BY <2>1, <2>2 DEF QueuesType
<1>8. ASSUME BeginSetup
      PROVE  QueuesType'
  BY <1>8 DEF BeginSetup, QueuesType
<1>9. ASSUME Credentials
      PROVE  QueuesType'
  <2>1. wire' \in Seq(Call)
    BY <1>9, Sent DEF Credentials, QueuesType, QueueInv, BaseInv
  <2>2. queue' \in Seq(Operations)
    BY <1>9 DEF Credentials, QueuesType, QueueInv, BaseInv
  <2>3. decisions' \in Seq(Decisions)
    BY <1>9 DEF Credentials, QueuesType, QueueInv, BaseInv
  <2> QED
    BY <2>1, <2>2, <2>3 DEF QueuesType
<1>10. ASSUME CredentialsFail
      PROVE  QueuesType'
  <2>1. Finishes /\ wire' = wire
    BY <1>10, SetupFinishes DEF CredentialsFail, BaseInv
  <2>2. queue' \in Seq(Operations) /\ decisions' \in Seq(Decisions)
    BY <2>1, Tailed, Queued DEF Finishes, QueuesType, QueueInv, BaseInv
  <2> QED
    BY <2>1, <2>2 DEF QueuesType
<1>11. ASSUME BeginStop
      PROVE  QueuesType'
  BY <1>11 DEF BeginStop, QueuesType
<1>12. ASSUME Refreshed
      PROVE  QueuesType'
  <2>1. Send("stop", "operation") /\ queue' = queue /\ decisions' = decisions
    BY <1>12 DEF Refreshed
  <2>2. wire' \in Seq(Call)
    BY <2>1, Sent DEF QueuesType
  <2> QED
    BY <2>1, <2>2 DEF QueuesType
<1>13. ASSUME Resume
      PROVE  QueuesType'
  <2>1. Finishes /\ wire' = wire
    BY <1>13, SetupFinishes DEF Resume, BaseInv
  <2>2. queue' \in Seq(Operations) /\ decisions' \in Seq(Decisions)
    BY <2>1, Tailed, Queued DEF Finishes, QueuesType, QueueInv, BaseInv
  <2> QED
    BY <2>1, <2>2 DEF QueuesType
<1>14. ASSUME NEW ok \in BOOLEAN, Clear(ok)
      PROVE  QueuesType'
  <2>1. CASE ok
    BY <1>14, <2>1 DEF Clear, QueuesType
  <2>2. CASE ~ok
    <3>1. Finishes /\ wire' = wire
      BY <1>14, <2>2, SetupFinishes DEF Clear, BaseInv
    <3>2. queue' \in Seq(Operations) /\ decisions' \in Seq(Decisions)
      BY <3>1, Tailed, Queued DEF Finishes, QueuesType, QueueInv, BaseInv
    <3> QED
      BY <3>1, <3>2 DEF QueuesType
  <2> QED
    BY <2>1, <2>2
<1>15. ASSUME NEW ok \in BOOLEAN, ServeOperation(ok)
      PROVE  QueuesType'
  <2>1. Answers(ok)
    BY <1>15, ServeOperationAnswers DEF BaseInv
  <2>2. Tail(wire) \in Seq(Call)
    BY <2>1, Tailed DEF Answers, QueuesType
  <2>3. Append(Tail(wire), [call |-> "start", by |-> "operation"]) \in Seq(Call)
    BY <2>2, Appended DEF Call
  <2>4. Finishes => queue' \in Seq(Operations) /\ decisions' \in Seq(Decisions)
    BY Tailed, Queued DEF Finishes, QueuesType, QueueInv, BaseInv
  <2> QED
    BY <2>1, <2>2, <2>3, <2>4 DEF Answers, QueuesType
<1>16. ASSUME NEW ok \in BOOLEAN, ServeOther(ok)
      PROVE  QueuesType'
  <2>1. wire # <<>> /\ wire' = Tail(wire) /\ queue' = queue /\ decisions' = decisions
    BY <1>16 DEF ServeOther, Serving, memory
  <2>2. wire' \in Seq(Call)
    BY <2>1, Tailed DEF QueuesType
  <2> QED
    BY <2>1, <2>2 DEF QueuesType
<1>17. ASSUME NEW outcome \in {"available", "unavailable", "failure"}, Clone(outcome)
      PROVE  QueuesType'
  <2>1. Finishes /\ wire' = wire
    BY <1>17, CloneFinishes DEF Clone, BaseInv
  <2>2. queue' \in Seq(Operations) /\ decisions' \in Seq(Decisions)
    BY <2>1, Tailed, Queued DEF Finishes, QueuesType, QueueInv, BaseInv
  <2> QED
    BY <2>1, <2>2 DEF QueuesType
<1>18. ASSUME Look
      PROVE  QueuesType'
  BY <1>18 DEF Look, QueuesType
<1>19. ASSUME Reconcile
      PROVE  QueuesType'
  <2>1. decisions # <<>> /\ decisions' = Tail(decisions) /\ wire' = wire /\ queue' = queue
    BY <1>19 DEF Reconcile
  <2>2. decisions' \in Seq(Decisions)
    BY <2>1, Tailed DEF QueuesType
  <2> QED
    BY <2>1, <2>2 DEF QueuesType
<1>20. ASSUME StopIfIdle
      PROVE  QueuesType'
  <2>1. queue' \in Seq(Operations) /\ wire' = wire
    <3>1. "idle stop" \in Operations /\ queue \in Seq(Operations)
      BY DEF Operations, QueuesType
    <3>2. /\ wire' = wire
          /\ queue' = queue \/ queue' = Append(queue, "idle stop")
      BY <1>20 DEF StopIfIdle
    <3>3. Append(queue, "idle stop") \in Seq(Operations)
      BY <3>1, Appended
    <3> QED
      BY <3>1, <3>2, <3>3
  <2>2. Tail(decisions) \in Seq(Decisions)
    BY <1>20, Tailed DEF StopIfIdle, QueuesType
  <2>3. Append(Tail(decisions), "reconcile") \in Seq(Decisions)
    BY <2>2, Appended DEF Decisions
  <2> QED
    BY <1>20, <2>1, <2>2, <2>3 DEF StopIfIdle, QueuesType
<1>21. ASSUME NEW d \in Deleters, Drop(d)
      PROVE  QueuesType'
  BY <1>21 DEF Drop, QueuesType
<1>22. ASSUME NEW d \in Deleters, NEW ok \in BOOLEAN, DeleteMedia(d, ok)
      PROVE  QueuesType'
  <2>1. wire' \in Seq(Call)
    BY <1>22, Sent DEF DeleteMedia, QueuesType, QueueInv, BaseInv
  <2>2. queue' \in Seq(Operations)
    BY <1>22 DEF DeleteMedia, QueuesType, QueueInv, BaseInv
  <2>3. decisions' \in Seq(Decisions)
    BY <1>22 DEF DeleteMedia, QueuesType, QueueInv, BaseInv
  <2> QED
    BY <2>1, <2>2, <2>3 DEF QueuesType
<1>23. ASSUME NEW d \in Deleters, NEW ok \in BOOLEAN, ServeDeletion(d, ok)
      PROVE  QueuesType'
  <2>1. wire # <<>> /\ wire' = Tail(wire) /\ queue' = queue /\ decisions' = decisions
    BY <1>23 DEF ServeDeletion, Serving
  <2>2. wire' \in Seq(Call)
    BY <2>1, Tailed DEF QueuesType
  <2> QED
    BY <2>1, <2>2 DEF QueuesType
<1>24. ASSUME Submit
      PROVE  QueuesType'
  <2>1. /\ wire' = wire /\ queue' = queue
        /\ decisions' = decisions \/ decisions' = Reconciling(decisions)
    BY <1>24 DEF Submit
  <2>2. decisions' \in Seq(Decisions)
    BY <2>1, Queued DEF QueuesType, QueueInv, BaseInv
  <2> QED
    BY <2>1, <2>2 DEF QueuesType
<1>25. ASSUME RunTurn
      PROVE  QueuesType'
  BY <1>25 DEF RunTurn, memory, QueuesType
<1>26. ASSUME EndTurn
      PROVE  QueuesType'
  <2>1. /\ wire' = wire /\ queue' = queue
        /\ decisions' = decisions \/ decisions' = Reconciling(decisions)
    BY <1>26 DEF EndTurn
  <2>2. decisions' \in Seq(Decisions)
    BY <2>1, Queued DEF QueuesType, QueueInv, BaseInv
  <2> QED
    BY <2>1, <2>2 DEF QueuesType
<1>27. ASSUME NEW ask, NEW action \in {"start", "stop", "restart"}, AgentControl(ask, action)
      PROVE  QueuesType'
  <2>1. Send(action, "agent") /\ queue' = queue /\ decisions' = decisions
    BY <1>27 DEF AgentControl, memory
  <2>2. wire' \in Seq(Call)
    BY <2>1, Sent DEF QueuesType
  <2> QED
    BY <2>1, <2>2 DEF QueuesType
<1>28. ASSUME Evict
      PROVE  QueuesType'
  <2> DEFINE cut == [i \in 1..Len(wire) |-> [wire[i] EXCEPT !.by = "nobody"]]
  <2>1. wire' = cut
    BY <1>28, LenProperties DEF Evict, QueuesType
  <2>2. \A i \in 1..Len(wire) : wire[i] \in Call
    BY ElementOfSeq DEF QueuesType
  <2>3. cut \in [1..Len(wire) -> Call] /\ Len(wire) \in Nat
    BY <2>2, LenProperties DEF QueuesType, Call
  <2> HIDE DEF cut
  <2>4. cut \in Seq(Call)
    BY <2>3, SeqDef
  <2>5. queue' \in Seq(Operations) /\ decisions' \in Seq(Decisions)
    BY <1>28, Short DEF Evict
  <2> QED
    BY <2>1, <2>4, <2>5 DEF QueuesType
<1>29. ASSUME Load
      PROVE  QueuesType'
  <2>1. /\ <<"provision">> \in Seq(Operations) /\ <<"start">> \in Seq(Operations)
        /\ <<>> \in Seq(Operations)
    BY DEF Operations
  <2>2. <<"reconcile">> \in Seq(Decisions)
    BY DEF Decisions
  <2>3. queue' \in Seq(Operations)
    BY <1>29, <2>1 DEF Load
  <2> QED
    BY <1>29, <2>2, <2>3 DEF Load, QueuesType
<1>30. ASSUME Notice
      PROVE  QueuesType'
  <2>1. /\ wire' = wire /\ queue' = queue
        /\ decisions' = decisions \/ decisions' = Reconciling(decisions)
    BY <1>30 DEF Notice
  <2>2. decisions' \in Seq(Decisions)
    BY <2>1, Queued DEF QueuesType, QueueInv, BaseInv
  <2> QED
    BY <2>1, <2>2 DEF QueuesType
<1>31. ASSUME Ring
      PROVE  QueuesType'
  <2>1. Append(decisions, "stop if idle") \in Seq(Decisions)
    BY Appended DEF Decisions, QueuesType
  <2> QED
    BY <1>31, <2>1 DEF Ring, QueuesType
<1>32. ASSUME Idle
      PROVE  QueuesType'
  BY <1>32 DEF Idle, memory, QueuesType
<1>33. ASSUME GuestFails
      PROVE  QueuesType'
  BY <1>33 DEF GuestFails, memory, QueuesType
<1>34. CASE UNCHANGED vars
  BY <1>34 DEF vars, memory, QueuesType
<1> QED
  BY <1>1, <1>2, <1>3, <1>4, <1>5, <1>6, <1>7, <1>8, <1>9, <1>10, <1>11, <1>12,
     <1>13, <1>14, <1>15, <1>16, <1>17, <1>18, <1>19, <1>20, <1>21, <1>22,
     <1>23, <1>24, <1>25, <1>26, <1>27, <1>28, <1>29, <1>30, <1>31, <1>32,
     <1>33, <1>34 DEF Next, Users, Operate, Decide, Deletes, Agent

(* The record, the runner, the faults and the notice keep their types.     *)
LEMMA RecordKept ==
  ASSUME BaseInv, RecordType, [Next]_vars
  PROVE  RecordType'
<1>1. ASSUME Create
      PROVE  RecordType'
  BY <1>1, FreshRecord, FaultsKept, GuestRunner DEF Create, counters,
     RecordType, BaseInv
<1>2. ASSUME Admit
      PROVE  RecordType'
  BY <1>2, RecordTyped DEF Admit, Request, Present, RecordType, BaseInv
<1>3. ASSUME Wake
      PROVE  RecordType'
  BY <1>3, RecordTyped DEF Wake, Request, Present, RecordType, BaseInv
<1>4. ASSUME Stop
      PROVE  RecordType'
  BY <1>4, RecordTyped DEF Stop, Request, Abort, Present, RecordType, BaseInv
<1>5. ASSUME Delete
      PROVE  RecordType'
  BY <1>5, RequestsRecord, FaultsKept, GuestRunner DEF Delete, Abort, Present,
     RecordType, BaseInv
<1>6. ASSUME NEW recovery \in Recoveries, Retry(recovery)
      PROVE  RecordType'
  BY <1>6, RequestsRecord, FaultsKept, GuestRunner DEF Retry, Request, Present,
     RecordType, BaseInv
<1>7. ASSUME Skip
      PROVE  RecordType'
  <2>1. Finishes
    BY <1>7, SetupFinishes DEF BaseInv
  <2> QED
    BY <1>7, <2>1, FaultsKept, GuestRunner DEF Finishes, Skip, counters,
       RecordType, BaseInv
<1>8. ASSUME BeginSetup
      PROVE  RecordType'
  BY <1>8, SetupRecord, FaultsKept, GuestRunner DEF BeginSetup, counters,
     Present, RecordType, BaseInv
<1>9. ASSUME Credentials
      PROVE  RecordType'
  BY <1>9, RecordTyped DEF Credentials, Send, counters, Present, RecordType,
     BaseInv
<1>10. ASSUME CredentialsFail
      PROVE  RecordType'
  <2>1. Finishes
    BY <1>10, SetupFinishes DEF BaseInv
  <2> QED
    BY <1>10, <2>1, FaultsKept, GuestRunner DEF Finishes, CredentialsFail,
       Present, RecordType, BaseInv
<1>11. ASSUME BeginStop
      PROVE  RecordType'
  BY <1>11, RecordTyped DEF BeginStop, counters, RecordType, BaseInv
<1>12. ASSUME Refreshed
      PROVE  RecordType'
  BY <1>12, RecordTyped DEF Refreshed, Send, counters, RecordType, BaseInv
<1>13. ASSUME Resume
      PROVE  RecordType'
  <2>1. Finishes
    BY <1>13, SetupFinishes DEF BaseInv
  <2> QED
    BY <1>13, <2>1, FaultsKept, GuestRunner DEF Finishes, Resume, counters,
       RecordType, BaseInv
<1>14. ASSUME NEW ok \in BOOLEAN, Clear(ok)
      PROVE  RecordType'
  <2>1. runner' \in Runner /\ faults' \in 0..MaxFaults /\ notice' = notice
    BY <1>14, FaultsKept, GuestRunner DEF Clear, BaseInv
  <2>2. CASE ok
    BY <1>14, <2>1, <2>2 DEF Clear, RecordType
  <2>3. CASE ~ok
    <3>1. Finishes
      BY <1>14, <2>3, SetupFinishes DEF BaseInv
    <3> QED
      BY <2>1, <3>1 DEF Finishes, RecordType
  <2> QED
    BY <2>2, <2>3
<1>15. ASSUME NEW ok \in BOOLEAN, ServeOperation(ok)
      PROVE  RecordType'
  <2>1. Answers(ok)
    BY <1>15, ServeOperationAnswers DEF BaseInv
  <2> QED
    BY <1>15, <2>1, FaultsKept, GuestRunner DEF Answers, Finishes, Reports,
       Serves, ServeOperation, Present, RecordType, BaseInv
<1>16. ASSUME NEW ok \in BOOLEAN, ServeOther(ok)
      PROVE  RecordType'
  <2>1. /\ wire # <<>> /\ wire' = Tail(wire)
        /\ Head(wire).by \in {"agent", "nobody"}
        /\ Serves(Head(wire).call, ok)
        /\ \/ record' = record
           \/ Head(wire).by = "agent" /\ Head(wire).call # "delete" /\ Reports
    BY <1>16, OtherAnswers DEF BaseInv
  <2> QED
    BY <1>16, <2>1, FaultsKept, GuestRunner DEF Reports, Serves, ServeOther,
       memory, RecordType, BaseInv
<1>17. ASSUME NEW outcome \in {"available", "unavailable", "failure"}, Clone(outcome)
      PROVE  RecordType'
  <2>1. Finishes
    BY <1>17, CloneFinishes DEF BaseInv
  <2> QED
    BY <1>17, <2>1, FaultsKept, GuestRunner DEF Finishes, Clone, RecordType,
       BaseInv
<1>18. ASSUME Look
      PROVE  RecordType'
  BY <1>18, RecordTyped DEF Look, counters, RecordType, BaseInv
<1>19. ASSUME Reconcile
      PROVE  RecordType'
  BY <1>19, RecordTyped DEF Reconcile, counters, Present, RecordType, BaseInv
<1>20. ASSUME StopIfIdle
      PROVE  RecordType'
  BY <1>20, RecordTyped DEF StopIfIdle, MayStop, counters, Present, RecordType,
     BaseInv
<1>21. ASSUME NEW d \in Deleters, Drop(d)
      PROVE  RecordType'
  BY <1>21, RecordTyped DEF Drop, Ended, counters, RecordType, BaseInv
<1>22. ASSUME NEW d \in Deleters, NEW ok \in BOOLEAN, DeleteMedia(d, ok)
      PROVE  RecordType'
  BY <1>22, FaultsKept DEF DeleteMedia, RecordType, BaseInv
<1>23. ASSUME NEW d \in Deleters, NEW ok \in BOOLEAN, ServeDeletion(d, ok)
      PROVE  RecordType'
  <2>1. /\ wire # <<>> /\ wire' = Tail(wire)
        /\ Head(wire).by = d /\ Head(wire).call = "delete"
        /\ Serves("delete", ok)
    BY <1>23, DeletionAnswers DEF BaseInv
  <2> QED
    BY <1>23, <2>1, FaultsKept, GuestRunner DEF Serves, ServeDeletion, Postpone,
       Ended, RecordType, BaseInv
<1>24. ASSUME Submit
      PROVE  RecordType'
  BY <1>24, RecordTyped DEF Submit, counters, Present, RecordType, BaseInv
<1>25. ASSUME RunTurn
      PROVE  RecordType'
  BY <1>25, GuestRunner, FaultsKept, GuestRunner DEF RunTurn, counters, memory,
     RecordType, BaseInv
<1>26. ASSUME EndTurn
      PROVE  RecordType'
  BY <1>26, RecordTyped DEF EndTurn, counters, RecordType, BaseInv
<1>27. ASSUME NEW ask, NEW action \in {"start", "stop", "restart"}, AgentControl(ask, action)
      PROVE  RecordType'
  BY <1>27, RecordTyped DEF AgentControl, Send, memory, RecordType, BaseInv
<1>28. ASSUME Evict
      PROVE  RecordType'
  BY <1>28, RecordTyped DEF Evict, Present, RecordType, BaseInv
<1>29. ASSUME Load
      PROVE  RecordType'
  BY <1>29, RecordTyped DEF Load, counters, RecordType, BaseInv
<1>30. ASSUME Notice
      PROVE  RecordType'
  <2>1. /\ runner' = runner
        /\ \/ record # NoRecord /\ runner.env # "absent" /\ Reports
           \/ record' = record /\ (record = NoRecord \/ runner.env = "absent")
    BY <1>30, NoticeReports DEF BaseInv
  <2> QED
    BY <1>30, <2>1, FaultsKept, GuestRunner DEF Reports, Notice, counters,
       Present, RecordType, BaseInv
<1>31. ASSUME Ring
      PROVE  RecordType'
  BY <1>31, RecordTyped DEF Ring, counters, Present, RecordType, BaseInv
<1>32. ASSUME Idle
      PROVE  RecordType'
  BY <1>32, RecordTyped DEF Idle, counters, memory, Present, RecordType, BaseInv
<1>33. ASSUME GuestFails
      PROVE  RecordType'
  BY <1>33, GuestRunner, FaultsKept, GuestRunner DEF GuestFails, memory,
     RecordType, BaseInv
<1>34. CASE UNCHANGED vars
  BY <1>34, RecordTyped DEF vars, memory, counters, RecordType, BaseInv
<1> QED
  BY <1>1, <1>2, <1>3, <1>4, <1>5, <1>6, <1>7, <1>8, <1>9, <1>10, <1>11, <1>12,
     <1>13, <1>14, <1>15, <1>16, <1>17, <1>18, <1>19, <1>20, <1>21, <1>22,
     <1>23, <1>24, <1>25, <1>26, <1>27, <1>28, <1>29, <1>30, <1>31, <1>32,
     <1>33, <1>34 DEF Next, Users, Operate, Decide, Deletes, Agent

(* An evicted object has nothing under way that anybody awaits.            *)
LEMMA AsleepKept ==
  ASSUME BaseInv, [Next]_vars
  PROVE  AsleepInv'
<1>1. ASSUME Create
      PROVE  AsleepInv'
  BY <1>1, FreshRecord DEF Create, counters, AsleepInv, BaseInv, Deleters
<1>2. ASSUME Admit
      PROVE  AsleepInv'
  BY <1>2 DEF Admit, Request, Present, AsleepInv, BaseInv, Deleters
<1>3. ASSUME Wake
      PROVE  AsleepInv'
  BY <1>3 DEF Wake, Request, Present, AsleepInv, BaseInv, Deleters
<1>4. ASSUME Stop
      PROVE  AsleepInv'
  BY <1>4 DEF Stop, Request, Abort, Present, AsleepInv, BaseInv, Deleters
<1>5. ASSUME Delete
      PROVE  AsleepInv'
  BY <1>5, RequestsRecord DEF Delete, Abort, Present, AsleepInv, BaseInv,
     Deleters
<1>6. ASSUME NEW recovery \in Recoveries, Retry(recovery)
      PROVE  AsleepInv'
  BY <1>6, RequestsRecord DEF Retry, Request, Present, AsleepInv, BaseInv,
     Deleters
<1>7. ASSUME Skip
      PROVE  AsleepInv'
  <2>1. Finishes
    BY <1>7, SetupFinishes DEF BaseInv
  <2> QED
    BY <1>7, <2>1 DEF Finishes, Skip, counters, AsleepInv, BaseInv, Deleters
<1>8. ASSUME BeginSetup
      PROVE  AsleepInv'
  BY <1>8, SetupRecord DEF BeginSetup, counters, Present, AsleepInv, BaseInv,
     Deleters
<1>9. ASSUME Credentials
      PROVE  AsleepInv'
  BY <1>9 DEF Credentials, Send, counters, Present, AsleepInv, BaseInv, Deleters
<1>10. ASSUME CredentialsFail
      PROVE  AsleepInv'
  <2>1. Finishes
    BY <1>10, SetupFinishes DEF BaseInv
  <2> QED
    BY <1>10, <2>1 DEF Finishes, CredentialsFail, Present, AsleepInv, BaseInv,
       Deleters
<1>11. ASSUME BeginStop
      PROVE  AsleepInv'
  BY <1>11 DEF BeginStop, counters, AsleepInv, BaseInv, Deleters
<1>12. ASSUME Refreshed
      PROVE  AsleepInv'
  BY <1>12 DEF Refreshed, Send, counters, AsleepInv, BaseInv, Deleters
<1>13. ASSUME Resume
      PROVE  AsleepInv'
  <2>1. Finishes
    BY <1>13, SetupFinishes DEF BaseInv
  <2> QED
    BY <1>13, <2>1 DEF Finishes, Resume, counters, AsleepInv, BaseInv, Deleters
<1>14. ASSUME NEW ok \in BOOLEAN, Clear(ok)
      PROVE  AsleepInv'
  <2>1. CASE ok
    BY <1>14, <2>1 DEF Clear, Guest, Faults, AsleepInv, BaseInv, Deleters
  <2>2. CASE ~ok
    <3>1. Finishes
      BY <1>14, <2>2, SetupFinishes DEF BaseInv
    <3> QED
      BY <1>14, <2>2, <3>1 DEF Finishes, Clear, AsleepInv, BaseInv, Deleters
  <2> QED
    BY <2>1, <2>2
<1>15. ASSUME NEW ok \in BOOLEAN, ServeOperation(ok)
      PROVE  AsleepInv'
  <2>1. Answers(ok)
    BY <1>15, ServeOperationAnswers DEF BaseInv
  <2>2. alive
    BY <2>1 DEF Answers, Waits, AsleepInv, BaseInv
  <2> QED
    BY <1>15, <2>2 DEF ServeOperation, AsleepInv
<1>16. ASSUME NEW ok \in BOOLEAN, ServeOther(ok)
      PROVE  AsleepInv'
  <2>1. /\ wire # <<>> /\ wire' = Tail(wire) /\ (record = NoRecord <=> record' = NoRecord)
    BY <1>16, OtherAnswers, NoRecordAssumption DEF BaseInv, Reports
  <2> QED
    BY <1>16, <2>1, WireTail DEF ServeOther, memory, AsleepInv, BaseInv
<1>17. ASSUME NEW outcome \in {"available", "unavailable", "failure"}, Clone(outcome)
      PROVE  AsleepInv'
  <2>1. Finishes
    BY <1>17, CloneFinishes DEF BaseInv
  <2> QED
    BY <1>17, <2>1 DEF Finishes, Clone, AsleepInv, BaseInv, Deleters
<1>18. ASSUME Look
      PROVE  AsleepInv'
  BY <1>18 DEF Look, counters, AsleepInv, BaseInv, Deleters
<1>19. ASSUME Reconcile
      PROVE  AsleepInv'
  BY <1>19 DEF Reconcile, counters, Present, AsleepInv, BaseInv, Deleters
<1>20. ASSUME StopIfIdle
      PROVE  AsleepInv'
  BY <1>20 DEF StopIfIdle, MayStop, counters, Present, AsleepInv, BaseInv,
     Deleters
<1>21. ASSUME NEW d \in Deleters, Drop(d)
      PROVE  AsleepInv'
  BY <1>21 DEF Drop, Ended, counters, AsleepInv, BaseInv, Deleters
<1>22. ASSUME NEW d \in Deleters, NEW ok \in BOOLEAN, DeleteMedia(d, ok)
      PROVE  AsleepInv'
  BY <1>22 DEF DeleteMedia, Send, Faults, Postpone, Ended, AsleepInv, BaseInv,
     Deleters
<1>23. ASSUME NEW d \in Deleters, NEW ok \in BOOLEAN, ServeDeletion(d, ok)
      PROVE  AsleepInv'
  <2>1. wire # <<>> /\ Head(wire).by = d
    BY <1>23, DeletionAnswers DEF BaseInv
  <2>2. wire[1].by = d /\ 1 \in 1..Len(wire)
    BY <2>1, WireTail DEF BaseInv
  <2>3. alive
    BY <2>2 DEF AsleepInv, BaseInv, Deleters
  <2> QED
    BY <1>23, <2>3 DEF ServeDeletion, AsleepInv
<1>24. ASSUME Submit
      PROVE  AsleepInv'
  BY <1>24 DEF Submit, counters, Present, AsleepInv, BaseInv, Deleters
<1>25. ASSUME RunTurn
      PROVE  AsleepInv'
  BY <1>25, GuestRunner DEF RunTurn, counters, memory, AsleepInv, BaseInv,
     Deleters
<1>26. ASSUME EndTurn
      PROVE  AsleepInv'
  BY <1>26 DEF EndTurn, counters, AsleepInv, BaseInv, Deleters
<1>27. ASSUME NEW ask, NEW action \in {"start", "stop", "restart"}, AgentControl(ask, action)
      PROVE  AsleepInv'
  BY <1>27 DEF AgentControl, Send, memory, AsleepInv, BaseInv, Deleters
<1>28. ASSUME Evict
      PROVE  AsleepInv'
  BY <1>28, WireCut DEF Evict, AsleepInv, BaseInv, Present
<1>29. ASSUME Load
      PROVE  AsleepInv'
  BY <1>29 DEF Load, counters, AsleepInv, BaseInv, Deleters
<1>30. ASSUME Notice
      PROVE  AsleepInv'
  <2>1. /\ runner' = runner
        /\ \/ record # NoRecord /\ runner.env # "absent" /\ Reports
           \/ record' = record /\ (record = NoRecord \/ runner.env = "absent")
    BY <1>30, NoticeReports DEF BaseInv
  <2> QED
    BY <1>30, <2>1 DEF Reports, Notice, counters, Present, AsleepInv, BaseInv,
       Deleters
<1>31. ASSUME Ring
      PROVE  AsleepInv'
  BY <1>31 DEF Ring, counters, Present, AsleepInv, BaseInv, Deleters
<1>32. ASSUME Idle
      PROVE  AsleepInv'
  BY <1>32 DEF Idle, counters, memory, Present, AsleepInv, BaseInv, Deleters
<1>33. ASSUME GuestFails
      PROVE  AsleepInv'
  BY <1>33, GuestRunner DEF GuestFails, memory, AsleepInv, BaseInv, Deleters
<1>34. CASE UNCHANGED vars
  BY <1>34 DEF vars, memory, counters, AsleepInv, BaseInv, Deleters, Waits
<1> QED
  BY <1>1, <1>2, <1>3, <1>4, <1>5, <1>6, <1>7, <1>8, <1>9, <1>10, <1>11, <1>12,
     <1>13, <1>14, <1>15, <1>16, <1>17, <1>18, <1>19, <1>20, <1>21, <1>22,
     <1>23, <1>24, <1>25, <1>26, <1>27, <1>28, <1>29, <1>30, <1>31, <1>32,
     <1>33, <1>34 DEF Next, Users, Operate, Decide, Deletes, Agent

(* Nothing happens before the Session is created.                          *)
LEMMA UncreatedKept ==
  ASSUME BaseInv, [Next]_vars
  PROVE  UncreatedInv'
<1>1. ASSUME Create
      PROVE  UncreatedInv'
  BY <1>1, FreshRecord DEF Create, counters, UncreatedInv, BaseInv, Deleters
<1>2. ASSUME Admit
      PROVE  UncreatedInv'
  BY <1>2 DEF Admit, Request, Present, UncreatedInv, BaseInv, Deleters
<1>3. ASSUME Wake
      PROVE  UncreatedInv'
  BY <1>3 DEF Wake, Request, Present, UncreatedInv, BaseInv, Deleters
<1>4. ASSUME Stop
      PROVE  UncreatedInv'
  BY <1>4 DEF Stop, Request, Abort, Present, UncreatedInv, BaseInv, Deleters
<1>5. ASSUME Delete
      PROVE  UncreatedInv'
  BY <1>5, RequestsRecord DEF Delete, Abort, Present, UncreatedInv, BaseInv,
     Deleters
<1>6. ASSUME NEW recovery \in Recoveries, Retry(recovery)
      PROVE  UncreatedInv'
  BY <1>6, RequestsRecord DEF Retry, Request, Present, UncreatedInv, BaseInv,
     Deleters
<1>7. ASSUME Skip
      PROVE  UncreatedInv'
  <2>1. Finishes
    BY <1>7, SetupFinishes DEF BaseInv
  <2> QED
    BY <1>7, <2>1 DEF Finishes, Skip, counters, UncreatedInv, BaseInv, Deleters
<1>8. ASSUME BeginSetup
      PROVE  UncreatedInv'
  BY <1>8, SetupRecord DEF BeginSetup, counters, Present, UncreatedInv, BaseInv,
     Deleters
<1>9. ASSUME Credentials
      PROVE  UncreatedInv'
  BY <1>9 DEF Credentials, Send, counters, Present, UncreatedInv, BaseInv,
     Deleters
<1>10. ASSUME CredentialsFail
      PROVE  UncreatedInv'
  <2>1. Finishes
    BY <1>10, SetupFinishes DEF BaseInv
  <2> QED
    BY <1>10, <2>1 DEF Finishes, CredentialsFail, Present, UncreatedInv,
       BaseInv, Deleters
<1>11. ASSUME BeginStop
      PROVE  UncreatedInv'
  BY <1>11 DEF BeginStop, counters, UncreatedInv, BaseInv, Deleters
<1>12. ASSUME Refreshed
      PROVE  UncreatedInv'
  BY <1>12 DEF Refreshed, Send, counters, UncreatedInv, BaseInv, Deleters
<1>13. ASSUME Resume
      PROVE  UncreatedInv'
  <2>1. Finishes
    BY <1>13, SetupFinishes DEF BaseInv
  <2> QED
    BY <1>13, <2>1 DEF Finishes, Resume, counters, UncreatedInv, BaseInv,
       Deleters
<1>14. ASSUME NEW ok \in BOOLEAN, Clear(ok)
      PROVE  UncreatedInv'
  <2>1. CASE ok
    BY <1>14, <2>1 DEF Clear, Guest, Faults, UncreatedInv, BaseInv, Deleters
  <2>2. CASE ~ok
    <3>1. Finishes
      BY <1>14, <2>2, SetupFinishes DEF BaseInv
    <3> QED
      BY <1>14, <2>2, <3>1 DEF Finishes, Clear, UncreatedInv, BaseInv, Deleters
  <2> QED
    BY <2>1, <2>2
<1>15. ASSUME NEW ok \in BOOLEAN, ServeOperation(ok)
      PROVE  UncreatedInv'
  <2>1. Answers(ok)
    BY <1>15, ServeOperationAnswers DEF BaseInv
  <2> QED
    BY <1>15, <2>1 DEF Answers, ServeOperation, UncreatedInv, BaseInv
<1>16. ASSUME NEW ok \in BOOLEAN, ServeOther(ok)
      PROVE  UncreatedInv'
  <2>1. /\ wire # <<>> /\ wire' = Tail(wire)
        /\ Head(wire).by \in {"agent", "nobody"}
        /\ Serves(Head(wire).call, ok)
        /\ \/ record' = record
           \/ Head(wire).by = "agent" /\ Head(wire).call # "delete" /\ Reports
    BY <1>16, OtherAnswers DEF BaseInv
  <2> QED
    BY <1>16, <2>1 DEF Reports, Serves, ServeOther, memory, UncreatedInv,
       BaseInv, Deleters
<1>17. ASSUME NEW outcome \in {"available", "unavailable", "failure"}, Clone(outcome)
      PROVE  UncreatedInv'
  <2>1. Finishes
    BY <1>17, CloneFinishes DEF BaseInv
  <2> QED
    BY <1>17, <2>1 DEF Finishes, Clone, UncreatedInv, BaseInv, Deleters
<1>18. ASSUME Look
      PROVE  UncreatedInv'
  BY <1>18 DEF Look, counters, UncreatedInv, BaseInv, Deleters
<1>19. ASSUME Reconcile
      PROVE  UncreatedInv'
  BY <1>19 DEF Reconcile, counters, Present, UncreatedInv, BaseInv, Deleters
<1>20. ASSUME StopIfIdle
      PROVE  UncreatedInv'
  BY <1>20 DEF StopIfIdle, MayStop, counters, Present, UncreatedInv, BaseInv,
     Deleters
<1>21. ASSUME NEW d \in Deleters, Drop(d)
      PROVE  UncreatedInv'
  BY <1>21 DEF Drop, Ended, counters, UncreatedInv, BaseInv, Deleters
<1>22. ASSUME NEW d \in Deleters, NEW ok \in BOOLEAN, DeleteMedia(d, ok)
      PROVE  UncreatedInv'
  BY <1>22 DEF DeleteMedia, Send, Faults, Postpone, Ended, UncreatedInv,
     BaseInv, Deleters
<1>23. ASSUME NEW d \in Deleters, NEW ok \in BOOLEAN, ServeDeletion(d, ok)
      PROVE  UncreatedInv'
  <2>1. /\ wire # <<>> /\ wire' = Tail(wire)
        /\ Head(wire).by = d /\ Head(wire).call = "delete"
        /\ Serves("delete", ok)
    BY <1>23, DeletionAnswers DEF BaseInv
  <2> QED
    BY <1>23, <2>1 DEF Serves, ServeDeletion, Postpone, Ended, UncreatedInv,
       BaseInv, Deleters
<1>24. ASSUME Submit
      PROVE  UncreatedInv'
  BY <1>24 DEF Submit, counters, Present, UncreatedInv, BaseInv, Deleters
<1>25. ASSUME RunTurn
      PROVE  UncreatedInv'
  BY <1>25, GuestRunner DEF RunTurn, counters, memory, UncreatedInv, BaseInv,
     Deleters
<1>26. ASSUME EndTurn
      PROVE  UncreatedInv'
  BY <1>26 DEF EndTurn, counters, UncreatedInv, BaseInv, Deleters
<1>27. ASSUME NEW ask, NEW action \in {"start", "stop", "restart"}, AgentControl(ask, action)
      PROVE  UncreatedInv'
  BY <1>27 DEF AgentControl, Send, memory, UncreatedInv, BaseInv, Deleters
<1>28. ASSUME Evict
      PROVE  UncreatedInv'
  BY <1>28 DEF Evict, Present, UncreatedInv, BaseInv, Deleters
<1>29. ASSUME Load
      PROVE  UncreatedInv'
  BY <1>29 DEF Load, counters, UncreatedInv, BaseInv, Deleters
<1>30. ASSUME Notice
      PROVE  UncreatedInv'
  <2>1. /\ runner' = runner
        /\ \/ record # NoRecord /\ runner.env # "absent" /\ Reports
           \/ record' = record /\ (record = NoRecord \/ runner.env = "absent")
    BY <1>30, NoticeReports DEF BaseInv
  <2> QED
    BY <1>30, <2>1 DEF Reports, Notice, counters, Present, UncreatedInv,
       BaseInv, Deleters
<1>31. ASSUME Ring
      PROVE  UncreatedInv'
  BY <1>31 DEF Ring, counters, Present, UncreatedInv, BaseInv, Deleters
<1>32. ASSUME Idle
      PROVE  UncreatedInv'
  BY <1>32 DEF Idle, counters, memory, Present, UncreatedInv, BaseInv, Deleters
<1>33. ASSUME GuestFails
      PROVE  UncreatedInv'
  BY <1>33 DEF GuestFails, UncreatedInv, BaseInv
<1>34. CASE UNCHANGED vars
  BY <1>34 DEF vars, memory, counters, UncreatedInv, BaseInv, Deleters, Waits
<1> QED
  BY <1>1, <1>2, <1>3, <1>4, <1>5, <1>6, <1>7, <1>8, <1>9, <1>10, <1>11, <1>12,
     <1>13, <1>14, <1>15, <1>16, <1>17, <1>18, <1>19, <1>20, <1>21, <1>22,
     <1>23, <1>24, <1>25, <1>26, <1>27, <1>28, <1>29, <1>30, <1>31, <1>32,
     <1>33, <1>34 DEF Next, Users, Operate, Decide, Deletes, Agent

(* The shared part of the invariant is inductive.                          *)
LEMMA BaseInductive ==
  BaseInv /\ [Next]_vars => BaseInv'
<1>1. TypeOK <=> QueuesType /\ RecordType /\ PhasesType /\ FlagsType
  BY DEF TypeOK, QueuesType, RecordType, PhasesType, FlagsType, Runner,
     Decisions
<1>2. TypeOK' <=> (QueuesType /\ RecordType /\ PhasesType /\ FlagsType)'
  BY DEF TypeOK, QueuesType, RecordType, PhasesType, FlagsType, Runner,
     Decisions
<1> QED
  BY <1>1, <1>2, QueuesTyped, RecordKept, PhasesKept, FlagsKept, WireKept,
     QueueKept, AsleepKept, UncreatedKept DEF BaseInv

(* And it holds at the start.                                              *)
LEMMA BaseInitial ==
  Init => BaseInv
<1> SUFFICES ASSUME Init PROVE BaseInv
  OBVIOUS
<1>1. QueuesType /\ RecordType
  <2>1. QueuesType
    BY DEF Init, QueuesType
  <2>2. RecordType
    <3>1. 0 \in 0..MaxFaults
      BY BoundsAssumption DEF BoundsAssumption
    <3> QED
      BY <3>1 DEF Init, RecordType, Runner
  <2> QED
    BY <2>1, <2>2
<1>2. PhasesType
  BY BoundsAssumption DEF Init, PhasesType, Steps, BoundsAssumption
<1>3. FlagsType
  BY DEF Init, FlagsType
<1>4. TypeOK
  BY <1>1, <1>2, <1>3 DEF TypeOK, QueuesType, RecordType, PhasesType, FlagsType,
     Runner, Decisions
<1>5. WireInv /\ QueueInv /\ AsleepInv /\ UncreatedInv
  BY DEF Init, WireInv, QueueInv, AsleepInv, UncreatedInv, Deleters
<1> QED
  BY <1>4, <1>5 DEF BaseInv

(* While a prompt is admitted, or after one was, no look of before shows   *)
(* quiet and idle.                                                         *)
LEMMA QuietKept ==
  ASSUME BaseInv, QuietInv, [Next]_vars
  PROVE  QuietInv'
<1>1. ASSUME Create
      PROVE  QuietInv'
  BY <1>1 DEF Create, QuietInv, BaseInv, UncreatedInv
<1>2. ASSUME Admit
      PROVE  QuietInv'
  BY <1>2 DEF Admit, Request, Present, QuietInv, BaseInv
<1>3. ASSUME Wake
      PROVE  QuietInv'
  BY <1>3 DEF Wake, Request, Present, QuietInv, BaseInv
<1>4. ASSUME Stop
      PROVE  QuietInv'
  BY <1>4 DEF Stop, Request, Abort, Present, QuietInv, BaseInv
<1>5. ASSUME Delete
      PROVE  QuietInv'
  BY <1>5, RequestsRecord DEF Delete, Abort, Present, QuietInv, BaseInv
<1>6. ASSUME NEW recovery \in Recoveries, Retry(recovery)
      PROVE  QuietInv'
  BY <1>6, RequestsRecord DEF Retry, Request, Present, QuietInv, BaseInv
<1>7. ASSUME Skip
      PROVE  QuietInv'
  <2>1. Finishes
    BY <1>7, SetupFinishes DEF BaseInv
  <2> QED
    BY <1>7, <2>1 DEF Finishes, Skip, counters, QuietInv, BaseInv
<1>8. ASSUME BeginSetup
      PROVE  QuietInv'
  BY <1>8, SetupRecord DEF BeginSetup, counters, Present, QuietInv, BaseInv
<1>9. ASSUME Credentials
      PROVE  QuietInv'
  BY <1>9 DEF Credentials, Send, counters, Present, QuietInv, BaseInv
<1>10. ASSUME CredentialsFail
      PROVE  QuietInv'
  <2>1. Finishes
    BY <1>10, SetupFinishes DEF BaseInv
  <2> QED
    BY <1>10, <2>1 DEF Finishes, CredentialsFail, Present, QuietInv, BaseInv
<1>11. ASSUME BeginStop
      PROVE  QuietInv'
  BY <1>11 DEF BeginStop, counters, QuietInv, BaseInv
<1>12. ASSUME Refreshed
      PROVE  QuietInv'
  BY <1>12 DEF Refreshed, Send, counters, QuietInv, BaseInv
<1>13. ASSUME Resume
      PROVE  QuietInv'
  <2>1. Finishes
    BY <1>13, SetupFinishes DEF BaseInv
  <2> QED
    BY <1>13, <2>1 DEF Finishes, Resume, counters, QuietInv, BaseInv
<1>14. ASSUME NEW ok \in BOOLEAN, Clear(ok)
      PROVE  QuietInv'
  <2>1. CASE ok
    BY <1>14, <2>1 DEF Clear, Guest, Faults, QuietInv, BaseInv
  <2>2. CASE ~ok
    <3>1. Finishes
      BY <1>14, <2>2, SetupFinishes DEF BaseInv
    <3> QED
      BY <1>14, <2>2, <3>1 DEF Finishes, Clear, QuietInv, BaseInv
  <2> QED
    BY <2>1, <2>2
<1>15. ASSUME NEW ok \in BOOLEAN, ServeOperation(ok)
      PROVE  QuietInv'
  <2>1. Answers(ok)
    BY <1>15, ServeOperationAnswers DEF BaseInv
  <2> QED
    BY <1>15, <2>1 DEF Answers, Finishes, Reports, Serves, ServeOperation,
       Present, QuietInv, BaseInv
<1>16. ASSUME NEW ok \in BOOLEAN, ServeOther(ok)
      PROVE  QuietInv'
  <2>1. /\ wire # <<>> /\ wire' = Tail(wire)
        /\ Head(wire).by \in {"agent", "nobody"}
        /\ Serves(Head(wire).call, ok)
        /\ \/ record' = record
           \/ Head(wire).by = "agent" /\ Head(wire).call # "delete" /\ Reports
    BY <1>16, OtherAnswers DEF BaseInv
  <2> QED
    BY <1>16, <2>1 DEF Reports, Serves, ServeOther, memory, QuietInv, BaseInv
<1>17. ASSUME NEW outcome \in {"available", "unavailable", "failure"}, Clone(outcome)
      PROVE  QuietInv'
  <2>1. Finishes
    BY <1>17, CloneFinishes DEF BaseInv
  <2> QED
    BY <1>17, <2>1 DEF Finishes, Clone, QuietInv, BaseInv
<1>18. ASSUME Look
      PROVE  QuietInv'
  BY <1>18 DEF Look, counters, QuietInv, BaseInv
<1>19. ASSUME Reconcile
      PROVE  QuietInv'
  BY <1>19 DEF Reconcile, counters, Present, QuietInv, BaseInv
<1>20. ASSUME StopIfIdle
      PROVE  QuietInv'
  BY <1>20 DEF StopIfIdle, MayStop, counters, Present, QuietInv, BaseInv
<1>21. ASSUME NEW d \in Deleters, Drop(d)
      PROVE  QuietInv'
  BY <1>21 DEF Drop, Ended, counters, QuietInv, BaseInv
<1>22. ASSUME NEW d \in Deleters, NEW ok \in BOOLEAN, DeleteMedia(d, ok)
      PROVE  QuietInv'
  BY <1>22 DEF DeleteMedia, Send, Faults, Postpone, Ended, QuietInv, BaseInv
<1>23. ASSUME NEW d \in Deleters, NEW ok \in BOOLEAN, ServeDeletion(d, ok)
      PROVE  QuietInv'
  <2>1. /\ wire # <<>> /\ wire' = Tail(wire)
        /\ Head(wire).by = d /\ Head(wire).call = "delete"
        /\ Serves("delete", ok)
    BY <1>23, DeletionAnswers DEF BaseInv
  <2> QED
    BY <1>23, <2>1 DEF Serves, ServeDeletion, Postpone, Ended, QuietInv, BaseInv
<1>24. ASSUME Submit
      PROVE  QuietInv'
  BY <1>24 DEF Submit, counters, Present, QuietInv, BaseInv
<1>25. ASSUME RunTurn
      PROVE  QuietInv'
  BY <1>25, GuestRunner DEF RunTurn, counters, memory, QuietInv, BaseInv
<1>26. ASSUME EndTurn
      PROVE  QuietInv'
  BY <1>26 DEF EndTurn, counters, QuietInv, BaseInv
<1>27. ASSUME NEW ask, NEW action \in {"start", "stop", "restart"}, AgentControl(ask, action)
      PROVE  QuietInv'
  BY <1>27 DEF AgentControl, Send, memory, QuietInv, BaseInv
<1>28. ASSUME Evict
      PROVE  QuietInv'
  BY <1>28 DEF Evict, Present, QuietInv, BaseInv
<1>29. ASSUME Load
      PROVE  QuietInv'
  BY <1>29 DEF Load, counters, QuietInv, BaseInv
<1>30. ASSUME Notice
      PROVE  QuietInv'
  <2>1. /\ runner' = runner
        /\ \/ record # NoRecord /\ runner.env # "absent" /\ Reports
           \/ record' = record /\ (record = NoRecord \/ runner.env = "absent")
    BY <1>30, NoticeReports DEF BaseInv
  <2> QED
    BY <1>30, <2>1 DEF Reports, Notice, counters, Present, QuietInv, BaseInv
<1>31. ASSUME Ring
      PROVE  QuietInv'
  BY <1>31 DEF Ring, counters, Present, QuietInv, BaseInv
<1>32. ASSUME Idle
      PROVE  QuietInv'
  BY <1>32 DEF Idle, counters, memory, Present, QuietInv, BaseInv
<1>33. ASSUME GuestFails
      PROVE  QuietInv'
  BY <1>33, GuestRunner DEF GuestFails, memory, QuietInv, BaseInv
<1>34. CASE UNCHANGED vars
  BY <1>34 DEF vars, memory, counters, QuietInv, BaseInv
<1> QED
  BY <1>1, <1>2, <1>3, <1>4, <1>5, <1>6, <1>7, <1>8, <1>9, <1>10, <1>11, <1>12,
     <1>13, <1>14, <1>15, <1>16, <1>17, <1>18, <1>19, <1>20, <1>21, <1>22,
     <1>23, <1>24, <1>25, <1>26, <1>27, <1>28, <1>29, <1>30, <1>31, <1>32,
     <1>33, <1>34 DEF Next, Users, Operate, Decide, Deletes, Agent

(* A stop of an idle environment that is queued meets no run.              *)
LEMMA SparesKept ==
  ASSUME BaseInv, QuietInv, SparesInv, [Next]_vars
  PROVE  SparesInv'
<1>1. ASSUME Create
      PROVE  SparesInv'
  <2>1. turn = "none" /\ turn' = turn
    BY <1>1 DEF Create, BaseInv, UncreatedInv
  <2> QED
    BY <2>1 DEF SparesInv
<1>2. ASSUME Admit
      PROVE  SparesInv'
  <2>1. "admit" \in Operations /\ queue' = Append(queue, "admit") /\ turn' = turn
    BY <1>2 DEF Admit, Operations
  <2> QED
    BY <2>1, Longer DEF SparesInv
<1>3. ASSUME Wake
      PROVE  SparesInv'
  <2>1. "start" \in Operations /\ queue' = Append(queue, "start") /\ turn' = turn
    BY <1>3 DEF Wake, Operations
  <2> QED
    BY <2>1, Longer DEF SparesInv
<1>4. ASSUME Stop
      PROVE  SparesInv'
  BY <1>4 DEF Stop, Abort, SparesInv
<1>5. ASSUME Delete
      PROVE  SparesInv'
  BY <1>5 DEF Delete, Abort, SparesInv
<1>6. ASSUME NEW recovery \in Recoveries, Retry(recovery)
      PROVE  SparesInv'
  <2> DEFINE x == IF recovery = "retry-provisioning" THEN "provision" ELSE "restart"
  <2>1. /\ x \in Operations /\ x # "idle stop"
        /\ queue' = Append(queue, x) /\ turn' = turn
    BY <1>6 DEF Retry, Operations
  <2> HIDE DEF x
  <2> QED
    BY <2>1, Longer DEF SparesInv
<1>7. ASSUME Skip
      PROVE  SparesInv'
  <2>1. Finishes /\ turn' = turn
    BY <1>7, SetupFinishes DEF Skip, BaseInv
  <2> QED
    BY <2>1, Shorter DEF Finishes, SparesInv
<1>8. ASSUME BeginSetup
      PROVE  SparesInv'
  BY <1>8 DEF BeginSetup, Skips, counters, Present, SparesInv
<1>9. ASSUME Credentials
      PROVE  SparesInv'
  BY <1>9 DEF Credentials, Send, counters, Present, SparesInv
<1>10. ASSUME CredentialsFail
      PROVE  SparesInv'
  <2>1. Finishes /\ turn' = turn
    BY <1>10, SetupFinishes DEF CredentialsFail, BaseInv
  <2> QED
    BY <2>1, Shorter DEF Finishes, SparesInv
<1>11. ASSUME BeginStop
      PROVE  SparesInv'
  BY <1>11 DEF BeginStop, counters, SparesInv
<1>12. ASSUME Refreshed
      PROVE  SparesInv'
  BY <1>12 DEF Refreshed, Send, counters, SparesInv
<1>13. ASSUME Resume
      PROVE  SparesInv'
  <2>1. Finishes /\ turn' = turn
    BY <1>13, SetupFinishes DEF Resume, BaseInv
  <2> QED
    BY <2>1, Shorter DEF Finishes, SparesInv
<1>14. ASSUME NEW ok \in BOOLEAN, Clear(ok)
      PROVE  SparesInv'
  <2>1. turn' = turn
    BY <1>14 DEF Clear
  <2>2. CASE ok
    BY <1>14, <2>1, <2>2 DEF Clear, SparesInv
  <2>3. CASE ~ok
    <3>1. Finishes
      BY <1>14, <2>3, SetupFinishes DEF BaseInv
    <3> QED
      BY <2>1, <3>1, Shorter DEF Finishes, SparesInv
  <2> QED
    BY <2>2, <2>3
<1>15. ASSUME NEW ok \in BOOLEAN, ServeOperation(ok)
      PROVE  SparesInv'
  <2>1. Answers(ok) /\ turn' = turn
    BY <1>15, ServeOperationAnswers DEF ServeOperation, BaseInv
  <2>2. CASE queue' = queue
    BY <2>1, <2>2 DEF SparesInv
  <2>3. CASE Finishes
    BY <2>1, <2>3, Shorter DEF Finishes, SparesInv
  <2> QED
    BY <2>1, <2>2, <2>3 DEF Answers
<1>16. ASSUME NEW ok \in BOOLEAN, ServeOther(ok)
      PROVE  SparesInv'
  BY <1>16 DEF ServeOther, Serving, memory, SparesInv
<1>17. ASSUME NEW outcome \in {"available", "unavailable", "failure"}, Clone(outcome)
      PROVE  SparesInv'
  <2>1. Finishes /\ turn' = turn
    BY <1>17, CloneFinishes DEF Clone, BaseInv
  <2> QED
    BY <2>1, Shorter DEF Finishes, SparesInv
<1>18. ASSUME Look
      PROVE  SparesInv'
  BY <1>18 DEF Look, counters, SparesInv
<1>19. ASSUME Reconcile
      PROVE  SparesInv'
  BY <1>19 DEF Reconcile, counters, Present, SparesInv
<1>20. ASSUME StopIfIdle
      PROVE  SparesInv'
  <2>1. turn' = turn
    BY <1>20 DEF StopIfIdle
  <2>2. CASE MayStop
    BY <1>20, <2>1, <2>2 DEF StopIfIdle, MayStop, QuietInv, SparesInv
  <2>3. CASE ~MayStop
    BY <1>20, <2>1, <2>3 DEF StopIfIdle, SparesInv
  <2> QED
    BY <2>2, <2>3
<1>21. ASSUME NEW d \in Deleters, Drop(d)
      PROVE  SparesInv'
  BY <1>21 DEF Drop, Ended, counters, SparesInv
<1>22. ASSUME NEW d \in Deleters, NEW ok \in BOOLEAN, DeleteMedia(d, ok)
      PROVE  SparesInv'
  BY <1>22 DEF DeleteMedia, Send, Faults, Postpone, Ended, SparesInv
<1>23. ASSUME NEW d \in Deleters, NEW ok \in BOOLEAN, ServeDeletion(d, ok)
      PROVE  SparesInv'
  BY <1>23 DEF ServeDeletion, SparesInv
<1>24. ASSUME Submit
      PROVE  SparesInv'
  BY <1>24 DEF Submit, counters, Present, SparesInv
<1>25. ASSUME RunTurn
      PROVE  SparesInv'
  <2>1. \A i \in 1..Len(queue') : FALSE
    BY <1>25, QueueShifts DEF RunTurn, memory
  <2> QED
    BY <2>1 DEF SparesInv
<1>26. ASSUME EndTurn
      PROVE  SparesInv'
  BY <1>26 DEF EndTurn, counters, SparesInv
<1>27. ASSUME NEW ask, NEW action \in {"start", "stop", "restart"}, AgentControl(ask, action)
      PROVE  SparesInv'
  BY <1>27 DEF AgentControl, Send, memory, SparesInv
<1>28. ASSUME Evict
      PROVE  SparesInv'
  <2>1. turn' # "running"
    BY <1>28 DEF Evict
  <2> QED
    BY <2>1 DEF SparesInv
<1>29. ASSUME Load
      PROVE  SparesInv'
  <2>1. turn # "running" /\ turn' = turn
    BY <1>29 DEF Load, BaseInv, AsleepInv
  <2> QED
    BY <2>1 DEF SparesInv
<1>30. ASSUME Notice
      PROVE  SparesInv'
  BY <1>30 DEF Notice, counters, Present, SparesInv
<1>31. ASSUME Ring
      PROVE  SparesInv'
  BY <1>31 DEF Ring, counters, Present, SparesInv
<1>32. ASSUME Idle
      PROVE  SparesInv'
  BY <1>32 DEF Idle, counters, memory, Present, SparesInv
<1>33. ASSUME GuestFails
      PROVE  SparesInv'
  BY <1>33 DEF GuestFails, Faults, memory, SparesInv
<1>34. CASE UNCHANGED vars
  BY <1>34 DEF vars, memory, counters, SparesInv
<1> QED
  BY <1>1, <1>2, <1>3, <1>4, <1>5, <1>6, <1>7, <1>8, <1>9, <1>10, <1>11, <1>12,
     <1>13, <1>14, <1>15, <1>16, <1>17, <1>18, <1>19, <1>20, <1>21, <1>22,
     <1>23, <1>24, <1>25, <1>26, <1>27, <1>28, <1>29, <1>30, <1>31, <1>32,
     <1>33, <1>34 DEF Next, Users, Operate, Decide, Deletes, Agent

(* A deletion under way has its alarm, or is going on.                     *)
LEMMA RetriedKept ==
  ASSUME BaseInv, RetriedInv, [Next]_vars
  PROVE  RetriedInv'
<1>1. ASSUME Create
      PROVE  RetriedInv'
  BY <1>1, FreshRecord, NoRecordAssumption DEF Create, counters, RetriedInv,
     BaseInv, Deleters
<1>2. ASSUME Admit
      PROVE  RetriedInv'
  BY <1>2, NoRecordAssumption DEF Admit, Request, Present, RetriedInv, BaseInv,
     Deleters
<1>3. ASSUME Wake
      PROVE  RetriedInv'
  BY <1>3, NoRecordAssumption DEF Wake, Request, Present, RetriedInv, BaseInv,
     Deleters
<1>4. ASSUME Stop
      PROVE  RetriedInv'
  BY <1>4, NoRecordAssumption DEF Stop, Request, Abort, Present, RetriedInv,
     BaseInv, Deleters
<1>5. ASSUME Delete
      PROVE  RetriedInv'
  <2>1. deletion'["request"] # "none" /\ "request" \in Deleters
    BY <1>5, Deletions DEF Delete, Deleters, BaseInv
  <2> QED
    BY <2>1 DEF RetriedInv
<1>6. ASSUME NEW recovery \in Recoveries, Retry(recovery)
      PROVE  RetriedInv'
  BY <1>6, RequestsRecord, NoRecordAssumption DEF Retry, Request, Present,
     RetriedInv, BaseInv, Deleters
<1>7. ASSUME Skip
      PROVE  RetriedInv'
  <2>1. Finishes
    BY <1>7, SetupFinishes DEF BaseInv
  <2> QED
    BY <1>7, <2>1, NoRecordAssumption DEF Finishes, Skip, counters, RetriedInv,
       BaseInv, Deleters
<1>8. ASSUME BeginSetup
      PROVE  RetriedInv'
  BY <1>8, SetupRecord, NoRecordAssumption DEF BeginSetup, counters, Present,
     RetriedInv, BaseInv, Deleters
<1>9. ASSUME Credentials
      PROVE  RetriedInv'
  BY <1>9, NoRecordAssumption DEF Credentials, Send, counters, Present,
     RetriedInv, BaseInv, Deleters
<1>10. ASSUME CredentialsFail
      PROVE  RetriedInv'
  <2>1. Finishes
    BY <1>10, SetupFinishes DEF BaseInv
  <2> QED
    BY <1>10, <2>1, NoRecordAssumption DEF Finishes, CredentialsFail, Present,
       RetriedInv, BaseInv, Deleters
<1>11. ASSUME BeginStop
      PROVE  RetriedInv'
  BY <1>11, NoRecordAssumption DEF BeginStop, counters, RetriedInv, BaseInv,
     Deleters
<1>12. ASSUME Refreshed
      PROVE  RetriedInv'
  BY <1>12, NoRecordAssumption DEF Refreshed, Send, counters, RetriedInv,
     BaseInv, Deleters
<1>13. ASSUME Resume
      PROVE  RetriedInv'
  <2>1. Finishes
    BY <1>13, SetupFinishes DEF BaseInv
  <2> QED
    BY <1>13, <2>1, NoRecordAssumption DEF Finishes, Resume, counters,
       RetriedInv, BaseInv, Deleters
<1>14. ASSUME NEW ok \in BOOLEAN, Clear(ok)
      PROVE  RetriedInv'
  <2>1. CASE ok
    BY <1>14, <2>1, NoRecordAssumption DEF Clear, Guest, Faults, RetriedInv,
       BaseInv, Deleters
  <2>2. CASE ~ok
    <3>1. Finishes
      BY <1>14, <2>2, SetupFinishes DEF BaseInv
    <3> QED
      BY <1>14, <2>2, <3>1, NoRecordAssumption DEF Finishes, Clear, RetriedInv,
         BaseInv, Deleters
  <2> QED
    BY <2>1, <2>2
<1>15. ASSUME NEW ok \in BOOLEAN, ServeOperation(ok)
      PROVE  RetriedInv'
  <2>1. Answers(ok)
    BY <1>15, ServeOperationAnswers DEF BaseInv
  <2> QED
    BY <1>15, <2>1, NoRecordAssumption DEF Answers, Finishes, Reports, Serves,
       ServeOperation, Present, RetriedInv, BaseInv, Deleters
<1>16. ASSUME NEW ok \in BOOLEAN, ServeOther(ok)
      PROVE  RetriedInv'
  <2>1. /\ wire # <<>> /\ wire' = Tail(wire)
        /\ Head(wire).by \in {"agent", "nobody"}
        /\ Serves(Head(wire).call, ok)
        /\ \/ record' = record
           \/ Head(wire).by = "agent" /\ Head(wire).call # "delete" /\ Reports
    BY <1>16, OtherAnswers DEF BaseInv
  <2> QED
    BY <1>16, <2>1, NoRecordAssumption DEF Reports, Serves, ServeOther, memory,
       RetriedInv, BaseInv, Deleters
<1>17. ASSUME NEW outcome \in {"available", "unavailable", "failure"}, Clone(outcome)
      PROVE  RetriedInv'
  <2>1. Finishes
    BY <1>17, CloneFinishes DEF BaseInv
  <2> QED
    BY <1>17, <2>1, NoRecordAssumption DEF Finishes, Clone, RetriedInv, BaseInv,
       Deleters
<1>18. ASSUME Look
      PROVE  RetriedInv'
  BY <1>18, NoRecordAssumption DEF Look, counters, RetriedInv, BaseInv, Deleters
<1>19. ASSUME Reconcile
      PROVE  RetriedInv'
  BY <1>19, NoRecordAssumption DEF Reconcile, counters, Present, RetriedInv,
     BaseInv, Deleters, Needs
<1>20. ASSUME StopIfIdle
      PROVE  RetriedInv'
  BY <1>20, NoRecordAssumption DEF StopIfIdle, MayStop, counters, Present,
     RetriedInv, BaseInv, Deleters
<1>21. ASSUME NEW d \in Deleters, Drop(d)
      PROVE  RetriedInv'
  BY <1>21, NoRecordAssumption DEF Drop, Ended, counters, RetriedInv, BaseInv,
     Deleters
<1>22. ASSUME NEW d \in Deleters, NEW ok \in BOOLEAN, DeleteMedia(d, ok)
      PROVE  RetriedInv'
  <2>1. CASE ok
    <3>1. deletion'[d] # "none"
      BY <1>22, <2>1, Deletions DEF DeleteMedia, BaseInv
    <3> QED
      BY <3>1 DEF RetriedInv
  <2>2. CASE ~ok
    BY <1>22, <2>2 DEF DeleteMedia, Postpone, RetriedInv
  <2> QED
    BY <2>1, <2>2
<1>23. ASSUME NEW d \in Deleters, NEW ok \in BOOLEAN, ServeDeletion(d, ok)
      PROVE  RetriedInv'
  <2>1. CASE ok
    <3>1. deletion' = [deletion EXCEPT ![d] = "answered"] /\ TypeOK
      BY <1>23, <2>1 DEF ServeDeletion, BaseInv
    <3>2. deletion'[d] = "answered"
      BY <3>1, Deletions
    <3> QED
      BY <3>2 DEF RetriedInv
  <2>2. CASE ~ok
    BY <1>23, <2>2 DEF ServeDeletion, Postpone, RetriedInv
  <2> QED
    BY <2>1, <2>2
<1>24. ASSUME Submit
      PROVE  RetriedInv'
  BY <1>24, NoRecordAssumption DEF Submit, counters, Present, RetriedInv,
     BaseInv, Deleters
<1>25. ASSUME RunTurn
      PROVE  RetriedInv'
  BY <1>25, GuestRunner, NoRecordAssumption DEF RunTurn, counters, memory,
     RetriedInv, BaseInv, Deleters
<1>26. ASSUME EndTurn
      PROVE  RetriedInv'
  BY <1>26, NoRecordAssumption DEF EndTurn, counters, RetriedInv, BaseInv,
     Deleters
<1>27. ASSUME NEW ask, NEW action \in {"start", "stop", "restart"}, AgentControl(ask, action)
      PROVE  RetriedInv'
  BY <1>27, NoRecordAssumption DEF AgentControl, Send, memory, RetriedInv,
     BaseInv, Deleters
<1>28. ASSUME Evict
      PROVE  RetriedInv'
  BY <1>28, NoRecordAssumption DEF Evict, Present, RetriedInv, BaseInv, Deleters
<1>29. ASSUME Load
      PROVE  RetriedInv'
  BY <1>29, NoRecordAssumption DEF Load, counters, RetriedInv, BaseInv, Deleters
<1>30. ASSUME Notice
      PROVE  RetriedInv'
  <2>1. /\ runner' = runner
        /\ \/ record # NoRecord /\ runner.env # "absent" /\ Reports
           \/ record' = record /\ (record = NoRecord \/ runner.env = "absent")
    BY <1>30, NoticeReports DEF BaseInv
  <2> QED
    BY <1>30, <2>1, NoRecordAssumption DEF Reports, Notice, counters, Present,
       RetriedInv, BaseInv, Deleters
<1>31. ASSUME Ring
      PROVE  RetriedInv'
  BY <1>31, NoRecordAssumption DEF Ring, counters, Present, RetriedInv, BaseInv,
     Deleters
<1>32. ASSUME Idle
      PROVE  RetriedInv'
  BY <1>32, NoRecordAssumption DEF Idle, counters, memory, Present, RetriedInv,
     BaseInv, Deleters
<1>33. ASSUME GuestFails
      PROVE  RetriedInv'
  BY <1>33, GuestRunner, NoRecordAssumption DEF GuestFails, memory, RetriedInv,
     BaseInv, Deleters
<1>34. CASE UNCHANGED vars
  BY <1>34, NoRecordAssumption DEF vars, memory, counters, RetriedInv, BaseInv,
     Deleters, Needs
<1> QED
  BY <1>1, <1>2, <1>3, <1>4, <1>5, <1>6, <1>7, <1>8, <1>9, <1>10, <1>11, <1>12,
     <1>13, <1>14, <1>15, <1>16, <1>17, <1>18, <1>19, <1>20, <1>21, <1>22,
     <1>23, <1>24, <1>25, <1>26, <1>27, <1>28, <1>29, <1>30, <1>31, <1>32,
     <1>33, <1>34 DEF Next, Users, Operate, Decide, Deletes, Agent

(* Only a Session being deleted has calls of deletion.                     *)
LEMMA DeletingKept ==
  ASSUME BaseInv, DeletingInv, [Next]_vars
  PROVE  DeletingInv'
<1>1. ASSUME Create
      PROVE  DeletingInv'
  <2>1. 1..Len(wire') = {} /\ \A d \in Deleters : deletion'[d] = "none"
    BY <1>1 DEF Create, UncreatedInv, BaseInv
  <2> QED
    BY <2>1 DEF DeletingInv
<1>2. ASSUME Admit
      PROVE  DeletingInv'
  BY <1>2, NoRecordAssumption DEF Admit, Request, Present, DeletingInv, BaseInv,
     Deleters
<1>3. ASSUME Wake
      PROVE  DeletingInv'
  BY <1>3, NoRecordAssumption DEF Wake, Request, Present, DeletingInv, BaseInv,
     Deleters
<1>4. ASSUME Stop
      PROVE  DeletingInv'
  BY <1>4, NoRecordAssumption DEF Stop, Request, Abort, Present, DeletingInv,
     BaseInv, Deleters
<1>5. ASSUME Delete
      PROVE  DeletingInv'
  BY <1>5, RequestsRecord, NoRecordAssumption, WireTail DEF Delete, Abort,
     Present, DeletingInv, BaseInv, Deleters
<1>6. ASSUME NEW recovery \in Recoveries, Retry(recovery)
      PROVE  DeletingInv'
  BY <1>6, RequestsRecord, NoRecordAssumption, WireTail DEF Retry, Request,
     Present, DeletingInv, BaseInv, Deleters
<1>7. ASSUME Skip
      PROVE  DeletingInv'
  <2>1. Finishes
    BY <1>7, SetupFinishes DEF BaseInv
  <2> QED
    BY <1>7, <2>1, NoRecordAssumption, WireTail DEF Finishes, Skip, counters,
       DeletingInv, BaseInv, Deleters
<1>8. ASSUME BeginSetup
      PROVE  DeletingInv'
  BY <1>8, SetupRecord, NoRecordAssumption, WireTail DEF BeginSetup, counters,
     Present, DeletingInv, BaseInv, Deleters
<1>9. ASSUME Credentials
      PROVE  DeletingInv'
  BY <1>9, NoRecordAssumption DEF Credentials, Send, counters, Present,
     DeletingInv, BaseInv, Deleters
<1>10. ASSUME CredentialsFail
      PROVE  DeletingInv'
  <2>1. Finishes
    BY <1>10, SetupFinishes DEF BaseInv
  <2> QED
    BY <1>10, <2>1, NoRecordAssumption, WireTail DEF Finishes, CredentialsFail,
       Present, DeletingInv, BaseInv, Deleters
<1>11. ASSUME BeginStop
      PROVE  DeletingInv'
  BY <1>11, NoRecordAssumption DEF BeginStop, counters, DeletingInv, BaseInv,
     Deleters
<1>12. ASSUME Refreshed
      PROVE  DeletingInv'
  BY <1>12, NoRecordAssumption DEF Refreshed, Send, counters, DeletingInv,
     BaseInv, Deleters
<1>13. ASSUME Resume
      PROVE  DeletingInv'
  <2>1. Finishes
    BY <1>13, SetupFinishes DEF BaseInv
  <2> QED
    BY <1>13, <2>1, NoRecordAssumption, WireTail DEF Finishes, Resume, counters,
       DeletingInv, BaseInv, Deleters
<1>14. ASSUME NEW ok \in BOOLEAN, Clear(ok)
      PROVE  DeletingInv'
  <2>1. CASE ok
    BY <1>14, <2>1, NoRecordAssumption, WireTail DEF Clear, Guest, Faults,
       DeletingInv, BaseInv, Deleters
  <2>2. CASE ~ok
    <3>1. Finishes
      BY <1>14, <2>2, SetupFinishes DEF BaseInv
    <3> QED
      BY <1>14, <2>2, <3>1, NoRecordAssumption, WireTail DEF Finishes, Clear,
         DeletingInv, BaseInv, Deleters
  <2> QED
    BY <2>1, <2>2
<1>15. ASSUME NEW ok \in BOOLEAN, ServeOperation(ok)
      PROVE  DeletingInv'
  <2>1. Answers(ok) /\ deletion' = deletion
    BY <1>15, ServeOperationAnswers DEF BaseInv, ServeOperation
  <2>2. TypeOK /\ wire # <<>>
    BY <2>1 DEF Answers, BaseInv
  <2>3. record' # NoRecord => record # NoRecord /\ record'.deleting = record.deleting
    BY <2>1 DEF Answers, Finishes, Reports
  <2>4. CASE wire' = Tail(wire)
    <3>1. \A i \in 1..Len(wire') : wire'[i] = wire[i + 1] /\ i + 1 \in 1..Len(wire)
      BY <2>2, <2>4, WireTail
    <3> QED
      BY <2>1, <2>3, <3>1 DEF DeletingInv
  <2>5. CASE wire' = Append(Tail(wire), [call |-> "start", by |-> "operation"])
    <3>1. /\ Len(wire') = Len(wire) /\ Len(wire) \in Nat \ {0}
          /\ \A i \in 1..Len(wire') : i < Len(wire) =>
                wire'[i] = wire[i + 1] /\ i + 1 \in 1..Len(wire)
          /\ wire'[Len(wire)].call = "start"
      BY <2>2, <2>5, WireGoesOn
    <3>2. \A i \in 1..Len(wire') : i < Len(wire) \/ wire'[i].call = "start"
      BY <3>1
    <3> QED
      BY <2>1, <2>3, <3>1, <3>2 DEF DeletingInv
  <2> QED
    BY <2>1, <2>4, <2>5 DEF Answers
<1>16. ASSUME NEW ok \in BOOLEAN, ServeOther(ok)
      PROVE  DeletingInv'
  <2>1. /\ wire # <<>> /\ wire' = Tail(wire)
        /\ Head(wire).by \in {"agent", "nobody"}
        /\ Serves(Head(wire).call, ok)
        /\ \/ record' = record
           \/ Head(wire).by = "agent" /\ Head(wire).call # "delete" /\ Reports
    BY <1>16, OtherAnswers DEF BaseInv
  <2> QED
    BY <1>16, <2>1, NoRecordAssumption, WireTail DEF Reports, Serves,
       ServeOther, memory, DeletingInv, BaseInv, Deleters
<1>17. ASSUME NEW outcome \in {"available", "unavailable", "failure"}, Clone(outcome)
      PROVE  DeletingInv'
  <2>1. Finishes
    BY <1>17, CloneFinishes DEF BaseInv
  <2> QED
    BY <1>17, <2>1, NoRecordAssumption, WireTail DEF Finishes, Clone,
       DeletingInv, BaseInv, Deleters
<1>18. ASSUME Look
      PROVE  DeletingInv'
  BY <1>18, NoRecordAssumption DEF Look, counters, DeletingInv, BaseInv,
     Deleters
<1>19. ASSUME Reconcile
      PROVE  DeletingInv'
  BY <1>19, NoRecordAssumption DEF Reconcile, counters, Present, DeletingInv,
     BaseInv, Deleters
<1>20. ASSUME StopIfIdle
      PROVE  DeletingInv'
  BY <1>20, NoRecordAssumption DEF StopIfIdle, MayStop, counters, Present,
     DeletingInv, BaseInv, Deleters
<1>21. ASSUME NEW d \in Deleters, Drop(d)
      PROVE  DeletingInv'
  BY <1>21, NoRecordAssumption DEF Drop, Ended, counters, DeletingInv, BaseInv,
     Deleters
<1>22. ASSUME NEW d \in Deleters, NEW ok \in BOOLEAN, DeleteMedia(d, ok)
      PROVE  DeletingInv'
  BY <1>22, NoRecordAssumption DEF DeleteMedia, Send, Faults, Postpone, Ended,
     DeletingInv, BaseInv, Deleters
<1>23. ASSUME NEW d \in Deleters, NEW ok \in BOOLEAN, ServeDeletion(d, ok)
      PROVE  DeletingInv'
  <2>1. /\ wire # <<>> /\ wire' = Tail(wire)
        /\ Head(wire).by = d /\ Head(wire).call = "delete"
        /\ Serves("delete", ok)
    BY <1>23, DeletionAnswers DEF BaseInv
  <2> QED
    BY <1>23, <2>1, NoRecordAssumption, WireTail DEF Serves, ServeDeletion,
       Postpone, Ended, DeletingInv, BaseInv, Deleters
<1>24. ASSUME Submit
      PROVE  DeletingInv'
  BY <1>24, NoRecordAssumption DEF Submit, counters, Present, DeletingInv,
     BaseInv, Deleters
<1>25. ASSUME RunTurn
      PROVE  DeletingInv'
  BY <1>25, GuestRunner, NoRecordAssumption, WireTail DEF RunTurn, counters,
     memory, DeletingInv, BaseInv, Deleters
<1>26. ASSUME EndTurn
      PROVE  DeletingInv'
  BY <1>26, NoRecordAssumption DEF EndTurn, counters, DeletingInv, BaseInv,
     Deleters
<1>27. ASSUME NEW ask, NEW action \in {"start", "stop", "restart"}, AgentControl(ask, action)
      PROVE  DeletingInv'
  BY <1>27, NoRecordAssumption DEF AgentControl, Send, memory, DeletingInv,
     BaseInv, Deleters
<1>28. ASSUME Evict
      PROVE  DeletingInv'
  BY <1>28, NoRecordAssumption DEF Evict, Present, DeletingInv, BaseInv,
     Deleters
<1>29. ASSUME Load
      PROVE  DeletingInv'
  BY <1>29, NoRecordAssumption DEF Load, counters, DeletingInv, BaseInv,
     Deleters
<1>30. ASSUME Notice
      PROVE  DeletingInv'
  <2>1. /\ runner' = runner
        /\ \/ record # NoRecord /\ runner.env # "absent" /\ Reports
           \/ record' = record /\ (record = NoRecord \/ runner.env = "absent")
    BY <1>30, NoticeReports DEF BaseInv
  <2> QED
    BY <1>30, <2>1, NoRecordAssumption, WireTail DEF Reports, Notice, counters,
       Present, DeletingInv, BaseInv, Deleters
<1>31. ASSUME Ring
      PROVE  DeletingInv'
  BY <1>31, NoRecordAssumption DEF Ring, counters, Present, DeletingInv,
     BaseInv, Deleters
<1>32. ASSUME Idle
      PROVE  DeletingInv'
  BY <1>32, NoRecordAssumption DEF Idle, counters, memory, Present, DeletingInv,
     BaseInv, Deleters
<1>33. ASSUME GuestFails
      PROVE  DeletingInv'
  BY <1>33, GuestRunner, NoRecordAssumption, WireTail DEF GuestFails, memory,
     DeletingInv, BaseInv, Deleters
<1>34. CASE UNCHANGED vars
  BY <1>34, NoRecordAssumption DEF vars, memory, counters, DeletingInv, BaseInv,
     Deleters
<1> QED
  BY <1>1, <1>2, <1>3, <1>4, <1>5, <1>6, <1>7, <1>8, <1>9, <1>10, <1>11, <1>12,
     <1>13, <1>14, <1>15, <1>16, <1>17, <1>18, <1>19, <1>20, <1>21, <1>22,
     <1>23, <1>24, <1>25, <1>26, <1>27, <1>28, <1>29, <1>30, <1>31, <1>32,
     <1>33, <1>34 DEF Next, Users, Operate, Decide, Deletes, Agent

(* A record that differs from the runner is told.                          *)
LEMMA ReportKept ==
  ASSUME BaseInv, ReportInv, [Next]_vars
  PROVE  ReportInv'
<1>1. ASSUME Create
      PROVE  ReportInv'
  BY <1>1, FreshRecord, NoRecordAssumption DEF Create, counters, ReportInv,
     BaseInv, UncreatedInv
<1>2. ASSUME Admit
      PROVE  ReportInv'
  BY <1>2, NoRecordAssumption DEF Admit, Request, Present, ReportInv, BaseInv
<1>3. ASSUME Wake
      PROVE  ReportInv'
  BY <1>3, NoRecordAssumption DEF Wake, Request, Present, ReportInv, BaseInv
<1>4. ASSUME Stop
      PROVE  ReportInv'
  BY <1>4, NoRecordAssumption DEF Stop, Request, Abort, Present, ReportInv,
     BaseInv
<1>5. ASSUME Delete
      PROVE  ReportInv'
  BY <1>5, RequestsRecord, NoRecordAssumption DEF Delete, Abort, Present,
     ReportInv, BaseInv, UncreatedInv
<1>6. ASSUME NEW recovery \in Recoveries, Retry(recovery)
      PROVE  ReportInv'
  BY <1>6, RequestsRecord, NoRecordAssumption DEF Retry, Request, Present,
     ReportInv, BaseInv, UncreatedInv
<1>7. ASSUME Skip
      PROVE  ReportInv'
  <2>1. Finishes
    BY <1>7, SetupFinishes DEF BaseInv
  <2> QED
    BY <1>7, <2>1, NoRecordAssumption DEF Finishes, Skip, counters, ReportInv,
       BaseInv, UncreatedInv
<1>8. ASSUME BeginSetup
      PROVE  ReportInv'
  BY <1>8, SetupRecord, NoRecordAssumption DEF BeginSetup, counters, Present,
     ReportInv, BaseInv, UncreatedInv
<1>9. ASSUME Credentials
      PROVE  ReportInv'
  BY <1>9, NoRecordAssumption DEF Credentials, Send, counters, Present,
     ReportInv, BaseInv
<1>10. ASSUME CredentialsFail
      PROVE  ReportInv'
  <2>1. Finishes
    BY <1>10, SetupFinishes DEF BaseInv
  <2> QED
    BY <1>10, <2>1, NoRecordAssumption DEF Finishes, CredentialsFail, Present,
       ReportInv, BaseInv, UncreatedInv
<1>11. ASSUME BeginStop
      PROVE  ReportInv'
  BY <1>11, NoRecordAssumption DEF BeginStop, counters, ReportInv, BaseInv
<1>12. ASSUME Refreshed
      PROVE  ReportInv'
  BY <1>12, NoRecordAssumption DEF Refreshed, Send, counters, ReportInv, BaseInv
<1>13. ASSUME Resume
      PROVE  ReportInv'
  <2>1. Finishes
    BY <1>13, SetupFinishes DEF BaseInv
  <2> QED
    BY <1>13, <2>1, NoRecordAssumption DEF Finishes, Resume, counters,
       ReportInv, BaseInv, UncreatedInv
<1>14. ASSUME NEW ok \in BOOLEAN, Clear(ok)
      PROVE  ReportInv'
  <2>1. runner'.env = runner.env /\ notice' = notice
    BY <1>14, GuestRunner DEF Clear, BaseInv
  <2>2. CASE ok
    BY <1>14, <2>1, <2>2 DEF Clear, ReportInv
  <2>3. CASE ~ok
    <3>1. Finishes
      BY <1>14, <2>3, SetupFinishes DEF BaseInv
    <3> QED
      BY <2>1, <3>1 DEF Finishes, ReportInv
  <2> QED
    BY <2>2, <2>3
<1>15. ASSUME NEW ok \in BOOLEAN, ServeOperation(ok)
      PROVE  ReportInv'
  <2>1. Answers(ok)
    BY <1>15, ServeOperationAnswers DEF BaseInv
  <2> QED
    BY <1>15, <2>1, NoRecordAssumption DEF Answers, Finishes, Reports, Serves,
       ServeOperation, Present, ReportInv, BaseInv, UncreatedInv
<1>16. ASSUME NEW ok \in BOOLEAN, ServeOther(ok)
      PROVE  ReportInv'
  <2>1. /\ wire # <<>> /\ wire' = Tail(wire)
        /\ Head(wire).by \in {"agent", "nobody"}
        /\ Serves(Head(wire).call, ok)
        /\ \/ record' = record
           \/ Head(wire).by = "agent" /\ Head(wire).call # "delete" /\ Reports
    BY <1>16, OtherAnswers DEF BaseInv
  <2> QED
    BY <1>16, <2>1, NoRecordAssumption DEF Reports, Serves, ServeOther, memory,
       ReportInv, BaseInv, UncreatedInv
<1>17. ASSUME NEW outcome \in {"available", "unavailable", "failure"}, Clone(outcome)
      PROVE  ReportInv'
  <2>1. Finishes
    BY <1>17, CloneFinishes DEF BaseInv
  <2> QED
    BY <1>17, <2>1, NoRecordAssumption DEF Finishes, Clone, ReportInv, BaseInv,
       UncreatedInv
<1>18. ASSUME Look
      PROVE  ReportInv'
  BY <1>18, NoRecordAssumption DEF Look, counters, ReportInv, BaseInv
<1>19. ASSUME Reconcile
      PROVE  ReportInv'
  BY <1>19, NoRecordAssumption DEF Reconcile, counters, Present, ReportInv,
     BaseInv
<1>20. ASSUME StopIfIdle
      PROVE  ReportInv'
  BY <1>20, NoRecordAssumption DEF StopIfIdle, MayStop, counters, Present,
     ReportInv, BaseInv
<1>21. ASSUME NEW d \in Deleters, Drop(d)
      PROVE  ReportInv'
  BY <1>21, NoRecordAssumption DEF Drop, Ended, counters, ReportInv, BaseInv
<1>22. ASSUME NEW d \in Deleters, NEW ok \in BOOLEAN, DeleteMedia(d, ok)
      PROVE  ReportInv'
  BY <1>22, NoRecordAssumption DEF DeleteMedia, Send, Faults, Postpone, Ended,
     ReportInv, BaseInv
<1>23. ASSUME NEW d \in Deleters, NEW ok \in BOOLEAN, ServeDeletion(d, ok)
      PROVE  ReportInv'
  <2>1. /\ wire # <<>> /\ wire' = Tail(wire)
        /\ Head(wire).by = d /\ Head(wire).call = "delete"
        /\ Serves("delete", ok)
    BY <1>23, DeletionAnswers DEF BaseInv
  <2> QED
    BY <1>23, <2>1, NoRecordAssumption DEF Serves, ServeDeletion, Postpone,
       Ended, ReportInv, BaseInv, UncreatedInv
<1>24. ASSUME Submit
      PROVE  ReportInv'
  BY <1>24, NoRecordAssumption DEF Submit, counters, Present, ReportInv, BaseInv
<1>25. ASSUME RunTurn
      PROVE  ReportInv'
  BY <1>25, GuestRunner, NoRecordAssumption DEF RunTurn, counters, memory,
     ReportInv, BaseInv, UncreatedInv
<1>26. ASSUME EndTurn
      PROVE  ReportInv'
  BY <1>26, NoRecordAssumption DEF EndTurn, counters, ReportInv, BaseInv
<1>27. ASSUME NEW ask, NEW action \in {"start", "stop", "restart"}, AgentControl(ask, action)
      PROVE  ReportInv'
  BY <1>27, NoRecordAssumption DEF AgentControl, Send, memory, ReportInv,
     BaseInv
<1>28. ASSUME Evict
      PROVE  ReportInv'
  BY <1>28, NoRecordAssumption DEF Evict, Present, ReportInv, BaseInv
<1>29. ASSUME Load
      PROVE  ReportInv'
  BY <1>29, NoRecordAssumption DEF Load, counters, ReportInv, BaseInv
<1>30. ASSUME Notice
      PROVE  ReportInv'
  <2>1. /\ runner' = runner
        /\ \/ record # NoRecord /\ runner.env # "absent" /\ Reports
           \/ record' = record /\ (record = NoRecord \/ runner.env = "absent")
    BY <1>30, NoticeReports DEF BaseInv
  <2> QED
    BY <1>30, <2>1, NoRecordAssumption DEF Reports, Notice, counters, Present,
       ReportInv, BaseInv, UncreatedInv
<1>31. ASSUME Ring
      PROVE  ReportInv'
  BY <1>31, NoRecordAssumption DEF Ring, counters, Present, ReportInv, BaseInv
<1>32. ASSUME Idle
      PROVE  ReportInv'
  BY <1>32, NoRecordAssumption DEF Idle, counters, memory, Present, ReportInv,
     BaseInv
<1>33. ASSUME GuestFails
      PROVE  ReportInv'
  BY <1>33, GuestRunner, NoRecordAssumption DEF GuestFails, memory, ReportInv,
     BaseInv, UncreatedInv
<1>34. CASE UNCHANGED vars
  BY <1>34, NoRecordAssumption DEF vars, memory, counters, ReportInv, BaseInv
<1> QED
  BY <1>1, <1>2, <1>3, <1>4, <1>5, <1>6, <1>7, <1>8, <1>9, <1>10, <1>11, <1>12,
     <1>13, <1>14, <1>15, <1>16, <1>17, <1>18, <1>19, <1>20, <1>21, <1>22,
     <1>23, <1>24, <1>25, <1>26, <1>27, <1>28, <1>29, <1>30, <1>31, <1>32,
     <1>33, <1>34 DEF Next, Users, Operate, Decide, Deletes, Agent

(* A decision that looked before the turn came has another behind it.      *)
LEMMA LookKept ==
  ASSUME BaseInv, LookInv, [Next]_vars
  PROVE  LookInv'
<1>1. ASSUME Create
      PROVE  LookInv'
  BY <1>1, FreshRecord, Reconciled DEF Create, counters, LookInv, BaseInv,
     UncreatedInv
<1>2. ASSUME Admit
      PROVE  LookInv'
  BY <1>2, Reconciled DEF Admit, Request, Present, LookInv, BaseInv
<1>3. ASSUME Wake
      PROVE  LookInv'
  BY <1>3, Reconciled DEF Wake, Request, Present, LookInv, BaseInv
<1>4. ASSUME Stop
      PROVE  LookInv'
  BY <1>4, Reconciled DEF Stop, Request, Abort, Present, LookInv, BaseInv
<1>5. ASSUME Delete
      PROVE  LookInv'
  BY <1>5, RequestsRecord, Reconciled DEF Delete, Abort, Present, LookInv,
     BaseInv, UncreatedInv
<1>6. ASSUME NEW recovery \in Recoveries, Retry(recovery)
      PROVE  LookInv'
  BY <1>6, RequestsRecord, Reconciled DEF Retry, Request, Present, LookInv,
     BaseInv, UncreatedInv
<1>7. ASSUME Skip
      PROVE  LookInv'
  <2>1. Finishes
    BY <1>7, SetupFinishes DEF BaseInv
  <2> QED
    BY <1>7, <2>1, Reconciled DEF Finishes, Skip, counters, LookInv, BaseInv,
       UncreatedInv
<1>8. ASSUME BeginSetup
      PROVE  LookInv'
  BY <1>8, SetupRecord, Reconciled DEF BeginSetup, counters, Present, LookInv,
     BaseInv, UncreatedInv
<1>9. ASSUME Credentials
      PROVE  LookInv'
  BY <1>9, Reconciled DEF Credentials, Send, counters, Present, LookInv, BaseInv
<1>10. ASSUME CredentialsFail
      PROVE  LookInv'
  <2>1. Finishes
    BY <1>10, SetupFinishes DEF BaseInv
  <2> QED
    BY <1>10, <2>1, Reconciled DEF Finishes, CredentialsFail, Present, LookInv,
       BaseInv, UncreatedInv
<1>11. ASSUME BeginStop
      PROVE  LookInv'
  BY <1>11, Reconciled DEF BeginStop, counters, LookInv, BaseInv
<1>12. ASSUME Refreshed
      PROVE  LookInv'
  BY <1>12, Reconciled DEF Refreshed, Send, counters, LookInv, BaseInv
<1>13. ASSUME Resume
      PROVE  LookInv'
  <2>1. Finishes
    BY <1>13, SetupFinishes DEF BaseInv
  <2> QED
    BY <1>13, <2>1, Reconciled DEF Finishes, Resume, counters, LookInv, BaseInv,
       UncreatedInv
<1>14. ASSUME NEW ok \in BOOLEAN, Clear(ok)
      PROVE  LookInv'
  <2>1. CASE ok
    BY <1>14, <2>1, Reconciled DEF Clear, Guest, Faults, LookInv, BaseInv,
       UncreatedInv
  <2>2. CASE ~ok
    <3>1. Finishes
      BY <1>14, <2>2, SetupFinishes DEF BaseInv
    <3> QED
      BY <1>14, <2>2, <3>1, Reconciled DEF Finishes, Clear, LookInv, BaseInv,
         UncreatedInv
  <2> QED
    BY <2>1, <2>2
<1>15. ASSUME NEW ok \in BOOLEAN, ServeOperation(ok)
      PROVE  LookInv'
  <2>1. Answers(ok)
    BY <1>15, ServeOperationAnswers DEF BaseInv
  <2> QED
    BY <1>15, <2>1, Reconciled DEF Answers, Finishes, Reports, Serves,
       ServeOperation, Present, LookInv, BaseInv, UncreatedInv
<1>16. ASSUME NEW ok \in BOOLEAN, ServeOther(ok)
      PROVE  LookInv'
  <2>1. /\ wire # <<>> /\ wire' = Tail(wire)
        /\ Head(wire).by \in {"agent", "nobody"}
        /\ Serves(Head(wire).call, ok)
        /\ \/ record' = record
           \/ Head(wire).by = "agent" /\ Head(wire).call # "delete" /\ Reports
    BY <1>16, OtherAnswers DEF BaseInv
  <2> QED
    BY <1>16, <2>1, Reconciled DEF Reports, Serves, ServeOther, memory, LookInv,
       BaseInv, UncreatedInv
<1>17. ASSUME NEW outcome \in {"available", "unavailable", "failure"}, Clone(outcome)
      PROVE  LookInv'
  <2>1. Finishes
    BY <1>17, CloneFinishes DEF BaseInv
  <2> QED
    BY <1>17, <2>1, Reconciled DEF Finishes, Clone, LookInv, BaseInv,
       UncreatedInv
<1>18. ASSUME Look
      PROVE  LookInv'
  BY <1>18, Reconciled DEF Look, counters, LookInv, BaseInv
<1>19. ASSUME Reconcile
      PROVE  LookInv'
  BY <1>19, Reconciled DEF Reconcile, counters, Present, LookInv, BaseInv
<1>20. ASSUME StopIfIdle
      PROVE  LookInv'
  BY <1>20, Reconciled DEF StopIfIdle, MayStop, counters, Present, LookInv,
     BaseInv
<1>21. ASSUME NEW d \in Deleters, Drop(d)
      PROVE  LookInv'
  BY <1>21, Reconciled DEF Drop, Ended, counters, LookInv, BaseInv
<1>22. ASSUME NEW d \in Deleters, NEW ok \in BOOLEAN, DeleteMedia(d, ok)
      PROVE  LookInv'
  BY <1>22, Reconciled DEF DeleteMedia, Send, Faults, Postpone, Ended, LookInv,
     BaseInv
<1>23. ASSUME NEW d \in Deleters, NEW ok \in BOOLEAN, ServeDeletion(d, ok)
      PROVE  LookInv'
  <2>1. /\ wire # <<>> /\ wire' = Tail(wire)
        /\ Head(wire).by = d /\ Head(wire).call = "delete"
        /\ Serves("delete", ok)
    BY <1>23, DeletionAnswers DEF BaseInv
  <2> QED
    BY <1>23, <2>1, Reconciled DEF Serves, ServeDeletion, Postpone, Ended,
       LookInv, BaseInv, UncreatedInv
<1>24. ASSUME Submit
      PROVE  LookInv'
  BY <1>24, Reconciled DEF Submit, counters, Present, LookInv, BaseInv
<1>25. ASSUME RunTurn
      PROVE  LookInv'
  BY <1>25, GuestRunner, Reconciled DEF RunTurn, counters, memory, LookInv,
     BaseInv, UncreatedInv
<1>26. ASSUME EndTurn
      PROVE  LookInv'
  BY <1>26, Reconciled DEF EndTurn, counters, LookInv, BaseInv
<1>27. ASSUME NEW ask, NEW action \in {"start", "stop", "restart"}, AgentControl(ask, action)
      PROVE  LookInv'
  BY <1>27, Reconciled DEF AgentControl, Send, memory, LookInv, BaseInv
<1>28. ASSUME Evict
      PROVE  LookInv'
  BY <1>28, Reconciled DEF Evict, Present, LookInv, BaseInv
<1>29. ASSUME Load
      PROVE  LookInv'
  BY <1>29 DEF Load, AsleepInv, BaseInv, LookInv
<1>30. ASSUME Notice
      PROVE  LookInv'
  <2>1. /\ runner' = runner
        /\ \/ record # NoRecord /\ runner.env # "absent" /\ Reports
           \/ record' = record /\ (record = NoRecord \/ runner.env = "absent")
    BY <1>30, NoticeReports DEF BaseInv
  <2> QED
    BY <1>30, <2>1, Reconciled DEF Reports, Notice, counters, Present, LookInv,
       BaseInv, UncreatedInv
<1>31. ASSUME Ring
      PROVE  LookInv'
  <2>1. /\ Len(Append(decisions, "stop if idle")) = Len(decisions) + 1
        /\ Len(decisions) \in Nat
    BY Reconciled DEF Decisions
  <2>2. decisions' \in {decisions, Append(decisions, "stop if idle")}
    BY <1>31 DEF Ring
  <2>3. looked' = looked /\ turn' = turn
    BY <1>31 DEF Ring
  <2>4. CASE decisions' = decisions
    BY <2>3, <2>4 DEF LookInv
  <2>5. CASE decisions' = Append(decisions, "stop if idle")
    <3>1. Len(decisions') = Len(decisions) + 1 /\ Len(decisions) \in Nat
      BY <2>1, <2>5
    <3> QED
      BY <2>3, <3>1 DEF LookInv
  <2> QED
    BY <2>2, <2>4, <2>5
<1>32. ASSUME Idle
      PROVE  LookInv'
  BY <1>32, Reconciled DEF Idle, counters, memory, Present, LookInv, BaseInv
<1>33. ASSUME GuestFails
      PROVE  LookInv'
  BY <1>33, GuestRunner, Reconciled DEF GuestFails, memory, LookInv, BaseInv,
     UncreatedInv
<1>34. CASE UNCHANGED vars
  BY <1>34, Reconciled DEF vars, memory, counters, LookInv, BaseInv
<1> QED
  BY <1>1, <1>2, <1>3, <1>4, <1>5, <1>6, <1>7, <1>8, <1>9, <1>10, <1>11, <1>12,
     <1>13, <1>14, <1>15, <1>16, <1>17, <1>18, <1>19, <1>20, <1>21, <1>22,
     <1>23, <1>24, <1>25, <1>26, <1>27, <1>28, <1>29, <1>30, <1>31, <1>32,
     <1>33, <1>34 DEF Next, Users, Operate, Decide, Deletes, Agent

(* What is unfinished has its alarm, or something that sets it.            *)
LEMMA BackedKept ==
  ASSUME BaseInv, RetriedInv', DeletingInv, ReportInv, LookInv, BackedInv, [Next]_vars
  PROVE  BackedInv'
<1>1. ASSUME Create
      PROVE  BackedInv'
  BY <1>1, FreshRecord, Reconciled, QueueShifts, NoRecordAssumption DEF Create,
     counters, BackedInv, BaseInv, Needs, RetriedInv, Deleters, QueueInv,
     ReportInv, DeletingInv
<1>2. ASSUME Admit
      PROVE  BackedInv'
  BY <1>2, Reconciled, QueueShifts, NoRecordAssumption DEF Admit, Request,
     Present, BackedInv, BaseInv, Needs, RetriedInv, Deleters
<1>3. ASSUME Wake
      PROVE  BackedInv'
  BY <1>3, Reconciled, QueueShifts, NoRecordAssumption DEF Wake, Request,
     Present, BackedInv, BaseInv, Needs, RetriedInv, Deleters
<1>4. ASSUME Stop
      PROVE  BackedInv'
  BY <1>4, Reconciled, QueueShifts, NoRecordAssumption DEF Stop, Request, Abort,
     Present, BackedInv, BaseInv, Needs, RetriedInv, Deleters
<1>5. ASSUME Delete
      PROVE  BackedInv'
  BY <1>5, RequestsRecord, Reconciled, QueueShifts, NoRecordAssumption
     DEF Delete, Abort, Present, BackedInv, BaseInv, Needs, RetriedInv,
     Deleters, QueueInv, ReportInv, DeletingInv
<1>6. ASSUME NEW recovery \in Recoveries, Retry(recovery)
      PROVE  BackedInv'
  BY <1>6, RequestsRecord, Reconciled, QueueShifts, NoRecordAssumption
     DEF Retry, Request, Present, BackedInv, BaseInv, Needs, RetriedInv,
     Deleters, QueueInv, ReportInv, DeletingInv
<1>7. ASSUME Skip
      PROVE  BackedInv'
  <2>1. Finishes
    BY <1>7, SetupFinishes DEF BaseInv
  <2> QED
    BY <1>7, <2>1, Reconciled, QueueShifts, NoRecordAssumption DEF Finishes,
       Skip, counters, BackedInv, BaseInv, Needs, RetriedInv, Deleters,
       QueueInv, ReportInv, DeletingInv
<1>8. ASSUME BeginSetup
      PROVE  BackedInv'
  BY <1>8, SetupRecord, Reconciled, QueueShifts, NoRecordAssumption
     DEF BeginSetup, counters, Present, BackedInv, BaseInv, Needs, RetriedInv,
     Deleters, QueueInv, ReportInv, DeletingInv
<1>9. ASSUME Credentials
      PROVE  BackedInv'
  BY <1>9, Reconciled, QueueShifts, NoRecordAssumption DEF Credentials, Send,
     counters, Present, BackedInv, BaseInv, Needs, RetriedInv, Deleters
<1>10. ASSUME CredentialsFail
      PROVE  BackedInv'
  <2>1. Finishes
    BY <1>10, SetupFinishes DEF BaseInv
  <2> QED
    BY <1>10, <2>1, Reconciled, QueueShifts, NoRecordAssumption DEF Finishes,
       CredentialsFail, Present, BackedInv, BaseInv, Needs, RetriedInv,
       Deleters, QueueInv, ReportInv, DeletingInv
<1>11. ASSUME BeginStop
      PROVE  BackedInv'
  BY <1>11, Reconciled, QueueShifts, NoRecordAssumption DEF BeginStop, counters,
     BackedInv, BaseInv, Needs, RetriedInv, Deleters
<1>12. ASSUME Refreshed
      PROVE  BackedInv'
  BY <1>12, Reconciled, QueueShifts, NoRecordAssumption DEF Refreshed, Send,
     counters, BackedInv, BaseInv, Needs, RetriedInv, Deleters
<1>13. ASSUME Resume
      PROVE  BackedInv'
  <2>1. Finishes
    BY <1>13, SetupFinishes DEF BaseInv
  <2> QED
    BY <1>13, <2>1, Reconciled, QueueShifts, NoRecordAssumption DEF Finishes,
       Resume, counters, BackedInv, BaseInv, Needs, RetriedInv, Deleters,
       QueueInv, ReportInv, DeletingInv
<1>14. ASSUME NEW ok \in BOOLEAN, Clear(ok)
      PROVE  BackedInv'
  <2>1. /\ runner'.env = runner.env /\ notice' = notice /\ alarm' = alarm
        /\ alive' = alive /\ turn' = turn
        /\ admitting' = admitting /\ deletion' = deletion
    BY <1>14, GuestRunner DEF Clear, BaseInv
  <2>2. CASE ok
    BY <1>14, <2>1, <2>2 DEF Clear, BackedInv
  <2>3. CASE ~ok
    <3>1. Finishes
      BY <1>14, <2>3, SetupFinishes DEF BaseInv
    <3> QED
      BY <3>1, Reconciled DEF Finishes, BackedInv
  <2> QED
    BY <2>2, <2>3
<1>15. ASSUME NEW ok \in BOOLEAN, ServeOperation(ok)
      PROVE  BackedInv'
  <2>1. Answers(ok)
    BY <1>15, ServeOperationAnswers DEF BaseInv
  <2> QED
    BY <1>15, <2>1, Reconciled, QueueShifts, NoRecordAssumption DEF Answers,
       Finishes, Reports, Serves, ServeOperation, Present, BackedInv, BaseInv,
       Needs, RetriedInv, Deleters, Waits, QueueInv, ReportInv, DeletingInv
<1>16. ASSUME NEW ok \in BOOLEAN, ServeOther(ok)
      PROVE  BackedInv'
  <2>1. /\ wire # <<>> /\ wire' = Tail(wire)
        /\ Head(wire).by \in {"agent", "nobody"}
        /\ Serves(Head(wire).call, ok)
        /\ \/ record' = record
           \/ Head(wire).by = "agent" /\ Head(wire).call # "delete" /\ Reports
    BY <1>16, OtherAnswers DEF BaseInv
  <2> QED
    BY <1>16, <2>1, Reconciled, QueueShifts, NoRecordAssumption DEF Reports,
       Serves, ServeOther, memory, BackedInv, BaseInv, Needs, RetriedInv,
       Deleters, QueueInv, ReportInv, DeletingInv
<1>17. ASSUME NEW outcome \in {"available", "unavailable", "failure"}, Clone(outcome)
      PROVE  BackedInv'
  <2>1. Finishes
    BY <1>17, CloneFinishes DEF BaseInv
  <2> QED
    BY <1>17, <2>1, Reconciled, QueueShifts, NoRecordAssumption DEF Finishes,
       Clone, BackedInv, BaseInv, Needs, RetriedInv, Deleters, QueueInv,
       ReportInv, DeletingInv
<1>18. ASSUME Look
      PROVE  BackedInv'
  BY <1>18, Reconciled, QueueShifts, NoRecordAssumption DEF Look, counters,
     BackedInv, BaseInv, Needs, RetriedInv, Deleters
<1>19. ASSUME Reconcile
      PROVE  BackedInv'
  <2>1. decisions # <<>> /\ decisions' = Tail(decisions)
    BY <1>19 DEF Reconcile
  <2>2. looked = "quiet" /\ turn # "none" => decisions' # <<>>
    BY <2>1, DecisionsShift DEF LookInv
  <2>3. looked \in {"quiet", "work"}
    BY <1>19 DEF Reconcile, BaseInv, TypeOK
  <2>4. CASE Present
    <3>1. alarm' = Needs(record, looked = "work")
      BY <1>19, <2>4 DEF Reconcile
    <3>2. record' = record /\ turn' = turn
      BY <1>19 DEF Reconcile
    <3>3. looked = "work" => alarm'
      BY <3>1 DEF Needs
    <3>4. looked = "quiet" /\ turn = "none" /\ Needs(record, turn # "none")
             => alarm'
      BY <3>1 DEF Needs
    <3> QED
      BY <2>2, <2>3, <3>2, <3>3, <3>4 DEF BackedInv
  <2>5. CASE ~Present
    BY <1>19, <2>5 DEF Reconcile, Present, BackedInv
  <2> QED
    BY <2>4, <2>5
<1>20. ASSUME StopIfIdle
      PROVE  BackedInv'
  <2>1. decisions # <<>> /\ "reconcile" \in Decisions /\ "idle stop" \in Operations
    BY <1>20 DEF StopIfIdle, Decisions, Operations
  <2>2. queue' # <<>> \/ decisions' # <<>>
    BY <1>20, <2>1, QueueShifts, DecisionsShift DEF StopIfIdle
  <2> QED
    BY <2>2 DEF BackedInv
<1>21. ASSUME NEW d \in Deleters, Drop(d)
      PROVE  BackedInv'
  BY <1>21, Reconciled, QueueShifts, NoRecordAssumption DEF Drop, Ended,
     counters, BackedInv, BaseInv, Needs, RetriedInv, Deleters
<1>22. ASSUME NEW d \in Deleters, NEW ok \in BOOLEAN, DeleteMedia(d, ok)
      PROVE  BackedInv'
  <2>1. CASE ok
    <3>1. deletion' = [deletion EXCEPT ![d] = "call"] /\ TypeOK
      BY <1>22, <2>1 DEF DeleteMedia, BaseInv
    <3>2. deletion'[d] = "call"
      BY <3>1, Deletions
    <3> QED
      BY <3>2 DEF BackedInv
  <2>2. CASE ~ok
    BY <1>22, <2>2 DEF DeleteMedia, Postpone, BackedInv
  <2> QED
    BY <2>1, <2>2
<1>23. ASSUME NEW d \in Deleters, NEW ok \in BOOLEAN, ServeDeletion(d, ok)
      PROVE  BackedInv'
  <2>1. /\ wire # <<>> /\ wire' = Tail(wire)
        /\ Head(wire).by = d /\ Head(wire).call = "delete"
        /\ Serves("delete", ok)
    BY <1>23, DeletionAnswers DEF BaseInv
  <2> QED
    BY <1>23, <2>1, Reconciled, QueueShifts, NoRecordAssumption DEF Serves,
       ServeDeletion, Postpone, Ended, BackedInv, BaseInv, Needs, RetriedInv,
       Deleters, QueueInv, ReportInv, DeletingInv
<1>24. ASSUME Submit
      PROVE  BackedInv'
  BY <1>24, Reconciled, QueueShifts, NoRecordAssumption DEF Submit, counters,
     Present, BackedInv, BaseInv, Needs, RetriedInv, Deleters
<1>25. ASSUME RunTurn
      PROVE  BackedInv'
  BY <1>25, GuestRunner, Reconciled, QueueShifts, NoRecordAssumption
     DEF RunTurn, counters, memory, BackedInv, BaseInv, Needs, RetriedInv,
     Deleters, QueueInv, ReportInv, DeletingInv
<1>26. ASSUME EndTurn
      PROVE  BackedInv'
  BY <1>26, Reconciled, QueueShifts, NoRecordAssumption DEF EndTurn, counters,
     BackedInv, BaseInv, Needs, RetriedInv, Deleters
<1>27. ASSUME NEW ask, NEW action \in {"start", "stop", "restart"}, AgentControl(ask, action)
      PROVE  BackedInv'
  BY <1>27, Reconciled, QueueShifts, NoRecordAssumption DEF AgentControl, Send,
     memory, BackedInv, BaseInv, Needs, RetriedInv, Deleters
<1>28. ASSUME Evict
      PROVE  BackedInv'
  BY <1>28, Reconciled, QueueShifts, NoRecordAssumption DEF Evict, Present,
     BackedInv, BaseInv, Needs, RetriedInv, Deleters
<1>29. ASSUME Load
      PROVE  BackedInv'
  BY <1>29, Reconciled, QueueShifts, NoRecordAssumption DEF Load, counters,
     BackedInv, BaseInv, Needs, RetriedInv, Deleters
<1>30. ASSUME Notice
      PROVE  BackedInv'
  <2>1. /\ runner' = runner
        /\ \/ record # NoRecord /\ runner.env # "absent" /\ Reports
           \/ record' = record /\ (record = NoRecord \/ runner.env = "absent")
    BY <1>30, NoticeReports DEF BaseInv
  <2> QED
    BY <1>30, <2>1, Reconciled, QueueShifts, NoRecordAssumption DEF Reports,
       Notice, counters, Present, BackedInv, BaseInv, Needs, RetriedInv,
       Deleters, QueueInv, ReportInv, DeletingInv
<1>31. ASSUME Ring
      PROVE  BackedInv'
  BY <1>31, Reconciled, QueueShifts, NoRecordAssumption DEF Ring, counters,
     Present, BackedInv, BaseInv, Needs, RetriedInv, Deleters
<1>32. ASSUME Idle
      PROVE  BackedInv'
  BY <1>32, Reconciled, QueueShifts, NoRecordAssumption DEF Idle, counters,
     memory, Present, BackedInv, BaseInv, Needs, RetriedInv, Deleters
<1>33. ASSUME GuestFails
      PROVE  BackedInv'
  BY <1>33, GuestRunner, Reconciled, QueueShifts, NoRecordAssumption
     DEF GuestFails, memory, BackedInv, BaseInv, Needs, RetriedInv, Deleters,
     QueueInv, ReportInv, DeletingInv
<1>34. CASE UNCHANGED vars
  BY <1>34, Reconciled, QueueShifts, NoRecordAssumption DEF vars, memory,
     counters, BackedInv, BaseInv, Needs, RetriedInv, Deleters
<1> QED
  BY <1>1, <1>2, <1>3, <1>4, <1>5, <1>6, <1>7, <1>8, <1>9, <1>10, <1>11, <1>12,
     <1>13, <1>14, <1>15, <1>16, <1>17, <1>18, <1>19, <1>20, <1>21, <1>22,
     <1>23, <1>24, <1>25, <1>26, <1>27, <1>28, <1>29, <1>30, <1>31, <1>32,
     <1>33, <1>34 DEF Next, Users, Operate, Decide, Deletes, Agent

(* No create is sent behind a deletion, unless it raced.                   *)
LEMMA OrderKept ==
  ASSUME BaseInv, DeletingInv, OrderInv, [Next]_vars
  PROVE  OrderInv'
<1>1. ASSUME Create
      PROVE  OrderInv'
  BY <1>1, FreshRecord DEF Create, counters, OrderInv
<1>2. ASSUME Admit
      PROVE  OrderInv'
  BY <1>2 DEF Admit, Request, Present, OrderInv
<1>3. ASSUME Wake
      PROVE  OrderInv'
  BY <1>3 DEF Wake, Request, Present, OrderInv
<1>4. ASSUME Stop
      PROVE  OrderInv'
  BY <1>4 DEF Stop, Request, Abort, Present, OrderInv
<1>5. ASSUME Delete
      PROVE  OrderInv'
  BY <1>5, RequestsRecord DEF Delete, Abort, Present, OrderInv
<1>6. ASSUME NEW recovery \in Recoveries, Retry(recovery)
      PROVE  OrderInv'
  BY <1>6, RequestsRecord DEF Retry, Request, Present, OrderInv
<1>7. ASSUME Skip
      PROVE  OrderInv'
  <2>1. Finishes
    BY <1>7, SetupFinishes DEF BaseInv
  <2> QED
    BY <1>7, <2>1 DEF Finishes, Skip, counters, OrderInv
<1>8. ASSUME BeginSetup
      PROVE  OrderInv'
  BY <1>8, SetupRecord DEF BeginSetup, counters, Present, OrderInv
<1>9. ASSUME Credentials
      PROVE  OrderInv'
  <2>1. PICK c \in {"create", "start", "restart"} :
           /\ Send(c, "operation")
           /\ c = "create" => raced' = (raced \/ record.deleting)
           /\ c # "create" => raced' = raced
           /\ record # NoRecord
    BY <1>9 DEF Credentials, Present
  <2>2. /\ Len(wire) \in Nat /\ Len(wire') = Len(wire) + 1
        /\ \A i \in 1..Len(wire) : wire'[i] = wire[i]
        /\ wire'[Len(wire) + 1].call = c
    BY <2>1, WireSent DEF BaseInv
  <2>3. ~raced' /\ c = "create" =>
           \A i \in 1..Len(wire) : wire[i].call # "delete"
    BY <2>1 DEF DeletingInv
  <2>4. ~raced' => ~raced
    BY <2>1
  <2>5. \A i \in 1..Len(wire') : i \in 1..Len(wire) \/ i = Len(wire) + 1
    BY <2>2
  <2> QED
    BY <2>2, <2>3, <2>4, <2>5 DEF OrderInv
<1>10. ASSUME CredentialsFail
      PROVE  OrderInv'
  <2>1. Finishes
    BY <1>10, SetupFinishes DEF BaseInv
  <2> QED
    BY <1>10, <2>1 DEF Finishes, CredentialsFail, Present, OrderInv
<1>11. ASSUME BeginStop
      PROVE  OrderInv'
  BY <1>11 DEF BeginStop, counters, OrderInv
<1>12. ASSUME Refreshed
      PROVE  OrderInv'
  <2>1. Send("stop", "operation")
    BY <1>12 DEF Refreshed
  <2>2. /\ Len(wire) \in Nat /\ Len(wire') = Len(wire) + 1
        /\ \A i \in 1..Len(wire) : wire'[i] = wire[i]
        /\ wire'[Len(wire) + 1].call = "stop"
    BY <2>1, WireSent DEF BaseInv
  <2> QED
    BY <1>12, <2>2 DEF Refreshed, OrderInv
<1>13. ASSUME Resume
      PROVE  OrderInv'
  <2>1. Finishes
    BY <1>13, SetupFinishes DEF BaseInv
  <2> QED
    BY <1>13, <2>1 DEF Finishes, Resume, counters, OrderInv
<1>14. ASSUME NEW ok \in BOOLEAN, Clear(ok)
      PROVE  OrderInv'
  <2>1. CASE ok
    BY <1>14, <2>1 DEF Clear, Guest, Faults, OrderInv
  <2>2. CASE ~ok
    <3>1. Finishes
      BY <1>14, <2>2, SetupFinishes DEF BaseInv
    <3> QED
      BY <1>14, <2>2, <3>1 DEF Finishes, Clear, OrderInv
  <2> QED
    BY <2>1, <2>2
<1>15. ASSUME NEW ok \in BOOLEAN, ServeOperation(ok)
      PROVE  OrderInv'
  <2>1. Answers(ok) /\ raced' = raced
    BY <1>15, ServeOperationAnswers DEF BaseInv, ServeOperation
  <2>2. TypeOK /\ wire # <<>> /\ Len(wire) \in Nat \ {0}
    BY <2>1, WireTail DEF Answers, BaseInv
  <2>3. CASE wire' = Tail(wire)
    <3>1. \A i \in 1..Len(wire') : wire'[i] = wire[i + 1] /\ i + 1 \in 1..Len(wire)
      BY <2>2, <2>3, WireTail
    <3> QED
      BY <2>1, <2>2, <2>3, <3>1 DEF OrderInv
  <2>4. CASE wire' = Append(Tail(wire), [call |-> "start", by |-> "operation"])
    <3>1. /\ \A i \in 1..Len(wire') : i < Len(wire) =>
                wire'[i] = wire[i + 1] /\ i + 1 \in 1..Len(wire)
          /\ Len(wire') = Len(wire)
          /\ wire'[Len(wire)].call = "start"
      BY <2>2, <2>4, WireGoesOn
    <3>2. \A i \in 1..Len(wire') : i < Len(wire) \/ wire'[i].call = "start"
      BY <2>2, <3>1
    <3> QED
      BY <2>1, <2>2, <3>1, <3>2 DEF OrderInv
  <2> QED
    BY <2>1, <2>3, <2>4 DEF Answers
<1>16. ASSUME NEW ok \in BOOLEAN, ServeOther(ok)
      PROVE  OrderInv'
  <2>1. wire # <<>> /\ wire' = Tail(wire)
    BY <1>16, OtherAnswers DEF BaseInv
  <2>2. \A i \in 1..Len(wire') : wire'[i] = wire[i + 1] /\ i + 1 \in 1..Len(wire)
    BY <2>1, WireTail DEF BaseInv
  <2> QED
    BY <1>16, <2>2 DEF ServeOther, OrderInv
<1>17. ASSUME NEW outcome \in {"available", "unavailable", "failure"}, Clone(outcome)
      PROVE  OrderInv'
  <2>1. Finishes
    BY <1>17, CloneFinishes DEF BaseInv
  <2> QED
    BY <1>17, <2>1 DEF Finishes, Clone, OrderInv
<1>18. ASSUME Look
      PROVE  OrderInv'
  BY <1>18 DEF Look, counters, OrderInv
<1>19. ASSUME Reconcile
      PROVE  OrderInv'
  BY <1>19 DEF Reconcile, counters, Present, OrderInv
<1>20. ASSUME StopIfIdle
      PROVE  OrderInv'
  BY <1>20 DEF StopIfIdle, MayStop, counters, Present, OrderInv
<1>21. ASSUME NEW d \in Deleters, Drop(d)
      PROVE  OrderInv'
  BY <1>21 DEF Drop, Ended, counters, OrderInv
<1>22. ASSUME NEW d \in Deleters, NEW ok \in BOOLEAN, DeleteMedia(d, ok)
      PROVE  OrderInv'
  <2>1. CASE ok
  <3>1. Send("delete", d)
    BY <1>22, <2>1 DEF DeleteMedia
  <3>2. /\ Len(wire) \in Nat /\ Len(wire') = Len(wire) + 1
        /\ \A i \in 1..Len(wire) : wire'[i] = wire[i]
        /\ wire'[Len(wire) + 1].call = "delete"
    BY <3>1, WireSent DEF BaseInv
  <3> QED
    BY <1>22, <3>2 DEF DeleteMedia, OrderInv
  <2>2. CASE ~ok
    BY <1>22, <2>2 DEF DeleteMedia, OrderInv
  <2> QED
    BY <2>1, <2>2
<1>23. ASSUME NEW d \in Deleters, NEW ok \in BOOLEAN, ServeDeletion(d, ok)
      PROVE  OrderInv'
  <2>1. wire # <<>> /\ wire' = Tail(wire)
    BY <1>23, DeletionAnswers DEF BaseInv
  <2>2. \A i \in 1..Len(wire') : wire'[i] = wire[i + 1] /\ i + 1 \in 1..Len(wire)
    BY <2>1, WireTail DEF BaseInv
  <2> QED
    BY <1>23, <2>2 DEF ServeDeletion, OrderInv
<1>24. ASSUME Submit
      PROVE  OrderInv'
  BY <1>24 DEF Submit, counters, Present, OrderInv
<1>25. ASSUME RunTurn
      PROVE  OrderInv'
  BY <1>25, GuestRunner DEF RunTurn, counters, memory, OrderInv
<1>26. ASSUME EndTurn
      PROVE  OrderInv'
  BY <1>26 DEF EndTurn, counters, OrderInv
<1>27. ASSUME NEW ask, NEW action \in {"start", "stop", "restart"}, AgentControl(ask, action)
      PROVE  OrderInv'
  <2>1. Send(action, "agent")
    BY <1>27 DEF AgentControl
  <2>2. /\ Len(wire) \in Nat /\ Len(wire') = Len(wire) + 1
        /\ \A i \in 1..Len(wire) : wire'[i] = wire[i]
        /\ wire'[Len(wire) + 1].call = action
    BY <2>1, WireSent DEF BaseInv
  <2> QED
    BY <1>27, <2>2 DEF AgentControl, OrderInv
<1>28. ASSUME Evict
      PROVE  OrderInv'
  BY <1>28, WireCut DEF Evict, OrderInv, BaseInv
<1>29. ASSUME Load
      PROVE  OrderInv'
  BY <1>29 DEF Load, counters, OrderInv
<1>30. ASSUME Notice
      PROVE  OrderInv'
  <2>1. /\ runner' = runner
        /\ \/ record # NoRecord /\ runner.env # "absent" /\ Reports
           \/ record' = record /\ (record = NoRecord \/ runner.env = "absent")
    BY <1>30, NoticeReports DEF BaseInv
  <2> QED
    BY <1>30, <2>1 DEF Reports, Notice, counters, Present, OrderInv
<1>31. ASSUME Ring
      PROVE  OrderInv'
  BY <1>31 DEF Ring, counters, Present, OrderInv
<1>32. ASSUME Idle
      PROVE  OrderInv'
  BY <1>32 DEF Idle, counters, memory, Present, OrderInv
<1>33. ASSUME GuestFails
      PROVE  OrderInv'
  BY <1>33, GuestRunner DEF GuestFails, memory, OrderInv
<1>34. CASE UNCHANGED vars
  BY <1>34 DEF vars, memory, counters, OrderInv
<1> QED
  BY <1>1, <1>2, <1>3, <1>4, <1>5, <1>6, <1>7, <1>8, <1>9, <1>10, <1>11, <1>12,
     <1>13, <1>14, <1>15, <1>16, <1>17, <1>18, <1>19, <1>20, <1>21, <1>22,
     <1>23, <1>24, <1>25, <1>26, <1>27, <1>28, <1>29, <1>30, <1>31, <1>32,
     <1>33, <1>34 DEF Next, Users, Operate, Decide, Deletes, Agent

(* What a deletion found is gone, and nothing under way makes it anew.     *)
LEMMA LeftKept ==
  ASSUME BaseInv, DeletingInv, OrderInv, LeftInv, [Next]_vars
  PROVE  LeftInv'
<1>1. ASSUME Create
      PROVE  LeftInv'
  <2>1. runner'.env = "absent" /\ 1..Len(wire') = {}
    BY <1>1 DEF Create, UncreatedInv, BaseInv
  <2> QED
    BY <2>1 DEF LeftInv
<1>2. ASSUME Admit
      PROVE  LeftInv'
  BY <1>2 DEF Admit, Request, Present, LeftInv, Deleted, Deleters
<1>3. ASSUME Wake
      PROVE  LeftInv'
  BY <1>3 DEF Wake, Request, Present, LeftInv, Deleted, Deleters
<1>4. ASSUME Stop
      PROVE  LeftInv'
  BY <1>4 DEF Stop, Request, Abort, Present, LeftInv, Deleted, Deleters
<1>5. ASSUME Delete
      PROVE  LeftInv'
  <2>1. TypeOK /\ record # NoRecord /\ record' # NoRecord /\ "request" \in Deleters
    BY <1>5, RequestsRecord, NoRecordAssumption DEF BaseInv, Deleters
  <2>2. Deleted' => Deleted
    BY <1>5, <2>1, Deletions DEF Delete, Deleted
  <2> QED
    BY <1>5, <2>2 DEF Delete, LeftInv
<1>6. ASSUME NEW recovery \in Recoveries, Retry(recovery)
      PROVE  LeftInv'
  <2>1. record' # NoRecord
    BY <1>6, RequestsRecord, NoRecordAssumption DEF BaseInv
  <2>2. Deleted' => Deleted
    BY <1>6, <2>1 DEF Retry, Deleted
  <2> QED
    BY <1>6, <2>2 DEF Retry, LeftInv
<1>7. ASSUME Skip
      PROVE  LeftInv'
  <2>1. Finishes /\ wire' = wire /\ runner'.env = runner.env /\ raced' = raced
        /\ deletion' = deletion /\ created' = created
    BY <1>7, SetupFinishes DEF Skip, BaseInv
  <2>2. Deleted' => Deleted
    BY <2>1, NoRecordAssumption DEF Deleted, Finishes
  <2> QED
    BY <2>1, <2>2 DEF LeftInv
<1>8. ASSUME BeginSetup
      PROVE  LeftInv'
  <2>1. record' # NoRecord
    BY <1>8, SetupRecord, NoRecordAssumption DEF BaseInv
  <2>2. Deleted' => Deleted
    BY <1>8, <2>1 DEF BeginSetup, Deleted
  <2> QED
    BY <1>8, <2>2 DEF BeginSetup, LeftInv
<1>9. ASSUME Credentials
      PROVE  LeftInv'
  <2>1. PICK c \in {"create", "start", "restart"} :
           /\ Send(c, "operation")
           /\ c = "create" => raced' = (raced \/ record.deleting)
           /\ c # "create" => raced' = raced
           /\ record # NoRecord
    BY <1>9 DEF Credentials, Present
  <2>2. /\ Len(wire) \in Nat /\ Len(wire') = Len(wire) + 1
        /\ \A i \in 1..Len(wire) : wire'[i] = wire[i]
        /\ wire'[Len(wire) + 1].call = c
    BY <2>1, WireSent DEF BaseInv
  <2>3. record' = record /\ deletion' = deletion /\ runner' = runner /\ created' = created
    BY <1>9 DEF Credentials
  <2>4. Deleted' => Deleted
    BY <2>3 DEF Deleted
  <2>5. ~raced' /\ c = "create" => ~Deleted
    BY <2>1 DEF DeletingInv, Deleted
  <2>6. ~raced' => ~raced
    BY <2>1
  <2>7. \A i \in 1..Len(wire') : i \in 1..Len(wire) \/ i = Len(wire) + 1
    BY <2>2
  <2> QED
    BY <2>2, <2>3, <2>4, <2>5, <2>6, <2>7 DEF LeftInv
<1>10. ASSUME CredentialsFail
      PROVE  LeftInv'
  <2>1. Finishes /\ wire' = wire /\ runner'.env = runner.env /\ raced' = raced
        /\ deletion' = deletion /\ created' = created
    BY <1>10, SetupFinishes DEF CredentialsFail, BaseInv
  <2>2. Deleted' => Deleted
    BY <2>1, NoRecordAssumption DEF Deleted, Finishes
  <2> QED
    BY <2>1, <2>2 DEF LeftInv
<1>11. ASSUME BeginStop
      PROVE  LeftInv'
  BY <1>11 DEF BeginStop, counters, LeftInv, Deleted, Deleters
<1>12. ASSUME Refreshed
      PROVE  LeftInv'
  <2>1. Send("stop", "operation")
    BY <1>12 DEF Refreshed
  <2>2. /\ Len(wire) \in Nat /\ Len(wire') = Len(wire) + 1
        /\ \A i \in 1..Len(wire) : wire'[i] = wire[i]
        /\ wire'[Len(wire) + 1].call = "stop"
    BY <2>1, WireSent DEF BaseInv
  <2> QED
    BY <1>12, <2>2 DEF Refreshed, memory, LeftInv, Deleted, Deleters
<1>13. ASSUME Resume
      PROVE  LeftInv'
  <2>1. Finishes /\ wire' = wire /\ runner'.env = runner.env /\ raced' = raced
        /\ deletion' = deletion /\ created' = created
    BY <1>13, SetupFinishes DEF Resume, BaseInv
  <2>2. Deleted' => Deleted
    BY <2>1, NoRecordAssumption DEF Deleted, Finishes
  <2> QED
    BY <2>1, <2>2 DEF LeftInv
<1>14. ASSUME NEW ok \in BOOLEAN, Clear(ok)
      PROVE  LeftInv'
  <2>1. wire' = wire /\ runner'.env = runner.env /\ raced' = raced
        /\ deletion' = deletion /\ created' = created
    BY <1>14, GuestRunner DEF Clear, BaseInv
  <2>2. record' # NoRecord \/ record = NoRecord
    <3>1. ~ok => Finishes
      BY <1>14, SetupFinishes DEF BaseInv
    <3>2. ok => record' = record
      BY <1>14 DEF Clear
    <3> QED
      BY <3>1, <3>2, NoRecordAssumption DEF Finishes
  <2>3. Deleted' => Deleted
    BY <2>1, <2>2 DEF Deleted
  <2> QED
    BY <2>1, <2>3 DEF LeftInv
<1>15. ASSUME NEW ok \in BOOLEAN, ServeOperation(ok)
      PROVE  LeftInv'
  <2>1. Answers(ok) /\ raced' = raced /\ deletion' = deletion /\ created' = created
    BY <1>15, ServeOperationAnswers DEF BaseInv, ServeOperation
  <2>2. TypeOK /\ wire # <<>> /\ Head(wire) = wire[1] /\ 1 \in 1..Len(wire)
    BY <2>1, WireTail DEF Answers, BaseInv
  <2>3. record = NoRecord <=> record' = NoRecord
    BY <2>1, NoRecordAssumption DEF Answers, Finishes, Reports
  <2>4. Deleted' => Deleted
    BY <2>1, <2>3 DEF Deleted
  <2>5. ~raced /\ Deleted => runner'.env = "absent"
    BY <2>1, <2>2 DEF Answers, Serves, LeftInv
  <2>6. CASE wire' = Tail(wire)
    <3>1. \A i \in 1..Len(wire') : wire'[i] = wire[i + 1] /\ i + 1 \in 1..Len(wire)
      BY <2>2, <2>6, WireTail
    <3> QED
      BY <2>1, <2>4, <2>5, <3>1 DEF LeftInv
  <2>7. CASE wire' = Append(Tail(wire), [call |-> "start", by |-> "operation"])
    <3>1. /\ \A i \in 1..Len(wire') : i < Len(wire) =>
                wire'[i] = wire[i + 1] /\ i + 1 \in 1..Len(wire)
          /\ Len(wire') = Len(wire) /\ Len(wire) \in Nat
          /\ wire'[Len(wire)].call = "start"
      BY <2>2, <2>7, WireGoesOn
    <3>2. \A i \in 1..Len(wire') : i < Len(wire) \/ wire'[i].call = "start"
      BY <3>1
    <3> QED
      BY <2>1, <2>4, <2>5, <3>1, <3>2 DEF LeftInv
  <2> QED
    BY <2>1, <2>6, <2>7 DEF Answers
<1>16. ASSUME NEW ok \in BOOLEAN, ServeOther(ok)
      PROVE  LeftInv'
  <2>1. /\ wire # <<>> /\ wire' = Tail(wire)
        /\ Serves(Head(wire).call, ok)
        /\ record = NoRecord <=> record' = NoRecord
    BY <1>16, OtherAnswers, NoRecordAssumption DEF BaseInv, Reports
  <2>2. /\ Head(wire) = wire[1] /\ 1 \in 1..Len(wire)
        /\ \A i \in 1..Len(wire') : wire'[i] = wire[i + 1] /\ i + 1 \in 1..Len(wire)
    BY <2>1, WireTail DEF BaseInv
  <2>3. Deleted' => Deleted
    BY <1>16, <2>1 DEF ServeOther, memory, Deleted
  <2>4. raced' = raced
    BY <1>16 DEF ServeOther
  <2> QED
    BY <2>1, <2>2, <2>3, <2>4 DEF Serves, LeftInv
<1>17. ASSUME NEW outcome \in {"available", "unavailable", "failure"}, Clone(outcome)
      PROVE  LeftInv'
  <2>1. Finishes /\ wire' = wire /\ runner'.env = runner.env /\ raced' = raced
        /\ deletion' = deletion /\ created' = created
    BY <1>17, CloneFinishes, GuestRunner DEF Clone, BaseInv
  <2>2. Deleted' => Deleted
    BY <2>1, NoRecordAssumption DEF Deleted, Finishes
  <2> QED
    BY <2>1, <2>2 DEF LeftInv
<1>18. ASSUME Look
      PROVE  LeftInv'
  BY <1>18 DEF Look, counters, LeftInv, Deleted, Deleters
<1>19. ASSUME Reconcile
      PROVE  LeftInv'
  BY <1>19 DEF Reconcile, counters, Present, LeftInv, Deleted, Deleters
<1>20. ASSUME StopIfIdle
      PROVE  LeftInv'
  BY <1>20 DEF StopIfIdle, MayStop, counters, Present, LeftInv, Deleted,
     Deleters
<1>21. ASSUME NEW d \in Deleters, Drop(d)
      PROVE  LeftInv'
  <2>1. Deleted /\ runner' = runner /\ raced' = raced /\ wire' = wire
    BY <1>21 DEF Drop, Deleted
  <2> QED
    BY <2>1 DEF LeftInv
<1>22. ASSUME NEW d \in Deleters, NEW ok \in BOOLEAN, DeleteMedia(d, ok)
      PROVE  LeftInv'
  <2>1. TypeOK /\ Deleted' => Deleted
    BY <1>22, Deletions DEF DeleteMedia, Postpone, Deleted, BaseInv
  <2>2. TypeOK /\ runner' = runner /\ raced' = raced
    BY <1>22 DEF DeleteMedia, BaseInv
  <2>3. CASE ok
    <3>1. Send("delete", d)
      BY <1>22, <2>3 DEF DeleteMedia
    <3>2. /\ Len(wire) \in Nat /\ Len(wire') = Len(wire) + 1
          /\ \A i \in 1..Len(wire) : wire'[i] = wire[i]
          /\ wire'[Len(wire) + 1].call = "delete"
      BY <3>1, WireSent DEF BaseInv
    <3> QED
      BY <2>1, <2>2, <3>2 DEF LeftInv
  <2>4. CASE ~ok
    BY <1>22, <2>1, <2>2, <2>4 DEF DeleteMedia, LeftInv
  <2> QED
    BY <2>3, <2>4
<1>23. ASSUME NEW d \in Deleters, NEW ok \in BOOLEAN, ServeDeletion(d, ok)
      PROVE  LeftInv'
  <2>1. /\ wire # <<>> /\ wire' = Tail(wire) /\ Head(wire).call = "delete"
        /\ Serves("delete", ok)
    BY <1>23, DeletionAnswers DEF BaseInv
  <2>2. /\ 1 \in 1..Len(wire) /\ wire[1].call = "delete"
        /\ \A i \in 1..Len(wire') :
              wire'[i] = wire[i + 1] /\ i + 1 \in 1..Len(wire) /\ 1 < i + 1
    BY <2>1, WireTail DEF BaseInv
  <2>3. ~raced => \A i \in 1..Len(wire') : wire'[i].call # "create"
    BY <2>2 DEF OrderInv
  <2>4. raced' = raced /\ record' = record /\ created' = created
    BY <1>23 DEF ServeDeletion
  <2>5. CASE ok
    BY <2>1, <2>3, <2>4, <2>5 DEF Serves, LeftInv
  <2>6. CASE ~ok
    <3>1. TypeOK /\ deletion' = [deletion EXCEPT ![d] = "none"]
      BY <1>23, <2>6 DEF ServeDeletion, Postpone, BaseInv
    <3>2. Deleted' => Deleted
      BY <2>4, <3>1, Deletions DEF Deleted
    <3> QED
      BY <2>1, <2>3, <2>4, <3>2 DEF Serves, LeftInv
  <2> QED
    BY <2>5, <2>6
<1>24. ASSUME Submit
      PROVE  LeftInv'
  BY <1>24 DEF Submit, counters, Present, LeftInv, Deleted, Deleters
<1>25. ASSUME RunTurn
      PROVE  LeftInv'
  BY <1>25, GuestRunner DEF RunTurn, memory, LeftInv, Deleted, BaseInv
<1>26. ASSUME EndTurn
      PROVE  LeftInv'
  BY <1>26 DEF EndTurn, counters, LeftInv, Deleted, Deleters
<1>27. ASSUME NEW ask, NEW action \in {"start", "stop", "restart"}, AgentControl(ask, action)
      PROVE  LeftInv'
  <2>1. Send(action, "agent")
    BY <1>27 DEF AgentControl
  <2>2. /\ Len(wire) \in Nat /\ Len(wire') = Len(wire) + 1
        /\ \A i \in 1..Len(wire) : wire'[i] = wire[i]
        /\ wire'[Len(wire) + 1].call = action
    BY <2>1, WireSent DEF BaseInv
  <2> QED
    BY <1>27, <2>2 DEF AgentControl, memory, LeftInv, Deleted, Deleters
<1>28. ASSUME Evict
      PROVE  LeftInv'
  <2>1. Deleted' => Deleted
    BY <1>28 DEF Evict, Deleted, Deleters
  <2> QED
    BY <1>28, <2>1, WireCut DEF Evict, LeftInv, BaseInv
<1>29. ASSUME Load
      PROVE  LeftInv'
  BY <1>29 DEF Load, LeftInv, Deleted
<1>30. ASSUME Notice
      PROVE  LeftInv'
  <2>1. runner' = runner /\ (record = NoRecord \/ record' # NoRecord)
    BY <1>30, NoticeReports, NoRecordAssumption DEF BaseInv, Reports
  <2>2. Deleted' => Deleted
    BY <1>30, <2>1 DEF Notice, Deleted
  <2> QED
    BY <1>30, <2>1, <2>2 DEF Notice, LeftInv
<1>31. ASSUME Ring
      PROVE  LeftInv'
  <2>1. TypeOK /\ "alarm" \in Deleters
    BY DEF BaseInv, Deleters
  <2>2. /\ record' = record /\ created' = created
        /\ deletion' = deletion \/ deletion' = [deletion EXCEPT !["alarm"] = "media"]
    BY <1>31 DEF Ring
  <2>3. \A e \in Deleters : deletion'[e] = "answered" => deletion[e] = "answered"
    BY <2>1, <2>2, Deletions
  <2>4. Deleted' => Deleted
    BY <2>2, <2>3 DEF Deleted
  <2> QED
    BY <1>31, <2>4 DEF Ring, LeftInv
<1>32. ASSUME Idle
      PROVE  LeftInv'
  BY <1>32 DEF Idle, counters, memory, Present, LeftInv, Deleted, Deleters
<1>33. ASSUME GuestFails
      PROVE  LeftInv'
  BY <1>33, GuestRunner DEF GuestFails, memory, LeftInv, Deleted, BaseInv
<1>34. CASE UNCHANGED vars
  BY <1>34 DEF vars, memory, counters, LeftInv, Deleted, Deleters
<1> QED
  BY <1>1, <1>2, <1>3, <1>4, <1>5, <1>6, <1>7, <1>8, <1>9, <1>10, <1>11, <1>12,
     <1>13, <1>14, <1>15, <1>16, <1>17, <1>18, <1>19, <1>20, <1>21, <1>22,
     <1>23, <1>24, <1>25, <1>26, <1>27, <1>28, <1>29, <1>30, <1>31, <1>32,
     <1>33, <1>34 DEF Next, Users, Operate, Decide, Deletes, Agent

(* The end of an operation leaves no provisioning queued.                  *)
LEMMA FinishedProvision ==
  ASSUME BaseInv, ProvisionInv, Finishes
  PROVE  ProvisionInv'
<1>1. queue # <<>> /\ queue' = Tail(queue) /\ pc' = "idle"
  BY DEF Finishes
<1>2. \A i \in 1..Len(queue') :
         queue'[i] = queue[i + 1] /\ i + 1 \in 1..Len(queue) /\ i + 1 # 1
  BY <1>1, Shorter
<1>3. record' # NoRecord =>
         /\ record # NoRecord
         /\ \/ record'.operation = "none"
            \/ /\ record'.operation = record.operation
               /\ record'.checkout = record.checkout
  BY DEF Finishes
<1>4. record' # NoRecord => \A i \in 1..Len(queue') : queue'[i] # "provision"
  BY <1>2, <1>3 DEF ProvisionInv
<1> QED
  BY <1>1, <1>3, <1>4 DEF ProvisionInv

(* Only a pending checkout is provisioned, unless a user repeats the       *)
(* provisioning.                                                           *)
LEMMA ProvisionKept ==
  ASSUME "retry-provisioning" \notin Asks, BaseInv, ProvisionInv, [Next]_vars
  PROVE  ProvisionInv'
<1>1. ASSUME Create
      PROVE  ProvisionInv'
  <2>1. \/ record' = record /\ queue' = queue /\ pc' = pc
        \/ record' = Fresh /\ queue' = <<"provision", "admit">> /\ pc' = "idle"
    BY <1>1 DEF Create, UncreatedInv, BaseInv
  <2>2. CASE record' = record /\ queue' = queue /\ pc' = pc
    BY <2>2 DEF ProvisionInv
  <2>3. CASE record' = Fresh /\ queue' = <<"provision", "admit">> /\ pc' = "idle"
    <3>1. Len(queue') = 2 /\ queue'[2] = "admit"
      BY <2>3
    <3>2. \A i \in 1..Len(queue') : i = 1 \/ queue'[i] = "admit"
      BY <3>1
    <3> QED
      BY <2>3, <3>2, FreshRecord DEF ProvisionInv
  <2> QED
    BY <2>1, <2>2, <2>3
<1>2. ASSUME Admit
      PROVE  ProvisionInv'
  <2>1. "admit" \in Operations /\ queue' = Append(queue, "admit") /\ record' = record /\ pc' = pc
    BY <1>2 DEF Admit, Request, Operations
  <2>2. \A i \in 1..Len(queue') : (i \in 1..Len(queue) /\ queue'[i] = queue[i]) \/ queue'[i] = "admit"
    BY <2>1, Longer
  <2> QED
    BY <2>1, <2>2 DEF ProvisionInv
<1>3. ASSUME Wake
      PROVE  ProvisionInv'
  <2>1. "start" \in Operations /\ queue' = Append(queue, "start") /\ record' = record /\ pc' = pc
    BY <1>3 DEF Wake, Request, Operations
  <2>2. \A i \in 1..Len(queue') : (i \in 1..Len(queue) /\ queue'[i] = queue[i]) \/ queue'[i] = "start"
    BY <2>1, Longer
  <2> QED
    BY <2>1, <2>2 DEF ProvisionInv
<1>4. ASSUME Stop
      PROVE  ProvisionInv'
  <2>1. /\ "stop" \in Operations /\ record' = record /\ pc' = pc
        /\ queue' = queue \/ queue' = Append(queue, "stop")
    BY <1>4 DEF Stop, Operations
  <2>2. CASE queue' = queue
    BY <2>1, <2>2 DEF ProvisionInv
  <2>3. CASE queue' = Append(queue, "stop")
    <3>1. \A i \in 1..Len(queue') : (i \in 1..Len(queue) /\ queue'[i] = queue[i]) \/ queue'[i] = "stop"
      BY <2>1, <2>3, Longer
    <3> QED
      BY <2>1, <3>1 DEF ProvisionInv
  <2> QED
    BY <2>1, <2>2, <2>3
<1>5. ASSUME Delete
      PROVE  ProvisionInv'
  BY <1>5, RequestsRecord, NoRecordAssumption DEF Delete, Abort, Present,
     ProvisionInv
<1>6. ASSUME NEW recovery \in Recoveries, Retry(recovery)
      PROVE  ProvisionInv'
  <2>1. recovery # "retry-provisioning"
    BY <1>6 DEF Retry, Request
  <2>2. /\ "restart" \in Operations /\ queue' = Append(queue, "restart") /\ pc' = pc
    BY <1>6, <2>1 DEF Retry, Operations
  <2>3. \A i \in 1..Len(queue') : (i \in 1..Len(queue) /\ queue'[i] = queue[i]) \/ queue'[i] = "restart"
    BY <2>2, Longer
  <2>4. /\ record # NoRecord
        /\ record'.checkout = record.checkout /\ record'.operation = record.operation
    BY <1>6, RequestsRecord DEF BaseInv
  <2> QED
    BY <2>2, <2>3, <2>4 DEF ProvisionInv
<1>7. ASSUME Skip
      PROVE  ProvisionInv'
  <2>1. Finishes
    BY <1>7, SetupFinishes DEF BaseInv
  <2> QED
    BY <2>1, FinishedProvision
<1>8. ASSUME BeginSetup
      PROVE  ProvisionInv'
  <2>1. queue # <<>> /\ queue' = queue /\ pc' = "credentials"
    BY <1>8 DEF BeginSetup
  <2>2. Head(queue) = queue[1] /\ 1 \in 1..Len(queue)
    BY <2>1, QueueShifts
  <2>3. /\ record # NoRecord /\ record'.checkout = record.checkout
        /\ record'.operation =
              IF Head(queue) = "provision" \/ record.checkout = "pending"
              THEN "provisioning" ELSE "resuming"
    BY <1>8, SetupRecord DEF BaseInv
  <2> QED
    BY <2>1, <2>2, <2>3 DEF ProvisionInv
<1>9. ASSUME Credentials
      PROVE  ProvisionInv'
  BY <1>9, NoRecordAssumption DEF Credentials, Send, counters, Present,
     ProvisionInv
<1>10. ASSUME CredentialsFail
      PROVE  ProvisionInv'
  <2>1. Finishes
    BY <1>10, SetupFinishes DEF BaseInv
  <2> QED
    BY <2>1, FinishedProvision
<1>11. ASSUME BeginStop
      PROVE  ProvisionInv'
  BY <1>11, NoRecordAssumption DEF BeginStop, counters, ProvisionInv
<1>12. ASSUME Refreshed
      PROVE  ProvisionInv'
  BY <1>12, NoRecordAssumption DEF Refreshed, Send, counters, ProvisionInv
<1>13. ASSUME Resume
      PROVE  ProvisionInv'
  <2>1. Finishes
    BY <1>13, SetupFinishes DEF BaseInv
  <2> QED
    BY <2>1, FinishedProvision
<1>14. ASSUME NEW ok \in BOOLEAN, Clear(ok)
      PROVE  ProvisionInv'
  <2>1. CASE ok
    BY <1>14, <2>1 DEF Clear, ProvisionInv
  <2>2. CASE ~ok
    <3>1. Finishes
      BY <1>14, <2>2, SetupFinishes DEF BaseInv
    <3> QED
      BY <3>1, FinishedProvision
  <2> QED
    BY <2>1, <2>2
<1>15. ASSUME NEW ok \in BOOLEAN, ServeOperation(ok)
      PROVE  ProvisionInv'
  <2>1. Answers(ok)
    BY <1>15, ServeOperationAnswers DEF BaseInv
  <2>2. CASE Finishes
    BY <2>2, FinishedProvision
  <2>3. CASE ~Finishes
    BY <2>1, <2>3, NoRecordAssumption DEF Answers, Reports, ProvisionInv
  <2> QED
    BY <2>2, <2>3
<1>16. ASSUME NEW ok \in BOOLEAN, ServeOther(ok)
      PROVE  ProvisionInv'
  <2>1. /\ wire # <<>> /\ wire' = Tail(wire)
        /\ Head(wire).by \in {"agent", "nobody"}
        /\ Serves(Head(wire).call, ok)
        /\ \/ record' = record
           \/ Head(wire).by = "agent" /\ Head(wire).call # "delete" /\ Reports
    BY <1>16, OtherAnswers DEF BaseInv
  <2> QED
    BY <1>16, <2>1, NoRecordAssumption DEF Reports, Serves, ServeOther, memory,
       ProvisionInv
<1>17. ASSUME NEW outcome \in {"available", "unavailable", "failure"}, Clone(outcome)
      PROVE  ProvisionInv'
  <2>1. Finishes
    BY <1>17, CloneFinishes DEF BaseInv
  <2> QED
    BY <2>1, FinishedProvision
<1>18. ASSUME Look
      PROVE  ProvisionInv'
  BY <1>18, NoRecordAssumption DEF Look, counters, ProvisionInv
<1>19. ASSUME Reconcile
      PROVE  ProvisionInv'
  BY <1>19, NoRecordAssumption DEF Reconcile, counters, Present, ProvisionInv
<1>20. ASSUME StopIfIdle
      PROVE  ProvisionInv'
  <2>1. /\ "idle stop" \in Operations /\ record' = record /\ pc' = pc
        /\ queue' = queue \/ queue' = Append(queue, "idle stop")
    BY <1>20 DEF StopIfIdle, Operations
  <2>2. CASE queue' = queue
    BY <2>1, <2>2 DEF ProvisionInv
  <2>3. CASE queue' = Append(queue, "idle stop")
    <3>1. \A i \in 1..Len(queue') : (i \in 1..Len(queue) /\ queue'[i] = queue[i]) \/ queue'[i] = "idle stop"
      BY <2>1, <2>3, Longer
    <3> QED
      BY <2>1, <3>1 DEF ProvisionInv
  <2> QED
    BY <2>1, <2>2, <2>3
<1>21. ASSUME NEW d \in Deleters, Drop(d)
      PROVE  ProvisionInv'
  BY <1>21, NoRecordAssumption DEF Drop, Ended, counters, ProvisionInv
<1>22. ASSUME NEW d \in Deleters, NEW ok \in BOOLEAN, DeleteMedia(d, ok)
      PROVE  ProvisionInv'
  BY <1>22, NoRecordAssumption DEF DeleteMedia, Send, Faults, Postpone, Ended,
     ProvisionInv
<1>23. ASSUME NEW d \in Deleters, NEW ok \in BOOLEAN, ServeDeletion(d, ok)
      PROVE  ProvisionInv'
  <2>1. /\ wire # <<>> /\ wire' = Tail(wire)
        /\ Head(wire).by = d /\ Head(wire).call = "delete"
        /\ Serves("delete", ok)
    BY <1>23, DeletionAnswers DEF BaseInv
  <2> QED
    BY <1>23, <2>1, NoRecordAssumption DEF Serves, ServeDeletion, Postpone,
       Ended, ProvisionInv
<1>24. ASSUME Submit
      PROVE  ProvisionInv'
  BY <1>24, NoRecordAssumption DEF Submit, counters, Present, ProvisionInv
<1>25. ASSUME RunTurn
      PROVE  ProvisionInv'
  BY <1>25, GuestRunner, NoRecordAssumption DEF RunTurn, counters, memory,
     ProvisionInv
<1>26. ASSUME EndTurn
      PROVE  ProvisionInv'
  BY <1>26, NoRecordAssumption DEF EndTurn, counters, ProvisionInv
<1>27. ASSUME NEW ask, NEW action \in {"start", "stop", "restart"}, AgentControl(ask, action)
      PROVE  ProvisionInv'
  BY <1>27, NoRecordAssumption DEF AgentControl, Send, memory, ProvisionInv
<1>28. ASSUME Evict
      PROVE  ProvisionInv'
  <2>1. queue' = <<>> /\ pc' = "idle" /\ record' = record
    BY <1>28 DEF Evict
  <2>2. 1..Len(queue') = {}
    BY <2>1
  <2> QED
    BY <2>1, <2>2 DEF ProvisionInv
<1>29. ASSUME Load
      PROVE  ProvisionInv'
  <2>1. record' = record /\ pc' = "idle"
    BY <1>29 DEF Load, AsleepInv, BaseInv
  <2>2. CASE record.operation = "provisioning"
    <3>1. queue' = <<"provision">>
      BY <1>29, <2>2 DEF Load
    <3>2. \A i \in 1..Len(queue') : i = 1
      BY <3>1
    <3> QED
      BY <2>1, <2>2, <3>2 DEF ProvisionInv
  <2>3. CASE record.operation # "provisioning"
    <3>1. queue' \in {<<"start">>, <<>>}
      BY <1>29, <2>3 DEF Load
    <3>2. \A i \in 1..Len(queue') : queue'[i] # "provision"
      BY <3>1
    <3> QED
      BY <2>1, <2>3, <3>2 DEF ProvisionInv
  <2> QED
    BY <2>2, <2>3
<1>30. ASSUME Notice
      PROVE  ProvisionInv'
  <2>1. /\ runner' = runner
        /\ \/ record # NoRecord /\ runner.env # "absent" /\ Reports
           \/ record' = record /\ (record = NoRecord \/ runner.env = "absent")
    BY <1>30, NoticeReports DEF BaseInv
  <2> QED
    BY <1>30, <2>1, NoRecordAssumption DEF Reports, Notice, counters, Present,
       ProvisionInv
<1>31. ASSUME Ring
      PROVE  ProvisionInv'
  BY <1>31, NoRecordAssumption DEF Ring, counters, Present, ProvisionInv
<1>32. ASSUME Idle
      PROVE  ProvisionInv'
  BY <1>32, NoRecordAssumption DEF Idle, counters, memory, Present, ProvisionInv
<1>33. ASSUME GuestFails
      PROVE  ProvisionInv'
  BY <1>33, GuestRunner, NoRecordAssumption DEF GuestFails, memory, ProvisionInv
<1>34. CASE UNCHANGED vars
  BY <1>34, NoRecordAssumption DEF vars, memory, counters, ProvisionInv
<1> QED
  BY <1>1, <1>2, <1>3, <1>4, <1>5, <1>6, <1>7, <1>8, <1>9, <1>10, <1>11, <1>12,
     <1>13, <1>14, <1>15, <1>16, <1>17, <1>18, <1>19, <1>20, <1>21, <1>22,
     <1>23, <1>24, <1>25, <1>26, <1>27, <1>28, <1>29, <1>30, <1>31, <1>32,
     <1>33, <1>34 DEF Next, Users, Operate, Decide, Deletes, Agent

-----------------------------------------------------------------------------
(* The invariant.                                                          *)

SessionInv ==
    /\ BaseInv
    /\ QuietInv /\ SparesInv
    /\ RetriedInv /\ DeletingInv /\ ReportInv /\ LookInv /\ BackedInv
    /\ OrderInv /\ LeftInv

(* The invariant holds at the start.                                       *)
LEMMA SessionInitial ==
  Init => SessionInv
<1> SUFFICES ASSUME Init PROVE SessionInv
  OBVIOUS
<1>1. BaseInv
  BY BaseInitial
<1>2. QuietInv /\ SparesInv /\ LookInv
  BY DEF Init, QuietInv, SparesInv, LookInv
<1>3. RetriedInv /\ DeletingInv /\ ReportInv /\ BackedInv
  BY DEF Init, RetriedInv, DeletingInv, ReportInv, BackedInv
<1>4. OrderInv /\ LeftInv
  BY DEF Init, OrderInv, LeftInv, Deleted
<1> QED
  BY <1>1, <1>2, <1>3, <1>4 DEF SessionInv

(* Every step keeps it.                                                    *)
LEMMA SessionInductive ==
  SessionInv /\ [Next]_vars => SessionInv'
<1> SUFFICES ASSUME SessionInv, [Next]_vars PROVE SessionInv'
  OBVIOUS
<1>1. BaseInv'
  BY BaseInductive DEF SessionInv
<1>2. QuietInv' /\ SparesInv'
  BY QuietKept, SparesKept DEF SessionInv
<1>3. RetriedInv' /\ DeletingInv' /\ ReportInv' /\ LookInv'
  BY RetriedKept, DeletingKept, ReportKept, LookKept DEF SessionInv
<1>4. BackedInv'
  BY <1>3, BackedKept DEF SessionInv
<1>5. OrderInv' /\ LeftInv'
  BY OrderKept, LeftKept DEF SessionInv
<1> QED
  BY <1>1, <1>2, <1>3, <1>4, <1>5 DEF SessionInv

(* It holds in every behaviour.                                            *)
LEMMA SessionAlways ==
  Spec => []SessionInv
BY SessionInitial, SessionInductive, PTL DEF Spec

(* Every variable keeps the type the code gives it.                        *)
THEOREM TypeCorrect ==
  Spec => []TypeOK
<1>1. SessionInv => TypeOK
  BY DEF SessionInv, BaseInv
<1> QED
  BY <1>1, SessionAlways, PTL

(* While the object is in memory, a Session with a turn, a setup or a      *)
(* deletion to finish, or an environment to stop, has its alarm set or     *)
(* something under way that sets it (#reconcile, alarm, #finishDeletion),  *)
(* for any number of requests, evictions and faults before.                *)
THEOREM UnfinishedWakes ==
  Spec => []Backed
<1>1. SessionInv => Backed
  BY DEF SessionInv, BackedInv, Backed, Pending, Present
<1> QED
  BY <1>1, SessionAlways, PTL

(* The stop that the alarm queues for an idle environment (#stopIfIdle) is *)
(* never queued under a run of the agent.                                  *)
THEOREM StopsSpareRuns ==
  Spec => []IdleStopSparesRuns
<1>1. SessionInv => IdleStopSparesRuns
  <2> SUFFICES ASSUME SessionInv, NEW i \in DOMAIN queue, queue[i] = "idle stop"
               PROVE  turn # "running"
    BY DEF IdleStopSparesRuns
  <2>1. queue \in Seq(Operations)
    BY DEF SessionInv, BaseInv, TypeOK
  <2>2. i \in 1..Len(queue)
    BY <2>1, LenProperties
  <2> QED
    BY <2>2 DEF SessionInv, SparesInv
<1> QED
  BY <1>1, SessionAlways, PTL

(* From the moment #finishDeletion has dropped the record the runner holds *)
(* no environment of the Session, unless a setup that found it being       *)
(* deleted created one.                                                    *)
THEOREM DeletionLeavesNothing ==
  Spec => []GoneLeavesNothing
<1>1. SessionInv => GoneLeavesNothing
  BY DEF SessionInv, LeftInv, Deleted, GoneLeavesNothing, Present
<1> QED
  BY <1>1, SessionAlways, PTL

-----------------------------------------------------------------------------
(* The agent's work.                                                       *)

KeepsWork ==
    /\ Present /\ ~record.deleting
    /\ record.checkout = "available" /\ runner.files = "work"
    => runner'.files = "work"

(* No step touches the work in an available checkout, but those of a       *)
(* deletion.                                                               *)
LEMMA WorkStep ==
  ASSUME BaseInv, DeletingInv, ProvisionInv, [Next]_vars
  PROVE  KeepsWork
<1> SUFFICES ASSUME Present, ~record.deleting,
                    record.checkout = "available", runner.files = "work"
             PROVE  runner'.files = "work"
  BY DEF KeepsWork
<1>1. pc \notin {"clear", "clone"}
  BY DEF ProvisionInv, Present
<1>2. \A i \in 1..Len(wire) : wire[i].call # "delete"
  BY DEF DeletingInv, Present
<1>3. wire # <<>> => Head(wire) = wire[1] /\ 1 \in 1..Len(wire)
  BY WireTail DEF BaseInv
<1>4. runner' = runner => runner'.files = "work"
  OBVIOUS
<1>5. ASSUME NEW ok \in BOOLEAN, ServeOperation(ok)
      PROVE  runner'.files = "work"
  BY <1>5, ServeOperationAnswers DEF BaseInv, Answers, Serves
<1>6. ASSUME NEW ok \in BOOLEAN, ServeOther(ok)
      PROVE  runner'.files = "work"
  BY <1>2, <1>3, <1>6, OtherAnswers DEF BaseInv, Serves
<1>7. ASSUME NEW d \in Deleters, NEW ok \in BOOLEAN, ServeDeletion(d, ok)
      PROVE  FALSE
  BY <1>2, <1>3, <1>7, DeletionAnswers DEF BaseInv
<1>8. ASSUME RunTurn \/ GuestFails
      PROVE  runner'.files = "work"
  BY <1>8, GuestRunner DEF BaseInv
<1>9. CASE Users
  BY <1>4, <1>9 DEF Users, Create, Admit, Wake, Stop, Delete, Retry
<1>10. CASE Operate
  <2>1. \A ok : ~Clear(ok) /\ ~Clone(ok)
    BY <1>1 DEF Clear, Clone
  <2>2. Skip \/ BeginSetup \/ Credentials \/ CredentialsFail \/ BeginStop
           \/ Refreshed \/ Resume => runner' = runner
    BY DEF Skip, BeginSetup, Credentials, CredentialsFail, BeginStop,
       Refreshed, Resume
  <2> QED
    BY <1>4, <1>5, <1>6, <1>10, <2>1, <2>2 DEF Operate
<1>11. CASE Decide
  BY <1>4, <1>11 DEF Decide, Look, Reconcile, StopIfIdle
<1>12. CASE Deletes
  <2>1. \A d, ok : Drop(d) \/ DeleteMedia(d, ok) => runner' = runner
    BY DEF Drop, DeleteMedia
  <2> QED
    BY <1>4, <1>7, <1>12, <2>1 DEF Deletes
<1>13. CASE Agent
  <2>1. \A ask, action : AgentControl(ask, action) => runner' = runner
    BY DEF AgentControl
  <2>2. Submit \/ EndTurn => runner' = runner
    BY DEF Submit, EndTurn
  <2> QED
    BY <1>4, <1>8, <1>13, <2>1, <2>2 DEF Agent
<1>14. CASE Evict \/ Load \/ Notice \/ Ring \/ Idle \/ UNCHANGED vars
  BY <1>4, <1>14 DEF Evict, Load, Notice, Ring, Idle, vars
<1> QED
  BY <1>8, <1>9, <1>10, <1>11, <1>12, <1>13, <1>14 DEF Next

(* Unless a user repeats the provisioning, available checkouts are not     *)
(* provisioned.                                                            *)
LEMMA ProvisionAlways ==
  ASSUME "retry-provisioning" \notin Asks
  PROVE  Spec => []ProvisionInv
<1>1. Init => ProvisionInv
  BY DEF Init, ProvisionInv
<1>2. BaseInv /\ ProvisionInv /\ [Next]_vars => ProvisionInv'
  BY ProvisionKept
<1>3. SessionInv => BaseInv
  BY DEF SessionInv
<1> QED
  BY <1>1, <1>2, <1>3, SessionAlways, PTL DEF Spec

(* The agent's work in an available checkout is lost to nothing but the    *)
(* Session's deletion, unless a user repeats the provisioning, which       *)
(* empties /workspace whatever it holds (provisionCheckout).               *)
THEOREM WorkKept ==
  ASSUME "retry-provisioning" \notin Asks
  PROVE  Spec => WorkIsKept
<1>1. SessionInv /\ ProvisionInv /\ [Next]_vars => [KeepsWork]_vars
  BY WorkStep DEF SessionInv
<1>2. Spec => [][KeepsWork]_vars
  BY <1>1, SessionAlways, ProvisionAlways, PTL DEF Spec
<1> QED
  BY <1>2 DEF WorkIsKept, KeepsWork

=============================================================================
