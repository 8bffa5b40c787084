------------------------ MODULE EnvironmentDiskProofs ------------------------
(***************************************************************************)
(* For every set of sessions, releases and concurrent jobs: a disk fits    *)
(* the runtime recorded for it in whatever a power loss leaves, and what   *)
(* is stored is never replaced.                                            *)
(*                                                                         *)
(* The argument: a job that has read a session's runtime still has it, for *)
(* a runtime is written only where there is none (PinOK); so a disk is     *)
(* published for the runtime in place, and whatever is on storage is a     *)
(* part of what is in the directory (FilesOK).                             *)
(***************************************************************************)
EXTENDS EnvironmentDisk, TLAPS

Pcs == Steps \cup {"idle", "running", "failed"}

(* Where a chain has read its session's runtime.                           *)
Pinned == {"ensure", "download", "commit", "verify", "validate", "running"}
              \cup DiskSteps

(* The steps of a chain that has no session.                               *)
Sessionless == {"idle", "ensure", "download", "commit", "failed"}

PinOK(chain) ==
    /\ chain.s = None => chain.pc \in Sessionless
    /\ chain.s # None /\ chain.pc \in Pinned
          => chain.r # None /\ chain.r = dir[chain.s].runtime
PinsOK == \A j \in Jobs : PinOK(job[j])

(* What of `files` is there is what the directory has.                     *)
Part(files, whole) ==
    /\ files.runtime \in {None, whole.runtime}
    /\ files.disk \in {None, whole.disk}
Fits(files) == files.disk # None => files.runtime = files.disk.backing

FilesOK ==
    \A s \in Sessions :
        /\ dir[s] \in durable[s]
        /\ \A files \in durable[s] : Part(files, dir[s]) /\ Fits(files)

JobsType == job \in [Jobs -> Job]
FilesType == /\ dir \in [Sessions -> Directory]
             /\ durable \in [Sessions -> SUBSET Directory]
RunnerType == /\ up \in BOOLEAN
              /\ catalog \subseteq Releases /\ default \in catalog
              /\ image \in [Releases -> {"absent", "whole", "damaged"}]

CandidatesType == candidates \in [Sessions -> SUBSET (Jobs \cup {Stale})]
IInv == JobsType /\ FilesType /\ RunnerType /\ CandidatesType /\ PinsOK /\ FilesOK

(* The ways a step changes what is in the sessions' directories.           *)
SyncsOne == \E s \in Sessions : Syncs(s) /\ dir' = dir
WritesRuntime ==
    \E s \in Sessions, r \in Releases :
        dir[s].runtime = None /\ Writes(s, [dir[s] EXCEPT !.runtime = r])
WritesDisk ==
    \E s \in Sessions, j \in Jobs :
        /\ dir[s].disk = None /\ dir[s].runtime # None
        /\ Writes(s, [dir[s] EXCEPT !.disk = [backing |-> dir[s].runtime, maker |-> j]])
LosesPower ==
    /\ job' = [j \in Jobs |-> Idle]
    /\ dir' \in [Sessions -> Directory]
    /\ \A s \in Sessions : dir'[s] \in durable[s]
    /\ durable' = [s \in Sessions |-> {dir'[s]}]
FilesChange ==
    \/ UNCHANGED <<dir, durable>>
    \/ SyncsOne \/ WritesRuntime \/ WritesDisk \/ LosesPower
-----------------------------------------------------------------------------
(* How a chain moves. *)

Moves(j) == \E chain \in Job : job' = [job EXCEPT ![j] = chain] /\ PinOK(chain)

(* An idle job is a job, and has no pin to keep.                           *)
LEMMA IdleOK == Idle \in Job /\ PinOK(Idle)
  BY DEF Idle, Job, PinOK, Sessionless

(* Fields of a chain are of their types.                                   *)
LEMMA ChainType ==
  ASSUME NEW chain \in Job
  PROVE  /\ chain.pc \in Pcs /\ chain.s \in Sessions \cup {None}
         /\ chain.r \in Releases \cup {None}
         /\ chain.phase \in {"none", "start", "doctor", "init", "make"}
         /\ chain.seen \in SUBSET (Jobs \cup {Stale})
         /\ chain.left \in BOOLEAN /\ chain.clean \in BOOLEAN
  BY DEF Job, Pcs

(* A chain that goes to a step at which its pin is good stays good, and so *)
(* does one that nobody waits for, which ends.                             *)
LEMMA GoesMoves ==
  ASSUME JobsType, NEW j \in Jobs, NEW chain \in Job, NEW pc \in Pcs,
         \/ job' = [job EXCEPT ![j] = [chain EXCEPT !.pc = pc]]
         \/ job' = [job EXCEPT ![j] = Resolved(chain, pc)],
         chain.s = None => pc \in Sessionless,
         chain.s # None /\ pc \in Pinned
             => chain.r # None /\ chain.r = dir[chain.s].runtime
  PROVE  Moves(j)
<1> DEFINE gone == [chain EXCEPT !.pc = pc]
<1>1. gone \in Job
  BY DEF Job, Pcs
<1>2. gone.s = chain.s /\ gone.r = chain.r /\ gone.pc = pc
  BY DEF Job
<1>3. PinOK(gone)
  BY <1>2 DEF PinOK
<1>4. Resolved(chain, pc) \in {Idle, gone}
  BY DEF Resolved
<1> QED
  BY <1>1, <1>3, <1>4, IdleOK DEF Moves

LEMMA RejectsMoves ==
  ASSUME JobsType, NEW j \in Jobs, Rejects(j)
  PROVE  Moves(j)
<1>1. job[j] \in Job /\ "failed" \in Pcs /\ "failed" \in Sessionless /\ "failed" \notin Pinned
  BY DEF JobsType, Pcs, Sessionless, Pinned, DiskSteps
<1> QED
  BY <1>1, GoesMoves DEF Rejects, Resolves

(* A boot has its pin from the runtime recorded.                           *)
LEMMA ReadPinMoves ==
  ASSUME IInv, NEW j \in Jobs, ReadPin(j)
  PROVE  Moves(j)
<1> DEFINE pin == dir[job[j].s].runtime
           pinned == [job[j] EXCEPT !.r = pin]
<1>1. job[j] \in Job /\ job[j].s # None
  BY DEF IInv, JobsType, PinsOK, PinOK, ReadPin, Sessionless
<1>2. CASE pin \notin catalog
  BY <1>2, RejectsMoves DEF ReadPin, IInv
<1>3. CASE pin \in catalog
  <2>1. pin \in Releases /\ pin # None
    BY <1>3, NamesAssumption DEF IInv, RunnerType
  <2>2. pinned \in Job /\ pinned.s = job[j].s /\ pinned.r = pin
    BY <1>1, <2>1 DEF Job
  <2>3. "verify" \in Pcs /\ "ensure" \in Pcs
    BY DEF Pcs, Steps, ImageSteps
  <2>4. \/ job' = [job EXCEPT ![j] = Resolved(pinned, "verify")]
        \/ job' = [job EXCEPT ![j] = [pinned EXCEPT !.pc = "ensure"]]
    BY <1>3 DEF ReadPin
  <2> HIDE DEF pinned
  <2> QED
    BY <1>1, <2>1, <2>2, <2>3, <2>4, GoesMoves DEF IInv
<1> QED
  BY <1>2, <1>3

(* What the invariant says of the chain of one job.                        *)
LEMMA ChainFacts ==
  ASSUME IInv, NEW j \in Jobs
  PROVE  /\ JobsType /\ job[j] \in Job
         /\ job[j].pc \notin Sessionless => job[j].s \in Sessions /\ job[j].s # None
         /\ job[j].s # None => job[j].s \in Sessions
         /\ job[j].s # None /\ job[j].pc \in Pinned
               => job[j].r \in Releases /\ job[j].r # None /\ job[j].r = dir[job[j].s].runtime
  BY ChainType DEF IInv, JobsType, PinsOK, PinOK

LEMMA StepNames ==
  /\ Steps \subseteq Pcs /\ {"idle", "running", "failed"} \subseteq Pcs
  /\ {"runtime", "legacy", "stamp", "stampsync", "read", "ensure", "download", "commit",
      "verify", "sweep", "remove", "sweepsync", "look", "overlay", "seal", "publish",
      "disksync", "validate"} \subseteq Pcs
  /\ {"ensure", "download", "commit", "verify", "sweep", "remove", "sweepsync", "look",
      "overlay", "seal", "publish", "disksync", "validate", "running"} \subseteq Pinned
  /\ {"runtime", "legacy", "stamp", "stampsync", "read", "idle", "failed"} \cap Pinned = {}
  /\ {"runtime", "legacy", "stamp", "stampsync", "read", "verify", "sweep", "remove",
      "sweepsync", "look", "overlay", "seal", "publish", "disksync", "validate",
      "running"} \cap Sessionless = {}
  BY DEF Pcs, Steps, RuntimeSteps, ImageSteps, DiskSteps, Pinned, Sessionless

(* initializeSessionRuntime                                                *)
LEMMA RuntimeMoves ==
  ASSUME IInv, NEW j \in Jobs,
         LookForRuntime(j) \/ LookForDisk(j) \/ Stamp(j) \/ StampSync(j)
  PROVE  Moves(j)
<1>1. JobsType /\ job[j] \in Job /\ job[j].s # None
  BY ChainFacts, StepNames DEF LookForRuntime, LookForDisk, Stamp, StampSync
<1>2. CASE Rejects(j)
  BY <1>1, <1>2, RejectsMoves
<1>3. CASE \E pc \in {"legacy", "read", "stamp", "stampsync"} : Goes(j, pc) \/ Resolves(j, pc)
  BY <1>1, <1>3, StepNames, GoesMoves DEF Goes, Resolves
<1> QED
  BY <1>2, <1>3 DEF LookForRuntime, LookForDisk, Stamp, StampSync

(* The image of a chain is there.                                          *)
LEMMA EnsuredMoves ==
  ASSUME IInv, NEW j \in Jobs, Ensured(j), job[j].pc \in Pinned
  PROVE  Moves(j)
<1>1. JobsType /\ job[j] \in Job
  BY ChainFacts
<1>2. CASE job[j].s = None
  BY <1>1, <1>2, IdleOK DEF Ensured, Moves
<1>3. CASE job[j].s # None
  <2>1. job' = [job EXCEPT ![j] = Resolved(job[j], "verify")]
    BY <1>3 DEF Ensured
  <2> QED
    BY <1>1, <1>3, <2>1, ChainFacts, StepNames, GoesMoves
<1> QED
  BY <1>2, <1>3

(* readSessionGuestImage, ensureGuestImage, prepareGuestImageForVm         *)
LEMMA ImageMoves ==
  ASSUME IInv, NEW j \in Jobs,
         FindImage(j) \/ Download(j) \/ Commit(j) \/ Verify(j)
  PROVE  Moves(j)
<1>1. JobsType /\ job[j] \in Job /\ job[j].pc \in Pinned
  BY ChainFacts, StepNames DEF FindImage, Download, Commit, Verify
<1>2. CASE Ensured(j)
  BY <1>1, <1>2, EnsuredMoves
<1>3. CASE Rejects(j)
  BY <1>1, <1>3, RejectsMoves
<1>4. CASE Goes(j, "download") \/ Goes(j, "commit")
  <2>1. {"download", "commit"} \subseteq Sessionless
    BY DEF Sessionless
  <2> QED
    BY <1>1, <1>4, <2>1, ChainFacts, StepNames, GoesMoves DEF Goes
<1>5. CASE Download(j) /\ job' = [job EXCEPT ![j] = Resolved(Spoilt(@), "failed")]
  <2>1. Spoilt(job[j]) \in Job
    BY <1>1 DEF Spoilt, Job
  <2>2. "failed" \in Sessionless
    BY DEF Sessionless
  <2> QED
    BY <1>1, <1>5, <2>1, <2>2, StepNames, GoesMoves
<1>6. CASE Verify(j) /\ (Resolves(j, "sweep") \/ Resolves(j, "validate"))
  <2>1. job[j].s # None
    BY <1>6, ChainFacts, StepNames DEF Verify
  <2> QED
    BY <1>1, <1>6, <2>1, ChainFacts, StepNames, GoesMoves DEF Resolves
<1>7. CASE FindImage(j)
  BY <1>2, <1>3, <1>4, <1>7 DEF FindImage
<1>8. CASE Download(j)
  BY <1>4, <1>5, <1>8 DEF Download
<1>9. CASE Commit(j)
  BY <1>2, <1>3, <1>9 DEF Commit
<1>10. CASE Verify(j)
  BY <1>3, <1>6, <1>10 DEF Verify
<1> QED
  BY <1>7, <1>8, <1>9, <1>10

(* The sweep of the candidates.                                            *)
LEMMA SweepMoves ==
  ASSUME IInv, NEW j \in Jobs,
         \/ ListCandidates(j)
         \/ \E c \in job[j].seen : RemoveCandidate(j, c)
  PROVE  Moves(j)
<1>1. JobsType /\ job[j] \in Job /\ job[j].s # None /\ job[j].pc \in Pinned
  BY ChainFacts, StepNames DEF ListCandidates, RemoveCandidate
<1> DEFINE Sweeps(seen, pc) == [job[j] EXCEPT !.seen = seen, !.pc = pc]
<1>2. ASSUME NEW seen \in SUBSET (Jobs \cup {Stale}), NEW pc \in {"look", "remove", "sweepsync"},
             job' = [job EXCEPT ![j] = Sweeps(seen, pc)]
      PROVE  Moves(j)
  <2>1. Sweeps(seen, pc) \in Job
    BY <1>1, <1>2, StepNames DEF Job, Pcs
  <2>2. Sweeps(seen, pc).s = job[j].s /\ Sweeps(seen, pc).r = job[j].r
    BY <1>1 DEF Job
  <2>3. PinOK(Sweeps(seen, pc))
    BY <1>1, <2>2, ChainFacts DEF PinOK
  <2> QED
    BY <1>2, <2>1, <2>3 DEF Moves
<1> HIDE DEF Sweeps
<1>3. CASE ListCandidates(j)
  <2>1. candidates[job[j].s] \subseteq Jobs \cup {Stale}
    BY <1>1, ChainFacts DEF IInv, CandidatesType
  <2>2. \E pc \in {"look", "remove"} :
            job' = [job EXCEPT ![j] = Sweeps(candidates[job[j].s], pc)]
    BY <1>3 DEF ListCandidates, Sweeps
  <2> QED
    BY <1>2, <2>1, <2>2
<1>4. ASSUME NEW c \in job[j].seen, RemoveCandidate(j, c)
      PROVE  Moves(j)
  <2>1. job[j].seen \ {c} \subseteq Jobs \cup {Stale}
    BY <1>1, ChainType
  <2>2. CASE c \in candidates[job[j].s]
    <3>1. \E pc \in {"remove", "sweepsync"} :
              job' = [job EXCEPT ![j] = Sweeps(job[j].seen \ {c}, pc)]
      BY <1>4, <2>2 DEF RemoveCandidate, Sweeps
    <3> QED
      BY <1>2, <2>1, <3>1
  <2>3. CASE c \notin candidates[job[j].s]
    <3> DEFINE failing == [job[j] EXCEPT !.seen = {}]
    <3>1. failing \in Job /\ "failed" \in Sessionless
      BY <1>1 DEF Job, Sessionless
    <3>2. job' = [job EXCEPT ![j] = Resolved(failing, "failed")]
      BY <1>4, <2>3 DEF RemoveCandidate
    <3> HIDE DEF failing
    <3> QED
      BY <1>1, <3>1, <3>2, StepNames, GoesMoves
  <2> QED
    BY <2>2, <2>3
<1> QED
  BY <1>3, <1>4

(* The disk of a chain is there.                                           *)
LEMMA DiskMadeMoves ==
  ASSUME IInv, NEW j \in Jobs, DiskMade(j), job[j].s # None
  PROVE  Moves(j)
<1> DEFINE made == [job[j] EXCEPT !.phase = "make"]
<1>1. JobsType /\ made \in Job /\ made.s = job[j].s
  BY ChainFacts DEF Job
<1>2. job' = [job EXCEPT ![j] = Resolved(made, "read")]
  BY DEF DiskMade
<1> HIDE DEF made
<1> QED
  BY <1>1, <1>2, StepNames, GoesMoves

(* initializePersistentRootDisk, and the VM over it                        *)
LEMMA DiskMoves ==
  ASSUME IInv, NEW j \in Jobs,
         \/ SweepSync(j) \/ LookForExisting(j) \/ Overlay(j) \/ Seal(j)
         \/ Publish(j) \/ DiskSync(j) \/ Validate(j)
  PROVE  Moves(j)
<1>1. JobsType /\ job[j] \in Job /\ job[j].s # None /\ job[j].pc \in Pinned
  BY ChainFacts, StepNames
     DEF SweepSync, LookForExisting, Overlay, Seal, Publish, DiskSync, Validate
<1>2. CASE DiskMade(j)
  BY <1>1, <1>2, DiskMadeMoves
<1>3. CASE Rejects(j)
  BY <1>1, <1>3, RejectsMoves
<1>4. CASE \E pc \in {"look", "overlay", "seal", "publish", "disksync", "running"} : Goes(j, pc)
  BY <1>1, <1>4, ChainFacts, StepNames, GoesMoves DEF Goes
<1>5. CASE SweepSync(j) \/ Overlay(j) \/ Seal(j)
  BY <1>3, <1>4, <1>5 DEF SweepSync, Overlay, Seal
<1>6. CASE LookForExisting(j)
  BY <1>2, <1>3, <1>4, <1>6 DEF LookForExisting
<1>7. CASE Publish(j)
  BY <1>2, <1>3, <1>4, <1>7 DEF Publish
<1>8. CASE DiskSync(j)
  BY <1>2, <1>8 DEF DiskSync
<1>9. CASE Validate(j)
  BY <1>3, <1>4, <1>9 DEF Validate
<1> QED
  BY <1>5, <1>6, <1>7, <1>8, <1>9

(* What begins, ends, interrupts or disturbs a chain.                      *)
LEMMA OtherMoves ==
  ASSUME IInv, NEW j \in Jobs,
         \/ Stop(j) \/ Report(j) \/ Abandon(j) \/ Fault(j)
         \/ Doctor(j) \/ \E s \in Sessions : Boot(j, s)
  PROVE  Moves(j)
<1>1. JobsType /\ job[j] \in Job /\ PinOK(job[j]) /\ default \in Releases
  BY ChainFacts DEF IInv, PinsOK, RunnerType
<1>2. CASE Stop(j) \/ Report(j)
  BY <1>1, <1>2, IdleOK DEF Stop, Report, Moves
<1>3. CASE Abandon(j)
  <2> DEFINE gone == [Spoilt(job[j]) EXCEPT !.left = TRUE]
  <2>1. gone \in Job /\ gone.s = job[j].s /\ gone.r = job[j].r /\ gone.pc = job[j].pc
    BY <1>1 DEF Spoilt, Job
  <2>2. PinOK(gone)
    BY <1>1, <2>1 DEF PinOK
  <2>3. job' = [job EXCEPT ![j] = gone]
    BY <1>3 DEF Abandon
  <2> QED
    BY <2>1, <2>2, <2>3 DEF Moves
<1>4. CASE Fault(j)
  <2> DEFINE failing == [Spoilt(job[j]) EXCEPT !.seen = {}]
  <2>1. failing \in Job /\ "failed" \in Sessionless
    BY <1>1 DEF Spoilt, Job, Sessionless
  <2>2. job' = [job EXCEPT ![j] = Resolved(failing, "failed")]
    BY <1>4 DEF Fault
  <2> HIDE DEF failing
  <2> QED
    BY <1>1, <2>1, <2>2, StepNames, GoesMoves
<1>5. CASE Doctor(j)
  <2> DEFINE begun == [Idle EXCEPT !.pc = "ensure", !.r = default, !.phase = "doctor",
                                   !.clean = image[default] # "damaged"]
  <2>1. begun \in Job /\ begun.s = None /\ begun.pc = "ensure"
    BY <1>1, StepNames DEF Idle, Job, Pcs
  <2>2. PinOK(begun)
    BY <2>1 DEF PinOK, Sessionless
  <2> QED
    BY <1>5, <2>1, <2>2 DEF Moves, Doctor
<1>6. ASSUME NEW s \in Sessions, Boot(j, s)
      PROVE  Moves(j)
  <2>1. PICK clean \in BOOLEAN :
           job' = [job EXCEPT ![j] = [Idle EXCEPT !.pc = "runtime", !.s = s,
                                                  !.phase = "init", !.clean = clean]]
    BY <1>6 DEF Boot
  <2> DEFINE begun == [Idle EXCEPT !.pc = "runtime", !.s = s, !.phase = "init", !.clean = clean]
  <2>2. begun \in Job /\ begun.s = s /\ begun.pc = "runtime"
    BY StepNames DEF Idle, Job, Pcs
  <2>3. PinOK(begun)
    BY <2>2, StepNames, NamesAssumption DEF PinOK
  <2> QED
    BY <2>1, <2>2, <2>3 DEF Moves
<1> QED
  BY <1>2, <1>3, <1>4, <1>5, <1>6

-----------------------------------------------------------------------------
(* A step of the specification moves the chains and changes the files. *)

JobsMove == job' \in [Jobs -> Job] /\ \A j \in Jobs : PinOK(job'[j])

LEMMA OneMoves ==
  ASSUME IInv, NEW j \in Jobs, Moves(j)
  PROVE  JobsMove
  BY DEF IInv, JobsType, PinsOK, Moves, JobsMove

LEMMA NextMoves ==
  ASSUME IInv, Next
  PROVE  JobsMove
<1>1. ASSUME NEW j \in Jobs, Step(j)
      PROVE  JobsMove
  BY <1>1, OneMoves, RuntimeMoves, ReadPinMoves, ImageMoves, SweepMoves, DiskMoves DEF Step
<1>2. ASSUME NEW j \in Jobs,
             \/ Stop(j) \/ Report(j) \/ Abandon(j) \/ Fault(j)
             \/ Doctor(j) \/ \E s \in Sessions : Boot(j, s)
      PROVE  JobsMove
  BY <1>2, OneMoves, OtherMoves
<1>3. ASSUME NEW j \in Jobs, StartRunner(j)
      PROVE  JobsMove
  <2>1. default' \in Releases
    BY <1>3 DEF StartRunner
  <2> DEFINE begun == [Idle EXCEPT !.pc = "ensure", !.r = default', !.phase = "start",
                                   !.clean = image[default'] # "damaged"]
  <2>2. begun \in Job /\ begun.s = None /\ begun.pc = "ensure"
    BY <2>1, StepNames DEF Idle, Job, Pcs
  <2>3. PinOK(begun)
    BY <2>2 DEF PinOK, Sessionless
  <2>4. Moves(j)
    BY <1>3, <2>2, <2>3 DEF Moves, StartRunner
  <2> QED
    BY <2>4, OneMoves
<1>4. CASE Crash \/ PowerLoss
  BY <1>4, IdleOK DEF Crash, PowerLoss, JobsMove, IInv, JobsType, PinsOK
<1>5. CASE \E r \in Releases : Damage(r)
  <2>1. ASSUME NEW j \in Jobs
        PROVE  Spoilt(job[j]) \in Job /\ PinOK(Spoilt(job[j]))
    <3>1. job[j] \in Job /\ PinOK(job[j])
      BY DEF IInv, JobsType, PinsOK
    <3>2. /\ Spoilt(job[j]) \in Job
          /\ Spoilt(job[j]).s = job[j].s /\ Spoilt(job[j]).r = job[j].r
          /\ Spoilt(job[j]).pc = job[j].pc
      BY <3>1 DEF Spoilt, Job
    <3> QED
      BY <3>1, <3>2 DEF PinOK
  <2>2. job' = [j \in Jobs |-> Spoilt(job[j])]
    BY <1>5 DEF Damage
  <2> QED
    BY <2>1, <2>2 DEF JobsMove
<1>6. CASE \E r \in Releases : OperatorRemoves(r)
  BY <1>6 DEF OperatorRemoves, JobsMove, IInv, JobsType, PinsOK
<1> QED
  BY <1>1, <1>2, <1>3, <1>4, <1>5, <1>6 DEF Next

(* Stamp writes a runtime where there is none.                             *)
LEMMA StampFiles ==
  ASSUME IInv, NEW j \in Jobs, Stamp(j)
  PROVE  UNCHANGED <<dir, durable>> \/ WritesRuntime
<1>1. job[j].s \in Sessions /\ default \in Releases
  BY ChainFacts, StepNames DEF Stamp, IInv, RunnerType
<1> QED
  BY <1>1 DEF Stamp, WritesRuntime

(* Publish writes a disk where there is none, for the runtime in place.    *)
LEMMA PublishFiles ==
  ASSUME IInv, NEW j \in Jobs, Publish(j)
  PROVE  UNCHANGED <<dir, durable>> \/ WritesDisk
<1> DEFINE s == job[j].s
<1>1. s \in Sessions /\ job[j].r = dir[s].runtime /\ dir[s].runtime # None
  BY ChainFacts, StepNames DEF Publish
<1>2. CASE j \in candidates[s] /\ dir[s].disk = None
  <2>1. Writes(s, [dir[s] EXCEPT !.disk = [backing |-> job[j].r, maker |-> j]])
    BY <1>2 DEF Publish
  <2> QED
    BY <1>1, <1>2, <2>1 DEF WritesDisk
<1>3. CASE ~(j \in candidates[s] /\ dir[s].disk = None)
  BY <1>3 DEF Publish, session
<1> QED
  BY <1>2, <1>3

(* A sync, or the one of a stop.                                           *)
LEMMA SyncFiles ==
  ASSUME IInv, NEW j \in Jobs,
         StampSync(j) \/ SweepSync(j) \/ DiskSync(j) \/ Stop(j)
  PROVE  UNCHANGED <<dir, durable>> \/ SyncsOne
<1>1. job[j].s \in Sessions
  BY ChainFacts, StepNames DEF StampSync, SweepSync, DiskSync, Stop
<1> QED
  BY <1>1 DEF StampSync, SweepSync, DiskSync, Stop, SyncsOne

LEMMA PowerLossFiles ==
  ASSUME IInv, PowerLoss
  PROVE  LosesPower
<1>1. \A s \in Sessions : durable[s] \subseteq Directory
  BY DEF IInv, FilesType
<1>2. dir' \in [Sessions -> UNION {durable[s] : s \in Sessions}]
  BY DEF PowerLoss
<1>3. dir' \in [Sessions -> Directory]
  BY <1>1, <1>2
<1> QED
  BY <1>3 DEF PowerLoss, LosesPower

LEMMA NextFiles ==
  ASSUME IInv, Next
  PROVE  FilesChange
<1>1. ASSUME NEW j \in Jobs, Step(j)
      PROVE  FilesChange
  <2>1. CASE Stamp(j)
    BY <2>1, StampFiles DEF FilesChange
  <2>2. CASE Publish(j)
    BY <2>2, PublishFiles DEF FilesChange
  <2>3. CASE StampSync(j) \/ SweepSync(j) \/ DiskSync(j)
    BY <2>3, SyncFiles DEF FilesChange
  <2>4. CASE LookForRuntime(j) \/ LookForDisk(j) \/ ReadPin(j) \/ FindImage(j)
               \/ Download(j) \/ Commit(j) \/ Verify(j) \/ ListCandidates(j)
    BY <2>4 DEF LookForRuntime, LookForDisk, ReadPin, FindImage, Download, Commit,
                Verify, ListCandidates, session, FilesChange
  <2>5. CASE (\E c \in job[j].seen : RemoveCandidate(j, c))
               \/ LookForExisting(j) \/ Overlay(j) \/ Seal(j) \/ Validate(j)
    BY <2>5 DEF RemoveCandidate, LookForExisting, Overlay, Seal, Validate, session,
                FilesChange
  <2> QED
    BY <1>1, <2>1, <2>2, <2>3, <2>4, <2>5 DEF Step
<1>2. ASSUME NEW j \in Jobs, Stop(j)
      PROVE  FilesChange
  BY <1>2, SyncFiles DEF FilesChange
<1>3. ASSUME NEW j \in Jobs,
             \/ Report(j) \/ Abandon(j) \/ Fault(j) \/ StartRunner(j)
             \/ Doctor(j) \/ \E s \in Sessions : Boot(j, s)
      PROVE  FilesChange
  BY <1>3 DEF Report, Abandon, Fault, StartRunner, Doctor, Boot, session, FilesChange
<1>4. CASE PowerLoss
  BY <1>4, PowerLossFiles DEF FilesChange
<1>5. CASE Crash \/ \E r \in Releases : Damage(r) \/ OperatorRemoves(r)
  BY <1>5 DEF Crash, Damage, OperatorRemoves, session, FilesChange
<1> QED
  BY <1>1, <1>2, <1>3, <1>4, <1>5 DEF Next
-----------------------------------------------------------------------------
(* The invariant is inductive. *)

LEMMA RunnerTyped ==
  ASSUME IInv, Next
  PROVE  RunnerType'
<1>1. RunnerType
  BY DEF IInv
<1>2. ASSUME NEW j \in Jobs, Step(j)
      PROVE  RunnerType'
  <2>1. CASE FindImage(j) \/ Commit(j)
    <3>1. UNCHANGED <<default, catalog>> /\ up' \in BOOLEAN
      BY <1>1, <2>1 DEF FindImage, Commit, Ensured, RunnerType
    <3>2. image' \in {image, [image EXCEPT ![job[j].r] = "whole"]}
      BY <2>1 DEF FindImage, Commit
    <3> QED
      BY <1>1, <3>1, <3>2 DEF RunnerType
  <2>2. CASE UNCHANGED <<runner, image>>
    BY <1>1, <2>2 DEF RunnerType, runner
  <2> QED
    BY <1>2, <2>1, <2>2
       DEF Step, LookForRuntime, LookForDisk, Stamp, StampSync, ReadPin, Download, Verify,
           ListCandidates, RemoveCandidate, SweepSync, LookForExisting, Overlay, Seal,
           Publish, DiskSync, Validate
<1>3. ASSUME NEW j \in Jobs,
             \/ Stop(j) \/ Report(j) \/ Abandon(j) \/ Fault(j)
             \/ Doctor(j) \/ \E s \in Sessions : Boot(j, s)
      PROVE  RunnerType'
  BY <1>1, <1>3 DEF Stop, Report, Abandon, Fault, Doctor, Boot, runner, RunnerType
<1>4. ASSUME NEW j \in Jobs, StartRunner(j)
      PROVE  RunnerType'
  BY <1>1, <1>4 DEF StartRunner, RunnerType
<1>5. CASE Crash
  BY <1>1, <1>5 DEF Crash, RunnerType
<1>6. CASE PowerLoss
  BY <1>1, <1>6 DEF PowerLoss, RunnerType
<1>7. CASE \E r \in Releases : Damage(r) \/ OperatorRemoves(r)
  BY <1>1, <1>7 DEF Damage, OperatorRemoves, runner, RunnerType
<1> QED
  BY <1>2, <1>3, <1>4, <1>5, <1>6, <1>7 DEF Next

LEMMA CandidatesTyped ==
  ASSUME IInv, Next
  PROVE  CandidatesType'
<1>1. CandidatesType
  BY DEF IInv
<1>2. ASSUME NEW s, NEW new \in SUBSET (Jobs \cup {Stale}),
             candidates' = [candidates EXCEPT ![s] = new]
      PROVE  CandidatesType'
  BY <1>1, <1>2 DEF CandidatesType
<1>3. ASSUME NEW j \in Jobs, Step(j)
      PROVE  CandidatesType'
  <2>1. ASSUME NEW c, RemoveCandidate(j, c)
        PROVE  CandidatesType'
    <3>1. job[j].s \in Sessions
      BY <2>1, ChainFacts, StepNames DEF RemoveCandidate
    <3>2. candidates[job[j].s] \ {c} \in SUBSET (Jobs \cup {Stale})
      BY <1>1, <3>1 DEF CandidatesType
    <3> QED
      BY <1>1, <1>2, <2>1, <3>2 DEF RemoveCandidate, CandidatesType
  <2>2. CASE Overlay(j) \/ Publish(j) \/ DiskSync(j)
    <3>1. job[j].s \in Sessions
      BY <2>2, ChainFacts, StepNames DEF Overlay, Publish, DiskSync
    <3>2. /\ candidates[job[j].s] \cup {j} \in SUBSET (Jobs \cup {Stale})
          /\ candidates[job[j].s] \ {j} \in SUBSET (Jobs \cup {Stale})
      BY <1>1, <3>1 DEF CandidatesType
    <3>3. \/ UNCHANGED candidates
          \/ candidates' = [candidates EXCEPT ![job[j].s] = @ \cup {j}]
          \/ candidates' = [candidates EXCEPT ![job[j].s] = @ \ {j}]
      BY <2>2 DEF Overlay, Publish, DiskSync, Disposes, session
    <3> QED
      BY <1>1, <1>2, <3>2, <3>3 DEF CandidatesType
  <2>3. CASE UNCHANGED candidates
    BY <1>1, <2>3 DEF CandidatesType
  <2> QED
    BY <1>3, <2>1, <2>2, <2>3
       DEF Step, LookForRuntime, LookForDisk, Stamp, StampSync, ReadPin, FindImage, Download,
           Commit, Verify, ListCandidates, SweepSync, LookForExisting, Seal, Validate, session
<1>4. ASSUME NEW j \in Jobs, Fault(j)
      PROVE  CandidatesType'
  <2> DEFINE s == job[j].s
  <2>1. CASE s # None /\ j \in candidates[s]
    <3>1. PICK left \in {{}, {Stale}} :
             candidates' = [candidates EXCEPT ![s] = (@ \ {j}) \cup left]
      BY <1>4, <2>1 DEF Fault
    <3>2. s \in Sessions
      BY <2>1, ChainFacts
    <3>3. (candidates[s] \ {j}) \cup left \in SUBSET (Jobs \cup {Stale})
      BY <1>1, <3>1, <3>2 DEF CandidatesType
    <3> QED
      BY <1>2, <3>1, <3>3
  <2>2. CASE ~(s # None /\ j \in candidates[s])
    BY <1>1, <1>4, <2>2 DEF Fault, CandidatesType
  <2> QED
    BY <2>1, <2>2
<1>5. ASSUME NEW j \in Jobs,
             \/ Stop(j) \/ Report(j) \/ Abandon(j) \/ StartRunner(j)
             \/ Doctor(j) \/ \E s \in Sessions : Boot(j, s)
      PROVE  CandidatesType'
  BY <1>1, <1>5 DEF Stop, Report, Abandon, StartRunner, Doctor, Boot, session, CandidatesType
<1>6. CASE Crash
  BY <1>6 DEF Crash, Orphaned, CandidatesType
<1>7. CASE PowerLoss
  BY <1>7 DEF PowerLoss, CandidatesType
<1>8. CASE \E r \in Releases : Damage(r) \/ OperatorRemoves(r)
  BY <1>1, <1>8 DEF Damage, OperatorRemoves, session, CandidatesType
<1> QED
  BY <1>3, <1>4, <1>5, <1>6, <1>7, <1>8 DEF Next

(* A session with a disk has a runtime.                                    *)
LEMMA DiskHasRuntime ==
  ASSUME IInv, NEW s \in Sessions, dir[s].disk # None
  PROVE  dir[s].runtime # None
<1>1. dir[s] \in Directory /\ Fits(dir[s])
  BY DEF IInv, FilesType, FilesOK
<1> QED
  BY <1>1, NamesAssumption DEF Fits, Directory, Disk

(* What is written is a directory, with the other file as it was.          *)
LEMMA WriteFields ==
  ASSUME NEW files \in Directory, NEW r \in Releases, NEW disk \in Disk
  PROVE  /\ [files EXCEPT !.runtime = r] \in Directory
         /\ [files EXCEPT !.runtime = r].runtime = r
         /\ [files EXCEPT !.runtime = r].disk = files.disk
         /\ [files EXCEPT !.disk = disk] \in Directory
         /\ [files EXCEPT !.disk = disk].runtime = files.runtime
         /\ [files EXCEPT !.disk = disk].disk = disk
  BY DEF Directory

(* One session's files are written, and those of the others stay.          *)
LEMMA WriteOne ==
  ASSUME FilesType, NEW s \in Sessions, NEW files \in Directory, Writes(s, files)
  PROVE  /\ FilesType'
         /\ dir'[s] = files /\ durable'[s] = durable[s] \cup {files}
         /\ \A o \in Sessions \ {s} : dir'[o] = dir[o] /\ durable'[o] = durable[o]
  BY DEF FilesType, Writes

LEMMA FilesKept ==
  ASSUME IInv, FilesChange
  PROVE  FilesType' /\ FilesOK'
<1>1. FilesType /\ FilesOK
  BY DEF IInv
<1>2. CASE UNCHANGED <<dir, durable>>
  BY <1>1, <1>2 DEF FilesType, FilesOK, Part, Fits
<1>3. CASE SyncsOne
  BY <1>1, <1>3 DEF SyncsOne, Syncs, FilesType, FilesOK, Part, Fits
<1>4. CASE WritesRuntime
  <2>1. PICK s \in Sessions, r \in Releases :
           dir[s].runtime = None /\ Writes(s, [dir[s] EXCEPT !.runtime = r])
    BY <1>4 DEF WritesRuntime
  <2> DEFINE files == [dir[s] EXCEPT !.runtime = r]
  <2>2. dir[s] \in Directory /\ dir[s].disk = None
    BY <1>1, <2>1, DiskHasRuntime DEF FilesType
  <2>3. files \in Directory /\ files.runtime = r /\ files.disk = None
    BY <2>2 DEF Directory
  <2> HIDE DEF files
  <2>4. /\ FilesType'
        /\ dir'[s] = files /\ durable'[s] = durable[s] \cup {files}
        /\ \A o \in Sessions \ {s} : dir'[o] = dir[o] /\ durable'[o] = durable[o]
    BY <1>1, <2>1, <2>3, WriteOne DEF files
  <2>5. \A old \in durable[s] : Part(old, files) /\ Fits(old)
    BY <1>1, <2>1, <2>2, <2>3 DEF FilesOK, Part
  <2>6. Part(files, files) /\ Fits(files)
    BY <2>3 DEF Part, Fits
  <2> QED
    BY <1>1, <2>4, <2>5, <2>6 DEF FilesOK, Part, Fits
<1>5. CASE WritesDisk
  <2>1. PICK s \in Sessions, j \in Jobs :
           /\ dir[s].disk = None /\ dir[s].runtime # None
           /\ Writes(s, [dir[s] EXCEPT !.disk = [backing |-> dir[s].runtime, maker |-> j]])
    BY <1>5 DEF WritesDisk
  <2> DEFINE disk == [backing |-> dir[s].runtime, maker |-> j]
             files == [dir[s] EXCEPT !.disk = disk]
  <2>2. dir[s] \in Directory /\ disk \in Disk /\ disk.backing = dir[s].runtime
    BY <1>1, <2>1 DEF FilesType, Directory, Disk
  <2>3. Writes(s, files)
    BY <2>1
  <2> HIDE DEF disk
  <2>4. files \in Directory /\ files.runtime = dir[s].runtime /\ files.disk = disk
    BY <2>2 DEF Directory
  <2> HIDE DEF files
  <2>5. /\ FilesType'
        /\ dir'[s] = files /\ durable'[s] = durable[s] \cup {files}
        /\ \A o \in Sessions \ {s} : dir'[o] = dir[o] /\ durable'[o] = durable[o]
    BY <1>1, <2>3, <2>4, WriteOne
  <2>6. \A old \in durable[s] : Part(old, files) /\ Fits(old)
    BY <1>1, <2>1, <2>4 DEF FilesOK, Part
  <2>7. Part(files, files) /\ Fits(files)
    BY <2>2, <2>4 DEF Part, Fits
  <2> QED
    BY <1>1, <2>5, <2>6, <2>7 DEF FilesOK, Part, Fits
<1>6. CASE LosesPower
  BY <1>1, <1>6 DEF LosesPower, FilesType, FilesOK, Part, Fits
<1> QED
  BY <1>2, <1>3, <1>4, <1>5, <1>6 DEF FilesChange

(* A runtime and a disk are written where there was none.                  *)
LEMMA WritesOnce ==
  ASSUME IInv, WritesRuntime \/ WritesDisk, NEW s \in Sessions
  PROVE  /\ dir[s].runtime # None => dir'[s].runtime = dir[s].runtime
         /\ dir[s].disk # None => dir'[s].disk = dir[s].disk
         /\ \/ dir'[s] = dir[s] /\ durable'[s] = durable[s]
            \/ durable'[s] = durable[s] \cup {dir'[s]}
<1>1. FilesType
  BY DEF IInv
<1>2. CASE WritesRuntime
  <2>1. PICK o \in Sessions, r \in Releases :
           dir[o].runtime = None /\ Writes(o, [dir[o] EXCEPT !.runtime = r])
    BY <1>2 DEF WritesRuntime
  <2> DEFINE files == [dir[o] EXCEPT !.runtime = r]
  <2>2. files \in Directory /\ files.disk = dir[o].disk
    BY <1>1 DEF FilesType, Directory
  <2>3. Writes(o, files)
    BY <2>1
  <2> HIDE DEF files
  <2> QED
    BY <1>1, <2>1, <2>2, <2>3, WriteOne
<1>3. CASE WritesDisk
  <2>1. PICK o \in Sessions, j \in Jobs :
           /\ dir[o].disk = None /\ dir[o].runtime # None
           /\ Writes(o, [dir[o] EXCEPT !.disk = [backing |-> dir[o].runtime, maker |-> j]])
    BY <1>3 DEF WritesDisk
  <2> DEFINE files == [dir[o] EXCEPT !.disk = [backing |-> dir[o].runtime, maker |-> j]]
  <2>2. files \in Directory /\ files.runtime = dir[o].runtime
    BY <1>1, <2>1 DEF FilesType, Directory, Disk
  <2>3. Writes(o, files)
    BY <2>1
  <2> HIDE DEF files
  <2> QED
    BY <1>1, <2>1, <2>2, <2>3, WriteOne
<1> QED
  BY <1>2, <1>3

LEMMA PinsKept ==
  ASSUME IInv, JobsMove, FilesChange
  PROVE  PinsOK'
<1> SUFFICES ASSUME NEW j \in Jobs
             PROVE  PinOK(job[j])'
  BY DEF PinsOK
<1> DEFINE chain == job'[j]
<1>1. chain \in Job /\ PinOK(chain)
  BY DEF JobsMove
<1>2. chain.s # None => chain.s \in Sessions
  BY <1>1, ChainType
<1>3. CASE LosesPower
  BY <1>3 DEF LosesPower, Idle, PinOK, Sessionless
<1>4. ASSUME \A s \in Sessions : dir[s].runtime # None => dir'[s].runtime = dir[s].runtime
      PROVE  PinOK(job[j])'
  BY <1>1, <1>2, <1>4 DEF PinOK
<1>5. CASE UNCHANGED <<dir, durable>> \/ SyncsOne
  BY <1>4, <1>5 DEF SyncsOne
<1>6. CASE WritesRuntime \/ WritesDisk
  BY <1>4, <1>6, WritesOnce
<1> QED
  BY <1>3, <1>5, <1>6 DEF FilesChange

LEMMA Initially == Init => IInv
<1> SUFFICES ASSUME Init
             PROVE  IInv
  OBVIOUS
<1>1. RunnerType /\ CandidatesType
  BY DEF Init, RunnerType, CandidatesType
<1>2. EmptyDirectory \in Directory /\ Part(EmptyDirectory, EmptyDirectory)
        /\ Fits(EmptyDirectory)
  BY DEF EmptyDirectory, Directory, Part, Fits
<1>3. FilesType /\ FilesOK
  BY <1>2 DEF Init, FilesType, FilesOK
<1>4. JobsType /\ PinsOK
  BY IdleOK DEF Init, JobsType, PinsOK
<1> QED
  BY <1>1, <1>3, <1>4 DEF IInv

LEMMA Inductive == IInv /\ [Next]_vars => IInv'
<1> SUFFICES ASSUME IInv, [Next]_vars
             PROVE  IInv'
  OBVIOUS
<1>1. CASE Next
  BY <1>1, NextMoves, NextFiles, RunnerTyped, CandidatesTyped, FilesKept, PinsKept
     DEF IInv, JobsType, JobsMove
<1>2. CASE UNCHANGED vars
  BY <1>2 DEF vars, IInv, RunnerType, CandidatesType, FilesType, JobsType, PinsOK, PinOK,
              FilesOK, Part, Fits
<1> QED
  BY <1>1, <1>2

-----------------------------------------------------------------------------
(* The theorems. *)

THEOREM InvariantHolds == Spec => []IInv
  BY Initially, Inductive, PTL DEF Spec

(* The variables keep their types.                                         *)
THEOREM TypeCorrect == Spec => []TypeOK
<1>1. IInv => TypeOK
  BY DEF IInv, RunnerType, CandidatesType, FilesType, JobsType, TypeOK
<1> QED
  BY <1>1, InvariantHolds, PTL

(* In whatever a crash or a power loss leaves, a disk is an overlay of the *)
(* image its runtime names (initializeSessionRuntime before                *)
(* initializePersistentRootDisk, readSessionGuestImage in between).        *)
THEOREM DisksFit == Spec => []DiskFitsPin
<1>1. IInv => DiskFitsPin
  BY DEF IInv, FilesOK, Fits, DiskFitsPin
<1> QED
  BY <1>1, InvariantHolds, PTL

(* What is on storage of a session is neither lost nor replaced (fs.link   *)
(* in initializeSessionRuntime and initializePersistentRootDisk).          *)
THEOREM Kept == Spec => FilesAreKept
<1> DEFINE Same(s, part) ==
      dir[s][part] # None /\ Holds(s, part)
          => dir'[s][part] = dir[s][part] /\ Holds(s, part)'
<1>1. ASSUME IInv, [Next]_vars
      PROVE  \A s \in Sessions : \A part \in {"runtime", "disk"} : Same(s, part)
  <2> SUFFICES ASSUME NEW s \in Sessions, NEW part \in {"runtime", "disk"},
                      dir[s][part] # None, Holds(s, part)
               PROVE  dir'[s][part] = dir[s][part] /\ Holds(s, part)'
    OBVIOUS
  <2>1. FilesType /\ FilesOK
    BY <1>1 DEF IInv
  <2>2. CASE UNCHANGED <<dir, durable>>
    BY <2>2 DEF Holds
  <2>3. CASE SyncsOne
    BY <2>1, <2>3 DEF SyncsOne, Syncs, Holds, FilesType
  <2>4. CASE WritesRuntime \/ WritesDisk
    <3>1. dir'[s][part] = dir[s][part]
      BY <1>1, <2>4, WritesOnce
    <3>2. durable'[s] \subseteq durable[s] \cup {dir'[s]}
      BY <1>1, <2>4, WritesOnce
    <3> QED
      BY <3>1, <3>2 DEF Holds
  <2>5. CASE LosesPower
    BY <2>1, <2>5 DEF LosesPower, Holds, FilesOK
  <2>6. CASE Next
    BY <1>1, <2>2, <2>3, <2>4, <2>5, <2>6, NextFiles DEF FilesChange
  <2> QED
    BY <1>1, <2>2, <2>6 DEF vars
<1> QED
  BY <1>1, InvariantHolds, PTL DEF Spec, FilesAreKept

-----------------------------------------------------------------------------
(***************************************************************************)
(* That a boot nothing disturbs starts its VM, for every set of sessions,  *)
(* releases and concurrent jobs, and so do a start of the runner and       *)
(* `doctor`: in no state a crash, a power loss, a boot that was given up   *)
(* or another version of the runner leaves does a step of it fail.         *)
(*                                                                         *)
(* The argument: no other job works on the session of an undisturbed boot, *)
(* so what it has looked at is still so (Undisturbed); an image that is    *)
(* not damaged only ever becomes whole; and the runner that serves has its *)
(* own image (Served).                                                     *)
(***************************************************************************)

(* What a serving runner and its chains are to each other.                 *)
ServedOK(chain) ==
    /\ chain.s # None <=> chain.phase \in {"init", "make"}
    /\ chain.s # None => up
    /\ chain.phase = "start" => chain.r = default
    /\ chain.s = None /\ chain.clean => chain.r \in Releases
Served == /\ up => image[default] # "absent"
          /\ \A j \in Jobs : ServedOK(job[j])

(* The image of a session's boots.                                         *)
Pin(s) == IF dir[s].runtime = None THEN default ELSE dir[s].runtime

AloneIn(j, s) == \A k \in Jobs \ {j} : job[k].s # s

(* What an undisturbed boot has found is so.                               *)
AsFound(j) ==
    LET chain == job[j]
        s == chain.s
    IN /\ AloneIn(j, s)
       /\ Pin(s) \in catalog /\ image[Pin(s)] # "damaged"
       /\ chain.pc \in {"legacy", "stamp"} => dir[s].runtime = None
       /\ chain.pc \in {"stampsync", "read"} => dir[s].runtime # None
       /\ chain.pc = "verify" => image[chain.r] = "whole"
       /\ chain.pc = "remove" => chain.seen \subseteq candidates[s]
       /\ chain.pc \in {"seal", "publish", "disksync"} => j \in candidates[s]
       /\ chain.phase = "make" \/ chain.pc = "disksync" => dir[s].disk # None
       /\ chain.pc = "validate" => chain.phase = "make"

Undisturbed(j) ==
    job[j].clean =>
        /\ job[j].pc # "failed" /\ ~job[j].left
        /\ job[j].s = None => image[job[j].r] # "damaged"
        /\ job[j].s # None => AsFound(j)

BootInv == IInv /\ Served /\ \A j \in Jobs : Undisturbed(j)
-----------------------------------------------------------------------------
(* What a step of one chain leaves alone. *)

Frame(k) ==
    /\ \A j \in Jobs \ {k} : job'[j] = job[j]
    /\ job'[k].s \in {None, job[k].s}
    /\ \A s \in Sessions \ {job[k].s} :
          dir'[s] = dir[s] /\ candidates'[s] = candidates[s]
    /\ UNCHANGED <<default, catalog>>
    /\ up => up'
    /\ \A r \in Releases : \/ image'[r] = image[r]
                           \/ image[r] = "absent" /\ image'[r] = "whole"

(* A step touches the files of its own session alone.                      *)
LEMMA StepFiles ==
  ASSUME IInv, NEW k \in Jobs, Step(k) \/ Stop(k) \/ Report(k) \/ Abandon(k) \/ Fault(k)
  PROVE  \A s \in Sessions \ {job[k].s} :
            dir'[s] = dir[s] /\ candidates'[s] = candidates[s]
<1>1. FilesType /\ CandidatesType
  BY DEF IInv
<1>2. CASE UNCHANGED <<dir, candidates>>
  BY <1>2
<1>3. CASE Stamp(k)
  BY <1>1, <1>3 DEF Stamp, Writes, FilesType
<1>4. CASE Publish(k)
  BY <1>1, <1>4 DEF Publish, Writes, Disposes, session, FilesType, CandidatesType
<1>5. CASE (\E c \in job[k].seen : RemoveCandidate(k, c)) \/ Overlay(k) \/ DiskSync(k)
  BY <1>1, <1>5 DEF RemoveCandidate, Overlay, DiskSync, Disposes, CandidatesType
<1>6. CASE Fault(k)
  BY <1>1, <1>6 DEF Fault, CandidatesType
<1>7. CASE LookForRuntime(k) \/ LookForDisk(k) \/ StampSync(k) \/ ReadPin(k) \/ FindImage(k)
              \/ Download(k) \/ Commit(k) \/ Verify(k) \/ ListCandidates(k)
  BY <1>2, <1>7 DEF LookForRuntime, LookForDisk, StampSync, ReadPin, FindImage, Download,
                    Commit, Verify, ListCandidates, session
<1>8. CASE SweepSync(k) \/ LookForExisting(k) \/ Seal(k) \/ Validate(k)
              \/ Stop(k) \/ Report(k) \/ Abandon(k)
  BY <1>2, <1>8 DEF SweepSync, LookForExisting, Seal, Validate, Stop, Report, Abandon,
                    session
<1> QED
  BY <1>3, <1>4, <1>5, <1>6, <1>7, <1>8 DEF Step

(* An image is installed where there is none, and the runner's version     *)
(* stays.                                                                  *)
LEMMA StepImages ==
  ASSUME IInv, NEW k \in Jobs, Step(k) \/ Stop(k) \/ Report(k) \/ Abandon(k) \/ Fault(k)
  PROVE  /\ UNCHANGED <<default, catalog>>
         /\ up => up'
         /\ \A r \in Releases : \/ image'[r] = image[r]
                                \/ image[r] = "absent" /\ image'[r] = "whole"
<1>1. RunnerType
  BY DEF IInv
<1>2. CASE UNCHANGED <<runner, image>>
  BY <1>2 DEF runner
<1>3. CASE FindImage(k) \/ Commit(k)
  BY <1>1, <1>3 DEF FindImage, Commit, Ensured, RunnerType
<1>4. CASE LookForRuntime(k) \/ LookForDisk(k) \/ Stamp(k) \/ StampSync(k) \/ ReadPin(k)
              \/ Download(k) \/ Verify(k) \/ ListCandidates(k)
              \/ \E c \in job[k].seen : RemoveCandidate(k, c)
  BY <1>2, <1>4 DEF LookForRuntime, LookForDisk, Stamp, StampSync, ReadPin, Download,
                    Verify, ListCandidates, RemoveCandidate
<1>5. CASE SweepSync(k) \/ LookForExisting(k) \/ Overlay(k) \/ Seal(k) \/ Publish(k)
              \/ DiskSync(k) \/ Validate(k) \/ Stop(k) \/ Report(k) \/ Abandon(k)
              \/ Fault(k)
  BY <1>2, <1>5 DEF SweepSync, LookForExisting, Overlay, Seal, Publish, DiskSync,
                    Validate, Stop, Report, Abandon, Fault, runner
<1> QED
  BY <1>3, <1>4, <1>5 DEF Step

(* What is found by an undisturbed job stays so while another one moves.   *)
LEMMA OthersKept ==
  ASSUME IInv, Served, NEW k \in Jobs, Frame(k), NEW j \in Jobs \ {k}, Undisturbed(j)
  PROVE  Undisturbed(j)'
<1> SUFFICES ASSUME job'[j].clean
             PROVE  Undisturbed(j)'
  BY DEF Undisturbed
<1> DEFINE s == job[j].s
<1>1. job'[j] = job[j] /\ job[j].clean
  BY DEF Frame
<1>2. CASE s = None
  BY <1>1, <1>2 DEF Undisturbed, Served, ServedOK, Frame
<1>3. CASE s # None
  <2>1. s \in Sessions /\ AsFound(j)
    BY <1>1, <1>3, ChainFacts DEF Undisturbed
  <2>2. job[k].s # s
    BY <2>1 DEF AsFound, AloneIn
  <2>3. dir'[s] = dir[s] /\ candidates'[s] = candidates[s] /\ UNCHANGED <<default, catalog>>
    BY <2>1, <2>2 DEF Frame
  <2>4. AloneIn(j, s)'
    BY <1>1, <1>3, <2>1, <2>2 DEF AsFound, AloneIn, Frame
  <2>5. Pin(s)' = Pin(s) /\ Pin(s) \in Releases
    BY <1>1, <2>1, <2>3 DEF Pin, AsFound, IInv, RunnerType
  <2>6. image'[Pin(s)] # "damaged"
    BY <2>1, <2>5 DEF Frame, AsFound
  <2>7. job[j].pc = "verify" => image'[job[j].r] = "whole"
    BY <1>1, <1>3, <2>1, ChainFacts, StepNames DEF Frame, AsFound
  <2>8. AsFound(j)'
    BY <1>1, <2>1, <2>3, <2>4, <2>5, <2>6, <2>7 DEF AsFound
  <2> QED
    BY <1>1, <1>3, <2>8 DEF Undisturbed
<1> QED
  BY <1>2, <1>3
-----------------------------------------------------------------------------
(* What an undisturbed chain finds at its own next step. *)

LEMMA OwnGoes ==
  ASSUME IInv, NEW k \in Jobs, Frame(k), Undisturbed(k),
         job[k].clean, ~job[k].left,
         NEW chain \in Job, chain.s = job[k].s, ~chain.left,
         NEW pc \in Pcs, pc # "failed",
         \/ job' = [job EXCEPT ![k] = [chain EXCEPT !.pc = pc]]
         \/ job' = [job EXCEPT ![k] = Resolved(chain, pc)],
         chain.s = None => image'[chain.r] # "damaged",
         NEW s, s = chain.s,
         s # None =>
            /\ Pin(s) \in catalog => (IF dir'[s].runtime = None THEN default ELSE dir'[s].runtime) = Pin(s)
            /\ pc \in {"legacy", "stamp"} => dir'[s].runtime = None
            /\ pc \in {"stampsync", "read"} => dir'[s].runtime # None
            /\ pc = "verify" => image'[chain.r] = "whole"
            /\ pc = "remove" => chain.seen \subseteq candidates'[s]
            /\ pc \in {"seal", "publish", "disksync"} => k \in candidates'[s]
            /\ chain.phase = "make" \/ pc = "disksync" => dir'[s].disk # None
            /\ pc = "validate" => chain.phase = "make"
  PROVE  Undisturbed(k)'
<1> DEFINE next == [chain EXCEPT !.pc = pc]
<1>1. job'[k] = next
  BY DEF IInv, JobsType, Resolved
<1>2. /\ next.pc = pc /\ next.s = chain.s /\ next.r = chain.r /\ next.phase = chain.phase
      /\ next.seen = chain.seen /\ ~next.left
  BY DEF Job
<1> HIDE DEF next
<1>3. CASE s = None
  BY <1>1, <1>2, <1>3 DEF Undisturbed
<1>4. CASE s # None
  <2>1. AsFound(k) /\ s \in Sessions
    BY <1>4, ChainType DEF Undisturbed
  <2>2. AloneIn(k, s)'
    BY <2>1 DEF AsFound, AloneIn, Frame
  <2>3. Pin(s) \in Releases /\ UNCHANGED <<default, catalog>>
    BY <2>1 DEF AsFound, IInv, RunnerType, Frame
  <2>4. (IF dir'[s].runtime = None THEN default' ELSE dir'[s].runtime) = Pin(s)
    BY <1>4, <2>1, <2>3 DEF AsFound
  <2>5. Pin(s) \in catalog' /\ image'[Pin(s)] # "damaged"
    BY <2>1, <2>3 DEF AsFound, Frame
  <2>6. AsFound(k)'
    BY <1>1, <1>2, <1>4, <2>2, <2>4, <2>5 DEF AsFound, Pin, AloneIn
  <2> QED
    BY <1>1, <1>2, <1>4, <2>6 DEF Undisturbed
<1> QED
  BY <1>3, <1>4
(* A chain that is not clean does not become it.                           *)
LEMMA OwnSpoilt ==
  ASSUME IInv, NEW k \in Jobs, NEW chain \in Job, ~chain.clean, NEW pc,
         \/ job' = [job EXCEPT ![k] = [chain EXCEPT !.pc = pc]]
         \/ job' = [job EXCEPT ![k] = Resolved(chain, pc)]
         \/ job' = [job EXCEPT ![k] = Idle]
         \/ job' = [job EXCEPT ![k] = chain]
  PROVE  Undisturbed(k)'
<1>1. job \in [Jobs -> Job]
  BY DEF IInv, JobsType
<1>2. ~[chain EXCEPT !.pc = pc].clean /\ ~Idle.clean
  BY DEF Job, Idle
<1>3. ~job'[k].clean
  BY <1>1, <1>2 DEF Resolved
<1> QED
  BY <1>3 DEF Undisturbed
-----------------------------------------------------------------------------
(* The frame of each step. *)

Simple(k) == \E pc \in Pcs : Goes(k, pc) \/ Resolves(k, pc)

(* How a step leaves a chain: over, or of the same session, on its way.    *)
Carries(old, new) ==
    /\ new.s = old.s /\ (new.clean => old.clean)
    /\ new.phase = old.phase \/ (new.phase = "make" /\ new.s # None)
    /\ new.r = old.r \/ (new.s # None /\ new.phase \in {"init", "make"})
CarriesOn(k) ==
    \/ job' = [job EXCEPT ![k] = Idle]
    \/ \E chain \in Job, pc \in Pcs :
          /\ Carries(job[k], chain)
          /\ \/ job' = [job EXCEPT ![k] = [chain EXCEPT !.pc = pc]]
             \/ job' = [job EXCEPT ![k] = Resolved(chain, pc)]
             \/ job' = [job EXCEPT ![k] = chain]

LEMMA StepCarries ==
  ASSUME IInv, Served, NEW k \in Jobs,
         Step(k) \/ Stop(k) \/ Report(k) \/ Abandon(k) \/ Fault(k)
  PROVE  CarriesOn(k)
<1>1. job[k] \in Job /\ Carries(job[k], job[k]) /\ {"failed", "read", "commit", "verify"} \subseteq Pcs
  BY ChainFacts, StepNames DEF Carries
<1>2. CASE Simple(k)
  BY <1>1, <1>2 DEF CarriesOn, Simple, Goes, Resolves
<1>3. CASE Ensured(k)
  BY <1>1, <1>3 DEF CarriesOn, Ensured
<1>4. CASE ReadPin(k)
  <2>1. CASE Rejects(k)
    BY <1>1, <2>1 DEF CarriesOn, Rejects, Resolves
  <2>2. CASE ~Rejects(k)
    <3> DEFINE pinned == [job[k] EXCEPT !.r = dir[job[k].s].runtime]
    <3>1. dir[job[k].s].runtime \in Releases
      BY <1>4, <2>2 DEF ReadPin, IInv, RunnerType
    <3>2. pinned \in Job /\ Carries(job[k], pinned)
      BY <1>1, <1>4, <3>1, ChainFacts, StepNames DEF Job, Carries, Served, ServedOK, ReadPin
    <3>3. \/ job' = [job EXCEPT ![k] = Resolved(pinned, "verify")]
          \/ job' = [job EXCEPT ![k] = [pinned EXCEPT !.pc = "ensure"]]
      BY <1>4, <2>2 DEF ReadPin
    <3> HIDE DEF pinned
    <3> QED
      BY <3>2, <3>3, StepNames DEF CarriesOn
  <2> QED
    BY <2>1, <2>2
<1>5. CASE Download(k)
  <2>1. Spoilt(job[k]) \in Job /\ Carries(job[k], Spoilt(job[k]))
    BY <1>1 DEF Spoilt, Job, Carries
  <2>2. \/ job' = [job EXCEPT ![k] = [job[k] EXCEPT !.pc = "commit"]]
        \/ job' = [job EXCEPT ![k] = Resolved(Spoilt(job[k]), "failed")]
    BY <1>5 DEF Download, Goes
  <2> QED
    BY <1>1, <2>1, <2>2 DEF CarriesOn
<1>6. CASE ListCandidates(k) \/ \E c \in job[k].seen : RemoveCandidate(k, c)
  <2>1. CASE ListCandidates(k)
    <3> DEFINE found == candidates[job[k].s]
               seeing == [job[k] EXCEPT !.seen = found]
               pc == IF found = {} THEN "look" ELSE "remove"
    <3>1. found \in SUBSET (Jobs \cup {Stale})
      BY <2>1, ChainFacts, StepNames DEF ListCandidates, IInv, CandidatesType
    <3>2. seeing \in Job /\ Carries(job[k], seeing)
      BY <1>1, <3>1 DEF Job, Carries
    <3>3. job' = [job EXCEPT ![k] = [seeing EXCEPT !.pc = pc]]
      BY <2>1 DEF ListCandidates
    <3>4. pc \in Pcs
      BY StepNames
    <3> HIDE DEF seeing, pc
    <3> QED
      BY <3>2, <3>3, <3>4 DEF CarriesOn
  <2>2. ASSUME NEW c \in job[k].seen, RemoveCandidate(k, c)
        PROVE  CarriesOn(k)
    <3>1. PICK rest \in SUBSET job[k].seen, pc \in Pcs :
             \/ job' = [job EXCEPT ![k] = [[job[k] EXCEPT !.seen = rest] EXCEPT !.pc = pc]]
             \/ job' = [job EXCEPT ![k] = Resolved([job[k] EXCEPT !.seen = rest], pc)]
      <4>1. CASE c \in candidates[job[k].s]
        <5> DEFINE rest == job[k].seen \ {c}
                   pc == IF rest = {} THEN "sweepsync" ELSE "remove"
        <5>1. job' = [job EXCEPT ![k] = [[job[k] EXCEPT !.seen = rest] EXCEPT !.pc = pc]]
          BY <2>2, <4>1 DEF RemoveCandidate
        <5>2. rest \in SUBSET job[k].seen /\ pc \in Pcs
          BY StepNames
        <5> HIDE DEF rest, pc
        <5> QED
          BY <5>1, <5>2
      <4>2. CASE c \notin candidates[job[k].s]
        <5>1. job' = [job EXCEPT ![k] = Resolved([job[k] EXCEPT !.seen = {}], "failed")]
          BY <2>2, <4>2 DEF RemoveCandidate
        <5> QED
          BY <5>1, StepNames
      <4> QED
        BY <4>1, <4>2
    <3> DEFINE seeing == [job[k] EXCEPT !.seen = rest]
    <3>2. seeing \in Job /\ Carries(job[k], seeing)
      BY <1>1, ChainType DEF Job, Carries
    <3> HIDE DEF seeing
    <3> QED
      BY <3>1, <3>2 DEF CarriesOn, seeing
  <2> QED
    BY <1>6, <2>1, <2>2
<1>7. CASE DiskMade(k) /\ job[k].s # None
  <2> DEFINE made == [job[k] EXCEPT !.phase = "make"]
  <2>1. made \in Job /\ Carries(job[k], made)
    BY <1>1, <1>7 DEF Job, Carries
  <2>2. job' = [job EXCEPT ![k] = Resolved(made, "read")]
    BY <1>7 DEF DiskMade
  <2> HIDE DEF made
  <2> QED
    BY <2>1, <2>2, StepNames DEF CarriesOn
<1>8. CASE Stop(k) \/ Report(k)
  BY <1>1, <1>8 DEF CarriesOn, Stop, Report
<1>9. CASE Abandon(k)
  <2> DEFINE gone == [Spoilt(job[k]) EXCEPT !.left = TRUE]
  <2>1. gone \in Job /\ Carries(job[k], gone)
    BY <1>1 DEF Spoilt, Job, Carries
  <2>2. job' = [job EXCEPT ![k] = gone]
    BY <1>9 DEF Abandon
  <2> HIDE DEF gone
  <2> QED
    BY <2>1, <2>2, StepNames DEF CarriesOn
<1>10. CASE Fault(k)
  <2> DEFINE failing == [Spoilt(job[k]) EXCEPT !.seen = {}]
  <2>1. failing \in Job /\ Carries(job[k], failing)
    BY <1>1 DEF Spoilt, Job, Carries
  <2>2. job' = [job EXCEPT ![k] = Resolved(failing, "failed")]
    BY <1>10 DEF Fault
  <2> HIDE DEF failing
  <2> QED
    BY <2>1, <2>2, StepNames DEF CarriesOn
<1>11. CASE LookForRuntime(k) \/ LookForDisk(k) \/ Stamp(k) \/ StampSync(k)
              \/ FindImage(k) \/ Commit(k) \/ Verify(k)
  BY <1>2, <1>3, <1>11, StepNames
     DEF Simple, Rejects, LookForRuntime, LookForDisk, Stamp, StampSync, FindImage, Commit,
         Verify
<1>12. CASE SweepSync(k) \/ LookForExisting(k) \/ Overlay(k) \/ Seal(k) \/ Publish(k)
              \/ DiskSync(k) \/ Validate(k)
  BY <1>2, <1>7, <1>12, StepNames, ChainFacts
     DEF Simple, Rejects, SweepSync, LookForExisting, Overlay, Seal, Publish, DiskSync,
         Validate
<1> QED
  BY <1>4, <1>5, <1>6, <1>8, <1>9, <1>10, <1>11, <1>11, <1>12 DEF Step

(* The chains of the other jobs stay, and this one keeps its session.      *)
LEMMA StepChain ==
  ASSUME IInv, Served, NEW k \in Jobs,
         Step(k) \/ Stop(k) \/ Report(k) \/ Abandon(k) \/ Fault(k)
  PROVE  /\ \A j \in Jobs \ {k} : job'[j] = job[j]
         /\ job'[k].s \in {None, job[k].s}
         /\ job'[k] = Idle \/ Carries(job[k], job'[k])
<1>1. JobsType /\ Idle.s = None
  BY DEF IInv, Idle
<1>2. CASE job' = [job EXCEPT ![k] = Idle]
  BY <1>1, <1>2 DEF JobsType
<1>3. ASSUME NEW chain \in Job, NEW pc \in Pcs, Carries(job[k], chain),
             \/ job' = [job EXCEPT ![k] = [chain EXCEPT !.pc = pc]]
             \/ job' = [job EXCEPT ![k] = Resolved(chain, pc)]
             \/ job' = [job EXCEPT ![k] = chain]
      PROVE  /\ \A j \in Jobs \ {k} : job'[j] = job[j]
             /\ job'[k].s \in {None, job[k].s}
             /\ job'[k] = Idle \/ Carries(job[k], job'[k])
  <2> DEFINE next == [chain EXCEPT !.pc = pc]
  <2>1. /\ next.s = chain.s /\ next.r = chain.r /\ next.phase = chain.phase
        /\ next.clean = chain.clean
    BY DEF Job
  <2>2. job'[k] \in {Idle, next, chain} /\ \A j \in Jobs \ {k} : job'[j] = job[j]
    BY <1>1, <1>3 DEF JobsType, Resolved
  <2> HIDE DEF next
  <2> QED
    BY <1>1, <1>3, <2>1, <2>2 DEF Carries
<1> QED
  BY <1>2, <1>3, StepCarries DEF CarriesOn

LEMMA StepFrame ==
  ASSUME IInv, Served, NEW k \in Jobs,
         Step(k) \/ Stop(k) \/ Report(k) \/ Abandon(k) \/ Fault(k)
  PROVE  Frame(k)
  BY StepChain, StepFiles, StepImages DEF Frame
-----------------------------------------------------------------------------
(* The steps of an undisturbed chain. *)

(* What it has to find where it goes to `pc`.                              *)
Finds(k, chain, pc) ==
    LET s == chain.s
    IN /\ (IF dir'[s].runtime = None THEN default ELSE dir'[s].runtime) = Pin(s)
       /\ pc \in {"legacy", "stamp"} => dir'[s].runtime = None
       /\ pc \in {"stampsync", "read"} => dir'[s].runtime # None
       /\ pc = "verify" => image'[chain.r] = "whole"
       /\ pc = "remove" => chain.seen \subseteq candidates'[s]
       /\ pc \in {"seal", "publish", "disksync"} => k \in candidates'[s]
       /\ chain.phase = "make" \/ pc = "disksync" => dir'[s].disk # None
       /\ pc = "validate" => chain.phase = "make"

LEMMA OwnMoves ==
  ASSUME IInv, Served, NEW k \in Jobs, Frame(k), Undisturbed(k),
         NEW chain \in Job, chain.s = job[k].s, chain.left = job[k].left,
         chain.clean = job[k].clean, chain.s = None => chain.r = job[k].r,
         NEW pc \in Pcs,
         \/ job' = [job EXCEPT ![k] = [chain EXCEPT !.pc = pc]]
         \/ job' = [job EXCEPT ![k] = Resolved(chain, pc)],
         job[k].clean => pc # "failed",
         job[k].clean /\ job[k].s # None => Finds(k, chain, pc)
  PROVE  Undisturbed(k)'
<1>1. CASE ~job[k].clean
  BY <1>1, OwnSpoilt
<1>2. CASE job[k].clean
  <2>1. ~job[k].left /\ ~chain.left
    BY <1>2 DEF Undisturbed
  <2>2. ASSUME chain.s = None
        PROVE  image'[chain.r] # "damaged"
    <3>1. chain.r = job[k].r /\ job[k].r \in Releases
      BY <1>2, <2>2 DEF Served, ServedOK
    <3>2. image[job[k].r] # "damaged"
      BY <1>2, <2>2 DEF Undisturbed
    <3> QED
      BY <3>1, <3>2 DEF Frame
  <2>3. chain.s # None => Finds(k, chain, pc)
    BY <1>2
  <2> QED
    BY <1>2, <2>1, <2>2, <2>3, OwnGoes DEF Finds
<1> QED
  BY <1>1, <1>2

(* The same, of a chain that only goes on.                                 *)
LEMMA OwnPlain ==
  ASSUME IInv, Served, NEW k \in Jobs, Frame(k), Undisturbed(k),
         NEW pc \in Pcs, Goes(k, pc) \/ Resolves(k, pc),
         job[k].clean => pc # "failed",
         job[k].clean /\ job[k].s # None => Finds(k, job[k], pc)
  PROVE  Undisturbed(k)'
  BY ChainFacts, OwnMoves DEF Goes, Resolves

(* The facts of a clean chain that has a session.                          *)
LEMMA CleanFacts ==
  ASSUME IInv, NEW k \in Jobs, Undisturbed(k), job[k].clean, job[k].s # None,
         NEW s, s = job[k].s
  PROVE  /\ s \in Sessions /\ Pin(s) \in catalog /\ Pin(s) \in Releases
         /\ Pin(s) # None /\ image[Pin(s)] \in {"absent", "whole"}
         /\ job[k].pc \in {"legacy", "stamp"} => dir[s].runtime = None
         /\ job[k].pc \in {"stampsync", "read"} => dir[s].runtime # None
         /\ job[k].pc = "verify" => image[job[k].r] = "whole"
         /\ job[k].pc = "remove" => job[k].seen \subseteq candidates[s]
         /\ job[k].pc \in {"seal", "publish", "disksync"} => k \in candidates[s]
         /\ job[k].phase = "make" \/ job[k].pc = "disksync" => dir[s].disk # None
         /\ job[k].pc = "validate" => job[k].phase = "make"
         /\ job[k].pc \in Pinned => job[k].r = Pin(s) /\ dir[s].runtime # None
                                    /\ job[k].r = dir[s].runtime
  BY ChainFacts, NamesAssumption DEF Undisturbed, AsFound, IInv, RunnerType, Pin

LEMMA OwnRuntime ==
  ASSUME IInv, Served, NEW k \in Jobs, Frame(k), Undisturbed(k),
         LookForRuntime(k) \/ LookForDisk(k) \/ Stamp(k) \/ StampSync(k)
  PROVE  Undisturbed(k)'
<1> DEFINE s == job[k].s
<1>1. s \in Sessions /\ s # None /\ FilesType /\ default \in Releases
  BY ChainFacts, StepNames
     DEF LookForRuntime, LookForDisk, Stamp, StampSync, IInv, RunnerType
<1>2. CASE LookForRuntime(k)
  <2>1. CASE dir[s].runtime # None
    <3>1. job[k].clean => Finds(k, job[k], "read")
      BY <1>1, <1>2, <2>1, CleanFacts DEF LookForRuntime, session, Finds, Pin
    <3> QED
      BY <1>2, <2>1, <3>1, StepNames, OwnPlain DEF LookForRuntime
  <2>2. CASE dir[s].runtime = None
    <3>1. job[k].clean => Finds(k, job[k], "legacy")
      BY <1>1, <1>2, <2>2, CleanFacts DEF LookForRuntime, session, Finds, Pin
    <3> QED
      BY <1>2, <2>2, <3>1, StepNames, OwnPlain DEF LookForRuntime
  <2> QED
    BY <2>1, <2>2
<1>3. CASE LookForDisk(k)
  <2>1. job[k].clean => dir[s].disk = None
    BY <1>1, <1>3, CleanFacts, DiskHasRuntime DEF LookForDisk
  <2>2. CASE dir[s].disk # None
    BY <1>3, <2>1, <2>2, StepNames, OwnPlain DEF LookForDisk, Rejects
  <2>3. CASE dir[s].disk = None
    <3>1. job[k].clean => Finds(k, job[k], "stamp")
      BY <1>1, <1>3, CleanFacts DEF LookForDisk, session, Finds, Pin
    <3> QED
      BY <1>3, <2>3, <3>1, StepNames, OwnPlain DEF LookForDisk
  <2> QED
    BY <2>2, <2>3
<1>4. CASE Stamp(k)
  <2>1. CASE dir[s].runtime # None
    <3>1. ~job[k].clean
      BY <1>1, <1>4, <2>1, CleanFacts DEF Stamp
    <3> QED
      BY <1>4, <2>1, <3>1, StepNames, OwnPlain DEF Stamp
  <2>2. CASE dir[s].runtime = None
    <3> DEFINE files == [dir[s] EXCEPT !.runtime = default]
    <3>1. dir[s] \in Directory
      BY <1>1 DEF FilesType
    <3>2. files.runtime = default /\ files.disk = dir[s].disk
      BY <3>1 DEF Directory
    <3>3. dir'[s] = files /\ Goes(k, "stampsync")
      BY <1>1, <1>4, <2>2 DEF Stamp, Writes, FilesType
    <3> HIDE DEF files
    <3>4. dir'[s].runtime = default /\ dir'[s].disk = dir[s].disk /\ default # None
      BY <1>1, <3>2, <3>3, NamesAssumption
    <3>5. job[k].clean => Finds(k, job[k], "stampsync")
      BY <1>1, <1>4, <2>2, <3>4, CleanFacts DEF Stamp, Finds, Pin
    <3> QED
      BY <3>3, <3>5, StepNames, OwnPlain
  <2> QED
    BY <2>1, <2>2
<1>5. CASE StampSync(k)
  <2>1. job[k].clean => Finds(k, job[k], "read")
    BY <1>1, <1>5, CleanFacts DEF StampSync, Finds, Pin
  <2> QED
    BY <1>5, <2>1, StepNames, OwnPlain DEF StampSync
<1> QED
  BY <1>2, <1>3, <1>4, <1>5
LEMMA OwnReadPin ==
  ASSUME IInv, Served, NEW k \in Jobs, Frame(k), Undisturbed(k), ReadPin(k)
  PROVE  Undisturbed(k)'
<1> DEFINE s == job[k].s
           pin == dir[s].runtime
           pinned == [job[k] EXCEPT !.r = pin]
<1>1. job[k] \in Job /\ s \in Sessions /\ s # None
  BY ChainFacts, StepNames DEF ReadPin
<1>2. job[k].clean => pin # None /\ pin \in catalog /\ pin = Pin(s) /\ image[pin] # "damaged"
  BY <1>1, CleanFacts DEF ReadPin, Pin
<1>3. CASE pin \notin catalog
  BY <1>2, <1>3, StepNames, OwnPlain DEF ReadPin, Rejects
<1>4. CASE pin \in catalog
  <2>1. pin \in Releases
    BY <1>4 DEF IInv, RunnerType
  <2>2. /\ pinned \in Job /\ pinned.s = s /\ pinned.r = pin /\ pinned.left = job[k].left
        /\ pinned.clean = job[k].clean /\ pinned.phase = job[k].phase
    BY <1>1, <2>1 DEF Job
  <2>3. \/ job' = [job EXCEPT ![k] = Resolved(pinned, "verify")] /\ pin = default
        \/ job' = [job EXCEPT ![k] = [pinned EXCEPT !.pc = "ensure"]]
    BY <1>4 DEF ReadPin
  <2>4. UNCHANGED <<runner, image, session>>
    BY DEF ReadPin
  <2> HIDE DEF pinned
  <2>5. job[k].clean => Finds(k, pinned, "ensure")
    BY <1>1, <1>2, <2>2, <2>4, CleanFacts DEF Finds, Pin, session
  <2>6. job[k].clean /\ pin = default => image[pin] = "whole"
    BY <1>1, <1>2, <2>1 DEF Served, ServedOK, IInv, RunnerType
  <2>7. job[k].clean /\ pin = default => Finds(k, pinned, "verify")
    BY <2>2, <2>4, <2>5, <2>6 DEF Finds
  <2> QED
    BY <1>1, <2>2, <2>3, <2>5, <2>7, StepNames, OwnMoves
<1> QED
  BY <1>3, <1>4

(* Where its image is: the session's chain goes on to verify it.           *)
LEMMA OwnEnsured ==
  ASSUME IInv, Served, NEW k \in Jobs, Frame(k), Undisturbed(k), Ensured(k),
         job[k].pc \in Pinned, image'[job[k].r] = "whole", UNCHANGED session
  PROVE  Undisturbed(k)'
<1>1. CASE job[k].s = None
  <2>1. job' = [job EXCEPT ![k] = Idle]
    BY <1>1 DEF Ensured
  <2>2. Idle \in Job /\ ~Idle.clean
    BY IdleOK DEF Idle
  <2> QED
    BY <2>1, <2>2, OwnSpoilt
<1>2. CASE job[k].s # None
  <2>1. Resolves(k, "verify")
    BY <1>2 DEF Ensured, Resolves
  <2>2. job[k].clean => Finds(k, job[k], "verify")
    BY <1>2, CleanFacts DEF Finds, Pin, session
  <2> QED
    BY <2>1, <2>2, StepNames, OwnPlain
<1> QED
  BY <1>1, <1>2

LEMMA OwnImage ==
  ASSUME IInv, Served, NEW k \in Jobs, Frame(k), Undisturbed(k),
         FindImage(k) \/ Download(k) \/ Commit(k) \/ Verify(k)
  PROVE  Undisturbed(k)'
<1>1. job[k] \in Job /\ job[k].pc \in Pinned /\ UNCHANGED session
  BY ChainFacts, StepNames DEF FindImage, Download, Commit, Verify
<1>2. job[k].clean => job[k].r \in Releases /\ image[job[k].r] # "damaged"
  BY <1>1, CleanFacts DEF Served, ServedOK, Undisturbed
<1>3. ASSUME NEW pc \in {"download", "commit"}, Goes(k, pc)
      PROVE  Undisturbed(k)'
  <2>1. job[k].clean /\ job[k].s # None => Finds(k, job[k], pc)
    BY <1>1, <1>3, CleanFacts DEF Finds, Pin, session
  <2> QED
    BY <1>3, <2>1, StepNames, OwnPlain
<1>4. CASE FindImage(k)
  <2>1. CASE image[job[k].r] = "damaged" /\ Rejects(k)
    BY <1>2, <2>1, StepNames, OwnPlain DEF Rejects
  <2>2. CASE image[job[k].r] = "whole" /\ Ensured(k)
    BY <1>1, <1>4, <2>2, OwnEnsured DEF FindImage
  <2> QED
    BY <1>3, <1>4, <2>1, <2>2 DEF FindImage
<1>5. CASE Download(k)
  <2>1. CASE job' = [job EXCEPT ![k] = Resolved(Spoilt(job[k]), "failed")]
    <3>1. Spoilt(job[k]) \in Job /\ ~Spoilt(job[k]).clean
      BY <1>1 DEF Spoilt, Job
    <3> QED
      BY <2>1, <3>1, OwnSpoilt
  <2> QED
    BY <1>3, <1>5, <2>1 DEF Download
<1>6. CASE Commit(k)
  <2>1. CASE image[job[k].r] = "damaged" /\ Rejects(k)
    BY <1>2, <2>1, StepNames, OwnPlain DEF Rejects
  <2>2. CASE Ensured(k) /\ ~job[k].clean
    <3>1. CASE job[k].s = None
      <4>1. job' = [job EXCEPT ![k] = Idle] /\ Idle \in Job /\ ~Idle.clean
        BY <2>2, <3>1, IdleOK DEF Ensured, Idle
      <4> QED
        BY <4>1, OwnSpoilt
    <3>2. CASE job[k].s # None
      BY <1>1, <2>2, <3>2, OwnSpoilt DEF Ensured
    <3> QED
      BY <3>1, <3>2
  <2>3. CASE Ensured(k) /\ job[k].clean
    <3>1. image'[job[k].r] = "whole"
      BY <1>2, <1>6, <2>3 DEF Commit, IInv, RunnerType
    <3> QED
      BY <1>1, <2>3, <3>1, OwnEnsured
  <2> QED
    BY <1>6, <2>1, <2>2, <2>3 DEF Commit
<1>7. CASE Verify(k)
  <2>1. job[k].s # None /\ job[k].phase \in {"init", "make"}
    BY <1>7, ChainFacts, StepNames DEF Verify, Served, ServedOK
  <2>2. CASE image[job[k].r] # "whole"
    <3>1. ~job[k].clean
      BY <1>7, <2>1, <2>2, CleanFacts DEF Verify
    <3> QED
      BY <1>7, <2>2, <3>1, StepNames, OwnPlain DEF Verify, Rejects
  <2>3. CASE image[job[k].r] = "whole"
    <3> DEFINE pc == IF job[k].phase = "init" THEN "sweep" ELSE "validate"
    <3>1. job[k].clean => Finds(k, job[k], pc)
      BY <1>1, <2>1, CleanFacts DEF Finds, Pin, session
    <3>2. Resolves(k, pc) /\ pc \in Pcs /\ pc # "failed"
      BY <1>7, <2>3, StepNames DEF Verify
    <3> HIDE DEF pc
    <3> QED
      BY <3>1, <3>2, OwnPlain
  <2> QED
    BY <2>2, <2>3
<1> QED
  BY <1>4, <1>5, <1>6, <1>7
LEMMA OwnSweep ==
  ASSUME IInv, Served, NEW k \in Jobs, Frame(k), Undisturbed(k),
         \/ ListCandidates(k) \/ SweepSync(k)
         \/ \E c \in job[k].seen : RemoveCandidate(k, c)
  PROVE  Undisturbed(k)'
<1> DEFINE s == job[k].s
           Seeing(seen) == [job[k] EXCEPT !.seen = seen]
<1>1. job[k] \in Job /\ s \in Sessions /\ s # None /\ CandidatesType
  BY ChainFacts, StepNames DEF ListCandidates, SweepSync, RemoveCandidate, IInv
<1>2. ASSUME NEW seen \in SUBSET (Jobs \cup {Stale}), NEW pc \in {"look", "remove", "sweepsync"},
             job' = [job EXCEPT ![k] = [Seeing(seen) EXCEPT !.pc = pc]],
             seen \subseteq candidates'[s] \/ ~job[k].clean, dir' = dir
      PROVE  Undisturbed(k)'
  <2>1. /\ Seeing(seen) \in Job /\ Seeing(seen).s = s /\ Seeing(seen).r = job[k].r
        /\ Seeing(seen).left = job[k].left /\ Seeing(seen).clean = job[k].clean
        /\ Seeing(seen).phase = job[k].phase /\ Seeing(seen).seen = seen
    BY <1>1 DEF Job
  <2> HIDE DEF Seeing
  <2>2. job[k].clean => Finds(k, Seeing(seen), pc)
    BY <1>1, <1>2, <2>1, CleanFacts DEF Finds, Pin
  <2> QED
    BY <1>2, <2>1, <2>2, StepNames, OwnMoves
<1>3. CASE ListCandidates(k)
  <2>1. candidates[s] \in SUBSET (Jobs \cup {Stale}) /\ candidates' = candidates /\ dir' = dir
    BY <1>1, <1>3 DEF ListCandidates, CandidatesType, session
  <2> DEFINE pc == IF candidates[s] = {} THEN "look" ELSE "remove"
  <2>2. job' = [job EXCEPT ![k] = [Seeing(candidates[s]) EXCEPT !.pc = pc]]
    BY <1>3 DEF ListCandidates
  <2>3. pc \in {"look", "remove", "sweepsync"}
    OBVIOUS
  <2> HIDE DEF pc, Seeing
  <2> QED
    BY <1>2, <2>1, <2>2, <2>3
<1>4. ASSUME NEW c \in job[k].seen, RemoveCandidate(k, c)
      PROVE  Undisturbed(k)'
  <2>1. job[k].clean => c \in candidates[s] /\ job[k].seen \subseteq candidates[s]
    BY <1>1, <1>4, CleanFacts DEF RemoveCandidate
  <2>2. CASE c \in candidates[s]
    <3> DEFINE rest == job[k].seen \ {c}
               pc == IF rest = {} THEN "sweepsync" ELSE "remove"
    <3>1. job' = [job EXCEPT ![k] = [Seeing(rest) EXCEPT !.pc = pc]]
      BY <1>4, <2>2 DEF RemoveCandidate
    <3>2. candidates'[s] = candidates[s] \ {c} /\ dir' = dir
      BY <1>1, <1>4, <2>2 DEF RemoveCandidate, CandidatesType
    <3>3. pc \in {"look", "remove", "sweepsync"} /\ rest \in SUBSET (Jobs \cup {Stale})
      BY <1>1, ChainType
    <3>4. rest \subseteq candidates'[s] \/ ~job[k].clean
      BY <2>1, <3>2
    <3> HIDE DEF pc, rest, Seeing
    <3> QED
      BY <1>2, <3>1, <3>2, <3>3, <3>4
  <2>3. CASE c \notin candidates[s]
    <3>1. job' = [job EXCEPT ![k] = Resolved(Seeing({}), "failed")]
      BY <1>4, <2>3 DEF RemoveCandidate
    <3>2. Seeing({}) \in Job /\ Seeing({}).clean = job[k].clean
      BY <1>1 DEF Job
    <3> HIDE DEF Seeing
    <3> QED
      BY <2>1, <2>3, <3>1, <3>2, OwnSpoilt
  <2> QED
    BY <2>2, <2>3
<1>5. CASE SweepSync(k)
  <2>1. job[k].clean => Finds(k, job[k], "look")
    BY <1>1, <1>5, CleanFacts DEF SweepSync, Finds, Pin
  <2> QED
    BY <1>5, <2>1, StepNames, OwnPlain DEF SweepSync
<1> QED
  BY <1>3, <1>4, <1>5

(* Its disk is there: the boot goes on to make its environment.            *)
LEMMA OwnDiskMade ==
  ASSUME IInv, Served, NEW k \in Jobs, Frame(k), Undisturbed(k), DiskMade(k),
         NEW s, s = job[k].s, s # None, job[k].pc \in Pinned,
         dir[s].disk # None, dir' = dir
  PROVE  Undisturbed(k)'
<1> DEFINE made == [job[k] EXCEPT !.phase = "make"]
<1>1. /\ made \in Job /\ made.s = s /\ made.r = job[k].r /\ made.left = job[k].left
      /\ made.clean = job[k].clean /\ made.phase = "make" /\ made.seen = job[k].seen
  BY ChainFacts DEF Job
<1>2. job' = [job EXCEPT ![k] = Resolved(made, "read")]
  BY DEF DiskMade
<1> HIDE DEF made
<1>3. job[k].clean => Finds(k, made, "read")
  BY <1>1, CleanFacts DEF Finds, Pin
<1> QED
  BY <1>1, <1>2, <1>3, StepNames, OwnMoves

(* A disk that is there is an overlay of the image the chain was given.    *)
LEMMA DiskMatches ==
  ASSUME IInv, NEW k \in Jobs, NEW s, s = job[k].s, s # None, job[k].pc \in Pinned,
         dir[s].disk # None
  PROVE  Matches(k)
<1>1. s \in Sessions /\ job[k].r = dir[s].runtime
  BY ChainFacts
<1>2. Fits(dir[s])
  BY <1>1 DEF IInv, FilesOK
<1> QED
  BY <1>1, <1>2 DEF Fits, Matches

LEMMA OwnDisk ==
  ASSUME IInv, Served, NEW k \in Jobs, Frame(k), Undisturbed(k),
         \/ LookForExisting(k) \/ Overlay(k) \/ Seal(k) \/ Publish(k)
         \/ DiskSync(k) \/ Validate(k)
  PROVE  Undisturbed(k)'
<1> DEFINE s == job[k].s
<1>1. /\ job[k] \in Job /\ s \in Sessions /\ s # None /\ job[k].pc \in Pinned
      /\ FilesType /\ CandidatesType
  BY ChainFacts, StepNames DEF LookForExisting, Overlay, Seal, Publish, DiskSync, Validate, IInv
<1>2. CASE DiskMade(k) /\ dir[s].disk # None /\ dir' = dir
  BY <1>1, <1>2, OwnDiskMade
<1>3. CASE Rejects(k) /\ ~job[k].clean
  BY <1>3, StepNames, OwnPlain DEF Rejects
<1>4. ASSUME NEW pc \in {"overlay", "seal", "publish", "running"}, Goes(k, pc), dir' = dir,
             job[k].clean /\ pc \in {"seal", "publish"} => k \in candidates'[s]
      PROVE  Undisturbed(k)'
  <2>1. job[k].clean => Finds(k, job[k], pc)
    BY <1>1, <1>4, CleanFacts DEF Finds, Pin
  <2> QED
    BY <1>4, <2>1, StepNames, OwnPlain
<1>5. CASE LookForExisting(k)
  <2>1. dir[s].disk # None => Matches(k)
    BY <1>1, DiskMatches
  <2>2. CASE dir[s].disk = None
    BY <1>4, <1>5, <2>2 DEF LookForExisting, session
  <2>3. CASE dir[s].disk # None
    BY <1>2, <1>5, <2>1, <2>3 DEF LookForExisting, session
  <2> QED
    BY <2>2, <2>3
<1>6. CASE Overlay(k)
  BY <1>1, <1>4, <1>6 DEF Overlay, CandidatesType
<1>7. CASE Seal(k)
  <2>1. job[k].clean => k \in candidates[s]
    BY <1>1, <1>7, CleanFacts DEF Seal
  <2> QED
    BY <1>3, <1>4, <1>7, <2>1 DEF Seal, session
<1>8. CASE Publish(k)
  <2>1. job[k].clean => k \in candidates[s]
    BY <1>1, <1>8, CleanFacts DEF Publish
  <2>2. CASE k \notin candidates[s]
    BY <1>3, <1>8, <2>1, <2>2 DEF Publish
  <2>3. CASE k \in candidates[s] /\ dir[s].disk = None
    <3> DEFINE disk == [backing |-> job[k].r, maker |-> k]
               files == [dir[s] EXCEPT !.disk = disk]
    <3>1. dir[s] \in Directory /\ disk \in Disk /\ disk # None
      <4>1. job[k].r \in Releases
        BY <1>1, ChainFacts
      <4>2. dir[s] \in Directory /\ disk \in Disk
        BY <1>1, <4>1 DEF FilesType, Disk
      <4> QED
        BY <4>2, NamesAssumption DEF Disk
    <3> HIDE DEF disk
    <3>2. files.runtime = dir[s].runtime /\ files.disk = disk
      BY <3>1 DEF Directory
    <3>3. dir'[s] = files /\ Goes(k, "disksync") /\ candidates' = candidates
      BY <1>1, <1>8, <2>3 DEF Publish, Writes, FilesType, disk
    <3> HIDE DEF files
    <3>4. job[k].clean => Finds(k, job[k], "disksync")
      BY <1>1, <2>3, <3>1, <3>2, <3>3, CleanFacts DEF Finds, Pin
    <3> QED
      BY <3>3, <3>4, StepNames, OwnPlain
  <2>4. CASE k \in candidates[s] /\ dir[s].disk # None
    <3>1. Matches(k)
      BY <1>1, <2>4, DiskMatches
    <3> QED
      BY <1>2, <1>8, <2>4, <3>1 DEF Publish
  <2> QED
    BY <2>2, <2>3, <2>4
<1>9. CASE DiskSync(k)
  <2>1. CASE job[k].clean
    <3>1. dir[s].disk # None
      BY <1>1, <1>9, <2>1, CleanFacts DEF DiskSync
    <3> QED
      BY <1>2, <1>9, <3>1 DEF DiskSync
  <2>2. CASE ~job[k].clean
    <3> DEFINE made == [job[k] EXCEPT !.phase = "make"]
    <3>1. made \in Job /\ made.clean = job[k].clean
      BY <1>1 DEF Job
    <3>2. job' = [job EXCEPT ![k] = Resolved(made, "read")]
      BY <1>9 DEF DiskSync, DiskMade
    <3> HIDE DEF made
    <3> QED
      BY <2>2, <3>1, <3>2, OwnSpoilt
  <2> QED
    BY <2>1, <2>2
<1>10. CASE Validate(k)
  <2>1. job[k].clean => dir[s].disk # None
    BY <1>1, <1>10, CleanFacts DEF Validate
  <2>2. CASE dir[s].disk # None
    BY <1>1, <1>4, <1>10, <2>2, DiskMatches DEF Validate, session
  <2>3. CASE dir[s].disk = None
    BY <1>3, <1>10, <2>1, <2>3 DEF Validate
  <2> QED
    BY <2>2, <2>3
<1> QED
  BY <1>5, <1>6, <1>7, <1>8, <1>9, <1>10-----------------------------------------------------------------------------
(* The invariant. *)

LEMMA OwnStep ==
  ASSUME IInv, Served, NEW k \in Jobs, Frame(k), Undisturbed(k), Step(k)
  PROVE  Undisturbed(k)'
  BY OwnRuntime, OwnReadPin, OwnImage, OwnSweep, OwnDisk DEF Step

(* The end of a chain, and what disturbs one.                              *)
LEMMA OwnEnds ==
  ASSUME IInv, NEW k \in Jobs, Stop(k) \/ Report(k) \/ Abandon(k) \/ Fault(k)
  PROVE  Undisturbed(k)'
<1>1. job[k] \in Job /\ Idle \in Job /\ ~Idle.clean
  BY ChainFacts, IdleOK DEF Idle
<1>2. CASE Stop(k) \/ Report(k)
  BY <1>1, <1>2, OwnSpoilt DEF Stop, Report
<1>3. CASE Abandon(k)
  <2> DEFINE gone == [Spoilt(job[k]) EXCEPT !.left = TRUE]
  <2>1. gone \in Job /\ ~gone.clean
    BY <1>1 DEF Spoilt, Job
  <2>2. job' = [job EXCEPT ![k] = gone]
    BY <1>3 DEF Abandon
  <2> HIDE DEF gone
  <2> QED
    BY <2>1, <2>2, OwnSpoilt
<1>4. CASE Fault(k)
  <2> DEFINE failing == [Spoilt(job[k]) EXCEPT !.seen = {}]
  <2>1. failing \in Job /\ ~failing.clean
    BY <1>1 DEF Spoilt, Job
  <2>2. job' = [job EXCEPT ![k] = Resolved(failing, "failed")]
    BY <1>4 DEF Fault
  <2> HIDE DEF failing
  <2> QED
    BY <2>1, <2>2, OwnSpoilt
<1> QED
  BY <1>2, <1>3, <1>4

(* A chain that begins finds an image that is not damaged.                 *)
LEMMA OwnDoctor ==
  ASSUME IInv, NEW k \in Jobs, Doctor(k) \/ StartRunner(k)
  PROVE  Undisturbed(k)'
<1>1. job \in [Jobs -> Job] /\ Idle \in Job
  BY IdleOK DEF IInv, JobsType
<1>2. ASSUME NEW r, NEW phase, image' = image,
             job' = [job EXCEPT ![k] = [Idle EXCEPT !.pc = "ensure", !.r = r, !.phase = phase,
                                            !.clean = image[r] # "damaged"]]
      PROVE  Undisturbed(k)'
  <2> DEFINE begun == [Idle EXCEPT !.pc = "ensure", !.r = r, !.phase = phase,
                                   !.clean = image[r] # "damaged"]
  <2>1. /\ begun.pc = "ensure" /\ begun.s = None /\ ~begun.left /\ begun.r = r
        /\ begun.clean => image[r] # "damaged"
    BY DEF Idle
  <2>2. job'[k] = begun
    BY <1>1, <1>2
  <2> HIDE DEF begun
  <2> QED
    BY <1>2, <2>1, <2>2 DEF Undisturbed
<1>3. CASE Doctor(k)
  BY <1>2, <1>3 DEF Doctor
<1>4. CASE StartRunner(k)
  BY <1>2, <1>4 DEF StartRunner
<1> QED
  BY <1>3, <1>4

(* A boot is clean if nothing disturbs it at its beginning, and the        *)
(* lifecycle begins none beside a boot nothing has disturbed.              *)
LEMMA BootKeeps ==
  ASSUME BootInv, NEW k \in Jobs, NEW s \in Sessions, Boot(k, s), NEW j \in Jobs
  PROVE  Undisturbed(j)'
<1> DEFINE begun == [Idle EXCEPT !.pc = "runtime", !.s = s, !.phase = "init",
                        !.clean = /\ AloneIn(k, s) /\ Pin(s) \in catalog
                                  /\ image[Pin(s)] # "damaged"]
<1>1. /\ job \in [Jobs -> Job] /\ Idle \in Job /\ job[k] = Idle /\ s # None
      /\ UNCHANGED <<runner, image, session>>
  BY IdleOK, NamesAssumption DEF BootInv, IInv, JobsType, Boot, Unused
<1>2. job[k].s = None
  BY <1>1 DEF Idle
<1>3. (\A i \in Jobs : job[i].s # s) <=> AloneIn(k, s)
  BY <1>1, <1>2 DEF AloneIn
<1>4. /\ begun.pc = "runtime" /\ begun.s = s /\ ~begun.left /\ begun.phase = "init"
      /\ begun.clean => AloneIn(k, s) /\ Pin(s) \in catalog /\ image[Pin(s)] # "damaged"
  BY DEF Idle
<1>5. \/ job' = [job EXCEPT ![k] = begun]
      \/ job'[k] = begun /\ \A i \in Jobs \ {k} : job'[i] = job[i]
  <2>1. Pin(s) = (IF dir[s].runtime = None THEN default ELSE dir[s].runtime)
    BY DEF Pin
  <2>2. ((\A i \in Jobs : job[i].s # s) /\ Pin(s) \in catalog /\ image[Pin(s)] # "damaged")
           = (AloneIn(k, s) /\ Pin(s) \in catalog /\ image[Pin(s)] # "damaged")
    BY <1>3
  <2> QED
    BY <1>1, <2>1, <2>2 DEF Boot
<1> HIDE DEF begun
<1>6. job'[k] = begun /\ \A i \in Jobs \ {k} : job'[i] = job[i]
  BY <1>1, <1>5
<1>7. CASE j = k
  <2>1. begun.clean => AsFound(k)'
    BY <1>1, <1>4, <1>6 DEF AsFound, AloneIn, Pin, runner, session
  <2> QED
    BY <1>1, <1>4, <1>6, <1>7, <2>1 DEF Undisturbed
<1>8. CASE j # k
  <2>1. job'[j] = job[j] /\ Undisturbed(j)
    BY <1>6, <1>8 DEF BootInv
  <2>2. job[j].clean => job[j].s # s
    BY <2>1 DEF Undisturbed, Boot
  <2>3. job[j].clean /\ job[j].s # None => AsFound(j)'
    BY <1>1, <1>4, <1>6, <2>1, <2>2 DEF Undisturbed, AsFound, AloneIn, Pin, runner, session
  <2> QED
    BY <1>1, <2>1, <2>3 DEF Undisturbed
<1> QED
  BY <1>7, <1>8
-----------------------------------------------------------------------------
(* The runner's image is there while it serves, and its chains are what    *)
(* they are of.                                                            *)
LEMMA StepServes ==
  ASSUME IInv, Served, NEW k \in Jobs,
         Step(k) \/ Stop(k) \/ Report(k) \/ Abandon(k) \/ Fault(k)
  PROVE  Served'
<1>1. Frame(k) /\ (job'[k] = Idle \/ Carries(job[k], job'[k]))
  BY StepFrame, StepChain
<1>2. ASSUME NEW j \in Jobs
      PROVE  ServedOK(job[j])'
  <2>1. CASE j # k
    <3>1. job'[j] = job[j] /\ default' = default /\ ServedOK(job[j])
      BY <1>1, <2>1 DEF Frame, Served
    <3>2. up => up'
      BY <1>1 DEF Frame
    <3> QED
      BY <3>1, <3>2 DEF ServedOK
  <2>2. CASE j = k /\ job'[k] = Idle
    BY <2>2 DEF Idle, ServedOK
  <2>3. CASE j = k /\ Carries(job[k], job'[k])
    BY <1>1, <2>3 DEF Frame, Served, ServedOK, Carries
  <2> QED
    BY <1>1, <2>1, <2>2, <2>3
<1>3. up' => image'[default'] # "absent"
  <2>1. default \in Releases /\ RunnerType
    BY DEF IInv, RunnerType
  <2>2. CASE up
    BY <1>1, <2>1, <2>2 DEF Frame, Served
  <2>3. CASE ~up /\ up'
    <3>1. job[k].phase = "start" /\ (FindImage(k) \/ Commit(k))
      BY <2>3, ChainFacts
         DEF Step, LookForRuntime, LookForDisk, Stamp, StampSync, ReadPin, FindImage, Download,
             Commit, Verify, ListCandidates, RemoveCandidate, SweepSync, LookForExisting,
             Overlay, Seal, Publish, DiskSync, Validate, Stop, Report, Abandon, Fault,
             Ensured, runner
    <3>2. job[k].r = default
      BY <3>1 DEF Served, ServedOK
    <3>3. image'[default] # "absent"
      BY <2>1, <2>3, <3>1, <3>2 DEF FindImage, Commit, RunnerType
    <3> QED
      BY <1>1, <3>3 DEF Frame
  <2> QED
    BY <2>2, <2>3
<1> QED
  BY <1>2, <1>3 DEF Served
(* What begins a chain, and what ends one without a step of it.            *)
LEMMA OthersServe ==
  ASSUME IInv, Served,
         \/ \E k \in Jobs : StartRunner(k) \/ Doctor(k) \/ \E s \in Sessions : Boot(k, s)
         \/ Crash \/ PowerLoss \/ \E r \in Releases : Damage(r) \/ OperatorRemoves(r)
  PROVE  Served'
<1>1. /\ job \in [Jobs -> Job] /\ Idle \in Job /\ default \in Releases /\ RunnerType
      /\ Idle.s = None /\ Idle.phase = "none" /\ ~Idle.clean
  BY IdleOK DEF IInv, JobsType, RunnerType, Idle
<1>2. ASSUME NEW k \in Jobs, NEW new, job' = [job EXCEPT ![k] = new],
             UNCHANGED <<up, image>>, ServedOK(new)',
             default' = default \/ (~up /\ \A j \in Jobs : job[j].phase \in {"none", "doctor"})
      PROVE  Served'
  <2>1. job'[k] = new /\ \A j \in Jobs \ {k} : job'[j] = job[j]
    BY <1>1, <1>2
  <2>2. ASSUME NEW j \in Jobs
        PROVE  ServedOK(job[j])'
    <3>1. CASE j = k
      BY <1>2, <2>1, <3>1 DEF ServedOK
    <3>2. CASE j # k
      BY <1>2, <2>1, <3>2 DEF Served, ServedOK
    <3> QED
      BY <3>1, <3>2
  <2>3. up' => image'[default'] # "absent"
    BY <1>2 DEF Served
  <2> QED
    BY <2>2, <2>3 DEF Served
<1>3. ASSUME NEW k \in Jobs, Doctor(k) \/ StartRunner(k)
      PROVE  Served'
  <2>1. /\ default' \in Releases /\ UNCHANGED <<up, image>>
        /\ default' = default \/ (~up /\ \A j \in Jobs : job[j].phase \in {"none", "doctor"})
    BY <1>1, <1>3 DEF Doctor, StartRunner, runner
  <2>2. ASSUME NEW phase \in {"start", "doctor"}, NEW r, r = default',
               job' = [job EXCEPT ![k] = [Idle EXCEPT !.pc = "ensure", !.r = r, !.phase = phase,
                                              !.clean = image[r] # "damaged"]]
        PROVE  Served'
    <3>1. PICK begun : begun = [Idle EXCEPT !.pc = "ensure", !.r = r, !.phase = phase,
                                            !.clean = image[r] # "damaged"]
      OBVIOUS
    <3>2. begun.s = None /\ begun.r = r /\ begun.phase = phase
      BY <3>1 DEF Idle
    <3>3. job' = [job EXCEPT ![k] = begun]
      BY <2>2, <3>1
    <3>4. ServedOK(begun)'
      BY <2>1, <2>2, <3>2 DEF ServedOK
    <3> QED
      BY <1>2, <2>1, <3>3, <3>4
  <2>3. CASE Doctor(k)
    <3>1. default' = default
      BY <2>3 DEF Doctor, runner
    <3> QED
      BY <2>2, <2>3, <3>1 DEF Doctor
  <2>4. CASE StartRunner(k)
    BY <2>2, <2>4 DEF StartRunner
  <2> QED
    BY <1>3, <2>3, <2>4
<1>4. ASSUME NEW k \in Jobs, NEW s \in Sessions, Boot(k, s)
      PROVE  Served'
  <2>1. PICK clean : job' = [job EXCEPT ![k] = [Idle EXCEPT !.pc = "runtime", !.s = s,
                                                   !.phase = "init", !.clean = clean]]
    BY <1>4 DEF Boot
  <2> DEFINE begun == [Idle EXCEPT !.pc = "runtime", !.s = s, !.phase = "init", !.clean = clean]
  <2>2. begun.s = s /\ begun.phase = "init" /\ s # None
    BY NamesAssumption DEF Idle
  <2>3. UNCHANGED <<up, image, default>> /\ up
    BY <1>4 DEF Boot, runner
  <2>4. job' = [job EXCEPT ![k] = begun]
    BY <2>1
  <2> HIDE DEF begun
  <2>5. ServedOK(begun)'
    BY <2>2, <2>3 DEF ServedOK
  <2> QED
    BY <1>2, <2>3, <2>4, <2>5
<1>5. CASE Crash
  BY <1>1, <1>5 DEF Crash, Served, ServedOK
<1>6. CASE PowerLoss
  BY <1>1, <1>6 DEF PowerLoss, Served, ServedOK
<1>7. ASSUME NEW r \in Releases, Damage(r)
      PROVE  Served'
  <2>1. \A j \in Jobs : /\ job'[j].s = job[j].s /\ job'[j].phase = job[j].phase
                        /\ job'[j].r = job[j].r /\ ~job'[j].clean
    BY <1>1, <1>7 DEF Damage, Spoilt, Job
  <2>2. \A o \in Releases : image[o] # "absent" => image'[o] # "absent"
    BY <1>1, <1>7 DEF Damage, RunnerType
  <2>3. UNCHANGED <<up, default>>
    BY <1>7 DEF Damage, runner
  <2> QED
    BY <1>1, <2>1, <2>2, <2>3 DEF Served, ServedOK
<1>8. ASSUME NEW r \in Releases, OperatorRemoves(r)
      PROVE  Served'
  BY <1>8 DEF OperatorRemoves, runner, Served, ServedOK
<1> QED
  BY <1>3, <1>4, <1>5, <1>6, <1>7, <1>8
-----------------------------------------------------------------------------
(* A runner that starts, `doctor`, crashes and damage leave an undisturbed *)
(* chain as it is, or end it.                                              *)
LEMMA OthersLeave ==
  ASSUME BootInv, NEW j \in Jobs,
         \/ \E k \in Jobs : StartRunner(k) \/ Doctor(k)
         \/ Crash \/ PowerLoss \/ \E r \in Releases : Damage(r) \/ OperatorRemoves(r)
  PROVE  Undisturbed(j)'
<1>1. /\ job \in [Jobs -> Job] /\ job[j] \in Job /\ IInv /\ Served /\ Undisturbed(j)
      /\ Idle.s = None /\ ~Idle.clean
  BY ChainFacts DEF BootInv, IInv, JobsType, Idle
<1>2. CASE ~job'[j].clean
  BY <1>2 DEF Undisturbed
<1>3. ASSUME job'[j] = job[j], job[j].s = None, image' = image
      PROVE  Undisturbed(j)'
  BY <1>1, <1>3 DEF Undisturbed
<1>4. ASSUME NEW k \in Jobs, StartRunner(k) \/ Doctor(k)
      PROVE  Undisturbed(j)'
  <2>1. CASE j = k
    BY <1>1, <1>4, <2>1, OwnDoctor
  <2>2. CASE j # k
    <3>1. job'[j] = job[j] /\ image' = image
      BY <1>1, <1>4, <2>2 DEF StartRunner, Doctor
    <3>2. CASE StartRunner(k)
      <4>1. job[j].s = None
        BY <1>1, <3>2 DEF StartRunner, Served, ServedOK
      <4> QED
        BY <1>3, <3>1, <4>1
    <3>3. CASE Doctor(k)
      <4>1. /\ job[k] = Idle /\ UNCHANGED <<runner, image, session>> /\ job'[k].s = None
            /\ \A i \in Jobs \ {k} : job'[i] = job[i]
        BY <1>1, <3>3 DEF Doctor, Unused, Idle
      <4>2. AsFound(j) /\ job[j].s # None => AsFound(j)'
        BY <3>1, <4>1 DEF AsFound, AloneIn, Pin, runner, session
      <4> QED
        BY <1>1, <3>1, <4>2 DEF Undisturbed
    <3> QED
      BY <1>4, <3>2, <3>3
  <2> QED
    BY <2>1, <2>2
<1>5. CASE Crash
  <2>1. job'[j] = Idle \/ (job'[j] = job[j] /\ job[j].phase = "doctor" /\ image' = image)
    BY <1>5 DEF Crash
  <2>2. job[j].phase = "doctor" => job[j].s = None
    BY <1>1 DEF Served, ServedOK
  <2> QED
    BY <1>1, <1>2, <1>3, <2>1, <2>2
<1>6. CASE PowerLoss
  BY <1>1, <1>2, <1>6 DEF PowerLoss
<1>7. ASSUME NEW r \in Releases, Damage(r)
      PROVE  Undisturbed(j)'
  BY <1>1, <1>2, <1>7 DEF Damage, Spoilt, Job
<1>8. ASSUME NEW r \in Releases, OperatorRemoves(r)
      PROVE  Undisturbed(j)'
  BY <1>1, <1>2, <1>8 DEF OperatorRemoves
<1> QED
  BY <1>4, <1>5, <1>6, <1>7, <1>8

LEMMA BootInductive == BootInv /\ [Next]_vars => BootInv'
<1> SUFFICES ASSUME BootInv, [Next]_vars
             PROVE  BootInv'
  OBVIOUS
<1>1. IInv'
  BY Inductive DEF BootInv
<1>2. ASSUME NEW k \in Jobs, Step(k) \/ Stop(k) \/ Report(k) \/ Abandon(k) \/ Fault(k)
      PROVE  BootInv'
  <2>1. Frame(k) /\ Served' /\ IInv /\ Served
    BY <1>2, StepFrame, StepServes DEF BootInv
  <2>2. Undisturbed(k)'
    BY <1>2, <2>1, OwnStep, OwnEnds DEF BootInv
  <2>3. \A j \in Jobs \ {k} : Undisturbed(j)'
    BY <2>1, OthersKept DEF BootInv
  <2> QED
    BY <1>1, <2>1, <2>2, <2>3 DEF BootInv
<1>3. ASSUME NEW k \in Jobs, NEW s \in Sessions, Boot(k, s)
      PROVE  BootInv'
  BY <1>1, <1>3, BootKeeps, OthersServe DEF BootInv
<1>4. CASE \/ \E k \in Jobs : StartRunner(k) \/ Doctor(k)
           \/ Crash \/ PowerLoss \/ \E r \in Releases : Damage(r) \/ OperatorRemoves(r)
  BY <1>1, <1>4, OthersLeave, OthersServe DEF BootInv
<1>5. CASE UNCHANGED vars
  BY <1>1, <1>5 DEF vars, BootInv, Served, ServedOK, Undisturbed, AsFound, AloneIn, Pin
<1> QED
  BY <1>2, <1>3, <1>4, <1>5 DEF Next

(* A boot that nothing disturbs, whatever earlier ones have left behind,   *)
(* starts its VM (LayerGondolin and the files it calls), and so do a start *)
(* of the runner and `doctor`.                                             *)
THEOREM CleanBootsSucceed == Spec => []CleanBootSucceeds
<1>1. Init => BootInv
  BY Initially DEF Init, BootInv, Served, ServedOK, Undisturbed, Idle
<1>2. BootInv => CleanBootSucceeds
  BY DEF BootInv, Undisturbed, CleanBootSucceeds
<1> QED
  BY <1>1, <1>2, BootInductive, PTL DEF Spec
=============================================================================
