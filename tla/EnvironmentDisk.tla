--------------------------- MODULE EnvironmentDisk ---------------------------
(***************************************************************************)
(* What the runner's boots put on its file system: the verified guest      *)
(* images (packages/runner/src/environment/gondolin/guest-image/           *)
(* installer.ts), the runtime an environment is pinned to                  *)
(* (session-runtime.ts) and its root disk, an overlay of that image        *)
(* (persistent-root-disk.ts), in the order layer.ts calls them.            *)
(*                                                                         *)
(* A job is the promise chain of one boot, of a runner's start, or of      *)
(* `doctor`, which is a process of its own.  A boot that is interrupted    *)
(* leaves the promise it waits for running to its end.  Temporary files    *)
(* have a random name, so only those that something sweeps are state.      *)
(***************************************************************************)
EXTENDS FiniteSets

CONSTANTS
    Sessions,
    Releases,   \* of the guest image
    Jobs,
    None,
    Stale       \* a candidate disk whose job is gone

ASSUME NamesAssumption ==
    /\ None \notin Sessions \cup Releases
    /\ None \notin [backing : Releases, maker : Jobs]
    /\ Stale \notin Jobs

VARIABLES
    up,         \* the runner serves boots
    default,    \* GUEST_IMAGE_RELEASE of the runner's version
    catalog,    \* its GUEST_IMAGE_RELEASES
    image,      \* images/<release>: "absent", "whole" or "damaged"
    dir,        \* per session: runtime.json and root-disk.qcow2
    durable,    \* per session: what of them a power loss may leave
    candidates, \* per session: root-disk.qcow2.candidate-* files
    job         \* per job: where its chain is

vars == <<up, default, catalog, image, dir, durable, candidates, job>>

runner == <<up, default, catalog>>
session == <<dir, durable, candidates>>

Disk == [backing : Releases, maker : Jobs]
Directory == [runtime : Releases \cup {None}, disk : Disk \cup {None}]
EmptyDirectory == [runtime |-> None, disk |-> None]

(* The awaits of the chain, by the promise they belong to.                 *)
RuntimeSteps == {"runtime", "legacy", "stamp", "stampsync"}
ImageSteps == {"read", "ensure", "download", "commit", "verify"}
DiskSteps == {"sweep", "remove", "sweepsync", "look", "overlay", "seal",
              "publish", "disksync"}
Steps == RuntimeSteps \cup ImageSteps \cup DiskSteps \cup {"validate"}

Job == [pc : Steps \cup {"idle", "running", "failed"},
        s : Sessions \cup {None}, r : Releases \cup {None},
        \* a runner's start, doctor, a boot's initializeRootDisk and its make
        phase : {"none", "start", "doctor", "init", "make"},
        seen : SUBSET (Jobs \cup {Stale}),  \* candidates it has still to remove
        left : BOOLEAN,                     \* its boot was interrupted
        clean : BOOLEAN]                    \* nothing disturbed it (history)

Idle == [pc |-> "idle", s |-> None, r |-> None, phase |-> "none", seen |-> {},
         left |-> FALSE, clean |-> FALSE]

TypeOK ==
    /\ up \in BOOLEAN
    /\ catalog \subseteq Releases /\ default \in catalog
    /\ image \in [Releases -> {"absent", "whole", "damaged"}]
    /\ dir \in [Sessions -> Directory]
    /\ durable \in [Sessions -> SUBSET Directory]
    /\ candidates \in [Sessions -> SUBSET (Jobs \cup {Stale})]
    /\ job \in [Jobs -> Job]

Init ==
    /\ up = FALSE
    /\ default \in Releases /\ catalog = {default}
    /\ image = [r \in Releases |-> "absent"]
    /\ dir = [s \in Sessions |-> EmptyDirectory]
    /\ durable = [s \in Sessions |-> {EmptyDirectory}]
    /\ candidates = [s \in Sessions |-> {}]
    /\ job = [j \in Jobs |-> Idle]
-----------------------------------------------------------------------------
(* Steps of a chain *)

Goes(j, pc) == job' = [job EXCEPT ![j] = [@ EXCEPT !.pc = pc]]

(* The promise resolves; nobody goes on from it if its boot is gone.       *)
Resolved(chain, pc) == IF chain.left THEN Idle ELSE [chain EXCEPT !.pc = pc]
Resolves(j, pc) == job' = [job EXCEPT ![j] = Resolved(@, pc)]
Rejects(j) == Resolves(j, "failed")
Spoilt(chain) == [chain EXCEPT !.clean = FALSE]

(* Changes of a session's directory, and the sync that makes them last.    *)
Writes(s, files) ==
    /\ dir' = [dir EXCEPT ![s] = files]
    /\ durable' = [durable EXCEPT ![s] = @ \cup {files}]
Syncs(s) == durable' = [durable EXCEPT ![s] = {dir[s]}]

(* `await using cleanup`: a job removes its candidate however it ends.     *)
Disposes(j) ==
    candidates' = [candidates EXCEPT ![job[j].s] = @ \ {j}]
-----------------------------------------------------------------------------
(* initializeSessionRuntime *)

LookForRuntime(j) ==
    /\ job[j].pc = "runtime"
    /\ IF dir[job[j].s].runtime # None THEN Resolves(j, "read") ELSE Goes(j, "legacy")
    /\ UNCHANGED <<runner, image, session>>

LookForDisk(j) ==
    /\ job[j].pc = "legacy"
    /\ IF dir[job[j].s].disk # None THEN Rejects(j) ELSE Goes(j, "stamp")
    /\ UNCHANGED <<runner, image, session>>

(* The written and synced candidate is linked, unless there is one.        *)
Stamp(j) ==
    /\ job[j].pc = "stamp"
    /\ LET s == job[j].s IN
       IF dir[s].runtime # None
       THEN Resolves(j, "read") /\ UNCHANGED <<dir, durable>>
       ELSE Goes(j, "stampsync") /\ Writes(s, [dir[s] EXCEPT !.runtime = default])
    /\ UNCHANGED <<runner, image, candidates>>

StampSync(j) ==
    /\ job[j].pc = "stampsync"
    /\ Syncs(job[j].s)
    /\ Resolves(j, "read")
    /\ UNCHANGED <<runner, image, dir, candidates>>
-----------------------------------------------------------------------------
(* readSessionGuestImage, ensureGuestImage, prepareGuestImageForVm *)

(* Mutant: an unknown runtime falls back to the runner's own image.        *)
ReadPin_Default(j) ==
    /\ job[j].pc = "read"
    /\ LET pin == dir[job[j].s].runtime
           pinned == [job[j] EXCEPT !.r = IF pin \in catalog THEN pin ELSE default]
       IN job' = [job EXCEPT ![j] = IF pinned.r = default
                THEN Resolved(pinned, "verify") ELSE [pinned EXCEPT !.pc = "ensure"]]
    /\ UNCHANGED <<runner, image, session>>

(* The runner's own image was ensured at its start.                        *)
ReadPin(j) ==
    /\ job[j].pc = "read"
    /\ LET pin == dir[job[j].s].runtime IN
       IF pin \notin catalog THEN Rejects(j)
       ELSE LET pinned == [job[j] EXCEPT !.r = pin] IN
            job' = [job EXCEPT ![j] = IF pin = default
                THEN Resolved(pinned, "verify") ELSE [pinned EXCEPT !.pc = "ensure"]]
    /\ UNCHANGED <<runner, image, session>>

(* The image is there: a runner may serve, doctor is content, a boot goes on. *)
Ensured(j) ==
    /\ up' = (up \/ job[j].phase = "start")
    /\ job' = [job EXCEPT ![j] =
            IF @.s = None THEN Idle ELSE Resolved(@, "verify")]

(* An image that is there is verified, never replaced.                     *)
FindImage(j) ==
    /\ job[j].pc = "ensure"
    /\ \/ image[job[j].r] = "whole" /\ Ensured(j)
       \/ image[job[j].r] = "damaged" /\ Rejects(j) /\ UNCHANGED up
       \/ image[job[j].r] = "absent" /\ Goes(j, "download") /\ UNCHANGED up
    /\ UNCHANGED <<default, catalog, image, session>>

(* Download, extraction and verification in a temporary directory: only    *)
(* the very bytes the release pins come through.                           *)
Download(j) ==
    /\ job[j].pc = "download"
    /\ \E bytes \in {"pinned", "other"} :
          IF bytes = "pinned" THEN Goes(j, "commit")
          ELSE job' = [job EXCEPT ![j] = Resolved(Spoilt(@), "failed")]
    /\ UNCHANGED <<runner, image, session>>

(* Mutant: whoever loses the race to install fails.                        *)
Commit_Alone(j) ==
    /\ job[j].pc = "commit"
    /\ IF image[job[j].r] = "absent"
       THEN image' = [image EXCEPT ![job[j].r] = "whole"] /\ Ensured(j)
       ELSE Rejects(j) /\ UNCHANGED <<up, image>>
    /\ UNCHANGED <<default, catalog, session>>

(* The rename fails when another job has put the image there.              *)
Commit(j) ==
    /\ job[j].pc = "commit"
    /\ \/ /\ image[job[j].r] = "absent"
          /\ image' = [image EXCEPT ![job[j].r] = "whole"]
          /\ Ensured(j)
       \/ image[job[j].r] = "whole" /\ Ensured(j) /\ UNCHANGED image
       \/ image[job[j].r] = "damaged" /\ Rejects(j) /\ UNCHANGED <<up, image>>
    /\ UNCHANGED <<default, catalog, session>>

Verify(j) ==
    /\ job[j].pc = "verify"
    /\ IF image[job[j].r] # "whole" THEN Rejects(j)
       ELSE Resolves(j, IF job[j].phase = "init" THEN "sweep" ELSE "validate")
    /\ UNCHANGED <<runner, image, session>>
-----------------------------------------------------------------------------
(* initializePersistentRootDisk *)

(* assertBackingImage: the overlay of the image the job was given.         *)
Matches(j) == dir[job[j].s].disk.backing = job[j].r

(* The disk is there: the boot goes on to make its environment.            *)
DiskMade(j) ==
    job' = [job EXCEPT ![j] = Resolved([@ EXCEPT !.phase = "make"], "read")]

(* The candidates of earlier boots, one of which may still be at work.     *)
ListCandidates(j) ==
    /\ job[j].pc = "sweep"
    /\ LET found == candidates[job[j].s] IN
       job' = [job EXCEPT ![j] = [@ EXCEPT !.seen = found,
                                    !.pc = IF found = {} THEN "look" ELSE "remove"]]
    /\ UNCHANGED <<runner, image, session>>

RemoveCandidate(j, c) ==
    /\ job[j].pc = "remove" /\ c \in job[j].seen
    /\ LET s == job[j].s
           rest == job[j].seen \ {c}
       IN IF c \in candidates[s]
          THEN /\ candidates' = [candidates EXCEPT ![s] = @ \ {c}]
               /\ job' = [job EXCEPT ![j] = [@ EXCEPT !.seen = rest,
                                 !.pc = IF rest = {} THEN "sweepsync" ELSE "remove"]]
          ELSE /\ job' = [job EXCEPT ![j] = Resolved([@ EXCEPT !.seen = {}], "failed")]
               /\ UNCHANGED candidates
    /\ UNCHANGED <<runner, image, dir, durable>>

SweepSync(j) ==
    /\ job[j].pc = "sweepsync"
    /\ Syncs(job[j].s)
    /\ Goes(j, "look")
    /\ UNCHANGED <<runner, image, dir, candidates>>

LookForExisting(j) ==
    /\ job[j].pc = "look"
    /\ IF dir[job[j].s].disk = None THEN Goes(j, "overlay")
       ELSE IF Matches(j) THEN DiskMade(j)
       ELSE Rejects(j)
    /\ UNCHANGED <<runner, image, session>>

Overlay(j) ==
    /\ job[j].pc = "overlay"
    /\ candidates' = [candidates EXCEPT ![job[j].s] = @ \cup {j}]
    /\ Goes(j, "seal")
    /\ UNCHANGED <<runner, image, dir, durable>>

(* chmod and sync: the candidate may have been swept.                      *)
Seal(j) ==
    /\ job[j].pc = "seal"
    /\ IF j \in candidates[job[j].s] THEN Goes(j, "publish") ELSE Rejects(j)
    /\ UNCHANGED <<runner, image, session>>

(* Mutant: the candidate is renamed over whatever is there.                *)
Publish_Renames(j) ==
    /\ job[j].pc = "publish"
    /\ LET s == job[j].s IN
       IF j \notin candidates[s] THEN Rejects(j) /\ UNCHANGED session
       ELSE /\ Writes(s, [dir[s] EXCEPT !.disk = [backing |-> job[j].r, maker |-> j]])
            /\ Goes(j, "disksync")
            /\ Disposes(j)
    /\ UNCHANGED <<runner, image>>

(* The hard link never replaces a disk: one that is there must match.      *)
Publish(j) ==
    /\ job[j].pc = "publish"
    /\ LET s == job[j].s IN
       \/ /\ j \notin candidates[s]
          /\ Rejects(j)
          /\ UNCHANGED session
       \/ /\ j \in candidates[s] /\ dir[s].disk = None
          /\ Writes(s, [dir[s] EXCEPT !.disk = [backing |-> job[j].r, maker |-> j]])
          /\ Goes(j, "disksync")
          /\ UNCHANGED candidates
       \/ /\ j \in candidates[s] /\ dir[s].disk # None
          /\ IF Matches(j) THEN DiskMade(j) ELSE Rejects(j)
          /\ Disposes(j)
          /\ UNCHANGED <<dir, durable>>
    /\ UNCHANGED <<runner, image>>

DiskSync(j) ==
    /\ job[j].pc = "disksync"
    /\ Syncs(job[j].s)
    /\ DiskMade(j)
    /\ Disposes(j)
    /\ UNCHANGED <<runner, image, dir>>
-----------------------------------------------------------------------------
(* Boots, the runner, and what disturbs them *)

(* The VM is created over the validated disk.                              *)
Validate(j) ==
    /\ job[j].pc = "validate"
    /\ IF dir[job[j].s].disk # None /\ Matches(j)
       THEN Goes(j, "running") ELSE Rejects(j)
    /\ UNCHANGED <<runner, image, session>>

(* A stop syncs the disk and its directory, unless that fails.             *)
Stop(j) ==
    /\ job[j].pc = "running"
    /\ job' = [job EXCEPT ![j] = Idle]
    /\ Syncs(job[j].s) \/ UNCHANGED durable
    /\ UNCHANGED <<runner, image, dir, candidates>>

Report(j) ==
    /\ job[j].pc = "failed"
    /\ job' = [job EXCEPT ![j] = Idle]
    /\ UNCHANGED <<runner, image, session>>

(* The names of candidates are never used again.                           *)
Unused(j) == job[j] = Idle /\ \A k \in Jobs : j \notin job[k].seen

(* The lifecycle has one boot of a session, beside those it gave up.  It   *)
(* is clean if none of them is at work and its image can be had.           *)
Boot(j, s) ==
    /\ up /\ Unused(j)
    /\ \A k \in Jobs : job[k].s = s => job[k].left
    /\ LET pin == IF dir[s].runtime = None THEN default ELSE dir[s].runtime IN
       job' = [job EXCEPT ![j] = [Idle EXCEPT !.pc = "runtime", !.s = s, !.phase = "init",
                  !.clean = /\ \A k \in Jobs : job[k].s # s
                            /\ pin \in catalog /\ image[pin] # "damaged"]]
    /\ UNCHANGED <<runner, image, session>>

(* The fiber is interrupted; the acquisition of the VM cannot be.          *)
Abandon(j) ==
    /\ job[j].pc \in Steps /\ job[j].s # None /\ ~job[j].left
    /\ job[j].phase = "make" => job[j].pc \notin {"verify", "validate"}
    /\ job' = [job EXCEPT ![j] = [Spoilt(@) EXCEPT !.left = TRUE]]
    /\ UNCHANGED <<runner, image, session>>

(* An operation of the file system, qemu-img or the network fails; so may  *)
(* the removal of the candidate.                                           *)
Fault(j) ==
    /\ job[j].pc \in Steps
    /\ job' = [job EXCEPT ![j] = Resolved([Spoilt(@) EXCEPT !.seen = {}], "failed")]
    /\ LET s == job[j].s IN
       IF s # None /\ j \in candidates[s]
       THEN \E left \in {{}, {Stale}} :
               candidates' = [candidates EXCEPT ![s] = (@ \ {j}) \cup left]
       ELSE UNCHANGED candidates
    /\ UNCHANGED <<runner, image, dir, durable>>

(* A version of the runner starts: an upgrade, or a downgrade.             *)
StartRunner(j) ==
    /\ ~up /\ Unused(j)
    /\ \A k \in Jobs : job[k].phase \in {"none", "doctor"}
    /\ default' \in Releases
    /\ catalog' \in {known \in SUBSET Releases : default' \in known}
    /\ job' = [job EXCEPT ![j] = [Idle EXCEPT !.pc = "ensure", !.r = default',
                  !.phase = "start", !.clean = image[default'] # "damaged"]]
    /\ UNCHANGED <<up, image, session>>

Doctor(j) ==
    /\ Unused(j)
    /\ job' = [job EXCEPT ![j] = [Idle EXCEPT !.pc = "ensure", !.r = default,
                  !.phase = "doctor", !.clean = image[default] # "damaged"]]
    /\ UNCHANGED <<runner, image, session>>

Orphaned == [s \in Sessions |-> IF candidates[s] = {} THEN {} ELSE {Stale}]

(* The process ends: `doctor` goes on.                                     *)
Crash ==
    /\ up \/ \E j \in Jobs : job[j].phase = "start"
    /\ up' = FALSE
    /\ job' = [j \in Jobs |-> IF job[j].phase = "doctor" THEN job[j] ELSE Idle]
    /\ candidates' = Orphaned
    /\ UNCHANGED <<default, catalog, image, dir, durable>>

(* What was not synced may be gone; the images' directory never is synced. *)
PowerLoss ==
    /\ up' = FALSE
    /\ job' = [j \in Jobs |-> Idle]
    /\ dir' \in {d \in [Sessions -> UNION {durable[s] : s \in Sessions}] :
                    \A s \in Sessions : d[s] \in durable[s]}
    /\ durable' = [s \in Sessions |-> {dir'[s]}]
    /\ candidates' \in {c \in [Sessions -> {{}, {Stale}}] :
                           \A s \in Sessions : c[s] \subseteq Orphaned[s]}
    /\ \E lost \in SUBSET {r \in Releases : image[r] = "whole"} :
          image' = [r \in Releases |-> IF r \in lost THEN "absent" ELSE image[r]]
    /\ UNCHANGED <<default, catalog>>

Damage(r) ==
    /\ image[r] = "whole"
    /\ image' = [image EXCEPT ![r] = "damaged"]
    /\ job' = [j \in Jobs |-> Spoilt(job[j])]
    /\ UNCHANGED <<runner, session>>

(* The operator removes it while the runner is stopped.                    *)
OperatorRemoves(r) ==
    /\ image[r] = "damaged" /\ ~up
    /\ \A j \in Jobs : job[j] = Idle
    /\ image' = [image EXCEPT ![r] = "absent"]
    /\ UNCHANGED <<runner, session, job>>

Step(j) ==
    \/ LookForRuntime(j) \/ LookForDisk(j) \/ Stamp(j) \/ StampSync(j)
    \/ ReadPin(j) \/ FindImage(j) \/ Download(j) \/ Commit(j) \/ Verify(j)
    \/ ListCandidates(j) \/ \E c \in job[j].seen : RemoveCandidate(j, c)
    \/ SweepSync(j) \/ LookForExisting(j) \/ Overlay(j) \/ Seal(j)
    \/ Publish(j) \/ DiskSync(j) \/ Validate(j)

Next ==
    \/ \E j \in Jobs :
          \/ Step(j) \/ Stop(j) \/ Report(j) \/ Abandon(j) \/ Fault(j)
          \/ StartRunner(j) \/ Doctor(j) \/ \E s \in Sessions : Boot(j, s)
    \/ Crash \/ PowerLoss
    \/ \E r \in Releases : Damage(r) \/ OperatorRemoves(r)

Spec == Init /\ [][Next]_vars
-----------------------------------------------------------------------------
(* Properties *)

(* Whatever a crash or a power loss leaves of an environment, its disk is  *)
(* an overlay of the image its runtime names: the two are published in     *)
(* that order, and neither an upgrade nor a downgrade of the runner gives  *)
(* a disk another image (guest-image.md: "fail without substituting        *)
(* another image").                                                        *)
DiskFitsPin ==
    \A s \in Sessions : \A files \in durable[s] :
        files.disk # None => files.runtime = files.disk.backing

(* A runtime and a disk that are on storage stay what they are: no boot,   *)
(* above all none that was given up and still runs, replaces a disk that a *)
(* VM may have written to ("without ever replacing an existing session     *)
(* disk").                                                                 *)
Holds(s, part) == \A files \in durable[s] : files[part] = dir[s][part]
FilesAreKept ==
    [][\A s \in Sessions : \A part \in {"runtime", "disk"} :
          dir[s][part] # None /\ Holds(s, part)
              => dir'[s][part] = dir[s][part] /\ Holds(s, part)']_vars

(* A boot that nothing disturbs starts its VM, whatever earlier boots,     *)
(* crashes, power losses and upgrades have left behind, and whatever boots *)
(* of other environments install beside it; likewise a start of the runner.*)
CleanBootSucceeds == \A j \in Jobs : job[j].pc = "failed" => ~job[j].clean
=============================================================================
