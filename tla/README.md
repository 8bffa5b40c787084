# OpenOrb: a verification development

OpenOrb runs coding agents' *environments* — a guest VM over a persistent root
disk — on *runners* (`packages/runner`), for *Sessions* that live as Durable
Objects in a *gateway* (`packages/gateway`).  This directory models the parts
of it where order, failure and concurrency decide, in TLA+: the modules are
translated from the source, TLC checks them on small instances, and TLAPS
proves the properties that matter most for every instance.

All source paths below are relative to `src/packages/` unless they say
otherwise.  `PROJECT.json` maps every definition to the lines it models.

## 1. The system

### Components and their state

| component | source | state | operations |
|---|---|---|---|
| Environment lifecycle | `runner/src/environment/session/lifecycle.ts` | the current `Instance` (its scope, boot fiber, detach fiber), the published state, one lock | start, stop, restart, forceStop, `release` for a deletion |
| Environment actor | `…/session/actor.ts` | command permit, link fiber, credentials | control, stopForDeletion, shutdown, `changed` |
| Gondolin VM layer | `…/gondolin/layer.ts` | the VM handle, `closing` | acquire, probe, sync, close, run commands |
| Guest images and root disks | `…/gondolin/guest-image/*`, `…/gondolin/persistent-root-disk.ts` | `images/<release>`, per session `runtime.json`, `root-disk.qcow2` and its candidates | install, pin, sweep, publish, sync, validate, assert detached |
| Environment store | `…/session/store.ts` | one directory per session, a directory of deletions | create, remove, list, syncRootDisk |
| Environment supervisor | `…/session/supervisor.ts` | actors, `deleting`, admission permit | create, control, delete, changes, shutdown |
| Runner connection | `runner/src/connection/*` | two outbound WebSockets, reconnect backoff | watch, RPC handlers |
| Environment Link | `runner/src/environment/link/*`, `environments/src/runner/link.ts`, `pi-env/src/connection.ts` | a WebSocket per environment, requests under way | dial, attach, replace, relay, heartbeat, close |
| Runner registry | `gateway/app/cells/runners/runner-registry.ts` (a Durable Object) | per runner a slot with a control and a bulk connection, and the sessions of the control one | accept, acceptBulk, disconnectRunner, create / control / delete, notices |
| Environment providers | `environments/src/runner/provider.ts`, `environments/src/sandbox/*` | the Session's view of its environment | create, control, delete, notice |
| Session | `gateway/app/cells/session/session.ts`, `provisioning.ts` (a Durable Object each) | the durable record, an alarm, an operation queue, a decision queue | start, provision, prompt, wake, stop, restart, retry, archive, delete, notices, threads |
| Changes of a project | `gateway/app/cells/session/project.ts`, `git-snapshot.ts`, in the browser `session-changes-resource.tsx` | the stored Git Snapshot with its revision, the patches in the guest, the browser's rows and intents | refresh, publish, stage / unstage, hydrate, stream |
| Workspace | `gateway/app/cells/workspace/workspace.ts`, `oauth.ts` (a Durable Object), `session/start.ts` | catalogue of Sessions and projects, runners, provider login and credential | start and delete a Session, enrol and revoke runners, log in, refresh, disconnect |
| HTTP, UI, utilities | `gateway/app/actions`, `middleware`, `ui`, `utils` | — | requests |

### How they interact

A Session asks its provider to create, start, stop or delete an environment;
the provider calls the registry's Durable Object, which calls the runner over
the control connection the runner dialed; the runner's supervisor serves the
call under its admission permit and the actor's command permit, and the actor
drives the lifecycle, which acquires and releases the VM.  In the other
direction the lifecycle's `changed` callback is published to the supervisor's
subscribers, streamed by the runner's watch to the registry, and told to the
Session as a *notice*.  The commands of an agent do not take this way: the
runner dials an *Environment Link* to the Session and relays it to a daemon in
the guest.

### What is hard about it

* Every wait of the runner is an Effect fiber that a disconnect or a timeout
  may interrupt, and what it began — a boot, a detach, a scope's finalizers —
  goes on without it.  A stop that fails or is abandoned half-way leaves work
  for the next command.
* The runner's storage must survive a crash or a power loss between any two
  file-system operations, and the gateway was perhaps told of the result.
* The registry knows a runner through connections that overlap, break and are
  replaced, whose fibers tell Sessions things one at a time, with a deadline.
* The Session is evicted and restarted between any two awaits; one alarm is all
  that wakes it, for turns, setups, idle stops and deletions alike.
* A boot that was given up keeps running its promise chain over the files of
  the boot that follows.
* A link is authenticated, replaced, closed and found half open while requests
  wait on it; the browser's rows are optimistic while the snapshots that
  confirm them arrive late or not at all.
* The provider of a credential rotates its refresh token, so that every answer
  that is lost or applied twice matters.

### What makes each component correct

* *Lifecycle*: one VM on the disk, and it is never lost track of; "stopped"
  means released; a start after a failure first releases what is left; a stop
  that lost guest data says so; every command ends, but for the wait for a boot
  whose VM is never acquired.
* *Supervisor and store*: an acknowledged environment survives and is served; a
  deleted one never comes back; no disk is removed under a VM; a restart restores
  exactly what was acknowledged; calls that wait for each other's permits end
  unless a boot hangs in front of them.
* *Disks and images*: a disk stays the overlay of the image it was made on, is
  never replaced, and an undisturbed boot succeeds whatever was left behind.
* *Registry*: what is registered is served; a revoked runner is not; Sessions
  see their environment as it is once everything was told; slow Sessions stall
  nothing.
* *Link*: one current link per environment; a request is answered once, by the
  answer to it, or lost with its link or daemon; a cut is final; a running
  environment is linked again.
* *Session*: unfinished work always has something that will wake it; an idle
  stop meets no run; the agent's work is never cloned over; a deleted Session
  leaves nothing.
* *Changes*: the browser ends with what the guest holds, the index with what
  the user last asked for.
* *Workspace*: a Session is in the catalogue while its object exists; what the
  user ended stays ended; the stored token is the latest.

## 2. The modules

| module | models | role |
|---|---|---|
| `EnvironmentLifecycle` | `lifecycle.ts`, and what it drives of `actor.ts`, `layer.ts`, `agent-environment.ts`, `deadline.ts` | component |
| `EnvironmentContract` | abstract: what the lifecycle promises whoever reads its states | abstract specification |
| `EnvironmentSupervisor` | `supervisor.ts` over `store.ts`, with the permit of `actor.ts` | component |
| `EnvironmentDisk` | `installer.ts`, `session-runtime.ts`, `persistent-root-disk.ts`, in the order `layer.ts` calls them | component |
| `EnvironmentLink` | `connection.ts`, `link.ts`, `dial.ts`, `relay.ts`, the link fiber of `actor.ts` | composition of the gateway's and the runner's end |
| `RunnerRegistry` | `runner-registry.ts`, the watch of the runner, `provider.ts` in the Session | composition of runner, registry and Session |
| `Session` | `session.ts`, `provisioning.ts`, `record.ts`, with the runner as it answers | component |
| `SessionChanges` | `project.ts`, `git-snapshot.ts`, `session-changes-resource.tsx` | composition of guest, Session and browser |
| `Workspace` | `workspace.ts`, `oauth.ts`, `start.ts`, the deleting `controller.tsx` | component |
| `…Proofs` | theorems | proofs |
| `MC…` | instances of these for TLC | model checking |

The modules abstract one another along the calls of the system.
`EnvironmentSupervisor` abstracts an actor's compute to what
`EnvironmentContract` promises of it: whoever stops may fail, and only
"stopped" means released.  That `EnvironmentLifecycle` keeps the contract is
checked (`ContractSpec`) and proved (`ImplementsContract`).  `EnvironmentDisk`
details the preparations that are one step of the lifecycle's boot.
`RunnerRegistry` abstracts the supervisor to the environments it has and the
result of a call, `Session` abstracts both to a call that is served or refused
and whose answer may be lost, and `SessionChanges` abstracts the Session to its
refresh loop.

### EnvironmentLifecycle

A *caller* is the fiber of one control, stop or forceStop call; an *instance*
is an `Instance` object of the code with its fibers.  Identities of instances
are reused once no fiber of theirs runs and nothing refers to them (`Garbage`),
which keeps the state space finite without a bound on the number of boots.

* `lock`, `call`, `current`, `state` — the semaphore, where each caller is (its
  await), the `instance` variable and the published state.
* `inst[i]` — the boot fiber (`boot`), whether an interruption or a timeout
  waits for the uninterruptible acquisition (`kill`), the detach fiber
  (`detaching`), `closing` of the VM (`shut`), the scope (`final`, `closing`).
* `vm`, `stray`, `lossy`, `disk`, `link` — the VM processes with the disk open,
  those of them that a failed startup left without a handle, the guests detached
  without a sync (history), the published root disk, the link fiber.

What runs between two awaits is one action.  `start` is `Begin`, `StopBegin`
(its release of what is left), `StartBoot` or `StartShared`, `Ready`; `stop` is
`StopBegin`, `InterruptBoot`, `BootGone`, `SyncOk` / `SyncForced` /
`SyncRefused`, `Detached` / `DetachFailed`, `Closed` / `CloseDied`,
`DiskSynced` / `DiskFailed`; any wait may meet its `Deadline`, any suspended
caller its `Interrupt`.  The boot fiber is `BootPrepare`, `VmCreated` /
`VmRefused`, `VmAcquired` / `VmFails`, `BootReady`, `BootFail`, `BootTimeout`;
the detach and the scope are `DetachEnds` and `CloseEnds`.

### EnvironmentSupervisor

A *handler* is the fiber of one call.  `commands[s]` is the queue of the
actor's permit, in the order of arrival; `admission` the supervisor's permit.
`stray` is the VM of a failed startup that could not be closed, which makes the
deletion's check of the disk reject (`CheckDetached`).
`files[s]` is what is on the file system for a session (directory, published
definition, root disk, and a renamed directory that waits for its purge, `queued`,
with something in it, `full`) and `images` the set of file systems a power loss may
leave: the prefixes of the operations since the last sync.  A directory that is
`full` refuses the rename of a later deletion (`Refused`).  `told` is a history of
what the gateway was last told: of an environment that an earlier deletion's mark in
`deleting` hides from every control call, "hidden"; of a deletion whose removal
failed and was ignored, "unremoved".
Each file-system operation of `store.ts` is an action, its failure
(`CreateFails`, `RemoveFails`) and its interruption (`Interrupt`) included, as
is each step of the start that restores (`StartPurges`, `StartLists`,
`StartDiscards`, `StartRestores`).

### EnvironmentDisk

A *job* is the promise chain of one boot, of a runner's start or of `doctor`;
`job[j].pc` is the file-system operation it is at.  A boot that is interrupted
(`Abandon`) is marked `left`: nobody waits for its chain, which runs to the end
of the promise under way beside the boot that follows.  `image[r]` is the
directory of a release, `dir[s]` what is in a session's directory, `durable[s]`
the contents a power loss may leave of it, and `candidates[s]` the candidate
files that the next sweep finds.  Releases and the catalogue of the version that
runs change with `StartRunner`, an upgrade or a downgrade.  `clean` is history:
whether something disturbed the chain (a failure, an interruption, another boot
of its session, a damaged or unknown image).

### RunnerRegistry

Seen from one runner.  `conn[c]` is a connection with the fiber of `accept` or
`acceptBulk` that serves it: identified (`Authenticate`), registered (`Admit`,
`AdmitBulk`: the candidate replaces the slot's connection and closes it),
confirmed by a second authentication (`Confirm`), serving its watch
(`ApplyEvent`), ending (`EndWatch`, `RemoveConnection`, `Leave`).  Identities
are reused once nothing refers to them.  `slot` is the registry's `RunnerSlot`
and `hosted` the `sessions` of its control connection.  `sending[c]` are the notices the
fiber's loop has still to send; `Notify` is the RPC to the Session with the
provider's `notice`, `NoticeTimeout` the five-second deadline, after which the
notice may arrive late (`NotifyLate`).  The order in which a loop visits its
sessions is left open.  `Revoke` is the Workspace's record, `DisconnectRunner`
and `RevocationEnds` the call that the HTTP action makes after it.  A Session's
call of the runner is `CallBegins`, `CallServed` (by the supervisor),
`CallAccepted` (the registry's bookkeeping), `CallReported` (the provider's); a
creation repeated once its environment is known finds it and is the control call
that leaves it as it is, and after an unanswered deletion nothing but the deletion
is asked for.
`view[s]` and `link` are the Session's record of its environment and its
attached link.  `mishap` is history: whether connections overlapped, or a notice
was late or crossed a reply.

Environment states are "stopped" and "running" here: the registry and the
provider treat "starting" like "running" and the rest like "stopped".

### EnvironmentLink

`request[r]` is a request of the agent, `session[r]` a `DaemonSession` of
`connection.ts` (named by the request that began it) with its transport and its
waiters, `socket[l]` a WebSocket at both its ends: the gateway's state and
attachment, what the runner's relay does, and the frames under way.
`Ask` is `request()`: it finds the session, joins one that is opening, or begins
one; `Deliver` is a message event, `Heartbeat` and `StartTimeout` the timers,
`Teardown` what a failure of the transport settles.  `Dial` … `Attach` are the
runner's dial and `link.ts`'s authentication, after which a socket is `Serve`d
and the ones before it are replaced; `RunnerEnds`, `Break` and `SocketClosed`
are the ways it ends, noticed at each end by itself.  A daemon may end, or `Hang`:
the relay goes on echoing the gateway's heartbeat, and only the runner's own
keepalive (`pingDaemon`) ends the relay.  `Stop`, `Start`, `Revoke`
and `Delete` are what cuts links (`Changed` is the runner's notice, of which one
that the environment stopped may close the link of the next start), `Evict` the
hibernation of the object, which keeps its sockets and loses its requests.

### Session

`record` is the row; `queue` and `decisions` are `#operations` and `#decisions`,
of which the first entry is under way and `pc` is the await it is at.  Each
user's request (`Create`, `Request`, `Submit`, `Wake`, `Stop`, `Retry`, …) is what
it does up to the queue; `Operate` runs the head (setup: `BeginSetup`,
`Credentials`, `Guest`, `Clear`, `Clone`, `Resume`; stop: `BeginStop`, `Refreshed`),
and `ServeOperation` is the runner serving its call, with an answer or a loss.
`Look` and `Reconcile` are the two halves of a reconciliation, which reads the
agent and acts an await later; `Ring` is the alarm; `Delete`, `DeleteMedia`,
`ServeDeletion` and `Postpone` the deletion, which is not on the queue.  `Evict`
forgets all but `record`, `turn`, `alarm` and what is under way to the runner;
`Load` is `#open`.

### SessionChanges

`work[r]` is a refresh (the loop's, or a stop's): it reads the list of files
(`Lists`), then the patches, by a command of their own before which the guest may
have changed (`WritePatches`), publishes the patches (`PublishPatches`) and stores the
snapshot (`Store`).  `MayRefresh` is the guard of `refresh()`, which turns away what
is due while the environment is down or in a setup; `Start` and `EndSetup` are a
restart, which asks for no refresh.
`lane[f]` is the browser's `#mutationLanes`: the request under way for a file and
the one queued behind it; `request[f]` the one the gateway serves (`Execute`,
`Answered`).  A request whose connection breaks (`Lose`) fails for the browser and may
go on in the Session beside the next one (`late`, `ExecuteLate`).  `ServeSnapshot`
and `ApplySnapshot` are the fetch, with its answer; `LoadPatches` the hydration; `OpenStream` and `BreakStream` the event
stream, whose updates are lost while it is down.

### Workspace

The object serialises its operations: `awaiting` is the one that waits for the
provider (`RefreshAnswered`, `RevokeAnswered`, `StartAnswered`).  Only the poll of
a login works outside the queue: `ReadLogin` (the alarm), `PollAnswered`,
`SavePoll`.  A credential is the login it came from and the number of its refresh
token.  `AddEntry`, `CreateCalled`, `Opened`, `CreateAnswered` and `RemoveEntry`
are `start.ts`; `Repeat` the repeated `create_thread`; `DeleteEntry`,
`DeleteSession` and `FinishDeletion` the deletion of the controller.

## 3. What the runs check

| run | instance | what it shows |
|---|---|---|
| `Lifecycle` | 2 callers, 2 instances, interruptions, 1 stray VM | `VmOwned`, `StoppedIsReleased`, `LossIsReported`, `BootsOnFreeDisk`, and that the lifecycle implements `EnvironmentContract` (`ContractSpec`) |
| `LifecycleLive` | 2 callers, 1 instance, interruptions | `CommandsEnd` although detaches, finalizers and VMs may hang for ever (its exception: the wait for a boot in its acquisition) |
| `Supervisor` | 3 handlers, 1 session, 2 sizes of which 1 fits, faults, interruptions, 1 crash | `CreatedIsKept`, `DeletedIsGone`, `RemovedIsDetached`, `RestoresExactly`; `CallsEnd` |
| `Redelete` | 2 handlers, 1 session, interruptions, no faults, no crash | that `AnsweredIsGone` is violated: see section 6 |
| `Disk` | 1 session, 2 releases, 2 jobs; crashes, power losses, damage, faults without a bound | `DiskFitsPin`, `FilesAreKept`, `CleanBootSucceeds` |
| `Link` | 2 requests, 3 sockets, 1 eviction, break, stop, deletion or revocation | `AnswersMatch`, `OneLink`, `CutIsFinal`; `RequestsEnd`, `Relinked` |
| `Registry` | 1 session, 2 connections of both kinds, 1 unread event, a revocation | `RegisteredIsServed`, `RevokedIsOut`, `KnownIsHosted`, `ViewsSettle`, `RevokedIsUnlinked` |
| `RegistryLive` | 1 session, 1 connection at a time, timeouts, a late notice, a restart | `LossIsNoticed` |
| `Session` | 2 requests of 9 kinds, 1 eviction or fault | `Backed`, `IdleStopSparesRuns`, `GoneLeavesNothing`, `WorkIsKept` |
| `SessionLive` | a first prompt and a deletion, 1 eviction or fault | `DeletionEnds`, `WorkEnds`, `IdleIsStopped` |
| `Changes` | 2 files, 3 events: requests of the user and mishaps of 7 kinds, of which a run and a stop count two | `NothingMissed`, `LastIntentWins`, `SpinnersServed`, `SettledIsRight` |
| `Workspace` | 2 Sessions of which 1 is a child, 2 logins, 2 tokens, 1 call of the user, 1 mishap of 5 kinds | `EndedStaysEnded`, `CredentialHonoured`, `StartedIsListed`; `LoginEnds` |

Every property of a run that passes has a mutant in `PROJECT.json`: an operator beside the one it
replaces (`X_Why`), a plausible defect TLC finds through that property.

### Bounds, and why they are enough

* *Callers and handlers.*  The lifecycle's lock admits one caller at a time; the
  second shares its boot, waits, or comes after an interruption.  Three handlers
  let a deletion and a control call meet while a third waits.  The proofs of
  section 5 hold for any number of callers.
* *Instances.*  Two exist at once only while the caller of an old boot still
  waits for it.  Their identities are reused, so histories are not bounded.
* *Sessions.*  Sessions share the admission permit (which is held, not counted)
  and a connection; nothing else of one reads another's state.
* *Crashes*: one may come between any two steps of three handlers and is followed
  by all that the start does about it.  That a second one interrupts the recovery is
  covered by the proofs, which hold for any number.
* *Jobs.*  By definition no other job works on the session of a clean boot, so
  the second is another installer; for what is stored the second is the boot that
  was given up.  Section 5 proves all three properties for any number.
* *Connections.*  A connection and the one that replaces it, and identities are
  reused.  The five safety properties are proved for any number.
* *Events*: one unread event already lets a change overtake, be lost with its
  connection, or be read after its replacement.  Back-pressure of the stream is
  modelled by the bound: the runner's change waits.
* *Links and requests.*  The third socket is dialed while the first still closes
  and the second is authenticated; two requests share a session or follow each
  other on a link.  An eviction, a break, a stop, a deletion and a revocation are
  each possible everywhere; `MaxMishaps` allows one of them, after which all that
  the code does about it is explored.
* *Requests of a Session*: two after the creation, of any kind, meet in every
  order of queue, alarm, runner and agent.  The safety run has also been done
  with two mishaps (4.2 million states).
* *Files and events*: two files are needed for a mutation to overtake another's
  revision, a third request for the revision to go back; a request, its loss and the
  opposite request are three events; a run and a stop weigh two because so much
  follows from each.
* *Logins, tokens*: the second login replaces the first; the second token is the
  one a refresh rotates to.  `EndedStaysEnded`, `CredentialHonoured` and
  `StartedIsListed` are proved for any number.
* *In general* every safety property of a run is proved for every value of the
  constants (section 5), so these bounds matter for the liveness properties, for
  the mutants, and to show that the cases the theorems speak of happen.
* `MaxStrays`, `MaxLate`, `MaxRestarts` bound failures of which one is enough to
  reach every later step; the runs that set one to 0 look at what happens
  without it.
* `Timeouts` is FALSE in `Registry`: there a notice is sent however long it
  takes, and what goes wrong does so without a deadline.
* Symmetry is used in safety runs only; no property names an identity.
* `CHECK_DEADLOCK FALSE` is set where the counters of requests and mishaps end a
  behaviour (`Session`, `SessionLive`, `Link`, `Changes`, `Workspace`).

### Fairness

* Lifecycle: a caller's step is weakly fair (each wait under the lock has a
  deadline, `deadline.ts`), entering the lock strongly fair (Effect's semaphore is
  FIFO); a boot's preparations, its failure and the report that it is ready are
  weakly fair.  Nothing makes the acquisition of a VM end: it is uninterruptible
  (`layer.ts:112`), and the boot's deadline (`lifecycle.ts:138`) waits for the
  interruption of what it gives up.  Nor does anything make a detach, a finalizer or
  a stray VM end.  `changed("stopping")` interrupts the link fiber, whose relay waits
  for its daemon; that an aborted daemon ends (`layer.ts:416`) is assumed.
* Supervisor: a handler's steps are strongly fair (FIFO permits; storage operations
  end; a stop has deadlines); a crashed runner is started again.  Nothing makes a boot
  end.
* Registry: a connection's fiber, a revocation and the deadline of a notice are
  weakly fair.  Nothing is assumed of a runner, or of a Session's answer.
* Session: what the object has in memory goes on (weak fairness of its
  operation, decision, deletion and agent), the platform rings an alarm that is
  set and loads the object for an alarm or a notice; `IDLE_STOP_MS` passes again
  and again (strong: every activity resets it).  Users need not act.
* Link: a timer fires, a notice arrives, a runner that keeps an environment
  linked dials (`dial.ts` retries for ever), a frame that was sent arrives, and a
  closed or broken socket is in the end seen to be gone.  No daemon has to answer:
  `RequestsEnd` excepts the request that a living daemon keeps for ever.  A daemon that
  hangs is found not by the gateway's heartbeat, which the relay answers itself
  (`pi-env/src/relay.ts:58`), but by the runner's keepalive: every five seconds
  (`runner/src/environment/link/relay.ts:32`) `pingDaemon` fails if the daemon was
  silent for too long (`pi-env/src/relay.ts:69`), which ends the relay and its link.
* Workspace: a request to the provider ends (its timeout is fifteen seconds, so its
  answer or its failure is weakly fair); an operation gets its turn in the queue
  (strong: `#serialize` is FIFO); a login expires.

### Assumptions about the platform

* `Effect.acquireRelease` acquires uninterruptibly; `Effect.timeout` and
  `raceFirst` await the interruption of the loser; `tapError` does not run for
  an interruption; semaphores are FIFO (`RemovedIsDetached` depends on it).
* A disconnect or a timeout of an RPC interrupts its handler's fiber.
* QEMU's image lock lets one VM open the root disk (`VmCreated`).
* A power loss keeps a prefix of the file-system operations since the last sync:
  of any directory in `EnvironmentSupervisor`, of the session's own directory in
  `EnvironmentDisk`, where images are lost each by itself (their directory is
  never synced).  A synced file keeps its content; a rename and a link are
  atomic; names from `randomUUID` do not collide.  A crash ends the runner's VMs.
* A Session makes one call of its environment at a time (its operation queue);
  an uncertain call that the runner served is served before it is given up; an
  evicted object's outstanding call is served before its repetition, and a call
  that was lost is not delivered later.
* A Durable Object's storage writes between two awaits are atomic; an alarm that
  is set rings at least once.
* Events of a broken connection may or may not still be read.

## 4. Checked, not proved

Liveness stays with TLC, because the prover reasons neither about fairness nor
about `ENABLED`: `CommandsEnd`, `CallsEnd`, `LossIsNoticed`, `DeletionEnds`,
`WorkEnds`, `IdleIsStopped`, `RequestsEnd`, `Relinked`, `LoginEnds`.

Every other property of a run that passes — invariants, action properties, the
lifecycle's refinement — is a theorem.  One has a hypothesis, the one its run has too:
`WorkIsKept` needs Sessions nobody asks to retry a provisioning.  Section 6 says what
the code does otherwise, and in the cases that a property excepts.

## 5. What is proved

Of the lifecycle, for every set of callers and instances, with or without
interruptions and stray VMs, from the four assumptions on the constants that the
module names:

* in `EnvironmentLifecycleProofs`: `TypeCorrect`, `VmIsOwned` (`VmOwned`),
  `FibersTakeTurns` (`OneFiberAtWork`), `StopReleases` (`StoppedIsReleased`),
  `ImplementsContract`, `LossReported` (`LossIsReported`) and `DiskIsFree`
  (`BootsOnFreeDisk`).

None of the invariants is inductive by itself.  `VmOwned` needs to know that
`current` changes only when its VM is released, which depends on how far the
holder of the lock has come; so the inductive invariant `IInv` is the
conjunction of

* `LockInv` — the lock's holder is exactly the caller in a locked step;
* `StopInv` — what each step of a stop may rely on: the boot has ended before the
  sync, the scope's closing has ended before the disk sync;
* `StateInv` — "stopped" is published exactly while there is no instance;
* `OthersInv` — an instance that is not current has no fiber and no VM but a
  stray one;
* `StrayInv`, `VmInv` — what the phases of an instance's boot, detach and closing
  say of its VM: a VM is stray, or its scope holds a finalizer for it, or its
  acquisition is still under way.

`NextCases` lists the steps once; each conjunct has a lemma with one step per
action, and `Inductive` is their sum.  `StopReleases` adds `LinkInv` (the link
fiber runs only while the state is "running").  `ImplementsContract` maps
`attached` to `vm # stray`: under `IInv` that is "the current instance's VM holds
the disk" (`AttachedMeans`), and each step is shown to be a step of the contract
or a stutter.  `LossReported` adds `LossInv`: while the current instance's guest
is lossy, whoever is past the detach is forced.  `DiskIsFree` needs only that a boot
is appointed where there is no instance (`OnlyBootsAppoint`): by `OthersInv` every
VM is then a stray one.

Of the supervisor, for every set of sessions, handlers and sizes, and any number
of crashes, from `SizesAssumption`, `HandlersAssumption`, `FlagsAssumption` and
`CrashesAssumption` (`EnvironmentSupervisorProofs`):

* `CreatedKept` (`CreatedIsKept`), `DiskDetached` (`RemovedIsDetached`),
  `DeletedGone` (`DeletedIsGone`) and `RestoredExactly` (`RestoresExactly`), whether or
  not storage operations fail.

What a client has been told must survive a crash at any point, and the files a
power loss leaves depend on which directory was synced when.  So the invariant
relates the answer (`ToldInv`, `GoneInv`) to every state of the files that a loss
could leave (`ViewsInv`), and these to how far the creation or deletion under way
has come (`WorkInv`: a definition is synced before its actor exists, a directory is
moved away and that move synced before anything is purged).  `CallInv` says that
one creation or deletion is served at a time; `QueueInv` and `ComputeInv`, that a
deletion is the last command of its actor's queue and nothing boots behind it,
which is why a directory that is removed has no VM (`RemovedIsDetached`); `ActorInv`,
that an actor lasts until its deletion shuts it down; `DownInv`, that a crash leaves
nothing but files.

Of the disks, for every set of sessions, releases and jobs, from
`NamesAssumption`:

* `DisksFit` (`DiskFitsPin`) and `Kept` (`FilesAreKept`), in
  `EnvironmentDiskProofs`.  The inductive invariant says of a chain that has read
  a session's runtime that the runtime is still that (`PinsOK`), because a runtime
  is written only where there is none, and of every directory a power loss may
  leave that it is a part of the one in place and fits (`FilesOK`).  What a step
  does to the files is one of four things (`FilesChange`): a sync, a runtime where
  there is none, a disk where there is none for the runtime in place, or a loss.
* `CleanBootsSucceed` (`CleanBootSucceeds`), in the same module.
  `Undisturbed` says of a clean chain what it has found and may rely on at each
  step — no runtime before it stamps one, its candidate in place until it is
  published, the image whole once it is past `ensure` — and that no other job has
  its session.  Another chain's step leaves that session's files alone and only
  installs images (`Frame`), so it keeps this (`OthersKept`); the chain's own steps
  never reject under it (`OwnStep`).  `Served` is needed for the runner's own
  image, which a boot does not ensure again.

Of the registry, for every set of sessions and connections and any number of
reconnects and restarts, from `KindsAssumption` and `NoneAssumption`:

* `Routed` (`RegisteredIsServed`), `Revocation` (`RevokedIsOut`), `KnownHosted`
  (`KnownIsHosted`), `ViewsAreSettled` (`ViewsSettle`) and `RevokedUnlinked`
  (`RevokedIsUnlinked`), in `RunnerRegistryProofs`.

`RegisteredIsServed` is inductive once the connections are known to be records
(`ConnType`).  A step either registers nothing (`Quiet`: no connection comes to
be admitted, no control connection that the slot may hold leaves before its
cleanup) or is one of the six that do — `Dial`, `Admit`, `AdmitBulk`,
`RemoveConnection`, `DisconnectRunner`, `Restart` — and each has a lemma.
`RevokedIsOut` rests on it: only because every admitted connection that works is
in the slot does closing the slot's connections close them all.  After that,
`ServesNone`: the second authentication is the only way to be served.

The other three follow from `KInv`.  Of a connection it says what the events it has
yet to read tell of the environments (`ConnsOK`): the snapshot of the runner's
current connection, with the changes after it, is how they stand.  `ViewsOK` follows
a change of state to the Session: the last that is said of an environment, by an
event, else by a notice, else by the Session's own view, is how it stands, unless a
mishap has happened.  `SessionsOK` says the rest of what a Session may lack: that
an environment which the registered connection does not host is one that nobody has
heard of yet (`HostOK`), that a link which outlasts a revocation has its notice under way (`UnlinkOK`), that
a Session not yet told of a loss is about to be (`LostOK`).  With nothing left to
read or to send, `ViewsSettle` remains.

Of the Environment Link, for any number of sockets, requests and mishaps, from
`BoundsAssumption` (`EnvironmentLinkProofs`):

* `OneIsLinked` (`OneLink`) and `CutStays` (`CutIsFinal`) from `LinkInv`: one
  socket is in use, and after a revocation or deletion none is open whose token was
  found good, not even one that is not attached yet (`CutInv`);
* `OwnAnswers` (`AnswersMatch`) from `AnswerInv`: a request's identity is given once
  (`IdInv`), so whatever carries it, on whichever socket and however late, is of
  that request.

Of the Session, for any number of requests, evictions and faults and any kinds of
requests, from `BoundsAssumption`, `AsksAssumption` and `NoRecordAssumption`
(`SessionProofs`):

* `UnfinishedWakes` (`Backed`), `StopsSpareRuns` (`IdleStopSparesRuns`),
  `DeletionLeavesNothing` (`GoneLeavesNothing`) and, without "retry-provisioning",
  `WorkKept` (`WorkIsKept`).

`Backed` is far from inductive: that unfinished work has its alarm depends on what
was under way when it was left, and on who sets the alarm again.  `SessionInv` says
this of each place where a Session may stand: `RetriedInv` of a deletion, `ReportInv`
of a runner that differs from the record (a notice is under way), `AsleepInv` of an
object that is not in memory, and `BackedInv` of the rest.  `StopsSpareRuns` rests on
what a decision has seen: a prompt ends the idleness before it is admitted
(`QuietInv`), and a turn that came after the look has asked for another decision
(`LookInv`), so a stop that is queued meets no run (`SparesInv`).
`DeletionLeavesNothing` follows the calls of a deletion to the runner, in the order
in which they are sent (`DeletingInv`, `OrderInv`, `LeftInv`).  `WorkKept` adds
`ProvisionInv`: only a setup that found no checkout clears `/workspace`.

Of the changes view, for any files, requests and mishaps, from
`ChangesAssumption` (`SessionChangesProofs`):

* `BrowserMissesNothing` (`NothingMissed`), `LastIntentIsDone` (`LastIntentWins`),
  `SpinnersEnd` (`SpinnersServed`) and `RestIsRight` (`SettledIsRight`).

`ChangesInv` follows a snapshot from the guest to the page.  `AnswerInv`: the
answer of a fetch is what the Session stores, or another fetch follows.  `ShownInv`:
a page at rest shows what is stored; it comes to rest only by applying a snapshot.
`FreshInv`: while no run of the refresh loop is due, what the loop has read is the
guest's state (`LoopFresh`); what a stop has read is too, unless the loop read after
it (`StopFresh`); and what is stored is (`StoredFresh`), unless a refresh was forgotten
or an older one may be stored last (`Behind`).  `LaneInv`, `IntentInv`
and `SpinnersServed`: a file's lane holds the last intent, as its first or its
second entry, until that is served.  `RevisionInv` and `RetiredInv`: once the lanes
are empty every answer carries the revision that has been recorded, so applying it
retires the intents that were shown in advance.

Of the Workspace, for any Sessions and any number of logins, tokens, calls and
mishaps, from `WorkspaceAssumption` (`WorkspaceProofs`):

* `EndedStays` (`EndedStaysEnded`) and `TokenHonoured` (`CredentialHonoured`) from
  `LoginInv`: which login each operation that waits for the provider, the poll and
  the stored credential belong to, and what the provider honours of it;
* `Listed` (`StartedIsListed`) from `CatalogInv`: which stages of a start and of a
  deletion may hold a Session that has no entry.

## 6. Where the code and what is said of it differ

Met while modelling.  Each is visible in the behaviour of the module named; the
properties except it, by the condition the module's comment names.

*Lifecycle.*

* `stop` reports "error" in a `tapError` (`lifecycle.ts:121`), which an
  interruption does not run: the state stays "stopping" with the instance kept,
  and the next start shares its old boot and answers "running".
  `docs/release-acceptance.md:159` says a failed or interrupted stop leaves the
  environment in `error`.
* A boot that fails before it publishes a disk leaves an instance whose release
  syncs a disk that is not there (`store.ts:172`); no later start can succeed
  until the runner restarts (cf. the title at `lifecycle.test.ts:24`).
* `CloseDied`: the VM's finalizer is `close.pipe(Effect.orDie)` (`layer.ts:128`),
  so a stop dies instead of failing and the state stays "stopping".
* `VmFails`: a VM whose startup fails and whose close fails too has no handle
  (`layer.ts:292`); `VmOwned` and `BootsOnFreeDisk` except these `stray` VMs.
* The boot's deadline (`lifecycle.ts:138`) waits for the acquisition of the VM, which
  is uninterruptible (`layer.ts:112`, `:181`): a guest that hangs at startup hangs the
  start beyond "its deadline".  `CommandsEnd` excepts that wait; a stop still ends.
* `BootReady` after `StopBegin`: "running" may be reported after "stopping"
  (`lifecycle.ts:148`), before the boot's interruption arrives.

*Supervisor and disks.*

* The retry of a failed cleanup takes the branch that ignores a failure
  (`supervisor.ts:150`, "finishing it is idempotent"): a deletion is answered with
  success while its storage remains.  No storage fault is needed: a deletion that was
  interrupted between its rename and the end of its purge leaves a directory that
  is not empty, onto which the rename of the next one fails (`store.ts:88`).  The run
  `Redelete` shows create, delete (interrupted), create, delete (fails), delete
  (answered with success); a restart then restores the environment.  `DeletedIsGone`
  excepts the answer to a removal that failed.
* The mark that such a deletion leaves in `deleting` (`supervisor.ts:148`) is removed by
  its own completion only: an environment created in between is acknowledged and then
  "does not exist" for every control call until a restart, and the repeated creation is
  a conflict.  `CreatedIsKept` excepts it ("hidden").
* A start that hangs in its VM's acquisition keeps the actor's command permit, and a
  deletion behind it the admission permit, so that no environment can be created or
  deleted any more.  `CallsEnd` excepts an environment that boots for ever.
* `Interrupt` of `mkdir`: the directory may remain and every repeated creation is
  a conflict until the next start (`store.ts:135`).
* `initializePersistentRootDisk` returns without syncing the directory when the
  disk exists or on EEXIST, so a boot may start its VM over a disk whose entry
  another, abandoned boot has not synced yet ("Publish a durable … overlay").
* An abandoned boot's sweep may remove the live boot's candidate, whose link then
  fails; a candidate removed meanwhile makes `fs.rm` fail; and the separate checks
  of runtime and disk may reject a boot that a given-up one overtakes.  The boot
  fails and may be repeated.
* A crash during a download leaves its temporary directory for ever
  (guest-image.md: "removed after success or failure"); the images' directory is
  never synced, so a release may be downloaded again after a power loss.

*Registry.*

* `removeConnection` (`runner-registry.ts:466`) tells Sessions of the loss one
  after the other; one may be told after the reconnect told it the opposite and
  stays unreachable (comment at `:283`).  `ViewsSettle` excepts overlaps.
* Only sessions of a registered control connection are told of a revocation
  (`:513`, comment at `:512`); links of a runner that is away stay attached.
* `ConfirmFails` of a bulk connection: when the Workspace cannot be asked, the
  fiber ends outside its `ensuring` (`:395`) and the slot keeps a closed bulk
  connection, which nothing uses; `RegisteredIsServed` is therefore about the
  control connection.
* Notices carry no order: a late one overrides a newer one (`NotifyLate`).

*Link.*

* A request that waits for a link torn down by `connection.lost` stays a waiter
  and closes the next fresh link (`connection.ts:284`).
* A daemon that lives but never answers a request is never given up: the heartbeat
  asks about the relay, not the request (`RequestsEnd` excepts it).
* A notice that the environment stopped, delivered after the next start, closes the
  fresh link (`provider.ts:181`); it is dialed again.
* `closed(socket)` of a replaced socket calls `#routed.closed` for whichever
  session is routed (`link.ts:137`).
* A dial that was abandoned and is authenticated late replaces the live link.

*Session.*

* A provisioning that failed is still offered as "retry-provisioning" after a wake
  succeeded, and clones over the agent's work (comment at `session.ts:912`);
  `WorkIsKept` is checked without that request.
* Deletion is not on the operation queue, and `#open` restarts a provisioning of a
  Session being deleted (comment at `:405`): the environment may be created again
  after its deletion (`raced`).
* A wake and a deletion record work before they set an alarm, and a reconciliation
  that looked earlier deletes the alarm a prompt has set (`:724`, `:776`): an
  eviction then leaves the Session asleep with work to do (`Forgotten`).
* A guest or link lost in mid-clone is recorded as an "unavailable" checkout,
  though `provisioning.ts:140` says infrastructure failures throw.
* The deletion in `controller.tsx` removes the catalogue's entry first and ignores
  that `session.delete()` failed; a deletion while a creation is under way leaves
  a Session that nothing lists.

*Changes.*

* A file action whose connection breaks goes on in the Session and the guest while the
  browser sends the opposite one (`session-changes-resource.tsx:211`): the lost one may
  be executed last, so the index is not what the user asked for last.
  `LastIntentWins` excepts it.
* A restart asks for no refresh: only a provisioning does (`session.ts:899`), so the
  view keeps what was stored before until the agent's next boundary or a file action;
  and a refresh that comes due in a setup, or while the environment is down or
  unreachable, is turned away and not made up for (`project.ts:171`).
* The list and the patches of a snapshot are read by separate commands
  (`git-snapshot.ts:111`, `:154`); a change between them is stored as one snapshot until
  the refresh that the change asked for.
* Two file actions that overlap write one mutation revision (`project.ts:222`);
  with three on two files an intent is never retired.
* `gitSnapshot()` answers the stored snapshot with the current revision
  (`session.ts:415`), so that a snapshot from before a mutation retires its intent
  (cf. the test "stale snapshots cannot retire a confirmed optimistic mutation").
* An eviction loses a refresh that was due, until the next boundary; an update
  published before the stream is first opened is missed; a failing publish command
  is ignored, so the stored id has no directory.
* A capture never throws: a link lost meanwhile stores a non-stale "incomplete"
  snapshot.
* The refresh of a stop runs outside the loop (`session.ts:927`; "Refreshes never
  overlap", `project.ts:234`): the two remove each other's patches, and the
  stop's may be stored over a newer one.
* A hydration that ends after a refresh of the same id restores the older `stale`
  flag (`session-changes-resource.tsx:490`); concurrent file actions refuse each
  other by Git's `index.lock`.

*Workspace.*

* An eviction or a lost answer between the provider's rotation and the save loses
  the token (`CredentialHonoured` excepts it); the credential of an abandoned login
  is dropped without being revoked; a failed revocation on disconnect is ignored.
* A child deleted by the user whose `create_thread` is repeated is listed again,
  while its Session may be gone.

*Browser conversation* (read, not modelled): a prompt submitted before the first
snapshot may be acknowledged by an old entry of the same text, and one that failed
and is sent again leaves its row "pending"; an abort clears the queue and leaves
the optimistic row; a reconnect refused with an HTTP error is not retried by
`EventSource`; `agentControlState` never yields "stopped", so the stopped draft of
`session-thinking-level-controller.ts` is dead code.

## 7. Not modelled, and why

* *Sandbox provider.*  Each operation of the in-gateway environment is one
  transaction of an interpreter of another package over a tree in SQLite.
* *Agent, threads, skills, media, code mode, web tools* delegate to a framework or
  to outside services: a run of the agent is work that keeps the environment
  (`Session`), whose tools' boundaries refresh the changes (`SessionChanges`), and
  the start of a thread is in `Workspace`.
* *Browser.*  Of the UI, the changes resource and its stream are modelled; the
  transcript, its optimistic rows and the controllers of the page are rendering of
  what the agent's framework streams.
* *HTTP actions and middleware*, but for the order in which a start and a deletion
  call two objects, handle one request without state.  *Runner selection*, rate
  limits, parsing of Git's output and of manifests are pure functions that tests
  reach; host probes and enrollment are one-shot and sequential; cryptography and
  schemas are outside what state exploration can say.
* Of what is modelled: credentials, telemetry, capacity's measurement, qcow2
  inspection, guest commands and RPC framing are abstracted.  The deletion of an
  environment while an abandoned boot still works on its directory is not in
  `EnvironmentDisk`, whose sessions are never deleted.

## 8. The plan

Done: the lifecycle and its contract, the supervisor, the disks and images, the
registry, the Session, the Environment Link, the changes view and the Workspace,
each with its runs; the proofs of section 5.

What would come next, in this order: a contract of the Environment Link (a lossy
channel of requests that answers each at most once) and one of the Session's
environment (what a user may rely on of its files), each with its refinement
proved; the deletion of an environment in `EnvironmentDisk`; the browser's conversation.
