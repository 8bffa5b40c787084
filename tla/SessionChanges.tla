--------------------------- MODULE SessionChanges ---------------------------
(***************************************************************************)
(* The changes view of a Session with a project, from the Git index in the  *)
(* guest to the rows a browser shows, and back.                             *)
(*                                                                          *)
(* The Session's refresh loop (project.ts) reads the guest with several     *)
(* commands, stores a Git Snapshot and publishes that it did; the stop of   *)
(* an environment refreshes once more, outside the loop.  The browser       *)
(* (session-changes-resource.tsx) fetches the stored snapshot, then its     *)
(* full patches from the guest, and shows its own stage and unstage         *)
(* requests at once: each is pending until a snapshot of its mutation       *)
(* revision has been seen.                                                  *)
(*                                                                          *)
(* A request whose connection breaks may go on in the Session and the       *)
(* guest, beside the one the browser sends next.                            *)
(*                                                                          *)
(* Abstracted: a file of the list is either staged or unstaged, the working *)
(* tree is a version, patches are what they are the difference of, the id   *)
(* of a snapshot is its list and its patches, and all patches are larger    *)
(* than their preview.  Debounce and refresh interval are waits without a   *)
(* length, and a run of the agent is one tool.                              *)
(* Steps between which nobody else can make a difference are one: a         *)
(* request's way to the Session, the guest's answer and what the Session    *)
(* makes of it; an event's way to the browser; the chunks of the patches.   *)
(* A load of patches is dropped with the snapshot it was begun for, so only *)
(* the one of the snapshot shown is there.                                  *)
(***************************************************************************)
EXTENDS Integers, Sequences, FiniteSets

CONSTANTS
  Files,        \* the changed files of the checkout
  None,         \* absent
  Mishaps,      \* which mishaps may happen, a run of the agent and a stop among them
  MaxEvents     \* bound: stage and unstage requests of the user and mishaps, each with its weight

ASSUME ChangesAssumption == None \notin Files /\ MaxEvents \in Nat

VARIABLES
  guest,     \* the Git index, the version of the working tree, the id of the published patches
  work,      \* the refresh of the loop and the one of a stop
  session,   \* what the Session Durable Object holds
  request,   \* per file, the request the gateway is serving
  late,      \* the requests it is still serving though their browser has given them up
  lane,      \* per file, the request under way and the one queued (#mutationLanes)
  pending,   \* per file, the user's intent until a snapshot shows it (#pendingMutations)
  page,      \* the rest of the browser's changes resource, and its event stream
  acts,      \* #mutationGeneration
  mishaps,
  history    \* of no influence: what the properties ask of the past

vars == <<guest, work, session, request, late, lane, pending, page, acts, mishaps, history>>

Refreshers == {"loop", "stop"}

(* The files a snapshot lists, and its patches; both are None when their command failed. *)
Blank == [seen |-> None, patch |-> None]
Id(snapshot) == [seen |-> snapshot.seen, patch |-> snapshot.patch]
Stored(snapshot, stale) == [seen |-> snapshot.seen, patch |-> snapshot.patch, stale |-> stale]

(* What the patches show: the working tree against the index, the index against the head. *)
Diff == [tree |-> guest.edit, index |-> guest.index]

Resting == [at |-> "idle", old |-> None, seen |-> None, patch |-> None, room |-> FALSE]
NoRequest == [at |-> "idle", action |-> None, revision |-> 0]
NoFetch == [at |-> "idle", snapshot |-> None, revision |-> 0]

Other(state) == IF state = "staged" THEN "unstaged" ELSE "staged"

Init ==
  /\ guest = [index |-> [f \in Files |-> "unstaged"], edit |-> 0, patches |-> None]
  /\ work = [r \in Refreshers |-> Resting]
  /\ session = [stored |-> None, revision |-> 0, due |-> TRUE, busy |-> FALSE, up |-> TRUE,
                setup |-> FALSE]
  /\ request = [f \in Files |-> NoRequest]
  /\ late = {}
  /\ lane = [f \in Files |-> <<>>]
  /\ pending = [f \in Files |-> None]
  /\ page = [wanted |-> TRUE, fetch |-> NoFetch, shown |-> None, patches |-> "none",
             active |-> FALSE, error |-> FALSE, stream |-> "new"]
  /\ acts = 0
  /\ mishaps = 0
  /\ history = [intent |-> [f \in Files |-> None], missed |-> FALSE, forgot |-> FALSE,
                outrun |-> FALSE]

(* A run and a stop weigh twice, as so much follows from each. *)
Weight(kind) == IF kind \in {"run", "stop"} THEN 2 ELSE 1
Mishap(kind) ==
  /\ kind \in Mishaps /\ acts + mishaps + Weight(kind) <= MaxEvents
  /\ mishaps' = mishaps + Weight(kind)

(* A guest command fails when the environment is not up, and by a mishap. *)
Succeeds == session.up /\ UNCHANGED mishaps
Fails == \/ ~session.up /\ UNCHANGED mishaps
         \/ session.up /\ Mishap("guest")

-----------------------------------------------------------------------------
(* The browser: what it asks for, and when. *)

(* #requestRefresh: noted, and begun if the view is active and no fetch is under way. *)
Wanting(p) ==
  IF p.active /\ p.fetch.at = "idle"
  THEN [p EXCEPT !.wanted = FALSE, !.error = FALSE, !.fetch.at = "asked"]
  ELSE [p EXCEPT !.wanted = TRUE]

(* Mutant: what was asked for during a fetch is taken to be answered by it. *)
Fetched_Once(p) == [p EXCEPT !.fetch = NoFetch, !.wanted = FALSE]

(* The end of a turn of its loop. *)
Fetched(p) ==
  LET rested == [p EXCEPT !.fetch = NoFetch]
  IN IF p.wanted THEN Wanting(rested) ELSE rested

(* "git.snapshot.updated" reaches the streams that are open, and nobody else. *)
Told(p) == IF p.stream = "open" THEN Wanting(p) ELSE p

-----------------------------------------------------------------------------
(* The refresh of a snapshot. *)

(* refresh() keeps the snapshot it found; git status and the two numstats read the list, or leave
   it out. *)
Lists(r, seen) ==
  work' = [work EXCEPT ![r] = [Resting EXCEPT !.at = "listed", !.old = session.stored, !.seen = seen]]

(* The guard of refresh(): the environment is up and reachable, and no setup is under way. *)
MayRefresh == session.up /\ ~session.setup
Reading == {"listed", "written", "published", "stale"}

(* scheduleRefresh and #refreshLoop: a refresh is due and none of the loop's is under way.  One
   that the guard turns away is gone, unless the agent is at work. *)
LoopTurn ==
  /\ session.due /\ work["loop"].at = "idle"
  /\ \/ /\ MayRefresh
        /\ \/ Succeeds /\ Lists("loop", guest.index)
           \/ Mishap("guest") /\ Lists("loop", None)
        /\ session' = [session EXCEPT !.due = FALSE]
        /\ history' = [history EXCEPT !.outrun = work["stop"].at \in Reading]
     \/ /\ (~MayRefresh /\ UNCHANGED mishaps) \/ (MayRefresh /\ Mishap("guest"))
        /\ session' = [session EXCEPT !.due = session.busy]
        /\ history' = [history EXCEPT !.forgot = @ \/ ~session.busy]
        /\ UNCHANGED work
  /\ UNCHANGED <<guest, request, late, lane, pending, page, acts>>

(* createSnapshotDirectory and writePatchesCommand, later and of what is there by then.  Only the
   failure of the first makes the snapshot a stale one; that of the second leaves the patches out. *)
WritePatches(r) ==
  /\ work[r].at = "listed"
  /\ \/ /\ Succeeds
        /\ work' = [work EXCEPT ![r].at = "written", ![r].patch = Diff, ![r].room = TRUE]
     \/ /\ Fails
        /\ \/ work' = [work EXCEPT ![r].at = "written", ![r].room = TRUE]
           \/ work' = [work EXCEPT ![r].at = "stale"]
  /\ UNCHANGED <<guest, session, request, late, lane, pending, page, acts, history>>

(* publishPatchesCommand removes every other directory of the guest, that of a refresh that
   overlaps included; its failure is not looked at. *)
PublishPatches(r) ==
  /\ work[r].at = "written"
  /\ \/ /\ Succeeds
        /\ guest' = [guest EXCEPT !.patches = IF work[r].room \/ @ = Id(work[r]) THEN Id(work[r]) ELSE None]
        /\ work' = [s \in Refreshers |->
             IF s = r THEN [work[r] EXCEPT !.at = "published"] ELSE [work[s] EXCEPT !.room = FALSE]]
     \/ Fails /\ work' = [work EXCEPT ![r].at = "published"] /\ UNCHANGED guest
  /\ UNCHANGED <<session, request, late, lane, pending, page, acts, history>>

(* What a refresh stores: its own snapshot, or the one it found before, marked stale. *)
Result(r) ==
  IF work[r].at = "published" THEN Stored(work[r], FALSE)
  ELSE IF work[r].old = None THEN Stored(Blank, TRUE)
  ELSE Stored(work[r].old, TRUE)

(* Mutant: a refresh that ends answers every request made while it ran. *)
Store_AnswersAll(r) ==
  /\ work[r].at \in {"published", "stale"}
  /\ session' = [session EXCEPT !.stored = Result(r), !.due = r = "loop" /\ session.busy]
  /\ page' = Told(page)
  /\ history' = [history EXCEPT
       !.missed = @ \/ page.stream = "new",
       !.forgot = IF r = "stop" THEN @ \/ history.outrun ELSE @ /\ work[r].at # "published"]
  /\ work' = [work EXCEPT ![r] = IF r = "loop" THEN Resting ELSE [Resting EXCEPT !.at = "halt"]]
  /\ UNCHANGED <<guest, request, late, lane, pending, acts, mishaps>>

(* #store writes and publishes, unless a refresh that failed found the failure of another; the
   loop goes on while the agent works. *)
Store(r) ==
  /\ work[r].at \in {"published", "stale"}
  /\ LET changed == work[r].at = "published" \/ Result(r) # work[r].old
     IN /\ session' = [session EXCEPT
             !.stored = IF changed THEN Result(r) ELSE @,
             !.due = @ \/ (r = "loop" /\ session.busy)]
        /\ page' = IF changed THEN Told(page) ELSE page
        /\ history' = [history EXCEPT
             !.missed = @ \/ (changed /\ page.stream = "new"),
             !.forgot = IF r = "stop" THEN @ \/ history.outrun ELSE @ /\ work[r].at # "published"]
  /\ work' = [work EXCEPT ![r] = IF r = "loop" THEN Resting ELSE [Resting EXCEPT !.at = "halt"]]
  /\ UNCHANGED <<guest, request, late, lane, pending, acts, mishaps>>

(* #stopEnvironment: a refresh outside the loop, then the stop.  The agent's own stop, a loss of
   the compute and a guard that turns the refresh away go without. *)
Stop ==
  /\ MayRefresh /\ work["stop"].at = "idle" /\ Mishap("stop")
  /\ \/ \E seen \in {guest.index, None} : Lists("stop", seen)
     \/ work' = [work EXCEPT !["stop"].at = "halt"]
  /\ history' = [history EXCEPT !.outrun = FALSE]
  /\ UNCHANGED <<guest, session, request, late, lane, pending, page, acts>>

Halt ==
  /\ work["stop"].at = "halt"
  /\ work' = [work EXCEPT !["stop"] = Resting]
  /\ session' = [session EXCEPT !.up = FALSE]
  /\ UNCHANGED <<guest, request, late, lane, pending, page, acts, mishaps, history>>

(* #starting: the environment runs before its setup ends; neither asks for a refresh, as only
   #provisioning does. *)
Start ==
  /\ ~session.up
  /\ session' = [session EXCEPT !.up = TRUE, !.setup = TRUE]
  /\ UNCHANGED <<guest, work, request, late, lane, pending, page, acts, mishaps, history>>

EndSetup ==
  /\ session.setup
  /\ session' = [session EXCEPT !.setup = FALSE]
  /\ UNCHANGED <<guest, work, request, late, lane, pending, page, acts, mishaps, history>>

-----------------------------------------------------------------------------
(* The agent: once the setup has ended a tool changes the working tree, and perhaps the index of a
   file; its end and the run's are boundaries. *)
RunTool(f) ==
  /\ MayRefresh /\ ~session.busy /\ Mishap("run")
  /\ \E state \in {"staged", "unstaged"} :
       /\ guest' = [guest EXCEPT !.edit = @ + 1, !.index[f] = state]
       /\ history' = [history EXCEPT !.intent[f] = IF state = guest.index[f] THEN @ ELSE None]
  /\ session' = [session EXCEPT !.busy = TRUE, !.due = TRUE]
  /\ UNCHANGED <<work, request, late, lane, pending, page, acts>>

EndRun ==
  /\ session.busy
  /\ session' = [session EXCEPT !.busy = FALSE, !.due = TRUE]
  /\ UNCHANGED <<guest, work, request, late, lane, pending, page, acts, mishaps, history>>

(* alarm: a run that goes on is refreshed. *)
Alarm ==
  /\ session.busy /\ ~session.due
  /\ session' = [session EXCEPT !.due = TRUE]
  /\ UNCHANGED <<guest, work, request, late, lane, pending, page, acts, mishaps, history>>

-----------------------------------------------------------------------------
(* A stage or unstage request: the browser's lane, the Session, the guest, and back. *)

(* projectPendingSessionChanges: a pending intent is shown as done. *)
Row(f) == IF pending[f] # None THEN pending[f].action ELSE page.shown.seen[f]
HasRow(f) == page.shown # None /\ (pending[f] # None \/ page.shown.seen # None)

(* The Session reads its record before it asks the guest. *)
Served(action) == [at |-> "served", action |-> action, revision |-> session.revision]

(* updateFile: the row is moved at once; the request goes out if its file has none under way, and
   takes the place of the one queued otherwise. *)
UpdateFile(f) ==
  /\ acts + mishaps < MaxEvents
  /\ session.up /\ page.active /\ page.stream # "down" /\ HasRow(f)
  /\ LET action == Other(Row(f))
         mutation == [action |-> action, generation |-> acts + 1]
     IN /\ pending' = [pending EXCEPT ![f] = [action |-> action, generation |-> acts + 1, revision |-> 0]]
        /\ \/ /\ lane[f] = <<>>
              /\ lane' = [lane EXCEPT ![f] = <<mutation>>]
              /\ request' = [request EXCEPT ![f] = Served(action)]
           \/ /\ lane[f] # <<>>
              /\ lane' = [lane EXCEPT ![f] = <<Head(@), mutation>>]
              /\ UNCHANGED request
        /\ history' = [history EXCEPT !.intent[f] = action]
  /\ acts' = acts + 1
  /\ UNCHANGED <<guest, work, session, late, page, mishaps>>

(* git add or git restore, and the Session's answer: the revision it read before, and one more.
   Two commands at once may meet the lock of the index. *)
NextRevision(revision) == revision + 1
Locked(f) == late # {} \/ \E g \in Files \ {f} : request[g].at = "served"
Execute(f) ==
  /\ request[f].at = "served"
  /\ \/ /\ Succeeds
        /\ guest' = [guest EXCEPT !.index[f] = request[f].action]
        /\ session' = [session EXCEPT !.revision = NextRevision(request[f].revision), !.due = TRUE]
        /\ request' = [request EXCEPT ![f].at = "ok", ![f].revision = NextRevision(@)]
     \/ /\ Fails \/ (Succeeds /\ Locked(f))
        /\ session' = [session EXCEPT !.due = TRUE]
        /\ request' = [request EXCEPT ![f].at = "failed"]
        /\ UNCHANGED guest
  /\ UNCHANGED <<work, late, lane, pending, page, acts, history>>

(* The browser's connection breaks: the request was not served yet, its answer is lost, or it
   goes on without a browser to answer. *)
Lose(f) ==
  /\ request[f].at \in {"served", "ok"} /\ Mishap("lose")
  /\ request' = [request EXCEPT ![f].at = "failed"]
  /\ \/ UNCHANGED late
     \/ /\ request[f].at = "served"
        /\ late' = late \cup {[file |-> f, generation |-> Head(lane[f]).generation,
                              action |-> request[f].action, revision |-> request[f].revision]}
  /\ UNCHANGED <<guest, work, session, lane, pending, page, acts, history>>

(* The last request of a file has been executed, and one given up undoes it. *)
Undone(index) ==
  {f \in Files : /\ index[f] # guest.index[f]
                 /\ lane[f] = <<>> \/ (Len(lane[f]) = 1 /\ request[f].at = "ok")}
Regarding(index) == [f \in Files |-> IF f \in Undone(index) THEN None ELSE history.intent[f]]

ExecuteLate(m) ==
  /\ late' = late \ {m}
  /\ \/ /\ Succeeds
        /\ guest' = [guest EXCEPT !.index[m.file] = m.action]
        /\ session' = [session EXCEPT !.revision = NextRevision(m.revision), !.due = TRUE]
        /\ history' = [history EXCEPT !.intent = Regarding(guest'.index)]
     \/ /\ Fails \/ (Succeeds /\ (late # {m} \/ \E g \in Files : request[g].at = "served"))
        /\ session' = [session EXCEPT !.due = TRUE]
        /\ UNCHANGED <<guest, history>>
  /\ UNCHANGED <<work, request, lane, pending, page, acts>>

(* Mutant: a failure leaves the intent to the next snapshot. *)
AfterAnswer_Kept(f) ==
  IF pending[f] # None /\ pending[f].generation = Head(lane[f]).generation /\ request[f].at = "ok"
  THEN [pending[f] EXCEPT !.revision = request[f].revision]
  ELSE pending[f]

(* The intent after the answer to the request at the head of its lane: the answer to a request
   that is not the latest changes nothing. *)
AfterAnswer(f) ==
  IF pending[f] = None \/ pending[f].generation # Head(lane[f]).generation THEN pending[f]
  ELSE IF request[f].at = "ok" THEN [pending[f] EXCEPT !.revision = request[f].revision]
  ELSE None

(* Mutant: a failure ends the lane, with what is queued. *)
Answered_Abandons(f) ==
  /\ request[f].at \in {"ok", "failed"}
  /\ LET goes == Len(lane[f]) = 2 /\ request[f].at = "ok"
     IN /\ lane' = [lane EXCEPT ![f] = IF goes THEN Tail(@) ELSE <<>>]
        /\ request' = [request EXCEPT ![f] = IF goes THEN Served(lane[f][2].action) ELSE NoRequest]
  /\ pending' = [pending EXCEPT ![f] = IF request[f].at = "ok" THEN AfterAnswer(f) ELSE None]
  /\ page' = IF \A g \in Files : lane'[g] = <<>> THEN Wanting(page) ELSE page
  /\ history' = [history EXCEPT !.intent[f] =
                   IF request[f].at = "failed" /\ Len(lane[f]) = 1 THEN None ELSE @]
  /\ UNCHANGED <<guest, work, session, late, acts, mishaps>>

(* The answer and the rest of #drainMutationLane: the queued request is sent, and the last lane
   to empty asks for a refresh. *)
Answered(f) ==
  /\ request[f].at \in {"ok", "failed"}
  /\ pending' = [pending EXCEPT ![f] = AfterAnswer(f)]
  /\ lane' = [lane EXCEPT ![f] = Tail(@)]
  /\ request' = [request EXCEPT ![f] = IF Len(lane[f]) = 2 THEN Served(lane[f][2].action) ELSE NoRequest]
  /\ page' = IF \A g \in Files : lane'[g] = <<>> THEN Wanting(page) ELSE page
  /\ history' = [history EXCEPT !.intent[f] =
                   IF request[f].at = "failed" /\ Len(lane[f]) = 1 THEN None ELSE @]
  /\ UNCHANGED <<guest, work, session, late, acts, mishaps>>

-----------------------------------------------------------------------------
(* The browser's copy of the snapshot, its view, and the event stream. *)

(* gitSnapshot: the snapshot stored, with the revision of the record as it is now. *)
ServeSnapshot ==
  /\ page.fetch.at = "asked"
  /\ page' = [page EXCEPT !.fetch = [at |-> "answered", revision |-> session.revision,
                snapshot |-> IF session.stored = None THEN Stored(Blank, TRUE) ELSE session.stored]]
  /\ history' = [history EXCEPT !.missed = FALSE]
  /\ UNCHANGED <<guest, work, session, request, late, lane, pending, acts, mishaps>>

LoseSnapshot ==
  /\ page.fetch.at = "asked" /\ Mishap("lose")
  /\ page' = Fetched([page EXCEPT !.error = TRUE])
  /\ UNCHANGED <<guest, work, session, request, late, lane, pending, acts, history>>

(* #retirePendingMutations: a snapshot retires the intents whose revision it has. *)
Retired(f, revision) ==
  pending[f] # None /\ pending[f].revision # 0 /\ pending[f].revision <= revision

(* The second half of #refresh. *)
ApplySnapshot ==
  /\ page.fetch.at = "answered"
  /\ LET snapshot == page.fetch.snapshot
     IN /\ page' = Fetched([page EXCEPT !.shown = Id(snapshot),
                  !.patches = IF snapshot.patch = None THEN "none" ELSE "loading"])
        /\ pending' = [f \in Files |->
             IF ~snapshot.stale /\ Retired(f, page.fetch.revision) THEN None ELSE pending[f]]
  /\ UNCHANGED <<guest, work, session, request, late, lane, acts, mishaps, history>>

(* #loadFullPatches and patchChunk: of the snapshot stored, from the guest's directory. *)
LoadPatches ==
  /\ page.patches = "loading"
  /\ LET there == session.stored # None /\ Id(session.stored) = page.shown /\ guest.patches = page.shown
     IN \/ Succeeds /\ page' = [page EXCEPT !.patches = IF there THEN "full" ELSE "error"]
        \/ Fails /\ page' = [page EXCEPT !.patches = "error"]
  /\ UNCHANGED <<guest, work, session, request, late, lane, pending, acts, history>>

(* setViewActive. *)
ShowView ==
  /\ ~page.active
  /\ page' = IF page.fetch.at = "idle" THEN Wanting([page EXCEPT !.active = TRUE])
             ELSE [page EXCEPT !.active = TRUE]
  /\ UNCHANGED <<guest, work, session, request, late, lane, pending, acts, mishaps, history>>

HideView ==
  /\ page.active /\ Mishap("hide")
  /\ page' = [page EXCEPT !.active = FALSE]
  /\ UNCHANGED <<guest, work, session, request, late, lane, pending, acts, history>>

(* A stream that opens after an interruption asks for a refresh; the first one does not. *)
OpenStream ==
  /\ page.stream # "open"
  /\ page' = IF page.stream = "down" THEN Wanting([page EXCEPT !.stream = "open"])
             ELSE [page EXCEPT !.stream = "open"]
  /\ UNCHANGED <<guest, work, session, request, late, lane, pending, acts, mishaps, history>>

BreakStream ==
  /\ page.stream # "down" /\ Mishap("stream")
  /\ page' = [page EXCEPT !.stream = "down"]
  /\ UNCHANGED <<guest, work, session, request, late, lane, pending, acts, history>>

(* What the requests being served would make of the place of a file. *)
Asked(f) ==
  {m.action : m \in {n \in late : n.file = f}} \cup
  (IF request[f].at = "served" THEN {request[f].action} ELSE {})

(* The Durable Object is evicted: what it was asked for and what it was doing are forgotten, and
   every call to it fails; the guest may have run the commands it was sent. *)
Evict ==
  /\ Mishap("evict")
  /\ work' = [r \in Refreshers |-> Resting]
  /\ session' = [session EXCEPT !.due = FALSE]
  /\ \E index \in [Files -> {"staged", "unstaged"}] :
       /\ \A f \in Files : index[f] = guest.index[f] \/ (session.up /\ index[f] \in Asked(f))
       /\ guest' = [guest EXCEPT !.index = index]
       /\ history' = [history EXCEPT !.forgot = TRUE, !.intent = Regarding(index)]
  /\ request' = [f \in Files |->
       IF request[f].at = "served" THEN [request[f] EXCEPT !.at = "failed"] ELSE request[f]]
  /\ late' = {}
  /\ LET cut == [page EXCEPT !.stream = IF @ = "open" THEN "down" ELSE @]
     IN page' = IF page.fetch.at = "asked" THEN Fetched([cut EXCEPT !.error = TRUE]) ELSE cut
  /\ UNCHANGED <<lane, pending, acts>>

-----------------------------------------------------------------------------
Refreshes ==
  LoopTurn \/ (\E r \in Refreshers : WritePatches(r) \/ PublishPatches(r) \/ Store(r))
Environment == Stop \/ Halt \/ Start \/ EndSetup
Agent == EndRun \/ Alarm \/ (\E f \in Files : RunTool(f))
Mutations ==
  (\E f \in Files : UpdateFile(f) \/ Execute(f) \/ Answered(f)) \/ (\E m \in late : ExecuteLate(m))
Browser == ServeSnapshot \/ ApplySnapshot \/ LoadPatches \/ ShowView \/ HideView \/ OpenStream
Losses == LoseSnapshot \/ BreakStream \/ Evict \/ (\E f \in Files : Lose(f))

Next == Refreshes \/ Environment \/ Agent \/ Mutations \/ Browser \/ Losses

Spec == Init /\ [][Next]_vars

-----------------------------------------------------------------------------
(* A browser whose view is open and whose stream is up shows the snapshot the Session stored, or
   is about to: a fetch that will bring it is under way or, when the fetch under way was answered
   before, is noted to follow it.  Told otherwise are only a user shown an error, and the browser
   whose stream had not opened yet when the snapshot was published. *)
NothingMissed ==
  page.active /\ page.stream = "open" /\ session.stored # None /\ page.shown # Id(session.stored) =>
    \/ page.fetch.at = "asked"
    \/ page.fetch.at = "answered" /\ (page.wanted \/ Id(page.fetch.snapshot) = Id(session.stored))
    \/ page.error \/ history.missed

(* However fast the user stages and unstages a file, and whatever is queued, replaced, refused by
   another command's lock or lost: once the file's requests have ended for the browser, its place
   in the index is what the user asked for last, unless that request failed, or since it was
   executed the agent or an earlier request that had lost its browser undid it. *)
LastIntentWins ==
  \A f \in Files : lane[f] = <<>> /\ history.intent[f] # None => guest.index[f] = history.intent[f]

(* A row shows a spinner only while the request it stands for is under way or queued: no answer,
   failure, replacement or retirement leaves an intent nobody will ever answer. *)
SpinnersServed ==
  \A f \in Files : pending[f] # None /\ pending[f].revision = 0 =>
    lane[f] # <<>> /\ lane[f][Len(lane[f])].generation = pending[f].generation

(* Nothing is going on in the Session, the guest and the browser. *)
Settled ==
  /\ MayRefresh /\ ~session.due /\ ~session.busy /\ \A r \in Refreshers : work[r].at = "idle"
  /\ late = {} /\ \A f \in Files : lane[f] = <<>>
  /\ page.active /\ page.stream = "open" /\ page.fetch.at = "idle" /\ page.patches # "loading"

(* What the code lets the browser be wrong about: the last refresh failed, in part or as a whole;
   the refresh that was due was forgotten (by an eviction, by the guard of refresh() while the
   environment was down, setting up or unreachable) or a stop's older one was stored after it; the
   browser was not told, or shows an error. *)
Excused ==
  \/ session.stored = None \/ session.stored.stale \/ session.stored.seen = None \/ session.stored.patch = None
  \/ history.forgot \/ history.missed \/ page.error

(* When all has come to rest the browser shows the guest's index and working tree, and no intent
   is pending but one whose revision was written over by another file's. *)
SettledIsRight ==
  Settled /\ ~Excused =>
    /\ page.shown = [seen |-> guest.index, patch |-> Diff]
    /\ page.patches \in {"full", "error"}
    /\ \A f \in Files : pending[f] # None => pending[f].revision > session.revision
=============================================================================
