------------------------ MODULE SessionChangesProofs ------------------------
(***************************************************************************)
(* Of the changes view, for any files, any number of requests and mishaps: *)
(* a browser that was told of a snapshot shows it or is about to, the last *)
(* request of a file wins, a spinner has a request that will end it, and   *)
(* what comes to rest is right.                                            *)
(***************************************************************************)
EXTENDS SessionChanges, SequenceTheorems, TLAPS

-----------------------------------------------------------------------------
(* Types.                                                                  *)

Actions == {"staged", "unstaged"}
Listings == [Files -> Actions] \cup {None}
Diffs == [tree : Nat, index : [Files -> Actions]]
Patches == Diffs \cup {None}
Ids == [seen : Listings, patch : Patches]
Snapshots == [seen : Listings, patch : Patches, stale : BOOLEAN]
Mutation == [action : Actions, generation : Nat]
Intent == [action : Actions, generation : Nat, revision : Nat]
Refresh ==
    [at : {"idle", "listed", "written", "published", "stale", "halt"},
     old : Snapshots \cup {None}, seen : Listings, patch : Patches,
     room : BOOLEAN]
Fetch ==
    [at : {"idle", "asked", "answered"}, snapshot : Snapshots \cup {None},
     revision : Nat]

Guests ==
    [index : [Files -> Actions], edit : Nat, patches : Ids \cup {None}]
Sessions ==
    [stored : Snapshots \cup {None}, revision : Nat, due : BOOLEAN,
     busy : BOOLEAN, up : BOOLEAN, setup : BOOLEAN]
Calls ==
    [at : {"idle", "served", "ok", "failed"}, action : Actions \cup {None},
     revision : Nat]
LateCalls ==
    [file : Files, generation : Nat, action : Actions, revision : Nat]
Pages ==
    [wanted : BOOLEAN, fetch : Fetch, shown : Ids \cup {None},
     patches : {"none", "loading", "full", "error"}, active : BOOLEAN,
     error : BOOLEAN, stream : {"new", "open", "down"}]
Histories ==
    [intent : [Files -> Actions \cup {None}], missed : BOOLEAN,
     forgot : BOOLEAN, outrun : BOOLEAN]

TypeOK ==
    /\ guest \in Guests /\ work \in [Refreshers -> Refresh]
    /\ session \in Sessions /\ request \in [Files -> Calls]
    /\ late \in SUBSET LateCalls
    /\ lane \in [Files -> Seq(Mutation)]
    /\ pending \in [Files -> Intent \cup {None}]
    /\ page \in Pages /\ history \in Histories /\ acts \in Nat

-----------------------------------------------------------------------------
(* The lanes.                                                              *)

(* The head of a lane is the request the gateway serves.                   *)
LaneOK(q, call) ==
    /\ Len(q) <= 2
    /\ q = <<>> <=> call.at = "idle"
    /\ q # <<>> => call.action = Head(q).action
    /\ call.at = "ok" => call.revision # 0
LaneInv == \A f \in Files : LaneOK(lane[f], request[f])

(* The last of a lane asks for what the user asked for last, and what the  *)
(* guest has done of it is in the index.                                   *)
IntentOK(f) ==
    history.intent[f] # None =>
        /\ lane[f] # <<>> => lane[f][Len(lane[f])].action = history.intent[f]
        /\ lane[f] = <<>> => guest.index[f] = history.intent[f]
        /\ request[f].at = "ok" /\ Len(lane[f]) = 1 =>
              guest.index[f] = history.intent[f]
IntentInv == \A f \in Files : IntentOK(f)

-----------------------------------------------------------------------------
(* The browser's snapshot.                                                 *)

(* What gitSnapshot answers; what was answered is a snapshot.              *)
ServedNow ==
    IF session.stored = None THEN Stored(Blank, TRUE) ELSE session.stored
FetchInv == page.fetch.at = "answered" => page.fetch.snapshot \in Snapshots
(* A fetch that was answered is of what is stored, or followed by another. *)
AnswerInv ==
    page.fetch.at = "answered" /\ page.stream # "down" =>
        page.wanted \/ history.missed \/ page.fetch.snapshot = ServedNow
(* The view rests, and nothing excuses it.                                 *)
AtRest == page.fetch.at = "idle" /\ page.stream # "down" /\ page.active
Known == ~page.error /\ ~history.missed /\ session.stored # None
(* The snapshot shown, and whether it has patches to load, is the stored.  *)
ShowsStored ==
    /\ page.shown = Id(session.stored)
    /\ page.patches = "none" => session.stored.patch = None
ShownInv == AtRest /\ Known => ShowsStored

-----------------------------------------------------------------------------
(* What the Session has stored.                                            *)

Current(seen, patch) ==
    /\ seen \in {None, guest.index}
    /\ patch \in {None, Diff}
StoredFresh ==
    \/ session.stored = None \/ session.stored.stale
    \/ session.stored.seen = None \/ session.stored.patch = None
    \/ Current(session.stored.seen, session.stored.patch)
(* What is stored may be behind the guest: a refresh is due, or was        *)
(* forgotten, or that of the loop has found it and may leave it.           *)
Behind ==
    \/ session.due \/ history.forgot
    \/ work["loop"].at # "idle" /\ session.stored = work["loop"].old
(* While nothing is due, the loop has read the guest as it is.             *)
LoopFresh ==
    /\ work["loop"].at # "halt"
    /\ work["loop"].at # "idle" /\ ~session.due =>
          Current(work["loop"].seen, work["loop"].patch)
(* So has a stop, unless a refresh of the loop began after it.             *)
StopFresh ==
    /\ ~session.due /\ ~history.outrun /\ work["stop"].at \in Reading
    /\ work["loop"].at # "idle" \/ ~history.forgot
    => Current(work["stop"].seen, work["stop"].patch)
FreshInv == LoopFresh /\ StopFresh /\ (~Behind => StoredFresh)

-----------------------------------------------------------------------------
(* The intents that are done.                                              *)

Still == \A f \in Files : lane[f] = <<>>
Unretired(f) ==
    /\ pending[f] # None /\ pending[f].revision # 0
    /\ pending[f].revision <= session.revision
(* A snapshot asked for once the lanes are empty and a request that went   *)
(* on without its browser has been refreshed for has their revision.       *)
RevisionInv ==
    Still /\ page.fetch.at = "answered" /\ page.stream # "down" /\ ~Behind =>
        \/ page.wanted \/ history.missed \/ page.fetch.snapshot.stale
        \/ page.fetch.revision = session.revision
RetiredInv ==
    Still /\ AtRest /\ Known /\ ~session.stored.stale /\ ~Behind =>
        \A f \in Files : ~Unretired(f)

-----------------------------------------------------------------------------
(* Records.                                                                *)

(* The id of a snapshot and what is stored of it keep its list and         *)
(* patches.                                                                *)
LEMMA IdIs ==
  ASSUME NEW s, s.seen \in Listings, s.patch \in Patches
  PROVE  /\ Id(s) \in Ids /\ Id(s).seen = s.seen /\ Id(s).patch = s.patch
         /\ \A b \in BOOLEAN :
               /\ Stored(s, b) \in Snapshots
               /\ Stored(s, b).seen = s.seen /\ Stored(s, b).patch = s.patch
               /\ Stored(s, b).stale = b
               /\ Id(Stored(s, b)) = Id(s)
BY DEF Id, Stored, Ids, Snapshots

(* A snapshot of which every command failed is one.                        *)
LEMMA BlankIs ==
  /\ Blank.seen = None /\ Blank.patch = None
  /\ None \in Listings /\ None \in Patches
BY DEF Blank, Listings, Patches

(* A stored snapshot has a list, patches, and an id.                       *)
LEMMA SnapshotIs ==
  ASSUME NEW s \in Snapshots
  PROVE  /\ s.seen \in Listings /\ s.patch \in Patches /\ s.stale \in BOOLEAN
         /\ Id(s) \in Ids
<1>1. s.seen \in Listings /\ s.patch \in Patches /\ s.stale \in BOOLEAN
  BY DEF Snapshots
<1> QED
  BY <1>1, IdIs

(* gitSnapshot has a snapshot to serve, stored or blank.                   *)
LEMMA ServedIs ==
  ASSUME TypeOK
  PROVE  ServedNow \in Snapshots
<1>1. session.stored \in Snapshots \cup {None}
  BY DEF TypeOK, Sessions
<1> QED
  BY <1>1, IdIs, BlankIs DEF ServedNow

(* What the Session holds.                                                 *)
LEMMA SessionIs ==
  ASSUME TypeOK
  PROVE  /\ session.stored \in Snapshots \cup {None} /\ session.revision \in Nat
         /\ session.due \in BOOLEAN /\ session.busy \in BOOLEAN
         /\ session.up \in BOOLEAN /\ session.setup \in BOOLEAN
BY DEF TypeOK, Sessions

(* #requestRefresh.                                                        *)
LEMMA WantingIs ==
  ASSUME NEW p \in Pages
  PROVE  /\ Wanting(p) \in Pages
         /\ Wanting(p).shown = p.shown /\ Wanting(p).patches = p.patches
         /\ Wanting(p).active = p.active /\ Wanting(p).stream = p.stream
         /\ p.active /\ p.fetch.at = "idle" =>
               Wanting(p).fetch.at = "asked"
         /\ ~(p.active /\ p.fetch.at = "idle") =>
               /\ Wanting(p).fetch = p.fetch /\ Wanting(p).wanted
               /\ Wanting(p).error = p.error
<1>1. CASE p.active /\ p.fetch.at = "idle"
  <2>1. Wanting(p) = [p EXCEPT !.wanted = FALSE, !.error = FALSE,
                               !.fetch.at = "asked"]
    BY <1>1 DEF Wanting
  <2>2. [p.fetch EXCEPT !.at = "asked"] \in Fetch
        /\ [p.fetch EXCEPT !.at = "asked"].at = "asked"
    BY DEF Pages, Fetch
  <2> QED
    BY <1>1, <2>1, <2>2 DEF Pages
<1>2. CASE ~(p.active /\ p.fetch.at = "idle")
  BY <1>2 DEF Wanting, Pages
<1> QED
  BY <1>1, <1>2

(* A turn of the browser ends idle or with the next fetch asked for.       *)
LEMMA FetchedIs ==
  ASSUME NEW p \in Pages
  PROVE  /\ Fetched(p) \in Pages
         /\ Fetched(p).shown = p.shown /\ Fetched(p).patches = p.patches
         /\ Fetched(p).active = p.active /\ Fetched(p).stream = p.stream
         /\ Fetched(p).fetch.at \in {"idle", "asked"}
         /\ p.wanted /\ p.active => Fetched(p).fetch.at = "asked"
         /\ ~p.wanted => Fetched(p).error = p.error
<1> DEFINE q == [p EXCEPT !.fetch = NoFetch]
<1>1. NoFetch \in Fetch /\ NoFetch.at = "idle"
  BY DEF NoFetch, Fetch
<1>2. /\ q \in Pages /\ q.fetch = NoFetch
      /\ q.shown = p.shown /\ q.patches = p.patches /\ q.active = p.active
      /\ q.stream = p.stream /\ q.error = p.error
  BY <1>1 DEF Pages
<1>3. Fetched(p) = IF p.wanted THEN Wanting(q) ELSE q
  BY DEF Fetched
<1> HIDE DEF q
<1> QED
  BY <1>1, <1>2, <1>3, WantingIs

(* git.snapshot.updated reaches the stream that is open, and no other.     *)
LEMMA ToldIs ==
  ASSUME NEW p \in Pages
  PROVE  /\ Told(p) \in Pages
         /\ Told(p).shown = p.shown /\ Told(p).patches = p.patches
         /\ Told(p).active = p.active /\ Told(p).stream = p.stream
         /\ p.stream = "open" => Told(p) = Wanting(p)
         /\ p.stream # "open" => Told(p) = p
BY WantingIs DEF Told

-----------------------------------------------------------------------------
(* What the steps do, field by field.                                      *)

SameStored == session'.stored = session.stored
                /\ session'.revision = session.revision
SameIntent == history'.intent = history.intent
SameMissed == history'.missed = history.missed
SameForgot == history'.forgot = history.forgot
                /\ history'.outrun = history.outrun

(* What the patches are written from.                                      *)
LEMMA DiffIs ==
  ASSUME TypeOK
  PROVE  /\ Diff \in Diffs /\ guest.index \in [Files -> Actions]
         /\ guest.index \in Listings /\ Diff \in Patches
         /\ None \in Listings /\ None \in Patches
<1>1. guest.index \in [Files -> Actions] /\ guest.edit \in Nat
  BY DEF TypeOK, Guests
<1> QED
  BY <1>1 DEF Diff, Diffs, Listings, Patches

(* The patches are those of the index and the tree.                        *)
LEMMA DiffSame ==
  ASSUME guest'.index = guest.index, guest'.edit = guest.edit
  PROVE  Diff' = Diff
BY DEF Diff

(* A refresh begins.                                                       *)
LEMMA ListsIs ==
  ASSUME TypeOK, NEW r \in Refreshers, NEW seen \in {None, guest.index},
         Lists(r, seen)
  PROVE  /\ work' \in [Refreshers -> Refresh]
         /\ \A s \in Refreshers \ {r} : work'[s] = work[s]
         /\ work'[r].at = "listed" /\ work'[r].old = session.stored
         /\ Current(work'[r].seen, work'[r].patch)
<1> DEFINE w == [Resting EXCEPT !.at = "listed", !.old = session.stored,
                                !.seen = seen]
<1>1. /\ work \in [Refreshers -> Refresh]
      /\ session.stored \in Snapshots \cup {None}
  BY SessionIs DEF TypeOK
<1>2. /\ w \in Refresh /\ w.at = "listed" /\ w.old = session.stored
      /\ w.seen = seen /\ w.patch = None
  BY <1>1, DiffIs DEF Refresh, Resting
<1>3. work' = [work EXCEPT ![r] = w]
  BY DEF Lists
<1> HIDE DEF w
<1> QED
  BY <1>1, <1>2, <1>3 DEF Current

(* A turn of #refreshLoop: a refresh begins with a list of the guest as it *)
(* is, or is turned away.                                                  *)
LEMMA LoopTurnIs ==
  ASSUME TypeOK, LoopTurn
  PROVE  /\ UNCHANGED <<guest, request, late, lane, pending, page, acts>>
         /\ SameIntent /\ SameMissed /\ SameStored
         /\ history' \in Histories /\ session' \in Sessions
         /\ work' \in [Refreshers -> Refresh] /\ work["loop"].at = "idle"
         /\ \/ /\ work'["loop"].at = "listed"
               /\ work'["loop"].old = session.stored
               /\ Current(work'["loop"].seen, work'["loop"].patch)
               /\ work'["stop"] = work["stop"]
               /\ history'.outrun = (work["stop"].at \in Reading)
            \/ work' = work /\ (session'.due \/ history'.forgot)
<1>1. /\ UNCHANGED <<guest, request, late, lane, pending, page, acts>>
      /\ work["loop"].at = "idle"
  BY DEF LoopTurn
<1>2. /\ history \in Histories /\ session \in Sessions
      /\ work \in [Refreshers -> Refresh]
  BY DEF TypeOK
<1>3. CASE /\ session' = [session EXCEPT !.due = FALSE]
           /\ history' = [history EXCEPT
                !.outrun = work["stop"].at \in Reading]
           /\ \E seen \in {None, guest.index} : Lists("loop", seen)
  <2>1. PICK seen \in {None, guest.index} : Lists("loop", seen)
    BY <1>3
  <2>2. /\ work' \in [Refreshers -> Refresh] /\ work'["loop"].at = "listed"
        /\ work'["loop"].old = session.stored
        /\ Current(work'["loop"].seen, work'["loop"].patch)
        /\ work'["stop"] = work["stop"]
    BY <2>1, ListsIs DEF Refreshers
  <2>3. /\ SameIntent /\ SameMissed /\ history' \in Histories
        /\ history'.outrun = (work["stop"].at \in Reading)
    <3> DEFINE outrun == work["stop"].at \in Reading
    <3>1. outrun \in BOOLEAN /\ history' = [history EXCEPT !.outrun = outrun]
      BY <1>3
    <3> HIDE DEF outrun
    <3>2. /\ SameIntent /\ SameMissed /\ history' \in Histories
          /\ history'.outrun = outrun
      BY <1>2, <3>1 DEF SameIntent, SameMissed, Histories
    <3> QED
      BY <3>2 DEF outrun
  <2>4. SameStored /\ session' \in Sessions
    BY <1>2, <1>3 DEF SameStored, Sessions
  <2> QED
    BY <1>1, <2>2, <2>3, <2>4
<1>4. CASE /\ session' = [session EXCEPT !.due = session.busy]
           /\ history' = [history EXCEPT !.forgot = @ \/ ~session.busy]
           /\ work' = work
  <2>1. session.busy \in BOOLEAN
    BY SessionIs
  <2>2. SameStored /\ session' \in Sessions /\ session'.due = session.busy
    BY <1>2, <1>4, <2>1 DEF SameStored, Sessions
  <2>3. /\ SameIntent /\ SameMissed /\ history' \in Histories
        /\ ~session.busy => history'.forgot
    BY <1>2, <1>4 DEF SameIntent, SameMissed, Histories
  <2> QED
    BY <1>1, <1>2, <1>4, <2>2, <2>3
<1> QED
  BY <1>3, <1>4 DEF LoopTurn

(* The patches are written, of the guest as it is, or fail.                *)
LEMMA WriteIs ==
  ASSUME TypeOK, NEW r \in Refreshers, WritePatches(r)
  PROVE  /\ UNCHANGED <<guest, session, request, late, lane, pending, page,
                        acts, history>>
         /\ work' \in [Refreshers -> Refresh]
         /\ work[r].at = "listed" /\ work'[r].at \in {"written", "stale"}
         /\ work'[r].old = work[r].old /\ work'[r].seen = work[r].seen
         /\ work'[r].patch \in {work[r].patch, Diff}
         /\ \A s \in Refreshers \ {r} : work'[s] = work[s]
<1>1. work \in [Refreshers -> Refresh] /\ work[r] \in Refresh
  BY DEF TypeOK
<1>2. PICK w : /\ work' = [work EXCEPT ![r] = w]
               /\ \/ w = [work[r] EXCEPT !.at = "written", !.patch = Diff,
                                         !.room = TRUE]
                  \/ w = [work[r] EXCEPT !.at = "written", !.room = TRUE]
                  \/ w = [work[r] EXCEPT !.at = "stale"]
  <2>1. \/ work' = [work EXCEPT ![r].at = "written", ![r].patch = Diff,
                               ![r].room = TRUE]
        \/ work' = [work EXCEPT ![r].at = "written", ![r].room = TRUE]
        \/ work' = [work EXCEPT ![r].at = "stale"]
    BY DEF WritePatches
  <2>2. CASE work' = [work EXCEPT ![r].at = "written", ![r].patch = Diff,
                                ![r].room = TRUE]
    <3>1. work' = [work EXCEPT ![r] = [work[r] EXCEPT
                     !.at = "written", !.patch = Diff, !.room = TRUE]]
      BY <1>1, <2>2
    <3> QED
      BY <3>1
  <2>3. CASE work' = [work EXCEPT ![r].at = "written", ![r].room = TRUE]
    <3>1. work' = [work EXCEPT ![r] = [work[r] EXCEPT
                     !.at = "written", !.room = TRUE]]
      BY <1>1, <2>3
    <3> QED
      BY <3>1
  <2>4. CASE work' = [work EXCEPT ![r].at = "stale"]
    BY <2>4
  <2> QED
    BY <2>1, <2>2, <2>3, <2>4
<1>3. /\ w \in Refresh /\ w.at \in {"written", "stale"}
      /\ w.old = work[r].old /\ w.seen = work[r].seen
      /\ w.patch \in {work[r].patch, Diff}
  BY <1>1, <1>2, DiffIs DEF Refresh
<1>4. /\ work' \in [Refreshers -> Refresh] /\ work'[r] = w
      /\ \A s \in Refreshers \ {r} : work'[s] = work[s]
  BY <1>1, <1>2, <1>3
<1> QED
  BY <1>3, <1>4 DEF WritePatches

(* publishPatchesCommand leaves the index, the tree and what was read      *)
(* alone.                                                                  *)
LEMMA PublishIs ==
  ASSUME TypeOK, NEW r \in Refreshers, PublishPatches(r)
  PROVE  /\ UNCHANGED <<session, request, late, lane, pending, page, acts,
                        history>>
         /\ work' \in [Refreshers -> Refresh] /\ guest' \in Guests
         /\ guest'.index = guest.index /\ guest'.edit = guest.edit
         /\ work[r].at = "written" /\ work'[r].at = "published"
         /\ \A s \in Refreshers : /\ s # r => work'[s].at = work[s].at
                                  /\ work'[s].old = work[s].old
                                  /\ work'[s].seen = work[s].seen
                                  /\ work'[s].patch = work[s].patch
<1>1. \A s \in Refreshers : work[s] \in Refresh
  BY DEF TypeOK
<1>2. guest \in Guests
  BY DEF TypeOK
<1>3. Id(work[r]) \in Ids
  BY <1>1, IdIs DEF Refresh
<1>4. \A s \in Refreshers : /\ [work[s] EXCEPT !.at = "published"] \in Refresh
                            /\ [work[s] EXCEPT !.room = FALSE] \in Refresh
  BY <1>1 DEF Refresh
<1>5. CASE work' = [s \in Refreshers |->
             IF s = r THEN [work[r] EXCEPT !.at = "published"]
             ELSE [work[s] EXCEPT !.room = FALSE]]
  <2>1. work' \in [Refreshers -> Refresh]
    BY <1>4, <1>5
  <2>2. /\ work'[r].at = "published"
        /\ \A s \in Refreshers : /\ s # r => work'[s].at = work[s].at
                                 /\ work'[s].old = work[s].old
                                 /\ work'[s].seen = work[s].seen
                                 /\ work'[s].patch = work[s].patch
    BY <1>1, <1>5 DEF Refresh
  <2>3. \E p \in Ids \cup {None} : guest' = [guest EXCEPT !.patches = p]
    BY <1>2, <1>3 DEF PublishPatches, Guests
  <2>4. /\ guest' \in Guests
        /\ guest'.index = guest.index /\ guest'.edit = guest.edit
    BY <1>2, <2>3 DEF Guests
  <2> QED
    BY <2>1, <2>2, <2>4 DEF PublishPatches
<1>6. CASE work' = [work EXCEPT ![r].at = "published"] /\ guest' = guest
  <2>1. work \in [Refreshers -> Refresh]
    BY DEF TypeOK
  <2>2. work'[r] = [work[r] EXCEPT !.at = "published"]
        /\ \A s \in Refreshers \ {r} : work'[s] = work[s]
    BY <1>6, <2>1
  <2>3. work' \in [Refreshers -> Refresh]
    BY <1>4, <1>6, <2>1, <2>2
  <2>4. /\ work'[r].at = "published" /\ work'[r].old = work[r].old
        /\ work'[r].seen = work[r].seen /\ work'[r].patch = work[r].patch
    BY <1>1, <2>2 DEF Refresh
  <2> QED
    BY <1>2, <1>6, <2>2, <2>3, <2>4 DEF PublishPatches
<1> QED
  BY <1>5, <1>6 DEF PublishPatches

(* What a refresh stores is a snapshot, and a stale one unless it          *)
(* published.                                                              *)
LEMMA ResultIs ==
  ASSUME TypeOK, NEW r \in Refreshers
  PROVE  /\ Result(r) \in Snapshots
         /\ work[r].at = "published" =>
              /\ Result(r).seen = work[r].seen
              /\ Result(r).patch = work[r].patch
         /\ work[r].at # "published" => Result(r).stale = TRUE
<1>1. /\ work[r].seen \in Listings /\ work[r].patch \in Patches
      /\ work[r].old \in Snapshots \cup {None}
  BY DEF TypeOK, Refresh
<1> QED
  BY <1>1, IdIs, BlankIs, SnapshotIs DEF Result

(* #store.                                                                 *)
LEMMA StoreIs ==
  ASSUME TypeOK, NEW r \in Refreshers, Store(r)
  PROVE  /\ UNCHANGED <<guest, request, late, lane, pending, acts>>
         /\ work[r].at \in {"published", "stale"}
         /\ work' \in [Refreshers -> Refresh] /\ session' \in Sessions
         /\ history' \in Histories /\ SameIntent
         /\ session'.revision = session.revision /\ session'.up = session.up
         /\ session'.due \/ ~session.due
         /\ history'.outrun = history.outrun
         /\ r = "stop" => history'.forgot = (history.forgot \/ history.outrun)
         /\ r = "loop" => history'.forgot = (history.forgot
                                               /\ work[r].at # "published")
         /\ history.missed => history'.missed
         /\ r = "loop" => work'[r].at = "idle"
         /\ r = "stop" => work'[r].at = "halt"
         /\ \A s \in Refreshers \ {r} : work'[s] = work[s]
         /\ \/ /\ session'.stored = session.stored /\ page' = page
               /\ work[r].at = "stale" /\ Result(r) = work[r].old
            \/ /\ session'.stored = Result(r) /\ page' = Told(page)
               /\ page.stream = "new" => history'.missed
<1> DEFINE changed == work[r].at = "published" \/ Result(r) # work[r].old
<1>1. /\ UNCHANGED <<guest, request, late, lane, pending, acts>>
      /\ work[r].at \in {"published", "stale"}
      /\ session' = [session EXCEPT
             !.stored = IF changed THEN Result(r) ELSE @,
             !.due = @ \/ (r = "loop" /\ session.busy)]
      /\ page' = IF changed THEN Told(page) ELSE page
      /\ history' = [history EXCEPT
             !.missed = @ \/ (changed /\ page.stream = "new"),
             !.forgot = IF r = "stop" THEN @ \/ history.outrun
                        ELSE @ /\ work[r].at # "published"]
      /\ work' = [work EXCEPT ![r] = IF r = "loop" THEN Resting
                                     ELSE [Resting EXCEPT !.at = "halt"]]
  BY DEF Store
<1>2. /\ session \in Sessions /\ history \in Histories
      /\ work \in [Refreshers -> Refresh]
  BY DEF TypeOK
<1>3. Result(r) \in Snapshots
  BY ResultIs
<1>4. /\ Resting \in Refresh /\ Resting.at = "idle"
      /\ [Resting EXCEPT !.at = "halt"] \in Refresh
      /\ [Resting EXCEPT !.at = "halt"].at = "halt"
  BY BlankIs DEF Resting, Refresh
<1>5. /\ work' \in [Refreshers -> Refresh]
      /\ r = "loop" => work'[r].at = "idle"
      /\ r = "stop" => work'[r].at = "halt"
      /\ \A s \in Refreshers \ {r} : work'[s] = work[s]
  BY <1>1, <1>2, <1>4
<1> HIDE DEF changed
<1>6. /\ session'.revision = session.revision /\ session'.up = session.up
      /\ session'.busy = session.busy
      /\ session'.stored = IF changed THEN Result(r) ELSE session.stored
  BY <1>1, <1>2 DEF Sessions
<1>7. session'.due = (session.due \/ (r = "loop" /\ session.busy))
  BY <1>1, <1>2 DEF Sessions
<1>8. session' \in Sessions
  BY <1>1, <1>2, <1>3 DEF Sessions
<1>9. /\ history' \in Histories /\ SameIntent
      /\ history'.outrun = history.outrun
      /\ history'.forgot = IF r = "stop" THEN history.forgot \/ history.outrun
                           ELSE history.forgot /\ work[r].at # "published"
  <2> DEFINE forgot == IF r = "stop" THEN history.forgot \/ history.outrun
                       ELSE history.forgot /\ work[r].at # "published"
             missed == history.missed \/ (changed /\ page.stream = "new")
  <2>1. forgot \in BOOLEAN /\ missed \in BOOLEAN
    BY <1>2 DEF Histories
  <2>2. history' = [history EXCEPT !.missed = missed, !.forgot = forgot]
    BY <1>1, <1>2 DEF Histories
  <2> HIDE DEF forgot, missed
  <2>3. /\ history' \in Histories /\ SameIntent
        /\ history'.outrun = history.outrun /\ history'.forgot = forgot
    BY <1>2, <2>1, <2>2 DEF Histories, SameIntent
  <2> QED
    BY <2>3 DEF forgot
<1>10. history'.missed = (history.missed \/ (changed /\ page.stream = "new"))
  BY <1>1, <1>2 DEF Histories
<1>11. CASE changed
  BY <1>1, <1>5, <1>6, <1>7, <1>8, <1>9, <1>10, <1>11
<1>12. CASE ~changed
  <2>1. work[r].at = "stale" /\ Result(r) = work[r].old
    BY <1>1, <1>12 DEF changed
  <2> QED
    BY <1>1, <1>5, <1>6, <1>7, <1>8, <1>9, <1>10, <1>12, <2>1
<1> QED
  BY <1>11, <1>12

(* A stop begins, with a refresh of its own or without, and leaves that of *)
(* the loop alone.                                                         *)
LEMMA StopIs ==
  ASSUME TypeOK, Stop
  PROVE  /\ UNCHANGED <<guest, session, request, late, lane, pending, page,
                        acts>>
         /\ work' \in [Refreshers -> Refresh] /\ work'["loop"] = work["loop"]
         /\ work'["stop"].at \in Reading =>
               Current(work'["stop"].seen, work'["stop"].patch)
         /\ history' \in Histories /\ SameIntent /\ SameMissed
         /\ history'.forgot = history.forgot
<1>1. /\ history \in Histories /\ work \in [Refreshers -> Refresh]
      /\ history' = [history EXCEPT !.outrun = FALSE]
  BY DEF TypeOK, Stop
<1>2. /\ history' \in Histories /\ SameIntent /\ SameMissed
      /\ history'.forgot = history.forgot
  BY <1>1 DEF Histories, SameIntent, SameMissed
<1>3. CASE \E seen \in {guest.index, None} : Lists("stop", seen)
  <2>1. PICK seen \in {guest.index, None} : Lists("stop", seen)
    BY <1>3
  <2> QED
    BY <1>2, <2>1, ListsIs DEF Stop, Refreshers
<1>4. CASE work' = [work EXCEPT !["stop"].at = "halt"]
  <2>1. [work["stop"] EXCEPT !.at = "halt"] \in Refresh
        /\ [work["stop"] EXCEPT !.at = "halt"].at = "halt"
    BY <1>1 DEF Refresh, Refreshers
  <2>2. /\ work' \in [Refreshers -> Refresh] /\ work'["loop"] = work["loop"]
        /\ work'["stop"].at = "halt"
    BY <1>1, <1>4, <2>1 DEF Refreshers
  <2> QED
    BY <1>2, <2>2 DEF Stop, Reading
<1> QED
  BY <1>3, <1>4 DEF Stop

(* The environment and the end of a run.                                   *)
LEMMA HaltIs ==
  ASSUME TypeOK, Halt
  PROVE  /\ UNCHANGED <<guest, request, late, lane, pending, page, acts,
                        history>>
         /\ work' \in [Refreshers -> Refresh] /\ session' \in Sessions
         /\ SameStored /\ session'.due = session.due
         /\ work'["loop"] = work["loop"] /\ work'["stop"].at = "idle"
<1>1. session \in Sessions /\ work \in [Refreshers -> Refresh]
  BY DEF TypeOK
<1>2. Resting \in Refresh /\ Resting.at = "idle"
  BY BlankIs DEF Resting, Refresh
<1>3. work' = [work EXCEPT !["stop"] = Resting]
      /\ session' = [session EXCEPT !.up = FALSE]
  BY DEF Halt
<1>4. session' \in Sessions /\ SameStored /\ session'.due = session.due
  BY <1>1, <1>3 DEF Sessions, SameStored
<1>5. /\ work' \in [Refreshers -> Refresh]
      /\ work'["loop"] = work["loop"] /\ work'["stop"].at = "idle"
  BY <1>1, <1>2, <1>3 DEF Refreshers
<1> QED
  BY <1>4, <1>5 DEF Halt

(* The end of a run and the alarm during one ask for a refresh.            *)
LEMMA DueIs ==
  ASSUME TypeOK, EndRun \/ Alarm
  PROVE  /\ UNCHANGED <<guest, work, request, late, lane, pending, page, acts,
                        history>>
         /\ session' \in Sessions /\ SameStored /\ session'.due
<1>1. session \in Sessions
  BY DEF TypeOK
<1>2. \/ session' = [session EXCEPT !.busy = FALSE, !.due = TRUE]
      \/ session' = [session EXCEPT !.due = TRUE]
  BY DEF EndRun, Alarm
<1>3. session' \in Sessions /\ SameStored /\ session'.due
  BY <1>1, <1>2 DEF Sessions, SameStored
<1> QED
  BY <1>3 DEF EndRun, Alarm

(* A start and the end of its setup ask for none.                          *)
LEMMA SetupIs ==
  ASSUME TypeOK, Start \/ EndSetup
  PROVE  /\ UNCHANGED <<guest, work, request, late, lane, pending, page, acts,
                        history>>
         /\ session' \in Sessions /\ SameStored
         /\ session'.due = session.due
<1>1. session \in Sessions
  BY DEF TypeOK
<1>2. \/ session' = [session EXCEPT !.up = TRUE, !.setup = TRUE]
      \/ session' = [session EXCEPT !.setup = FALSE]
  BY DEF Start, EndSetup
<1>3. session' \in Sessions /\ SameStored /\ session'.due = session.due
  BY <1>1, <1>2 DEF Sessions, SameStored
<1> QED
  BY <1>3 DEF Start, EndSetup

(* A tool asks for a refresh; a file it moves has no intent any more.      *)
LEMMA RunToolIs ==
  ASSUME TypeOK, NEW f \in Files, RunTool(f)
  PROVE  /\ UNCHANGED <<work, request, late, lane, pending, page, acts>>
         /\ guest' \in Guests /\ session' \in Sessions
         /\ history' \in Histories
         /\ SameStored /\ SameMissed /\ session'.due
         /\ \A g \in Files : history'.intent[g] # None =>
               /\ history'.intent[g] = history.intent[g]
               /\ guest'.index[g] = guest.index[g]
<1>1. guest \in Guests /\ session \in Sessions /\ history \in Histories
  BY DEF TypeOK
<1>2. session' = [session EXCEPT !.busy = TRUE, !.due = TRUE]
  BY DEF RunTool
<1>3. session' \in Sessions /\ SameStored /\ session'.due
  BY <1>1, <1>2 DEF Sessions, SameStored
<1>4. PICK state \in Actions :
        /\ guest' = [guest EXCEPT !.edit = @ + 1, !.index[f] = state]
        /\ history' = [history EXCEPT !.intent[f] =
                         IF state = guest.index[f] THEN @ ELSE None]
  BY DEF RunTool, Actions
<1>5. /\ guest' \in Guests
      /\ guest'.index = [guest.index EXCEPT ![f] = state]
  <2>1. /\ guest.index \in [Files -> Actions] /\ guest.edit + 1 \in Nat
        /\ guest.patches \in Ids \cup {None}
    BY <1>1 DEF Guests
  <2>2. guest' = [index |-> [guest.index EXCEPT ![f] = state],
                  edit |-> guest.edit + 1, patches |-> guest.patches]
    BY <1>1, <1>4 DEF Guests
  <2>3. [guest.index EXCEPT ![f] = state] \in [Files -> Actions]
    BY <2>1
  <2> QED
    BY <2>1, <2>2, <2>3 DEF Guests
<1>6. /\ history' \in Histories /\ SameMissed
      /\ history'.intent = [history.intent EXCEPT ![f] =
             IF state = guest.index[f] THEN @ ELSE None]
  BY <1>1, <1>4 DEF Histories, SameMissed
<1>7. /\ guest.index \in [Files -> Actions]
      /\ history.intent \in [Files -> Actions \cup {None}]
  BY <1>1 DEF Guests, Histories
<1>8. \A g \in Files : history'.intent[g] # None =>
         /\ history'.intent[g] = history.intent[g]
         /\ guest'.index[g] = guest.index[g]
  BY <1>5, <1>6, <1>7
<1> QED
  BY <1>3, <1>5, <1>6, <1>8 DEF RunTool

-----------------------------------------------------------------------------
(* Requests.                                                               *)

(* What is in a lane of one or two requests.                               *)
LEMMA LaneIs ==
  ASSUME TypeOK, NEW f \in Files
  PROVE  /\ lane[f] \in Seq(Mutation) /\ Len(lane[f]) \in Nat
         /\ lane[f] # <<>> =>
               /\ Len(lane[f]) > 0 /\ Head(lane[f]) = lane[f][1]
               /\ Head(lane[f]) \in Mutation
               /\ Tail(lane[f]) \in Seq(Mutation)
               /\ Len(Tail(lane[f])) = Len(lane[f]) - 1
               /\ Len(lane[f]) = 2 => /\ Tail(lane[f]) # <<>>
                                      /\ Head(Tail(lane[f])) = lane[f][2]
                                      /\ Tail(lane[f])[1] = lane[f][2]
                                      /\ lane[f][2] \in Mutation
               /\ Len(lane[f]) = 1 => Tail(lane[f]) = <<>>
<1>1. lane[f] \in Seq(Mutation)
  BY DEF TypeOK
<1> DEFINE q == lane[f]
<1> HIDE DEF q
<1>2. q \in Seq(Mutation)
  BY <1>1 DEF q
<1>3. Len(q) \in Nat /\ (q # <<>> => Len(q) > 0)
  BY <1>2, EmptySeq
<1>4. ASSUME q # <<>>
      PROVE  /\ Head(q) = q[1] /\ Head(q) \in Mutation
             /\ Tail(q) \in Seq(Mutation) /\ Len(Tail(q)) = Len(q) - 1
             /\ \A i \in 1..Len(q) - 1 : Tail(q)[i] = q[i + 1]
  BY <1>2, <1>4
<1>5. ASSUME q # <<>>, Len(q) = 2
      PROVE  /\ Tail(q) # <<>> /\ Head(Tail(q)) = q[2] /\ Tail(q)[1] = q[2]
             /\ q[2] \in Mutation
  <2>1. Len(Tail(q)) = 1 /\ 1 \in 1..Len(q) - 1 /\ 2 \in 1..Len(q)
    BY <1>4, <1>5
  <2>2. Tail(q)[1] = q[1 + 1] /\ Tail(q) \in Seq(Mutation)
    BY <1>4, <1>5, <2>1
  <2>3. ASSUME NEW t \in Seq(Mutation), Len(t) = 1
        PROVE  t # <<>> /\ Head(t) = t[1]
    BY <2>3
  <2>4. q[2] \in Mutation
    BY <1>2, <2>1, ElementOfSeq
  <2>5. 1 + 1 = 2
    OBVIOUS
  <2> QED
    BY <2>1, <2>2, <2>3, <2>4, <2>5
<1>6. ASSUME q # <<>>, Len(q) = 1
      PROVE  Tail(q) = <<>>
  <2>1. Tail(q) \in Seq(Mutation) /\ Len(Tail(q)) = 0
    BY <1>4, <1>6
  <2> QED
    BY <2>1, EmptySeq
<1> QED
  BY <1>2, <1>3, <1>4, <1>5, <1>6 DEF q

(* A request on its way to the Session.                                    *)
LEMMA ServedRequest ==
  ASSUME TypeOK, NEW a \in Actions
  PROVE  /\ Served(a) \in Calls /\ Served(a).at = "served"
         /\ Served(a).action = a
BY SessionIs DEF Served, Calls

(* One or two requests in a lane.                                          *)
LEMMA LaneOf ==
  ASSUME NEW a \in Mutation, NEW b \in Mutation
  PROVE  /\ <<a>> \in Seq(Mutation) /\ Len(<<a>>) = 1 /\ <<a>>[1] = a
         /\ Head(<<a>>) = a /\ <<a>> # <<>>
         /\ <<a, b>> \in Seq(Mutation) /\ Len(<<a, b>>) = 2
         /\ <<a, b>>[2] = b /\ Head(<<a, b>>) = a /\ <<a, b>> # <<>>
OBVIOUS

(* updateFile.                                                             *)
LEMMA UpdateFileIs ==
  ASSUME TypeOK, NEW f \in Files, UpdateFile(f)
  PROVE  /\ UNCHANGED <<guest, work, session, late, page>>
         /\ lane' \in [Files -> Seq(Mutation)]
         /\ request' \in [Files -> Calls]
         /\ pending' \in [Files -> Intent \cup {None}]
         /\ history' \in Histories /\ acts' \in Nat
         /\ SameMissed /\ SameForgot
         /\ \A g \in Files \ {f} :
               /\ lane'[g] = lane[g] /\ request'[g] = request[g]
               /\ pending'[g] = pending[g]
               /\ history'.intent[g] = history.intent[g]
         /\ \E mutation \in Mutation :
               /\ history'.intent[f] = mutation.action
               /\ pending'[f].generation = mutation.generation
               /\ \/ /\ lane[f] = <<>> /\ lane'[f] = <<mutation>>
                     /\ request'[f].at = "served"
                     /\ request'[f].action = mutation.action
                  \/ /\ lane[f] # <<>>
                     /\ lane'[f] = <<Head(lane[f]), mutation>>
                     /\ request'[f] = request[f]
<1> DEFINE action == Other(Row(f))
           mutation == [action |-> action, generation |-> acts + 1]
           intent == [action |-> action, generation |-> acts + 1,
                      revision |-> 0]
<1>1. /\ pending' = [pending EXCEPT ![f] = intent]
      /\ \/ /\ lane[f] = <<>>
            /\ lane' = [lane EXCEPT ![f] = <<mutation>>]
            /\ request' = [request EXCEPT ![f] = Served(action)]
         \/ /\ lane[f] # <<>>
            /\ lane' = [lane EXCEPT ![f] = <<Head(lane[f]), mutation>>]
            /\ request' = request
      /\ history' = [history EXCEPT !.intent[f] = action]
      /\ acts' = acts + 1
      /\ UNCHANGED <<guest, work, session, late, page>>
  BY DEF UpdateFile
<1>2. action \in Actions
  BY DEF Other, Actions
<1>3. /\ acts \in Nat /\ history \in Histories
      /\ lane \in [Files -> Seq(Mutation)] /\ request \in [Files -> Calls]
      /\ pending \in [Files -> Intent \cup {None}]
  BY DEF TypeOK
<1>4. /\ mutation \in Mutation /\ mutation.action = action
      /\ intent \in Intent /\ intent.generation = mutation.generation
  BY <1>2, <1>3 DEF Mutation, Intent
<1> HIDE DEF action, mutation, intent
<1>5. /\ history' \in Histories /\ SameMissed
      /\ SameForgot
      /\ history'.intent = [history.intent EXCEPT ![f] = action]
      /\ history.intent \in [Files -> Actions \cup {None}]
  BY <1>1, <1>2, <1>3 DEF Histories, SameMissed, SameForgot
<1>6. /\ pending' \in [Files -> Intent \cup {None}] /\ pending'[f] = intent
      /\ \A g \in Files \ {f} : /\ pending'[g] = pending[g]
                                /\ history'.intent[g] = history.intent[g]
      /\ history'.intent[f] = action
  BY <1>1, <1>3, <1>4, <1>5
<1>7. acts' \in Nat
  BY <1>1, <1>3
<1>8. CASE lane[f] = <<>>
  <2>1. /\ lane' = [lane EXCEPT ![f] = <<mutation>>]
        /\ request' = [request EXCEPT ![f] = Served(action)]
    BY <1>1, <1>8
  <2>2. <<mutation>> \in Seq(Mutation) /\ Served(action) \in Calls
        /\ Served(action).at = "served" /\ Served(action).action = action
    BY <1>2, <1>4, LaneOf, ServedRequest
  <2>3. /\ lane' \in [Files -> Seq(Mutation)] /\ lane'[f] = <<mutation>>
        /\ request' \in [Files -> Calls] /\ request'[f] = Served(action)
        /\ \A g \in Files \ {f} :
              lane'[g] = lane[g] /\ request'[g] = request[g]
    BY <1>3, <2>1, <2>2
  <2> QED
    BY <1>1, <1>4, <1>5, <1>6, <1>7, <1>8, <2>2, <2>3
<1>9. CASE lane[f] # <<>>
  <2>1. /\ lane' = [lane EXCEPT ![f] = <<Head(lane[f]), mutation>>]
        /\ request' = request
    BY <1>1, <1>9
  <2>2. <<Head(lane[f]), mutation>> \in Seq(Mutation)
    BY <1>4, <1>9, LaneIs, LaneOf
  <2>3. /\ lane' \in [Files -> Seq(Mutation)]
        /\ lane'[f] = <<Head(lane[f]), mutation>>
        /\ \A g \in Files \ {f} : lane'[g] = lane[g]
    BY <1>3, <2>1, <2>2
  <2> QED
    BY <1>1, <1>3, <1>4, <1>5, <1>6, <1>7, <1>9, <2>1, <2>3
<1> QED
  BY <1>8, <1>9

(* A request that is out is for the action of the head of its lane.        *)
LEMMA AskedIs ==
  ASSUME TypeOK, LaneInv, NEW f \in Files, request[f].at # "idle"
  PROVE  lane[f] # <<>> /\ request[f].action \in Actions
<1>1. lane[f] # <<>> /\ request[f].action = Head(lane[f]).action
  BY DEF LaneInv, LaneOK
<1>2. Head(lane[f]) \in Mutation
  BY <1>1, LaneIs
<1> QED
  BY <1>1, <1>2 DEF Mutation

(* git add or git restore.                                                 *)
LEMMA ExecuteIs ==
  ASSUME TypeOK, LaneInv, NEW f \in Files, Execute(f)
  PROVE  /\ UNCHANGED <<work, late, lane, pending, page, acts, history>>
         /\ guest' \in Guests /\ session' \in Sessions
         /\ request' \in [Files -> Calls]
         /\ session'.stored = session.stored /\ session'.due
         /\ request[f].at = "served"
         /\ request'[f].action = request[f].action
         /\ \A g \in Files \ {f} : /\ request'[g] = request[g]
                                   /\ guest'.index[g] = guest.index[g]
         /\ \/ /\ request'[f].at = "ok" /\ request'[f].revision # 0
               /\ guest'.index[f] = request[f].action
            \/ request'[f].at = "failed" /\ guest' = guest
<1>1. /\ guest \in Guests /\ session \in Sessions
      /\ request \in [Files -> Calls] /\ request[f] \in Calls
      /\ request[f].at = "served"
      /\ UNCHANGED <<work, late, lane, pending, page, acts, history>>
  BY DEF TypeOK, Execute
<1>2. /\ request[f].revision \in Nat
      /\ NextRevision(request[f].revision) \in Nat
      /\ NextRevision(request[f].revision) # 0
  BY <1>1 DEF Calls, NextRevision
<1>3. CASE /\ guest' = [guest EXCEPT !.index[f] = request[f].action]
           /\ session' = [session EXCEPT
                  !.revision = NextRevision(request[f].revision), !.due = TRUE]
           /\ request' = [request EXCEPT ![f].at = "ok",
                                         ![f].revision = NextRevision(@)]
  <2>1. session' \in Sessions /\ session'.stored = session.stored
        /\ session'.due
    BY <1>1, <1>2, <1>3 DEF Sessions
  <2> DEFINE m == [request EXCEPT ![f].at = "ok"]
             answer == [m[f] EXCEPT !.revision = NextRevision(m[f].revision)]
  <2>2. /\ m \in [Files -> Calls] /\ m[f].at = "ok"
        /\ m[f].action = request[f].action
        /\ m[f].revision = request[f].revision
        /\ \A g \in Files \ {f} : m[g] = request[g]
    <3>1. /\ [request[f] EXCEPT !.at = "ok"] \in Calls
          /\ [request[f] EXCEPT !.at = "ok"].at = "ok"
          /\ [request[f] EXCEPT !.at = "ok"].action = request[f].action
          /\ [request[f] EXCEPT !.at = "ok"].revision = request[f].revision
      BY <1>1 DEF Calls
    <3>2. m[f] = [request[f] EXCEPT !.at = "ok"]
      BY <1>1
    <3> QED
      BY <1>1, <3>1, <3>2
  <2>3. request' = [m EXCEPT ![f] = answer]
    BY <1>3
  <2> HIDE DEF m
  <2>11. answer \in Calls /\ answer.at = "ok" /\ answer.revision # 0
         /\ answer.action = request[f].action
    BY <1>2, <2>2 DEF Calls
  <2> HIDE DEF answer
  <2>4. /\ request' \in [Files -> Calls] /\ request'[f] = answer
        /\ \A g \in Files \ {f} : request'[g] = request[g]
    BY <2>2, <2>3, <2>11
  <2>5. request[f].action \in Actions
    BY <1>1, AskedIs
  <2>6. /\ guest.index \in [Files -> Actions]
        /\ [guest.index EXCEPT ![f] = request[f].action] \in [Files -> Actions]
    BY <1>1, <2>5 DEF Guests
  <2>7. guest' = [guest EXCEPT !.index =
                    [guest.index EXCEPT ![f] = request[f].action]]
    BY <1>1, <1>3 DEF Guests
  <2>8. /\ guest' \in Guests
        /\ guest'.index = [guest.index EXCEPT ![f] = request[f].action]
    BY <1>1, <2>6, <2>7 DEF Guests
  <2>9. /\ guest'.index[f] = request[f].action
        /\ \A g \in Files \ {f} : guest'.index[g] = guest.index[g]
    BY <2>6, <2>8
  <2> QED
    BY <1>1, <2>1, <2>4, <2>8, <2>9, <2>11
<1>4. CASE /\ session' = [session EXCEPT !.due = TRUE]
           /\ request' = [request EXCEPT ![f].at = "failed"]
           /\ guest' = guest
  <2>1. session' \in Sessions /\ session'.stored = session.stored
        /\ session'.due
    BY <1>1, <1>4 DEF Sessions
  <2>2. /\ [request[f] EXCEPT !.at = "failed"] \in Calls
        /\ [request[f] EXCEPT !.at = "failed"].at = "failed"
        /\ [request[f] EXCEPT !.at = "failed"].action = request[f].action
    BY <1>1 DEF Calls
  <2>3. /\ request' \in [Files -> Calls]
        /\ request'[f] = [request[f] EXCEPT !.at = "failed"]
        /\ \A g \in Files \ {f} : request'[g] = request[g]
    BY <1>1, <1>4, <2>2
  <2> QED
    BY <1>1, <1>4, <2>1, <2>2, <2>3
<1> QED
  BY <1>3, <1>4 DEF Execute

(* A request or its answer is lost: the request failed.                    *)
LEMMA LoseIs ==
  ASSUME TypeOK, LaneInv, NEW f \in Files, Lose(f)
  PROVE  /\ UNCHANGED <<guest, work, session, lane, pending, page, acts,
                        history>>
         /\ request' \in [Files -> Calls] /\ request[f].at # "idle"
         /\ late' \in SUBSET LateCalls
         /\ request'[f].at = "failed"
         /\ request'[f].action = request[f].action
         /\ \A g \in Files \ {f} : request'[g] = request[g]
<1>1. /\ request \in [Files -> Calls] /\ request[f] \in Calls
      /\ late \in SUBSET LateCalls /\ request[f].at # "idle"
      /\ request' = [request EXCEPT ![f].at = "failed"]
  BY DEF TypeOK, Lose
<1>2. /\ [request[f] EXCEPT !.at = "failed"] \in Calls
      /\ [request[f] EXCEPT !.at = "failed"].at = "failed"
      /\ [request[f] EXCEPT !.at = "failed"].action = request[f].action
  BY <1>1 DEF Calls
<1>3. /\ request' \in [Files -> Calls]
      /\ request'[f] = [request[f] EXCEPT !.at = "failed"]
      /\ \A g \in Files \ {f} : request'[g] = request[g]
  BY <1>1, <1>2
<1>4. late' \in SUBSET LateCalls
  <2> DEFINE m == [file |-> f, generation |-> Head(lane[f]).generation,
                   action |-> request[f].action,
                   revision |-> request[f].revision]
  <2>1. late' = late \/ late' = late \cup {m}
    BY DEF Lose
  <2>2. lane[f] # <<>> /\ request[f].action \in Actions
    BY <1>1, AskedIs
  <2>3. Head(lane[f]) \in Mutation
    BY <2>2, LaneIs
  <2>4. m \in LateCalls
    BY <1>1, <2>2, <2>3 DEF LateCalls, Mutation, Calls
  <2> HIDE DEF m
  <2> QED
    BY <1>1, <2>1, <2>4
<1> QED
  BY <1>1, <1>2, <1>3, <1>4 DEF Lose

(* What an index makes of the intents: one it undoes is forgotten.         *)
LEMMA RegardingIs ==
  ASSUME TypeOK, NEW index
  PROVE  /\ Regarding(index) \in [Files -> Actions \cup {None}]
         /\ \A g \in Files : Regarding(index)[g] # None =>
               /\ Regarding(index)[g] = history.intent[g]
               /\ \/ index[g] = guest.index[g]
                  \/ /\ lane[g] # <<>>
                     /\ ~(Len(lane[g]) = 1 /\ request[g].at = "ok")
<1>1. history.intent \in [Files -> Actions \cup {None}]
  BY DEF TypeOK, Histories
<1> QED
  BY <1>1 DEF Regarding, Undone

(* A request that lost its browser is executed, or fails.                  *)
LEMMA ExecuteLateIs ==
  ASSUME TypeOK, NEW m \in late, ExecuteLate(m)
  PROVE  /\ UNCHANGED <<work, request, lane, pending, page, acts>>
         /\ guest' \in Guests /\ session' \in Sessions
         /\ history' \in Histories /\ late' \in SUBSET LateCalls
         /\ session'.stored = session.stored /\ session'.due /\ SameMissed
         /\ \A g \in Files : history'.intent[g] # None =>
               /\ history'.intent[g] = history.intent[g]
               /\ \/ guest'.index[g] = guest.index[g]
                  \/ /\ lane[g] # <<>>
                     /\ ~(Len(lane[g]) = 1 /\ request[g].at = "ok")
<1>1. /\ guest \in Guests /\ session \in Sessions /\ history \in Histories
      /\ late \in SUBSET LateCalls /\ m \in LateCalls
  BY DEF TypeOK
<1>2. late' \in SUBSET LateCalls
  BY <1>1 DEF ExecuteLate
<1>3. CASE /\ guest' = [guest EXCEPT !.index[m.file] = m.action]
           /\ session' = [session EXCEPT
                  !.revision = NextRevision(m.revision), !.due = TRUE]
           /\ history' = [history EXCEPT !.intent = Regarding(guest'.index)]
  <2>1. /\ m.file \in Files /\ m.action \in Actions
        /\ NextRevision(m.revision) \in Nat
    BY <1>1 DEF LateCalls, NextRevision
  <2>2. /\ session' \in Sessions /\ session'.stored = session.stored
        /\ session'.due
    BY <1>1, <1>3, <2>1 DEF Sessions
  <2>3. [guest.index EXCEPT ![m.file] = m.action] \in [Files -> Actions]
    BY <1>1, <2>1 DEF Guests
  <2>4. guest' = [guest EXCEPT !.index =
                    [guest.index EXCEPT ![m.file] = m.action]]
    BY <1>1, <1>3 DEF Guests
  <2>5. guest' \in Guests
    BY <1>1, <2>3, <2>4 DEF Guests
  <2> DEFINE intent == Regarding(guest'.index)
  <2>6. /\ intent \in [Files -> Actions \cup {None}]
        /\ \A g \in Files : intent[g] # None =>
               /\ intent[g] = history.intent[g]
               /\ \/ guest'.index[g] = guest.index[g]
                  \/ /\ lane[g] # <<>>
                     /\ ~(Len(lane[g]) = 1 /\ request[g].at = "ok")
    BY RegardingIs
  <2>7. history' = [history EXCEPT !.intent = intent]
    BY <1>3
  <2> HIDE DEF intent
  <2>8. history' \in Histories /\ SameMissed /\ history'.intent = intent
    BY <1>1, <2>6, <2>7 DEF Histories, SameMissed
  <2> QED
    BY <1>2, <2>2, <2>5, <2>6, <2>8 DEF ExecuteLate
<1>4. CASE /\ session' = [session EXCEPT !.due = TRUE]
           /\ guest' = guest /\ history' = history
  <2>1. /\ session' \in Sessions /\ session'.stored = session.stored
        /\ session'.due
    BY <1>1, <1>4 DEF Sessions
  <2> QED
    BY <1>1, <1>2, <1>4, <2>1 DEF ExecuteLate, SameMissed
<1> QED
  BY <1>3, <1>4 DEF ExecuteLate

(* The intent after an answer.                                             *)
LEMMA AfterAnswerIs ==
  ASSUME TypeOK, NEW f \in Files
  PROVE  /\ AfterAnswer(f) \in Intent \cup {None}
         /\ \/ AfterAnswer(f) = None
            \/ pending[f] # None /\ AfterAnswer(f) = pending[f]
                 /\ pending[f].generation # Head(lane[f]).generation
            \/ /\ request[f].at = "ok"
               /\ AfterAnswer(f).revision = request[f].revision
<1>1. pending[f] \in Intent \cup {None} /\ request[f] \in Calls
  BY DEF TypeOK
<1>2. ASSUME pending[f] # None
      PROVE  /\ [pending[f] EXCEPT !.revision = request[f].revision] \in Intent
             /\ [pending[f] EXCEPT !.revision = request[f].revision].revision
                  = request[f].revision
  BY <1>1, <1>2 DEF Intent, Calls
<1> QED
  BY <1>1, <1>2 DEF AfterAnswer

(* The answer and the rest of #drainMutationLane.                          *)
LEMMA AnsweredIs ==
  ASSUME TypeOK, LaneInv, NEW f \in Files, Answered(f)
  PROVE  /\ UNCHANGED <<guest, work, session, late, acts>>
         /\ pending' \in [Files -> Intent \cup {None}]
         /\ lane' \in [Files -> Seq(Mutation)]
         /\ request' \in [Files -> Calls] /\ history' \in Histories
         /\ request[f].at \in {"ok", "failed"} /\ lane[f] # <<>>
         /\ pending'[f] = AfterAnswer(f) /\ lane'[f] = Tail(lane[f])
         /\ Len(lane[f]) = 2 => /\ request'[f].at = "served"
                                /\ request'[f].action = lane[f][2].action
         /\ Len(lane[f]) # 2 => request'[f].at = "idle"
         /\ history'.intent[f] =
              IF request[f].at = "failed" /\ Len(lane[f]) = 1 THEN None
              ELSE history.intent[f]
         /\ \A g \in Files \ {f} :
               /\ pending'[g] = pending[g] /\ lane'[g] = lane[g]
               /\ request'[g] = request[g]
               /\ history'.intent[g] = history.intent[g]
         /\ SameMissed /\ SameForgot
         /\ page' = IF \A g \in Files : lane'[g] = <<>> THEN Wanting(page)
                    ELSE page
<1> DEFINE call == IF Len(lane[f]) = 2 THEN Served(lane[f][2].action)
                   ELSE NoRequest
           intent == IF request[f].at = "failed" /\ Len(lane[f]) = 1
                     THEN None ELSE history.intent[f]
<1>1. /\ request[f].at \in {"ok", "failed"}
      /\ pending' = [pending EXCEPT ![f] = AfterAnswer(f)]
      /\ lane' = [lane EXCEPT ![f] = Tail(lane[f])]
      /\ request' = [request EXCEPT ![f] = call]
      /\ page' = IF \A g \in Files : lane'[g] = <<>> THEN Wanting(page)
                 ELSE page
      /\ history' = [history EXCEPT !.intent[f] = intent]
      /\ UNCHANGED <<guest, work, session, late, acts>>
  BY DEF Answered
<1>2. /\ pending \in [Files -> Intent \cup {None}]
      /\ lane \in [Files -> Seq(Mutation)]
      /\ request \in [Files -> Calls] /\ history \in Histories
      /\ history.intent \in [Files -> Actions \cup {None}]
  BY DEF TypeOK, Histories
<1>3. lane[f] # <<>>
  BY <1>1 DEF LaneInv, LaneOK
<1>4. Tail(lane[f]) \in Seq(Mutation)
  BY <1>3, LaneIs
<1>5. /\ call \in Calls
      /\ Len(lane[f]) = 2 => /\ call.at = "served"
                             /\ call.action = lane[f][2].action
      /\ Len(lane[f]) # 2 => call.at = "idle"
  <2>1. CASE Len(lane[f]) = 2
    <3>1. lane[f][2].action \in Actions
      BY <1>3, <2>1, LaneIs DEF Mutation
    <3> QED
      BY <2>1, <3>1, ServedRequest
  <2>2. CASE Len(lane[f]) # 2
    BY <2>2 DEF NoRequest, Calls
  <2> QED
    BY <2>1, <2>2
<1>6. intent \in Actions \cup {None}
  BY <1>2
<1> HIDE DEF call
<1>7. /\ history' \in Histories /\ SameMissed
      /\ SameForgot
      /\ history'.intent = [history.intent EXCEPT ![f] = intent]
  <2> HIDE DEF intent
  <2> QED
    BY <1>1, <1>2, <1>6 DEF Histories, SameMissed, SameForgot
<1>8. /\ pending' \in [Files -> Intent \cup {None}]
      /\ pending'[f] = AfterAnswer(f)
      /\ \A g \in Files \ {f} : pending'[g] = pending[g]
  BY <1>1, <1>2, AfterAnswerIs
<1>9. /\ lane' \in [Files -> Seq(Mutation)] /\ lane'[f] = Tail(lane[f])
      /\ request' \in [Files -> Calls] /\ request'[f] = call
      /\ \A g \in Files \ {f} :
            lane'[g] = lane[g] /\ request'[g] = request[g]
  BY <1>1, <1>2, <1>4, <1>5
<1>10. /\ history'.intent[f] = intent
       /\ \A g \in Files \ {f} : history'.intent[g] = history.intent[g]
  <2> HIDE DEF intent
  <2> QED
    BY <1>2, <1>7
<1> QED
  BY <1>1, <1>3, <1>5, <1>7, <1>8, <1>9, <1>10

-----------------------------------------------------------------------------
(* The browser.                                                            *)

(* gitSnapshot.                                                            *)
LEMMA ServeSnapshotIs ==
  ASSUME TypeOK, ServeSnapshot
  PROVE  /\ UNCHANGED <<guest, work, session, request, late, lane, pending,
                        acts>>
         /\ page' \in Pages /\ history' \in Histories
         /\ SameIntent /\ SameForgot
         /\ page'.fetch.at = "answered" /\ page'.fetch.snapshot = ServedNow
         /\ page'.fetch.revision = session.revision
         /\ page'.shown = page.shown /\ page'.patches = page.patches
         /\ page'.active = page.active
<1>1. page \in Pages /\ history \in Histories /\ session.revision \in Nat
  BY SessionIs DEF TypeOK
<1> DEFINE fetch == [at |-> "answered", revision |-> session.revision,
                     snapshot |-> ServedNow]
<1>2. /\ page' = [page EXCEPT !.fetch = fetch]
      /\ history' = [history EXCEPT !.missed = FALSE]
      /\ UNCHANGED <<guest, work, session, request, late, lane, pending, acts>>
  BY DEF ServeSnapshot, ServedNow
<1>3. /\ fetch \in Fetch /\ fetch.at = "answered"
      /\ fetch.snapshot = ServedNow /\ fetch.revision = session.revision
  BY <1>1, ServedIs DEF Fetch
<1> HIDE DEF fetch
<1>4. /\ page' \in Pages /\ page'.fetch = fetch
      /\ page'.shown = page.shown /\ page'.patches = page.patches
      /\ page'.active = page.active
  BY <1>1, <1>2, <1>3 DEF Pages
<1>5. /\ history' \in Histories /\ SameIntent
      /\ SameForgot
  BY <1>1, <1>2 DEF Histories, SameIntent, SameForgot
<1> QED
  BY <1>2, <1>3, <1>4, <1>5

(* A page with an error set.                                               *)
LEMMA ErrorIs ==
  ASSUME NEW p \in Pages
  PROVE  /\ [p EXCEPT !.error = TRUE] \in Pages
         /\ [p EXCEPT !.error = TRUE].shown = p.shown
         /\ [p EXCEPT !.error = TRUE].patches = p.patches
         /\ [p EXCEPT !.error = TRUE].active = p.active
         /\ [p EXCEPT !.error = TRUE].stream = p.stream
         /\ [p EXCEPT !.error = TRUE].wanted = p.wanted
         /\ [p EXCEPT !.error = TRUE].error = TRUE
BY DEF Pages

(* A fetch that fails shows its error, or is followed by another.          *)
LEMMA LoseSnapshotIs ==
  ASSUME TypeOK, LoseSnapshot
  PROVE  /\ UNCHANGED <<guest, work, session, request, late, lane, pending,
                        acts,
                        history>>
         /\ page' \in Pages
         /\ page'.shown = page.shown /\ page'.patches = page.patches
         /\ page'.fetch.at \in {"idle", "asked"}
         /\ page'.fetch.at = "idle" /\ page'.active => page'.error
<1>1. page \in Pages
  BY DEF TypeOK
<1> DEFINE p == [page EXCEPT !.error = TRUE]
<1>2. /\ p \in Pages /\ p.shown = page.shown /\ p.patches = page.patches
      /\ p.error = TRUE /\ p.active = page.active
  BY <1>1, ErrorIs
<1>3. page' = Fetched(p)
  BY DEF LoseSnapshot
<1> HIDE DEF p
<1>4. p.wanted \in BOOLEAN /\ p.active \in BOOLEAN
  BY <1>2 DEF Pages
<1>5. CASE p.wanted
  BY <1>2, <1>3, <1>5, FetchedIs DEF LoseSnapshot
<1>6. CASE ~p.wanted
  BY <1>2, <1>3, <1>6, FetchedIs DEF LoseSnapshot
<1> QED
  BY <1>5, <1>6

(* The second half of #refresh.                                            *)
LEMMA ApplySnapshotIs ==
  ASSUME TypeOK, ApplySnapshot, page.fetch.snapshot \in Snapshots
  PROVE  /\ UNCHANGED <<guest, work, session, request, late, lane, acts,
                        history>>
         /\ page' \in Pages /\ pending' \in [Files -> Intent \cup {None}]
         /\ page.fetch.at = "answered"
         /\ page'.shown = Id(page.fetch.snapshot)
         /\ page'.patches = IF page.fetch.snapshot.patch = None THEN "none"
                            ELSE "loading"
         /\ page'.active = page.active /\ page'.stream = page.stream
         /\ page'.fetch.at \in {"idle", "asked"}
         /\ page.wanted /\ page.active => page'.fetch.at = "asked"
         /\ \A f \in Files :
               pending'[f] =
                 IF /\ ~page.fetch.snapshot.stale
                    /\ Retired(f, page.fetch.revision)
                 THEN None ELSE pending[f]
<1> DEFINE snapshot == page.fetch.snapshot
           patches == IF snapshot.patch = None THEN "none" ELSE "loading"
           p == [page EXCEPT !.shown = Id(snapshot), !.patches = patches]
<1>1. /\ page \in Pages /\ pending \in [Files -> Intent \cup {None}]
      /\ snapshot \in Snapshots
  BY DEF TypeOK, Pages, Fetch
<1>2. Id(snapshot) \in Ids
  BY <1>1, SnapshotIs
<1>3. /\ page' = Fetched(p)
      /\ pending' = [f \in Files |->
             IF ~snapshot.stale /\ Retired(f, page.fetch.revision) THEN None
             ELSE pending[f]]
      /\ page.fetch.at = "answered"
      /\ UNCHANGED <<guest, work, session, request, late, lane, acts, history>>
  BY DEF ApplySnapshot
<1>4. patches \in {"none", "loading", "full", "error"}
  OBVIOUS
<1>5. /\ p \in Pages /\ p.shown = Id(snapshot) /\ p.patches = patches
      /\ p.active = page.active /\ p.stream = page.stream
      /\ p.wanted = page.wanted
  <2> HIDE DEF patches, snapshot
  <2> QED
    BY <1>1, <1>2, <1>4 DEF Pages
<1>6. pending' \in [Files -> Intent \cup {None}]
  BY <1>1, <1>3
<1> HIDE DEF p
<1>7. /\ page' \in Pages /\ page'.shown = p.shown /\ page'.patches = p.patches
      /\ page'.active = p.active /\ page'.stream = p.stream
      /\ page'.fetch.at \in {"idle", "asked"}
      /\ p.wanted /\ p.active => page'.fetch.at = "asked"
  BY <1>3, <1>5, FetchedIs
<1> QED
  BY <1>3, <1>5, <1>6, <1>7

(* #loadFullPatches.                                                       *)
LEMMA LoadPatchesIs ==
  ASSUME TypeOK, LoadPatches
  PROVE  /\ UNCHANGED <<guest, work, session, request, late, lane, pending,
                        acts,
                        history>>
         /\ page' \in Pages /\ page'.shown = page.shown
         /\ page'.patches \in {"full", "error"}
         /\ page'.fetch = page.fetch /\ page'.wanted = page.wanted
         /\ page'.active = page.active /\ page'.stream = page.stream
         /\ page'.error = page.error
<1>1. page \in Pages
  BY DEF TypeOK
<1>2. PICK patches \in {"full", "error"} :
         page' = [page EXCEPT !.patches = patches]
  BY DEF LoadPatches
<1> QED
  BY <1>1, <1>2 DEF LoadPatches, Pages

(* setViewActive.                                                          *)
LEMMA ShowViewIs ==
  ASSUME TypeOK, ShowView
  PROVE  /\ UNCHANGED <<guest, work, session, request, late, lane, pending,
                        acts,
                        history>>
         /\ page' \in Pages
         /\ page'.shown = page.shown /\ page'.patches = page.patches
         /\ page'.stream = page.stream
         /\ page.fetch.at = "idle" => page'.fetch.at = "asked"
         /\ page.fetch.at # "idle" => /\ page'.fetch = page.fetch
                                      /\ page'.wanted = page.wanted
<1> DEFINE p == [page EXCEPT !.active = TRUE]
<1>1. page \in Pages
  BY DEF TypeOK
<1>2. /\ p \in Pages /\ p.active /\ p.shown = page.shown
      /\ p.patches = page.patches /\ p.stream = page.stream
      /\ p.fetch = page.fetch /\ p.wanted = page.wanted
  BY <1>1 DEF Pages
<1>3. /\ page' = IF page.fetch.at = "idle" THEN Wanting(p) ELSE p
      /\ UNCHANGED <<guest, work, session, request, late, lane, pending, acts,
                     history>>
  BY DEF ShowView
<1> HIDE DEF p
<1>4. CASE page.fetch.at = "idle"
  BY <1>2, <1>3, <1>4, WantingIs
<1>5. CASE page.fetch.at # "idle"
  BY <1>2, <1>3, <1>5
<1> QED
  BY <1>4, <1>5

(* setViewActive: a hidden view keeps what it shows.                       *)
LEMMA HideViewIs ==
  ASSUME TypeOK, HideView
  PROVE  /\ UNCHANGED <<guest, work, session, request, late, lane, pending,
                        acts,
                        history>>
         /\ page' \in Pages /\ ~page'.active
         /\ page'.shown = page.shown /\ page'.patches = page.patches
         /\ page'.stream = page.stream /\ page'.fetch = page.fetch
         /\ page'.wanted = page.wanted
BY DEF TypeOK, HideView, Pages

(* A stream that opens again asks for the snapshot.                        *)
LEMMA OpenStreamIs ==
  ASSUME TypeOK, OpenStream
  PROVE  /\ UNCHANGED <<guest, work, session, request, late, lane, pending,
                        acts,
                        history>>
         /\ page' \in Pages
         /\ page'.shown = page.shown /\ page'.patches = page.patches
         /\ page'.active = page.active
         /\ page.stream = "down" =>
              \/ page'.fetch.at = "asked"
              \/ /\ page'.fetch = page.fetch /\ page'.wanted
                 /\ ~(page.active /\ page.fetch.at = "idle")
         /\ page.stream # "down" =>
              /\ page'.fetch = page.fetch /\ page'.wanted = page.wanted
              /\ page'.error = page.error
<1> DEFINE p == [page EXCEPT !.stream = "open"]
<1>1. page \in Pages
  BY DEF TypeOK
<1>2. /\ p \in Pages /\ p.active = page.active /\ p.shown = page.shown
      /\ p.patches = page.patches /\ p.fetch = page.fetch
      /\ p.wanted = page.wanted /\ p.error = page.error
  BY <1>1 DEF Pages
<1>3. /\ page' = IF page.stream = "down" THEN Wanting(p) ELSE p
      /\ UNCHANGED <<guest, work, session, request, late, lane, pending, acts,
                     history>>
  BY DEF OpenStream
<1> HIDE DEF p
<1>4. CASE page.stream = "down"
  BY <1>2, <1>3, <1>4, WantingIs
<1>5. CASE page.stream # "down"
  BY <1>2, <1>3, <1>5
<1> QED
  BY <1>4, <1>5

(* A stream that breaks tells the page nothing.                            *)
LEMMA BreakStreamIs ==
  ASSUME TypeOK, BreakStream
  PROVE  /\ UNCHANGED <<guest, work, session, request, late, lane, pending,
                        acts,
                        history>>
         /\ page' \in Pages /\ page'.stream = "down"
         /\ page'.shown = page.shown /\ page'.patches = page.patches
         /\ page'.active = page.active /\ page'.fetch = page.fetch
         /\ page'.wanted = page.wanted
BY DEF TypeOK, BreakStream, Pages

(* The Durable Object is evicted.                                          *)
LEMMA EvictIs ==
  ASSUME TypeOK, LaneInv, Evict
  PROVE  /\ UNCHANGED <<lane, pending, acts>>
         /\ guest' \in Guests /\ work' \in [Refreshers -> Refresh]
         /\ session' \in Sessions /\ request' \in [Files -> Calls]
         /\ page' \in Pages /\ history' \in Histories
         /\ late' \in SUBSET LateCalls
         /\ SameStored /\ SameMissed /\ history'.forgot
         /\ \A r \in Refreshers : work'[r].at = "idle"
         /\ \A f \in Files :
               /\ request[f].at = "served" =>
                     /\ request'[f].at = "failed"
                     /\ request'[f].action = request[f].action
               /\ request[f].at # "served" => request'[f] = request[f]
         /\ \A g \in Files : history'.intent[g] # None =>
               /\ history'.intent[g] = history.intent[g]
               /\ \/ guest'.index[g] = guest.index[g]
                  \/ /\ lane[g] # <<>>
                     /\ ~(Len(lane[g]) = 1 /\ request[g].at = "ok")
         /\ page'.shown = page.shown /\ page'.patches = page.patches
         /\ page'.active = page.active
         /\ page'.stream = IF page.stream = "open" THEN "down" ELSE page.stream
         /\ page.fetch.at = "asked" =>
              /\ page'.fetch.at \in {"idle", "asked"}
              /\ page'.fetch.at = "idle" /\ page'.active => page'.error
         /\ page.fetch.at # "asked" =>
              /\ page'.fetch = page.fetch /\ page'.wanted = page.wanted
              /\ page'.error = page.error
<1> DEFINE stream == IF page.stream = "open" THEN "down" ELSE page.stream
           cut == [page EXCEPT !.stream = stream]
<1>1. /\ page \in Pages /\ history \in Histories /\ session \in Sessions
      /\ guest \in Guests /\ request \in [Files -> Calls]
  BY DEF TypeOK
<1>2. /\ work' = [r \in Refreshers |-> Resting]
      /\ session' = [session EXCEPT !.due = FALSE]
      /\ request' = [f \in Files |->
           IF request[f].at = "served" THEN [request[f] EXCEPT !.at = "failed"]
           ELSE request[f]]
      /\ page' = IF page.fetch.at = "asked"
                 THEN Fetched([cut EXCEPT !.error = TRUE]) ELSE cut
      /\ late' = {}
      /\ UNCHANGED <<lane, pending, acts>>
  BY DEF Evict
<1>3. /\ cut \in Pages /\ cut.shown = page.shown
      /\ cut.patches = page.patches /\ cut.active = page.active
      /\ cut.stream = stream /\ cut.fetch = page.fetch
      /\ cut.wanted = page.wanted /\ cut.error = page.error
  <2>1. stream \in {"new", "open", "down"}
    BY <1>1 DEF Pages
  <2> HIDE DEF stream
  <2> QED
    BY <1>1, <2>1 DEF Pages
<1> HIDE DEF cut
<1>4. /\ page' \in Pages /\ page'.shown = page.shown
      /\ page'.patches = page.patches /\ page'.active = page.active
      /\ page'.stream = stream
      /\ page.fetch.at = "asked" =>
              /\ page'.fetch.at \in {"idle", "asked"}
              /\ page'.fetch.at = "idle" /\ page'.active => page'.error
      /\ page.fetch.at # "asked" =>
              /\ page'.fetch = page.fetch /\ page'.wanted = page.wanted
              /\ page'.error = page.error
  <2>1. CASE page.fetch.at # "asked"
    BY <1>2, <1>3, <2>1
  <2>2. CASE page.fetch.at = "asked"
    <3> DEFINE p == [cut EXCEPT !.error = TRUE]
    <3>1. /\ p \in Pages /\ p.shown = page.shown /\ p.patches = page.patches
          /\ p.active = page.active /\ p.stream = stream
          /\ p.error = TRUE
      BY <1>3, ErrorIs
    <3>2. page' = Fetched(p)
      BY <1>2, <2>2
    <3> HIDE DEF p
    <3>3. p.wanted \in BOOLEAN /\ p.active \in BOOLEAN
      BY <3>1 DEF Pages
    <3>4. CASE p.wanted
      BY <2>2, <3>1, <3>2, <3>4, FetchedIs
    <3>5. CASE ~p.wanted
      BY <2>2, <3>1, <3>2, <3>5, FetchedIs
    <3> QED
      BY <3>3, <3>4, <3>5
  <2> QED
    BY <2>1, <2>2
<1>5. /\ work' \in [Refreshers -> Refresh]
      /\ \A r \in Refreshers : work'[r].at = "idle"
  <2>1. Resting \in Refresh /\ Resting.at = "idle"
    BY BlankIs DEF Resting, Refresh
  <2> QED
    BY <1>2, <2>1
<1>6. session' \in Sessions /\ SameStored
  BY <1>1, <1>2 DEF Sessions, SameStored
<1>8. \A f \in Files : /\ request[f] \in Calls
                       /\ [request[f] EXCEPT !.at = "failed"] \in Calls
                       /\ [request[f] EXCEPT !.at = "failed"].at = "failed"
                       /\ [request[f] EXCEPT !.at = "failed"].action
                            = request[f].action
  BY <1>1 DEF Calls
<1>9. /\ request' \in [Files -> Calls]
      /\ \A f \in Files :
            /\ request[f].at = "served" =>
                 request'[f].at = "failed"
                   /\ request'[f].action = request[f].action
            /\ request[f].at # "served" => request'[f] = request[f]
  BY <1>2, <1>8
<1>10. PICK index \in [Files -> Actions] :
          /\ guest' = [guest EXCEPT !.index = index]
          /\ history' = [history EXCEPT !.forgot = TRUE,
                                        !.intent = Regarding(index)]
  BY DEF Evict, Actions
<1>11. guest' \in Guests /\ guest'.index = index
  BY <1>1, <1>10 DEF Guests
<1> DEFINE intent == Regarding(index)
<1>12. /\ intent \in [Files -> Actions \cup {None}]
       /\ \A g \in Files : intent[g] # None =>
             /\ intent[g] = history.intent[g]
             /\ \/ index[g] = guest.index[g]
                \/ /\ lane[g] # <<>>
                   /\ ~(Len(lane[g]) = 1 /\ request[g].at = "ok")
  BY RegardingIs
<1>13. history' = [history EXCEPT !.forgot = TRUE, !.intent = intent]
  BY <1>10
<1> HIDE DEF intent
<1>14. /\ history' \in Histories /\ SameMissed /\ history'.forgot
       /\ history'.intent = intent
  BY <1>1, <1>12, <1>13 DEF Histories, SameMissed
<1> QED
  BY <1>2, <1>4, <1>5, <1>6, <1>9, <1>11, <1>12, <1>14

-----------------------------------------------------------------------------
(* The steps, by what they touch.                                          *)

(* Steps of the gateway and the guest that neither the browser nor a       *)
(* request takes part in.                                                  *)
Away ==
    \/ LoopTurn \/ Stop \/ Halt \/ Start \/ EndSetup \/ EndRun \/ Alarm
    \/ \E r \in Refreshers : WritePatches(r)
    \/ \E r \in Refreshers : PublishPatches(r)
    \/ \E f \in Files : RunTool(f)
(* Steps of the browser that leave its intents alone.                      *)
Viewing ==
    \/ ServeSnapshot \/ LoseSnapshot \/ LoadPatches
    \/ ShowView \/ HideView \/ OpenStream \/ BreakStream
(* Every step is one of these.                                             *)
LEMMA NextCases ==
  ASSUME Next
  PROVE  \/ Away \/ Viewing \/ ApplySnapshot \/ Evict
         \/ \E r \in Refreshers : Store(r)
         \/ \E f \in Files : UpdateFile(f)
         \/ \E f \in Files : Execute(f)
         \/ \E f \in Files : Answered(f)
         \/ \E f \in Files : Lose(f)
         \/ \E m \in late : ExecuteLate(m)
BY DEF Next, Refreshes, Environment, Agent, Mutations, Browser, Losses, Away,
       Viewing

(* The browser and its requests take no part in these steps.               *)
LEMMA AwayIs ==
  ASSUME TypeOK, Away
  PROVE  /\ UNCHANGED <<request, late, lane, pending, page, acts>>
         /\ guest' \in Guests /\ work' \in [Refreshers -> Refresh]
         /\ session' \in Sessions /\ history' \in Histories
         /\ SameStored /\ SameMissed
         /\ \A g \in Files : history'.intent[g] # None =>
               /\ history'.intent[g] = history.intent[g]
               /\ guest'.index[g] = guest.index[g]
<1>1. /\ guest \in Guests /\ work \in [Refreshers -> Refresh]
      /\ session \in Sessions /\ history \in Histories
  BY DEF TypeOK
<1>2. CASE LoopTurn
  BY <1>1, <1>2, LoopTurnIs DEF SameIntent
<1>3. CASE Stop
  BY <1>1, <1>3, StopIs DEF SameStored, SameIntent
<1>4. CASE Halt
  BY <1>1, <1>4, HaltIs DEF SameMissed
<1>5. CASE EndRun \/ Alarm
  BY <1>1, <1>5, DueIs DEF SameMissed
<1>9. CASE Start \/ EndSetup
  BY <1>1, <1>9, SetupIs DEF SameMissed
<1>10. CASE \E r \in Refreshers : WritePatches(r)
  <2>1. PICK r \in Refreshers : WritePatches(r)
    BY <1>10
  <2> QED
    BY <1>1, <2>1, WriteIs DEF SameStored, SameMissed
<1>6. ASSUME NEW r \in Refreshers, PublishPatches(r)
      PROVE  /\ UNCHANGED <<request, late, lane, pending, page, acts, session,
                            history>>
             /\ guest' \in Guests /\ work' \in [Refreshers -> Refresh]
             /\ guest'.index = guest.index
  BY <1>6, PublishIs
<1>7. CASE \E r \in Refreshers : PublishPatches(r)
  BY <1>1, <1>6, <1>7 DEF SameStored, SameMissed
<1>8. CASE \E f \in Files : RunTool(f)
  <2>1. PICK f \in Files : RunTool(f)
    BY <1>8
  <2> QED
    BY <1>1, <2>1, RunToolIs
<1> QED
  BY <1>2, <1>3, <1>4, <1>5, <1>7, <1>8, <1>9, <1>10 DEF Away

(* The Session, the guest and the requests take no part in these steps.    *)
LEMMA ViewingIs ==
  ASSUME TypeOK, Viewing
  PROVE  /\ UNCHANGED <<guest, work, session, request, late, lane, pending,
                        acts>>
         /\ page' \in Pages /\ history' \in Histories
         /\ SameIntent /\ SameForgot
<1>1. history \in Histories
  BY DEF TypeOK
<1>2. CASE ServeSnapshot
  BY <1>2, ServeSnapshotIs
<1>3. CASE LoseSnapshot
  BY <1>1, <1>3, LoseSnapshotIs DEF SameIntent, SameForgot
<1>4. CASE LoadPatches
  BY <1>1, <1>4, LoadPatchesIs DEF SameIntent, SameForgot
<1>5. CASE ShowView
  BY <1>1, <1>5, ShowViewIs DEF SameIntent, SameForgot
<1>6. CASE HideView
  BY <1>1, <1>6, HideViewIs DEF SameIntent, SameForgot
<1>7. CASE OpenStream
  BY <1>1, <1>7, OpenStreamIs DEF SameIntent, SameForgot
<1>8. CASE BreakStream
  BY <1>1, <1>8, BreakStreamIs DEF SameIntent, SameForgot
<1> QED
  BY <1>2, <1>3, <1>4, <1>5, <1>6, <1>7, <1>8 DEF Viewing

-----------------------------------------------------------------------------
(* The type and the lanes.                                                 *)

(* The types hold of a new page.                                           *)
LEMMA TypeInit == Init => TypeOK
<1> SUFFICES ASSUME Init PROVE TypeOK
  OBVIOUS
<1>1. guest \in Guests /\ late \in SUBSET LateCalls
  BY DEF Init, Guests, Actions
<1>2. work \in [Refreshers -> Refresh]
  <2>1. Resting \in Refresh
    BY BlankIs DEF Resting, Refresh
  <2> QED
    BY <2>1 DEF Init
<1>3. session \in Sessions
  BY DEF Init, Sessions
<1>4. request \in [Files -> Calls]
  <2>1. NoRequest \in Calls
    BY DEF NoRequest, Calls
  <2> QED
    BY <2>1 DEF Init
<1>5. lane \in [Files -> Seq(Mutation)]
  <2>1. <<>> \in Seq(Mutation)
    OBVIOUS
  <2> QED
    BY <2>1 DEF Init
<1>6. page \in Pages
  <2>1. NoFetch \in Fetch
    BY DEF NoFetch, Fetch
  <2> QED
    BY <2>1 DEF Init, Pages
<1>7. history \in Histories /\ pending \in [Files -> Intent \cup {None}]
      /\ acts \in Nat
  BY DEF Init, Histories
<1> QED
  BY <1>1, <1>2, <1>3, <1>4, <1>5, <1>6, <1>7 DEF TypeOK

(* Every step keeps the types.                                             *)
LEMMA TypeKept ==
  ASSUME TypeOK, LaneInv, FetchInv, Next
  PROVE  TypeOK'
<1>1. /\ guest \in Guests /\ work \in [Refreshers -> Refresh]
      /\ session \in Sessions /\ request \in [Files -> Calls]
      /\ late \in SUBSET LateCalls /\ lane \in [Files -> Seq(Mutation)]
      /\ pending \in [Files -> Intent \cup {None}]
      /\ page \in Pages /\ history \in Histories /\ acts \in Nat
  BY DEF TypeOK
<1>2. CASE Away
  <2>1. /\ UNCHANGED <<request, late, lane, pending, page, acts>>
        /\ guest' \in Guests /\ work' \in [Refreshers -> Refresh]
        /\ session' \in Sessions /\ history' \in Histories
    BY <1>2, AwayIs
  <2> QED
    BY <1>1, <2>1 DEF TypeOK
<1>3. CASE Viewing
  <2>1. /\ UNCHANGED <<guest, work, session, request, late, lane, pending,
                       acts>>
        /\ page' \in Pages /\ history' \in Histories
    BY <1>3, ViewingIs
  <2> QED
    BY <1>1, <2>1 DEF TypeOK
<1>4. CASE ApplySnapshot
  <2>1. page.fetch.snapshot \in Snapshots
    BY <1>4 DEF ApplySnapshot, FetchInv
  <2>2. /\ UNCHANGED <<guest, work, session, request, late, lane, acts,
                       history>>
        /\ page' \in Pages /\ pending' \in [Files -> Intent \cup {None}]
    BY <1>4, <2>1, ApplySnapshotIs
  <2> QED
    BY <1>1, <2>2 DEF TypeOK
<1>5. CASE Evict
  <2>1. /\ UNCHANGED <<lane, pending, acts>>
        /\ guest' \in Guests /\ work' \in [Refreshers -> Refresh]
        /\ session' \in Sessions /\ request' \in [Files -> Calls]
        /\ page' \in Pages /\ history' \in Histories
        /\ late' \in SUBSET LateCalls
    BY <1>5, EvictIs
  <2> QED
    BY <1>1, <2>1 DEF TypeOK
<1>6. ASSUME NEW r \in Refreshers, Store(r) PROVE TypeOK'
  <2>1. /\ UNCHANGED <<guest, request, late, lane, pending, acts>>
        /\ work' \in [Refreshers -> Refresh] /\ session' \in Sessions
        /\ history' \in Histories /\ page' \in {page, Told(page)}
    BY <1>6, StoreIs
  <2>2. page' \in Pages
    BY <1>1, <2>1, ToldIs
  <2> QED
    BY <1>1, <2>1, <2>2 DEF TypeOK
<1>7. ASSUME NEW f \in Files, UpdateFile(f) PROVE TypeOK'
  <2>1. /\ UNCHANGED <<guest, work, session, late, page>>
        /\ lane' \in [Files -> Seq(Mutation)]
        /\ request' \in [Files -> Calls]
        /\ pending' \in [Files -> Intent \cup {None}]
        /\ history' \in Histories /\ acts' \in Nat
    BY <1>7, UpdateFileIs
  <2> QED
    BY <1>1, <2>1 DEF TypeOK
<1>8. ASSUME NEW f \in Files, Execute(f) PROVE TypeOK'
  <2>1. /\ UNCHANGED <<work, late, lane, pending, page, acts, history>>
        /\ guest' \in Guests /\ session' \in Sessions
        /\ request' \in [Files -> Calls]
    BY <1>8, ExecuteIs
  <2> QED
    BY <1>1, <2>1 DEF TypeOK
<1>9. ASSUME NEW f \in Files, Answered(f) PROVE TypeOK'
  <2>1. /\ UNCHANGED <<guest, work, session, late, acts>>
        /\ pending' \in [Files -> Intent \cup {None}]
        /\ lane' \in [Files -> Seq(Mutation)]
        /\ request' \in [Files -> Calls] /\ history' \in Histories
        /\ page' \in {page, Wanting(page)}
    BY <1>9, AnsweredIs
  <2>2. page' \in Pages
    BY <1>1, <2>1, WantingIs
  <2> QED
    BY <1>1, <2>1, <2>2 DEF TypeOK
<1>10. ASSUME NEW f \in Files, Lose(f) PROVE TypeOK'
  <2>1. /\ UNCHANGED <<guest, work, session, lane, pending, page, acts,
                       history>>
        /\ request' \in [Files -> Calls] /\ late' \in SUBSET LateCalls
    BY <1>10, LoseIs
  <2> QED
    BY <1>1, <2>1 DEF TypeOK
<1>11. ASSUME NEW m \in late, ExecuteLate(m) PROVE TypeOK'
  <2>1. /\ UNCHANGED <<work, request, lane, pending, page, acts>>
        /\ guest' \in Guests /\ session' \in Sessions
        /\ history' \in Histories /\ late' \in SUBSET LateCalls
    BY <1>11, ExecuteLateIs
  <2> QED
    BY <1>1, <2>1 DEF TypeOK
<1> QED
  BY <1>2, <1>3, <1>4, <1>5, <1>6, <1>7, <1>8, <1>9, <1>10, <1>11, NextCases

(* Where no request is touched.                                            *)
LEMMA Untouched ==
  ASSUME TypeOK, FetchInv,
         Away \/ Viewing \/ ApplySnapshot \/ \E r \in Refreshers : Store(r)
  PROVE  /\ UNCHANGED <<request, late, lane>>
         /\ \A g \in Files : history'.intent[g] # None =>
               /\ history'.intent[g] = history.intent[g]
               /\ guest'.index[g] = guest.index[g]
         /\ \A g \in Files : pending'[g] \in {pending[g], None}
<1>1. CASE Away
  BY <1>1, AwayIs
<1>2. CASE Viewing
  BY <1>2, ViewingIs DEF SameIntent
<1>3. CASE ApplySnapshot
  <2>1. page.fetch.snapshot \in Snapshots
    BY <1>3 DEF ApplySnapshot, FetchInv
  <2> QED
    BY <1>3, <2>1, ApplySnapshotIs
<1>4. CASE \E r \in Refreshers : Store(r)
  <2>1. PICK r \in Refreshers : Store(r)
    BY <1>4
  <2> QED
    BY <2>1, StoreIs DEF SameIntent
<1> QED
  BY <1>1, <1>2, <1>3, <1>4

(* Every step keeps the head of each lane the request that is served.      *)
LEMMA LaneKept ==
  ASSUME TypeOK, LaneInv, FetchInv, Next
  PROVE  LaneInv'
<1>1. \A f \in Files : LaneOK(lane[f], request[f])
  BY DEF LaneInv
<1>3. ASSUME NEW f \in Files, NEW g \in Files,
             lane'[g] = lane[g], request'[g] = request[g]
      PROVE  LaneOK(lane'[g], request'[g])
  BY <1>1, <1>3
<1>4. CASE Away \/ Viewing \/ ApplySnapshot \/ \E r \in Refreshers : Store(r)
  <2>1. UNCHANGED <<request, late, lane>>
    BY <1>4, Untouched
  <2> QED
    BY <2>1 DEF LaneInv
<1>5. ASSUME NEW f \in Files, UpdateFile(f) PROVE LaneInv'
  <2>1. \A g \in Files \ {f} : lane'[g] = lane[g] /\ request'[g] = request[g]
    BY <1>5, UpdateFileIs
  <2>2. PICK m \in Mutation :
          \/ /\ lane[f] = <<>> /\ lane'[f] = <<m>>
             /\ request'[f].at = "served" /\ request'[f].action = m.action
          \/ /\ lane[f] # <<>> /\ lane'[f] = <<Head(lane[f]), m>>
             /\ request'[f] = request[f]
    BY <1>5, UpdateFileIs
  <2>3. LaneOK(lane'[f], request'[f])
    <3>1. CASE lane[f] = <<>>
      <4>1. Len(<<m>>) = 1 /\ Head(<<m>>) = m /\ <<m>> # <<>>
        BY LaneOf
      <4>2. /\ lane'[f] # <<>> /\ Len(lane'[f]) = 1
            /\ request'[f].at = "served"
            /\ request'[f].action = Head(lane'[f]).action
        BY <2>2, <3>1, <4>1
      <4> QED
        BY <4>2 DEF LaneOK
    <3>2. CASE lane[f] # <<>>
      <4>1. Head(lane[f]) \in Mutation
        BY <3>2, LaneIs
      <4>2. /\ Len(<<Head(lane[f]), m>>) = 2
            /\ Head(<<Head(lane[f]), m>>) = Head(lane[f])
            /\ <<Head(lane[f]), m>> # <<>>
        BY <4>1, LaneOf
      <4>3. /\ lane'[f] # <<>> /\ Len(lane'[f]) = 2
            /\ Head(lane'[f]) = Head(lane[f]) /\ request'[f] = request[f]
        BY <2>2, <3>2, <4>2
      <4> QED
        BY <1>1, <3>2, <4>3 DEF LaneOK
    <3> QED
      BY <3>1, <3>2
  <2> QED
    BY <1>3, <2>1, <2>3 DEF LaneInv
<1>6. ASSUME NEW f \in Files, Execute(f) PROVE LaneInv'
  <2>1. /\ lane' = lane /\ request[f].at = "served"
        /\ request'[f].action = request[f].action
        /\ \A g \in Files \ {f} : request'[g] = request[g]
        /\ \/ request'[f].at = "ok" /\ request'[f].revision # 0
           \/ request'[f].at = "failed"
    BY <1>6, ExecuteIs
  <2>2. LaneOK(lane'[f], request'[f])
    BY <1>1, <2>1 DEF LaneOK
  <2> QED
    BY <1>3, <2>1, <2>2 DEF LaneInv
<1>7. ASSUME NEW f \in Files, Answered(f) PROVE LaneInv'
  <2>1. /\ lane[f] # <<>> /\ lane'[f] = Tail(lane[f])
        /\ Len(lane[f]) = 2 => /\ request'[f].at = "served"
                               /\ request'[f].action = lane[f][2].action
        /\ Len(lane[f]) # 2 => request'[f].at = "idle"
        /\ \A g \in Files \ {f} :
              lane'[g] = lane[g] /\ request'[g] = request[g]
    BY <1>7, AnsweredIs
  <2>2. /\ Len(lane[f]) \in Nat /\ Len(lane[f]) > 0
        /\ Len(Tail(lane[f])) = Len(lane[f]) - 1
        /\ Len(lane[f]) = 2 => /\ Tail(lane[f]) # <<>>
                               /\ Head(Tail(lane[f])) = lane[f][2]
        /\ Len(lane[f]) = 1 => Tail(lane[f]) = <<>>
    BY <2>1, LaneIs
  <2>3. Len(lane[f]) <= 2
    BY <1>1 DEF LaneOK
  <2>4. LaneOK(lane'[f], request'[f])
    <3>1. CASE Len(lane[f]) = 1
      <4>1. lane'[f] = <<>> /\ request'[f].at = "idle" /\ Len(<<>>) = 0
        BY <2>1, <2>2, <3>1
      <4> QED
        BY <4>1 DEF LaneOK
    <3>2. CASE Len(lane[f]) = 2
      <4>1. /\ lane'[f] # <<>> /\ Len(lane'[f]) = 1
            /\ request'[f].at = "served"
            /\ request'[f].action = Head(lane'[f]).action
        BY <2>1, <2>2, <3>2
      <4> QED
        BY <4>1 DEF LaneOK
    <3>3. Len(lane[f]) \in Nat /\ Len(lane[f]) > 0
      BY <2>2
    <3>4. \A n \in Nat : n > 0 /\ n <= 2 => n \in {1, 2}
      OBVIOUS
    <3>5. Len(lane[f]) \in {1, 2}
      BY <2>3, <3>3, <3>4
    <3> QED
      BY <3>1, <3>2, <3>5
  <2> QED
    BY <1>3, <2>1, <2>4 DEF LaneInv
<1>8. ASSUME NEW f \in Files, Lose(f) PROVE LaneInv'
  <2>1. /\ lane' = lane /\ request[f].at # "idle"
        /\ request'[f].at = "failed"
        /\ request'[f].action = request[f].action
        /\ \A g \in Files \ {f} : request'[g] = request[g]
    BY <1>8, LoseIs
  <2>2. LaneOK(lane'[f], request'[f])
    BY <1>1, <2>1 DEF LaneOK
  <2> QED
    BY <1>3, <2>1, <2>2 DEF LaneInv
<1>9. CASE Evict
  <2>1. /\ lane' = lane
        /\ \A f \in Files :
             /\ request[f].at = "served" =>
                   /\ request'[f].at = "failed"
                   /\ request'[f].action = request[f].action
             /\ request[f].at # "served" => request'[f] = request[f]
    BY <1>9, EvictIs
  <2>2. \A f \in Files : LaneOK(lane'[f], request'[f])
    BY <1>1, <2>1 DEF LaneOK
  <2> QED
    BY <2>2 DEF LaneInv
<1>10. ASSUME NEW m \in late, ExecuteLate(m) PROVE LaneInv'
  <2>1. UNCHANGED <<request, lane>>
    BY <1>10, ExecuteLateIs
  <2> QED
    BY <2>1 DEF LaneInv
<1> QED
  BY <1>4, <1>5, <1>6, <1>7, <1>8, <1>9, <1>10, NextCases

(* Of a lane that is not empty, the length and the last.                   *)
LEMMA LaneShape ==
  ASSUME TypeOK, LaneInv, NEW f \in Files, lane[f] # <<>>
  PROVE  \/ Len(lane[f]) = 1 /\ Head(lane[f]) = lane[f][Len(lane[f])]
                             /\ Tail(lane[f]) = <<>>
         \/ /\ Len(lane[f]) = 2 /\ Tail(lane[f]) # <<>>
            /\ Len(Tail(lane[f])) = 1
            /\ Tail(lane[f])[1] = lane[f][Len(lane[f])]
<1>1. Len(lane[f]) \in Nat /\ Len(lane[f]) > 0
  BY LaneIs
<1>2. Len(lane[f]) <= 2
  BY DEF LaneInv, LaneOK
<1>3. \A n \in Nat : n > 0 /\ n <= 2 => n \in {1, 2}
  OBVIOUS
<1>4. Len(lane[f]) \in {1, 2}
  BY <1>1, <1>2, <1>3
<1>5. CASE Len(lane[f]) = 1
  <2>1. Head(lane[f]) = lane[f][1] /\ Tail(lane[f]) = <<>>
    BY <1>5, LaneIs
  <2> QED
    BY <1>5, <2>1
<1>6. CASE Len(lane[f]) = 2
  <2>1. /\ Tail(lane[f]) # <<>> /\ Tail(lane[f])[1] = lane[f][2]
        /\ Len(Tail(lane[f])) = Len(lane[f]) - 1
    BY <1>6, LaneIs
  <2>2. 2 - 1 = 1
    OBVIOUS
  <2> QED
    BY <1>6, <2>1, <2>2
<1> QED
  BY <1>4, <1>5, <1>6

(* What updateFile leaves at the end of the lane of its file.              *)
LEMMA LastIs ==
  ASSUME TypeOK, LaneInv, NEW f \in Files, UpdateFile(f)
  PROVE  /\ lane'[f] # <<>>
         /\ lane'[f][Len(lane'[f])].action = history'.intent[f]
         /\ lane'[f][Len(lane'[f])].generation = pending'[f].generation
         /\ request'[f].at = "ok" => Len(lane'[f]) = 2
<1>1. PICK m \in Mutation :
        /\ history'.intent[f] = m.action
        /\ pending'[f].generation = m.generation
        /\ \/ /\ lane[f] = <<>> /\ lane'[f] = <<m>>
              /\ request'[f].at = "served"
           \/ lane[f] # <<>> /\ lane'[f] = <<Head(lane[f]), m>>
  BY UpdateFileIs
<1>2. CASE lane[f] = <<>>
  <2>1. Len(<<m>>) = 1 /\ <<m>>[1] = m /\ <<m>> # <<>>
    BY LaneOf
  <2>2. lane'[f] # <<>> /\ lane'[f][Len(lane'[f])] = m
    BY <1>1, <1>2, <2>1
  <2> QED
    BY <1>1, <1>2, <2>2
<1>3. CASE lane[f] # <<>>
  <2>1. Head(lane[f]) \in Mutation
    BY <1>3, LaneIs
  <2>2. /\ Len(<<Head(lane[f]), m>>) = 2 /\ <<Head(lane[f]), m>>[2] = m
        /\ <<Head(lane[f]), m>> # <<>>
    BY <2>1, LaneOf
  <2>3. /\ lane'[f] # <<>> /\ lane'[f][Len(lane'[f])] = m
        /\ Len(lane'[f]) = 2
    BY <1>1, <1>3, <2>2
  <2> QED
    BY <1>1, <2>3
<1> QED
  BY <1>2, <1>3

-----------------------------------------------------------------------------
(* The last intent of a file.                                              *)

(* Every step keeps the last of each lane the last intent of its file.     *)
LEMMA IntentKept ==
  ASSUME TypeOK, LaneInv, FetchInv, IntentInv, Next
  PROVE  IntentInv'
<1>1. \A f \in Files : IntentOK(f)
  BY DEF IntentInv
<1>2. (\A f \in Files : IntentOK(f)') => IntentInv'
  BY DEF IntentInv
<1>3. ASSUME NEW g \in Files, lane'[g] = lane[g], request'[g] = request[g],
             history'.intent[g] # None =>
               /\ history'.intent[g] = history.intent[g]
               /\ guest'.index[g] = guest.index[g]
      PROVE  IntentOK(g)'
  BY <1>1, <1>3 DEF IntentOK
<1>4. CASE Away \/ Viewing \/ ApplySnapshot \/ \E r \in Refreshers : Store(r)
  <2>1. /\ UNCHANGED <<request, late, lane>>
        /\ \A g \in Files : history'.intent[g] # None =>
               /\ history'.intent[g] = history.intent[g]
               /\ guest'.index[g] = guest.index[g]
    BY <1>4, Untouched
  <2> QED
    BY <1>2, <1>3, <2>1
<1>5. ASSUME NEW f \in Files, UpdateFile(f) PROVE IntentInv'
  <2>1. /\ \A g \in Files \ {f} :
              /\ lane'[g] = lane[g] /\ request'[g] = request[g]
              /\ history'.intent[g] = history.intent[g]
        /\ guest' = guest
    BY <1>5, UpdateFileIs
  <2>2. IntentOK(f)'
    <3>1. /\ lane'[f] # <<>>
          /\ lane'[f][Len(lane'[f])].action = history'.intent[f]
          /\ request'[f].at = "ok" => Len(lane'[f]) = 2
      BY <1>5, LastIs
    <3>2. request'[f].at = "ok" => Len(lane'[f]) # 1
      BY <3>1
    <3> QED
      BY <3>1, <3>2 DEF IntentOK
  <2> QED
    BY <1>2, <1>3, <2>1, <2>2
<1>6. ASSUME NEW f \in Files, Execute(f) PROVE IntentInv'
  <2>1. /\ UNCHANGED <<lane, history>> /\ request[f].at = "served"
        /\ \A g \in Files \ {f} : /\ request'[g] = request[g]
                                  /\ guest'.index[g] = guest.index[g]
        /\ \/ guest'.index[f] = request[f].action
           \/ request'[f].at = "failed"
    BY <1>6, ExecuteIs
  <2>2. lane[f] # <<>> /\ request[f].action = Head(lane[f]).action
    BY <2>1 DEF LaneInv, LaneOK
  <2>3. Len(lane[f]) = 1 => Head(lane[f]) = lane[f][Len(lane[f])]
    BY <2>2, LaneShape
  <2>4. IntentOK(f)'
    BY <1>1, <2>1, <2>2, <2>3 DEF IntentOK
  <2> QED
    BY <1>2, <1>3, <2>1, <2>4
<1>7. ASSUME NEW f \in Files, Answered(f) PROVE IntentInv'
  <2>1. /\ guest' = guest /\ lane[f] # <<>> /\ lane'[f] = Tail(lane[f])
        /\ Len(lane[f]) = 2 => request'[f].at = "served"
        /\ request[f].at \in {"ok", "failed"}
        /\ history'.intent[f] =
             IF request[f].at = "failed" /\ Len(lane[f]) = 1 THEN None
             ELSE history.intent[f]
        /\ \A g \in Files \ {f} :
              /\ lane'[g] = lane[g] /\ request'[g] = request[g]
              /\ history'.intent[g] = history.intent[g]
    BY <1>7, AnsweredIs
  <2>2. IntentOK(f)'
    <3>1. CASE Len(lane[f]) = 1
      <4>1. lane'[f] = <<>>
        BY <2>1, <3>1, LaneIs
      <4>2. history'.intent[f] # None =>
              request[f].at = "ok" /\ history'.intent[f] = history.intent[f]
        BY <2>1, <3>1
      <4> QED
        BY <1>1, <2>1, <3>1, <4>1, <4>2 DEF IntentOK
    <3>2. CASE Len(lane[f]) # 1
      <4>1. /\ Len(lane[f]) = 2 /\ lane'[f] # <<>> /\ Len(lane'[f]) = 1
            /\ lane'[f][1] = lane[f][Len(lane[f])]
        BY <2>1, <3>2, LaneShape
      <4>2. /\ request'[f].at = "served"
            /\ history'.intent[f] = history.intent[f]
            /\ lane'[f][Len(lane'[f])] = lane[f][Len(lane[f])]
        BY <2>1, <4>1
      <4> QED
        BY <1>1, <2>1, <4>1, <4>2 DEF IntentOK
    <3> QED
      BY <3>1, <3>2
  <2> QED
    BY <1>2, <1>3, <2>1, <2>2
<1>8. ASSUME NEW f \in Files, Lose(f) PROVE IntentInv'
  <2>1. /\ UNCHANGED <<guest, lane, history>> /\ request'[f].at = "failed"
        /\ \A g \in Files \ {f} : request'[g] = request[g]
    BY <1>8, LoseIs
  <2>2. IntentOK(f)'
    BY <1>1, <2>1 DEF IntentOK
  <2> QED
    BY <1>2, <1>3, <2>1, <2>2
<1>9. CASE Evict
  <2>1. /\ lane' = lane
        /\ \A f \in Files :
             /\ request[f].at = "served" => request'[f].at = "failed"
             /\ request[f].at # "served" => request'[f] = request[f]
             /\ history'.intent[f] # None =>
                  /\ history'.intent[f] = history.intent[f]
                  /\ \/ guest'.index[f] = guest.index[f]
                     \/ /\ lane[f] # <<>>
                        /\ ~(Len(lane[f]) = 1 /\ request[f].at = "ok")
    BY <1>9, EvictIs
  <2>2. ASSUME NEW f \in Files PROVE IntentOK(f)'
    <3>1. request'[f].at = "ok" => request[f].at = "ok"
      BY <2>1
    <3> QED
      BY <1>1, <2>1, <3>1 DEF IntentOK
  <2> QED
    BY <1>2, <2>2
<1>10. ASSUME NEW m \in late, ExecuteLate(m) PROVE IntentInv'
  <2>1. /\ UNCHANGED <<request, lane>>
        /\ \A f \in Files : history'.intent[f] # None =>
              /\ history'.intent[f] = history.intent[f]
              /\ \/ guest'.index[f] = guest.index[f]
                 \/ /\ lane[f] # <<>>
                    /\ ~(Len(lane[f]) = 1 /\ request[f].at = "ok")
    BY <1>10, ExecuteLateIs
  <2>2. ASSUME NEW f \in Files PROVE IntentOK(f)'
    BY <1>1, <2>1 DEF IntentOK
  <2> QED
    BY <1>2, <2>2
<1> QED
  BY <1>4, <1>5, <1>6, <1>7, <1>8, <1>9, <1>10, NextCases

-----------------------------------------------------------------------------
(* The spinners.                                                           *)

SpinnerOK(f) ==
    pending[f] # None /\ pending[f].revision = 0 =>
      /\ lane[f] # <<>>
      /\ lane[f][Len(lane[f])].generation = pending[f].generation

(* No answer, failure, replacement or retirement orphans a spinner.        *)
LEMMA SpinnersKept ==
  ASSUME TypeOK, LaneInv, FetchInv, SpinnersServed, Next
  PROVE  SpinnersServed'
<1>1. \A f \in Files : SpinnerOK(f)
  BY DEF SpinnersServed, SpinnerOK
<1>2. (\A f \in Files : SpinnerOK(f)') => SpinnersServed'
  BY DEF SpinnersServed, SpinnerOK
<1>3. ASSUME NEW g \in Files, lane'[g] = lane[g],
             pending'[g] \in {pending[g], None}
      PROVE  SpinnerOK(g)'
  BY <1>1, <1>3 DEF SpinnerOK
<1>4. CASE Away \/ Viewing \/ ApplySnapshot \/ \E r \in Refreshers : Store(r)
  <2>1. lane' = lane /\ \A g \in Files : pending'[g] \in {pending[g], None}
    BY <1>4, Untouched
  <2> QED
    BY <1>2, <1>3, <2>1
<1>5. ASSUME NEW f \in Files, UpdateFile(f) PROVE SpinnersServed'
  <2>1. \A g \in Files \ {f} : lane'[g] = lane[g] /\ pending'[g] = pending[g]
    BY <1>5, UpdateFileIs
  <2>2. SpinnerOK(f)'
    BY <1>5, LastIs DEF SpinnerOK
  <2> QED
    BY <1>2, <1>3, <2>1, <2>2
<1>6. ASSUME NEW f \in Files, Execute(f) \/ Lose(f) PROVE SpinnersServed'
  <2>1. UNCHANGED <<lane, pending>>
    BY <1>6, ExecuteIs, LoseIs
  <2> QED
    BY <1>2, <1>3, <2>1
<1>7. ASSUME NEW f \in Files, Answered(f) PROVE SpinnersServed'
  <2>1. /\ lane[f] # <<>> /\ lane'[f] = Tail(lane[f])
        /\ request[f].at \in {"ok", "failed"}
        /\ pending'[f] = AfterAnswer(f)
        /\ \A g \in Files \ {f} :
              lane'[g] = lane[g] /\ pending'[g] = pending[g]
    BY <1>7, AnsweredIs
  <2>2. SpinnerOK(f)'
    <3>1. CASE AfterAnswer(f) = None
      BY <2>1, <3>1 DEF SpinnerOK
    <3>2. CASE request[f].at = "ok"
                 /\ AfterAnswer(f).revision = request[f].revision
      <4>1. request[f].revision # 0
        BY <3>2 DEF LaneInv, LaneOK
      <4> QED
        BY <2>1, <3>2, <4>1 DEF SpinnerOK
    <3>3. CASE /\ pending[f] # None /\ AfterAnswer(f) = pending[f]
               /\ pending[f].generation # Head(lane[f]).generation
      <4>1. CASE pending[f].revision # 0
        BY <2>1, <3>3, <4>1 DEF SpinnerOK
      <4>2. CASE pending[f].revision = 0
        <5>1. lane[f][Len(lane[f])].generation = pending[f].generation
          BY <1>1, <3>3, <4>2 DEF SpinnerOK
        <5>2. Head(lane[f]) # lane[f][Len(lane[f])]
          BY <3>3, <5>1
        <5>3. /\ lane'[f] # <<>> /\ Len(lane'[f]) = 1
              /\ lane'[f][1] = lane[f][Len(lane[f])]
          BY <2>1, <5>2, LaneShape
        <5>4. lane'[f][Len(lane'[f])] = lane[f][Len(lane[f])]
          BY <5>3
        <5> QED
          BY <2>1, <3>3, <5>1, <5>3, <5>4 DEF SpinnerOK
      <4> QED
        BY <4>1, <4>2
    <3> QED
      BY <3>1, <3>2, <3>3, AfterAnswerIs
  <2> QED
    BY <1>2, <1>3, <2>1, <2>2
<1>8. CASE Evict
  <2>1. UNCHANGED <<lane, pending>>
    BY <1>8, EvictIs
  <2> QED
    BY <1>2, <1>3, <2>1
<1>9. ASSUME NEW m \in late, ExecuteLate(m) PROVE SpinnersServed'
  <2>1. UNCHANGED <<lane, pending>>
    BY <1>9, ExecuteLateIs
  <2> QED
    BY <1>2, <1>3, <2>1
<1> QED
  BY <1>4, <1>5, <1>6, <1>7, <1>8, <1>9, NextCases

-----------------------------------------------------------------------------
(* The browser's snapshot.                                                 *)

(* The snapshot to serve changes only with the one stored.                 *)
LEMMA ServedSame ==
  ASSUME session'.stored = session.stored
  PROVE  ServedNow' = ServedNow
BY DEF ServedNow, Stored, Blank

(* The page through the steps of other than the browser.                   *)
LEMMA FetchKept ==
  ASSUME TypeOK, LaneInv, FetchInv, Next
  PROVE  FetchInv'
<1>1. page \in Pages
  BY DEF TypeOK
<1>2. page'.fetch = page.fetch => FetchInv'
  BY DEF FetchInv
<1>3. page'.fetch.at # "answered" => FetchInv'
  BY DEF FetchInv
<1>4. CASE Away
  BY <1>2, <1>4, AwayIs
<1>5. CASE Viewing
  <2>1. CASE ServeSnapshot
    BY <2>1, ServeSnapshotIs, ServedIs DEF FetchInv
  <2>2. CASE LoseSnapshot
    BY <1>3, <2>2, LoseSnapshotIs
  <2>3. CASE LoadPatches
    BY <1>2, <2>3, LoadPatchesIs
  <2>4. CASE ShowView
    BY <1>2, <1>3, <2>4, ShowViewIs
  <2>5. CASE HideView
    BY <1>2, <2>5, HideViewIs
  <2>6. CASE OpenStream
    BY <1>2, <1>3, <2>6, OpenStreamIs
  <2>7. CASE BreakStream
    BY <1>2, <2>7, BreakStreamIs
  <2> QED
    BY <1>5, <2>1, <2>2, <2>3, <2>4, <2>5, <2>6, <2>7 DEF Viewing
<1>6. CASE ApplySnapshot
  <2>1. page.fetch.snapshot \in Snapshots
    BY <1>6 DEF ApplySnapshot, FetchInv
  <2>2. page'.fetch.at # "answered"
    BY <1>6, <2>1, ApplySnapshotIs
  <2> QED
    BY <1>3, <2>2
<1>7. CASE Evict
  BY <1>2, <1>3, <1>7, EvictIs
<1>8. ASSUME NEW r \in Refreshers, Store(r) PROVE FetchInv'
  <2>1. page' = page \/ page' = Told(page)
    BY <1>8, StoreIs
  <2>2. Told(page).fetch = page.fetch \/ Told(page).fetch.at = "asked"
    BY <1>1, ToldIs, WantingIs
  <2> QED
    BY <1>2, <1>3, <2>1, <2>2
<1>9. ASSUME NEW f \in Files, UpdateFile(f) \/ Execute(f) \/ Lose(f)
      PROVE  FetchInv'
  <2>1. page' = page
    BY <1>9, UpdateFileIs, ExecuteIs, LoseIs
  <2> QED
    BY <1>2, <2>1
<1>10. ASSUME NEW f \in Files, Answered(f) PROVE FetchInv'
  <2>1. page' = page \/ page' = Wanting(page)
    BY <1>10, AnsweredIs
  <2>2. Wanting(page).fetch = page.fetch \/ Wanting(page).fetch.at = "asked"
    BY <1>1, WantingIs
  <2> QED
    BY <1>2, <1>3, <2>1, <2>2
<1>11. ASSUME NEW m \in late, ExecuteLate(m) PROVE FetchInv'
  BY <1>2, <1>11, ExecuteLateIs
<1> QED
  BY <1>4, <1>5, <1>6, <1>7, <1>8, <1>9, <1>10, <1>11, NextCases

(* No step makes an answer old without a fetch to follow or a page untold. *)
LEMMA AnswerKept ==
  ASSUME TypeOK, LaneInv, FetchInv, AnswerInv, Next
  PROVE  AnswerInv'
<1>1. page \in Pages /\ page.wanted \in BOOLEAN
  BY DEF TypeOK, Pages
<1>2. ASSUME page'.fetch = page.fetch, session'.stored = session.stored,
             page.wanted => page'.wanted, history'.missed = history.missed,
             page'.stream # "down" => page.stream # "down"
      PROVE  AnswerInv'
  BY <1>2, ServedSame DEF AnswerInv
<1>3. page'.fetch.at # "answered" => AnswerInv'
  BY DEF AnswerInv
<1>4. CASE Away
  BY <1>2, <1>4, AwayIs DEF SameStored, SameMissed
<1>5. CASE Viewing
  <2>1. CASE ServeSnapshot
    <3>1. page'.fetch.snapshot = ServedNow /\ session' = session
      BY <2>1, ServeSnapshotIs
    <3> QED
      BY <3>1, ServedSame DEF AnswerInv
  <2>2. CASE LoseSnapshot
    BY <1>3, <2>2, LoseSnapshotIs
  <2>3. CASE LoadPatches
    BY <1>2, <2>3, LoadPatchesIs
  <2>4. CASE ShowView
    BY <1>2, <1>3, <2>4, ShowViewIs
  <2>5. CASE HideView
    BY <1>2, <2>5, HideViewIs
  <2>6. CASE OpenStream
    <3>1. CASE page.stream = "down"
      <4>1. page'.fetch.at = "asked" \/ page'.wanted
        BY <2>6, <3>1, OpenStreamIs
      <4> QED
        BY <4>1 DEF AnswerInv
    <3>2. CASE page.stream # "down"
      BY <1>2, <2>6, <3>2, OpenStreamIs
    <3> QED
      BY <3>1, <3>2
  <2>7. CASE BreakStream
    BY <2>7, BreakStreamIs DEF AnswerInv
  <2> QED
    BY <1>5, <2>1, <2>2, <2>3, <2>4, <2>5, <2>6, <2>7 DEF Viewing
<1>6. CASE ApplySnapshot
  <2>1. page.fetch.snapshot \in Snapshots
    BY <1>6 DEF ApplySnapshot, FetchInv
  <2>2. page'.fetch.at # "answered"
    BY <1>6, <2>1, ApplySnapshotIs
  <2> QED
    BY <1>3, <2>2
<1>7. CASE Evict
  <2>1. CASE page.fetch.at = "asked"
    BY <1>3, <1>7, <2>1, EvictIs
  <2>2. CASE page.fetch.at # "asked"
    <3>1. /\ page'.fetch = page.fetch /\ page'.wanted = page.wanted
          /\ session'.stored = session.stored
          /\ history'.missed = history.missed
          /\ page'.stream # "down" => page.stream # "down"
      BY <1>7, <2>2, EvictIs DEF SameStored, SameMissed
    <3> QED
      BY <1>2, <3>1
  <2> QED
    BY <2>1, <2>2
<1>8. ASSUME NEW r \in Refreshers, Store(r) PROVE AnswerInv'
  <2>1. CASE session'.stored = session.stored /\ page' = page
    BY <1>8, <2>1, StoreIs, ServedSame DEF AnswerInv
  <2>2. CASE page' = Told(page) /\ (page.stream = "new" => history'.missed)
    <3>1. page.stream \in {"new", "open", "down"}
      BY <1>1 DEF Pages
    <3>2. CASE page.stream = "open"
      <4>1. page' = Wanting(page)
        BY <1>1, <2>2, <3>2, ToldIs
      <4>2. page'.fetch.at = "asked" \/ page'.wanted
        BY <1>1, <4>1, WantingIs
      <4> QED
        BY <4>2 DEF AnswerInv
    <3>3. CASE page.stream # "open"
      <4>1. page' = page
        BY <1>1, <2>2, <3>3, ToldIs
      <4> QED
        BY <2>2, <3>1, <3>3, <4>1 DEF AnswerInv
    <3> QED
      BY <3>2, <3>3
  <2> QED
    BY <1>8, <2>1, <2>2, StoreIs
<1>9. ASSUME NEW f \in Files, UpdateFile(f) \/ Execute(f) \/ Lose(f)
      PROVE  AnswerInv'
  <2>1. /\ page' = page /\ session'.stored = session.stored
        /\ history'.missed = history.missed
    BY <1>9, UpdateFileIs, ExecuteIs, LoseIs DEF SameMissed
  <2> QED
    BY <1>2, <2>1
<1>10. ASSUME NEW f \in Files, Answered(f) PROVE AnswerInv'
  <2>1. /\ page' = page \/ page' = Wanting(page)
        /\ session' = session /\ history'.missed = history.missed
    BY <1>10, AnsweredIs DEF SameMissed
  <2>2. \/ Wanting(page).fetch.at = "asked"
        \/ Wanting(page).fetch = page.fetch /\ Wanting(page).wanted
             /\ Wanting(page).stream = page.stream
    BY <1>1, WantingIs
  <2> QED
    BY <1>2, <1>3, <2>1, <2>2
<1>11. ASSUME NEW m \in late, ExecuteLate(m) PROVE AnswerInv'
  BY <1>2, <1>11, ExecuteLateIs DEF SameMissed
<1> QED
  BY <1>4, <1>5, <1>6, <1>7, <1>8, <1>9, <1>10, <1>11, NextCases

(* A view comes to rest with nothing to excuse it only by a snapshot that  *)
(* no other follows; else it was at rest before, with the same stored.     *)
LEMMA RestIs ==
  ASSUME TypeOK, LaneInv, FetchInv, Next, AtRest', Known'
  PROVE  \/ ApplySnapshot /\ ~page.wanted
         \/ /\ ~ApplySnapshot /\ AtRest /\ Known /\ page' # Wanting(page)
            /\ session'.stored = session.stored
            /\ page'.shown = page.shown
            /\ page'.patches = "none" => page.patches = "none"
<1>1. page \in Pages
  BY DEF TypeOK
<1>2. /\ page'.fetch.at = "idle" /\ page'.stream # "down" /\ page'.active
      /\ ~page'.error /\ ~history'.missed /\ session'.stored # None
  BY DEF AtRest, Known
<1>3. /\ Wanting(page).fetch.at = "idle" =>
           /\ ~(page.active /\ page.fetch.at = "idle")
           /\ Wanting(page).fetch = page.fetch
      /\ Wanting(page).active = page.active
  BY <1>1, WantingIs
<1>4. page' # Wanting(page)
  BY <1>2, <1>3
<1>5. ASSUME page'.fetch = page.fetch, page'.stream = page.stream,
             page'.active = page.active, page'.error = page.error,
             page'.shown = page.shown,
             page'.patches = "none" => page.patches = "none",
             history.missed => history'.missed,
             session'.stored = session.stored
      PROVE  /\ AtRest /\ Known /\ session'.stored = session.stored
             /\ page'.shown = page.shown
             /\ page'.patches = "none" => page.patches = "none"
  BY <1>2, <1>5 DEF AtRest, Known
<1>6. CASE ApplySnapshot
  <2>1. page.fetch.snapshot \in Snapshots
    BY <1>6 DEF ApplySnapshot, FetchInv
  <2>2. page.wanted /\ page.active => page'.fetch.at = "asked"
    BY <1>6, <2>1, ApplySnapshotIs
  <2>3. page'.active = page.active
    BY <1>6, <2>1, ApplySnapshotIs
  <2> QED
    BY <1>2, <1>6, <2>2, <2>3
<1> SUFFICES ASSUME ~ApplySnapshot
             PROVE  /\ AtRest /\ Known /\ session'.stored = session.stored
                    /\ page'.shown = page.shown
                    /\ page'.patches = "none" => page.patches = "none"
  BY <1>4, <1>6
<1>7. CASE Away
  BY <1>5, <1>7, AwayIs DEF SameStored, SameMissed
<1>8. CASE Viewing
  <2>1. CASE ServeSnapshot
    BY <1>2, <2>1, ServeSnapshotIs
  <2>2. CASE LoseSnapshot
    BY <1>2, <2>2, LoseSnapshotIs
  <2>3. CASE LoadPatches
    BY <1>5, <2>3, LoadPatchesIs
  <2>4. CASE ShowView
    BY <1>2, <2>4, ShowViewIs
  <2>5. CASE HideView
    BY <1>2, <2>5, HideViewIs
  <2>6. CASE OpenStream
    <3>1. CASE page.stream = "down"
      BY <1>2, <2>6, <3>1, OpenStreamIs
    <3>2. CASE page.stream # "down"
      <4>1. /\ page'.fetch = page.fetch /\ page'.active = page.active
            /\ page'.error = page.error /\ page'.shown = page.shown
            /\ page'.patches = page.patches /\ history' = history
            /\ session' = session
        BY <2>6, <3>2, OpenStreamIs
      <4> QED
        BY <1>2, <3>2, <4>1 DEF AtRest, Known
    <3> QED
      BY <3>1, <3>2
  <2>7. CASE BreakStream
    BY <1>2, <2>7, BreakStreamIs
  <2> QED
    BY <1>8, <2>1, <2>2, <2>3, <2>4, <2>5, <2>6, <2>7 DEF Viewing
<1>9. CASE Evict
  <2>1. CASE page.fetch.at = "asked"
    BY <1>2, <1>9, <2>1, EvictIs
  <2>2. CASE page.fetch.at # "asked"
    <3>1. /\ page'.fetch = page.fetch /\ page'.active = page.active
          /\ page'.error = page.error /\ page'.shown = page.shown
          /\ page'.patches = page.patches
          /\ history'.missed = history.missed
          /\ session'.stored = session.stored
          /\ page'.stream = IF page.stream = "open" THEN "down"
                            ELSE page.stream
      BY <1>9, <2>2, EvictIs DEF SameStored, SameMissed
    <3> QED
      BY <1>2, <3>1 DEF AtRest, Known
  <2> QED
    BY <2>1, <2>2
<1>10. CASE \E r \in Refreshers : Store(r)
  <2>1. PICK r \in Refreshers : Store(r)
    BY <1>10
  <2>2. history.missed => history'.missed
    BY <2>1, StoreIs
  <2>3. CASE session'.stored = session.stored /\ page' = page
    BY <1>5, <2>2, <2>3
  <2>4. CASE page' = Told(page) /\ (page.stream = "new" => history'.missed)
    <3>1. page.stream \in {"new", "open", "down"}
      BY <1>1 DEF Pages
    <3>2. CASE page.stream = "open"
      BY <1>1, <1>4, <2>4, <3>2, ToldIs
    <3>3. CASE page.stream # "open"
      <4>1. page' = page
        BY <1>1, <2>4, <3>3, ToldIs
      <4> QED
        BY <1>2, <2>4, <3>1, <3>3, <4>1
    <3> QED
      BY <3>2, <3>3
  <2> QED
    BY <2>1, <2>3, <2>4, StoreIs
<1>11. CASE \E f \in Files : UpdateFile(f) \/ Execute(f) \/ Lose(f)
  <2>1. PICK f \in Files : UpdateFile(f) \/ Execute(f) \/ Lose(f)
    BY <1>11
  <2>2. /\ page' = page /\ session'.stored = session.stored
        /\ history'.missed = history.missed
    BY <2>1, UpdateFileIs, ExecuteIs, LoseIs DEF SameMissed
  <2> QED
    BY <1>5, <2>2
<1>12. CASE \E f \in Files : Answered(f)
  <2>1. PICK f \in Files : Answered(f)
    BY <1>12
  <2>2. /\ page' = page \/ page' = Wanting(page)
        /\ session' = session /\ history'.missed = history.missed
    BY <2>1, AnsweredIs DEF SameMissed
  <2> QED
    BY <1>4, <1>5, <2>2
<1>13. CASE \E m \in late : ExecuteLate(m)
  <2>1. PICK m \in late : ExecuteLate(m)
    BY <1>13
  <2>2. /\ page' = page /\ session'.stored = session.stored
        /\ history'.missed = history.missed
    BY <2>1, ExecuteLateIs DEF SameMissed
  <2> QED
    BY <1>5, <2>2
<1> QED
  BY <1>7, <1>8, <1>9, <1>10, <1>11, <1>12, <1>13, NextCases

(* What a snapshot that no other follows shows.                            *)
LEMMA AppliedIs ==
  ASSUME TypeOK, LaneInv, FetchInv, AnswerInv, ApplySnapshot, ~page.wanted,
         AtRest', Known'
  PROVE  /\ session'.stored = session.stored
         /\ page.fetch.at = "answered"
         /\ page.fetch.snapshot \in Snapshots
         /\ page.fetch.snapshot = session.stored
<1>1. page.fetch.at = "answered"
  BY DEF ApplySnapshot
<1>2. page.fetch.snapshot \in Snapshots
  BY <1>1 DEF FetchInv
<1>3. /\ session' = session /\ history' = history
      /\ page'.stream = page.stream
  BY <1>2, ApplySnapshotIs
<1>4. page'.stream # "down" /\ ~history'.missed /\ session'.stored # None
  BY DEF AtRest, Known
<1>5. page.fetch.snapshot = ServedNow
  BY <1>1, <1>3, <1>4 DEF AnswerInv
<1> QED
  BY <1>1, <1>2, <1>3, <1>4, <1>5 DEF ServedNow

(* No step leaves a view at rest with another snapshot than the stored.    *)
LEMMA ShownKept ==
  ASSUME TypeOK, LaneInv, FetchInv, AnswerInv, ShownInv, Next
  PROVE  ShownInv'
<1> SUFFICES ASSUME AtRest', Known' PROVE ShowsStored'
  BY DEF ShownInv
<1>1. CASE ApplySnapshot /\ ~page.wanted
  <2>1. /\ session'.stored = session.stored
        /\ page.fetch.snapshot \in Snapshots
        /\ page.fetch.snapshot = session.stored
    BY <1>1, AppliedIs
  <2>2. /\ page'.shown = Id(page.fetch.snapshot)
        /\ page'.patches = IF page.fetch.snapshot.patch = None THEN "none"
                           ELSE "loading"
    BY <1>1, <2>1, ApplySnapshotIs
  <2> QED
    BY <2>1, <2>2 DEF ShowsStored, Id
<1>2. CASE ~ApplySnapshot
  <2>1. /\ AtRest /\ Known /\ session'.stored = session.stored
        /\ page'.shown = page.shown
        /\ page'.patches = "none" => page.patches = "none"
    BY <1>2, RestIs
  <2>2. ShowsStored
    BY <2>1 DEF ShownInv
  <2> QED
    BY <2>1, <2>2 DEF ShowsStored, Id
<1> QED
  BY <1>1, <1>2, RestIs

-----------------------------------------------------------------------------
(* The intents that are done.                                              *)

(* The steps of a request while no request is left.                        *)
LEMMA StillIs ==
  ASSUME TypeOK, LaneInv, FetchInv, Next, Still'
  PROVE  \/ page' = Wanting(page) /\ session' = session
         \/ /\ Still
            /\ session'.revision = session.revision \/ session'.due
            /\ ApplySnapshot \/ pending' = pending
<1>1. \A f \in Files : lane'[f] = <<>>
  BY DEF Still
<1>2. CASE Away
  BY <1>2, AwayIs DEF Still, SameStored
<1>3. CASE Viewing
  BY <1>3, ViewingIs DEF Still
<1>4. CASE ApplySnapshot
  <2>1. page.fetch.snapshot \in Snapshots
    BY <1>4 DEF ApplySnapshot, FetchInv
  <2> QED
    BY <1>4, <2>1, ApplySnapshotIs DEF Still
<1>5. CASE Evict
  BY <1>5, EvictIs DEF Still, SameStored
<1>6. CASE \E r \in Refreshers : Store(r)
  <2>1. PICK r \in Refreshers : Store(r)
    BY <1>6
  <2> QED
    BY <2>1, StoreIs DEF Still
<1>7. ASSUME NEW f \in Files, UpdateFile(f) PROVE FALSE
  BY <1>1, <1>7, LastIs
<1>8. ASSUME NEW f \in Files, Execute(f) PROVE FALSE
  <2>1. request[f].at = "served" /\ lane' = lane
    BY <1>8, ExecuteIs
  <2> QED
    BY <1>1, <2>1, AskedIs
<1>9. CASE \E f \in Files : Answered(f)
  <2>1. PICK f \in Files : Answered(f)
    BY <1>9
  <2> QED
    BY <1>1, <2>1, AnsweredIs
<1>10. CASE \E f \in Files : Lose(f)
  <2>1. PICK f \in Files : Lose(f)
    BY <1>10
  <2> QED
    BY <2>1, LoseIs DEF Still
<1>11. CASE \E m \in late : ExecuteLate(m)
  <2>1. PICK m \in late : ExecuteLate(m)
    BY <1>11
  <2> QED
    BY <2>1, ExecuteLateIs DEF Still
<1> QED
  BY <1>2, <1>3, <1>4, <1>5, <1>6, <1>7, <1>8, <1>9, <1>10, <1>11, NextCases

(* What is stored stops being behind only by a refresh that tells the      *)
(* page, or leaves a stale snapshot as it is.                              *)
LEMMA CaughtUp ==
  ASSUME TypeOK, LaneInv, FetchInv, Next, Behind, ~Behind'
  PROVE  /\ history.missed => history'.missed
         /\ \/ page' = Told(page) /\ (page.stream = "new" => history'.missed)
            \/ /\ page' = page /\ session'.stored = session.stored
               /\ session.stored = None \/ session.stored.stale
<1>1. /\ ~session'.due /\ ~history'.forgot
      /\ work'["loop"].at = "idle" \/ session'.stored # work'["loop"].old
  BY DEF Behind
<1>2. ASSUME session'.due = session.due, session'.stored = session.stored,
             history'.forgot = history.forgot,
             work'["loop"].at = "idle" => work["loop"].at = "idle",
             work'["loop"].old = work["loop"].old
      PROVE  FALSE
  BY <1>2 DEF Behind
<1>3. CASE Away
  <2>1. CASE LoopTurn
    BY <1>1, <2>1, LoopTurnIs DEF SameStored, Behind
  <2>2. CASE Stop
    BY <1>2, <2>2, StopIs
  <2>3. CASE Halt
    BY <1>2, <2>3, HaltIs DEF SameStored
  <2>4. CASE EndRun \/ Alarm
    BY <1>1, <2>4, DueIs
  <2>5. CASE Start \/ EndSetup
    BY <1>2, <2>5, SetupIs DEF SameStored
  <2>6. ASSUME NEW r \in Refreshers, WritePatches(r) PROVE FALSE
    <3>1. /\ UNCHANGED <<session, history>>
          /\ work'["loop"].at = "idle" => work["loop"].at = "idle"
          /\ work'["loop"].old = work["loop"].old
      BY <2>6, WriteIs DEF Refreshers
    <3> QED
      BY <1>2, <3>1
  <2>7. ASSUME NEW r \in Refreshers, PublishPatches(r) PROVE FALSE
    <3>1. /\ UNCHANGED <<session, history>>
          /\ work'["loop"].at = "idle" => work["loop"].at = "idle"
          /\ work'["loop"].old = work["loop"].old
      BY <2>7, PublishIs DEF Refreshers
    <3> QED
      BY <1>2, <3>1
  <2>8. ASSUME NEW f \in Files, RunTool(f) PROVE FALSE
    BY <1>1, <2>8, RunToolIs
  <2> QED
    BY <1>3, <2>1, <2>2, <2>3, <2>4, <2>5, <2>6, <2>7, <2>8 DEF Away
<1>4. CASE Viewing
  BY <1>2, <1>4, ViewingIs DEF SameForgot
<1>5. CASE ApplySnapshot
  <2>1. page.fetch.snapshot \in Snapshots
    BY <1>5 DEF ApplySnapshot, FetchInv
  <2> QED
    BY <1>2, <1>5, <2>1, ApplySnapshotIs
<1>6. CASE Evict
  BY <1>1, <1>6, EvictIs
<1>7. ASSUME NEW f \in Files, UpdateFile(f) \/ Answered(f) \/ Lose(f)
      PROVE  FALSE
  <2>1. UNCHANGED <<work, session>> /\ history'.forgot = history.forgot
    BY <1>7, UpdateFileIs, AnsweredIs, LoseIs DEF SameForgot
  <2> QED
    BY <1>2, <2>1
<1>8. ASSUME NEW f \in Files, Execute(f) PROVE FALSE
  BY <1>1, <1>8, ExecuteIs
<1>9. ASSUME NEW m \in late, ExecuteLate(m) PROVE FALSE
  BY <1>1, <1>9, ExecuteLateIs
<1>10. CASE Store("stop")
  <2>1. /\ session'.due \/ ~session.due
        /\ history'.forgot = (history.forgot \/ history.outrun)
        /\ history.missed => history'.missed
        /\ work'["loop"] = work["loop"]
        /\ \/ session'.stored = session.stored
           \/ /\ page' = Told(page)
              /\ page.stream = "new" => history'.missed
    BY <1>10, StoreIs DEF Refreshers
  <2> QED
    BY <1>1, <2>1 DEF Behind
<1>11. CASE Store("loop")
  <2>1. "loop" \in Refreshers
    BY DEF Refreshers
  <2>2. /\ session'.due \/ ~session.due
        /\ history'.forgot = (history.forgot
                                /\ work["loop"].at # "published")
        /\ history.missed => history'.missed
        /\ \/ /\ session'.stored = session.stored /\ page' = page
              /\ work["loop"].at = "stale"
              /\ Result("loop") = work["loop"].old
           \/ /\ page' = Told(page)
              /\ page.stream = "new" => history'.missed
    BY <1>11, <2>1, StoreIs
  <2>3. CASE /\ session'.stored = session.stored /\ page' = page
             /\ work["loop"].at = "stale"
             /\ Result("loop") = work["loop"].old
    <3>1. session.stored = work["loop"].old
      BY <1>1, <2>2, <2>3 DEF Behind
    <3>2. Result("loop") \in Snapshots /\ Result("loop").stale = TRUE
      BY <2>1, <2>3, ResultIs
    <3> QED
      BY <2>2, <2>3, <3>1, <3>2
  <2> QED
    BY <2>2, <2>3
<1> QED
  BY <1>3, <1>4, <1>5, <1>6, <1>7, <1>8, <1>9, <1>10, <1>11, NextCases
     DEF Refreshers

(* No step leaves an intent behind whose revision the view at rest has.    *)
LEMMA RetiredKept ==
  ASSUME TypeOK, LaneInv, FetchInv, AnswerInv, RevisionInv, RetiredInv, Next
  PROVE  RetiredInv'
<1> SUFFICES ASSUME Still', AtRest', Known', ~session'.stored.stale,
                    ~Behind', NEW f \in Files
             PROVE  ~Unretired(f)'
  BY DEF RetiredInv
<1>1. page' # Wanting(page) \/ (ApplySnapshot /\ ~page.wanted)
  BY RestIs
<1>4. ~session'.due
  BY DEF Behind
<1>2. CASE ApplySnapshot /\ ~page.wanted
  <2>1. /\ session'.stored = session.stored
        /\ page.fetch.at = "answered"
        /\ page.fetch.snapshot \in Snapshots
        /\ page.fetch.snapshot = session.stored
    BY <1>2, AppliedIs
  <2>2. /\ lane' = lane /\ session' = session /\ history' = history
        /\ work' = work /\ page'.stream = page.stream
        /\ pending'[f] =
                 IF /\ ~page.fetch.snapshot.stale
                    /\ Retired(f, page.fetch.revision)
                 THEN None ELSE pending[f]
    BY <1>2, <2>1, ApplySnapshotIs
  <2>8. ~Behind /\ ~history.missed /\ page.stream # "down"
    BY <2>2 DEF Behind, Known, AtRest
  <2>3. page.fetch.revision = session.revision
    BY <1>2, <2>1, <2>2, <2>8 DEF RevisionInv, Still
  <2>4. ~page.fetch.snapshot.stale
    BY <2>1
  <2>5. pending'[f] = IF Unretired(f) THEN None ELSE pending[f]
    BY <2>2, <2>3, <2>4 DEF Retired, Unretired
  <2>6. CASE Unretired(f)
    BY <2>5, <2>6 DEF Unretired
  <2>7. CASE ~Unretired(f)
    BY <2>2, <2>5, <2>7 DEF Unretired
  <2> QED
    BY <2>6, <2>7
<1>3. CASE ~ApplySnapshot
  <2>1. AtRest /\ Known /\ session'.stored = session.stored
    BY <1>3, RestIs
  <2>2. Still /\ session'.revision = session.revision /\ pending' = pending
    BY <1>1, <1>3, <1>4, StillIs
  <2>3. ~session.stored.stale
    BY <2>1
  <2>5. ~Behind
    <3> SUFFICES ASSUME Behind PROVE FALSE
      OBVIOUS
    <3>1. page' = Told(page) /\ (page.stream = "new" => history'.missed)
      BY <2>1, <2>3, CaughtUp DEF Known
    <3>2. page \in Pages /\ page.stream # "down" /\ ~history'.missed
      BY <2>1 DEF TypeOK, AtRest, Known
    <3>3. page.stream = "open"
      BY <3>1, <3>2 DEF Pages
    <3> QED
      BY <1>1, <1>3, <3>1, <3>3 DEF Told
  <2>4. ~Unretired(f)
    BY <2>1, <2>2, <2>3, <2>5 DEF RetiredInv
  <2> QED
    BY <2>2, <2>4 DEF Unretired
<1> QED
  BY <1>2, <1>3, RestIs

(* Once the lanes are empty the answers carry the revision of the record.  *)
LEMMA RevisionKept ==
  ASSUME TypeOK, LaneInv, FetchInv, AnswerInv, RevisionInv, Next
  PROVE  RevisionInv'
<1> SUFFICES ASSUME Still', page'.fetch.at = "answered", ~page'.wanted,
                    page'.stream # "down", ~Behind', ~history'.missed,
                    ~page'.fetch.snapshot.stale
             PROVE  page'.fetch.revision = session'.revision
  BY DEF RevisionInv
<1>1. page \in Pages
  BY DEF TypeOK
<1>2. Wanting(page).fetch.at = "answered" => Wanting(page).wanted
  BY <1>1, WantingIs
<1>3. page' # Wanting(page)
  BY <1>2
<1>13. ~session'.due
  BY DEF Behind
<1>4. Still /\ session'.revision = session.revision
  BY <1>3, <1>13, StillIs
<1>5. ASSUME page'.fetch = page.fetch, page.wanted => page'.wanted,
             page.stream # "down", history.missed => history'.missed
      PROVE  page'.fetch.revision = session'.revision
  <2>1. ~Behind
    <3> SUFFICES ASSUME Behind PROVE FALSE
      OBVIOUS
    <3>1. CASE page' = Told(page) /\ (page.stream = "new" => history'.missed)
      <4>1. page.stream = "open"
        BY <1>1, <1>5, <3>1 DEF Pages
      <4> QED
        BY <1>3, <3>1, <4>1 DEF Told
    <3>2. CASE /\ page' = page
               /\ session.stored = None \/ session.stored.stale
      <4>1. page.fetch.snapshot = ServedNow
        BY <1>5, <3>2 DEF AnswerInv
      <4> QED
        BY <3>2, <4>1 DEF ServedNow, Stored
    <3> QED
      BY <3>1, <3>2, CaughtUp
  <2> QED
    BY <1>4, <1>5, <2>1 DEF RevisionInv
<1>6. CASE Away
  BY <1>5, <1>6, AwayIs DEF SameMissed
<1>7. CASE Viewing
  <2>1. CASE ServeSnapshot
    BY <1>4, <2>1, ServeSnapshotIs
  <2>2. CASE LoseSnapshot
    BY <2>2, LoseSnapshotIs
  <2>3. CASE LoadPatches
    BY <1>5, <2>3, LoadPatchesIs
  <2>4. CASE ShowView
    BY <1>5, <2>4, ShowViewIs
  <2>5. CASE HideView
    BY <1>5, <2>5, HideViewIs
  <2>6. CASE OpenStream
    <3>1. CASE page.stream = "down"
      BY <2>6, <3>1, OpenStreamIs
    <3>2. CASE page.stream # "down"
      BY <1>5, <2>6, <3>2, OpenStreamIs
    <3> QED
      BY <3>1, <3>2
  <2>7. CASE BreakStream
    BY <1>5, <2>7, BreakStreamIs
  <2> QED
    BY <1>7, <2>1, <2>2, <2>3, <2>4, <2>5, <2>6, <2>7 DEF Viewing
<1>8. CASE ApplySnapshot
  <2>1. page.fetch.snapshot \in Snapshots
    BY <1>8 DEF ApplySnapshot, FetchInv
  <2> QED
    BY <1>8, <2>1, ApplySnapshotIs
<1>9. CASE Evict
  BY <1>9, EvictIs DEF Behind
<1>10. CASE \E r \in Refreshers : Store(r)
  <2>1. PICK r \in Refreshers : Store(r)
    BY <1>10
  <2>2. page' = page /\ (history.missed => history'.missed)
    BY <1>1, <1>3, <2>1, StoreIs, ToldIs DEF Told
  <2> QED
    BY <1>5, <2>2
<1>11. CASE \E f \in Files : UpdateFile(f) \/ Execute(f) \/ Lose(f)
  <2>1. PICK f \in Files : UpdateFile(f) \/ Execute(f) \/ Lose(f)
    BY <1>11
  <2>2. page' = page /\ history'.missed = history.missed
    BY <2>1, UpdateFileIs, ExecuteIs, LoseIs DEF SameMissed
  <2> QED
    BY <1>5, <2>2
<1>12. CASE \E f \in Files : Answered(f)
  <2>1. PICK f \in Files : Answered(f)
    BY <1>12
  <2>2. page' = page /\ history'.missed = history.missed
    BY <1>3, <2>1, AnsweredIs DEF SameMissed
  <2> QED
    BY <1>5, <2>2
<1>14. ASSUME NEW m \in late, ExecuteLate(m) PROVE FALSE
  BY <1>13, <1>14, ExecuteLateIs
<1> QED
  BY <1>6, <1>7, <1>8, <1>9, <1>10, <1>11, <1>12, <1>14, NextCases

-----------------------------------------------------------------------------
(* What is stored is fresh.                                                *)

(* A refresh of the loop begins, or is turned away.                        *)
LEMMA LoopTurnKeeps ==
  ASSUME TypeOK, FreshInv, LoopTurn
  PROVE  FreshInv'
<1>1. /\ guest' = guest /\ session'.stored = session.stored
      /\ work["loop"].at = "idle"
      /\ \/ /\ work'["loop"].at = "listed"
            /\ work'["loop"].old = session.stored
            /\ Current(work'["loop"].seen, work'["loop"].patch)
            /\ work'["stop"] = work["stop"]
            /\ history'.outrun = (work["stop"].at \in Reading)
         \/ work' = work /\ (session'.due \/ history'.forgot)
  BY LoopTurnIs DEF SameStored
<1>2. Diff' = Diff
  BY <1>1, DiffSame
<1>3. CASE work'["loop"].at = "listed"
  <2>1. /\ work'["loop"].old = session.stored
        /\ Current(work'["loop"].seen, work'["loop"].patch)
        /\ work'["stop"] = work["stop"]
        /\ history'.outrun = (work["stop"].at \in Reading)
    BY <1>1, <1>3
  <2>2. LoopFresh'
    BY <1>1, <1>2, <1>3, <2>1 DEF LoopFresh, Current
  <2>3. StopFresh'
    BY <2>1 DEF StopFresh
  <2>4. Behind'
    BY <1>1, <1>3, <2>1 DEF Behind
  <2> QED
    BY <2>2, <2>3, <2>4 DEF FreshInv
<1>4. CASE work' = work /\ (session'.due \/ history'.forgot)
  BY <1>1, <1>4 DEF FreshInv, LoopFresh, StopFresh, Behind
<1> QED
  BY <1>1, <1>3, <1>4

(* The patches are of the guest as it is by then.                          *)
LEMMA PatchesKeep ==
  ASSUME TypeOK, FreshInv, NEW r \in Refreshers,
         WritePatches(r) \/ PublishPatches(r)
  PROVE  FreshInv'
<1>1. /\ UNCHANGED <<session, history>>
      /\ guest'.index = guest.index /\ guest'.edit = guest.edit
      /\ work[r].at \in {"listed", "written"}
      /\ work'[r].at \in {"written", "published", "stale"}
      /\ \A s \in Refreshers :
            /\ s # r => work'[s].at = work[s].at
            /\ work'[s].old = work[s].old /\ work'[s].seen = work[s].seen
            /\ work'[s].patch \in {work[s].patch, Diff}
  <2>1. CASE WritePatches(r)
    BY <2>1, WriteIs
  <2>2. CASE PublishPatches(r)
    BY <2>2, PublishIs
  <2> QED
    BY <2>1, <2>2
<1>2. Diff' = Diff
  BY <1>1, DiffSame
<1>3. /\ "loop" \in Refreshers /\ "stop" \in Refreshers
      /\ \A s \in Refreshers :
            /\ work'[s].at \in Reading => work[s].at \in Reading
            /\ work'[s].at = "idle" <=> work[s].at = "idle"
            /\ work'[s].at = "halt" => work[s].at = "halt"
  BY <1>1 DEF Refreshers, Reading
<1>4. ASSUME NEW s \in Refreshers, Current(work[s].seen, work[s].patch)
      PROVE  Current(work[s].seen, work[s].patch)'
  <2>1. /\ work'[s].seen = work[s].seen
        /\ work'[s].patch \in {work[s].patch, Diff}
    BY <1>1
  <2> QED
    BY <1>1, <1>2, <1>4, <2>1 DEF Current
<1>5. LoopFresh'
  BY <1>1, <1>3, <1>4 DEF FreshInv, LoopFresh
<1>6. StopFresh'
  BY <1>1, <1>3, <1>4 DEF FreshInv, StopFresh
<1>7. ~Behind' => StoredFresh'
  <2>1. Behind => Behind'
    BY <1>1, <1>3 DEF Behind
  <2> QED
    BY <1>1, <1>2, <2>1 DEF FreshInv, StoredFresh, Current
<1> QED
  BY <1>5, <1>6, <1>7 DEF FreshInv

(* What is stored is of the guest as it is, or stale, or a refresh is due, *)
(* or a stop has stored what it read before the loop did.                  *)
LEMMA StoreKeeps ==
  ASSUME TypeOK, FreshInv, NEW r \in Refreshers, Store(r)
  PROVE  FreshInv'
<1>1. /\ guest' = guest /\ work[r].at \in {"published", "stale"}
      /\ session'.due \/ ~session.due
      /\ history'.outrun = history.outrun
      /\ r = "stop" => history'.forgot = (history.forgot \/ history.outrun)
      /\ r = "loop" => history'.forgot = (history.forgot
                                            /\ work[r].at # "published")
      /\ r = "loop" => work'[r].at = "idle"
      /\ r = "stop" => work'[r].at = "halt"
      /\ \A s \in Refreshers \ {r} : work'[s] = work[s]
      /\ \/ /\ session'.stored = session.stored
            /\ work[r].at = "stale" /\ Result(r) = work[r].old
         \/ session'.stored = Result(r)
  BY StoreIs
<1>2. Diff' = Diff
  BY <1>1, DiffSame
<1>3. /\ work[r].at = "published" => /\ Result(r).seen = work[r].seen
                                     /\ Result(r).patch = work[r].patch
      /\ work[r].at # "published" => Result(r).stale
  BY ResultIs
<1>4. ASSUME session'.stored = Result(r),
             work[r].at = "published" => Current(work[r].seen, work[r].patch)
      PROVE  StoredFresh'
  BY <1>1, <1>2, <1>3, <1>4 DEF StoredFresh, Current
<1>5. CASE r = "loop"
  <2>1. work'["stop"] = work["stop"] /\ work'["loop"].at = "idle"
    BY <1>1, <1>5 DEF Refreshers
  <2>2. LoopFresh'
    BY <2>1 DEF LoopFresh
  <2>3. StopFresh'
    BY <1>1, <1>2, <1>5, <2>1 DEF FreshInv, StopFresh, Current
  <2>4. ASSUME ~Behind' PROVE StoredFresh'
    <3>1. ~session.due /\ ~history'.forgot
      BY <1>1, <2>4 DEF Behind
    <3>2. CASE session'.stored = Result(r)
      <4>1. work[r].at = "published" => Current(work[r].seen, work[r].patch)
        BY <1>5, <3>1 DEF FreshInv, LoopFresh
      <4> QED
        BY <1>4, <3>2, <4>1
    <3>3. CASE /\ session'.stored = session.stored
               /\ work[r].at = "stale" /\ Result(r) = work[r].old
      <4>1. CASE session.stored = work[r].old
        BY <1>3, <3>3, <4>1 DEF StoredFresh
      <4>2. CASE session.stored # work[r].old
        <5>1. ~Behind
          BY <1>1, <1>5, <3>1, <3>3, <4>2 DEF Behind
        <5> QED
          BY <1>1, <1>2, <3>3, <5>1 DEF FreshInv, StoredFresh, Current
      <4> QED
        BY <4>1, <4>2
    <3> QED
      BY <1>1, <3>2, <3>3
  <2> QED
    BY <2>2, <2>3, <2>4 DEF FreshInv
<1>6. CASE r = "stop"
  <2>1. work'["loop"] = work["loop"] /\ work'["stop"].at = "halt"
    BY <1>1, <1>6 DEF Refreshers
  <2>2. LoopFresh'
    BY <1>1, <1>2, <2>1 DEF FreshInv, LoopFresh, Current
  <2>3. StopFresh'
    BY <2>1 DEF StopFresh, Reading
  <2>4. ASSUME ~Behind' PROVE StoredFresh'
    <3>1. ~session.due /\ ~history.forgot /\ ~history.outrun
      BY <1>1, <1>6, <2>4 DEF Behind
    <3>2. CASE session'.stored = Result(r)
      <4>1. Current(work[r].seen, work[r].patch)
        BY <1>1, <1>6, <3>1 DEF FreshInv, StopFresh, Reading
      <4> QED
        BY <1>4, <3>2, <4>1
    <3>3. CASE session'.stored = session.stored
      <4>1. ~Behind
        BY <2>1, <2>4, <3>1, <3>3 DEF Behind
      <4> QED
        BY <1>1, <1>2, <3>3, <4>1 DEF FreshInv, StoredFresh, Current
    <3> QED
      BY <1>1, <3>2, <3>3
  <2> QED
    BY <2>2, <2>3, <2>4 DEF FreshInv
<1> QED
  BY <1>5, <1>6 DEF Refreshers

(* No step lets what is stored fall behind the guest with nothing due.     *)
LEMMA FreshKept ==
  ASSUME TypeOK, LaneInv, FetchInv, FreshInv, Next
  PROVE  FreshInv'
<1>1. LoopFresh /\ StopFresh /\ (~Behind => StoredFresh)
  BY DEF FreshInv
<1>2. ASSUME UNCHANGED <<guest, work>>,
             session'.due = session.due, session'.stored = session.stored,
             SameForgot
      PROVE  FreshInv'
  BY <1>1, <1>2 DEF FreshInv, LoopFresh, StopFresh, Behind, StoredFresh,
                    Current, Diff, SameForgot
(* A step that changes the guest asks for a refresh.                       *)
<1>3. ASSUME work' = work, session'.due PROVE FreshInv'
  BY <1>1, <1>3 DEF FreshInv, LoopFresh, StopFresh, Behind
<1>4. CASE Away
  <2>1. CASE LoopTurn
    BY <2>1, LoopTurnKeeps
  <2>2. CASE Stop
    <3>1. /\ UNCHANGED <<guest, session>> /\ work'["loop"] = work["loop"]
          /\ work'["stop"].at \in Reading =>
               Current(work'["stop"].seen, work'["stop"].patch)
          /\ history'.forgot = history.forgot
      BY <2>2, StopIs
    <3>2. Diff' = Diff
      BY <3>1, DiffSame
    <3>3. LoopFresh' /\ StopFresh'
      BY <1>1, <3>1, <3>2 DEF LoopFresh, StopFresh, Current
    <3>4. ~Behind' => StoredFresh'
      BY <1>1, <3>1, <3>2 DEF Behind, StoredFresh, Current
    <3> QED
      BY <3>3, <3>4 DEF FreshInv
  <2>3. CASE Halt
    <3>1. /\ UNCHANGED <<guest, history>> /\ work'["loop"] = work["loop"]
          /\ work'["stop"].at = "idle" /\ session'.due = session.due
          /\ session'.stored = session.stored
      BY <2>3, HaltIs DEF SameStored
    <3>2. Diff' = Diff
      BY <3>1, DiffSame
    <3>3. LoopFresh' /\ StopFresh'
      BY <1>1, <3>1, <3>2 DEF LoopFresh, StopFresh, Current, Reading
    <3>4. ~Behind' => StoredFresh'
      BY <1>1, <3>1, <3>2 DEF Behind, StoredFresh, Current
    <3> QED
      BY <3>3, <3>4 DEF FreshInv
  <2>4. CASE EndRun \/ Alarm
    BY <1>3, <2>4, DueIs
  <2>5. CASE Start \/ EndSetup
    BY <1>2, <2>5, SetupIs DEF SameStored, SameForgot
  <2>6. ASSUME NEW r \in Refreshers, WritePatches(r) \/ PublishPatches(r)
        PROVE  FreshInv'
    BY <2>6, PatchesKeep
  <2>7. ASSUME NEW f \in Files, RunTool(f) PROVE FreshInv'
    BY <1>3, <2>7, RunToolIs
  <2> QED
    BY <1>4, <2>1, <2>2, <2>3, <2>4, <2>5, <2>6, <2>7 DEF Away
<1>5. CASE Viewing
  BY <1>2, <1>5, ViewingIs
<1>6. CASE ApplySnapshot
  <2>1. page.fetch.snapshot \in Snapshots
    BY <1>6 DEF ApplySnapshot, FetchInv
  <2> QED
    BY <1>2, <1>6, <2>1, ApplySnapshotIs DEF SameForgot
<1>7. CASE Evict
  <2>1. /\ history'.forgot /\ work'["loop"].at = "idle"
        /\ work'["stop"].at = "idle"
    BY <1>7, EvictIs DEF Refreshers
  <2> QED
    BY <2>1 DEF FreshInv, LoopFresh, StopFresh, Behind, Reading
<1>8. ASSUME NEW r \in Refreshers, Store(r) PROVE FreshInv'
  BY <1>8, StoreKeeps
<1>9. ASSUME NEW f \in Files, UpdateFile(f) \/ Answered(f) \/ Lose(f)
      PROVE  FreshInv'
  <2>1. UNCHANGED <<guest, work, session>> /\ SameForgot
    BY <1>9, UpdateFileIs, AnsweredIs, LoseIs DEF SameForgot
  <2> QED
    BY <1>2, <2>1
<1>10. ASSUME NEW f \in Files, Execute(f) PROVE FreshInv'
  BY <1>3, <1>10, ExecuteIs
<1>11. ASSUME NEW m \in late, ExecuteLate(m) PROVE FreshInv'
  BY <1>3, <1>11, ExecuteLateIs
<1> QED
  BY <1>4, <1>5, <1>6, <1>7, <1>8, <1>9, <1>10, <1>11, NextCases

-----------------------------------------------------------------------------
(* The invariant, and the theorems.                                        *)

ChangesInv ==
    /\ TypeOK /\ LaneInv /\ IntentInv /\ SpinnersServed
    /\ FetchInv /\ AnswerInv /\ ShownInv
    /\ FreshInv /\ RevisionInv /\ RetiredInv

(* The invariant holds initially.                                          *)
LEMMA ChangesInit == Init => ChangesInv
<1> SUFFICES ASSUME Init PROVE ChangesInv
  OBVIOUS
<1>1. TypeOK
  BY TypeInit
<1>2. LaneInv /\ IntentInv /\ SpinnersServed
  <2>1. \A f \in Files : /\ lane[f] = <<>> /\ request[f] = NoRequest
                         /\ pending[f] = None /\ history.intent[f] = None
    BY DEF Init
  <2>2. Len(<<>>) <= 2 /\ NoRequest.at = "idle"
    BY DEF NoRequest
  <2> QED
    BY <2>1, <2>2 DEF LaneInv, LaneOK, IntentInv, IntentOK, SpinnersServed
<1>3. /\ page.fetch.at = "idle" /\ ~page.active
  BY DEF Init, NoFetch
<1>4. FetchInv /\ AnswerInv /\ ShownInv /\ RevisionInv /\ RetiredInv
  BY <1>3 DEF FetchInv, AnswerInv, ShownInv, RevisionInv, RetiredInv, AtRest
<1>5. FreshInv
  <2>1. /\ session.due /\ Resting.at = "idle"
        /\ \A r \in Refreshers : work[r] = Resting
    BY DEF Init, Resting
  <2> QED
    BY <2>1 DEF FreshInv, LoopFresh, StopFresh, Behind, Refreshers, Reading
<1> QED
  BY <1>1, <1>2, <1>4, <1>5 DEF ChangesInv

(* Every step keeps the invariant.                                         *)
LEMMA ChangesNext == ChangesInv /\ [Next]_vars => ChangesInv'
<1> SUFFICES ASSUME ChangesInv, [Next]_vars PROVE ChangesInv'
  OBVIOUS
<1>1. CASE Next
  <2>1. /\ TypeOK /\ LaneInv /\ IntentInv /\ SpinnersServed
        /\ FetchInv /\ AnswerInv /\ ShownInv
        /\ FreshInv /\ RevisionInv /\ RetiredInv
    BY DEF ChangesInv
  <2>2. TypeOK' /\ LaneInv' /\ FetchInv'
    BY <1>1, <2>1, TypeKept, LaneKept, FetchKept
  <2>3. IntentInv' /\ SpinnersServed'
    BY <1>1, <2>1, IntentKept, SpinnersKept
  <2>4. AnswerInv' /\ ShownInv'
    BY <1>1, <2>1, AnswerKept, ShownKept
  <2>5. FreshInv' /\ RevisionInv' /\ RetiredInv'
    BY <1>1, <2>1, FreshKept, RevisionKept, RetiredKept
  <2> QED
    BY <2>2, <2>3, <2>4, <2>5 DEF ChangesInv
<1>2. CASE UNCHANGED vars
  <2>1. UNCHANGED <<guest, work, session, request, late, lane, pending, page,
                    acts, history>>
    BY <1>2 DEF vars
  <2>2. TypeOK' /\ LaneInv' /\ IntentInv' /\ SpinnersServed'
    BY <2>1 DEF ChangesInv, TypeOK, LaneInv, IntentInv, IntentOK,
                SpinnersServed
  <2>3. FetchInv' /\ AnswerInv' /\ ShownInv'
    BY <2>1 DEF ChangesInv, FetchInv, AnswerInv, ServedNow, Stored, Blank,
                ShownInv, AtRest, Known, ShowsStored, Id
  <2>4. FreshInv' /\ RevisionInv' /\ RetiredInv'
    BY <2>1 DEF ChangesInv, FreshInv, LoopFresh, StopFresh, Behind,
                StoredFresh, Current, Diff, RevisionInv, RetiredInv, Still,
                AtRest, Known, Unretired
  <2> QED
    BY <2>2, <2>3, <2>4 DEF ChangesInv
<1> QED
  BY <1>1, <1>2

(* The invariant holds always: for any files, requests and mishaps.        *)
THEOREM ChangesHold == Spec => []ChangesInv
<1>1. Init => ChangesInv
  BY ChangesInit
<1>2. ChangesInv /\ [Next]_vars => ChangesInv'
  BY ChangesNext
<1> QED
  BY <1>1, <1>2, PTL DEF Spec

(* What the Session, the guest and the browser hold is always of its type. *)
THEOREM TypeCorrect == Spec => []TypeOK
<1>1. ChangesInv => TypeOK
  BY DEF ChangesInv
<1> QED
  BY <1>1, ChangesHold, PTL

(* NothingMissed: a browser whose view is open and whose stream is up      *)
(* shows the stored snapshot or will, however publications, fetches        *)
(* (session-changes-resource.tsx) and interruptions of the stream          *)
(* interleave.                                                             *)
THEOREM BrowserMissesNothing == Spec => []NothingMissed
<1>1. ChangesInv => NothingMissed
  <2> SUFFICES ASSUME ChangesInv, page.active, page.stream = "open",
                      session.stored # None, page.shown # Id(session.stored),
                      ~page.error, ~history.missed,
                      page.fetch.at # "asked"
               PROVE  /\ page.fetch.at = "answered"
                      /\ page.wanted \/ Id(page.fetch.snapshot)
                                          = Id(session.stored)
    BY DEF NothingMissed
  <2>1. page.fetch.at \in {"idle", "asked", "answered"}
    BY DEF ChangesInv, TypeOK, Pages, Fetch
  <2>2. page.fetch.at # "idle"
    BY DEF ChangesInv, ShownInv, AtRest, Known, ShowsStored
  <2>3. page.fetch.at = "answered"
    BY <2>1, <2>2
  <2>4. page.wanted \/ page.fetch.snapshot = ServedNow
    BY <2>3 DEF ChangesInv, AnswerInv
  <2> QED
    BY <2>3, <2>4 DEF ServedNow
<1> QED
  BY <1>1, ChangesHold, PTL

(* LastIntentWins: once the requests of a file have ended, its place in    *)
(* the index is what the user asked for last (updateFile,                  *)
(* #drainMutationLane), whatever was replaced, refused or lost; unless     *)
(* that request failed, or since it was executed the agent or an earlier   *)
(* request that had lost its browser undid it.                             *)
THEOREM LastIntentIsDone == Spec => []LastIntentWins
<1>1. ChangesInv => LastIntentWins
  BY DEF ChangesInv, IntentInv, IntentOK, LastIntentWins
<1> QED
  BY <1>1, ChangesHold, PTL

(* SpinnersServed: an intent that waits for its answer has a request of    *)
(* its generation at the end of its lane; no row spins forever because the *)
(* generations of #drainMutationLane went past it.                         *)
THEOREM SpinnersEnd == Spec => []SpinnersServed
<1>1. ChangesInv => SpinnersServed
  BY DEF ChangesInv
<1> QED
  BY <1>1, ChangesHold, PTL

(* SettledIsRight: at rest, and unless a refresh failed, was forgotten or  *)
(* turned away (project.ts), or was stored over by a stop's older one, the *)
(* page shows the index and the tree of the guest though list and patches  *)
(* are read one after the other, has loaded or failed to load the patches, *)
(* and has no intent left that its revision should have retired.           *)
THEOREM RestIsRight == Spec => []SettledIsRight
<1>1. ChangesInv => SettledIsRight
  <2> SUFFICES ASSUME ChangesInv, Settled, ~Excused
               PROVE  /\ page.shown = [seen |-> guest.index, patch |-> Diff]
                      /\ page.patches \in {"full", "error"}
                      /\ \A f \in Files : pending[f] # None =>
                            pending[f].revision > session.revision
    BY DEF SettledIsRight
  <2>1. /\ ~session.due
        /\ work["loop"].at = "idle" /\ Still /\ AtRest
        /\ page.patches # "loading"
    BY DEF Settled, Refreshers, Still, AtRest
  <2>2. /\ session.stored # None /\ ~session.stored.stale
        /\ session.stored.seen # None /\ session.stored.patch # None
        /\ ~history.forgot /\ Known
    BY DEF Excused, Known
  <2>10. ~Behind
    BY <2>1, <2>2 DEF Behind
  <2>3. ShowsStored
    BY <2>1, <2>2 DEF ChangesInv, ShownInv
  <2>4. Current(session.stored.seen, session.stored.patch)
    BY <2>2, <2>10 DEF ChangesInv, FreshInv, StoredFresh
  <2>5. session.stored.seen = guest.index /\ session.stored.patch = Diff
    BY <2>2, <2>4 DEF Current
  <2>6. page.shown = [seen |-> guest.index, patch |-> Diff]
    BY <2>3, <2>5 DEF ShowsStored, Id
  <2>7. page.patches \in {"none", "loading", "full", "error"}
    BY DEF ChangesInv, TypeOK, Pages
  <2>8. page.patches \in {"full", "error"}
    BY <2>1, <2>2, <2>3, <2>7 DEF ShowsStored
  <2>9. ASSUME NEW f \in Files, pending[f] # None
        PROVE  pending[f].revision > session.revision
    <3>1. lane[f] = <<>>
      BY <2>1 DEF Still
    <3>2. pending[f].revision # 0
      BY <2>9, <3>1 DEF ChangesInv, SpinnersServed
    <3>3. ~Unretired(f)
      BY <2>1, <2>2, <2>10 DEF ChangesInv, RetiredInv
    <3>4. pending[f].revision \in Nat /\ session.revision \in Nat
      BY <2>9 DEF ChangesInv, TypeOK, Sessions, Intent
    <3> QED
      BY <2>9, <3>2, <3>3, <3>4 DEF Unretired
  <2> QED
    BY <2>6, <2>8, <2>9
<1> QED
  BY <1>1, ChangesHold, PTL

=============================================================================
