-------------------------- MODULE EnvironmentLink --------------------------
(***************************************************************************)
(* The Environment Link of one Session: requests of its agent to the       *)
(* daemon in its guest (packages/pi-env/src/connection.ts), over the       *)
(* hibernatable WebSocket that the runner dials                            *)
(* (packages/environments/src/runner/link.ts), and the runner's dial and   *)
(* relay (packages/runner/src/environment/link).                           *)
(*                                                                         *)
(* A step of the gateway is one event of its object: what it does up to    *)
(* the promises that settle with it.  A socket the gateway has closed is   *)
(* still listed, and still delivers what its peer sent, until the peer is  *)
(* seen to be gone.                                                        *)
(***************************************************************************)
EXTENDS Naturals, FiniteSets

CONSTANTS
    MaxRequests,    \* requests of the agent
    MaxLinks,       \* sockets there are at once
    MaxEvictions,   \* evictions of the Session's object
    MaxFaults,      \* connections that break, daemons that end or hang
    MaxControls,    \* stops and deletions of the environment, revocations
    MaxMishaps      \* all of these together

ASSUME BoundsAssumption ==
    /\ MaxRequests \in Nat /\ MaxLinks \in Nat /\ MaxEvictions \in Nat
    /\ MaxFaults \in Nat /\ MaxControls \in Nat /\ MaxMishaps \in Nat

VARIABLES
    request,    \* where each request is
    session,    \* the connection's sessions, named by the request that began them
    current,    \* #session, 0 if none
    routed,     \* the session that #routed belongs to, 0 if none
    nextId,     \* #nextId: the instances' random starts do not collide
    closed,     \* #closed
    socket,     \* the link's sockets, at both their ends
    broken,     \* sockets that have silently ceased to carry anything
    asked,      \* requests under way to a daemon or served by it
    answered,   \* its answers under way
    wanted,     \* the environment runs, so that its runner keeps it linked
    shown,      \* the Session's record shows it running
    stopped,    \* the runner's notice that it stopped is under way
    revoked,    \* the runner: "no", "yes", and "told" to the Session
    deletion,   \* of the environment: "no", "asked", "done"
    evictions, faults, controls

counters == <<evictions, faults, controls>>
outside == <<wanted, shown, stopped, revoked, deletion>>
wires == <<broken, asked, answered>>
connection == <<request, session, current, routed, nextId, closed>>
vars == <<connection, socket, wires, outside, counters>>

Requests == 1..MaxRequests
Links == 1..MaxLinks
Ids == 1..(2 * MaxRequests)
Hello == 0           \* whose frame the hello and its answer are
Frame == [id : Ids, of : Requests \cup {Hello}]

Request == [at : {"idle", "connecting", "sent", "settled", "failed"},
            session : Requests \cup {0}, id : Ids \cup {0},
            by : Requests \cup {0}]
Session == [phase : {"none", "opening", "hello", "ready"}, live : BOOLEAN,
            link : Links \cup {0}, id : Ids \cup {0}]
Socket == [phase : {"none", "dialed", "asking", "known", "refused",
                    "attached", "ignored"},
           gateway : {"open", "closing", "gone"},
           runner : {"waiting", "relaying", "hung", "ended"}]

(* What the types of the code allow.                                       *)
TypeOK ==
    /\ request \in [Requests -> Request]
    /\ session \in [Requests -> Session]
    /\ current \in Requests \cup {0}
    /\ routed \in Requests \cup {0}
    /\ nextId \in Nat
    /\ closed \in BOOLEAN
    /\ socket \in [Links -> Socket]
    /\ broken \in SUBSET Links
    /\ asked \in [Links -> SUBSET Frame]
    /\ answered \in [Links -> SUBSET Frame]
    /\ wanted \in BOOLEAN
    /\ shown \in BOOLEAN
    /\ stopped \in BOOLEAN
    /\ revoked \in {"no", "yes", "told"}
    /\ deletion \in {"no", "asked", "done"}
    /\ evictions \in 0..MaxEvictions
    /\ faults \in 0..MaxFaults
    /\ controls \in 0..MaxControls

NewRequest == [at |-> "idle", session |-> 0, id |-> 0, by |-> 0]
NoSession == [phase |-> "none", live |-> FALSE, link |-> 0, id |-> 0]
NoSocket == [phase |-> "none", gateway |-> "gone", runner |-> "ended"]

Init ==
    /\ request = [r \in Requests |-> NewRequest]
    /\ session = [r \in Requests |-> NoSession]
    /\ current = 0
    /\ routed = 0
    /\ nextId = 1
    /\ closed = FALSE
    /\ socket = [l \in Links |-> NoSocket]
    /\ broken = {}
    /\ asked = [l \in Links |-> {}]
    /\ answered = [l \in Links |-> {}]
    /\ wanted = TRUE
    /\ shown = TRUE
    /\ stopped = FALSE
    /\ revoked = "no"
    /\ deletion = "no"
    /\ evictions = 0 /\ faults = 0 /\ controls = 0

More(n, max) == n < max /\ evictions + faults + controls < MaxMishaps

-----------------------------------------------------------------------------
(* Sockets and sessions.                                                   *)

Listed(l) == socket[l].gateway # "gone"         \* getWebSockets
Attached(l) == Listed(l) /\ socket[l].phase = "attached"
Open(l) == socket[l].gateway = "open"
Closing(s) ==                                   \* socket.close
    [s EXCEPT !.gateway = IF @ = "open" THEN "closing" ELSE @]

(* A frame sent on an open socket reaches a daemon that lives behind it.   *)
Arrives(l, frames) ==
    asked' = [asked EXCEPT ![l] = @ \cup
        (IF socket[l].runner = "relaying" /\ l \notin broken
         THEN frames ELSE {})]

Opening(s) == session[s].phase = "opening"

(* Requests that fail with a session: those sent on it, and, unless its    *)
(* opening goes on without it, those that wait for it.                     *)
Of(s, states) == {r \in Requests :
                    request[r].session = s /\ request[r].at \in states}
Failed(rs) ==
    [r \in Requests |-> IF r \in rs THEN [NewRequest EXCEPT !.at = "failed"]
                        ELSE request[r]]

Torn_Opening(s) == [session EXCEPT ![s] = NoSession]
(* #teardown of a live session.  One that is still opening waits on.       *)
Torn(s) == [session EXCEPT ![s] =
               IF Opening(s) THEN [@ EXCEPT !.live = FALSE] ELSE NoSession]
TornDown(s, sockets) ==
    /\ session' = Torn(s)
    /\ request' = Failed(Of(s, IF Opening(s) THEN {"sent"}
                               ELSE {"sent", "connecting"}))
    /\ current' = IF current = s THEN 0 ELSE current
    /\ socket' = [l \in Links |-> IF l = session[s].link
                                  THEN Closing(sockets[l]) ELSE sockets[l]]

Teardown(s, sockets) ==
    IF s # 0 /\ session[s].live THEN TornDown(s, sockets)
    ELSE socket' = sockets /\ UNCHANGED <<request, session, current>>

-----------------------------------------------------------------------------
(* Requests of the agent.                                                  *)

Refuse(r) ==
    /\ request' = Failed({r})
    /\ UNCHANGED <<session, current, routed, nextId, socket, wires>>

(* A live link is reused: the new session greets its daemon.               *)
Greet(r, l) ==
    /\ routed' = r
    /\ IF Open(l)
       THEN /\ session' = [session EXCEPT ![r] =
                  [phase |-> "hello", live |-> TRUE, link |-> l,
                   id |-> nextId]]
            /\ request' = [request EXCEPT ![r] =
                  [@ EXCEPT !.at = "connecting", !.session = r]]
            /\ current' = r
            /\ nextId' = nextId + 1
            /\ Arrives(l, {[id |-> nextId, of |-> Hello]})
       ELSE /\ request' = Failed({r})
            /\ nextId' = nextId + 1
            /\ UNCHANGED <<session, current, asked>>
    /\ UNCHANGED <<socket, broken, answered>>

(* #connect without a session: one is begun.                               *)
Begin(r) ==
    \/ \E l \in Links : Attached(l) /\ Greet(r, l)
    \/ /\ \A l \in Links : ~Attached(l)
       /\ IF ~shown THEN Refuse(r)
          ELSE /\ session' = [session EXCEPT ![r] =
                     [@ EXCEPT !.phase = "opening", !.live = TRUE]]
               /\ request' = [request EXCEPT ![r] =
                     [@ EXCEPT !.at = "connecting", !.session = r]]
               /\ current' = r
               /\ UNCHANGED <<routed, nextId, socket, wires>>

Join(r) ==
    /\ request' = [request EXCEPT ![r] =
                      [@ EXCEPT !.at = "connecting", !.session = current]]
    /\ UNCHANGED <<session, current, routed, nextId, socket, wires>>

(* #send, on a ready session: a link that cannot be written to fails it.   *)
SendOne(r) ==
    LET l == session[current].link IN
    /\ IF Open(l)
       THEN /\ request' = [request EXCEPT ![r] =
                  [@ EXCEPT !.at = "sent", !.session = current,
                            !.id = nextId]]
            /\ Arrives(l, {[id |-> nextId, of |-> r]})
            /\ UNCHANGED <<session, current>>
       ELSE /\ request' = Failed(Of(current, {"sent"}) \cup {r})
            /\ session' = Torn(current)
            /\ current' = 0
            /\ asked' = asked
    /\ nextId' = nextId + 1
    /\ UNCHANGED <<routed, socket, broken, answered>>

Ask(r) ==
    /\ request[r].at = "idle"
    /\ r > 1 => request[r - 1].at # "idle"
    /\ IF closed THEN Refuse(r)
       ELSE IF current = 0 THEN Begin(r)
       ELSE IF session[current].phase = "ready" THEN SendOne(r)
       ELSE Join(r)
    /\ UNCHANGED <<closed, outside, counters>>

-----------------------------------------------------------------------------
(* Answers.                                                                *)

(* The daemon's hello: whoever waited for the session is sent on it.       *)
Greeted(s) ==
    LET l == session[s].link
        waiting == Of(s, {"connecting"})
        id == [r \in waiting |->
                  nextId + Cardinality({q \in waiting : q < r})]
    IN /\ nextId' = nextId + Cardinality(waiting)
       /\ IF Open(l) \/ waiting = {}
          THEN /\ session' = [session EXCEPT ![s] =
                     [@ EXCEPT !.phase = "ready", !.id = 0]]
               /\ request' = [r \in Requests |->
                     IF r \in waiting
                     THEN [request[r] EXCEPT !.at = "sent", !.id = id[r]]
                     ELSE request[r]]
               /\ Arrives(l, {[id |-> id[r], of |-> r] : r \in waiting})
               /\ current' = current
          ELSE /\ request' = Failed(waiting)
               /\ session' = Torn(s)
               /\ current' = IF current = s THEN 0 ELSE current
               /\ asked' = asked

Settled(s, f) == {r \in Of(s, {"sent"}) : request[r].id = f.id}

(* #onFrame, #dispatch: an answer settles the request of its id, if that   *)
(* is one of the session that frames are routed to.                        *)
Deliver(l, f) ==
    /\ Attached(l) /\ l \notin broken
    /\ answered' = [answered EXCEPT ![l] = @ \ {f}]
    /\ IF routed # 0 /\ session[routed].live
       THEN IF session[routed].phase = "hello" /\ session[routed].id = f.id
            THEN Greeted(routed)
            ELSE /\ request' = [r \in Requests |->
                       IF r \in Settled(routed, f)
                       THEN [NewRequest EXCEPT !.at = "settled", !.by = f.of]
                       ELSE request[r]]
                 /\ UNCHANGED <<session, current, nextId, asked>>
       ELSE UNCHANGED <<request, session, current, nextId, asked>>
    /\ UNCHANGED <<routed, closed, socket, broken, outside, counters>>

DaemonAnswers(l, f) ==
    /\ socket[l].runner = "relaying" /\ l \notin broken
    /\ asked' = [asked EXCEPT ![l] = @ \ {f}]
    /\ answered' = [answered EXCEPT ![l] = @ \cup {f}]
    /\ UNCHANGED <<connection, socket, broken, outside, counters>>

-----------------------------------------------------------------------------
(* Timeouts.                                                               *)

(* Nothing will come of the link any more.  The relay echoes pings for as  *)
(* long as it runs, whatever its daemon does.                              *)
Silent(l) == l \in broken \/ socket[l].runner = "ended"

Waits(s) == session[s].phase = "hello" \/ Of(s, {"sent"}) # {}

(* #updateHeartbeat, while requests are in flight: thirty seconds without  *)
(* a frame, or a ping that cannot be written.                              *)
Heartbeat(s) ==
    /\ session[s].live /\ session[s].link # 0 /\ Waits(s)
    /\ Silent(session[s].link) \/ ~Open(session[s].link)
    /\ Teardown(s, socket)
    /\ UNCHANGED <<routed, nextId, closed, wires, outside, counters>>

(* Nothing was dialed within thirty seconds, or no hello within sixty.     *)
StartTimeout(s) ==
    /\ session[s].phase \in {"opening", "hello"}
    /\ session' = [session EXCEPT ![s] = NoSession]
    /\ request' = Failed(Of(s, {"connecting"}))
    /\ current' = IF current = s THEN 0 ELSE current
    /\ socket' = [l \in Links |-> IF l = session[s].link
                                  THEN Closing(socket[l]) ELSE socket[l]]
    /\ UNCHANGED <<routed, nextId, closed, wires, outside, counters>>

-----------------------------------------------------------------------------
(* The runner dials, one link at a time, for as long as compute runs.      *)

Unused(l) ==
    /\ ~Listed(l) /\ socket[l].runner = "ended"
    /\ socket[l].phase \in {"none", "attached", "ignored"}
    /\ \A s \in Requests : session[s].link # l

Dial(l) ==
    /\ wanted /\ Unused(l)
    /\ \A k \in Links : socket[k].runner = "ended"
    /\ \A k \in Links : k < l => ~Unused(k)
    /\ socket' = [socket EXCEPT ![l] = [phase |-> "dialed",
                      gateway |-> "open", runner |-> "waiting"]]
    /\ broken' = broken \ {l}
    /\ asked' = [asked EXCEPT ![l] = {}]
    /\ answered' = [answered EXCEPT ![l] = {}]
    /\ UNCHANGED <<connection, outside, counters>>

Turn(l, from, to) ==
    /\ socket[l].phase = from
    /\ socket' = [socket EXCEPT ![l] = [@ EXCEPT !.phase = to]]
    /\ UNCHANGED <<connection, wires, outside, counters>>

(* Its attach request arrives, and its token is looked up: two awaits.     *)
AttachRequest(l) ==
    /\ Listed(l) /\ l \notin broken
    /\ Turn(l, "dialed", "asking")
Authenticate(l) ==
    Turn(l, "asking", IF revoked = "no" THEN "known" ELSE "refused")

Reject(l) ==
    /\ socket[l].phase = "refused"
    /\ socket' = [socket EXCEPT ![l] = Closing([@ EXCEPT !.phase = "ignored"])]
    /\ UNCHANGED <<connection, wires, outside, counters>>

(* The sockets after an attach: a newer link replaces the others.          *)
Replaced_Trusting(l) ==
    [socket EXCEPT ![l] =
        [@ EXCEPT !.phase = "attached",
                  !.runner = IF @ = "waiting" /\ l \notin broken /\ Open(l)
                             THEN "relaying" ELSE @]]
Replaced(l) ==
    [k \in Links |->
        IF k = l
        THEN [socket[l] EXCEPT !.phase = "attached",
                  !.runner = IF @ = "waiting" /\ l \notin broken /\ Open(l)
                             THEN "relaying" ELSE @]
        ELSE IF Attached(k) THEN Closing(socket[k]) ELSE socket[k]]

(* What waits for a link to open.                                          *)
Waiters == {s \in Requests : Opening(s)}

(* The oldest waiter goes first.  One whose session was torn down meanwhile *)
(* closes the link it is given, and so fails the one after it.             *)
Serve(l) ==
    IF \A s \in Waiters : session[s].live
    THEN \E s \in Waiters :
         /\ session' = [session EXCEPT ![s] = [phase |-> "hello",
                           live |-> TRUE, link |-> l, id |-> nextId]]
         /\ routed' = s
         /\ nextId' = nextId + 1
         /\ asked' = [asked EXCEPT ![l] = IF Replaced(l)[l].runner = "relaying"
                         THEN @ \cup {[id |-> nextId, of |-> Hello]} ELSE @]
         /\ socket' = Replaced(l)
         /\ UNCHANGED <<request, current>>
    ELSE /\ session' = [s \in Requests |->
                           IF s \in Waiters THEN NoSession ELSE session[s]]
         /\ request' = Failed(UNION {Of(s, {"connecting"}) : s \in Waiters})
         /\ current' = IF current \in Waiters THEN 0 ELSE current
         /\ routed' = CHOOSE s \in Waiters : \A q \in Waiters : q <= s
         /\ nextId' = nextId + Cardinality({s \in Waiters : session[s].live})
         /\ socket' = [Replaced(l) EXCEPT ![l] = Closing(@)]
         /\ asked' = asked

Attach(l) ==
    /\ socket[l].phase = "known"
    /\ IF Open(l) /\ Waiters # {} THEN Serve(l)
       ELSE /\ socket' = Replaced(l)
            /\ UNCHANGED <<request, session, current, routed, nextId, asked>>
    /\ UNCHANGED <<closed, broken, answered, outside, counters>>

(* Plausible defect: no keepalive notices that a link carries nothing.     *)
Ending_Trusting(l) ==
    \/ ~Open(l) /\ l \notin broken
    \/ ~wanted \/ socket[l].phase = "ignored" \/ socket[l].runner = "hung"
(* The runner's end: the gateway closed it or is silent, or the            *)
(* environment no longer runs, or its daemon is (pingDaemon).              *)
Ending(l) ==
    \/ ~Open(l) \/ l \in broken
    \/ ~wanted \/ socket[l].phase = "ignored" \/ socket[l].runner = "hung"

RunnerEnds(l) ==
    /\ socket[l].runner # "ended"
    /\ \/ Ending(l) /\ UNCHANGED faults
       \/ More(faults, MaxFaults) /\ faults' = faults + 1
    /\ socket' = [socket EXCEPT ![l] = [@ EXCEPT !.runner = "ended"]]
    /\ asked' = [asked EXCEPT ![l] = {}]
    /\ UNCHANGED <<connection, broken, answered, outside, evictions,
                   controls>>

(* The daemon hangs: nothing is heard of it, nor served by it, any more.   *)
Hang(l) ==
    /\ More(faults, MaxFaults) /\ faults' = faults + 1
    /\ socket[l].runner = "relaying"
    /\ socket' = [socket EXCEPT ![l] = [@ EXCEPT !.runner = "hung"]]
    /\ asked' = [asked EXCEPT ![l] = {}]
    /\ UNCHANGED <<connection, broken, answered, outside, evictions,
                   controls>>

Break(l) ==
    /\ More(faults, MaxFaults) /\ faults' = faults + 1
    /\ Listed(l) /\ l \notin broken
    /\ broken' = broken \cup {l}
    /\ UNCHANGED <<connection, socket, asked, answered, outside, evictions,
                   controls>>

Gone(s) == [s EXCEPT !.gateway = "gone",
                     !.phase = IF @ = "dialed" THEN "ignored" ELSE @]
(* The platform sees a socket end: #closed.  It need not tell of one that  *)
(* the gateway closed itself.                                              *)
SocketClosed(l) ==
    LET gone == [socket EXCEPT ![l] = Gone(@)]
    IN /\ Listed(l) /\ Silent(l)
       /\ l \in broken \/ answered[l] = {}
       /\ \/ Attached(l) /\ Teardown(routed, gone)
          \/ /\ ~(Attached(l) /\ Open(l))
             /\ socket' = gone
             /\ UNCHANGED <<request, session, current>>
       /\ UNCHANGED <<routed, nextId, closed, wires, outside, counters>>

-----------------------------------------------------------------------------
(* The control plane.                                                      *)

CloseAll_Attached ==
    [l \in Links |-> IF Attached(l) THEN Closing(socket[l]) ELSE socket[l]]
CloseAll == [l \in Links |-> Closing(socket[l])]

(* A stop or a restart: the runner ends its link when it stops compute.    *)
Stop ==
    /\ More(controls, MaxControls) /\ wanted /\ ~closed
    /\ controls' = controls + 1
    /\ wanted' = FALSE
    /\ stopped' = TRUE
    /\ Teardown(current, socket)
    /\ UNCHANGED <<routed, nextId, closed, wires, shown, revoked, deletion,
                   evictions, faults>>

(* A start, or a restart goes on.                                          *)
Start ==
    /\ ~wanted /\ deletion = "no"
    /\ wanted' = TRUE
    /\ UNCHANGED <<connection, socket, wires, shown, stopped, revoked, deletion,
                   counters>>

(* The runner's notices, in order, while it is still heard.  One that it   *)
(* stopped closes even a link that was dialed since.                       *)
Changed ==
    /\ revoked = "no"
    /\ \/ stopped /\ shown' = FALSE /\ Teardown(routed, CloseAll)
       \/ /\ ~stopped /\ wanted /\ ~shown /\ shown' = TRUE
          /\ UNCHANGED <<socket, request, session, current>>
    /\ stopped' = FALSE
    /\ UNCHANGED <<routed, nextId, closed, wires, wanted, revoked, deletion,
                   counters>>

Revoke ==
    /\ revoked = "no" /\ More(controls, MaxControls)
    /\ controls' = controls + 1
    /\ revoked' = "yes"
    /\ UNCHANGED <<connection, socket, wires, wanted, shown, stopped, deletion,
                   evictions, faults>>

Revoked ==
    /\ revoked = "yes"
    /\ revoked' = "told"
    /\ shown' = FALSE
    /\ Teardown(routed, CloseAll)
    /\ UNCHANGED <<routed, nextId, closed, wires, wanted, stopped, deletion,
                   counters>>

Delete ==
    /\ deletion = "no" /\ More(controls, MaxControls)
    /\ controls' = controls + 1
    /\ deletion' = "asked"
    /\ closed' = TRUE
    /\ Teardown(current, socket)
    /\ UNCHANGED <<routed, nextId, wires, wanted, shown, stopped, revoked,
                   evictions, faults>>

Deleted ==
    /\ deletion = "asked"
    /\ deletion' = "done"
    /\ wanted' = FALSE
    /\ stopped' = (stopped \/ wanted)
    /\ Teardown(routed, CloseAll)
    /\ UNCHANGED <<routed, nextId, closed, wires, shown, revoked, counters>>

Evict_SameIds ==
    /\ More(evictions, MaxEvictions) /\ deletion = "no"
    /\ evictions' = evictions + 1
    /\ session' = [s \in Requests |-> NoSession]
    /\ request' = Failed({r \in Requests :
                             request[r].at \in {"connecting", "sent"}})
    /\ current' = 0 /\ routed' = 0
    /\ nextId' = 1
    /\ socket' = [l \in Links |->
           [socket[l] EXCEPT !.phase =
               IF @ \in {"asking", "known", "refused"} THEN "ignored" ELSE @]]
    /\ UNCHANGED <<closed, wires, outside, faults, controls>>
(* The object hibernates or is evicted: its sockets stay.  Pi asks again   *)
(* what was in flight.                                                     *)
Evict ==
    /\ More(evictions, MaxEvictions) /\ deletion = "no"
    /\ evictions' = evictions + 1
    /\ session' = [s \in Requests |-> NoSession]
    /\ request' = Failed({r \in Requests :
                             request[r].at \in {"connecting", "sent"}})
    /\ current' = 0 /\ routed' = 0
    /\ nextId' = nextId
    /\ socket' = [l \in Links |->
           [socket[l] EXCEPT !.phase =
               IF @ \in {"asking", "known", "refused"} THEN "ignored" ELSE @]]
    /\ UNCHANGED <<closed, wires, outside, faults, controls>>

-----------------------------------------------------------------------------
AgentStep == \E r \in Requests : Ask(r)
DeliverStep(l) == \E f \in answered[l] : Deliver(l, f)
AnswerStep(l) == DeliverStep(l) \/ \E f \in asked[l] : DaemonAnswers(l, f)
TimerStep == \E s \in Requests : Heartbeat(s) \/ StartTimeout(s)
AttachStep(l) == AttachRequest(l) \/ Authenticate(l) \/ Reject(l) \/ Attach(l)
EndStep(l) == RunnerEnds(l) \/ SocketClosed(l)
ControlStep == Stop \/ Start \/ Revoke \/ Delete
NoticeStep == Changed \/ Revoked \/ Deleted

Next ==
    \/ AgentStep \/ TimerStep \/ ControlStep \/ NoticeStep \/ Evict
    \/ \E l \in Links :
           AnswerStep(l) \/ Dial(l) \/ AttachStep(l) \/ EndStep(l)
           \/ Break(l) \/ Hang(l)

Spec == Init /\ [][Next]_vars

(* Handlers go on, timers fire, and peers that are gone are seen to be;    *)
(* nothing makes an agent ask, a daemon answer, or a user stop an          *)
(* environment or start it.                                                *)
Ends(l) == (Ending(l) /\ RunnerEnds(l)) \/ SocketClosed(l)
Fairness ==
    /\ WF_vars(TimerStep)
    /\ WF_vars(NoticeStep)
    /\ \A l \in Links : WF_vars(DeliverStep(l)) /\ WF_vars(Dial(l))
           /\ WF_vars(AttachStep(l)) /\ WF_vars(Ends(l))

FairSpec == Spec /\ Fairness

-----------------------------------------------------------------------------
(* Properties.                                                             *)

(* A request is settled only by the daemon's answer to it: not by one to   *)
(* another session's request, or to one of the object before its eviction, *)
(* that comes late over a link since reused or replaced.                   *)
AnswersMatch ==
    \A r \in Requests : request[r].at = "settled" => request[r].by = r

(* Guest operations go to one daemon: of the links that are attached and   *)
(* not closed there is never a second, however many dials are being        *)
(* authenticated at once.                                                  *)
OneLink ==
    \A k, l \in Links :
        Attached(k) /\ Open(k) /\ Attached(l) /\ Open(l) => k = l

(* Once the Session has been told of its runner's revocation, or its       *)
(* environment is deleted, no socket of it is attached and open: not even  *)
(* one whose token was found good before and whose attach ends after.      *)
CutIsFinal ==
    revoked = "told" \/ deletion = "done" =>
        \A l \in Links : ~(Attached(l) /\ Open(l))

(* Every request ends, with an answer or as lost, whatever becomes of its  *)
(* link, its daemon and the environment: unless a daemon that lives, on a  *)
(* link that lives, has it for ever.                                       *)
Pending(r) == request[r].at \in {"connecting", "sent"}
Served(r) ==
    \E l \in Links : [id |-> request[r].id, of |-> r] \in asked[l]
RequestsEnd ==
    \A r \in Requests : []<>~Pending(r) \/ <>[]Served(r)

(* While the environment runs it is linked again and again, whoever lost   *)
(* or closed the link.                                                     *)
Relinked ==
    []<>(~wanted \/ revoked # "no" \/ closed
         \/ \E l \in Links : Attached(l) /\ Open(l) /\ l \notin broken
                             /\ socket[l].runner = "relaying")

=============================================================================
