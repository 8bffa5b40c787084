------------------------ MODULE EnvironmentLinkProofs ------------------------
(***************************************************************************)
(* Proofs about EnvironmentLink, for any number of requests and of links,  *)
(* and whatever the bounds on evictions, faults and controls.              *)
(*                                                                         *)
(* The sockets: a link is attached only by a step that closes the others,  *)
(* and once the Session was told of a revocation or a deletion no token is *)
(* found good any more (LinkInv).  The answers: an id is given once, so    *)
(* that a frame under way with the id of a request is that request's       *)
(* (IdInv), whatever sessions, links and instances came between.           *)
(***************************************************************************)
EXTENDS EnvironmentLink, FiniteSetTheorems, TLAPS

SocketType == socket \in [Links -> Socket]

(* The attach of a link whose token was found good goes on.                *)
Good == {"known", "attached"}
CutInv ==
    /\ revoked = "told" =>
          \A l \in Links : ~(Open(l) /\ socket[l].phase \in Good)
    /\ deletion = "done" => ~wanted /\ \A l \in Links : ~Open(l)

LinkInv == SocketType /\ OneLink /\ CutInv

(* No link is opened, nor comes nearer to being attached.                  *)
Later(old, new) ==
    new.gateway = "open" =>
        old.gateway = "open" /\ new.phase \in {old.phase, "ignored"}
Fades ==
    /\ socket' \in [Links -> Socket]
    /\ \A l \in Links : Later(socket[l], socket'[l])
-----------------------------------------------------------------------------
(* The steps of Next, one by one.                                          *)
NextCases ==
    \/ \E r \in Requests : Ask(r)
    \/ \E l \in Links :
          \/ \E f \in answered[l] : Deliver(l, f)
          \/ \E f \in asked[l] : DaemonAnswers(l, f)
          \/ Dial(l) \/ AttachRequest(l) \/ Authenticate(l) \/ Reject(l)
          \/ Attach(l) \/ RunnerEnds(l) \/ SocketClosed(l) \/ Break(l) \/ Hang(l)
    \/ \E s \in Requests : Heartbeat(s) \/ StartTimeout(s)
    \/ Stop \/ Start \/ Revoke \/ Delete \/ Changed \/ Revoked \/ Deleted
    \/ Evict \/ UNCHANGED vars

LEMMA Cases == ASSUME [Next]_vars PROVE NextCases
BY DEF Next, NextCases, AgentStep, TimerStep, ControlStep, NoticeStep,
   AnswerStep, DeliverStep, AttachStep, EndStep
-----------------------------------------------------------------------------
(* The sockets.                                                            *)

(* A socket that the gateway closes is not open any more.                  *)
LEMMA ClosingFacts ==
  ASSUME NEW s \in Socket
  PROVE  /\ Closing(s) \in Socket /\ Closing(s).gateway # "open"
         /\ Closing(s).phase = s.phase
BY DEF Closing, Socket

LEMMA CloseAllFacts ==
  ASSUME SocketType
  PROVE  /\ CloseAll \in [Links -> Socket]
         /\ \A l \in Links : CloseAll[l].gateway # "open"
BY ClosingFacts DEF CloseAll, SocketType

(* The teardown of a session opens no socket.                              *)
LEMMA TeardownFades ==
  ASSUME NEW s, NEW sockets \in [Links -> Socket], Teardown(s, sockets)
  PROVE  /\ socket' \in [Links -> Socket]
         /\ \A l \in Links : Later(sockets[l], socket'[l])
<1>1. CASE socket' = sockets
  BY <1>1 DEF Later
<1>2. CASE socket' = [l \in Links |-> IF l = session[s].link
                                      THEN Closing(sockets[l]) ELSE sockets[l]]
  BY <1>2, ClosingFacts DEF Later
<1> QED
  BY <1>1, <1>2 DEF Teardown, TornDown

(* What a step does to one socket.                                         *)
LEMMA OneFades ==
  ASSUME SocketType, NEW l \in Links, NEW new \in Socket,
         socket' = [socket EXCEPT ![l] = new], Later(socket[l], new)
  PROVE  Fades
BY DEF Fades, SocketType, Later

(* Only a dial, and the steps of an attach, do more than that.             *)
LEMMA SocketsFade ==
  ASSUME SocketType, NextCases
  PROVE  \/ Fades
         \/ \E l \in Links : \/ Dial(l) \/ AttachRequest(l)
                             \/ Authenticate(l) \/ Attach(l)
<1> USE DEF SocketType
<1>1. CASE socket' = socket
  BY <1>1 DEF Fades, Later
<1>2. ASSUME NEW s, Teardown(s, socket) \/ Teardown(s, CloseAll)
      PROVE  Fades
  <2>1. CASE Teardown(s, socket)
    BY <2>1, TeardownFades DEF Fades
  <2>2. CASE Teardown(s, CloseAll)
    BY <2>2, TeardownFades, CloseAllFacts DEF Fades, Later
  <2> QED
    BY <1>2, <2>1, <2>2
<1>3. ASSUME NEW r \in Requests, Ask(r)
      PROVE  socket' = socket
  BY <1>3 DEF Ask, Refuse, Begin, Greet, Join, SendOne
<1>4. ASSUME NEW s \in Requests, Heartbeat(s)
      PROVE  Fades
  BY <1>2, <1>4 DEF Heartbeat
<1>5. ASSUME NEW s \in Requests, StartTimeout(s)
      PROVE  Fades
  <2>1. socket' = [l \in Links |-> IF l = session[s].link
                                   THEN Closing(socket[l]) ELSE socket[l]]
    BY <1>5 DEF StartTimeout
  <2> QED
    BY <2>1, ClosingFacts DEF Fades, Later
<1>6. ASSUME NEW l \in Links, Reject(l)
      PROVE  Fades
  <2> DEFINE new == [socket[l] EXCEPT !.phase = "ignored"]
  <2>1. new \in Socket
    BY DEF Socket
  <2>2. socket' = [socket EXCEPT ![l] = Closing(new)]
    BY <1>6 DEF Reject
  <2> HIDE DEF new
  <2> QED
    BY <2>1, <2>2, ClosingFacts, OneFades DEF Later
<1>7. ASSUME NEW l \in Links, RunnerEnds(l)
      PROVE  Fades
  <2> DEFINE new == [socket[l] EXCEPT !.runner = "ended"]
  <2>1. new \in Socket /\ Later(socket[l], new)
    BY DEF Socket, Later
  <2>2. socket' = [socket EXCEPT ![l] = new]
    BY <1>7 DEF RunnerEnds
  <2> HIDE DEF new
  <2> QED
    BY <2>1, <2>2, OneFades
<1>12. ASSUME NEW l \in Links, Hang(l)
       PROVE  Fades
  <2> DEFINE new == [socket[l] EXCEPT !.runner = "hung"]
  <2>1. new \in Socket /\ Later(socket[l], new)
    BY DEF Socket, Later
  <2>2. socket' = [socket EXCEPT ![l] = new]
    BY <1>12 DEF Hang
  <2> HIDE DEF new
  <2> QED
    BY <2>1, <2>2, OneFades
<1>8. ASSUME NEW l \in Links, SocketClosed(l)
      PROVE  Fades
  <2> DEFINE gone == [socket EXCEPT ![l] = Gone(@)]
  <2>1. Gone(socket[l]) \in Socket /\ Gone(socket[l]).gateway = "gone"
    BY DEF Socket, Gone
  <2>2. Teardown(routed, gone) \/ socket' = gone
    BY <1>8 DEF SocketClosed
  <2>3. gone \in [Links -> Socket] /\ \A k \in Links : Later(socket[k], gone[k])
    BY <2>1 DEF Later
  <2> HIDE DEF gone
  <2>4. CASE Teardown(routed, gone)
    BY <2>3, <2>4, TeardownFades DEF Fades, Later
  <2> QED
    BY <2>2, <2>3, <2>4 DEF Fades
<1>9. CASE Stop \/ Changed \/ Revoked \/ Delete \/ Deleted
  BY <1>1, <1>2, <1>9 DEF Stop, Changed, Revoked, Delete, Deleted
<1>10. CASE Evict
  <2> DEFINE new(l) == [socket[l] EXCEPT !.phase =
               IF @ \in {"asking", "known", "refused"} THEN "ignored" ELSE @]
  <2>1. \A l \in Links : new(l) \in Socket /\ Later(socket[l], new(l))
    BY DEF Socket, Later
  <2>2. socket' = [l \in Links |-> new(l)]
    BY <1>10 DEF Evict
  <2> HIDE DEF new
  <2> QED
    BY <2>1, <2>2 DEF Fades
<1>11. CASE \/ \E l \in Links :
                 \/ \E f \in answered[l] : Deliver(l, f)
                 \/ \E f \in asked[l] : DaemonAnswers(l, f)
                 \/ Break(l)
            \/ Start \/ Revoke \/ UNCHANGED vars
  BY <1>1, <1>11 DEF Deliver, DaemonAnswers, Break, Start, Revoke, vars
<1> QED
  BY <1>1, <1>3, <1>4, <1>5, <1>6, <1>7, <1>8, <1>9, <1>10, <1>11,
     <1>12 DEF NextCases

-----------------------------------------------------------------------------
(* A dial opens a link that has yet to be attached.                        *)
LEMMA DialFacts ==
  ASSUME SocketType, NEW l \in Links, Dial(l)
  PROVE  /\ socket' \in [Links -> Socket] /\ socket'[l].phase = "dialed"
         /\ \A k \in Links : k # l => socket'[k] = socket[k]
BY DEF SocketType, Dial, Socket

(* An attach request, and the answer about its token, bring one link a     *)
(* step further; only a token of a runner not revoked is found good.       *)
LEMMA TurnFacts ==
  ASSUME SocketType, NEW l \in Links, AttachRequest(l) \/ Authenticate(l)
  PROVE  /\ socket' \in [Links -> Socket]
         /\ socket'[l].phase \in {"asking", "known", "refused"}
         /\ socket'[l].phase = "known" => revoked = "no"
         /\ socket'[l].gateway = socket[l].gateway
         /\ \A k \in Links : k # l => socket'[k] = socket[k]
BY DEF SocketType, AttachRequest, Authenticate, Turn, Socket

(* The attach of a link closes the others that are attached.               *)
LEMMA ReplacedFacts ==
  ASSUME SocketType, NEW l \in Links
  PROVE  /\ Replaced(l) \in [Links -> Socket]
         /\ Replaced(l)[l].gateway = socket[l].gateway
         /\ Replaced(l)[l].phase = "attached"
         /\ \A k \in Links : k # l =>
               /\ Later(socket[k], Replaced(l)[k])
               /\ Replaced(l)[k].phase = "attached" =>
                     Replaced(l)[k].gateway # "open"
<1> DEFINE new == [socket[l] EXCEPT !.phase = "attached",
                  !.runner = IF @ = "waiting" /\ l \notin broken /\ Open(l)
                             THEN "relaying" ELSE @]
           other(k) == IF Attached(k) THEN Closing(socket[k]) ELSE socket[k]
<1>1. /\ new \in Socket /\ new.phase = "attached"
      /\ new.gateway = socket[l].gateway
  BY DEF SocketType, Socket
<1>2. \A k \in Links : /\ other(k) \in Socket
                       /\ Later(socket[k], other(k))
                       /\ other(k).phase = "attached" => other(k).gateway # "open"
  BY ClosingFacts DEF SocketType, Attached, Listed, Later
<1>3. Replaced(l) = [k \in Links |-> IF k = l THEN new ELSE other(k)]
  BY DEF Replaced
<1> HIDE DEF new, other
<1> QED
  BY <1>1, <1>2, <1>3

(* An attach leaves its link attached, open only if it was, and no other.  *)
LEMMA AttachFacts ==
  ASSUME SocketType, NEW l \in Links, Attach(l)
  PROVE  /\ socket' \in [Links -> Socket]
         /\ socket[l].phase = "known"
         /\ socket'[l].phase = "attached"
         /\ socket'[l].gateway = "open" => socket[l].gateway = "open"
         /\ \A k \in Links : k # l =>
               /\ Later(socket[k], socket'[k])
               /\ socket'[k].phase = "attached" => socket'[k].gateway # "open"
<1>1. CASE socket' = Replaced(l)
  BY <1>1, ReplacedFacts DEF Attach
<1>2. CASE socket' = [Replaced(l) EXCEPT ![l] = Closing(@)]
  <2>1. /\ socket'[l] = Closing(Replaced(l)[l])
        /\ \A k \in Links : k # l => socket'[k] = Replaced(l)[k]
    BY <1>2, ReplacedFacts
  <2> QED
    BY <1>2, <2>1, ReplacedFacts, ClosingFacts DEF Attach
<1> QED
  BY <1>1, <1>2 DEF Attach, Serve

(* Every socket keeps its type.                                            *)
LEMMA SocketTypeInductive ==
  ASSUME SocketType, NextCases
  PROVE  SocketType'
BY SocketsFade, DialFacts, TurnFacts, AttachFacts DEF Fades, SocketType

(* No step leaves a second link attached and open.                         *)
LEMMA OneLinkInductive ==
  ASSUME LinkInv, NextCases
  PROVE  OneLink'
<1>1. SocketType /\ OneLink
  BY DEF LinkInv
<1>2. CASE Fades
  <2>1. \A l \in Links : (Attached(l) /\ Open(l))' => Attached(l) /\ Open(l)
    BY <1>2 DEF Fades, Later, Attached, Listed, Open
  <2> QED
    BY <1>1, <2>1 DEF OneLink
<1>3. ASSUME NEW l \in Links, Dial(l) \/ AttachRequest(l) \/ Authenticate(l)
      PROVE  OneLink'
  <2>1. socket'[l].phase # "attached" /\ \A k \in Links : k # l => socket'[k] = socket[k]
    BY <1>1, <1>3, DialFacts, TurnFacts
  <2>2. \A k \in Links : (Attached(k) /\ Open(k))' => Attached(k) /\ Open(k)
    BY <2>1 DEF Attached, Listed, Open
  <2> QED
    BY <1>1, <2>2 DEF OneLink
<1>4. ASSUME NEW l \in Links, Attach(l)
      PROVE  OneLink'
  <2>1. \A k \in Links : (Attached(k) /\ Open(k))' => k = l
    BY <1>1, <1>4, AttachFacts DEF Attached, Open
  <2> QED
    BY <2>1 DEF OneLink
<1> QED
  BY <1>1, <1>2, <1>3, <1>4, SocketsFade

(* The Session is told of a revocation, or of the deletion of its          *)
(* environment, by a step that closes every link.                          *)
LEMMA TellingCloses ==
  ASSUME SocketType, Revoked \/ Deleted
  PROVE  \A l \in Links : socket'[l].gateway # "open"
<1>1. Teardown(routed, CloseAll)
  BY DEF Revoked, Deleted
<1> QED
  BY <1>1, CloseAllFacts, TeardownFades DEF Later

(* No other step says so, nor makes the runner dial after a deletion.      *)
LEMMA CutKept ==
  ASSUME NextCases
  PROVE  \/ Revoked \/ Deleted
         \/ /\ revoked' = "told" => revoked = "told"
            /\ deletion' = "done" => deletion = "done" /\ (~wanted => ~wanted')
<1> USE DEF outside, vars
<1>1. CASE Stop \/ Start \/ Revoke \/ Delete \/ Changed \/ UNCHANGED vars
  BY <1>1 DEF Stop, Start, Revoke, Delete, Changed
<1>2. CASE \E l \in Links :
              \/ \E f \in answered[l] : Deliver(l, f)
              \/ \E f \in asked[l] : DaemonAnswers(l, f)
              \/ Dial(l) \/ AttachRequest(l) \/ Authenticate(l) \/ Reject(l)
              \/ Attach(l) \/ RunnerEnds(l) \/ SocketClosed(l) \/ Break(l)
              \/ Hang(l)
  <2>1. UNCHANGED outside
    BY <1>2 DEF Deliver, DaemonAnswers, Dial, AttachRequest, Authenticate, Turn,
       Reject, Attach, RunnerEnds, SocketClosed, Break, Hang
  <2> QED
    BY <2>1
<1>3. CASE \/ \E r \in Requests : Ask(r)
           \/ \E s \in Requests : Heartbeat(s) \/ StartTimeout(s)
           \/ Evict
  <2>1. UNCHANGED outside
    BY <1>3 DEF Ask, Heartbeat, StartTimeout, Evict
  <2> QED
    BY <2>1
<1> QED
  BY <1>1, <1>2, <1>3 DEF NextCases

(* No step opens a link once the Session was told, or after a deletion.    *)
LEMMA CutInductive ==
  ASSUME LinkInv, NextCases
  PROVE  CutInv'
<1>1. SocketType /\ CutInv
  BY DEF LinkInv
<1>2. CASE Revoked \/ Deleted
  <2>1. \A l \in Links : ~Open(l)'
    BY <1>1, <1>2, TellingCloses DEF Open
  <2>2. deletion' = "done" => ~wanted'
    BY <1>1, <1>2 DEF Revoked, Deleted, CutInv
  <2> QED
    BY <2>1, <2>2 DEF CutInv
<1>3. CASE ~(Revoked \/ Deleted)
  <2>1. /\ revoked' = "told" => revoked = "told"
        /\ deletion' = "done" => deletion = "done" /\ (~wanted => ~wanted')
    BY <1>3, CutKept
  <2>2. CASE Fades
    <3>1. \A l \in Links : Open(l)' =>
             Open(l) /\ (socket'[l].phase \in Good => socket[l].phase \in Good)
      BY <2>2 DEF Fades, Later, Open, Good
    <3> QED
      BY <1>1, <2>1, <3>1 DEF CutInv
  <2>3. ASSUME NEW l \in Links, Dial(l)
        PROVE  CutInv'
    <3>1. /\ wanted /\ socket'[l].phase \notin Good
          /\ \A k \in Links : k # l => socket'[k] = socket[k]
      BY <1>1, <2>3, DialFacts DEF Dial, Good
    <3> QED
      BY <1>1, <2>1, <3>1 DEF CutInv, Open
  <2>4. ASSUME NEW l \in Links, AttachRequest(l) \/ Authenticate(l)
        PROVE  CutInv'
    <3>1. /\ socket'[l].phase \in Good => revoked # "told"
          /\ socket'[l].gateway = socket[l].gateway
          /\ \A k \in Links : k # l => socket'[k] = socket[k]
      BY <1>1, <2>4, TurnFacts DEF Good
    <3> QED
      BY <1>1, <2>1, <3>1 DEF CutInv, Open
  <2>5. ASSUME NEW l \in Links, Attach(l)
        PROVE  CutInv'
    <3>1. \A k \in Links : Open(k)' =>
             Open(k) /\ (socket'[k].phase \in Good => socket[k].phase \in Good)
      BY <1>1, <2>5, AttachFacts DEF Open, Later, Good
    <3> QED
      BY <1>1, <2>1, <3>1 DEF CutInv
  <2> QED
    BY <1>1, <2>2, <2>3, <2>4, <2>5, SocketsFade
<1> QED
  BY <1>2, <1>3

(* What is invariant about the sockets.                                    *)
LEMMA LinkInductive == Spec => []LinkInv
<1>1. Init => LinkInv
  BY DEF Init, LinkInv, SocketType, Socket, NoSocket, OneLink, Attached, Listed,
     CutInv,
         Open
<1>2. LinkInv /\ [Next]_vars => LinkInv'
  BY Cases, SocketTypeInductive, OneLinkInductive, CutInductive DEF LinkInv
<1> QED
  BY <1>1, <1>2, PTL DEF Spec

(* However many links are dialed and authenticated at once, one at most is *)
(* attached and open.                                                      *)
THEOREM OneIsLinked == Spec => []OneLink
<1>1. LinkInv => OneLink
  BY DEF LinkInv
<1> QED
  BY <1>1, LinkInductive, PTL

(* A link is neither attached nor stays open once the Session was told of  *)
(* its runner's revocation, or its environment is deleted.                 *)
THEOREM CutStays == Spec => []CutIsFinal
<1>1. LinkInv => CutIsFinal
  BY DEF LinkInv, CutInv, CutIsFinal, Attached, Good
<1> QED
  BY <1>1, LinkInductive, PTL

-----------------------------------------------------------------------------
(* The answers.                                                            *)

Asked == [at : {"idle", "connecting", "sent", "settled", "failed"},
          session : Requests \cup {0}, id : Nat, by : Requests \cup {0}]
Frames == [id : Nat, of : Requests \cup {Hello}]
Under == UNION {asked[l] \cup answered[l] : l \in Links}   \* under way

AnswerType ==
    /\ request \in [Requests -> Asked]
    /\ current \in Requests \cup {0}
    /\ nextId \in Nat
    /\ asked \in [Links -> SUBSET Frames]
    /\ answered \in [Links -> SUBSET Frames]

(* A frame with the id of a request under way is that request's, or its    *)
(* answer; and no id is given again.                                       *)
IdInv ==
    /\ \A r \in Requests : request[r].at = "sent" => request[r].id < nextId
    /\ \A f \in Under :
          /\ f.id < nextId
          /\ \A r \in Requests :
                request[r].at = "sent" /\ request[r].id = f.id => f.of = r

AnswerInv == AnswerType /\ AnswersMatch /\ IdInv

(* What a step may do: give new ids to requests and to their frames, and   *)
(* settle a request by its own answer.                                     *)
Kept(r) == request'[r] = request[r]
Sent(r) == request'[r].at = "sent" /\ request'[r].id \in nextId..(nextId' - 1)
Over(r) == /\ request'[r].at # "sent"
           /\ request'[r].at = "settled" => request'[r].by = r
New(f) == /\ f.id \in nextId..(nextId' - 1)
          /\ \A r \in Requests : Sent(r) /\ request'[r].id = f.id => f.of = r
AnswerStepped ==
    /\ AnswerType' /\ nextId <= nextId'
    /\ \A r \in Requests : Kept(r) \/ Sent(r) \/ Over(r)
    /\ \A f \in Under' : f \in Under \/ New(f)

(* Such a step keeps frames and requests matched.                          *)
LEMMA SteppedKeeps ==
  ASSUME AnswerInv, AnswerStepped
  PROVE  AnswerInv'
<1>1. AnswerType /\ AnswersMatch /\ IdInv /\ AnswerType' /\ nextId <= nextId'
  BY DEF AnswerInv, AnswerStepped
<1>2. nextId \in Nat /\ nextId' \in Nat
  BY <1>1 DEF AnswerType
<1>3. AnswersMatch'
  BY <1>1 DEF AnswersMatch, AnswerStepped, Kept, Sent, Over
<1>4. ASSUME NEW r \in Requests, request'[r].at = "sent"
      PROVE  \/ Kept(r) /\ request[r].at = "sent" /\ request[r].id < nextId
             \/ Sent(r)
  BY <1>1, <1>4 DEF AnswerStepped, Kept, Over, IdInv
<1>5. ASSUME NEW r \in Requests, request'[r].at = "sent"
      PROVE  request'[r].id \in Nat /\ request'[r].id < nextId'
  BY <1>1, <1>2, <1>4, <1>5 DEF Kept, Sent, AnswerType, Asked
<1>6. \A f \in Under : f.id \in Nat
  BY <1>1 DEF Under, AnswerType, Frames
<1>7. ASSUME NEW f \in Under'
      PROVE  /\ f.id < nextId'
             /\ \A r \in Requests :
                   request'[r].at = "sent" /\ request'[r].id = f.id => f.of = r
  <2>1. CASE f \in Under
    <3>1. f.id \in Nat /\ f.id < nextId
      BY <1>1, <1>6, <2>1 DEF IdInv
    <3>2. \A r \in Requests : Sent(r) => request'[r].id # f.id
      BY <1>2, <3>1 DEF Sent
    <3>3. \A r \in Requests :
             Kept(r) /\ request[r].at = "sent" /\ request'[r].id = f.id => f.of = r
      BY <1>1, <2>1 DEF Kept, IdInv
    <3> QED
      BY <1>1, <1>2, <1>4, <3>1, <3>2, <3>3
  <2>2. CASE New(f)
    <3>1. f.id \in nextId..(nextId' - 1)
      BY <2>2 DEF New
    <3>2. \A r \in Requests : Kept(r) /\ request[r].id < nextId => request'[r].id # f.id
      BY <1>2, <3>1 DEF Kept
    <3> QED
      BY <1>2, <1>4, <2>2, <3>1, <3>2 DEF New
  <2> QED
    BY <1>7, <2>1, <2>2 DEF AnswerStepped
<1>8. IdInv'
  BY <1>5, <1>7 DEF IdInv
<1> QED
  BY <1>1, <1>3, <1>8 DEF AnswerInv

(* Steps that send nothing.                                                *)
LEMMA Dropping ==
  ASSUME AnswerType, NEW rs, request' = request \/ request' = Failed(rs)
  PROVE  /\ request' \in [Requests -> Asked]
         /\ \A r \in Requests : Kept(r) \/ Over(r)
<1>1. [NewRequest EXCEPT !.at = "failed"] \in Asked
  BY DEF NewRequest, Asked
<1>2. [NewRequest EXCEPT !.at = "failed"].at = "failed"
  BY DEF NewRequest
<1> QED
  BY <1>1, <1>2 DEF AnswerType, Failed, Kept, Over

(* A request that goes on to wait for a session.                           *)
LEMMA Connecting ==
  ASSUME AnswerType, NEW r \in Requests, NEW s \in Requests \cup {0},
         request' = [request EXCEPT ![r] =
                        [@ EXCEPT !.at = "connecting", !.session = s]]
  PROVE  /\ request' \in [Requests -> Asked]
         /\ \A q \in Requests : Kept(q) \/ Over(q)
<1> DEFINE new == [request[r] EXCEPT !.at = "connecting", !.session = s]
<1>1. request[r] \in Asked
  BY DEF AnswerType
<1>2. new \in Asked /\ new.at = "connecting"
  BY <1>1 DEF Asked
<1>3. request' = [request EXCEPT ![r] = new]
  OBVIOUS
<1> HIDE DEF new
<1> QED
  BY <1>2, <1>3 DEF AnswerType, Kept, Over

(* The teardown of a session only fails requests.                          *)
LEMMA TeardownDrops ==
  ASSUME NEW s, NEW sockets, Teardown(s, sockets)
  PROVE  /\ request' = request \/ \E rs : request' = Failed(rs)
         /\ current' = current \/ current' = 0
BY DEF Teardown, TornDown

(* What is under way after frames were sent on one link.                   *)
LEMMA ArrivesFacts ==
  ASSUME AnswerType, NEW l, NEW F \in SUBSET Frames, Arrives(l, F) \/ asked' = asked,
         answered' \in [Links -> SUBSET Frames],
         \A m \in Links : answered'[m] \subseteq answered[m]
  PROVE  /\ asked' \in [Links -> SUBSET Frames]
         /\ \A f \in Under' : f \in Under \/ f \in F
<1>1. asked \in [Links -> SUBSET Frames]
  BY DEF AnswerType
<1>2. /\ asked' \in [Links -> SUBSET Frames]
      /\ \A m \in Links : asked'[m] \subseteq asked[m] \cup F
  BY <1>1 DEF Arrives
<1> QED
  BY <1>2 DEF Under

(* Steps that send nothing, and those that send one frame.                 *)
LEMMA StepsWithout ==
  ASSUME AnswerType, request' \in [Requests -> Asked],
         \A r \in Requests : Kept(r) \/ Over(r),
         current' \in Requests \cup {0}, nextId' \in Nat, nextId <= nextId',
         asked' \in [Links -> SUBSET Frames], answered' \in [Links -> SUBSET Frames],
         \A l \in Links : asked'[l] \cup answered'[l] \subseteq asked[l] \cup answered[l]
  PROVE  AnswerStepped
<1>1. Under' \subseteq Under
  BY DEF Under
<1> QED
  BY <1>1 DEF AnswerStepped, AnswerType

(* Steps that leave the frames under way as they are.                      *)
LEMMA StepsStill ==
  ASSUME AnswerType, request' \in [Requests -> Asked],
         \A r \in Requests : Kept(r) \/ Over(r),
         current' \in Requests \cup {0}, nextId' = nextId \/ nextId' = nextId + 1,
         asked' = asked, answered' = answered
  PROVE  AnswerStepped
<1>1. /\ nextId' \in Nat /\ nextId <= nextId'
      /\ asked \in [Links -> SUBSET Frames] /\ answered \in [Links -> SUBSET Frames]
  BY DEF AnswerType
<1> QED
  BY <1>1, StepsWithout

(* Steps that send a hello, under a new id.                                *)
LEMMA StepsHello ==
  ASSUME AnswerInv, request' \in [Requests -> Asked],
         \A r \in Requests : Kept(r) \/ Over(r),
         current' \in Requests \cup {0}, nextId' = nextId + 1,
         NEW l, Arrives(l, {[id |-> nextId, of |-> Hello]}) \/ asked' = asked,
         answered' = answered
  PROVE  AnswerStepped
<1> DEFINE hello == [id |-> nextId, of |-> Hello]
<1>0. AnswerType /\ IdInv /\ nextId \in Nat
  BY DEF AnswerInv, AnswerType
<1>1. hello \in Frames /\ hello.id = nextId
  BY <1>0 DEF Frames
<1> HIDE DEF hello
<1>2. Arrives(l, {hello}) \/ asked' = asked
  BY DEF hello
<1>6. /\ answered' \in [Links -> SUBSET Frames]
      /\ \A m \in Links : answered'[m] \subseteq answered[m]
  <2>1. answered \in [Links -> SUBSET Frames]
    BY <1>0 DEF AnswerType
  <2> QED
    BY <2>1
<1>3. /\ asked' \in [Links -> SUBSET Frames]
      /\ \A f \in Under' : f \in Under \/ f \in {hello}
  <2> DEFINE F == {hello}
  <2>1. F \in SUBSET Frames
    BY <1>1
  <2>2. Arrives(l, F) \/ asked' = asked
    BY <1>2
  <2> HIDE DEF F
  <2>3. /\ asked' \in [Links -> SUBSET Frames]
        /\ \A f \in Under' : f \in Under \/ f \in F
    BY <1>0, <1>6, <2>1, <2>2, ArrivesFacts
  <2> QED
    BY <2>3 DEF F
<1>4. \A r \in Requests : ~Sent(r)
  BY <1>0, <1>1 DEF Kept, Over, Sent, IdInv
<1>5. New(hello)
  BY <1>0, <1>1, <1>4 DEF New
<1> QED
  BY <1>0, <1>1, <1>3, <1>5, <1>6 DEF AnswerStepped, AnswerType

-----------------------------------------------------------------------------
(* The steps of an agent's request.                                        *)

LEMMA AskSteps ==
  ASSUME AnswerInv, NEW r \in Requests, Ask(r)
  PROVE  AnswerStepped
<1>1. /\ AnswerType /\ IdInv /\ nextId \in Nat
      /\ current \in Requests \cup {0} /\ nextId + 1 \in Nat /\ nextId <= nextId + 1
  BY DEF AnswerInv, AnswerType
<1>2. CASE Refuse(r)
  <2>1. /\ request' = Failed({r}) /\ current' = current /\ nextId' = nextId
        /\ asked' = asked /\ answered' = answered
    BY <1>2 DEF Refuse, wires
  <2> QED
    BY <1>1, <2>1, Dropping, StepsStill
<1>3. ASSUME NEW l \in Links, Greet(r, l)
      PROVE  AnswerStepped
  <2>1. CASE Open(l)
    <3>1. /\ request' = [request EXCEPT ![r] =
                            [@ EXCEPT !.at = "connecting", !.session = r]]
          /\ current' = r /\ nextId' = nextId + 1 /\ answered' = answered
          /\ Arrives(l, {[id |-> nextId, of |-> Hello]})
      BY <1>3, <2>1 DEF Greet
    <3> QED
      BY <1>1, <3>1, Connecting, StepsHello
  <2>2. CASE ~Open(l)
    <3>1. /\ request' = Failed({r}) /\ current' = current /\ nextId' = nextId + 1
          /\ asked' = asked /\ answered' = answered
      BY <1>3, <2>2 DEF Greet
    <3> QED
      BY <1>1, <3>1, Dropping, StepsStill
  <2> QED
    BY <2>1, <2>2
<1>4. CASE Begin(r)
  <2>1. CASE /\ request' = [request EXCEPT ![r] =
                               [@ EXCEPT !.at = "connecting", !.session = r]]
             /\ current' = r
             /\ UNCHANGED <<routed, nextId, socket, wires>>
    <3>1. nextId' = nextId /\ asked' = asked /\ answered' = answered
      BY <2>1 DEF wires
    <3> QED
      BY <1>1, <2>1, <3>1, Connecting, StepsStill
  <2> QED
    BY <1>2, <1>3, <1>4, <2>1 DEF Begin
<1>5. CASE Join(r)
  <2>1. /\ request' = [request EXCEPT ![r] =
                          [@ EXCEPT !.at = "connecting", !.session = current]]
        /\ current' = current /\ nextId' = nextId /\ asked' = asked
        /\ answered' = answered
    BY <1>5 DEF Join, wires
  <2> QED
    BY <1>1, <2>1, Connecting, StepsStill
<1>6. CASE SendOne(r)
  <2> DEFINE l == session[current].link
             frame == [id |-> nextId, of |-> r]
             new == [request[r] EXCEPT !.at = "sent", !.session = current, !.id = nextId]
  <2>1. CASE Open(l)
    <3>1. /\ request' = [request EXCEPT ![r] = new]
          /\ current' = current /\ nextId' = nextId + 1
          /\ Arrives(l, {frame}) /\ answered' = answered
      BY <1>6, <2>1 DEF SendOne
    <3>2. new \in Asked /\ new.at = "sent" /\ new.id = nextId
      <4>1. request[r] \in Asked
        BY <1>1 DEF AnswerType
      <4> QED
        BY <1>1, <4>1 DEF Asked
    <3>3. frame \in Frames /\ frame.id = nextId /\ frame.of = r
      BY <1>1 DEF Frames
    <3> HIDE DEF l, frame, new
    <3>4. /\ request' \in [Requests -> Asked] /\ request'[r] = new
          /\ \A q \in Requests : q # r => Kept(q)
      BY <1>1, <3>1, <3>2 DEF AnswerType, Kept
    <3>5. Sent(r) /\ \A q \in Requests : q # r => ~Sent(q)
      BY <1>1, <3>1, <3>2, <3>4 DEF Sent, Kept, IdInv
    <3>6. New(frame)
      BY <1>1, <3>1, <3>3, <3>5 DEF New
    <3>8. /\ answered' \in [Links -> SUBSET Frames]
          /\ \A m \in Links : answered'[m] \subseteq answered[m]
      BY <1>1, <3>1 DEF AnswerType
    <3>7. /\ asked' \in [Links -> SUBSET Frames]
          /\ \A f \in Under' : f \in Under \/ f = frame
      BY <1>1, <3>1, <3>3, <3>8, ArrivesFacts
    <3> QED
      BY <1>1, <3>1, <3>4, <3>5, <3>6, <3>7, <3>8 DEF AnswerStepped, AnswerType
  <2>2. CASE ~Open(l)
    <3>1. /\ \E rs : request' = Failed(rs)
          /\ current' = 0 /\ nextId' = nextId + 1
          /\ asked' = asked /\ answered' = answered
      BY <1>6, <2>2 DEF SendOne
    <3> QED
      BY <1>1, <3>1, Dropping, StepsStill
  <2> QED
    BY <2>1, <2>2
<1> QED
  BY <1>2, <1>4, <1>5, <1>6 DEF Ask

-----------------------------------------------------------------------------
(* The daemon's answers.                                                   *)

(* The ids of those who waited for a session are new, and differ.          *)
LEMMA Numbering ==
  ASSUME nextId \in Nat, NEW waiting \in SUBSET Requests
  PROVE  /\ Cardinality(waiting) \in Nat
         /\ \A r \in waiting :
               nextId + Cardinality({q \in waiting : q < r})
                  \in nextId..(nextId + Cardinality(waiting) - 1)
         /\ \A r, p \in waiting :
               nextId + Cardinality({q \in waiting : q < r})
                  = nextId + Cardinality({q \in waiting : q < p}) => r = p
<1> DEFINE before(r) == {q \in waiting : q < r}
           count(r) == Cardinality(before(r))
<1>1. IsFiniteSet(waiting)
  <2>1. 1 \in Int /\ MaxRequests \in Int
    BY BoundsAssumption
  <2>2. IsFiniteSet(1..MaxRequests)
    BY <2>1, FS_Interval
  <2> QED
    BY <2>2, FS_Subset DEF Requests
<1>2. waiting \subseteq Nat
  BY BoundsAssumption DEF Requests
<1>3. ASSUME NEW T \in SUBSET waiting, NEW U \in SUBSET T, T # U
      PROVE  /\ Cardinality(U) \in Nat /\ Cardinality(T) \in Nat
             /\ Cardinality(U) < Cardinality(T)
  <2>1. IsFiniteSet(T)
    BY <1>1, FS_Subset
  <2>2. IsFiniteSet(U) /\ Cardinality(U) <= Cardinality(T) /\ Cardinality(U) # Cardinality(T)
    BY <1>3, <2>1, FS_Subset
  <2> QED
    BY <2>1, <2>2, FS_CardinalityType
<1>4. Cardinality(waiting) \in Nat
  BY <1>1, FS_CardinalityType
<1>5. ASSUME NEW r \in waiting
      PROVE  count(r) \in Nat /\ count(r) < Cardinality(waiting)
  <2>1. before(r) \in SUBSET waiting /\ r \notin before(r)
    BY <1>2
  <2> HIDE DEF before
  <2> QED
    BY <1>3, <2>1
<1>6. ASSUME NEW r \in waiting, NEW p \in waiting, r < p
      PROVE  count(r) < count(p)
  <2>1. \A x \in before(r) : x \in before(p)
    BY <1>2, <1>6
  <2>2. r \in before(p) /\ r \notin before(r)
    BY <1>2, <1>6
  <2>3. before(p) \in SUBSET waiting
    OBVIOUS
  <2> HIDE DEF before
  <2> QED
    BY <1>3, <2>1, <2>2, <2>3
<1>7. ASSUME NEW r \in waiting, NEW p \in waiting, r # p
      PROVE  count(r) # count(p)
  <2>1. r < p \/ p < r
    BY <1>2, <1>7
  <2>2. count(r) \in Nat /\ count(p) \in Nat
    BY <1>5
  <2> HIDE DEF count
  <2> QED
    BY <1>6, <2>1, <2>2
<1> HIDE DEF count
<1>8. \A r \in waiting : nextId + count(r) \in nextId..(nextId + Cardinality(waiting) - 1)
  BY <1>4, <1>5
<1>9. \A r, p \in waiting : nextId + count(r) = nextId + count(p) => r = p
  BY <1>5, <1>7
<1> QED
  BY <1>4, <1>8, <1>9 DEF count

(* The daemon's hello sends whoever waited, each under an id of its own.   *)
LEMMA GreetedSteps ==
  ASSUME AnswerInv, NEW s, Greeted(s), NEW l, NEW f,
         answered' = [answered EXCEPT ![l] = @ \ {f}]
  PROVE  AnswerStepped
<1> DEFINE k == session[s].link
           waiting == Of(s, {"connecting"})
           id == [r \in waiting |-> nextId + Cardinality({q \in waiting : q < r})]
           frames == {[id |-> id[r], of |-> r] : r \in waiting}
<1>1. /\ AnswerType /\ IdInv /\ nextId \in Nat /\ current \in Requests \cup {0}
      /\ waiting \in SUBSET Requests
  <2>1. waiting \in SUBSET Requests
    BY DEF Of
  <2> HIDE DEF waiting
  <2> QED
    BY <2>1 DEF AnswerInv, AnswerType
<1>2. /\ Cardinality(waiting) \in Nat
      /\ \A r \in waiting : id[r] \in nextId..(nextId + Cardinality(waiting) - 1)
      /\ \A r, p \in waiting : id[r] = id[p] => r = p
  <2> DEFINE number(r) == nextId + Cardinality({q \in waiting : q < r})
  <2>1. \A r \in waiting : id[r] = number(r)
    OBVIOUS
  <2> HIDE DEF waiting, id
  <2>2. /\ Cardinality(waiting) \in Nat
        /\ \A r \in waiting : number(r) \in nextId..(nextId + Cardinality(waiting) - 1)
        /\ \A r, p \in waiting : number(r) = number(p) => r = p
    BY <1>1, Numbering
  <2> HIDE DEF number
  <2> QED
    BY <2>1, <2>2
<1>3. nextId' = nextId + Cardinality(waiting)
  BY DEF Greeted
<1>6. /\ answered' \in [Links -> SUBSET Frames]
      /\ \A m \in Links : answered'[m] \subseteq answered[m]
  <2> HIDE DEF waiting, id, frames
  <2>1. answered \in [Links -> SUBSET Frames]
    BY <1>1 DEF AnswerType
  <2>2. answered' = [answered EXCEPT ![l] = @ \ {f}]
    OBVIOUS
  <2> QED
    BY <2>1, <2>2
<1>7. nextId' \in Nat /\ nextId <= nextId'
  <2> HIDE DEF waiting
  <2> QED
    BY <1>1, <1>2, <1>3
<1>4. CASE /\ request' = [r \in Requests |->
                 IF r \in waiting
                 THEN [request[r] EXCEPT !.at = "sent", !.id = id[r]]
                 ELSE request[r]]
           /\ Arrives(k, frames) /\ current' = current
  <2>0. ASSUME NEW r \in waiting
        PROVE  [id |-> id[r], of |-> r] \in Frames
    <3>1. id[r] \in Nat /\ r \in Requests
      BY <1>1, <1>2
    <3> HIDE DEF id
    <3> QED
      BY <3>1 DEF Frames
  <2>1. ASSUME NEW r \in waiting
        PROVE  /\ [request[r] EXCEPT !.at = "sent", !.id = id[r]] \in Asked
               /\ [request[r] EXCEPT !.at = "sent", !.id = id[r]].at = "sent"
               /\ [request[r] EXCEPT !.at = "sent", !.id = id[r]].id = id[r]
    <3>1. request[r] \in Asked /\ id[r] \in Nat
      BY <1>1, <1>2 DEF AnswerType
    <3> HIDE DEF id
    <3> QED
      BY <3>1 DEF Asked
  <2> HIDE DEF k, id, waiting
  <2>2. frames \in SUBSET Frames
    BY <2>0
  <2>3. /\ request' \in [Requests -> Asked]
        /\ \A r \in waiting : request'[r].at = "sent" /\ request'[r].id = id[r]
        /\ \A r \in Requests \ waiting : Kept(r)
    BY <1>1, <1>4, <2>1 DEF AnswerType, Kept
  <2>4. /\ \A r \in waiting : Sent(r)
        /\ \A r \in Requests : Sent(r) => r \in waiting
    BY <1>1, <1>2, <1>3, <2>3 DEF Sent, Kept, IdInv
  <2>5. ASSUME NEW g \in frames
        PROVE  New(g)
    <3>1. PICK p \in waiting : g = [id |-> id[p], of |-> p]
      OBVIOUS
    <3>2. g.id = id[p] /\ g.of = p
      BY <3>1
    <3>3. g.id \in nextId..(nextId' - 1)
      <4>1. id[p] \in nextId..(nextId + Cardinality(waiting) - 1)
        BY <1>2
      <4> QED
        BY <1>1, <1>2, <1>3, <3>2, <4>1
    <3>4. \A r \in Requests : Sent(r) /\ request'[r].id = g.id => g.of = r
      BY <1>2, <2>3, <2>4, <3>2
    <3> QED
      BY <3>3, <3>4 DEF New
  <2>6. Arrives(k, frames)
    BY <1>4
  <2> HIDE DEF frames
  <2>7. /\ asked' \in [Links -> SUBSET Frames]
        /\ \A g \in Under' : g \in Under \/ g \in frames
    BY <1>1, <1>6, <2>2, <2>6, ArrivesFacts
  <2> QED
    BY <1>1, <1>4, <1>6, <1>7, <2>3, <2>4, <2>5, <2>7 DEF AnswerStepped,
       AnswerType
<1>5. CASE /\ request' = Failed(waiting) /\ asked' = asked
           /\ current' = IF current = s THEN 0 ELSE current
  <2> HIDE DEF k, id, waiting
  <2>1. /\ current' \in Requests \cup {0}
        /\ asked' \in [Links -> SUBSET Frames]
        /\ \A m \in Links : asked'[m] \cup answered'[m] \subseteq asked[m] \cup answered[m]
    BY <1>1, <1>5, <1>6 DEF AnswerType
  <2> QED
    BY <1>1, <1>5, <1>6, <1>7, <2>1, Dropping, StepsWithout
<1> QED
  BY <1>4, <1>5 DEF Greeted

(* An answer settles the request of its id.                                *)
LEMMA DeliverSteps ==
  ASSUME AnswerInv, NEW l \in Links, NEW f \in answered[l], Deliver(l, f)
  PROVE  AnswerStepped
<1>1. /\ AnswerType /\ IdInv /\ nextId \in Nat /\ current \in Requests \cup {0}
      /\ f \in Under /\ f \in Frames
      /\ answered' = [answered EXCEPT ![l] = @ \ {f}]
  BY DEF AnswerInv, AnswerType, Deliver, Under
<1>2. ASSUME request' \in [Requests -> Asked], \A r \in Requests : Kept(r) \/ Over(r),
             UNCHANGED <<session, current, nextId, asked>>
      PROVE  AnswerStepped
  <2>1. /\ nextId' \in Nat /\ nextId <= nextId'
        /\ current' \in Requests \cup {0}
        /\ asked' \in [Links -> SUBSET Frames] /\ answered' \in [Links -> SUBSET Frames]
        /\ \A m \in Links : asked'[m] \cup answered'[m] \subseteq asked[m] \cup answered[m]
    BY <1>1, <1>2 DEF AnswerType
  <2> QED
    BY <1>1, <1>2, <2>1, StepsWithout
<1>3. CASE Greeted(routed)
  BY <1>1, <1>3, GreetedSteps
<1>4. CASE /\ request' = [r \in Requests |->
                 IF r \in Settled(routed, f)
                 THEN [NewRequest EXCEPT !.at = "settled", !.by = f.of]
                 ELSE request[r]]
           /\ UNCHANGED <<session, current, nextId, asked>>
  <2> DEFINE done == [NewRequest EXCEPT !.at = "settled", !.by = f.of]
  <2>1. done \in Asked /\ done.at = "settled" /\ done.by = f.of
    BY <1>1 DEF Asked, Frames, NewRequest, Hello
  <2>2. \A r \in Settled(routed, f) : f.of = r
    BY <1>1 DEF Settled, Of, IdInv
  <2> HIDE DEF done
  <2>3. request' = [r \in Requests |-> IF r \in Settled(routed, f) THEN done
                                       ELSE request[r]]
    BY <1>4 DEF done
  <2>4. request' \in [Requests -> Asked] /\ \A r \in Requests : Kept(r) \/ Over(r)
    BY <1>1, <2>1, <2>2, <2>3 DEF AnswerType, Kept, Over
  <2> QED
    BY <1>2, <1>4, <2>4
<1>5. CASE UNCHANGED <<request, session, current, nextId, asked>>
  BY <1>1, <1>2, <1>5, Dropping
<1> QED
  BY <1>3, <1>4, <1>5 DEF Deliver

(* The daemon takes a frame and answers it.                                *)
LEMMA DaemonSteps ==
  ASSUME AnswerInv, NEW l \in Links, NEW f \in asked[l], DaemonAnswers(l, f)
  PROVE  AnswerStepped
<1>1. AnswerType /\ f \in Frames
  BY DEF AnswerInv, AnswerType
<1>2. /\ request' = request /\ current' = current /\ nextId' = nextId
      /\ asked' = [asked EXCEPT ![l] = @ \ {f}]
      /\ answered' = [answered EXCEPT ![l] = @ \cup {f}]
  BY DEF DaemonAnswers, connection
<1>3. /\ asked' \in [Links -> SUBSET Frames] /\ answered' \in [Links -> SUBSET Frames]
      /\ \A m \in Links : asked'[m] \cup answered'[m] \subseteq asked[m] \cup answered[m]
  BY <1>1, <1>2 DEF AnswerType
<1>4. nextId' \in Nat /\ nextId <= nextId' /\ current' \in Requests \cup {0}
  BY <1>1, <1>2 DEF AnswerType
<1> QED
  BY <1>1, <1>2, <1>3, <1>4, Dropping, StepsWithout

-----------------------------------------------------------------------------
(* The other steps.                                                        *)

(* The steps that tear a session down, and those of a timer or a platform  *)
(* that fail what waits for it.                                            *)
LEMMA EndingSteps ==
  ASSUME AnswerInv,
         \/ \E s \in Requests : Heartbeat(s) \/ StartTimeout(s)
         \/ \E l \in Links : SocketClosed(l)
         \/ Stop \/ Delete \/ Changed \/ Revoked \/ Deleted \/ Evict
  PROVE  AnswerStepped
<1>1. AnswerType
  BY DEF AnswerInv
<1>2. ASSUME request' = request \/ \E rs : request' = Failed(rs),
             current' = current \/ current' = 0,
             UNCHANGED <<nextId, asked, answered>>
      PROVE  AnswerStepped
  <2>1. current' \in Requests \cup {0}
    BY <1>1, <1>2 DEF AnswerType
  <2> QED
    BY <1>1, <1>2, <2>1, Dropping, StepsStill
<1>3. ASSUME NEW s, NEW sockets, Teardown(s, sockets), UNCHANGED <<nextId, wires>>
      PROVE  AnswerStepped
  BY <1>2, <1>3, TeardownDrops DEF wires
<1>4. ASSUME NEW s \in Requests, Heartbeat(s)
      PROVE  AnswerStepped
  BY <1>3, <1>4 DEF Heartbeat
<1>5. ASSUME NEW s \in Requests, StartTimeout(s)
      PROVE  AnswerStepped
  BY <1>2, <1>5 DEF StartTimeout, wires
<1>6. ASSUME NEW l \in Links, SocketClosed(l)
      PROVE  AnswerStepped
  <2>1. /\ UNCHANGED <<nextId, wires>>
        /\ \/ \E sockets : Teardown(routed, sockets)
           \/ UNCHANGED <<request, session, current>>
    BY <1>6 DEF SocketClosed
  <2> QED
    BY <1>2, <1>3, <2>1 DEF wires
<1>7. CASE Stop \/ Delete \/ Revoked \/ Deleted
  BY <1>3, <1>7 DEF Stop, Delete, Revoked, Deleted
<1>8. CASE Changed
  BY <1>2, <1>3, <1>8 DEF Changed, wires
<1>9. CASE Evict
  BY <1>2, <1>9 DEF Evict, wires
<1> QED
  BY <1>4, <1>5, <1>6, <1>7, <1>8, <1>9

(* The steps of a link that leave the requests alone.                      *)
LEMMA LinkSteps ==
  ASSUME AnswerInv,
         \/ \E l \in Links : \/ Dial(l) \/ AttachRequest(l) \/ Authenticate(l)
                             \/ Reject(l) \/ RunnerEnds(l) \/ Break(l)
                             \/ Hang(l)
         \/ Start \/ Revoke \/ UNCHANGED vars
  PROVE  AnswerStepped
<1>1. AnswerType
  BY DEF AnswerInv
<1>2. ASSUME UNCHANGED connection,
             asked' \in [Links -> SUBSET Frames], answered' \in [Links -> SUBSET Frames],
             \A l \in Links : asked'[l] \subseteq asked[l] /\ answered'[l] \subseteq answered[l]
      PROVE  AnswerStepped
  <2>1. /\ request' = request /\ current' \in Requests \cup {0}
        /\ nextId' \in Nat /\ nextId <= nextId'
    BY <1>1, <1>2 DEF AnswerType, connection
  <2>2. \A l \in Links : asked'[l] \cup answered'[l] \subseteq asked[l] \cup answered[l]
    BY <1>2
  <2> QED
    BY <1>1, <1>2, <2>1, <2>2, Dropping, StepsWithout
<1>3. ASSUME NEW l \in Links, Dial(l)
      PROVE  AnswerStepped
  <2>1. /\ UNCHANGED connection
        /\ asked' = [asked EXCEPT ![l] = {}] /\ answered' = [answered EXCEPT ![l] = {}]
    BY <1>3 DEF Dial
  <2> QED
    BY <1>1, <1>2, <2>1 DEF AnswerType
<1>4. ASSUME NEW l \in Links, RunnerEnds(l) \/ Hang(l)
      PROVE  AnswerStepped
  <2>1. /\ UNCHANGED connection
        /\ asked' = [asked EXCEPT ![l] = {}] /\ answered' = answered
    BY <1>4 DEF RunnerEnds, Hang
  <2> QED
    BY <1>1, <1>2, <2>1 DEF AnswerType
<1>5. ASSUME UNCHANGED connection, UNCHANGED <<asked, answered>>
      PROVE  AnswerStepped
  BY <1>1, <1>2, <1>5 DEF AnswerType
<1>6. CASE \/ \E l \in Links : \/ AttachRequest(l) \/ Authenticate(l)
                               \/ Reject(l) \/ Break(l)
           \/ Start \/ Revoke \/ UNCHANGED vars
  BY <1>5, <1>6 DEF AttachRequest, Authenticate, Turn, Reject, Break, Start,
     Revoke,
                    wires, vars
<1> QED
  BY <1>3, <1>4, <1>6

(* A new link is given to the session that waited longest, or fails those  *)
(* that wait.                                                              *)
LEMMA AttachSteps ==
  ASSUME AnswerInv, NEW l \in Links, Attach(l)
  PROVE  AnswerStepped
<1>1. /\ AnswerType /\ nextId \in Nat /\ current \in Requests \cup {0}
      /\ asked \in [Links -> SUBSET Frames] /\ answered \in [Links -> SUBSET Frames]
      /\ answered' = answered
  BY DEF AnswerInv, AnswerType, Attach
<1>2. CASE UNCHANGED <<request, session, current, routed, nextId, asked>>
  BY <1>1, <1>2, Dropping, StepsStill
<1>3. ASSUME NEW relays \in BOOLEAN, UNCHANGED <<request, current>>, nextId' = nextId + 1,
             asked' = [asked EXCEPT ![l] = IF relays
                         THEN @ \cup {[id |-> nextId, of |-> Hello]} ELSE @]
      PROVE  AnswerStepped
  <2> DEFINE hello == [id |-> nextId, of |-> Hello]
  <2>1. hello \in Frames /\ hello.id = nextId
    BY <1>1 DEF Frames
  <2> HIDE DEF hello
  <2>2. asked' = [asked EXCEPT ![l] = IF relays THEN @ \cup {hello} ELSE @]
    BY <1>3 DEF hello
  <2>3. asked' \in [Links -> SUBSET Frames]
    BY <1>1, <2>1, <2>2
  <2>4. \A k \in Links : \A f \in asked'[k] : f \in asked[k] \/ f = hello
    BY <1>1, <2>2
  <2>5. \A f \in Under' : f \in Under \/ f = hello
    BY <1>1, <2>4 DEF Under
  <2>6. /\ AnswerType' /\ \A r \in Requests : Kept(r)
    BY <1>1, <1>3, <2>3 DEF AnswerType, Kept
  <2>7. \A r \in Requests : ~Sent(r)
    BY <1>1, <2>6 DEF AnswerInv, IdInv, Kept, Sent
  <2>8. New(hello) /\ nextId <= nextId'
    BY <1>1, <1>3, <2>1, <2>7 DEF New
  <2> QED
    BY <2>5, <2>6, <2>8 DEF AnswerStepped
<1>4. ASSUME NEW rs, request' = Failed(rs), current' \in {0, current}, asked' = asked,
             nextId' = nextId + Cardinality({s \in Waiters : session[s].live})
      PROVE  AnswerStepped
  <2>1. {s \in Waiters : session[s].live} \in SUBSET Requests
    BY DEF Waiters
  <2>2. Cardinality({s \in Waiters : session[s].live}) \in Nat
    BY <1>1, <2>1, Numbering
  <2>3. /\ nextId' \in Nat /\ nextId <= nextId' /\ current' \in Requests \cup {0}
        /\ \A k \in Links : asked'[k] \cup answered'[k] \subseteq asked[k] \cup answered[k]
    BY <1>1, <1>4, <2>2
  <2> QED
    BY <1>1, <1>4, <2>3, Dropping, StepsWithout
<1>5. CASE Serve(l)
  <2>1. CASE \A s \in Waiters : session[s].live
    <3>1. /\ UNCHANGED <<request, current>> /\ nextId' = nextId + 1
          /\ asked' = [asked EXCEPT ![l] = IF Replaced(l)[l].runner = "relaying"
                         THEN @ \cup {[id |-> nextId, of |-> Hello]} ELSE @]
      BY <1>5, <2>1 DEF Serve
    <3>2. (Replaced(l)[l].runner = "relaying") \in BOOLEAN
      OBVIOUS
    <3> QED
      BY <1>3, <3>1, <3>2
  <2>2. CASE ~(\A s \in Waiters : session[s].live)
    <3>1. /\ \E rs : request' = Failed(rs)
          /\ current' \in {0, current} /\ asked' = asked
          /\ nextId' = nextId + Cardinality({s \in Waiters : session[s].live})
      BY <1>5, <2>2 DEF Serve
    <3> QED
      BY <1>4, <3>1
  <2> QED
    BY <2>1, <2>2
<1> QED
  BY <1>2, <1>5 DEF Attach

(* Every step gives only new ids, and settles only by the right answer.    *)
LEMMA AnswerInductive ==
  ASSUME AnswerInv, NextCases
  PROVE  AnswerInv'
<1>1. AnswerStepped
  BY AskSteps, DeliverSteps, DaemonSteps, EndingSteps, LinkSteps, AttachSteps
     DEF NextCases
<1> QED
  BY <1>1, SteppedKeeps

(* A request is settled only by the daemon's answer to it, however late an *)
(* answer of another session or of the object before its eviction comes.   *)
THEOREM OwnAnswers == Spec => []AnswersMatch
<1>1. Init => AnswerInv
  BY DEF Init, AnswerInv, AnswerType, AnswersMatch, IdInv, Asked, NewRequest,
     Frames, Under
<1>2. AnswerInv /\ [Next]_vars => AnswerInv'
  BY Cases, AnswerInductive
<1>3. AnswerInv => AnswersMatch
  BY DEF AnswerInv
<1> QED
  BY <1>1, <1>2, <1>3, PTL DEF Spec

=============================================================================
