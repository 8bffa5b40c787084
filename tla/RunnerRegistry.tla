--------------------------- MODULE RunnerRegistry ---------------------------
(***************************************************************************)
(* The gateway's registry of runner connections                            *)
(* (packages/gateway/app/cells/runners/runner-registry.ts), seen from one  *)
(* runner: the connections it dials, the fibers that serve them, its       *)
(* revocation, the calls Sessions make of it, and the notices that tell a  *)
(* Session how its environment stands                                      *)
(* (packages/environments/src/runner/provider.ts).                         *)
(*                                                                         *)
(* A connection's socket may break at any moment; the runner and the       *)
(* gateway notice separately, and what the runner had sent may or may not  *)
(* still be read.  A fiber tells Sessions one notice at a time.            *)
(***************************************************************************)
EXTENDS Naturals, Sequences, FiniteSets

CONSTANTS
    Kinds,          \* of connections the runner dials: "control", "bulk"
    Sessions,       \* sessions placed on the runner
    Connections,    \* identities of connections, reused once forgotten
    None,
    Revoker,        \* the request that revokes the runner
    MaxEvents,      \* events of a connection not yet read
    Timeouts,       \* whether a Session may be too slow for a notice
    MaxLate,        \* notices given up on and under way at once
    MaxRestarts     \* restarts of the registry in a behaviour

ASSUME NoneAssumption == None \notin Connections /\ Revoker \notin Connections
ASSUME KindsAssumption ==
    "control" \in Kinds /\ Kinds \subseteq {"control", "bulk"}
ASSUME EventsAssumption == MaxEvents \in Nat \ {0}
ASSUME TimeoutsAssumption == Timeouts \in BOOLEAN
ASSUME LateAssumption == MaxLate \in Nat
ASSUME RestartsAssumption == MaxRestarts \in Nat

VARIABLES
    env,        \* the runner's environments
    dialed,     \* the runner's connection of each kind
    slot,       \* the registry's: `control` and `bulk` of its RunnerSlot
    hosted,     \* `sessions` of the slot's control connection
    conn,       \* each connection, and the fiber that serves it
    revoke,     \* how far the runner's revocation is
    sending,    \* per connection's fiber, and the revoker: notices to send
    late,       \* notices given up on, which may still arrive
    call,       \* per session: its call of the runner
    view,       \* per session: its record's environment
    link,       \* sessions whose Environment Link is attached
    restarts,
    mishap      \* what may have left a view stale (history)

vars == <<env, dialed, slot, hosted, conn, revoke, sending, late, call, view,
          link, restarts, mishap>>
runner == <<env, dialed>>
gateway == <<slot, hosted, revoke, late, restarts>>
session == <<call, view, link, mishap>>

States == {"stopped", "running"}    \* of an environment; others are alike
Environment == States \cup {"none"}
Snapshot == [type : {"snapshot"}, env : [Sessions -> Environment]]
Change == [type : {"changed"}, session : Sessions, state : States]
Notice ==
    [session : Sessions, type : {"changed"}, state : States]
        \cup [session : Sessions, type : {"unreachable", "revoked"},
              state : {"none"}]
Connection ==
    [pc : {"gone", "identify", "waiting", "confirm", "serving", "ending",
           "losing"},
     kind : Kinds,
     up : BOOLEAN,                       \* the socket, as long as it works
     events : Seq(Snapshot \cup Change)]
Call == [pc : {"idle", "sent", "done", "accepted"},
         op : {"create", "control", "delete"},
         on : Connections \cup {None},
         state : Environment]

TypeOK ==
    /\ env \in [Sessions -> Environment]
    /\ dialed \in [Kinds -> Connections \cup {None}]
    /\ slot \in [Kinds -> Connections \cup {None}]
    /\ conn \in [Connections -> Connection]
    /\ hosted \in SUBSET Sessions
    /\ \A c \in Connections : Len(conn[c].events) <= MaxEvents
    /\ revoke \in {"no", "revoked", "closing", "done", "closed"}
    /\ sending \in [Connections \cup {Revoker} -> SUBSET Notice]
    /\ late \subseteq Notice /\ Cardinality(late) <= MaxLate
    /\ call \in [Sessions -> Call]
    /\ view \in [Sessions -> [state : Environment \cup {"deleted"},
                              reachable : BOOLEAN]]
    /\ link \subseteq Sessions
    /\ restarts \in 0..MaxRestarts
    /\ mishap \in {"none", "some"}

Fresh(k) == [pc |-> "gone", kind |-> k, up |-> FALSE, events |-> <<>>]
NoCall == [pc |-> "idle", op |-> "create", on |-> None, state |-> "none"]
(* A call that ends without an answer; a deletion will be asked for again. *)
Unanswered(s) ==
    IF call[s].op = "delete" THEN [NoCall EXCEPT !.op = "delete"] ELSE NoCall

Init ==
    /\ env = [s \in Sessions |-> "none"]
    /\ dialed = [k \in Kinds |-> None]
    /\ slot = [k \in Kinds |-> None]
    /\ hosted = {}
    /\ conn = [c \in Connections |-> Fresh("control")]
    /\ revoke = "no"
    /\ sending = [x \in Connections \cup {Revoker} |-> {}]
    /\ late = {}
    /\ call = [s \in Sessions |-> NoCall]
    /\ view = [s \in Sessions |-> [state |-> "none", reachable |-> FALSE]]
    /\ link = {}
    /\ restarts = 0
    /\ mishap = "none"
-----------------------------------------------------------------------------
(* Helpers *)

Revoked == revoke # "no"
At(c, pc) == conn[c].pc = pc
Changed(s, state) == [session |-> s, type |-> "changed", state |-> state]
Unreachable(s) == [session |-> s, type |-> "unreachable", state |-> "none"]
RevokedNotice(s) == [session |-> s, type |-> "revoked", state |-> "none"]

(* runner-watch.ts: once a connection has its snapshot it gets every change. *)
Watched(c) ==
    /\ c # None /\ conn[c].up
    /\ conn[c].pc \in {"confirm", "serving"} \/ conn[c].events # <<>>

Emits(s, state) ==
    LET c == dialed["control"] IN
    IF Watched(c)
      THEN /\ Len(conn[c].events) < MaxEvents
           /\ conn' = [conn EXCEPT ![c].events =
                Append(@, [type |-> "changed", session |-> s, state |-> state])]
      ELSE UNCHANGED conn

(* A connection overlapped another, a notice was late or overtook a reply. *)
Mishap(happens) == mishap' = IF happens THEN "some" ELSE mishap

(* Scope.close: the connection's socket is closed; its fiber finds out.    *)
Closing(cs, connections) ==
    [c \in Connections |-> IF c \in cs THEN [connections[c] EXCEPT !.up = FALSE]
                                       ELSE connections[c]]

(* The fiber goes on to `pc`: its socket is closed, what was not read lost. *)
Ended(c, pc) ==
    conn' = [conn EXCEPT ![c] = [Fresh(@.kind) EXCEPT !.pc = pc]]

(* A connection nobody refers to, whose identity a new one may take.       *)
Forgotten(c) ==
    /\ At(c, "gone")
    /\ \A k \in Kinds : slot[k] # c
    /\ \A s \in Sessions : call[s].on # c
-----------------------------------------------------------------------------
(* The runner *)

(* It keeps one connection of each kind, and dials again when that breaks. *)
Dial(c, k) ==
    /\ Forgotten(c)
    /\ \A d \in Connections : dialed[k] = d => ~conn[d].up
    /\ \A j \in Kinds : dialed[j] = c => j = k
    /\ dialed' = [dialed EXCEPT ![k] = c]
    /\ conn' = [conn EXCEPT ![c] = [Fresh(k) EXCEPT !.pc = "identify", !.up = TRUE]]
    /\ UNCHANGED <<env, gateway, sending, session>>

(* The snapshot is read once the runner subscribed to its changes.         *)
SendSnapshot(c) ==
    /\ At(c, "waiting") /\ conn[c].kind = "control"
    /\ conn[c].up /\ conn[c].events = <<>>
    /\ conn' = [conn EXCEPT ![c].events = <<[type |-> "snapshot", env |-> env]>>]
    /\ UNCHANGED <<runner, gateway, sending, session>>

(* What a control call began goes on by itself, and may fail.              *)
EnvironmentChanges(s, state) ==
    /\ env[s] \in States /\ env[s] # state
    /\ view[s].state # "none"
    /\ env' = [env EXCEPT ![s] = state]
    /\ Emits(s, state)
    /\ UNCHANGED <<dialed, gateway, sending, session>>

Break(c) ==
    /\ conn[c].up
    /\ conn' = [conn EXCEPT ![c].up = FALSE]
    /\ UNCHANGED <<runner, gateway, sending, session>>
-----------------------------------------------------------------------------
(* accept and acceptBulk: the fiber of a connection *)

(* The candidate is registered, and the connection it replaces closed.     *)
Registered(c) == slot' = [slot EXCEPT ![conn[c].kind] = c]
Replaced(c) == {slot[conn[c].kind]} \ {c}

(* The runner's token was good when the Workspace looked.                  *)
Authenticate(c) ==
    /\ At(c, "identify") /\ ~Revoked
    /\ conn' = [conn EXCEPT ![c].pc = "waiting"]
    /\ UNCHANGED <<runner, gateway, sending, session>>

(* Identification times out or is refused, or no snapshot comes.           *)
Refuse(c) ==
    /\ \/ At(c, "identify")
       \/ At(c, "waiting") /\ ~conn[c].up
    /\ Ended(c, "gone")
    /\ UNCHANGED <<runner, gateway, sending, session>>

Snapshots(c) == Head(conn[c].events).env

(* Plausible defect: the sessions of the snapshot are not kept.            *)
Hosted_Later(c) == {}
Hosted(c) == {s \in Sessions : Snapshots(c)[s] # "none"}

(* admit; the notices of its snapshot wait for the confirmation.           *)
Admit(c) ==
    /\ At(c, "waiting") /\ conn[c].events # <<>>
    /\ Registered(c)
    /\ hosted' = Hosted(c)
    /\ conn' = Closing(Replaced(c),
                  [conn EXCEPT ![c] = [@ EXCEPT !.pc = "confirm",
                                   !.events = Tail(conn[c].events)]])
    /\ sending' = [sending EXCEPT ![c] =
            {Changed(s, Snapshots(c)[s]) :
                s \in {t \in Sessions : Snapshots(c)[t] # "none"}}]
    /\ Mishap(dialed["control"] # c)
    /\ UNCHANGED <<runner, revoke, late, restarts, call, view, link>>

(* Plausible defect: a bulk connection is registered as the whole slot.    *)
AdmitBulk_Alone(c) ==
    /\ At(c, "waiting") /\ conn[c].kind = "bulk"
    /\ slot' = [k \in Kinds |-> IF k = "bulk" THEN c ELSE None]
    /\ hosted' = {}
    /\ conn' = Closing(Replaced(c), [conn EXCEPT ![c].pc = "confirm"])
    /\ UNCHANGED <<runner, revoke, late, restarts, sending, session>>

(* A bulk connection, whose watch tells nothing, is registered at once.    *)
AdmitBulk(c) ==
    /\ At(c, "waiting") /\ conn[c].kind = "bulk"
    /\ Registered(c)
    /\ conn' = Closing(Replaced(c), [conn EXCEPT ![c].pc = "confirm"])
    /\ UNCHANGED <<runner, hosted, revoke, late, restarts, sending, session>>

Confirm_Trusted(c) ==   \* plausible defect: the first authentication is enough
    /\ At(c, "confirm")
    /\ conn' = [conn EXCEPT ![c].pc = "serving"]
    /\ UNCHANGED <<runner, gateway, sending, session>>

(* The second authentication, for a revocation that raced the first.       *)
Confirm(c) ==
    /\ At(c, "confirm") /\ ~Revoked
    /\ conn' = [conn EXCEPT ![c].pc = "serving"]
    /\ UNCHANGED <<runner, gateway, sending, session>>

(* It is refused, or the Workspace cannot be asked; in the second case a   *)
(* bulk connection's fiber ends without a cleanup.                         *)
ConfirmFails(c) ==
    /\ At(c, "confirm")
    /\ \/ Revoked /\ Ended(c, "ending")
       \/ Ended(c, IF conn[c].kind = "control" THEN "ending" ELSE "losing")
    /\ sending' = [sending EXCEPT ![c] = {}]
    /\ UNCHANGED <<runner, gateway, session>>

(* Plausible defect: a change is told only when it adds a session.         *)
ApplyEvent_Once(c) ==
    /\ At(c, "serving") /\ sending[c] = {} /\ conn[c].events # <<>>
    /\ LET event == Head(conn[c].events) IN
       /\ conn' = [conn EXCEPT ![c].events = Tail(@)]
       /\ hosted' = hosted \cup {event.session}
       /\ sending' = [sending EXCEPT ![c] =
             IF event.session \in hosted THEN {}
             ELSE {Changed(event.session, event.state)}]
    /\ UNCHANGED <<runner, slot, revoke, late, restarts, session>>

(* applyEvent: updateConnection if the connection is still the current one, *)
(* then the session is told.                                                *)
ApplyEvent(c) ==
    /\ At(c, "serving") /\ sending[c] = {} /\ conn[c].events # <<>>
    /\ LET event == Head(conn[c].events) IN
       /\ conn' = [conn EXCEPT ![c].events = Tail(@)]
       /\ hosted' = IF slot["control"] = c THEN hosted \cup {event.session}
                                           ELSE hosted
       /\ sending' = [sending EXCEPT ![c] = {Changed(event.session, event.state)}]
    /\ UNCHANGED <<runner, slot, revoke, late, restarts, session>>

(* The watch fails: what was not read before is lost.                      *)
EndWatch(c) ==
    /\ At(c, "serving") /\ sending[c] = {} /\ ~conn[c].up
    /\ Ended(c, "ending")
    /\ UNCHANGED <<runner, gateway, sending, session>>

(* removeConnection: only the current connection is removed, and only its  *)
(* sessions are told.                                                      *)
RemoveConnection(c) ==
    /\ At(c, "ending")
    /\ slot' = [k \in Kinds |-> IF slot[k] = c THEN None ELSE slot[k]]
    /\ hosted' = IF slot["control"] = c THEN {} ELSE hosted
    /\ sending' = [sending EXCEPT ![c] =
            IF slot["control"] = c THEN {Unreachable(s) : s \in hosted} ELSE {}]
    /\ Ended(c, "losing")
    /\ UNCHANGED <<runner, revoke, late, restarts, session>>

Leave(c) ==
    /\ At(c, "losing") /\ sending[c] = {}
    /\ conn' = [conn EXCEPT ![c] = Fresh(@.kind)]
    /\ UNCHANGED <<runner, gateway, sending, session>>
-----------------------------------------------------------------------------
(* Revocation *)

Revoke ==
    /\ revoke = "no"
    /\ revoke' = "revoked"
    /\ UNCHANGED <<runner, slot, hosted, late, restarts, conn, sending, session>>

(* Plausible defect: a revoked runner's sessions are told it is away.      *)
DisconnectRunner_AsLost ==
    /\ revoke = "revoked"
    /\ slot' = [k \in Kinds |-> None]
    /\ hosted' = {}
    /\ conn' = Closing({slot[k] : k \in Kinds}, conn)
    /\ IF slot["control"] = None
         THEN revoke' = "done" /\ UNCHANGED sending
         ELSE /\ revoke' = "closing"
              /\ sending' = [sending EXCEPT ![Revoker] =
                    {Unreachable(s) : s \in hosted}]
    /\ UNCHANGED <<runner, late, restarts, session>>

(* disconnectRunner: the slot is deleted, its connections closed, and the  *)
(* sessions of its control connection told.                                *)
DisconnectRunner ==
    /\ revoke = "revoked"
    /\ slot' = [k \in Kinds |-> None]
    /\ hosted' = {}
    /\ conn' = Closing({slot[k] : k \in Kinds}, conn)
    /\ IF slot["control"] = None
         THEN revoke' = "done" /\ UNCHANGED sending
         ELSE /\ revoke' = "closing"
              /\ sending' = [sending EXCEPT ![Revoker] =
                    {RevokedNotice(s) : s \in hosted}]
    /\ UNCHANGED <<runner, late, restarts, session>>

(* It returns, having closed the links of a connected runner.              *)
RevocationEnds ==
    /\ revoke = "closing" /\ sending[Revoker] = {}
    /\ revoke' = "closed"
    /\ UNCHANGED <<runner, slot, hosted, late, restarts, conn, sending, session>>
-----------------------------------------------------------------------------
(* notifyEnvironment, and the provider's `notice` in the Session *)

Senders ==
    {Revoker} \cup {c \in Connections : conn[c].pc \in {"serving", "losing"}}

(* A notice that overtakes a reply of the runner's, or that the registry   *)
(* has since given the lie: a change from a connection no longer           *)
(* registered, a loss when another is.                                     *)
Crosses(n) ==
    /\ call[n.session].pc \in {"done", "accepted"}
    /\ n.type # "changed" \/ n.state # call[n.session].state
Stale(x, n) ==
    \/ n.type = "changed" /\ slot["control"] # x
    \/ n.type = "unreachable" /\ slot["control"] # None

Heard(n) ==
    /\ IF view[n.session].state = "deleted"
         THEN UNCHANGED <<view, link>>
         ELSE /\ view' = [view EXCEPT ![n.session] =
                    IF n.type = "changed"
                      THEN [state |-> n.state, reachable |-> TRUE]
                      ELSE [@ EXCEPT !.reachable = FALSE]]
              /\ link' = IF n.type = "revoked" \/ n.state = "stopped"
                           THEN link \ {n.session} ELSE link

Notify(x, n) ==
    /\ x \in Senders /\ n \in sending[x]
    /\ sending' = [sending EXCEPT ![x] = @ \ {n}]
    /\ Heard(n)
    /\ Mishap(Stale(x, n) \/ Crosses(n))
    /\ UNCHANGED <<runner, gateway, conn, call>>

(* Plausible defect: notices have no deadline.                             *)
NoticeTimeout_Never(x, n) == FALSE

(* A slow Session is not waited for; it may hear the notice after all.     *)
NoticeTimeout(x, n) ==
    /\ Timeouts
    /\ x \in Senders /\ n \in sending[x]
    /\ sending' = [sending EXCEPT ![x] = @ \ {n}]
    /\ late' \in {late, late \cup {n}} /\ Cardinality(late') <= MaxLate
    /\ Mishap(TRUE)
    /\ UNCHANGED <<runner, slot, hosted, revoke, restarts, conn, call, view, link>>

NotifyLate(n) ==
    /\ n \in late
    /\ late' = late \ {n}
    /\ Heard(n)
    /\ UNCHANGED <<runner, slot, hosted, revoke, restarts, conn, sending, call, mishap>>

(* The runner dials an Environment Link with its token; links end by       *)
(* themselves at any time.                                                 *)
LinkAttached(s) ==
    /\ env[s] = "running" /\ ~Revoked
    /\ view[s].state # "deleted"
    /\ link' = link \cup {s}
    /\ UNCHANGED <<runner, gateway, conn, sending, call, view, mishap>>

LinkLost(s) ==
    /\ s \in link
    /\ link' = link \ {s}
    /\ UNCHANGED <<runner, gateway, conn, sending, call, view, mishap>>
-----------------------------------------------------------------------------
(* environmentCall: a Session's create, control or delete *)

(* Without a control connection the call is unavailable: nothing happens.  *)
(* A creation that is repeated once its environment is known finds it, and *)
(* is the control call that leaves it as it is.  A Session that is being   *)
(* deleted asks for nothing but its deletion, whether or not it has heard  *)
(* of an environment.                                                      *)
CallBegins(s, op) ==
    /\ call[s].pc = "idle" /\ slot["control"] # None
    /\ view[s].state # "deleted"
    /\ call[s].op = "delete" => op = "delete"
    /\ op = "create" => view[s].state = "none"
    /\ op = "control" => view[s].state # "none"
    /\ call' = [call EXCEPT ![s] = [pc |-> "sent", op |-> op,
                                    on |-> slot["control"], state |-> "none"]]
    /\ UNCHANGED <<runner, gateway, conn, sending, view, link, mishap>>

(* The runner's supervisor serves it.  A deletion stops the guest first.   *)
CallServed(s, state) ==
    /\ call[s].pc = "sent" /\ conn[call[s].on].up
    /\ \/ /\ call[s].op = "create"
          /\ state = IF env[s] = "none" THEN "stopped" ELSE env[s]
          /\ UNCHANGED conn
       \/ /\ call[s].op = "control"
          /\ env[s] # "none" /\ state \in States
          /\ IF state = env[s] THEN UNCHANGED conn ELSE Emits(s, state)
       \/ /\ call[s].op = "delete"
          /\ state = "none"
          /\ IF env[s] = "running" THEN Emits(s, "stopped") ELSE UNCHANGED conn
    /\ env' = [env EXCEPT ![s] = state]
    /\ call' = [call EXCEPT ![s] = [@ EXCEPT !.pc = "done", !.state = state]]
    /\ UNCHANGED <<dialed, gateway, sending, view, link, mishap>>

(* The call is rejected, times out or loses its connection.                *)
CallFails(s) ==
    /\ call[s].pc \in {"sent", "done"}
    /\ call' = [call EXCEPT ![s] = Unanswered(s)]
    /\ UNCHANGED <<runner, gateway, conn, sending, view, link, mishap>>

(* The acknowledgement: the connection, if current, now hosts the session, *)
(* or no longer does.                                                      *)
CallAccepted(s) ==
    /\ call[s].pc = "done"
    /\ call' = [call EXCEPT ![s].pc = "accepted"]
    /\ hosted' = IF slot["control"] # call[s].on THEN hosted
                 ELSE IF call[s].op = "delete" THEN hosted \ {s}
                 ELSE hosted \cup {s}
    /\ Mishap(slot["control"] # call[s].on)
    /\ UNCHANGED <<runner, slot, revoke, late, restarts, conn, sending, view, link>>

(* The provider reports the result, or the Session is gone.                *)
CallReported(s) ==
    /\ call[s].pc = "accepted"
    /\ call' = [call EXCEPT ![s] = NoCall]
    /\ IF call[s].op = "delete"
         THEN /\ view' = [view EXCEPT ![s] = [state |-> "deleted",
                                              reachable |-> FALSE]]
              /\ link' = link \ {s}
         ELSE /\ view' = [view EXCEPT ![s] = [state |-> call[s].state,
                                              reachable |-> TRUE]]
              /\ UNCHANGED link
    /\ UNCHANGED <<runner, gateway, conn, sending, mishap>>
-----------------------------------------------------------------------------
(* The registry's Durable Object restarts: connections, calls and notices  *)
(* end, and no Session is told.                                            *)
Restart ==
    /\ restarts < MaxRestarts
    /\ restarts' = restarts + 1
    /\ slot' = [k \in Kinds |-> None]
    /\ hosted' = {}
    /\ conn' = [c \in Connections |-> Fresh(conn[c].kind)]
    /\ revoke' = IF revoke = "closing" THEN "done" ELSE revoke
    /\ sending' = [x \in DOMAIN sending |-> {}]
    /\ call' = [s \in Sessions |-> Unanswered(s)]
    /\ UNCHANGED <<runner, late, view, link, mishap>>

FiberStep(c) ==
    \/ Authenticate(c) \/ Refuse(c) \/ Admit(c) \/ AdmitBulk(c)
    \/ Confirm(c) \/ ConfirmFails(c) \/ ApplyEvent(c)
    \/ EndWatch(c) \/ RemoveConnection(c) \/ Leave(c)

CallStep(s) ==
    \/ \E op \in {"create", "control", "delete"} : CallBegins(s, op)
    \/ \E state \in Environment : CallServed(s, state)
    \/ CallFails(s) \/ CallAccepted(s) \/ CallReported(s)

RunnerStep ==
    \/ \E c \in Connections :
          SendSnapshot(c) \/ Break(c) \/ \E k \in Kinds : Dial(c, k)
    \/ \E s \in Sessions :
          \/ \E state \in States : EnvironmentChanges(s, state)
          \/ LinkAttached(s) \/ LinkLost(s)

NoticeStep ==
    \/ \E x \in Connections \cup {Revoker} : \E n \in sending[x] :
          Notify(x, n) \/ NoticeTimeout(x, n)
    \/ \E n \in late : NotifyLate(n)

Next ==
    \/ RunnerStep
    \/ \E c \in Connections : FiberStep(c)
    \/ Revoke \/ DisconnectRunner \/ RevocationEnds
    \/ NoticeStep
    \/ \E s \in Sessions : CallStep(s)
    \/ Restart

Spec == Init /\ [][Next]_vars

(* A fiber whose turn it is goes on: the Workspace answers a confirmation, *)
(* deadlines expire.  Nothing is assumed of runners or of Sessions.        *)
FairSpec ==
    /\ Spec
    /\ \A c \in Connections : WF_vars(FiberStep(c))
    /\ WF_vars(DisconnectRunner \/ RevocationEnds)
    /\ \A x \in Connections \cup {Revoker} :
          WF_vars(\E n \in Notice : NoticeTimeout(x, n))
-----------------------------------------------------------------------------
(* Properties *)

(* Whatever connections are replaced, lost, revoked or of the other kind:  *)
(* calls are routed to a connection only while a fiber serves it, and a    *)
(* fiber serves a working one only while it is registered.                 *)
RegisteredIsServed ==
    /\ \A k \in Kinds : slot[k] # None => conn[slot[k]].kind = k
    /\ slot["control"] # None =>
          conn[slot["control"]].pc \in {"confirm", "serving", "ending"}
    /\ \A c \in Connections :
          conn[c].up /\ conn[c].pc \in {"confirm", "serving"}
             => slot[conn[c].kind] = c

(* Once a revocation has closed what was registered, no connection of the  *)
(* runner is served, however far its admission was.                        *)
RevokedIsOut ==
    revoke \in {"closing", "closed", "done"} =>
        \A c \in Connections : ~(At(c, "serving") /\ conn[c].up)

(* Every Session that knows its environment is a session of the registered *)
(* connection, which will be told when the runner is lost or revoked; but  *)
(* not of one that broke before it was registered, over a newer one.       *)
KnownIsHosted ==
    \A s \in Sessions :
        (/\ slot["control"] # None
         /\ conn[slot["control"]].up
         /\ env[s] # "none" /\ view[s].state \in States /\ call[s].pc # "done")
            => s \in hosted

(* All that was sent has been told.                                        *)
Settled == /\ \A x \in DOMAIN sending : sending[x] = {}
           /\ \A s \in Sessions : call[s].pc = "idle"
Connected ==
    LET c == slot["control"] IN
    c # None /\ At(c, "serving") /\ conn[c].up /\ conn[c].events = <<>>

ViewsAccurate ==
    \A s \in Sessions : env[s] # "none" /\ view[s].state \in States =>
        view[s] = [state |-> env[s], reachable |-> TRUE]

Unserved ==
    \A c \in Connections : conn[c].pc \notin {"confirm", "serving", "ending"}

(* Once everything is told, each Session sees its environment as it is     *)
(* while the runner is connected, after any number of reconnections and a  *)
(* restart, and takes it for unreachable when the connection is lost;      *)
(* unless connections overlapped, a notice was late, or a reply crossed a  *)
(* notice.                                                                 *)
ViewsSettle ==
    mishap = "none" /\ Settled =>
        /\ Connected => ViewsAccurate
        /\ restarts = 0 /\ Unserved =>
              \A s \in Sessions : env[s] # "none" => ~view[s].reachable

(* Revocation closes the Environment Links of a runner that is connected,  *)
(* and they stay closed.                                                   *)
RevokedIsUnlinked ==
    revoke = "closed" /\ mishap = "none" /\ restarts = 0 =>
        \A s \in Sessions :
            env[s] # "none" /\ view[s].state \in States /\ call[s].pc = "idle"
                => s \notin link

(* However slow the Sessions are that must be told, what a runner sends is *)
(* read or its connection is given up, a broken connection leaves the      *)
(* registry, and a revocation is completed.                                *)
LossIsNoticed ==
    /\ \A c \in Connections :
          /\ conn[c].events # <<>> ~> conn[c].events = <<>>
          /\ slot["control"] = c /\ ~conn[c].up ~> slot["control"] # c
    /\ Revoked ~> revoke \in {"closed", "done"}
=============================================================================
