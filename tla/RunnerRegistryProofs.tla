------------------------ MODULE RunnerRegistryProofs -------------------------
(***************************************************************************)
(* Proofs about RunnerRegistry, for every set of sessions and connections, *)
(* whatever the bounds: connections may be dialed, replaced, broken and    *)
(* revoked in any number.                                                  *)
(***************************************************************************)
EXTENDS RunnerRegistry, TLAPS

(* The part of the type invariant the proofs need.                         *)
ConnType ==
    /\ env \in [Sessions -> Environment]
    /\ slot \in [Kinds -> Connections \cup {None}]
    /\ conn \in [Connections -> Connection]

RInv == ConnType /\ RegisteredIsServed

(* No step serves a connection of a runner that is revoked.                *)
ServesNone ==
    \A d \in Connections : conn'[d].up /\ conn'[d].pc = "serving"
        => (conn[d].up /\ conn[d].pc = "serving") \/ ~Revoked

(* A step that registers nothing: no connection comes to be served, and    *)
(* none the registry may hold leaves it.                                   *)
Admitted == {"confirm", "serving"}
Quiet ==
    /\ slot' = slot
    /\ conn' \in [Connections -> Connection]
    /\ ServesNone
    /\ \A d \in Connections :
          /\ conn'[d].kind = conn[d].kind
          /\ conn'[d].up => conn[d].up
          /\ conn'[d].pc \in Admitted => conn[d].pc \in Admitted
          /\ conn[d].kind = "control" /\ conn[d].pc \in Admitted \cup {"ending"}
                => conn'[d].pc \in Admitted \cup {"ending"}
-----------------------------------------------------------------------------
(* What the assignments to `conn` do. *)

LEMMA UpdateOne ==
    ASSUME ConnType, NEW c \in Connections, NEW r \in Connection,
           conn' = [conn EXCEPT ![c] = r]
    PROVE  /\ conn' \in [Connections -> Connection]
           /\ conn'[c] = r
           /\ \A d \in Connections : d # c => conn'[d] = conn[d]
BY DEF ConnType

LEMMA EventsType ==
    /\ <<>> \in Seq(Snapshot \cup Change)
    /\ \A q \in Seq(Snapshot \cup Change) :
          /\ q # <<>> => Tail(q) \in Seq(Snapshot \cup Change)
          /\ \A e \in Snapshot \cup Change :
                Append(q, e) \in Seq(Snapshot \cup Change)
OBVIOUS

LEMMA RecordTypes ==
    ASSUME NEW r \in Connection
    PROVE  /\ r.kind \in Kinds /\ r.up \in BOOLEAN
           /\ r.events \in Seq(Snapshot \cup Change)
           /\ \A q \in Seq(Snapshot \cup Change) :
                /\ [r EXCEPT !.events = q] \in Connection
                /\ [r EXCEPT !.events = q].pc = r.pc
                /\ [r EXCEPT !.events = q].kind = r.kind
                /\ [r EXCEPT !.events = q].up = r.up
           /\ \A pc \in {"waiting", "confirm", "serving"} :
                /\ [r EXCEPT !.pc = pc] \in Connection
                /\ [r EXCEPT !.pc = pc].pc = pc
                /\ [r EXCEPT !.pc = pc].kind = r.kind
                /\ [r EXCEPT !.pc = pc].up = r.up
           /\ [r EXCEPT !.up = FALSE] \in Connection
           /\ [r EXCEPT !.up = FALSE].pc = r.pc
           /\ [r EXCEPT !.up = FALSE].kind = r.kind
           /\ [r EXCEPT !.up = FALSE].up = FALSE
BY DEF Connection

LEMMA FreshType ==
    ASSUME NEW k \in Kinds
    PROVE  /\ Fresh(k) \in Connection
           /\ Fresh(k).pc = "gone" /\ Fresh(k).kind = k /\ ~Fresh(k).up
BY EventsType DEF Fresh, Connection

(* A fiber that goes on with its socket closed.                            *)
LEMMA EndedOne ==
    ASSUME ConnType, NEW c \in Connections, NEW pc,
           pc \in {"gone", "ending", "losing"}, Ended(c, pc)
    PROVE  /\ conn' \in [Connections -> Connection]
           /\ conn'[c].pc = pc /\ conn'[c].kind = conn[c].kind /\ ~conn'[c].up
           /\ \A d \in Connections : d # c => conn'[d] = conn[d]
<1> DEFINE r == [Fresh(conn[c].kind) EXCEPT !.pc = pc]
<1>1. conn[c].kind \in Kinds
  BY RecordTypes DEF ConnType
<1>2. /\ r \in Connection
      /\ r.pc = pc /\ r.kind = conn[c].kind /\ ~r.up
  BY <1>1, EventsType DEF Fresh, Connection
<1>3. conn' = [conn EXCEPT ![c] = r]
  BY DEF Ended
<1> HIDE DEF r
<1> QED
  BY <1>2, <1>3, UpdateOne

(* Closing connections changes nothing but whether their sockets work.     *)
LEMMA ClosingAll ==
    ASSUME NEW cs, NEW connections \in [Connections -> Connection]
    PROVE  /\ Closing(cs, connections) \in [Connections -> Connection]
           /\ \A d \in Connections :
                /\ Closing(cs, connections)[d].pc = connections[d].pc
                /\ Closing(cs, connections)[d].kind = connections[d].kind
                /\ Closing(cs, connections)[d].up
                      => connections[d].up /\ d \notin cs
<1>1. ASSUME NEW d \in Connections
      PROVE  /\ Closing(cs, connections)[d] \in Connection
             /\ Closing(cs, connections)[d].pc = connections[d].pc
             /\ Closing(cs, connections)[d].kind = connections[d].kind
             /\ Closing(cs, connections)[d].up
                   => connections[d].up /\ d \notin cs
  <2>1. connections[d] \in Connection
    OBVIOUS
  <2>2. CASE d \in cs
    BY <2>1, <2>2, RecordTypes DEF Closing
  <2>3. CASE d \notin cs
    BY <2>1, <2>3 DEF Closing
  <2> QED
    BY <2>2, <2>3
<1>2. Closing(cs, connections) = [d \in Connections |-> Closing(cs, connections)[d]]
  BY DEF Closing
<1> QED
  BY <1>1, <1>2
-----------------------------------------------------------------------------
(* Steps that register nothing. *)

LEMMA QuietSame ==
    ASSUME ConnType, UNCHANGED <<slot, conn>>
    PROVE  Quiet
BY DEF ConnType, Quiet, ServesNone

LEMMA QuietEvents ==
    ASSUME ConnType, NEW c \in Connections, slot' = slot,
           NEW q \in Seq(Snapshot \cup Change),
           conn' = [conn EXCEPT ![c].events = q]
    PROVE  Quiet
<1>1. conn[c] \in Connection
  BY DEF ConnType
<1>2. conn' = [conn EXCEPT ![c] = [conn[c] EXCEPT !.events = q]]
  OBVIOUS
<1> DEFINE r == [conn[c] EXCEPT !.events = q]
<1>3. /\ r \in Connection /\ r.pc = conn[c].pc
      /\ r.kind = conn[c].kind /\ r.up = conn[c].up
  BY <1>1 DEF Connection
<1>4. conn' = [conn EXCEPT ![c] = r]
  BY <1>2
<1> HIDE DEF r
<1> QED
  BY <1>3, <1>4, UpdateOne DEF Quiet, ServesNone

LEMMA QuietEmits ==
    ASSUME ConnType, slot' = slot, NEW s \in Sessions, NEW state \in States,
           Emits(s, state)
    PROVE  Quiet
<1> DEFINE e == [type |-> "changed", session |-> s, state |-> state]
           c == dialed["control"]
<1>1. CASE UNCHANGED conn
  BY <1>1, QuietSame
<1>2. CASE conn' = [conn EXCEPT ![c].events = Append(@, e)]
  <2>1. CASE c \in Connections
    <3>1. conn[c].events \in Seq(Snapshot \cup Change)
      BY <2>1, RecordTypes DEF ConnType
    <3>2. e \in Snapshot \cup Change
      BY DEF Change
    <3>3. Append(conn[c].events, e) \in Seq(Snapshot \cup Change)
      BY <3>1, <3>2, EventsType
    <3>4. conn' = [conn EXCEPT ![c].events = Append(conn[c].events, e)]
      BY <1>2
    <3> HIDE DEF c, e
    <3> QED
      BY <2>1, <3>3, <3>4, QuietEvents
  <2>2. CASE c \notin Connections
    <3>1. conn' = conn
      BY <1>2, <2>2 DEF ConnType
    <3> QED
      BY <3>1, QuietSame
  <2> QED
    BY <2>1, <2>2
<1> QED
  BY <1>1, <1>2 DEF Emits

LEMMA QuietEnded ==
    ASSUME ConnType, slot' = slot, NEW c \in Connections, NEW pc,
           pc \in {"gone", "ending", "losing"}, Ended(c, pc),
           \/ pc = "ending"
           \/ conn[c].pc \in {"identify", "waiting"}
           \/ conn[c].kind # "control"
    PROVE  Quiet
BY EndedOne DEF Quiet, ServesNone, Admitted

LEMMA QuietKeeps ==
    ASSUME RInv, Quiet, env' \in [Sessions -> Environment]
    PROVE  RInv'
<1>1. ConnType'
  BY DEF RInv, ConnType, Quiet
<1>2. ASSUME NEW k \in Kinds, slot[k] # None
      PROVE  slot[k] \in Connections
  BY <1>2 DEF RInv, ConnType
<1>3. \A k \in Kinds : slot'[k] # None => conn'[slot'[k]].kind = k
  BY <1>2 DEF RInv, RegisteredIsServed, Quiet
<1>4. slot'["control"] # None =>
          conn'[slot'["control"]].pc \in {"confirm", "serving", "ending"}
  BY <1>2, KindsAssumption DEF RInv, RegisteredIsServed, Quiet, Admitted
<1>5. \A c \in Connections :
          conn'[c].up /\ conn'[c].pc \in {"confirm", "serving"}
             => slot'[conn'[c].kind] = c
  BY DEF RInv, RegisteredIsServed, Quiet, Admitted
<1> QED
  BY <1>1, <1>3, <1>4, <1>5 DEF RInv, RegisteredIsServed
-----------------------------------------------------------------------------
(* Steps that change what is registered. *)

LEMMA DialKeeps ==
    ASSUME RInv, NEW c \in Connections, NEW k \in Kinds, Dial(c, k)
    PROVE  RInv' /\ ServesNone
<1> DEFINE r == [Fresh(k) EXCEPT !.pc = "identify", !.up = TRUE]
<1>1. r \in Connection /\ r.pc = "identify" /\ r.kind = k
  BY EventsType DEF Fresh, Connection
<1>2. conn' = [conn EXCEPT ![c] = r]
  BY DEF Dial
<1> HIDE DEF r
<1>3. /\ conn' \in [Connections -> Connection]
      /\ conn'[c] = r
      /\ \A d \in Connections : d # c => conn'[d] = conn[d]
  BY <1>1, <1>2, UpdateOne DEF RInv
<1>4. UNCHANGED <<slot, env>> /\ \A j \in Kinds : slot[j] # c
  BY DEF Dial, Forgotten, gateway
<1>5. ConnType'
  BY <1>3, <1>4 DEF RInv, ConnType
<1>6. ASSUME NEW j \in Kinds, slot[j] # None
      PROVE  slot[j] \in Connections /\ conn'[slot[j]] = conn[slot[j]]
  BY <1>3, <1>4, <1>6 DEF RInv, ConnType
<1>7. RegisteredIsServed'
  BY <1>1, <1>3, <1>4, <1>6, KindsAssumption DEF RInv, RegisteredIsServed
<1>8. ServesNone
  BY <1>1, <1>3 DEF ServesNone
<1> QED
  BY <1>5, <1>7, <1>8 DEF RInv

(* What admit and acceptBulk have in common: c, registered for its kind,   *)
(* takes the place of another connection, which is closed.                 *)
LEMMA RegisterKeeps ==
    ASSUME RInv, NEW c \in Connections, At(c, "waiting"),
           NEW r \in Connection, r.pc = "confirm", r.kind = conn[c].kind,
           Registered(c), env' = env,
           conn' = Closing(Replaced(c), [conn EXCEPT ![c] = r])
    PROVE  RInv' /\ ServesNone
<1> DEFINE admitted == [conn EXCEPT ![c] = r]
           k == conn[c].kind
<1>1. k \in Kinds
  BY RecordTypes DEF RInv, ConnType
<1>2. /\ admitted \in [Connections -> Connection]
      /\ admitted[c] = r
      /\ \A d \in Connections : d # c => admitted[d] = conn[d]
  BY DEF RInv, ConnType
<1>closed. conn' = Closing({slot[k]} \ {c}, admitted)
  BY DEF Replaced
<1> HIDE DEF admitted
<1>3. /\ conn' \in [Connections -> Connection]
      /\ \A d \in Connections :
            /\ conn'[d].pc = admitted[d].pc
            /\ conn'[d].kind = admitted[d].kind
            /\ conn'[d].up => admitted[d].up /\ d \notin {slot[k]} \ {c}
  <2> HIDE DEF k
  <2> DEFINE closed == Closing({slot[k]} \ {c}, admitted)
  <2>1. /\ closed \in [Connections -> Connection]
        /\ \A d \in Connections :
              /\ closed[d].pc = admitted[d].pc
              /\ closed[d].kind = admitted[d].kind
              /\ closed[d].up => admitted[d].up /\ d \notin {slot[k]} \ {c}
    BY <1>2, ClosingAll
  <2>2. conn' = closed
    BY <1>closed
  <2> HIDE DEF closed
  <2> QED
    BY <2>1, <2>2
<1>4. /\ slot' \in [Kinds -> Connections \cup {None}]
      /\ slot'[k] = c
      /\ \A j \in Kinds : j # k => slot'[j] = slot[j]
  BY <1>1 DEF Registered, RInv, ConnType
<1>5. ConnType'
  BY <1>3, <1>4 DEF RInv, ConnType
<1>6. \A d \in Connections : conn'[d].kind = conn[d].kind
  <2>1. conn'[c].kind = conn[c].kind
    BY <1>2, <1>3
  <2>2. ASSUME NEW d \in Connections, d # c
        PROVE  conn'[d].kind = conn[d].kind
    BY <1>2, <1>3, <2>2
  <2> QED BY <2>1, <2>2
<1>7. \A j \in Kinds : slot'[j] # None =>
          slot'[j] \in Connections /\ conn'[slot'[j]].kind = j
  BY ZenonT(40), <1>4, <1>5, <1>6 DEF RInv, ConnType, RegisteredIsServed
<1>8. slot'["control"] # None =>
          conn'[slot'["control"]].pc \in {"confirm", "serving", "ending"}
  <2>1. CASE slot'["control"] = c
    BY <1>2, <1>3, <2>1
  <2>2. ASSUME slot'["control"] # c, slot'["control"] # None
        PROVE  conn'[slot'["control"]].pc \in {"confirm", "serving", "ending"}
    <3>1. slot'["control"] = slot["control"]
      BY <1>4, <2>2, KindsAssumption
    <3>2. conn[slot["control"]].pc \in {"confirm", "serving", "ending"}
      BY <2>2, <3>1 DEF RInv, RegisteredIsServed
    <3>3. slot["control"] \in Connections /\ slot["control"] # c
      BY <1>7, <2>2, <3>1, KindsAssumption
    <3>4. conn'[slot["control"]].pc = conn[slot["control"]].pc
      <4> HIDE DEF k
      <4> QED
        BY <1>2, <1>3, <3>3
    <3> QED
      BY <3>1, <3>2, <3>4
  <2> QED
    BY <2>1, <2>2
<1>9. ASSUME NEW d \in Connections,
             conn'[d].up, conn'[d].pc \in {"confirm", "serving"}
      PROVE  slot'[conn'[d].kind] = d
  <2>1. CASE d = c
    BY <1>4, <1>6, <2>1
  <2>2. CASE d # c
    <3>3. /\ conn[d].up /\ conn[d].pc \in {"confirm", "serving"}
          /\ d # slot[k]
      <4> HIDE DEF k
      <4> QED
        BY <1>2, <1>3, <1>9, <2>2
    <3>1. slot[conn[d].kind] = d /\ d # slot[k]
      BY <3>3 DEF RInv, RegisteredIsServed
    <3>2. conn[d].kind \in Kinds
      BY RecordTypes DEF RInv, ConnType
    <3> HIDE DEF k
    <3> QED
      BY <1>4, <1>6, <3>1, <3>2
  <2> QED
    BY <2>1, <2>2
<1>10. RegisteredIsServed'
  BY <1>7, <1>8, <1>9 DEF RegisteredIsServed
<1>11. ServesNone
  BY ZenonT(40), <1>2, <1>3 DEF ServesNone
<1> QED
  BY <1>5, <1>10, <1>11 DEF RInv

LEMMA AdmitKeeps ==
    ASSUME RInv, NEW c \in Connections, Admit(c) \/ AdmitBulk(c)
    PROVE  RInv' /\ ServesNone
<1>1. conn[c] \in Connection
  BY DEF RInv, ConnType
<1>2. CASE Admit(c)
  <2> DEFINE q == Tail(conn[c].events)
             r == [conn[c] EXCEPT !.pc = "confirm", !.events = q]
  <2>1. q \in Seq(Snapshot \cup Change)
    BY <1>1, <1>2, RecordTypes, EventsType DEF Admit
  <2> HIDE DEF q
  <2>2. r \in Connection /\ r.pc = "confirm" /\ r.kind = conn[c].kind
    BY <1>1, <2>1 DEF Connection
  <2>3. conn' = Closing(Replaced(c), [conn EXCEPT ![c] = r])
    BY <1>2 DEF Admit, q
  <2>4. At(c, "waiting") /\ Registered(c) /\ env' = env
    BY <1>2 DEF Admit, runner
  <2> HIDE DEF r
  <2> QED
    BY <2>2, <2>3, <2>4, RegisterKeeps
<1>3. CASE AdmitBulk(c)
  <2> DEFINE r == [conn[c] EXCEPT !.pc = "confirm"]
  <2>1. r \in Connection /\ r.pc = "confirm" /\ r.kind = conn[c].kind
    BY <1>1, RecordTypes
  <2>2. conn' = Closing(Replaced(c), [conn EXCEPT ![c] = r])
    BY <1>3 DEF AdmitBulk
  <2>3. At(c, "waiting") /\ Registered(c) /\ env' = env
    BY <1>3 DEF AdmitBulk, runner
  <2> HIDE DEF r
  <2> QED
    BY <2>1, <2>2, <2>3, RegisterKeeps
<1> QED
  BY <1>2, <1>3

LEMMA RemoveKeeps ==
    ASSUME RInv, NEW c \in Connections, RemoveConnection(c)
    PROVE  RInv' /\ ServesNone
<1>1. /\ conn' \in [Connections -> Connection]
      /\ conn'[c].kind = conn[c].kind /\ ~conn'[c].up
      /\ \A d \in Connections : d # c => conn'[d] = conn[d]
  BY EndedOne DEF RInv, RemoveConnection
<1>2. slot' = [k \in Kinds |-> IF slot[k] = c THEN None ELSE slot[k]] /\ env' = env
  BY DEF RemoveConnection, runner
<1>3. ConnType'
  BY <1>1, <1>2 DEF RInv, ConnType
<1>4. \A k \in Kinds : slot'[k] # None =>
          slot'[k] = slot[k] /\ slot[k] \in Connections \ {c}
  BY <1>2, NoneAssumption DEF RInv, ConnType
<1>5. ASSUME NEW d \in Connections,
             conn'[d].up, conn'[d].pc \in {"confirm", "serving"}
      PROVE  slot'[conn'[d].kind] = d
  <2>1. d # c /\ conn'[d] = conn[d] /\ conn[d].kind \in Kinds
    BY <1>1, <1>5, RecordTypes DEF RInv, ConnType
  <2> QED
    BY <1>2, <1>5, <2>1 DEF RInv, RegisteredIsServed
<1>6. RegisteredIsServed'
  BY <1>1, <1>4, <1>5, KindsAssumption DEF RInv, RegisteredIsServed
<1>7. ServesNone
  BY <1>1 DEF ServesNone
<1> QED
  BY <1>3, <1>6, <1>7 DEF RInv

(* DisconnectRunner closes every connection that is served.                *)
LEMMA DisconnectKeeps ==
    ASSUME RInv, DisconnectRunner
    PROVE  /\ RInv'
           /\ \A c \in Connections : ~(conn'[c].up /\ conn'[c].pc \in Admitted)
<1>1. /\ conn' \in [Connections -> Connection]
      /\ \A d \in Connections :
            /\ conn'[d].pc = conn[d].pc /\ conn'[d].kind = conn[d].kind
            /\ conn'[d].up => conn[d].up /\ d \notin {slot[k] : k \in Kinds}
  BY ClosingAll DEF RInv, ConnType, DisconnectRunner
<1>2. slot' = [k \in Kinds |-> None] /\ env' = env
  BY DEF DisconnectRunner, runner
<1>3. ASSUME NEW d \in Connections PROVE conn[d].kind \in Kinds
  BY RecordTypes DEF RInv, ConnType
<1>4. \A c \in Connections : ~(conn'[c].up /\ conn'[c].pc \in Admitted)
  BY <1>1, <1>3 DEF RInv, RegisteredIsServed, Admitted
<1>5. ConnType'
  BY <1>1, <1>2 DEF RInv, ConnType
<1>6. RegisteredIsServed'
  BY <1>2, <1>4, KindsAssumption DEF RegisteredIsServed, Admitted
<1> QED
  BY <1>4, <1>5, <1>6 DEF RInv

LEMMA RestartKeeps ==
    ASSUME RInv, Restart
    PROVE  /\ RInv'
           /\ \A c \in Connections : conn'[c].pc = "gone"
<1>1. ASSUME NEW c \in Connections
      PROVE  /\ Fresh(conn[c].kind) \in Connection
             /\ Fresh(conn[c].kind).pc = "gone"
  <2>1. conn[c].kind \in Kinds
    BY RecordTypes DEF RInv, ConnType
  <2> QED
    BY <2>1, FreshType
<1>2. /\ conn' = [c \in Connections |-> Fresh(conn[c].kind)]
      /\ slot' = [k \in Kinds |-> None] /\ env' = env
  BY DEF Restart, runner
<1>3. ConnType' /\ \A c \in Connections : conn'[c].pc = "gone"
  BY <1>1, <1>2 DEF RInv, ConnType
<1>4. RegisteredIsServed'
  BY <1>2, <1>3, KindsAssumption DEF RegisteredIsServed
<1> QED
  BY <1>3, <1>4 DEF RInv
-----------------------------------------------------------------------------
(* The other steps are quiet, those of runners, of fibers and of calls.    *)

LEMMA SocketQuiet ==
    ASSUME RInv, NEW c \in Connections, SendSnapshot(c) \/ Break(c)
    PROVE  Quiet /\ env' \in [Sessions -> Environment] /\ revoke' = revoke
<1>1. ConnType /\ conn[c] \in Connection
  BY DEF RInv, ConnType
<1>2. CASE SendSnapshot(c)
  <2> DEFINE q == <<[type |-> "snapshot", env |-> env]>>
  <2>1. [type |-> "snapshot", env |-> env] \in Snapshot
    BY <1>1 DEF ConnType, Snapshot
  <2>2. q \in Seq(Snapshot \cup Change)
    BY <2>1
  <2>3. /\ conn' = [conn EXCEPT ![c].events = q]
        /\ slot' = slot /\ revoke' = revoke /\ env' = env
    BY <1>2 DEF SendSnapshot, runner, gateway
  <2> HIDE DEF q
  <2> QED
    BY <1>1, <2>2, <2>3, QuietEvents DEF ConnType
<1>3. CASE Break(c)
  <2> DEFINE r == [conn[c] EXCEPT !.up = FALSE]
  <2>1. /\ r \in Connection
        /\ r.pc = conn[c].pc /\ r.kind = conn[c].kind /\ ~r.up
    BY <1>1, RecordTypes
  <2>2. /\ conn' = [conn EXCEPT ![c] = r]
        /\ slot' = slot /\ revoke' = revoke /\ env' = env
    BY <1>3 DEF Break, runner, gateway
  <2> HIDE DEF r
  <2> QED
    BY <1>1, <2>1, <2>2, UpdateOne DEF Quiet, ServesNone, ConnType
<1> QED
  BY <1>2, <1>3

LEMMA EnvironmentQuiet ==
    ASSUME RInv, NEW s \in Sessions, NEW state \in States,
           EnvironmentChanges(s, state)
    PROVE  Quiet /\ env' \in [Sessions -> Environment] /\ revoke' = revoke
<1>1. ConnType
  BY DEF RInv
<1>2. /\ Emits(s, state) /\ env' = [env EXCEPT ![s] = state]
      /\ slot' = slot /\ revoke' = revoke
  BY DEF EnvironmentChanges, gateway
<1>3. env' \in [Sessions -> Environment]
  BY <1>1, <1>2 DEF ConnType, Environment
<1> QED
  BY <1>1, <1>2, <1>3, QuietEmits

LEMMA FiberQuiet ==
    ASSUME RInv, NEW c \in Connections,
           \/ Authenticate(c) \/ Refuse(c) \/ Confirm(c) \/ ConfirmFails(c)
           \/ ApplyEvent(c) \/ EndWatch(c) \/ Leave(c)
    PROVE  Quiet /\ env' \in [Sessions -> Environment] /\ revoke' = revoke
<1>1. ConnType /\ conn[c] \in Connection
  BY DEF RInv, ConnType
<1>2. /\ slot' = slot /\ revoke' = revoke /\ env' = env
      /\ env' \in [Sessions -> Environment]
  BY <1>1 DEF Authenticate, Refuse, Confirm, ConfirmFails, ApplyEvent, EndWatch,
         Leave, runner, gateway, ConnType
<1>3. CASE Authenticate(c) \/ Confirm(c)
  <2> DEFINE pc == IF Authenticate(c) THEN "waiting" ELSE "serving"
             r == [conn[c] EXCEPT !.pc = pc]
  <2>1. /\ pc = "serving" => conn[c].pc = "confirm" /\ ~Revoked
        /\ pc \in {"waiting", "serving"}
        /\ conn[c].pc \in {"identify", "confirm"}
        /\ pc = "waiting" => conn[c].pc = "identify"
    BY <1>3 DEF Authenticate, Confirm, At
  <2>2. conn' = [conn EXCEPT ![c].pc = pc]
    BY <1>3 DEF Authenticate, Confirm
  <2>3. conn' = [conn EXCEPT ![c] = r]
    BY <2>2
  <2> HIDE DEF pc
  <2>4. /\ r \in Connection
        /\ r.pc = pc /\ r.kind = conn[c].kind /\ r.up = conn[c].up
    <3>1. \A x \in {"waiting", "confirm", "serving"} :
             /\ [conn[c] EXCEPT !.pc = x] \in Connection
             /\ [conn[c] EXCEPT !.pc = x].pc = x
             /\ [conn[c] EXCEPT !.pc = x].kind = conn[c].kind
             /\ [conn[c] EXCEPT !.pc = x].up = conn[c].up
      BY <1>1, RecordTypes
    <3> QED
      BY <2>1, <3>1, Zenon
  <2> HIDE DEF r
  <2> QED
    BY <1>1, <1>2, <2>1, <2>3, <2>4, UpdateOne DEF Quiet, ServesNone, Admitted
<1>4. CASE Refuse(c) \/ ConfirmFails(c) \/ EndWatch(c)
  BY <1>1, <1>2, <1>4, QuietEnded DEF Refuse, ConfirmFails, EndWatch, At
<1>5. CASE ApplyEvent(c)
  <2>1. Tail(conn[c].events) \in Seq(Snapshot \cup Change)
    BY <1>1, <1>5, RecordTypes, EventsType DEF ApplyEvent
  <2>2. conn' = [conn EXCEPT ![c].events = Tail(conn[c].events)]
    BY <1>5 DEF ApplyEvent
  <2> QED
    BY <1>1, <1>2, <2>1, <2>2, QuietEvents
<1>6. CASE Leave(c)
  <2> DEFINE r == Fresh(conn[c].kind)
  <2>1. /\ r \in Connection
        /\ r.pc = "gone" /\ r.kind = conn[c].kind /\ ~r.up
    BY <1>1, RecordTypes, FreshType
  <2>2. conn' = [conn EXCEPT ![c] = r] /\ conn[c].pc = "losing"
    BY <1>6 DEF Leave, At
  <2> HIDE DEF r
  <2> QED
    BY <1>1, <1>2, <2>1, <2>2, UpdateOne DEF Quiet, ServesNone, Admitted
<1> QED
  BY <1>2, <1>3, <1>4, <1>5, <1>6

LEMMA CallQuiet ==
    ASSUME RInv, NEW s \in Sessions, CallStep(s)
    PROVE  Quiet /\ env' \in [Sessions -> Environment] /\ revoke' = revoke
<1>1. ConnType
  BY DEF RInv
<1>2. ASSUME NEW state \in Environment, CallServed(s, state)
      PROVE  Quiet /\ env' \in [Sessions -> Environment] /\ revoke' = revoke
  <2>1. /\ slot' = slot /\ revoke' = revoke
        /\ env' = [env EXCEPT ![s] = state]
    BY <1>2 DEF CallServed, gateway
  <2>2. env' \in [Sessions -> Environment]
    BY <1>1, <1>2, <2>1 DEF ConnType
  <2>3. \/ UNCHANGED conn
        \/ \E new \in States : Emits(s, new)
    BY <1>2 DEF CallServed, States
  <2> QED
    BY <1>1, <2>1, <2>2, <2>3, QuietSame, QuietEmits
<1>3. CASE \/ \E op \in {"create", "control", "delete"} : CallBegins(s, op)
           \/ CallFails(s) \/ CallAccepted(s) \/ CallReported(s)
  <2>1. UNCHANGED <<slot, conn>> /\ revoke' = revoke /\ env' = env
    BY <1>3 DEF CallBegins, CallFails, CallAccepted, CallReported, runner,
       gateway
  <2> QED
    BY <1>1, <2>1, QuietSame DEF ConnType
<1> QED
  BY <1>2, <1>3 DEF CallStep

LEMMA OtherQuiet ==
    ASSUME RInv,
           \/ Revoke \/ RevocationEnds \/ NoticeStep \/ UNCHANGED vars
           \/ \E s \in Sessions : LinkAttached(s) \/ LinkLost(s)
    PROVE  /\ Quiet /\ env' \in [Sessions -> Environment]
           /\ revoke' = revoke \/ revoke' = "revoked" \/ revoke = "closing"
<1>1. ConnType
  BY DEF RInv
<1>2. /\ UNCHANGED <<slot, conn>> /\ env' = env
      /\ revoke' = revoke \/ revoke' = "revoked" \/ revoke = "closing"
  BY DEF Revoke, RevocationEnds, NoticeStep, Notify, NoticeTimeout, NotifyLate,
         LinkAttached, LinkLost, runner, gateway, vars
<1> QED
  BY <1>1, <1>2, QuietSame DEF ConnType
-----------------------------------------------------------------------------
Closed == {"closing", "closed", "done"}

LEMMA InitKeeps == Init => RInv /\ RevokedIsOut
<1> SUFFICES ASSUME Init PROVE RInv /\ RevokedIsOut
  OBVIOUS
<1>1. Fresh("control") \in Connection
  BY FreshType, KindsAssumption
<1>2. ConnType
  BY <1>1 DEF Init, ConnType, Environment
<1>3. RegisteredIsServed
  BY KindsAssumption DEF Init, RegisteredIsServed, Fresh
<1>4. RevokedIsOut
  BY DEF Init, RevokedIsOut
<1> QED
  BY <1>2, <1>3, <1>4 DEF RInv

(* Every step keeps the invariant; and after a revocation has closed what  *)
(* was registered, or before, it serves no connection it must not.         *)
LEMMA StepKeeps ==
    ASSUME RInv, [Next]_vars
    PROVE  /\ RInv'
           /\ RevokedIsOut => RevokedIsOut'
<1> DEFINE Kept == RInv' /\ (RevokedIsOut => RevokedIsOut')
<1>1. ASSUME RInv', ServesNone, revoke' \in Closed => revoke \in Closed
      PROVE  Kept
  BY <1>1 DEF ServesNone, RevokedIsOut, Closed, Revoked, At
<1>2. ASSUME Quiet, env' \in [Sessions -> Environment],
             revoke' \in Closed => revoke \in Closed
      PROVE  Kept
  BY <1>1, <1>2, QuietKeeps DEF Quiet
<1>3. CASE RunnerStep
  <2>1. ASSUME NEW c \in Connections, SendSnapshot(c) \/ Break(c) PROVE Kept
    BY <1>2, <2>1, SocketQuiet
  <2>2. ASSUME NEW c \in Connections, NEW k \in Kinds, Dial(c, k) PROVE Kept
    <3>1. revoke' = revoke
      BY <2>2 DEF Dial, gateway
    <3> QED
      BY <1>1, <2>2, <3>1, DialKeeps
  <2>3. ASSUME NEW s \in Sessions, NEW state \in States,
               EnvironmentChanges(s, state)
        PROVE  Kept
    BY <1>2, <2>3, EnvironmentQuiet
  <2>4. ASSUME NEW s \in Sessions, LinkAttached(s) \/ LinkLost(s) PROVE Kept
    <3>1. Quiet /\ env' \in [Sessions -> Environment] /\ revoke' = revoke
      BY <2>4, OtherQuiet DEF LinkAttached, LinkLost, gateway
    <3> QED
      BY <1>2, <3>1
  <2> QED
    BY <1>3, <2>1, <2>2, <2>3, <2>4 DEF RunnerStep
<1>4. ASSUME NEW c \in Connections, FiberStep(c) PROVE Kept
  <2>1. CASE \/ Authenticate(c) \/ Refuse(c) \/ Confirm(c) \/ ConfirmFails(c)
             \/ ApplyEvent(c) \/ EndWatch(c) \/ Leave(c)
    BY <1>2, <2>1, FiberQuiet
  <2>2. CASE Admit(c) \/ AdmitBulk(c)
    <3>1. revoke' = revoke
      BY <2>2 DEF Admit, AdmitBulk
    <3> QED
      BY <1>1, <2>2, <3>1, AdmitKeeps
  <2>3. CASE RemoveConnection(c)
    <3>1. revoke' = revoke
      BY <2>3 DEF RemoveConnection
    <3> QED
      BY <1>1, <2>3, <3>1, RemoveKeeps
  <2> QED
    BY <1>4, <2>1, <2>2, <2>3 DEF FiberStep
<1>5. CASE Revoke \/ RevocationEnds \/ NoticeStep \/ UNCHANGED vars
  BY <1>2, <1>5, OtherQuiet DEF Closed
<1>6. CASE DisconnectRunner
  BY <1>6, DisconnectKeeps DEF RevokedIsOut, At, Admitted
<1>7. ASSUME NEW s \in Sessions, CallStep(s) PROVE Kept
  BY <1>2, <1>7, CallQuiet
<1>8. CASE Restart
  BY <1>8, RestartKeeps DEF RevokedIsOut, At
<1> QED
  BY <1>3, <1>4, <1>5, <1>6, <1>7, <1>8 DEF Next

(* Calls are routed to a connection only while a fiber serves it, and a    *)
(* fiber serves a working one only while it is registered: however         *)
(* connections overlap, of whichever kind, and whenever the runner is      *)
(* revoked or the registry restarts.                                       *)
THEOREM Routed == Spec => []RegisteredIsServed
<1>1. RInv /\ [Next]_vars => RInv'
  BY StepKeeps
<1>2. RInv => RegisteredIsServed
  BY DEF RInv
<1> QED
  BY <1>1, <1>2, InitKeeps, PTL DEF Spec

(* A revoked runner is served on no connection, once disconnectRunner has  *)
(* run: one admitted later does not pass its second authentication.        *)
THEOREM Revocation == Spec => []RevokedIsOut
<1>1. RInv /\ RevokedIsOut /\ [Next]_vars => RInv' /\ RevokedIsOut'
  BY StepKeeps
<1> QED
  BY <1>1, InitKeeps, PTL DEF Spec
-----------------------------------------------------------------------------
(* What Sessions are told.                                                 *)

Speakers == Connections \cup {Revoker}
View == [state : Environment \cup {"deleted"}, reachable : BOOLEAN]

KType ==
    /\ dialed \in [Kinds -> Connections \cup {None}]
    /\ hosted \in SUBSET Sessions
    /\ sending \in [Speakers -> SUBSET Notice]
    /\ late \in SUBSET Notice
    /\ call \in [Sessions -> Call]
    /\ view \in [Sessions -> View]
    /\ link \in SUBSET Sessions
    /\ restarts \in Nat
    /\ revoke \in {"no", "revoked", "closing", "done", "closed"}

(* The events a connection's fiber has yet to read: the snapshot first,    *)
(* and only before the connection is admitted.                             *)
Events(c) == conn[c].events
EventsOK(c) ==
    /\ conn[c].pc \notin {"waiting"} \cup Admitted => Events(c) = <<>>
    /\ \A i \in 1..Len(Events(c)) :
          Events(c)[i] \in IF conn[c].pc = "waiting" /\ i = 1 THEN Snapshot ELSE Change
    /\ conn[c].pc = "waiting" /\ Events(c) # <<>> => conn[c].kind = "control"

(* Of each kind the runner's own connection alone may work.                *)
UpOK(c) ==
    conn[c].up => /\ conn[c].pc \in {"identify", "waiting"} \cup Admitted
                  /\ dialed[conn[c].kind] = c

(* Whether anything under way, read or not, says how a session stands.     *)
Tells(e, s) == e.type = "changed" /\ e.session = s
NoneIn(c, s) == \A i \in 1..Len(Events(c)) : ~Tells(Events(c)[i], s)
Blank(c, s) == \A i \in 1..Len(Events(c)) :
    Events(c)[i].type = "snapshot" => Events(c)[i].env[s] = "none"
Mute(x, s) == \A n \in sending[x] : ~Tells(n, s)
Unsaid(s) ==
    /\ \A x \in Speakers : Mute(x, s)
    /\ \A n \in late : ~Tells(n, s)
    /\ \A c \in Connections : NoneIn(c, s)
Unseen(s) == \A c \in Connections : Blank(c, s)

(* Nobody speaks of an environment before it is created, unless its        *)
(* deletion has been asked for: then none will be created.                 *)
NewOK(s) ==
    env[s] = "none" /\ view[s].state = "none" /\ call[s].op # "delete" =>
        Unsaid(s) /\ Unseen(s)

(* A call and the environment it is about.                                 *)
CallOK(s) ==
    /\ call[s].pc # "idle" =>
          /\ call[s].on \in Connections /\ conn[call[s].on].kind = "control"
          /\ conn[call[s].on].pc \notin {"identify", "waiting"}
          /\ call[s].op = "control" => view[s].state # "none"
    /\ env[s] = "none" /\ call[s].op # "delete" => view[s].state \in {"none", "deleted"}
    /\ call[s].pc # "idle" => view[s].state # "deleted"
    /\ call[s].pc \in {"done", "accepted"} /\ call[s].op = "delete" => env[s] = "none"
    /\ call[s].pc \in {"done", "accepted"} /\ call[s].op # "delete" =>
          call[s].state \in States /\ env[s] # "none"

(* What a Session that has no environment yet does not have either.        *)
LinkOK(s) ==
    /\ view[s].state = "none" => env[s] # "running"
    /\ s \in link => view[s].state \in States
    /\ view[s].reachable => view[s].state \in States

(* The latest event about a session tells how it stands.                   *)
Last(c, s) == \E i \in 1..Len(Events(c)) :
    /\ Tells(Events(c)[i], s) /\ Events(c)[i].state = env[s]
    /\ \A j \in 1..Len(Events(c)) : j > i => ~Tells(Events(c)[j], s)

(* The snapshot of the runner's current connection has what exists; with   *)
(* the changes after it, as it is.                                         *)
Snapped(c, s) ==
    /\ Events(c)[1].env[s] # "none"
    /\ conn[c].up => Last(c, s) \/ (NoneIn(c, s) /\ Events(c)[1].env[s] = env[s])
SnapshotOK(c) ==
    dialed["control"] = c /\ conn[c].pc = "waiting" /\ Events(c) # <<>> =>
        \A s \in Sessions : env[s] # "none" => Snapped(c, s)

(* A session that the registered connection does not host is one nobody    *)
(* has heard of, whose creation is under way at most.                      *)
Hosts == slot["control"] # None /\ (conn[slot["control"]].up \/ mishap = "none")
HostOK(s) ==
    Hosts /\ env[s] # "none" /\ s \notin hosted =>
        /\ view[s].state = "none" /\ Unsaid(s)
        /\ call[s].pc # "accepted"
        /\ call[s].pc = "done" => call[s].on = slot["control"]

(* A link that outlasts a revocation has its notice under way.             *)
UnlinkOK(s) ==
    revoke \in {"closing", "closed"} /\ mishap = "none" /\ restarts = 0
    /\ s \in link /\ env[s] # "none" =>
        revoke = "closing" /\ RevokedNotice(s) \in sending[Revoker]

(* The last said of a session, in the events, the notices or at the        *)
(* Session itself, is how it stands.                                       *)
Noticed(c, s) ==
    /\ Changed(s, env[s]) \in sending[c]
    /\ \A n \in sending[c] : Tells(n, s) => n = Changed(s, env[s])
Seen(c, s) ==
    /\ Mute(c, s)
    /\ view[s].state \in States => view[s] = [state |-> env[s], reachable |-> TRUE]
    /\ call[s].pc \in {"done", "accepted"} => call[s].state = env[s]
ViewOK(c, s) ==
    slot["control"] = c /\ conn[c].up /\ mishap = "none"
    /\ revoke \in {"no", "revoked"} /\ env[s] # "none" =>
        Last(c, s) \/ (NoneIn(c, s) /\ (Noticed(c, s) \/ Seen(c, s)))

(* A Session not yet told of a loss is about to be.                        *)
Losing(s) ==
    \/ \E x \in Connections : conn[x].pc = "losing" /\ Unreachable(s) \in sending[x]
    \/ RevokedNotice(s) \in sending[Revoker]
LostOK(s) ==
    mishap = "none" /\ restarts = 0 /\ slot["control"] = None /\ env[s] # "none"
    /\ (view[s].reachable \/ call[s].pc = "accepted") => Losing(s)

(* The revoker alone tells of a revocation, and nothing before it is one;  *)
(* a notice given up on is a mishap.                                       *)
NoticesOK ==
    /\ \A x \in Speakers : \A n \in sending[x] : n.type = "revoked" <=> x = Revoker
    /\ revoke \in {"no", "revoked"} => sending[Revoker] = {}
    /\ late # {} => mishap = "some"

ConnsOK == \A c \in Connections : EventsOK(c) /\ UpOK(c) /\ SnapshotOK(c)
SessionsOK == \A s \in Sessions :
    NewOK(s) /\ CallOK(s) /\ LinkOK(s) /\ HostOK(s) /\ UnlinkOK(s) /\ LostOK(s)
ViewsOK == \A c \in Connections : \A s \in Sessions : ViewOK(c, s)
KInv == KType /\ ConnsOK /\ SessionsOK /\ ViewsOK /\ NoticesOK
-----------------------------------------------------------------------------
(* Sequences of events, and what they tell.                                *)

LEMMA AppendOne ==
  ASSUME NEW S, NEW q \in Seq(S), NEW e \in S
  PROVE  /\ Append(q, e) \in Seq(S) /\ Len(q) \in Nat
         /\ Len(Append(q, e)) = Len(q) + 1 /\ Append(q, e) # <<>>
         /\ \A i \in 1..Len(q) : Append(q, e)[i] = q[i]
         /\ Append(q, e)[Len(q) + 1] = e
OBVIOUS

(* What is left of a sequence of events once its first is read.            *)
LEMMA TailOne ==
  ASSUME NEW S, NEW q \in Seq(S), q # <<>>
  PROVE  /\ Tail(q) \in Seq(S) /\ Len(q) \in Nat \ {0}
         /\ Len(Tail(q)) = Len(q) - 1
         /\ \A i \in 1..(Len(q) - 1) : Tail(q)[i] = q[i + 1]
         /\ Head(q) = q[1]
OBVIOUS

(* What is told by what.                                                   *)
LEMMA TellsFacts ==
  /\ \A e \in Change : e.type = "changed" /\ e.session \in Sessions /\ e.state \in States
  /\ \A e \in Snapshot : e.type = "snapshot" /\ e.env \in [Sessions -> Environment]
  /\ \A s \in Sessions, state \in States :
        /\ Changed(s, state) \in Notice /\ Changed(s, state) \in Change
        /\ Changed(s, state).type = "changed" /\ Changed(s, state).session = s
        /\ Changed(s, state).state = state
  /\ \A s \in Sessions :
        /\ Unreachable(s) \in Notice /\ RevokedNotice(s) \in Notice
        /\ Unreachable(s).type = "unreachable" /\ Unreachable(s).session = s
        /\ Unreachable(s).state = "none"
        /\ RevokedNotice(s).type = "revoked" /\ RevokedNotice(s).session = s
        /\ RevokedNotice(s).state = "none"
  /\ \A n \in Notice :
        /\ n.session \in Sessions
        /\ n.type \in {"changed", "unreachable", "revoked"}
        /\ n.type = "changed" => n.state \in States /\ n = Changed(n.session, n.state)
        /\ n.type # "changed" => n.state = "none"
BY DEF Change, Snapshot, Notice, Changed, Unreachable, RevokedNotice

(* What a connection and its events are.                                   *)
LEMMA ConnFacts ==
  ASSUME ConnType, NEW c \in Connections
  PROVE  /\ conn[c] \in Connection
         /\ Events(c) \in Seq(Snapshot \cup Change) /\ Len(Events(c)) \in Nat
         /\ Events(c) # <<>> <=> Len(Events(c)) > 0
         /\ conn[c].kind \in Kinds /\ conn[c].up \in BOOLEAN
<1>1. conn[c] \in Connection
  BY DEF ConnType
<1>2. conn[c].events \in Seq(Snapshot \cup Change) /\ conn[c].kind \in Kinds
      /\ conn[c].up \in BOOLEAN
  BY <1>1, RecordTypes
<1> QED
  BY <1>1, <1>2 DEF Events
-----------------------------------------------------------------------------
(* Steps of a fiber that tell nobody anything.                             *)

Rest == <<env, dialed, slot, hosted, late, call, view, link, revoke, restarts, mishap>>
Live == {"identify", "waiting"} \cup Admitted
Fading(c) ==
    /\ conn' \in [Connections -> Connection]
    /\ \A d \in Connections : d # c => conn'[d] = conn[d]
    /\ conn'[c].kind = conn[c].kind
    /\ conn'[c].up => conn[c].up /\ Events(c)' = Events(c) /\ conn'[c].pc \in Live
    /\ Events(c)' = Events(c) \/ Events(c)' = <<>>
    /\ conn'[c].pc \in {"identify", "waiting"} => conn[c].pc \in {"identify", "waiting"}
    /\ conn'[c].pc = "waiting" /\ Events(c)' # <<>> => conn[c].pc = "waiting"
    /\ conn'[c].pc # "waiting" /\ Events(c)' # <<>> =>
          conn'[c].pc \in Admitted /\ conn[c].pc \in Admitted
    /\ conn[c].pc = "losing" => conn'[c].pc = "losing" \/ sending[c] = {}
    /\ \/ sending' = sending
       \/ sending' = [sending EXCEPT ![c] = {}] /\ conn[c].pc = "confirm" /\ ~conn'[c].up
    /\ UNCHANGED Rest

(* A step of a fiber that tells nobody anything, and whose connection at   *)
(* most stops working, keeps the invariant.                                *)
LEMMA FadingKeeps ==
  ASSUME ConnType, KInv, NEW c \in Connections, Fading(c)
  PROVE  KInv'
<1>1. KType /\ ConnsOK /\ SessionsOK /\ ViewsOK /\ NoticesOK
  BY DEF KInv
<1>2. UNCHANGED Rest
  BY DEF Fading
<1>3. /\ sending \in [Speakers -> SUBSET Notice] /\ Revoker \in Speakers
      /\ Revoker # c /\ c \in Speakers
  BY <1>1, NoneAssumption DEF KType, Speakers
<1>4. /\ sending' \in [Speakers -> SUBSET Notice]
      /\ \A x \in Speakers : sending'[x] = sending[x] \/ (sending'[x] = {} /\ x = c)
      /\ sending'[Revoker] = sending[Revoker]
      /\ sending'[c] = sending[c] \/ (conn[c].pc = "confirm" /\ ~conn'[c].up)
  BY <1>3 DEF Fading
<1>5. KType'
  BY <1>1, <1>2, <1>4 DEF KType, Rest
<1>6. /\ \A d \in Connections : d # c => conn'[d] = conn[d] /\ Events(d)' = Events(d)
      /\ \A d \in Connections : Events(d)' = Events(d) \/ Events(d)' = <<>>
  BY DEF Fading, Events
<1>7. ASSUME NEW d \in Connections
      PROVE  (EventsOK(d) /\ UpOK(d) /\ SnapshotOK(d))'
  <2>1. EventsOK(d) /\ UpOK(d) /\ SnapshotOK(d)
    BY <1>1 DEF ConnsOK
  <2>2. CASE d # c
    <3>1. conn'[d] = conn[d] /\ Events(d)' = Events(d)
      BY <1>6, <2>2
    <3> QED
      BY <1>2, <2>1, <3>1 DEF EventsOK, UpOK, SnapshotOK, Snapped, Rest, Last,
         NoneIn
  <2>3. CASE d = c
    <3>1. EventsOK(c)'
      <4>1. CASE Events(c)' = <<>>
        BY <4>1 DEF EventsOK
      <4>2. CASE Events(c)' = Events(c) /\ Events(c)' # <<>>
        <5>1. /\ \/ conn'[c].pc = "waiting" /\ conn[c].pc = "waiting"
                 \/ conn'[c].pc \in Admitted /\ conn[c].pc \in Admitted
              /\ conn'[c].kind = conn[c].kind
          BY <4>2 DEF Fading
        <5> QED
          BY <2>1, <2>3, <4>2, <5>1 DEF EventsOK, Admitted
      <4> QED
        BY <4>1, <4>2 DEF Fading
    <3>2. UpOK(c)'
      BY <1>2, <2>1, <2>3 DEF UpOK, Fading, Rest, Live
    <3>3. SnapshotOK(c)'
      BY <1>2, <2>1, <2>3 DEF SnapshotOK, Snapped, Fading, Rest, Last, NoneIn
    <3> QED
      BY <2>3, <3>1, <3>2, <3>3
  <2> QED
    BY <2>2, <2>3
<1>8. ASSUME NEW s \in Sessions
      PROVE  (Unsaid(s) => Unsaid(s)') /\ (Unseen(s) => Unseen(s)')
  <2>1. \A d \in Connections : (NoneIn(d, s) => NoneIn(d, s)') /\ (Blank(d, s) => Blank(d, s)')
    BY <1>6 DEF NoneIn, Blank
  <2>2. \A x \in Speakers : Mute(x, s) => Mute(x, s)'
    BY <1>4 DEF Mute
  <2> QED
    BY <1>2, <2>1, <2>2 DEF Unsaid, Unseen, Rest
<1>9. ASSUME NEW s \in Sessions
      PROVE  (NewOK(s) /\ CallOK(s) /\ LinkOK(s) /\ HostOK(s) /\ UnlinkOK(s) /\ LostOK(s))'
  <2>1. NewOK(s) /\ CallOK(s) /\ LinkOK(s) /\ HostOK(s) /\ UnlinkOK(s) /\ LostOK(s)
    BY <1>1 DEF SessionsOK
  <2>2. NewOK(s)'
    BY <1>2, <1>8, <2>1 DEF NewOK, Rest
  <2>3. CallOK(s)'
    <3>1. /\ \A d \in Connections : conn'[d].kind = conn[d].kind
          /\ \A d \in Connections : conn'[d].pc \in {"identify", "waiting"} =>
                conn[d].pc \in {"identify", "waiting"}
      BY DEF Fading
    <3> QED
      BY <1>2, <2>1, <3>1 DEF CallOK, Rest
  <2>4. LinkOK(s)' /\ UnlinkOK(s)'
    BY <1>2, <1>4, <2>1 DEF LinkOK, UnlinkOK, Rest
  <2>5. HostOK(s)'
    <3>1. slot["control"] # None => slot["control"] \in Connections
      BY KindsAssumption DEF ConnType
    <3>2. \A d \in Connections : conn'[d].up => conn[d].up
      BY <1>6 DEF Fading
    <3>3. Hosts' => Hosts
      BY <1>2, <3>1, <3>2 DEF Hosts, Rest
    <3> QED
      BY <1>2, <1>8, <2>1, <3>3 DEF HostOK, Rest
  <2>6. LostOK(s)'
    <3>1. \A x \in Connections : conn[x].pc = "losing" /\ Unreachable(s) \in sending[x] =>
             conn'[x].pc = "losing" /\ Unreachable(s) \in sending'[x]
      BY <1>4, <1>6 DEF Fading, Speakers
    <3> QED
      BY <1>2, <1>4, <2>1, <3>1 DEF LostOK, Losing, Rest
  <2> QED
    BY <2>2, <2>3, <2>4, <2>5, <2>6
<1>10. ASSUME NEW d \in Connections, NEW s \in Sessions
       PROVE  ViewOK(d, s)'
  <2>1. ViewOK(d, s)
    BY <1>1 DEF ViewsOK
  <2>2. conn'[d].up => conn[d].up /\ Events(d)' = Events(d) /\ sending'[d] = sending[d]
    BY <1>4, <1>6 DEF Fading, Speakers
  <2> QED
    BY <1>2, <2>1, <2>2 DEF ViewOK, Last, NoneIn, Noticed, Seen, Mute, Rest
<1>11. NoticesOK'
  BY <1>1, <1>2, <1>4 DEF NoticesOK, Rest
<1> QED
  BY <1>5, <1>7, <1>9, <1>10, <1>11 DEF KInv, ConnsOK, SessionsOK, ViewsOK

(* The steps of that kind, and a broken socket.                            *)
LEMMA FiberFades ==
  ASSUME ConnType, KInv, NEW c \in Connections,
         \/ Authenticate(c) \/ Refuse(c) \/ Confirm(c) \/ ConfirmFails(c)
         \/ EndWatch(c) \/ Leave(c) \/ Break(c)
  PROVE  Fading(c)
<1>1. EventsOK(c) /\ UpOK(c) /\ conn[c] \in Connection
  BY DEF KInv, ConnsOK, ConnType
<1>2. UNCHANGED Rest
  BY DEF Rest, Authenticate, Refuse, Confirm, ConfirmFails, EndWatch, Leave,
     Break, runner,
         gateway, session
<1>3. ASSUME NEW r \in Connection, conn' = [conn EXCEPT ![c] = r]
      PROVE  /\ conn' \in [Connections -> Connection] /\ conn'[c] = r
             /\ \A d \in Connections : d # c => conn'[d] = conn[d]
  BY <1>3, UpdateOne
<1>4. CASE Authenticate(c) \/ Confirm(c)
  <2> DEFINE r == [conn[c] EXCEPT !.pc = IF Authenticate(c) THEN "waiting" ELSE "serving"]
  <2>1. conn' = [conn EXCEPT ![c] = r] /\ sending' = sending
    BY <1>4 DEF Authenticate, Confirm
  <2>2. /\ r \in Connection /\ r.kind = conn[c].kind /\ r.up = conn[c].up
        /\ r.events = conn[c].events
        /\ r.pc \in {"waiting", "serving"}
        /\ r.pc = "waiting" => conn[c].pc = "identify"
        /\ r.pc = "serving" => conn[c].pc = "confirm"
    <3>1. CASE Authenticate(c)
      BY <1>1, <3>1 DEF Authenticate, At, Connection
    <3>2. CASE ~Authenticate(c)
      BY <1>1, <1>4, <3>2 DEF Confirm, At, Connection
    <3> QED
      BY <3>1, <3>2
  <2> HIDE DEF r
  <2> QED
    BY <1>1, <1>2, <1>3, <2>1, <2>2 DEF Fading, Events, EventsOK, Live, Admitted
<1>5. ASSUME NEW pc \in {"gone", "ending", "losing"}, Ended(c, pc), conn[c].pc # "losing",
             \/ sending' = sending
             \/ sending' = [sending EXCEPT ![c] = {}] /\ conn[c].pc = "confirm"
      PROVE  Fading(c)
  <2> DEFINE r == [Fresh(conn[c].kind) EXCEPT !.pc = pc]
  <2>1. conn' = [conn EXCEPT ![c] = r]
    BY <1>5 DEF Ended
  <2>2. /\ r \in Connection /\ r.kind = conn[c].kind /\ ~r.up
        /\ r.events = <<>> /\ r.pc = pc
    <3>1. conn[c].kind \in Kinds
      BY ConnFacts
    <3> QED
      BY <3>1, EventsType DEF Fresh, Connection
  <2> HIDE DEF r
  <2> QED
    BY <1>2, <1>3, <1>5, <2>1, <2>2 DEF Fading, Events
<1>6. CASE Refuse(c) \/ ConfirmFails(c) \/ EndWatch(c)
  BY <1>5, <1>6 DEF Refuse, ConfirmFails, EndWatch, At
<1>7. CASE Leave(c)
  <2> DEFINE r == Fresh(conn[c].kind)
  <2>1. conn' = [conn EXCEPT ![c] = r] /\ sending' = sending /\ sending[c] = {}
    BY <1>7 DEF Leave
  <2>2. /\ r \in Connection /\ r.kind = conn[c].kind /\ ~r.up
        /\ r.events = <<>> /\ r.pc = "gone"
    <3>1. conn[c].kind \in Kinds
      BY ConnFacts
    <3> QED
      BY <3>1, FreshType DEF Fresh
  <2> HIDE DEF r
  <2> QED
    BY <1>2, <1>3, <2>1, <2>2 DEF Fading, Events
<1>8. CASE Break(c)
  <2> DEFINE r == [conn[c] EXCEPT !.up = FALSE]
  <2>1. conn' = [conn EXCEPT ![c] = r] /\ sending' = sending
    BY <1>8 DEF Break
  <2>2. /\ r \in Connection /\ r.kind = conn[c].kind /\ ~r.up
        /\ r.events = conn[c].events /\ r.pc = conn[c].pc
    BY <1>1 DEF Connection
  <2> HIDE DEF r
  <2> QED
    BY <1>1, <1>2, <1>3, <2>1, <2>2 DEF Fading, Events, EventsOK
<1> QED
  BY <1>4, <1>6, <1>7, <1>8
-----------------------------------------------------------------------------
(* Steps that leave the connections and the environments as they are.      *)

LEMMA MishapFacts ==
  ASSUME NEW happens \in BOOLEAN, Mishap(happens)
  PROVE  /\ mishap' = "none" => mishap = "none" /\ ~happens
         /\ mishap = "some" => mishap' = "some"
         /\ happens => mishap' = "some"
BY DEF Mishap

(* What is said of connections depends on them and on the environments.    *)
LEMMA StillConns ==
  ASSUME ConnsOK, UNCHANGED <<env, dialed, conn>>
  PROVE  ConnsOK'
<1>1. \A c \in Connections : EventsOK(c)' /\ UpOK(c)'
  BY DEF ConnsOK, EventsOK, UpOK, Events
<1>2. \A c \in Connections : SnapshotOK(c)'
  BY DEF ConnsOK, SnapshotOK, Snapped, Last, NoneIn, Events
<1> QED
  BY <1>1, <1>2 DEF ConnsOK

(* Links come and go, and a revocation goes on.                            *)
LEMMA LinkKeeps ==
  ASSUME KInv, NEW s \in Sessions, LinkAttached(s) \/ LinkLost(s)
  PROVE  KInv'
<1>1. KType /\ ConnsOK /\ SessionsOK /\ ViewsOK /\ NoticesOK
  BY DEF KInv
<1>2. /\ UNCHANGED <<env, dialed, slot, hosted, revoke, late, restarts, conn, sending,
                     call, view, mishap>>
      /\ link' \in SUBSET Sessions
      /\ \A t \in link' : t \in link \/
            (revoke = "no" /\ view[t].state # "deleted" /\ env[t] = "running")
  BY <1>1 DEF LinkAttached, LinkLost, runner, gateway, KType, Revoked
<1>3. KType' /\ ConnsOK' /\ NoticesOK'
  BY <1>1, <1>2, StillConns DEF KType, NoticesOK
<1>4. ViewsOK'
  BY <1>1, <1>2 DEF ViewsOK, ViewOK, Last, NoneIn, Noticed, Seen, Mute, Events
<1>5. ASSUME NEW t \in Sessions
      PROVE  (NewOK(t) /\ CallOK(t) /\ LinkOK(t) /\ HostOK(t) /\ UnlinkOK(t) /\ LostOK(t))'
  <2>1. NewOK(t) /\ CallOK(t) /\ LinkOK(t) /\ HostOK(t) /\ UnlinkOK(t) /\ LostOK(t)
    BY <1>1 DEF SessionsOK
  <2>2. NewOK(t)' /\ CallOK(t)' /\ HostOK(t)' /\ LostOK(t)'
    BY <1>2, <2>1 DEF NewOK, Unsaid, Unseen, Mute, NoneIn, Blank, Events,
       CallOK, HostOK,
                      Hosts, LostOK, Losing
  <2>3. view[t].state \in Environment \cup {"deleted"}
    BY <1>1 DEF KType, View
  <2>4. LinkOK(t)' /\ UnlinkOK(t)'
    BY <1>2, <2>1, <2>3 DEF LinkOK, UnlinkOK, Environment
  <2> QED
    BY <2>2, <2>4
<1> QED
  BY <1>3, <1>4, <1>5 DEF KInv, SessionsOK

(* A revocation goes on, or nothing happens: once every notice is told, no *)
(* link is left.                                                           *)
LEMMA RevokeKeeps ==
  ASSUME KInv, Revoke \/ RevocationEnds \/ UNCHANGED vars
  PROVE  KInv'
<1>1. KType /\ ConnsOK /\ SessionsOK /\ ViewsOK /\ NoticesOK
  BY DEF KInv
<1>2. /\ UNCHANGED <<env, dialed, slot, hosted, late, restarts, conn, sending, call, view,
                     link, mishap>>
      /\ \/ revoke' = revoke
         \/ revoke = "no" /\ revoke' = "revoked"
         \/ revoke = "closing" /\ revoke' = "closed" /\ sending[Revoker] = {}
  BY DEF Revoke, RevocationEnds, vars, runner, session
<1>3. KType' /\ ConnsOK' /\ NoticesOK'
  BY <1>1, <1>2, StillConns DEF KType, NoticesOK
<1>4. ViewsOK'
  BY <1>1, <1>2 DEF ViewsOK, ViewOK, Last, NoneIn, Noticed, Seen, Mute, Events
<1>5. ASSUME NEW t \in Sessions
      PROVE  (NewOK(t) /\ CallOK(t) /\ LinkOK(t) /\ HostOK(t) /\ UnlinkOK(t) /\ LostOK(t))'
  <2>1. NewOK(t) /\ CallOK(t) /\ LinkOK(t) /\ HostOK(t) /\ UnlinkOK(t) /\ LostOK(t)
    BY <1>1 DEF SessionsOK
  <2>2. NewOK(t)' /\ CallOK(t)' /\ HostOK(t)' /\ LostOK(t)'
    BY <1>2, <2>1 DEF NewOK, Unsaid, Unseen, Mute, NoneIn, Blank, Events,
       CallOK, HostOK,
                      Hosts, LostOK, Losing
  <2>3. LinkOK(t)' /\ UnlinkOK(t)'
    BY <1>2, <2>1 DEF LinkOK, UnlinkOK
  <2> QED
    BY <2>2, <2>3
<1> QED
  BY <1>3, <1>4, <1>5 DEF KInv, SessionsOK
-----------------------------------------------------------------------------
(* A Session's call, but for its service by the runner.                    *)

LEMMA UnansweredFacts ==
  ASSUME NEW s \in Sessions
  PROVE  /\ Unanswered(s) \in Call /\ Unanswered(s).pc = "idle"
         /\ Unanswered(s).op = "delete" <=> call[s].op = "delete"
BY DEF Unanswered, NoCall, Call, Environment

LEMMA CallKeeps ==
  ASSUME RInv, KInv, NEW s \in Sessions,
         \/ \E op \in {"create", "control", "delete"} : CallBegins(s, op)
         \/ CallFails(s) \/ CallAccepted(s) \/ CallReported(s)
  PROVE  KInv'
<1>1. /\ KType /\ ConnsOK /\ SessionsOK /\ ViewsOK /\ NoticesOK
      /\ NewOK(s) /\ CallOK(s) /\ LinkOK(s) /\ HostOK(s) /\ UnlinkOK(s) /\ LostOK(s)
      /\ call[s] \in Call /\ view[s] \in View
  BY DEF KInv, SessionsOK, KType
<1>2. /\ UNCHANGED <<env, dialed, slot, revoke, late, restarts, conn, sending>>
      /\ \A t \in Sessions \ {s} : /\ call'[t] = call[t] /\ view'[t] = view[t]
                                   /\ t \in link' <=> t \in link
                                   /\ t \in hosted' <=> t \in hosted
      /\ mishap' = "none" => mishap = "none"
      /\ mishap = "some" => mishap' = "some"
      /\ link' \subseteq link
  BY <1>1, MishapFacts DEF CallBegins, CallFails, CallAccepted, CallReported,
     runner, gateway,
              KType
<1>3. ConnsOK' /\ NoticesOK'
  BY <1>1, <1>2, StillConns DEF NoticesOK
<1>4. \A t \in Sessions : (Unsaid(t)' <=> Unsaid(t)) /\ (Unseen(t)' <=> Unseen(t))
  BY <1>2 DEF Unsaid, Unseen, Mute, NoneIn, Blank, Events
<1>5. ASSUME NEW t \in Sessions, t # s
      PROVE  (NewOK(t) /\ CallOK(t) /\ LinkOK(t) /\ HostOK(t) /\ UnlinkOK(t) /\ LostOK(t))'
  <2>1. NewOK(t) /\ CallOK(t) /\ LinkOK(t) /\ HostOK(t) /\ UnlinkOK(t) /\ LostOK(t)
    BY <1>1 DEF SessionsOK
  <2>2. NewOK(t)' /\ CallOK(t)' /\ LinkOK(t)'
    BY <1>2, <1>4, <1>5, <2>1 DEF NewOK, CallOK, LinkOK
  <2>3. HostOK(t)' /\ UnlinkOK(t)' /\ LostOK(t)'
    BY <1>2, <1>4, <1>5, <2>1 DEF HostOK, Hosts, UnlinkOK, LostOK, Losing
  <2> QED
    BY <2>2, <2>3
<1>6. ASSUME NEW c \in Connections, NEW t \in Sessions, t # s
      PROVE  ViewOK(c, t)'
  BY <1>1, <1>2, <1>6 DEF ViewsOK, ViewOK, Last, NoneIn, Noticed, Seen, Mute,
     Events
<1>7. ASSUME KType',
             (NewOK(s) /\ CallOK(s) /\ LinkOK(s) /\ HostOK(s) /\ UnlinkOK(s) /\ LostOK(s))',
             \A c \in Connections : ViewOK(c, s)'
      PROVE  KInv'
  BY <1>3, <1>5, <1>6, <1>7 DEF KInv, SessionsOK, ViewsOK
<1>8. ASSUME NEW c \in Connections,
             view'[s] = view[s], call'[s].pc \in {"done", "accepted"} =>
                call[s].pc \in {"done", "accepted"} /\ call'[s].state = call[s].state
      PROVE  ViewOK(c, s)'
  BY <1>1, <1>2, <1>8 DEF ViewsOK, ViewOK, Last, NoneIn, Noticed, Seen, Mute,
     Events
<1>9. ASSUME NEW op \in {"create", "control", "delete"}, CallBegins(s, op)
      PROVE  KInv'
  <2> DEFINE new == [pc |-> "sent", op |-> op, on |-> slot["control"], state |-> "none"]
  <2>1. /\ call' = [call EXCEPT ![s] = new]
        /\ UNCHANGED <<hosted, view, link, mishap>>
        /\ slot["control"] # None
    BY <1>9 DEF CallBegins, gateway
  <2>2. slot["control"] \in Connections
    BY <1>9, KindsAssumption DEF CallBegins, RInv, ConnType
  <2>3. new \in Call /\ new.pc = "sent" /\ new.op = op /\ new.on = slot["control"]
    BY <2>2 DEF Call, Environment
  <2> HIDE DEF new
  <2>4. KType' /\ call'[s] = new
    BY <1>1, <1>2, <2>1, <2>3 DEF KType
  <2>5. CallOK(s)'
    <3>1. /\ conn[slot["control"]].kind = "control"
          /\ conn[slot["control"]].pc \notin {"identify", "waiting"}
      BY <2>2, KindsAssumption, NoneAssumption DEF RInv, RegisteredIsServed
    <3>2. /\ call[s].pc = "idle" /\ view[s].state # "deleted"
          /\ call[s].op = "delete" => op = "delete"
          /\ op = "control" => view[s].state # "none"
      BY <1>9 DEF CallBegins
    <3> QED
      BY <1>1, <1>2, <2>1, <2>2, <2>3, <2>4, <3>1, <3>2 DEF CallOK
  <2>a. call[s].op = "delete" => op = "delete"
    BY <1>9 DEF CallBegins
  <2>b. call[s].pc = "idle"
    BY <1>9 DEF CallBegins
  <2>6. (NewOK(s) /\ LinkOK(s) /\ HostOK(s) /\ UnlinkOK(s) /\ LostOK(s))'
    BY <1>1, <1>2, <1>4, <2>1, <2>3, <2>4, <2>a, <2>b
    DEF NewOK, LinkOK, HostOK, Hosts, UnlinkOK, LostOK, Losing
  <2>7. \A c \in Connections : ViewOK(c, s)'
    BY <1>8, <2>1, <2>3, <2>4
  <2> QED
    BY <1>7, <2>4, <2>5, <2>6, <2>7
<1>10. CASE CallFails(s)
  <2>1. /\ call' = [call EXCEPT ![s] = Unanswered(s)]
        /\ UNCHANGED <<hosted, view, link, mishap>>
    BY <1>10 DEF CallFails, gateway
  <2>2. /\ Unanswered(s) \in Call /\ Unanswered(s).pc = "idle"
        /\ Unanswered(s).op = "delete" <=> call[s].op = "delete"
    BY UnansweredFacts
  <2>3. KType' /\ call'[s] = Unanswered(s)
    BY <1>1, <1>2, <2>1, <2>2 DEF KType
  <2>4. (NewOK(s) /\ CallOK(s) /\ LinkOK(s) /\ HostOK(s) /\ UnlinkOK(s) /\ LostOK(s))'
    BY <1>1, <1>2, <1>4, <2>1, <2>2, <2>3 DEF NewOK, CallOK, LinkOK, HostOK,
       Hosts, UnlinkOK,
                                              LostOK, Losing
  <2>5. \A c \in Connections : ViewOK(c, s)'
    BY <1>8, <2>1, <2>2, <2>3
  <2> QED
    BY <1>7, <2>3, <2>4, <2>5
<1>11. CASE CallAccepted(s)
  <2> DEFINE new == [call[s] EXCEPT !.pc = "accepted"]
  <2>1. /\ call' = [call EXCEPT ![s] = new] /\ UNCHANGED <<view, link>>
        /\ call[s].pc = "done"
        /\ hosted' = IF slot["control"] # call[s].on THEN hosted
                     ELSE IF call[s].op = "delete" THEN hosted \ {s}
                     ELSE hosted \cup {s}
        /\ mishap' = "none" => slot["control"] = call[s].on
    BY <1>11, MishapFacts DEF CallAccepted
  <2>2. /\ new \in Call /\ new.pc = "accepted" /\ new.op = call[s].op
        /\ new.on = call[s].on /\ new.state = call[s].state
    BY <1>1 DEF Call
  <2> HIDE DEF new
  <2>3. KType' /\ call'[s] = new
    BY <1>1, <1>2, <2>1, <2>2 DEF KType
  <2>4. (NewOK(s) /\ CallOK(s) /\ LinkOK(s))'
    BY <1>1, <1>2, <1>4, <2>1, <2>2, <2>3 DEF NewOK, CallOK, LinkOK
  <2>5. HostOK(s)' /\ UnlinkOK(s)'
    BY <1>1, <1>2, <1>4, <2>1, <2>2, <2>3 DEF HostOK, Hosts, UnlinkOK, CallOK
  <2>6. LostOK(s)'
    BY <1>1, <1>2, <2>1, NoneAssumption DEF LostOK, Losing, CallOK
  <2>7. \A c \in Connections : ViewOK(c, s)'
    BY <1>8, <2>1, <2>2, <2>3
  <2> QED
    BY <1>7, <2>3, <2>4, <2>5, <2>6, <2>7
<1>12. CASE CallReported(s)
  <2> DEFINE new == IF call[s].op = "delete"
                    THEN [state |-> "deleted", reachable |-> FALSE]
                    ELSE [state |-> call[s].state, reachable |-> TRUE]
  <2>1. /\ call' = [call EXCEPT ![s] = NoCall] /\ UNCHANGED <<hosted, mishap>>
        /\ view' = [view EXCEPT ![s] = new]
        /\ call[s].pc = "accepted"
        /\ link' = IF call[s].op = "delete" THEN link \ {s} ELSE link
    BY <1>12 DEF CallReported, gateway
  <2>2. NoCall \in Call /\ NoCall.pc = "idle"
    BY DEF NoCall, Call, Environment
  <2>3. /\ new \in View
        /\ call[s].op = "delete" => new.state = "deleted" /\ ~new.reachable
                                    /\ env[s] = "none"
        /\ call[s].op # "delete" =>
              /\ new.state = call[s].state /\ new.reachable
              /\ new = [state |-> call[s].state, reachable |-> TRUE]
              /\ call[s].state \in States /\ env[s] # "none"
    BY <1>1, <2>1 DEF CallOK, View, Environment
  <2> HIDE DEF new
  <2>4. KType' /\ call'[s] = NoCall /\ view'[s] = new
    BY <1>1, <1>2, <2>1, <2>2, <2>3 DEF KType
  <2>5. new.state # "none" /\ "deleted" \notin States
    BY <2>3 DEF States
  <2>6. (NewOK(s) /\ CallOK(s) /\ LinkOK(s))'
    BY <1>1, <1>2, <2>1, <2>2, <2>3, <2>4, <2>5 DEF NewOK, CallOK, LinkOK
  <2>7. (HostOK(s) /\ UnlinkOK(s) /\ LostOK(s))'
    BY <1>1, <1>2, <2>1, <2>2, <2>3, <2>4 DEF HostOK, Hosts, UnlinkOK, LostOK,
       Losing
  <2>8. \A c \in Connections : ViewOK(c, s)'
    <3>1. SUFFICES ASSUME NEW c \in Connections, env[s] # "none"
                   PROVE  ViewOK(c, s)'
      BY <1>2 DEF ViewOK
    <3>2. ViewOK(c, s) /\ call[s].op # "delete"
      BY <1>1, <2>3, <3>1 DEF ViewsOK
    <3>3. Seen(c, s) => Seen(c, s)'
      BY <1>2, <2>1, <2>2, <2>3, <2>4, <3>2 DEF Seen, Mute
    <3> QED
      BY <1>2, <2>1, <3>2, <3>3 DEF ViewOK, Last, NoneIn, Noticed, Events
  <2> QED
    BY <1>7, <2>4, <2>6, <2>7, <2>8
<1> QED
  BY <1>9, <1>10, <1>11, <1>12
-----------------------------------------------------------------------------
(* A Session hears a notice.                                               *)

(* A notice leaves its sender's list, or the late ones, where it may go.   *)
Given(n) ==
    /\ n \in Notice
    /\ (\E x \in Speakers : n \in sending[x]) \/ n \in late
    /\ sending' \in [Speakers -> SUBSET Notice]
    /\ \A x \in Speakers : sending'[x] \subseteq sending[x]
    /\ late' \subseteq late \cup {n}
    /\ UNCHANGED <<env, dialed, slot, hosted, revoke, restarts, conn, call>>

(* A notice that is heard adds nothing to what is said of a session.       *)
LEMMA GivenQuiet ==
  ASSUME KType, NEW n, Given(n)
  PROVE  /\ \A s \in Sessions : (Unsaid(s) => ~Tells(n, s) /\ Unsaid(s)')
         /\ \A s \in Sessions : (Unseen(s) => Unseen(s)')
<1>1. \A s \in Sessions : Unsaid(s) => ~Tells(n, s)
  BY DEF Given, Unsaid, Mute
<1>2. \A s \in Sessions : Unsaid(s) => Unsaid(s)'
  BY <1>1 DEF Given, Unsaid, Mute, NoneIn, Events
<1>3. \A s \in Sessions : Unseen(s) => Unseen(s)'
  BY DEF Given, Unseen, Blank, Events
<1> QED
  BY <1>1, <1>2, <1>3

(* What is heard changes one Session's record only.                        *)
LEMMA HeardFacts ==
  ASSUME KType, NEW n \in Notice, Heard(n)
  PROVE  /\ view' \in [Sessions -> View] /\ link' \in SUBSET Sessions
         /\ \A s \in Sessions :
               /\ s # n.session => view'[s] = view[s]
               /\ view[s].state = "deleted" => view'[s] = view[s]
               /\ Tells(n, s) /\ view[s].state # "deleted" =>
                     view'[s] = [state |-> n.state, reachable |-> TRUE]
               /\ ~Tells(n, s) => view'[s].state = view[s].state
               /\ ~Tells(n, s) /\ view'[s].reachable => view[s].reachable
               /\ n.session = s /\ n.type # "changed" /\ view[s].state # "deleted"
                     => ~view'[s].reachable
         /\ link' \subseteq link
         /\ n.type = "revoked" /\ view[n.session].state # "deleted" =>
               n.session \notin link'
<1>1. n.session \in Sessions /\ (n.type = "changed" => n.state \in States)
  BY TellsFacts
<1>2. view \in [Sessions -> View] /\ link \in SUBSET Sessions
  BY DEF KType
<1>3. CASE view[n.session].state = "deleted"
  <2>1. view' = view /\ link' = link
    BY <1>3 DEF Heard
  <2> QED
    BY <1>1, <1>2, <1>3, <2>1 DEF Tells
<1>4. CASE view[n.session].state # "deleted"
  <2> DEFINE new == IF n.type = "changed" THEN [state |-> n.state, reachable |-> TRUE]
                    ELSE [view[n.session] EXCEPT !.reachable = FALSE]
  <2>1. view' = [view EXCEPT ![n.session] = new]
    BY <1>4 DEF Heard
  <2>2. view[n.session] \in View
    BY <1>1, <1>2
  <2>3. /\ new \in View
        /\ n.type = "changed" => new = [state |-> n.state, reachable |-> TRUE]
        /\ n.type # "changed" => new.state = view[n.session].state /\ ~new.reachable
    BY <1>1, <2>2 DEF View, Environment
  <2>4. /\ link' \subseteq link
        /\ n.type = "revoked" => link' = link \ {n.session}
    BY <1>4 DEF Heard
  <2> HIDE DEF new
  <2>5. view' \in [Sessions -> View] /\ view'[n.session] = new
        /\ \A s \in Sessions : s # n.session => view'[s] = view[s]
    BY <1>1, <1>2, <2>1, <2>3
  <2> QED
    BY <1>1, <1>2, <1>4, <2>3, <2>4, <2>5 DEF Tells
<1> QED
  BY <1>3, <1>4

(* Heard or given up on, a notice leaves most as it was.                   *)
LEMMA GivenKeeps ==
  ASSUME KInv, NEW n, Given(n), Heard(n) \/ UNCHANGED <<view, link>>,
         mishap' = "none" => mishap = "none"
  PROVE  /\ KType' /\ ConnsOK'
         /\ \A s \in Sessions : NewOK(s)' /\ CallOK(s)' /\ LinkOK(s)' /\ HostOK(s)'
<1>1. KType /\ ConnsOK /\ SessionsOK /\ n \in Notice
  BY DEF KInv, Given
<1>2. UNCHANGED <<env, dialed, slot, hosted, revoke, restarts, conn, call>>
  BY DEF Given
<1>3. /\ view' \in [Sessions -> View] /\ link' \in SUBSET Sessions /\ link' \subseteq link
      /\ \A s \in Sessions : /\ ~Tells(n, s) => view'[s].state = view[s].state
                             /\ ~Tells(n, s) /\ view'[s].reachable => view[s].reachable
                             /\ view[s].state = "deleted" => view'[s] = view[s]
                             /\ Tells(n, s) => view'[s] = view[s] \/
                                   (view'[s].state \in States)
  <2>1. CASE UNCHANGED <<view, link>>
    BY <1>1, <2>1 DEF KType
  <2>2. CASE Heard(n)
    <3>1. /\ view' \in [Sessions -> View] /\ link' \in SUBSET Sessions /\ link' \subseteq link
          /\ \A s \in Sessions : /\ ~Tells(n, s) => view'[s].state = view[s].state
                                 /\ ~Tells(n, s) /\ view'[s].reachable => view[s].reachable
                                 /\ view[s].state = "deleted" => view'[s] = view[s]
      BY <1>1, <2>2, HeardFacts
    <3>2. ASSUME NEW s \in Sessions, Tells(n, s)
          PROVE  view'[s] = view[s] \/ view'[s].state = n.state
      <4>1. \/ view'[s] = view[s]
            \/ view'[s] = [state |-> n.state, reachable |-> TRUE]
        BY <1>1, <2>2, <3>2, HeardFacts
      <4> QED
        BY <4>1
    <3>3. \A s \in Sessions : Tells(n, s) => n.state \in States
      BY <1>1, TellsFacts DEF Tells
    <3> QED
      BY <3>1, <3>2, <3>3
  <2> QED
    BY <2>1, <2>2
<1>4. KType'
  BY <1>1, <1>2, <1>3 DEF KType, Given
<1>5. ConnsOK'
  BY <1>1, <1>2, StillConns
<1>6. ASSUME NEW s \in Sessions
      PROVE  NewOK(s)' /\ CallOK(s)' /\ LinkOK(s)' /\ HostOK(s)'
  <2>1. NewOK(s) /\ CallOK(s) /\ LinkOK(s) /\ HostOK(s)
    BY <1>1 DEF SessionsOK
  <2>2. /\ Unsaid(s) => ~Tells(n, s) /\ Unsaid(s)'
        /\ Unseen(s) => Unseen(s)'
    BY <1>1, GivenQuiet
  <2>3. view'[s].state = "none" => view[s].state = "none"
    BY <1>3 DEF States
  <2>4. "none" \notin States
    BY DEF States
  <2>a. view[s].state = "deleted" => view'[s].state = "deleted"
    BY <1>3
  <2>b. env[s] = "none" /\ call[s].op # "delete" => view'[s].state \in {"none", "deleted"}
    <3>1. SUFFICES ASSUME env[s] = "none", call[s].op # "delete", view[s].state = "none"
                   PROVE  view'[s].state = "none"
      BY <2>1, <2>a DEF CallOK
    <3>2. ~Tells(n, s)
      BY <2>1, <2>2, <3>1 DEF NewOK
    <3> QED
      BY <1>3, <3>1, <3>2
  <2>c. call[s].pc # "idle" => view'[s].state # "deleted"
    BY <1>3, <2>1 DEF CallOK, States
  <2>d. call[s].pc # "idle" /\ call[s].op = "control" => view'[s].state # "none"
    BY <2>1, <2>3 DEF CallOK
  <2>5. NewOK(s)' /\ CallOK(s)'
    BY <1>2, <2>1, <2>2, <2>3, <2>b, <2>c, <2>d DEF NewOK, CallOK
  <2>6. LinkOK(s)'
    BY <1>2, <1>3, <2>1, <2>2, <2>3 DEF LinkOK
  <2>7. HostOK(s)'
    BY <1>2, <1>3, <2>1, <2>2, <2>3 DEF HostOK, Hosts
  <2> QED
    BY <2>5, <2>6, <2>7
<1> QED
  BY <1>4, <1>5, <1>6

(* A notice is heard: of the last said of a session it is, if no mishap    *)
(* comes of it, the next.                                                  *)
LEMMA NotifyKeeps ==
  ASSUME KInv, NEW x \in Speakers, NEW n \in sending[x], Notify(x, n)
  PROVE  KInv'
<1>1. /\ KType /\ ConnsOK /\ SessionsOK /\ ViewsOK /\ NoticesOK
      /\ sending \in [Speakers -> SUBSET Notice] /\ n \in Notice
  BY DEF KInv, KType
<1>2. /\ UNCHANGED <<env, dialed, slot, hosted, revoke, restarts, conn, call, late>>
      /\ sending' = [sending EXCEPT ![x] = @ \ {n}]
      /\ Heard(n)
  BY DEF Notify, runner, gateway
<1>3. /\ mishap' = "none" => mishap = "none" /\ ~Stale(x, n) /\ ~Crosses(n)
      /\ mishap = "some" => mishap' = "some"
  <2>1. Mishap(Stale(x, n) \/ Crosses(n)) /\ (Stale(x, n) \/ Crosses(n)) \in BOOLEAN
    BY DEF Notify, Stale, Crosses
  <2> QED
    BY <2>1, MishapFacts
<1>4. /\ sending' \in [Speakers -> SUBSET Notice]
      /\ sending'[x] = sending[x] \ {n}
      /\ \A y \in Speakers : y # x => sending'[y] = sending[y]
  BY <1>1, <1>2
<1>5. Given(n)
  BY <1>1, <1>2, <1>4 DEF Given
<1>6. /\ KType' /\ ConnsOK'
      /\ \A s \in Sessions : NewOK(s)' /\ CallOK(s)' /\ LinkOK(s)' /\ HostOK(s)'
  BY <1>2, <1>3, <1>5, GivenKeeps
<1>7. NoticesOK'
  BY <1>1, <1>2, <1>3, <1>4 DEF NoticesOK
<1>8. (n.type = "revoked" <=> x = Revoker) /\ Revoker \in Speakers /\ None \notin Connections
      /\ Revoker \notin Connections
  BY <1>1, NoneAssumption DEF NoticesOK, Speakers
<1>9. ASSUME NEW s \in Sessions
      PROVE  UnlinkOK(s)' /\ LostOK(s)'
  <2>1. UnlinkOK(s) /\ LinkOK(s) /\ LostOK(s)
    BY <1>1 DEF SessionsOK
  <2>2. UnlinkOK(s)'
    <3>1. link' \subseteq link
      BY <1>1, <1>2, HeardFacts
    <3>2. CASE n = RevokedNotice(s)
      <4>1. n.type = "revoked" /\ n.session = s
        BY <3>2, TellsFacts
      <4>2. s \in link' => view[s].state # "deleted"
        BY <2>1, <3>1 DEF LinkOK, States
      <4>3. s \notin link'
        BY <1>1, <1>2, <4>1, <4>2, HeardFacts
      <4> QED
        BY <4>3 DEF UnlinkOK
    <3>3. CASE n # RevokedNotice(s)
      <4>1. RevokedNotice(s) \in sending[Revoker] => RevokedNotice(s) \in sending'[Revoker]
        BY <1>4, <1>8, <3>3
      <4> QED
        BY <1>2, <1>3, <2>1, <3>1, <4>1 DEF UnlinkOK
    <3> QED
      BY <3>2, <3>3
  <2>3. LostOK(s)'
    <3>1. SUFFICES ASSUME mishap' = "none", slot["control"] = None, restarts = 0,
                          env[s] # "none", view'[s].reachable \/ call[s].pc = "accepted"
                   PROVE  Losing(s)'
      BY <1>2 DEF LostOK
    <3>2. n.type # "changed"
      BY <1>3, <1>8, <3>1 DEF Stale, Speakers
    <3>3. ~Tells(n, s)
      BY <3>2 DEF Tells
    <3>4. view'[s].reachable => view[s].reachable
      BY <1>1, <1>2, <3>3, HeardFacts
    <3>5. Losing(s)
      BY <1>3, <2>1, <3>1, <3>4 DEF LostOK
    <3>6. n.session # s
      <4>1. ASSUME n.session = s, view[s].state # "deleted" PROVE FALSE
        <5>1. \A t \in Sessions :
                 n.session = t /\ n.type # "changed" /\ view[t].state # "deleted"
                    => ~view'[t].reachable
          BY <1>1, <1>2, HeardFacts
        <5>2. call[s].pc = "accepted"
          BY <3>1, <3>2, <4>1, <5>1
        <5> QED
          BY <1>3, <3>1, <3>2, <4>1, <5>2 DEF Crosses
      <4>2. ASSUME n.session = s, view[s].state = "deleted" PROVE FALSE
        <5>1. ~view[s].reachable
          BY <2>1, <4>2 DEF LinkOK, States
        <5>2. call[s].pc = "accepted"
          BY <3>1, <3>4, <5>1
        <5> QED
          BY <1>3, <3>1, <3>2, <4>2, <5>2 DEF Crosses
      <4> QED
        BY <4>1, <4>2
    <3>7. n # Unreachable(s) /\ n # RevokedNotice(s)
      BY <3>6, TellsFacts
    <3>8. \A y \in Speakers : /\ Unreachable(s) \in sending[y] => Unreachable(s) \in sending'[y]
                              /\ RevokedNotice(s) \in sending[y] => RevokedNotice(s) \in sending'[y]
      BY <1>4, <3>7
    <3> QED
      BY <1>2, <1>8, <3>5, <3>8 DEF Losing, Speakers
  <2> QED
    BY <2>2, <2>3
<1>10. ASSUME NEW c \in Connections, NEW s \in Sessions
       PROVE  ViewOK(c, s)'
  <2>1. ViewOK(c, s) /\ c \in Speakers
    BY <1>1 DEF ViewsOK, Speakers
  <2>2. SUFFICES ASSUME slot["control"] = c, conn[c].up, mishap' = "none",
                        revoke \in {"no", "revoked"}, env[s] # "none", NoneIn(c, s)
                 PROVE  Noticed(c, s)' \/ Seen(c, s)' \/ Last(c, s)
    BY <1>2, <1>3, <2>1 DEF ViewOK, Last, NoneIn, Events
  <2>3. Last(c, s) \/ Noticed(c, s) \/ Seen(c, s)
    BY <1>3, <2>1, <2>2 DEF ViewOK
  <2>4. x = c /\ n.type = "changed"
    <3>1. x # Revoker
      BY <1>1, <2>2 DEF NoticesOK
    <3>2. n.type = "changed"
      BY <1>1, <1>3, <1>8, <2>2, <3>1, TellsFacts DEF Stale
    <3> QED
      BY <1>3, <2>2, <3>2 DEF Stale
  <2>5. CASE Noticed(c, s) /\ n = Changed(s, env[s])
    <3>1. env[s] \in States \/ env[s] \notin States
      OBVIOUS
    <3>2. Tells(n, s) /\ n.state = env[s] /\ n.session = s
      <4>1. n.session = s /\ n.state = env[s]
        BY <2>5 DEF Changed
      <4> QED
        BY <2>4, <4>1 DEF Tells
    <3>3. Mute(c, s)'
      BY <1>4, <2>4, <2>5 DEF Mute, Noticed
    <3>4. view'[s].state \in States => view'[s] = [state |-> env[s], reachable |-> TRUE]
      <4>1. CASE view[s].state = "deleted"
        <5>1. view'[s] = view[s]
          BY <1>1, <1>2, <4>1, HeardFacts
        <5> QED
          BY <4>1, <5>1 DEF States
      <4>2. CASE view[s].state # "deleted"
        BY <1>1, <1>2, <3>2, <4>2, HeardFacts
      <4> QED
        BY <4>1, <4>2
    <3>5. call[s].pc \in {"done", "accepted"} => call[s].state = env[s]
      BY <1>3, <2>2, <3>2 DEF Crosses
    <3> QED
      BY <1>2, <3>3, <3>4, <3>5 DEF Seen
  <2>6. CASE ~Tells(n, s)
    <3>1. n.session # s
      BY <2>4, <2>6 DEF Tells
    <3>2. view'[s] = view[s]
      BY <1>1, <1>2, <3>1, HeardFacts
    <3>3. n # Changed(s, env[s])
      BY <3>1 DEF Changed
    <3>4. Noticed(c, s) => Noticed(c, s)'
      BY <1>2, <1>4, <2>4, <3>3 DEF Noticed
    <3>5. Seen(c, s) => Seen(c, s)'
      BY <1>2, <1>4, <2>4, <3>2 DEF Seen, Mute
    <3> QED
      BY <2>3, <3>4, <3>5
  <2>7. CASE Seen(c, s)
    BY <2>4, <2>6, <2>7 DEF Seen, Mute
  <2>8. CASE Noticed(c, s) /\ Tells(n, s)
    BY <2>4, <2>5, <2>8 DEF Noticed
  <2> QED
    BY <2>3, <2>6, <2>7, <2>8
<1> QED
  BY <1>1, <1>6, <1>7, <1>9, <1>10 DEF KInv, SessionsOK, ViewsOK

(* A notice given up on is a mishap, and so is one that comes late.        *)
LEMMA LateKeeps ==
  ASSUME KInv,
         \/ \E x \in Speakers : \E n \in sending[x] : NoticeTimeout(x, n)
         \/ \E n \in late : NotifyLate(n)
  PROVE  KInv'
<1>1. /\ KType /\ ConnsOK /\ SessionsOK /\ ViewsOK /\ NoticesOK
      /\ sending \in [Speakers -> SUBSET Notice] /\ late \in SUBSET Notice
  BY DEF KInv, KType
<1>2. \E n : /\ Given(n) /\ mishap' = "some"
             /\ Heard(n) \/ UNCHANGED <<view, link>>
  <2>1. ASSUME NEW x \in Speakers, NEW n \in sending[x], NoticeTimeout(x, n)
        PROVE  Given(n) /\ mishap' = "some" /\ UNCHANGED <<view, link>>
    <3>1. Mishap(TRUE)
      BY <2>1 DEF NoticeTimeout
    <3>2. mishap' = "some"
      BY <3>1, MishapFacts
    <3>3. /\ sending' = [sending EXCEPT ![x] = @ \ {n}]
          /\ late' \in {late, late \cup {n}}
          /\ UNCHANGED <<env, dialed, slot, hosted, revoke, restarts, conn, call, view, link>>
      BY <2>1 DEF NoticeTimeout, runner
    <3> QED
      BY <1>1, <3>2, <3>3 DEF Given
  <2>2. ASSUME NEW n \in late, NotifyLate(n)
        PROVE  Given(n) /\ mishap' = "some" /\ Heard(n)
    BY <1>1, <2>2 DEF NotifyLate, Given, NoticesOK, runner
  <2> QED
    BY <2>1, <2>2
<1>3. PICK n : /\ Given(n) /\ mishap' = "some"
               /\ Heard(n) \/ UNCHANGED <<view, link>>
  BY <1>2
<1>4. /\ KType' /\ ConnsOK'
      /\ \A s \in Sessions : NewOK(s)' /\ CallOK(s)' /\ LinkOK(s)' /\ HostOK(s)'
  BY <1>3, GivenKeeps
<1>5. ViewsOK' /\ \A s \in Sessions : UnlinkOK(s)' /\ LostOK(s)'
  BY <1>3 DEF ViewsOK, ViewOK, UnlinkOK, LostOK
<1>6. NoticesOK'
  <2>1. sending'[Revoker] \subseteq sending[Revoker]
    BY <1>3 DEF Given, Speakers
  <2> QED
    BY <1>1, <1>3, <2>1 DEF NoticesOK, Given
<1> QED
  BY <1>4, <1>5, <1>6 DEF KInv, SessionsOK
-----------------------------------------------------------------------------
(* The snapshot is sent, and an event applied.                             *)

LEMMA SnapshotKeeps ==
  ASSUME RInv, KInv, NEW c \in Connections, SendSnapshot(c)
  PROVE  KInv'
<1>1. /\ KType /\ ConnsOK /\ SessionsOK /\ ViewsOK /\ NoticesOK
      /\ conn[c] \in Connection /\ env \in [Sessions -> Environment]
  BY DEF KInv, RInv, ConnType
<1>2. /\ UNCHANGED <<env, dialed, slot, hosted, revoke, restarts, late, sending, call,
                     view, link, mishap>>
      /\ conn[c].pc = "waiting" /\ conn[c].kind = "control" /\ conn[c].up
      /\ Events(c) = <<>>
  BY DEF SendSnapshot, runner, gateway, session, At, Events
<1> DEFINE snapshot == [type |-> "snapshot", env |-> env]
           new == [conn[c] EXCEPT !.events = <<snapshot>>]
<1>3. snapshot \in Snapshot /\ snapshot.type = "snapshot" /\ snapshot.env = env
  BY <1>1 DEF Snapshot
<1>4. conn' = [conn EXCEPT ![c] = new]
  BY DEF SendSnapshot
<1> HIDE DEF snapshot
<1>5. /\ new.events = <<snapshot>> /\ new.pc = conn[c].pc /\ new.kind = conn[c].kind
      /\ new.up = conn[c].up
  BY <1>1 DEF Connection
<1> HIDE DEF new
<1>6. /\ conn'[c] = new /\ \A d \in Connections : d # c => conn'[d] = conn[d]
  BY <1>4 DEF RInv, ConnType
<1>7. /\ Events(c)' = <<snapshot>> /\ Len(Events(c)') = 1 /\ Events(c)'[1] = snapshot
      /\ Events(c)' # <<>>
      /\ \A d \in Connections : d # c => Events(d)' = Events(d)
      /\ \A d \in Connections : /\ conn'[d].pc = conn[d].pc /\ conn'[d].kind = conn[d].kind
                                /\ conn'[d].up = conn[d].up
  <2>1. Events(c)' = <<snapshot>>
    BY <1>5, <1>6 DEF Events
  <2>2. Len(<<snapshot>>) = 1 /\ <<snapshot>>[1] = snapshot /\ <<snapshot>> # <<>>
    OBVIOUS
  <2>3. \A d \in Connections : d # c => Events(d)' = Events(d)
    BY <1>6 DEF Events
  <2>4. ASSUME NEW d \in Connections
        PROVE  /\ conn'[d].pc = conn[d].pc /\ conn'[d].kind = conn[d].kind
               /\ conn'[d].up = conn[d].up
    <3>1. CASE d = c
      BY <1>5, <1>6, <3>1
    <3>2. CASE d # c
      BY <1>6, <3>2
    <3> QED
      BY <3>1, <3>2
  <2> QED
    BY <2>1, <2>2, <2>3, <2>4
<1>8. \A s \in Sessions : ~Tells(snapshot, s)
  BY <1>3 DEF Tells
<1>9. \A s \in Sessions : /\ NoneIn(c, s)' /\ (Unsaid(s) => Unsaid(s)')
                          /\ env[s] = "none" => (Unseen(s) => Unseen(s)')
  <2>1. \A s \in Sessions : NoneIn(c, s)' /\ (env[s] = "none" => Blank(c, s)')
    BY <1>3, <1>7, <1>8 DEF NoneIn, Blank
  <2>2. \A d \in Connections \ {c} : \A s \in Sessions :
           (NoneIn(d, s) => NoneIn(d, s)') /\ (Blank(d, s) => Blank(d, s)')
    BY <1>7 DEF NoneIn, Blank
  <2>3. \A s \in Sessions, x \in Speakers : Mute(x, s) => Mute(x, s)'
    BY <1>2 DEF Mute
  <2> QED
    BY <1>2, <2>1, <2>2, <2>3 DEF Unsaid, Unseen
<1>10. ASSUME NEW d \in Connections
       PROVE  (EventsOK(d) /\ UpOK(d) /\ SnapshotOK(d))'
  <2>1. EventsOK(d) /\ UpOK(d) /\ SnapshotOK(d)
    BY <1>1 DEF ConnsOK
  <2>2. UpOK(d)'
    BY <1>2, <1>7, <2>1 DEF UpOK
  <2>3. CASE d = c
    <3>1. \A i \in 1..Len(Events(c)') : i = 1
      BY <1>7
    <3>2. EventsOK(c)'
      BY <1>2, <1>3, <1>7, <3>1 DEF EventsOK
    <3>3. SnapshotOK(c)'
      BY <1>2, <1>3, <1>7, <1>9 DEF SnapshotOK, Snapped
    <3> QED
      BY <2>2, <2>3, <3>2, <3>3
  <2>4. CASE d # c
    <3>1. conn'[d] = conn[d] /\ Events(d)' = Events(d)
      BY <1>6, <1>7, <2>4
    <3> QED
      BY <1>2, <2>1, <2>2, <3>1 DEF EventsOK, SnapshotOK, Snapped, Last, NoneIn
  <2> QED
    BY <2>3, <2>4
<1>11. ASSUME NEW s \in Sessions
       PROVE  (NewOK(s) /\ CallOK(s) /\ LinkOK(s) /\ HostOK(s) /\ UnlinkOK(s) /\ LostOK(s))'
  <2>1. NewOK(s) /\ CallOK(s) /\ LinkOK(s) /\ HostOK(s) /\ UnlinkOK(s) /\ LostOK(s)
    BY <1>1 DEF SessionsOK
  <2>2. NewOK(s)' /\ CallOK(s)' /\ LinkOK(s)'
    BY <1>2, <1>7, <1>9, <2>1 DEF NewOK, CallOK, LinkOK
  <2>3. slot["control"] # None => slot["control"] \in Connections
    BY KindsAssumption DEF RInv, ConnType
  <2>4. HostOK(s)'
    BY <1>2, <1>7, <1>9, <2>1, <2>3 DEF HostOK, Hosts
  <2>5. UnlinkOK(s)' /\ LostOK(s)'
    BY <1>2, <1>7, <2>1 DEF UnlinkOK, LostOK, Losing
  <2> QED
    BY <2>2, <2>4, <2>5
<1>12. ASSUME NEW d \in Connections, NEW s \in Sessions
       PROVE  ViewOK(d, s)'
  <2>1. ViewOK(d, s)
    BY <1>1 DEF ViewsOK
  <2>2. CASE d = c
    <3>1. slot["control"] # c
      BY <1>2, NoneAssumption DEF RInv, RegisteredIsServed
    <3> QED
      BY <1>2, <2>2, <3>1 DEF ViewOK
  <2>3. CASE d # c
    BY <1>2, <1>7, <2>1, <2>3 DEF ViewOK, Last, NoneIn, Noticed, Seen, Mute
  <2> QED
    BY <2>2, <2>3
<1> QED
  BY <1>1, <1>2, <1>10, <1>11, <1>12
     DEF KInv, KType, ConnsOK, SessionsOK, ViewsOK, NoticesOK

(* The first event becomes a notice: the last said of a session is as it   *)
(* was.                                                                    *)
LEMMA ApplyKeeps ==
  ASSUME RInv, KInv, NEW c \in Connections, ApplyEvent(c)
  PROVE  KInv'
<1>1. /\ KType /\ ConnsOK /\ SessionsOK /\ ViewsOK /\ NoticesOK
      /\ conn[c] \in Connection /\ c \in Speakers /\ Revoker \in Speakers /\ c # Revoker
      /\ sending \in [Speakers -> SUBSET Notice] /\ hosted \in SUBSET Sessions
      /\ EventsOK(c) /\ Events(c) \in Seq(Snapshot \cup Change)
  BY ConnFacts, NoneAssumption DEF KInv, KType, ConnsOK, RInv, ConnType,
     Speakers
<1> DEFINE event == Head(Events(c))
           said == Changed(event.session, event.state)
           new == [conn[c] EXCEPT !.events = Tail(Events(c))]
<1>2. /\ UNCHANGED <<env, dialed, slot, revoke, restarts, late, call, view, link, mishap>>
      /\ conn[c].pc = "serving" /\ sending[c] = {} /\ Events(c) # <<>>
      /\ conn' = [conn EXCEPT ![c] = new]
      /\ sending' = [sending EXCEPT ![c] = {said}]
      /\ hosted' = IF slot["control"] = c THEN hosted \cup {event.session} ELSE hosted
  BY DEF ApplyEvent, runner, session, At, Events
<1>3. /\ Tail(Events(c)) \in Seq(Snapshot \cup Change) /\ Len(Events(c)) \in Nat \ {0}
      /\ Len(Tail(Events(c))) = Len(Events(c)) - 1
      /\ \A i \in 1..(Len(Events(c)) - 1) : Tail(Events(c))[i] = Events(c)[i + 1]
      /\ event = Events(c)[1]
  BY <1>1, <1>2, TailOne
<1>4. event \in Change
  BY <1>1, <1>2, <1>3 DEF EventsOK
<1>5. /\ event.session \in Sessions /\ event.state \in States /\ event.type = "changed"
      /\ said \in Notice /\ said.type = "changed" /\ said.session = event.session
      /\ said.state = event.state
      /\ \A s \in Sessions : Tells(said, s) <=> Tells(event, s)
  BY <1>4, TellsFacts DEF Tells
<1>6. /\ new.events = Tail(Events(c)) /\ new.pc = conn[c].pc /\ new.kind = conn[c].kind
      /\ new.up = conn[c].up
  BY <1>1 DEF Connection
<1> HIDE DEF event, said, new
<1>7. /\ conn'[c] = new /\ \A d \in Connections : d # c => conn'[d] = conn[d]
      /\ sending'[c] = {said} /\ \A x \in Speakers : x # c => sending'[x] = sending[x]
      /\ sending' \in [Speakers -> SUBSET Notice]
  BY <1>1, <1>2, <1>5 DEF RInv, ConnType
<1>8. /\ Events(c)' = Tail(Events(c))
      /\ \A d \in Connections : d # c => Events(d)' = Events(d)
      /\ \A d \in Connections : /\ conn'[d].pc = conn[d].pc /\ conn'[d].kind = conn[d].kind
                                /\ conn'[d].up = conn[d].up
  BY <1>6, <1>7 DEF Events
<1>9. \A i \in 1..Len(Events(c)') : i + 1 \in 1..Len(Events(c))
                                    /\ Events(c)'[i] = Events(c)[i + 1]
  BY <1>3, <1>8
<1>10. \A s \in Sessions : /\ Unsaid(s) => Unsaid(s)'
                           /\ Unseen(s) => Unseen(s)'
                           /\ NoneIn(c, s) => NoneIn(c, s)' /\ ~Tells(event, s)
  <2>1. 1 \in 1..Len(Events(c))
    BY <1>3
  <2>2. ASSUME NEW d \in Connections, NEW s \in Sessions
        PROVE  (NoneIn(d, s) => NoneIn(d, s)') /\ (Blank(d, s) => Blank(d, s)')
    <3>1. CASE d = c
      <4>1. NoneIn(c, s) => NoneIn(c, s)'
        BY <1>9 DEF NoneIn
      <4>2. Blank(c, s) => Blank(c, s)'
        BY <1>9 DEF Blank
      <4> QED
        BY <3>1, <4>1, <4>2
    <3>2. CASE d # c
      BY <1>8, <3>2 DEF NoneIn, Blank
    <3> QED
      BY <3>1, <3>2
  <2>3. \A s \in Sessions : NoneIn(c, s) => ~Tells(event, s)
    BY <1>3, <2>1 DEF NoneIn
  <2>4. \A s \in Sessions, x \in Speakers : Mute(x, s) /\ NoneIn(c, s) => Mute(x, s)'
    BY <1>5, <1>7, <2>3 DEF Mute
  <2> QED
    BY <1>2, <2>2, <2>3, <2>4 DEF Unsaid, Unseen
<1>11. ASSUME NEW d \in Connections
       PROVE  (EventsOK(d) /\ UpOK(d) /\ SnapshotOK(d))'
  <2>1. EventsOK(d) /\ UpOK(d) /\ SnapshotOK(d)
    BY <1>1 DEF ConnsOK
  <2>2. UpOK(d)'
    BY <1>2, <1>8, <2>1 DEF UpOK
  <2>3. CASE d = c
    BY <1>2, <1>8, <1>9, <2>1, <2>2, <2>3 DEF EventsOK, SnapshotOK, Snapped,
       Admitted
  <2>4. CASE d # c
    <3>1. conn'[d] = conn[d] /\ Events(d)' = Events(d)
      BY <1>7, <1>8, <2>4
    <3> QED
      BY <1>2, <2>1, <2>2, <3>1 DEF EventsOK, SnapshotOK, Snapped, Last, NoneIn
  <2> QED
    BY <2>3, <2>4
<1>12. ASSUME NEW s \in Sessions
       PROVE  (NewOK(s) /\ CallOK(s) /\ LinkOK(s) /\ HostOK(s) /\ UnlinkOK(s) /\ LostOK(s))'
  <2>1. NewOK(s) /\ CallOK(s) /\ LinkOK(s) /\ HostOK(s) /\ UnlinkOK(s) /\ LostOK(s)
    BY <1>1 DEF SessionsOK
  <2>2. NewOK(s)' /\ CallOK(s)' /\ LinkOK(s)'
    BY <1>2, <1>8, <1>10, <2>1 DEF NewOK, CallOK, LinkOK
  <2>3. slot["control"] # None => slot["control"] \in Connections
    BY KindsAssumption DEF RInv, ConnType
  <2>4. HostOK(s)'
    BY <1>2, <1>8, <1>10, <2>1, <2>3 DEF HostOK, Hosts
  <2>5. UnlinkOK(s)' /\ LostOK(s)'
    BY <1>1, <1>2, <1>7, <1>8, <2>1 DEF UnlinkOK, LostOK, Losing, Speakers
  <2> QED
    BY <2>2, <2>4, <2>5
<1>13. ASSUME NEW d \in Connections, NEW s \in Sessions
       PROVE  ViewOK(d, s)'
  <2>1. ViewOK(d, s)
    BY <1>1 DEF ViewsOK
  <2>2. CASE d = c
    <3>1. CASE Last(c, s)
      <4>1. PICK i \in 1..Len(Events(c)) :
               /\ Tells(Events(c)[i], s) /\ Events(c)[i].state = env[s]
               /\ \A j \in 1..Len(Events(c)) : j > i => ~Tells(Events(c)[j], s)
        BY <3>1 DEF Last
      <4>2. CASE i = 1
        <5>1. NoneIn(c, s)'
          BY <1>9, <4>1, <4>2 DEF NoneIn
        <5>2. Tells(event, s) /\ event.state = env[s]
          BY <1>3, <4>1, <4>2
        <5>3. said = Changed(s, env[s])
          BY <5>2 DEF said, Tells
        <5>4. Noticed(c, s)'
          BY <1>2, <1>7, <5>3 DEF Noticed
        <5> QED
          BY <2>2, <5>1, <5>4 DEF ViewOK
      <4>3. CASE i # 1
        <5>1. i - 1 \in 1..Len(Events(c)') /\ Events(c)'[i - 1] = Events(c)[i]
          BY <1>3, <1>8, <4>3
        <5>2. \A j \in 1..Len(Events(c)') : j > i - 1 => ~Tells(Events(c)'[j], s)
          BY <1>9, <4>1
        <5>3. Last(c, s)'
          BY <1>2, <4>1, <5>1, <5>2 DEF Last
        <5> QED
          BY <2>2, <5>3 DEF ViewOK
      <4> QED
        BY <4>2, <4>3
    <3>2. CASE NoneIn(c, s) /\ (Noticed(c, s) \/ Seen(c, s))
      <4>1. NoneIn(c, s)' /\ ~Tells(event, s)
        BY <1>10, <3>2
      <4>2. Seen(c, s)
        BY <1>2, <3>2 DEF Noticed
      <4>3. Seen(c, s)'
        BY <1>2, <1>5, <1>7, <4>1, <4>2 DEF Seen, Mute
      <4> QED
        BY <2>2, <4>1, <4>3 DEF ViewOK
    <3> QED
      BY <1>2, <1>8, <2>1, <2>2, <3>1, <3>2 DEF ViewOK
  <2>3. CASE d # c
    <3>1. sending'[d] = sending[d]
      BY <1>7, <2>3 DEF Speakers
    <3> QED
      BY <1>2, <1>8, <2>1, <2>3, <3>1 DEF ViewOK, Last, NoneIn, Noticed, Seen,
         Mute
  <2> QED
    BY <2>2, <2>3
<1>14. KType'
  BY <1>1, <1>2, <1>5, <1>7 DEF KType
<1>15. NoticesOK'
  BY <1>1, <1>2, <1>5, <1>7 DEF NoticesOK
<1> QED
  BY <1>11, <1>12, <1>13, <1>14, <1>15 DEF KInv, ConnsOK, SessionsOK, ViewsOK
-----------------------------------------------------------------------------
(* An environment changes, by itself or for a call, and the runner's       *)
(* connection is told.                                                     *)

Heeds(c) == dialed["control"] = c /\ Watched(c)

(* What the connection the runner dialed is told, and the others are not.  *)
LEMMA EmitsFacts ==
  ASSUME ConnType, NEW s \in Sessions, NEW state \in States, Emits(s, state)
  PROVE  /\ conn' \in [Connections -> Connection]
         /\ \A d \in Connections :
               /\ conn'[d].pc = conn[d].pc /\ conn'[d].kind = conn[d].kind
               /\ conn'[d].up = conn[d].up
               /\ ~Heeds(d) => Events(d)' = Events(d)
               /\ Heeds(d) => Events(d)' = Append(Events(d),
                     [type |-> "changed", session |-> s, state |-> state])
<1> DEFINE e == [type |-> "changed", session |-> s, state |-> state]
<1>1. e \in Snapshot \cup Change
  BY DEF Change
<1>2. ASSUME NEW c \in Connections, dialed["control"] = c, Watched(c)
      PROVE  /\ conn' \in [Connections -> Connection]
             /\ Events(c)' = Append(Events(c), e)
             /\ conn'[c].pc = conn[c].pc /\ conn'[c].kind = conn[c].kind
             /\ conn'[c].up = conn[c].up
             /\ \A d \in Connections : d # c => conn'[d] = conn[d] /\ ~Heeds(d)
  <2> DEFINE q == Append(conn[c].events, e)
             r == [conn[c] EXCEPT !.events = q]
  <2>1. conn' = [conn EXCEPT ![c] = r]
    BY <1>2 DEF Emits
  <2>2. conn[c] \in Connection /\ conn[c].events \in Seq(Snapshot \cup Change)
    BY <1>2, RecordTypes DEF ConnType
  <2>3. q \in Seq(Snapshot \cup Change)
    BY <1>1, <2>2, EventsType
  <2> HIDE DEF q
  <2>4. /\ r \in Connection /\ r.pc = conn[c].pc /\ r.kind = conn[c].kind
        /\ r.up = conn[c].up /\ r.events = q
    BY <2>2, <2>3 DEF Connection
  <2> HIDE DEF r
  <2>5. /\ conn' \in [Connections -> Connection] /\ conn'[c] = r
        /\ \A d \in Connections : d # c => conn'[d] = conn[d]
    BY <1>2, <2>1, <2>4, UpdateOne
  <2>6. Events(c)' = Append(Events(c), e)
    BY <2>4, <2>5 DEF Events, q
  <2>7. \A d \in Connections : d # c => ~Heeds(d)
    BY <1>2 DEF Heeds
  <2> QED
    BY <2>4, <2>5, <2>6, <2>7
<1>3. CASE conn' = conn /\ \A d \in Connections : ~Heeds(d)
  BY <1>3 DEF Events, ConnType
<1>4. CASE \E c \in Connections : dialed["control"] = c /\ Watched(c)
  <2>1. PICK c \in Connections : dialed["control"] = c /\ Watched(c)
    BY <1>4
  <2>2. \A d \in Connections : d # c => Events(d)' = Events(d)
    BY <1>2, <2>1 DEF Events
  <2> QED
    BY <1>2, <2>1, <2>2 DEF Heeds
<1>5. CASE ~\E c \in Connections : dialed["control"] = c /\ Watched(c)
  <2>1. conn' = conn
    <3>1. CASE dialed["control"] \in Connections
      BY <1>5, <3>1 DEF Emits
    <3>2. CASE dialed["control"] \notin Connections
      BY <3>2 DEF Emits, ConnType
    <3> QED
      BY <3>1, <3>2
  <2> QED
    BY <1>3, <1>5, <2>1 DEF Heeds
<1> QED
  BY <1>4, <1>5

(* The runner says nothing, or one thing, and of session s.                *)
Told(d, s) ==
    /\ Heeds(d) /\ Len(Events(d)') = Len(Events(d)) + 1 /\ Events(d)' # <<>>
    /\ \A i \in 1..Len(Events(d)) : Events(d)'[i] = Events(d)[i]
    /\ Events(d)'[Len(Events(d)) + 1] \in Change
    /\ Tells(Events(d)'[Len(Events(d)) + 1], s)
Says(s) ==
    /\ conn' \in [Connections -> Connection]
    /\ \A d \in Connections :
          /\ conn'[d].pc = conn[d].pc /\ conn'[d].kind = conn[d].kind
          /\ conn'[d].up = conn[d].up
          /\ Events(d)' = Events(d) \/ Told(d, s)
    /\ \A t \in Sessions : t # s => call'[t] = call[t] /\ env'[t] = env[t]
    /\ UNCHANGED <<dialed, slot, hosted, revoke, late, restarts, sending, view, link, mishap>>

(* So one thing is said, of the session whose environment changed.         *)
LEMMA EmitsSays ==
  ASSUME ConnType, NEW s \in Sessions, NEW state \in States, Emits(s, state),
         NEW d \in Connections
  PROVE  /\ Events(d)' = Events(d) \/ Told(d, s)
         /\ Heeds(d) => Told(d, s) /\ Events(d)'[Len(Events(d)) + 1].state = state
<1> DEFINE e == [type |-> "changed", session |-> s, state |-> state]
<1>1. ~Heeds(d) => Events(d)' = Events(d)
  BY EmitsFacts
<1>2. Heeds(d) => Events(d)' = Append(Events(d), e)
  BY EmitsFacts
<1>3. e \in Change /\ Tells(e, s) /\ e.state = state
  BY DEF Change, Tells
<1>4. Events(d) \in Seq(Snapshot \cup Change)
  BY ConnFacts
<1>5. /\ Append(Events(d), e) # <<>>
      /\ Len(Append(Events(d), e)) = Len(Events(d)) + 1
      /\ \A i \in 1..Len(Events(d)) : Append(Events(d), e)[i] = Events(d)[i]
      /\ Append(Events(d), e)[Len(Events(d)) + 1] = e
  <2>1. e \in Snapshot \cup Change
    BY <1>3
  <2> HIDE DEF e
  <2> QED
    BY <1>4, <2>1, AppendOne
<1> HIDE DEF e
<1> QED
  BY <1>1, <1>2, <1>3, <1>5 DEF Told

(* What the rest of the state keeps of that.                               *)
LEMMA SaysFacts ==
  ASSUME RInv, KInv, NEW s \in Sessions, Says(s), NEW d \in Connections
  PROVE  /\ EventsOK(d)' /\ UpOK(d)'
         /\ \A t \in Sessions : t # s =>
               /\ NoneIn(d, t) => NoneIn(d, t)'
               /\ Last(d, t) => Last(d, t)'
         /\ \A t \in Sessions : Blank(d, t) => Blank(d, t)'
         /\ Events(d) # <<>> => Events(d)' # <<>> /\ Events(d)'[1] = Events(d)[1]
         /\ Events(d) = <<>> /\ conn[d].pc = "waiting" => Events(d)' = <<>>
         /\ Told(d, s) /\ Events(d)'[Len(Events(d)) + 1].state = env'[s] => Last(d, s)'
<1>1. EventsOK(d) /\ UpOK(d)
  BY DEF KInv, ConnsOK
<1>2. Len(Events(d)) \in Nat /\ (Events(d) # <<>> <=> Len(Events(d)) > 0)
  BY ConnFacts DEF RInv
<1>3. conn'[d].pc = conn[d].pc /\ conn'[d].kind = conn[d].kind /\ conn'[d].up = conn[d].up
  BY DEF Says
<1>4. UpOK(d)'
  BY <1>1, <1>3 DEF UpOK, Says
<1>5. CASE Events(d)' = Events(d) /\ ~Told(d, s)
  <2>1. EventsOK(d)'
    BY <1>1, <1>3, <1>5 DEF EventsOK
  <2>2. \A t \in Sessions : t # s =>
           /\ NoneIn(d, t) => NoneIn(d, t)'
           /\ Last(d, t) => Last(d, t)'
    BY <1>5 DEF NoneIn, Last, Says
  <2>3. \A t \in Sessions : Blank(d, t) => Blank(d, t)'
    BY <1>5 DEF Blank
  <2> QED
    BY <1>4, <1>5, <2>1, <2>2, <2>3
<1>6. CASE Told(d, s)
  <2> DEFINE n == Len(Events(d)) + 1
  <2>1. /\ Heeds(d) /\ Len(Events(d)') = n /\ Events(d)' # <<>>
        /\ \A i \in 1..Len(Events(d)) : Events(d)'[i] = Events(d)[i]
        /\ Events(d)'[n] \in Change /\ Tells(Events(d)'[n], s)
    BY <1>6 DEF Told
  <2>2. \A i \in 1..n : i \in 1..Len(Events(d)) \/ i = n
    BY <1>2
  <2>3. Events(d) # <<>> \/ conn[d].pc \in Admitted
    BY <2>1 DEF Heeds, Watched, Events, Admitted
  <2>4. conn[d].pc \in {"waiting"} \cup Admitted
    BY <1>1, <2>3 DEF EventsOK
  <2>5. conn[d].pc = "waiting" => n # 1
    BY <1>2, <2>3 DEF Admitted
  <2>6. n \in 1..n /\ \A i \in 1..Len(Events(d)) : i < n
    BY <1>2
  <2> HIDE DEF n
  <2>7. EventsOK(d)'
    BY <1>1, <1>3, <2>1, <2>2, <2>4, <2>5 DEF EventsOK
  <2>8. Events(d)'[n].type = "changed" /\ \A t \in Sessions : t # s => ~Tells(Events(d)'[n], t)
    BY <2>1 DEF Tells
  <2>9. \A t \in Sessions : t # s => (NoneIn(d, t) => NoneIn(d, t)')
    BY <2>1, <2>2, <2>8 DEF NoneIn
  <2>10. \A t \in Sessions : Blank(d, t) => Blank(d, t)'
    BY <2>1, <2>2, <2>8 DEF Blank
  <2>11. ASSUME NEW t \in Sessions, t # s, Last(d, t)
         PROVE  Last(d, t)'
    <3>1. PICK i \in 1..Len(Events(d)) :
             /\ Tells(Events(d)[i], t) /\ Events(d)[i].state = env[t]
             /\ \A j \in 1..Len(Events(d)) : j > i => ~Tells(Events(d)[j], t)
      BY <2>11 DEF Last
    <3>2. i \in 1..Len(Events(d)') /\ Events(d)'[i] = Events(d)[i] /\ env'[t] = env[t]
      BY <1>2, <2>1, <2>11 DEF Says, n
    <3>3. \A j \in 1..Len(Events(d)') : j > i => ~Tells(Events(d)'[j], t)
      BY <2>1, <2>2, <2>8, <2>11, <3>1
    <3> QED
      BY <3>1, <3>2, <3>3 DEF Last
  <2>12. ASSUME Events(d)'[n].state = env'[s]
         PROVE  Last(d, s)'
    <3>1. \A j \in 1..Len(Events(d)') : ~(j > n)
      BY <1>2, <2>1 DEF n
    <3> QED
      BY <2>1, <2>6, <2>12, <3>1 DEF Last
  <2>13. Events(d) # <<>> => Events(d)'[1] = Events(d)[1]
    <3>1. Events(d) # <<>> => 1 \in 1..Len(Events(d))
      BY <1>2
    <3> QED
      BY <2>1, <3>1
  <2>14. ~(Events(d) = <<>> /\ conn[d].pc = "waiting")
    BY <2>3 DEF Admitted
  <2> QED
    BY <1>4, <2>1, <2>7, <2>9, <2>10, <2>11, <2>12, <2>13, <2>14 DEF n
<1> QED
  BY <1>5, <1>6 DEF Says
(* Whatever is said of session s, the other Sessions stand as they did.    *)
LEMMA SaysOthers ==
  ASSUME RInv, KInv, NEW s \in Sessions, Says(s), NEW t \in Sessions, t # s
  PROVE  /\ (NewOK(t) /\ CallOK(t) /\ LinkOK(t) /\ HostOK(t) /\ UnlinkOK(t) /\ LostOK(t))'
         /\ \A d \in Connections : ViewOK(d, t)'
<1>1. /\ NewOK(t) /\ CallOK(t) /\ LinkOK(t) /\ HostOK(t) /\ UnlinkOK(t) /\ LostOK(t)
      /\ \A d \in Connections : ViewOK(d, t)
  BY DEF KInv, SessionsOK, ViewsOK
<1>2. /\ UNCHANGED <<dialed, slot, hosted, revoke, late, restarts, sending, view, link,
                     mishap>>
      /\ env'[t] = env[t] /\ call'[t] = call[t]
      /\ \A d \in Connections :
            /\ conn'[d].pc = conn[d].pc /\ conn'[d].kind = conn[d].kind
            /\ conn'[d].up = conn[d].up
  BY DEF Says
<1>3. \A d \in Connections : /\ NoneIn(d, t) => NoneIn(d, t)'
                             /\ Last(d, t) => Last(d, t)'
                             /\ Blank(d, t) => Blank(d, t)'
  BY SaysFacts
<1>4. (Unsaid(t) => Unsaid(t)') /\ (Unseen(t) => Unseen(t)')
  BY <1>2, <1>3 DEF Unsaid, Unseen, Mute
<1>5. NewOK(t)' /\ CallOK(t)' /\ LinkOK(t)'
  BY <1>1, <1>2, <1>4 DEF NewOK, CallOK, LinkOK
<1>6. slot["control"] # None => slot["control"] \in Connections
  BY KindsAssumption DEF RInv, ConnType
<1>7. HostOK(t)'
  BY <1>1, <1>2, <1>4, <1>6 DEF HostOK, Hosts
<1>8. UnlinkOK(t)' /\ LostOK(t)'
  BY <1>1, <1>2 DEF UnlinkOK, LostOK, Losing
<1>9. ASSUME NEW d \in Connections
      PROVE  ViewOK(d, t)'
  <2>1. (Noticed(d, t) => Noticed(d, t)') /\ (Seen(d, t) => Seen(d, t)')
    BY <1>2 DEF Noticed, Seen, Mute
  <2> QED
    BY <1>1, <1>2, <1>3, <2>1 DEF ViewOK
<1> QED
  BY <1>5, <1>7, <1>8, <1>9

(* Nor does anything become of the notices.                                *)
LEMMA SaysKeeps ==
  ASSUME RInv, KInv, NEW s \in Sessions, Says(s), call' \in [Sessions -> Call],
         (NewOK(s) /\ CallOK(s) /\ LinkOK(s) /\ HostOK(s) /\ UnlinkOK(s) /\ LostOK(s))',
         \A d \in Connections : ViewOK(d, s)' /\
            (dialed["control"] = d /\ conn[d].pc = "waiting" /\ Events(d) # <<>>
             /\ env'[s] # "none" => Snapped(d, s)')
  PROVE  KInv'
<1>1. KType /\ ConnsOK /\ NoticesOK
  BY DEF KInv
<1>2. /\ UNCHANGED <<dialed, slot, hosted, revoke, late, restarts, sending, view, link,
                     mishap>>
      /\ \A t \in Sessions : t # s => env'[t] = env[t]
      /\ \A d \in Connections : conn'[d].pc = conn[d].pc /\ conn'[d].up = conn[d].up
  BY DEF Says
<1>3. KType' /\ NoticesOK'
  BY <1>1, <1>2 DEF KType, NoticesOK
<1>4. ASSUME NEW d \in Connections
      PROVE  (EventsOK(d) /\ UpOK(d) /\ SnapshotOK(d))'
  <2>1. EventsOK(d)' /\ UpOK(d)'
    BY SaysFacts
  <2>2. SUFFICES ASSUME dialed["control"] = d, conn[d].pc = "waiting", Events(d)' # <<>>,
                        NEW t \in Sessions, env'[t] # "none"
                 PROVE  Snapped(d, t)'
    BY <1>2, <2>1 DEF SnapshotOK
  <2>3. Events(d) # <<>> /\ Events(d)'[1] = Events(d)[1]
    BY <2>2, SaysFacts
  <2>4. CASE t = s
    BY <2>2, <2>3, <2>4
  <2>5. CASE t # s
    <3>1. SnapshotOK(d)
      BY <1>1 DEF ConnsOK
    <3>2. env'[t] = env[t]
      BY <1>2, <2>5
    <3>3. Snapped(d, t)
      BY <2>2, <2>3, <3>1, <3>2 DEF SnapshotOK
    <3>4. (NoneIn(d, t) => NoneIn(d, t)') /\ (Last(d, t) => Last(d, t)')
      BY <2>5, SaysFacts
    <3> QED
      BY <1>2, <2>3, <3>2, <3>3, <3>4 DEF Snapped
  <2> QED
    BY <2>4, <2>5
<1>5. SessionsOK' /\ ViewsOK'
  BY SaysOthers DEF SessionsOK, ViewsOK
<1> QED
  BY <1>3, <1>4, <1>5 DEF KInv, ConnsOK

(* A working registered control connection heeds.                          *)
LEMMA SlotHeeds ==
  ASSUME RInv, KInv, NEW c \in Connections, conn[c].up, conn[c].kind = "control",
         slot["control"] = c \/ conn[c].pc \notin {"identify", "waiting"}
  PROVE  /\ Heeds(c) /\ slot["control"] = c /\ dialed["control"] = c
         /\ conn[c].pc \in Admitted
<1>1. UpOK(c) /\ c # None
  BY NoneAssumption DEF KInv, ConnsOK
<1>2. conn[c].pc \in Admitted /\ dialed["control"] = c
  BY <1>1 DEF UpOK, RInv, RegisteredIsServed, Admitted
<1>3. slot["control"] = c
  BY <1>2 DEF RInv, RegisteredIsServed, Admitted
<1> QED
  BY <1>1, <1>2, <1>3 DEF Heeds, Watched, Admitted

(* What a connection in wait of its snapshot is told, it knows.            *)
LEMMA SaysSnapped ==
  ASSUME RInv, KInv, NEW s \in Sessions, Says(s), NEW d \in Connections,
         dialed["control"] = d, conn[d].pc = "waiting", Events(d) # <<>>,
         env[s] # "none",
         Heeds(d) => Told(d, s) /\ Events(d)'[Len(Events(d)) + 1].state = env'[s]
  PROVE  Snapped(d, s)'
<1>1. Events(d)'[1] = Events(d)[1] /\ conn'[d].up = conn[d].up
  BY SaysFacts DEF Says
<1>2. SnapshotOK(d)
  BY DEF KInv, ConnsOK
<1>3. Snapped(d, s)
  BY <1>2 DEF SnapshotOK
<1>4. conn[d].up => Heeds(d)
  BY NoneAssumption DEF Heeds, Watched, Events
<1>5. conn[d].up => Last(d, s)'
  BY <1>4, SaysFacts
<1> QED
  BY <1>1, <1>3, <1>5 DEF Snapped

(* An environment changes by itself.                                       *)
LEMMA ChangesKeeps ==
  ASSUME RInv, KInv, NEW s \in Sessions, NEW state \in States,
         EnvironmentChanges(s, state)
  PROVE  KInv'
<1>1. /\ NewOK(s) /\ CallOK(s) /\ LinkOK(s) /\ HostOK(s) /\ UnlinkOK(s) /\ LostOK(s)
      /\ KType /\ ConnType
  BY DEF KInv, SessionsOK, RInv
<1>2. /\ env[s] \in States /\ view[s].state # "none" /\ env' = [env EXCEPT ![s] = state]
      /\ UNCHANGED <<dialed, slot, hosted, revoke, late, restarts, sending, call, view,
                     link, mishap>>
      /\ Emits(s, state)
  BY DEF EnvironmentChanges, gateway, session
<1>3. env'[s] = state /\ \A t \in Sessions : t # s => env'[t] = env[t]
  BY <1>1, <1>2 DEF ConnType
<1>4. Says(s)
  BY <1>1, <1>2, <1>3, EmitsFacts, EmitsSays DEF Says
<1>5. \A d \in Connections :
         Heeds(d) => Told(d, s) /\ Events(d)'[Len(Events(d)) + 1].state = env'[s]
  BY <1>1, <1>2, <1>3, EmitsSays
<1>6. /\ \A d \in Connections : conn'[d].pc = conn[d].pc /\ conn'[d].kind = conn[d].kind
                                /\ conn'[d].up = conn[d].up
      /\ env[s] # "none" /\ env'[s] # "none" /\ env'[s] \in States
  BY <1>2, <1>3, <1>4 DEF Says, States
<1>7. NewOK(s)' /\ CallOK(s)' /\ LinkOK(s)'
  BY <1>1, <1>2, <1>6 DEF NewOK, CallOK, LinkOK
<1>8. slot["control"] # None => slot["control"] \in Connections
  BY <1>1, KindsAssumption DEF ConnType
<1>9. HostOK(s)'
  BY <1>1, <1>2, <1>6, <1>8 DEF HostOK, Hosts
<1>10. UnlinkOK(s)' /\ LostOK(s)'
  BY <1>1, <1>2, <1>6 DEF UnlinkOK, LostOK, Losing
<1>11. ASSUME NEW d \in Connections PROVE ViewOK(d, s)'
  <2>1. SUFFICES ASSUME slot["control"] = d, conn[d].up PROVE Last(d, s)'
    BY <1>2, <1>6 DEF ViewOK
  <2>2. conn[d].kind = "control"
    BY <2>1, KindsAssumption, NoneAssumption DEF RInv, RegisteredIsServed
  <2>3. Heeds(d)
    BY <2>1, <2>2, SlotHeeds
  <2> QED
    BY <1>4, <1>5, <2>3, SaysFacts
<1>12. ASSUME NEW d \in Connections, dialed["control"] = d, conn[d].pc = "waiting",
              Events(d) # <<>>
       PROVE  Snapped(d, s)'
  BY <1>4, <1>5, <1>6, <1>12, SaysSnapped
<1>13. call' \in [Sessions -> Call]
  BY <1>1, <1>2 DEF KType
<1> QED
  BY <1>4, <1>7, <1>9, <1>10, <1>11, <1>12, <1>13, SaysKeeps
(* The runner serves a call, and may tell its own connection of it.        *)
LEMMA ServedKeeps ==
  ASSUME RInv, KInv, NEW s \in Sessions, NEW state \in Environment, CallServed(s, state)
  PROVE  KInv'
<1>1. /\ NewOK(s) /\ CallOK(s) /\ LinkOK(s) /\ HostOK(s) /\ UnlinkOK(s) /\ LostOK(s)
      /\ KType /\ ConnType /\ call[s] \in Call /\ env[s] \in Environment
  BY DEF KInv, SessionsOK, RInv, KType, ConnType
<1> DEFINE on == call[s].on
           op == call[s].op
           new == [call[s] EXCEPT !.pc = "done", !.state = state]
<1>2. /\ call[s].pc = "sent" /\ conn[on].up
      /\ env' = [env EXCEPT ![s] = state]
      /\ call' = [call EXCEPT ![s] = new]
      /\ UNCHANGED <<dialed, slot, hosted, revoke, late, restarts, sending, view, link,
                     mishap>>
  BY DEF CallServed, gateway
<1>3. \/ op = "create" /\ conn' = conn /\ state = IF env[s] = "none" THEN "stopped" ELSE env[s]
      \/ op = "control" /\ env[s] # "none" /\ state \in States /\ state = env[s]
            /\ conn' = conn
      \/ op = "control" /\ env[s] # "none" /\ state \in States /\ Emits(s, state)
      \/ op = "delete" /\ state = "none" /\ (conn' = conn \/ Emits(s, "stopped"))
  BY DEF CallServed
<1>4. /\ new \in Call /\ new.pc = "done" /\ new.op = op /\ new.on = on /\ new.state = state
  BY <1>1 DEF Call
<1> HIDE DEF new
<1>5. /\ env'[s] = state /\ \A t \in Sessions : t # s => env'[t] = env[t]
      /\ call'[s] = new /\ \A t \in Sessions : t # s => call'[t] = call[t]
      /\ call' \in [Sessions -> Call]
  BY <1>1, <1>2, <1>4 DEF ConnType, KType
<1>6. /\ on \in Connections /\ conn[on].kind = "control"
      /\ conn[on].pc \notin {"identify", "waiting"}
      /\ op = "create" /\ env[s] = "none" => view[s].state = "none"
      /\ op = "control" => view[s].state # "none"
      /\ view[s].state # "deleted"
  BY <1>1, <1>2 DEF CallOK
<1>7. /\ Heeds(on) /\ slot["control"] = on /\ dialed["control"] = on
      /\ conn[on].pc \in Admitted
  BY <1>2, <1>6, SlotHeeds
<1>8. "stopped" \in States /\ "none" \notin States /\ Environment = States \cup {"none"}
  BY DEF States, Environment
<1>9. Says(s)
  <2>1. CASE conn' = conn
    BY <1>1, <1>2, <1>5, <2>1 DEF Says, Events, ConnType
  <2>2. ASSUME NEW told \in States, Emits(s, told)
        PROVE  Says(s)
    BY <1>1, <1>2, <1>5, <2>2, EmitsFacts, EmitsSays DEF Says
  <2> QED
    BY <1>3, <1>8, <2>1, <2>2
<1>10. \A d \in Connections : conn'[d].pc = conn[d].pc /\ conn'[d].kind = conn[d].kind
                              /\ conn'[d].up = conn[d].up
  BY <1>9 DEF Says
<1>11. /\ op # "delete" => state \in States /\ state # "none"
       /\ op = "delete" => state = "none"
       /\ on # None
  BY <1>1, <1>3, <1>6, <1>8, NoneAssumption
<1>12. CallOK(s)'
  <2>1. /\ call'[s].on = on /\ call'[s].op = op /\ call'[s].pc = "done"
        /\ call'[s].state = state /\ env'[s] = state /\ view' = view
    BY <1>2, <1>4, <1>5
  <2> QED
    BY <1>6, <1>10, <1>11, <2>1 DEF CallOK
<1>13. NewOK(s)'
  <2>1. call'[s].op = call[s].op
    BY <1>4, <1>5
  <2>2. env'[s] = "none" => call[s].op = "delete"
    BY <1>5, <1>11
  <2> QED
    BY <2>1, <2>2 DEF NewOK
<1>14. LinkOK(s)'
  <2>1. view[s].state = "none" /\ state = "running" => env[s] = "running"
    BY <1>3, <1>6
  <2> QED
    BY <1>1, <1>2, <1>5, <2>1 DEF LinkOK
<1>15. LostOK(s)'
  BY <1>2, <1>7, <1>11 DEF LostOK
<1>16. UnlinkOK(s)'
  BY <1>1, <1>2, <1>3, <1>5, <1>6, <1>8, <1>11 DEF UnlinkOK, LinkOK
<1>17. HostOK(s)'
  <2>1. SUFFICES ASSUME Hosts, env'[s] # "none", s \notin hosted
                 PROVE  view[s].state = "none" /\ Unsaid(s)'
    BY <1>2, <1>4, <1>5, <1>7, <1>10 DEF HostOK, Hosts
  <2>2. view[s].state = "none" /\ Unsaid(s)
    <3>1. CASE env[s] = "none"
      <4>1. op = "create"
        BY <1>3, <1>5, <2>1, <3>1
      <4> QED
        BY <1>1, <1>6, <3>1, <4>1 DEF NewOK
    <3>2. CASE env[s] # "none"
      BY <1>1, <2>1, <3>2 DEF HostOK
    <3> QED
      BY <3>1, <3>2
  <2>3. conn' = conn
    BY <1>3, <1>5, <1>6, <2>1, <2>2
  <2> QED
    BY <1>2, <2>2, <2>3 DEF Unsaid, Mute, NoneIn, Events
<1>18. ASSUME NEW d \in Connections PROVE ViewOK(d, s)'
  <2>1. SUFFICES ASSUME slot["control"] = d, conn[d].up, mishap = "none",
                        revoke \in {"no", "revoked"}, env'[s] # "none"
                 PROVE  Last(d, s)' \/ (NoneIn(d, s)' /\ (Noticed(d, s)' \/ Seen(d, s)'))
    BY <1>2, <1>10 DEF ViewOK
  <2>2. d = on
    BY <1>7, <2>1
  <2>3. CASE op = "create" /\ env[s] = "none" /\ conn' = conn
    <3>1. Unsaid(s) /\ view[s].state = "none"
      BY <1>1, <1>6, <2>3 DEF NewOK
    <3>2. NoneIn(d, s) /\ Mute(d, s)
      BY <3>1 DEF Unsaid, Speakers
    <3>3. NoneIn(d, s)'
      BY <2>3, <3>2 DEF NoneIn, Events
    <3>4. Seen(d, s)'
      BY <1>2, <1>4, <1>5, <1>8, <3>1, <3>2 DEF Seen, Mute
    <3> QED
      BY <3>3, <3>4
  <2>4. CASE conn' = conn /\ state = env[s]
    <3>1. ViewOK(d, s)
      BY DEF KInv, ViewsOK
    <3>2. Last(d, s) \/ (NoneIn(d, s) /\ (Noticed(d, s) \/ Seen(d, s)))
      BY <1>5, <2>1, <2>4, <3>1 DEF ViewOK
    <3>3. env'[s] = env[s]
      BY <1>5, <2>4
    <3>4. (Last(d, s) => Last(d, s)') /\ (NoneIn(d, s) => NoneIn(d, s)')
      BY <2>4, <3>3 DEF Last, NoneIn, Events
    <3>5. Noticed(d, s) => Noticed(d, s)'
      BY <1>2, <3>3 DEF Noticed
    <3>6. Seen(d, s) => Seen(d, s)'
      BY <1>2, <1>4, <1>5, <2>4 DEF Seen, Mute
    <3> QED
      BY <3>2, <3>4, <3>5, <3>6
  <2>5. CASE state \in States /\ Emits(s, state)
    <3>1. Told(d, s) /\ Events(d)'[Len(Events(d)) + 1].state = env'[s]
      BY <1>1, <1>5, <1>7, <2>2, <2>5, EmitsSays
    <3> QED
      BY <1>9, <3>1, SaysFacts
  <2> QED
    BY <1>3, <1>5, <2>1, <2>3, <2>4, <2>5
<1>19. \A d \in Connections : ~(dialed["control"] = d /\ conn[d].pc = "waiting")
  BY <1>7 DEF Admitted
<1> QED
  BY <1>5, <1>9, <1>12, <1>13, <1>14, <1>15, <1>16, <1>17, <1>18, <1>19,
     SaysKeeps
-----------------------------------------------------------------------------
(* Connections are dialed and registered, and leave.                       *)

LEMMA DialSettles ==
  ASSUME RInv, KInv, NEW c \in Connections, NEW k \in Kinds, Dial(c, k)
  PROVE  KInv'
<1>1. KType /\ ConnsOK /\ SessionsOK /\ ViewsOK /\ NoticesOK /\ ConnType
  BY DEF KInv, RInv
<1> DEFINE new == [Fresh(k) EXCEPT !.pc = "identify", !.up = TRUE]
<1>2. /\ UNCHANGED <<env, slot, hosted, revoke, late, restarts, sending, call, view,
                     link, mishap>>
      /\ conn' = [conn EXCEPT ![c] = new]
      /\ dialed' = [dialed EXCEPT ![k] = c]
      /\ conn[c].pc = "gone"
      /\ \A j \in Kinds : slot[j] # c
      /\ \A s \in Sessions : call[s].on # c
      /\ \A d \in Connections : dialed[k] = d => ~conn[d].up
  BY DEF Dial, Forgotten, At, gateway, session
<1>3. new \in Connection /\ new.pc = "identify" /\ new.kind = k /\ new.events = <<>>
  BY EventsType DEF Fresh, Connection
<1> HIDE DEF new
<1>4. /\ conn'[c] = new
      /\ \A d \in Connections : d # c => conn'[d] = conn[d] /\ Events(d)' = Events(d)
      /\ Events(c)' = <<>> /\ Len(Events(c)') = 0
  BY <1>1, <1>2, <1>3, UpdateOne DEF Events
<1>5. /\ dialed' \in [Kinds -> Connections \cup {None}] /\ dialed'[k] = c
      /\ \A j \in Kinds : j # k => dialed'[j] = dialed[j]
  BY <1>1, <1>2 DEF KType
<1>6. KType' /\ NoticesOK'
  BY <1>1, <1>2, <1>5 DEF KType, NoticesOK
<1>7. ASSUME NEW d \in Connections
      PROVE  (EventsOK(d) /\ UpOK(d) /\ SnapshotOK(d))'
  <2>1. EventsOK(d) /\ UpOK(d) /\ SnapshotOK(d)
    BY <1>1 DEF ConnsOK
  <2>2. CASE d = c
    BY <1>3, <1>4, <1>5, <2>2 DEF EventsOK, UpOK, SnapshotOK, Admitted
  <2>3. CASE d # c
    <3>1. conn'[d] = conn[d] /\ Events(d)' = Events(d) /\ conn[d].kind \in Kinds
      BY <1>1, <1>4, <2>3, ConnFacts
    <3>2. EventsOK(d)'
      BY <2>1, <3>1 DEF EventsOK
    <3>3. UpOK(d)'
      BY <1>2, <1>5, <2>1, <3>1 DEF UpOK
    <3>4. dialed'["control"] = d => dialed["control"] = d
      BY <1>5, <2>3, KindsAssumption
    <3>5. SnapshotOK(d)'
      BY <1>2, <2>1, <3>1, <3>4 DEF SnapshotOK, Snapped, Last, NoneIn
    <3> QED
      BY <3>2, <3>3, <3>5
  <2> QED
    BY <2>2, <2>3
<1>8. ASSUME NEW s \in Sessions
      PROVE  (Unsaid(s) => Unsaid(s)') /\ (Unseen(s) => Unseen(s)')
  <2>1. \A d \in Connections : (NoneIn(d, s) => NoneIn(d, s)') /\ (Blank(d, s) => Blank(d, s)')
    BY <1>4 DEF NoneIn, Blank
  <2> QED
    BY <1>2, <2>1 DEF Unsaid, Unseen, Mute
<1>9. ASSUME NEW s \in Sessions
      PROVE  (NewOK(s) /\ CallOK(s) /\ LinkOK(s) /\ HostOK(s) /\ UnlinkOK(s) /\ LostOK(s))'
  <2>1. NewOK(s) /\ CallOK(s) /\ LinkOK(s) /\ HostOK(s) /\ UnlinkOK(s) /\ LostOK(s)
    BY <1>1 DEF SessionsOK
  <2>2. NewOK(s)' /\ LinkOK(s)' /\ UnlinkOK(s)'
    BY <1>2, <1>8, <2>1 DEF NewOK, LinkOK, UnlinkOK
  <2>3. CallOK(s)'
    <3>1. call[s].on \in Connections => conn'[call[s].on] = conn[call[s].on]
      BY <1>2, <1>4
    <3> QED
      BY <1>2, <2>1, <3>1 DEF CallOK
  <2>4. HostOK(s)'
    <3>1. slot["control"] # None => conn'[slot["control"]] = conn[slot["control"]]
      BY <1>1, <1>2, <1>4, KindsAssumption DEF ConnType
    <3> QED
      BY <1>2, <1>8, <2>1, <3>1 DEF HostOK, Hosts
  <2>5. LostOK(s)'
    <3>1. \A x \in Connections : conn[x].pc = "losing" => conn'[x].pc = "losing"
      BY <1>2, <1>4
    <3> QED
      BY <1>2, <2>1, <3>1 DEF LostOK, Losing
  <2> QED
    BY <2>2, <2>3, <2>4, <2>5
<1>10. ASSUME NEW d \in Connections, NEW s \in Sessions
       PROVE  ViewOK(d, s)'
  <2>1. ViewOK(d, s) /\ (slot["control"] = d => d # c)
    BY <1>1, <1>2, KindsAssumption DEF ViewsOK
  <2> QED
    BY <1>2, <1>4, <2>1 DEF ViewOK, Last, NoneIn, Noticed, Seen, Mute
<1> QED
  BY <1>6, <1>7, <1>9, <1>10 DEF KInv, ConnsOK, SessionsOK, ViewsOK

(* A bulk connection is registered: nothing changes of the control one.    *)
LEMMA BulkSettles ==
  ASSUME RInv, KInv, NEW c \in Connections, AdmitBulk(c)
  PROVE  KInv'
<1>1. KType /\ ConnsOK /\ SessionsOK /\ ViewsOK /\ NoticesOK /\ ConnType
  BY DEF KInv, RInv
<1> DEFINE new == [conn[c] EXCEPT !.pc = "confirm"]
           admitted == [conn EXCEPT ![c] = new]
           closed == Closing(Replaced(c), admitted)
<1>2. /\ UNCHANGED <<env, dialed, hosted, revoke, late, restarts, sending, call, view,
                     link, mishap>>
      /\ conn[c].pc = "waiting" /\ conn[c].kind = "bulk"
      /\ conn' = closed
      /\ slot' = [slot EXCEPT !["bulk"] = c]
  BY DEF AdmitBulk, At, Registered, runner, session
<1>3. /\ new \in Connection /\ new.pc = "confirm" /\ new.kind = "bulk"
      /\ new.up = conn[c].up /\ new.events = conn[c].events
  BY <1>1, <1>2 DEF ConnType, Connection
<1> HIDE DEF new
<1>4. /\ admitted \in [Connections -> Connection] /\ admitted[c] = new
      /\ \A d \in Connections : d # c => admitted[d] = conn[d]
  BY <1>1, <1>3 DEF ConnType
<1> HIDE DEF admitted
<1>5. \A d \in Connections :
         /\ closed[d].pc = admitted[d].pc /\ closed[d].kind = admitted[d].kind
         /\ closed[d].up => admitted[d].up
  BY <1>4, ClosingAll
<1>6. \A d \in Connections : closed[d].events = admitted[d].events
  <2>1. \A r \in Connection : [r EXCEPT !.up = FALSE].events = r.events
    BY DEF Connection
  <2> QED
    BY <1>4, <2>1 DEF Closing
<1> HIDE DEF closed
<1>7. /\ \A d \in Connections :
            /\ conn'[d].kind = conn[d].kind
            /\ conn'[d].up => conn[d].up
            /\ Events(d)' = Events(d)
            /\ d # c => conn'[d].pc = conn[d].pc
      /\ conn'[c].pc = "confirm"
  <2>1. /\ conn'[c].kind = conn[c].kind /\ conn'[c].pc = "confirm"
        /\ conn'[c].up => conn[c].up
        /\ conn'[c].events = conn[c].events
    BY <1>2, <1>3, <1>4, <1>5, <1>6
  <2>2. ASSUME NEW d \in Connections, d # c
        PROVE  /\ conn'[d].kind = conn[d].kind /\ conn'[d].pc = conn[d].pc
               /\ conn'[d].up => conn[d].up
               /\ conn'[d].events = conn[d].events
    BY <1>2, <1>4, <1>5, <1>6, <2>2
  <2> QED
    BY <2>1, <2>2 DEF Events
<1>8. slot'["control"] = slot["control"]
  BY <1>1, <1>2, KindsAssumption DEF ConnType
<1>9. KType' /\ NoticesOK'
  BY <1>1, <1>2 DEF KType, NoticesOK
<1>10. ASSUME NEW d \in Connections
       PROVE  (EventsOK(d) /\ UpOK(d) /\ SnapshotOK(d))'
  <2>1. EventsOK(d) /\ UpOK(d) /\ SnapshotOK(d)
    BY <1>1 DEF ConnsOK
  <2>2. UpOK(d)'
    BY <1>2, <1>7, <2>1 DEF UpOK, Admitted
  <2>3. CASE d = c
    <3>1. Events(c) = <<>> /\ Len(Events(c)) = 0
      BY <1>1, <1>2, <2>1, <2>3, ConnFacts DEF EventsOK
    <3> QED
      BY <1>7, <2>2, <2>3, <3>1 DEF EventsOK, SnapshotOK
  <2>4. CASE d # c
    <3>1. EventsOK(d)'
      BY <1>7, <2>1, <2>4 DEF EventsOK
    <3> QED
      BY <1>2, <1>7, <2>1, <2>2, <2>4, <3>1 DEF SnapshotOK, Snapped, Last,
         NoneIn
  <2> QED
    BY <2>3, <2>4
<1>11. ASSUME NEW s \in Sessions
       PROVE  (Unsaid(s) => Unsaid(s)') /\ (Unseen(s) => Unseen(s)')
  BY <1>2, <1>7 DEF Unsaid, Unseen, Mute, NoneIn, Blank
<1>12. ASSUME NEW s \in Sessions
       PROVE  (NewOK(s) /\ CallOK(s) /\ LinkOK(s) /\ HostOK(s) /\ UnlinkOK(s) /\ LostOK(s))'
  <2>1. NewOK(s) /\ CallOK(s) /\ LinkOK(s) /\ HostOK(s) /\ UnlinkOK(s) /\ LostOK(s)
    BY <1>1 DEF SessionsOK
  <2>2. NewOK(s)' /\ CallOK(s)' /\ LinkOK(s)' /\ UnlinkOK(s)'
    BY <1>2, <1>7, <1>11, <2>1 DEF NewOK, CallOK, LinkOK, UnlinkOK
  <2>3. slot["control"] # None => slot["control"] \in Connections
    BY <1>1, KindsAssumption DEF ConnType
  <2>4. HostOK(s)'
    BY <1>2, <1>7, <1>8, <1>11, <2>1, <2>3 DEF HostOK, Hosts
  <2>5. LostOK(s)'
    BY <1>2, <1>7, <1>8, <2>1 DEF LostOK, Losing
  <2> QED
    BY <2>2, <2>4, <2>5
<1>13. ASSUME NEW d \in Connections, NEW s \in Sessions
       PROVE  ViewOK(d, s)'
  <2>1. ViewOK(d, s)
    BY <1>1 DEF ViewsOK
  <2> QED
    BY <1>2, <1>7, <1>8, <2>1 DEF ViewOK, Last, NoneIn, Noticed, Seen, Mute
<1> QED
  BY <1>9, <1>10, <1>12, <1>13 DEF KInv, ConnsOK, SessionsOK, ViewsOK
(* The events of an admitted connection are those after its snapshot.      *)
LEMMA AdmittedEvents ==
  ASSUME RInv, KInv, NEW c \in Connections, conn[c].pc = "waiting", Events(c) # <<>>,
         Events(c)' = Tail(Events(c)), env' = env
  PROVE  /\ 1 \in 1..Len(Events(c)) /\ Events(c)[1] \in Snapshot
         /\ Head(Events(c)) = Events(c)[1]
         /\ \A i \in 1..Len(Events(c)') : /\ i + 1 \in 1..Len(Events(c)) /\ i + 1 # 1
                                          /\ Events(c)'[i] = Events(c)[i + 1]
                                          /\ Events(c)'[i] \in Change
         /\ \A s \in Sessions : /\ NoneIn(c, s) => NoneIn(c, s)'
                                /\ Last(c, s) => Last(c, s)'
                                /\ Blank(c, s)'
<1>1. Events(c) \in Seq(Snapshot \cup Change) /\ EventsOK(c)
  BY ConnFacts DEF RInv, KInv, ConnsOK
<1>2. /\ Len(Events(c)) \in Nat \ {0} /\ Len(Events(c)') = Len(Events(c)) - 1
      /\ \A i \in 1..(Len(Events(c)) - 1) : Events(c)'[i] = Events(c)[i + 1]
      /\ Head(Events(c)) = Events(c)[1]
  BY <1>1, TailOne
<1>3. 1 \in 1..Len(Events(c)) /\ Events(c)[1] \in Snapshot
  BY <1>1, <1>2 DEF EventsOK
<1>4. \A i \in 1..Len(Events(c)') : /\ i + 1 \in 1..Len(Events(c)) /\ i + 1 # 1
                                    /\ Events(c)'[i] = Events(c)[i + 1]
  BY <1>2
<1>5. \A i \in 1..Len(Events(c)') : Events(c)'[i] \in Change
  BY <1>1, <1>4 DEF EventsOK
<1>6. \A s \in Sessions : NoneIn(c, s) => NoneIn(c, s)'
  BY <1>4 DEF NoneIn
<1>7. \A s \in Sessions : Blank(c, s)'
  BY <1>5, TellsFacts DEF Blank
<1>8. ASSUME NEW s \in Sessions, Last(c, s)
      PROVE  Last(c, s)'
  <2>1. PICK i \in 1..Len(Events(c)) :
           /\ Tells(Events(c)[i], s) /\ Events(c)[i].state = env[s]
           /\ \A j \in 1..Len(Events(c)) : j > i => ~Tells(Events(c)[j], s)
    BY <1>8 DEF Last
  <2>2. i # 1
    BY <1>3, <2>1, TellsFacts DEF Tells
  <2>3. i - 1 \in 1..Len(Events(c)') /\ Events(c)'[i - 1] = Events(c)[i]
    BY <1>2, <2>2
  <2>4. \A j \in 1..Len(Events(c)') : j > i - 1 => ~Tells(Events(c)'[j], s)
    BY <1>2, <1>4, <2>1
  <2> QED
    BY <2>1, <2>3, <2>4 DEF Last
<1> QED
  BY <1>2, <1>3, <1>4, <1>5, <1>6, <1>7, <1>8

(* A control connection is registered with its snapshot: its notices tell  *)
(* of all there is, and the changes after it of what became of that.       *)
LEMMA AdmitSettles ==
  ASSUME RInv, KInv, NEW c \in Connections, Admit(c)
  PROVE  KInv'
<1>1. /\ KType /\ ConnsOK /\ SessionsOK /\ ViewsOK /\ NoticesOK /\ ConnType
      /\ c \in Speakers /\ Revoker \in Speakers /\ c # Revoker /\ c # None
      /\ sending \in [Speakers -> SUBSET Notice]
  BY NoneAssumption DEF KInv, RInv, Speakers, KType
<1> DEFINE new == [conn[c] EXCEPT !.pc = "confirm", !.events = Tail(conn[c].events)]
           admitted == [conn EXCEPT ![c] = new]
           old == slot["control"]
           closed == Closing({old} \ {c}, admitted)
           snap == Head(Events(c)).env
           said == {Changed(s, snap[s]) : s \in {t \in Sessions : snap[t] # "none"}}
<1>2. /\ UNCHANGED <<env, dialed, revoke, late, restarts, call, view, link>>
      /\ conn[c].pc = "waiting" /\ Events(c) # <<>>
      /\ hosted' = {s \in Sessions : snap[s] # "none"}
      /\ sending' = [sending EXCEPT ![c] = said]
      /\ Mishap(dialed["control"] # c)
      /\ slot' = [slot EXCEPT ![conn[c].kind] = c]
      /\ conn' = Closing({slot[conn[c].kind]} \ {c}, admitted)
  BY DEF Admit, At, Registered, Replaced, runner, Events, Hosted, Snapshots
<1>3. conn[c].kind = "control"
  BY <1>1, <1>2 DEF ConnsOK, EventsOK
<1>4. conn' = closed /\ slot' = [slot EXCEPT !["control"] = c]
  BY <1>2, <1>3
<1>5. slot'["control"] = c
  BY <1>1, <1>4, KindsAssumption DEF ConnType
<1>6. mishap' = "none" => mishap = "none" /\ dialed["control"] = c
  BY <1>2, MishapFacts
<1>7. mishap = "some" => mishap' = "some"
  BY <1>2, MishapFacts
<1>8. /\ new \in Connection /\ new.pc = "confirm" /\ new.kind = conn[c].kind
      /\ new.up = conn[c].up /\ new.events = Tail(Events(c))
  <2>1. conn[c] \in Connection
    BY <1>1 DEF ConnType
  <2>2. Tail(conn[c].events) \in Seq(Snapshot \cup Change)
    BY <1>1, <1>2, ConnFacts, EventsType DEF Events
  <2> QED
    BY <2>1, <2>2 DEF Connection, Events
<1> HIDE DEF new
<1>9. /\ admitted \in [Connections -> Connection] /\ admitted[c] = new
      /\ \A d \in Connections : d # c => admitted[d] = conn[d]
  BY <1>1, <1>8 DEF ConnType
<1> HIDE DEF admitted, old
<1>10. \A d \in Connections :
         /\ closed[d].pc = admitted[d].pc /\ closed[d].kind = admitted[d].kind
         /\ closed[d].up => admitted[d].up
  BY <1>9, ClosingAll
<1>11. \A d \in Connections : closed[d].events = admitted[d].events
  <2>1. \A r \in Connection : [r EXCEPT !.up = FALSE].events = r.events
    BY DEF Connection
  <2> QED
    BY <1>9, <2>1 DEF Closing
<1> HIDE DEF closed, snap, said
<1>12. /\ conn'[c].pc = "confirm" /\ conn'[c].kind = "control"
       /\ conn'[c].up => conn[c].up
       /\ Events(c)' = Tail(Events(c))
  BY <1>3, <1>4, <1>8, <1>9, <1>10, <1>11 DEF Events
<1>13. ASSUME NEW d \in Connections, d # c
       PROVE  /\ conn'[d].kind = conn[d].kind /\ conn'[d].pc = conn[d].pc
              /\ conn'[d].up => conn[d].up
              /\ Events(d)' = Events(d)
  BY <1>4, <1>9, <1>10, <1>11, <1>13 DEF Events
<1>14. Events(c)[1] \in Snapshot /\ snap = Events(c)[1].env
       /\ snap \in [Sessions -> Environment]
  <2>1. Events(c)[1] \in Snapshot /\ Head(Events(c)) = Events(c)[1]
    BY <1>2, <1>12, AdmittedEvents
  <2> QED
    BY <2>1, TellsFacts DEF snap
<1>15. /\ said \in SUBSET Notice
       /\ \A n \in said : n.type = "changed"
       /\ \A s \in Sessions : snap[s] # "none" => Changed(s, snap[s]) \in said
       /\ \A n \in said, s \in Sessions : Tells(n, s) => snap[s] # "none"
                                                        /\ n = Changed(s, snap[s])
  <2>1. \A s \in Sessions : snap[s] # "none" => snap[s] \in States
    BY <1>14 DEF Environment
  <2>2. ASSUME NEW n \in said
        PROVE  \E s \in Sessions : /\ snap[s] # "none" /\ n = Changed(s, snap[s])
                                   /\ n \in Notice /\ n.type = "changed" /\ n.session = s
    BY <2>1, TellsFacts DEF said
  <2>3. \A s \in Sessions : snap[s] # "none" => Changed(s, snap[s]) \in said
    BY DEF said
  <2> QED
    BY <2>2, <2>3 DEF Tells
<1>16. /\ sending' \in [Speakers -> SUBSET Notice] /\ sending'[c] = said
       /\ \A x \in Speakers : x # c => sending'[x] = sending[x]
  BY <1>1, <1>2, <1>15
<1>17. KType'
  BY <1>1, <1>2, <1>16 DEF KType
<1>18. NoticesOK'
  BY <1>1, <1>2, <1>7, <1>15, <1>16 DEF NoticesOK
<1>19. ASSUME NEW d \in Connections
       PROVE  (EventsOK(d) /\ UpOK(d) /\ SnapshotOK(d))'
  <2>1. EventsOK(d) /\ UpOK(d) /\ SnapshotOK(d)
    BY <1>1 DEF ConnsOK
  <2>2. CASE d = c
    <3>1. EventsOK(c)'
      BY <1>2, <1>12, AdmittedEvents DEF EventsOK, Admitted
    <3>2. UpOK(c)'
      BY <1>2, <1>3, <1>12, <2>1, <2>2 DEF UpOK, Admitted
    <3> QED
      BY <1>12, <2>2, <3>1, <3>2 DEF SnapshotOK
  <2>3. CASE d # c
    <3>1. EventsOK(d)'
      BY <1>13, <2>1, <2>3 DEF EventsOK
    <3>2. UpOK(d)'
      BY <1>2, <1>13, <2>1, <2>3 DEF UpOK
    <3>3. \A s \in Sessions : Snapped(d, s) => Snapped(d, s)'
      BY <1>2, <1>13, <2>3 DEF Snapped, Last, NoneIn
    <3>4. SnapshotOK(d)'
      BY <1>2, <1>13, <2>1, <2>3, <3>3 DEF SnapshotOK
    <3> QED
      BY <3>1, <3>2, <3>4
  <2> QED
    BY <2>2, <2>3
<1>20. ASSUME NEW s \in Sessions, dialed["control"] = c, env[s] # "none"
       PROVE  Snapped(c, s) /\ snap[s] # "none"
  <2>1. SnapshotOK(c)
    BY <1>1 DEF ConnsOK
  <2> QED
    BY <1>2, <1>14, <1>20, <2>1 DEF SnapshotOK, Snapped
<1>21. ASSUME NEW s \in Sessions
       PROVE  /\ Unsaid(s) /\ Blank(c, s) => Unsaid(s)'
              /\ Unseen(s) => Unseen(s)'
  <2>1. \A d \in Connections : (NoneIn(d, s) => NoneIn(d, s)') /\ (Blank(d, s) => Blank(d, s)')
    <3>1. ASSUME NEW d \in Connections, d # c
          PROVE  (NoneIn(d, s) => NoneIn(d, s)') /\ (Blank(d, s) => Blank(d, s)')
      BY <1>13, <3>1 DEF NoneIn, Blank
    <3>2. (NoneIn(c, s) => NoneIn(c, s)') /\ Blank(c, s)'
      BY <1>2, <1>12, AdmittedEvents
    <3> QED
      BY <3>1, <3>2
  <2>2. Blank(c, s) => snap[s] = "none"
    <3>1. 1 \in 1..Len(Events(c))
      BY <1>2, <1>12, AdmittedEvents
    <3> QED
      BY <1>14, <3>1, TellsFacts DEF Blank
  <2>3. Blank(c, s) => Mute(c, s)'
    BY <1>15, <1>16, <2>2 DEF Mute
  <2>4. \A x \in Speakers : x # c /\ Mute(x, s) => Mute(x, s)'
    BY <1>16 DEF Mute
  <2> QED
    BY <1>1, <1>2, <2>1, <2>3, <2>4 DEF Unsaid, Unseen
<1>22. ASSUME NEW s \in Sessions
       PROVE  (NewOK(s) /\ CallOK(s) /\ LinkOK(s) /\ HostOK(s) /\ UnlinkOK(s) /\ LostOK(s))'
  <2>1. NewOK(s) /\ CallOK(s) /\ LinkOK(s) /\ HostOK(s) /\ UnlinkOK(s) /\ LostOK(s)
    BY <1>1 DEF SessionsOK
  <2>2. NewOK(s)'
    BY <1>2, <1>21, <2>1 DEF NewOK, Unseen
  <2>3. CallOK(s)'
    <3>1. \A d \in Connections :
             /\ conn'[d].kind = conn[d].kind
             /\ conn'[d].pc \in {"identify", "waiting"} => conn[d].pc \in {"identify", "waiting"}
      BY <1>3, <1>12, <1>13
    <3> QED
      BY <1>2, <2>1, <3>1 DEF CallOK
  <2>4. LinkOK(s)' /\ LostOK(s)'
    BY <1>1, <1>2, <1>5, <2>1 DEF LinkOK, LostOK
  <2>5. UnlinkOK(s)'
    BY <1>1, <1>2, <1>6, <1>16, <2>1 DEF UnlinkOK
  <2>6. HostOK(s)'
    <3>1. SUFFICES ASSUME Hosts', env[s] # "none" PROVE s \in hosted'
      BY <1>2 DEF HostOK
    <3>2. dialed["control"] = c
      <4>1. CASE conn'[c].up
        BY <1>1, <1>3, <1>12, <4>1 DEF ConnsOK, UpOK
      <4>2. CASE mishap' = "none"
        BY <1>6, <4>2
      <4> QED
        BY <1>5, <3>1, <4>1, <4>2 DEF Hosts
    <3> QED
      BY <1>2, <1>20, <3>1, <3>2
  <2> QED
    BY <2>2, <2>3, <2>4, <2>5, <2>6
<1>23. ASSUME NEW d \in Connections, NEW s \in Sessions
       PROVE  ViewOK(d, s)'
  <2>1. SUFFICES ASSUME d = c, conn'[c].up, mishap' = "none", env[s] # "none"
                 PROVE  Last(c, s)' \/ (NoneIn(c, s)' /\ Noticed(c, s)')
    BY <1>2, <1>5 DEF ViewOK
  <2>2. dialed["control"] = c /\ conn[c].up
    BY <1>6, <1>12, <2>1
  <2>3. Last(c, s) \/ (NoneIn(c, s) /\ snap[s] = env[s])
    BY <1>14, <1>20, <2>1, <2>2 DEF Snapped
  <2>4. (Last(c, s) => Last(c, s)') /\ (NoneIn(c, s) => NoneIn(c, s)')
    BY <1>2, <1>12, AdmittedEvents
  <2>5. snap[s] = env[s] => Noticed(c, s)'
    BY <1>2, <1>15, <1>16, <2>1 DEF Noticed
  <2> QED
    BY <2>3, <2>4, <2>5
<1> QED
  BY <1>17, <1>18, <1>19, <1>22, <1>23 DEF KInv, ConnsOK, SessionsOK, ViewsOK
-----------------------------------------------------------------------------
(* The sessions of a connection that leaves are told.                      *)

(* A session the registered connection does not host has nothing to lose.  *)
LEMMA UnhostedIsUnknown ==
  ASSUME KInv, NEW s \in Sessions, slot["control"] # None, mishap = "none",
         env[s] # "none", s \notin hosted
  PROVE  ~view[s].reachable /\ s \notin link /\ call[s].pc # "accepted"
<1>1. HostOK(s) /\ LinkOK(s)
  BY DEF KInv, SessionsOK
<1> QED
  BY <1>1 DEF HostOK, Hosts, LinkOK, States

(* A connection that ends is told of to the sessions it hosted, if it is   *)
(* still the registered one.                                               *)
LEMMA RemoveSettles ==
  ASSUME RInv, KInv, NEW c \in Connections, RemoveConnection(c)
  PROVE  KInv'
<1>1. /\ KType /\ ConnsOK /\ SessionsOK /\ ViewsOK /\ NoticesOK /\ ConnType
      /\ c \in Speakers /\ Revoker \in Speakers /\ c # Revoker /\ c # None
      /\ sending \in [Speakers -> SUBSET Notice] /\ hosted \in SUBSET Sessions
  BY NoneAssumption DEF KInv, RInv, Speakers, KType
<1> DEFINE told == IF slot["control"] = c THEN {Unreachable(s) : s \in hosted} ELSE {}
           new == [Fresh(conn[c].kind) EXCEPT !.pc = "losing"]
<1>2. /\ UNCHANGED <<env, dialed, revoke, late, restarts, call, view, link, mishap>>
      /\ conn[c].pc = "ending"
      /\ slot' = [k \in Kinds |-> IF slot[k] = c THEN None ELSE slot[k]]
      /\ hosted' = IF slot["control"] = c THEN {} ELSE hosted
      /\ sending' = [sending EXCEPT ![c] = told]
      /\ conn' = [conn EXCEPT ![c] = new]
  BY DEF RemoveConnection, At, runner, session, Ended
<1>3. /\ new \in Connection /\ new.pc = "losing" /\ new.kind = conn[c].kind /\ ~new.up
      /\ new.events = <<>>
  <2>1. conn[c].kind \in Kinds
    BY <1>1, ConnFacts
  <2> QED
    BY <2>1, EventsType DEF Fresh, Connection
<1> HIDE DEF new
<1>4. /\ conn'[c] = new /\ Events(c)' = <<>> /\ Len(Events(c)') = 0
      /\ \A d \in Connections : d # c => conn'[d] = conn[d] /\ Events(d)' = Events(d)
  BY <1>1, <1>2, <1>3, UpdateOne DEF Events
<1>5. slot'["control"] = IF slot["control"] = c THEN None ELSE slot["control"]
  BY <1>2, KindsAssumption
<1>6. /\ told \in SUBSET Notice /\ \A n \in told : n.type = "unreachable"
      /\ slot["control"] = c => \A s \in hosted : Unreachable(s) \in told
  BY <1>1, TellsFacts
<1> HIDE DEF told
<1>7. /\ sending' \in [Speakers -> SUBSET Notice] /\ sending'[c] = told
      /\ \A x \in Speakers : x # c => sending'[x] = sending[x]
  BY <1>1, <1>2, <1>6
<1>8. KType' /\ NoticesOK'
  BY <1>1, <1>2, <1>6, <1>7 DEF KType, NoticesOK
<1>9. ASSUME NEW d \in Connections
      PROVE  (EventsOK(d) /\ UpOK(d) /\ SnapshotOK(d))'
  <2>1. EventsOK(d) /\ UpOK(d) /\ SnapshotOK(d)
    BY <1>1 DEF ConnsOK
  <2>2. CASE d = c
    BY <1>3, <1>4, <2>2 DEF EventsOK, UpOK, SnapshotOK
  <2>3. CASE d # c
    BY <1>2, <1>4, <2>1, <2>3 DEF EventsOK, UpOK, SnapshotOK, Snapped, Last,
       NoneIn
  <2> QED
    BY <2>2, <2>3
<1>10. ASSUME NEW s \in Sessions
       PROVE  (Unsaid(s) => Unsaid(s)') /\ (Unseen(s) => Unseen(s)')
  <2>1. \A d \in Connections : (NoneIn(d, s) => NoneIn(d, s)') /\ (Blank(d, s) => Blank(d, s)')
    BY <1>4 DEF NoneIn, Blank
  <2>2. \A x \in Speakers : Mute(x, s) => Mute(x, s)'
    BY <1>6, <1>7 DEF Mute, Tells
  <2> QED
    BY <1>2, <2>1, <2>2 DEF Unsaid, Unseen
<1>11. ASSUME NEW s \in Sessions
       PROVE  (NewOK(s) /\ CallOK(s) /\ LinkOK(s) /\ HostOK(s) /\ UnlinkOK(s) /\ LostOK(s))'
  <2>1. NewOK(s) /\ CallOK(s) /\ LinkOK(s) /\ HostOK(s) /\ UnlinkOK(s) /\ LostOK(s)
    BY <1>1 DEF SessionsOK
  <2>2. NewOK(s)' /\ LinkOK(s)' /\ UnlinkOK(s)'
    BY <1>1, <1>2, <1>7, <1>10, <2>1 DEF NewOK, LinkOK, UnlinkOK
  <2>3. CallOK(s)'
    <3>1. \A d \in Connections :
             /\ conn'[d].kind = conn[d].kind
             /\ conn'[d].pc \in {"identify", "waiting"} => conn[d].pc \in {"identify", "waiting"}
      BY <1>3, <1>4
    <3> QED
      BY <1>2, <2>1, <3>1 DEF CallOK
  <2>4. HostOK(s)'
    <3>1. CASE slot["control"] = c
      BY <1>5, <3>1 DEF HostOK, Hosts
    <3>2. CASE slot["control"] # c
      <4>1. slot["control"] # None => conn'[slot["control"]] = conn[slot["control"]]
        BY <1>1, <1>4, <3>2, KindsAssumption DEF ConnType
      <4> QED
        BY <1>2, <1>5, <1>10, <2>1, <3>2, <4>1 DEF HostOK, Hosts
    <3> QED
      BY <3>1, <3>2
  <2>5. LostOK(s)'
    <3>1. SUFFICES ASSUME mishap = "none", restarts = 0, slot'["control"] = None,
                          env[s] # "none", view[s].reachable \/ call[s].pc = "accepted"
                   PROVE  Losing(s)'
      BY <1>2 DEF LostOK
    <3>2. CASE slot["control"] = c
      <4>1. s \in hosted
        BY <1>1, <3>1, <3>2, UnhostedIsUnknown
      <4> QED
        BY <1>3, <1>4, <1>6, <1>7, <3>2, <4>1 DEF Losing
    <3>3. CASE slot["control"] # c
      <4>1. Losing(s)
        BY <1>5, <2>1, <3>1, <3>3 DEF LostOK
      <4>2. \A x \in Connections : conn[x].pc = "losing" /\ Unreachable(s) \in sending[x] =>
               conn'[x].pc = "losing" /\ Unreachable(s) \in sending'[x]
        BY <1>2, <1>4, <1>7 DEF Speakers
      <4>3. sending'[Revoker] = sending[Revoker]
        BY <1>1, <1>7
      <4> QED
        BY <4>1, <4>2, <4>3 DEF Losing
    <3> QED
      BY <3>2, <3>3
  <2> QED
    BY <2>2, <2>3, <2>4, <2>5
<1>12. ASSUME NEW d \in Connections, NEW s \in Sessions
       PROVE  ViewOK(d, s)'
  <2>1. ViewOK(d, s) /\ d # None
    BY <1>1, NoneAssumption DEF ViewsOK
  <2>2. slot'["control"] = d => slot["control"] = d /\ d # c
    BY <1>5, <2>1
  <2>3. d # c => sending'[d] = sending[d]
    BY <1>7 DEF Speakers
  <2> QED
    BY <1>2, <1>4, <2>1, <2>2, <2>3 DEF ViewOK, Last, NoneIn, Noticed, Seen,
       Mute
<1> QED
  BY <1>8, <1>9, <1>11, <1>12 DEF KInv, ConnsOK, SessionsOK, ViewsOK

(* A revocation tells the sessions of the connection it closes.            *)
LEMMA DisconnectSettles ==
  ASSUME RInv, KInv, DisconnectRunner
  PROVE  KInv'
<1>1. /\ KType /\ ConnsOK /\ SessionsOK /\ ViewsOK /\ NoticesOK /\ ConnType
      /\ Revoker \in Speakers /\ \A x \in Connections : x \in Speakers /\ x # Revoker
      /\ sending \in [Speakers -> SUBSET Notice] /\ hosted \in SUBSET Sessions
  BY NoneAssumption DEF KInv, RInv, Speakers, KType
<1> DEFINE told == {RevokedNotice(s) : s \in hosted}
           cs == {slot[k] : k \in Kinds}
           closed == Closing(cs, conn)
<1>2. /\ UNCHANGED <<env, dialed, late, restarts, call, view, link, mishap>>
      /\ revoke = "revoked" /\ slot' = [k \in Kinds |-> None] /\ hosted' = {}
      /\ conn' = closed
      /\ \/ slot["control"] = None /\ revoke' = "done" /\ sending' = sending
         \/ slot["control"] # None /\ revoke' = "closing"
               /\ sending' = [sending EXCEPT ![Revoker] = told]
  BY DEF DisconnectRunner, runner, session
<1>3. slot'["control"] = None
  BY <1>2, KindsAssumption
<1> HIDE DEF cs
<1>4. \A d \in Connections : /\ conn'[d].pc = conn[d].pc /\ conn'[d].kind = conn[d].kind
                             /\ conn'[d].up => conn[d].up
                             /\ Events(d)' = Events(d)
  <2>1. \A r \in Connection : [r EXCEPT !.up = FALSE].events = r.events
    BY DEF Connection
  <2>2. \A d \in Connections : closed[d].events = conn[d].events
    BY <1>1, <2>1 DEF Closing, ConnType
  <2>3. \A d \in Connections : /\ closed[d].pc = conn[d].pc /\ closed[d].kind = conn[d].kind
                               /\ closed[d].up => conn[d].up
    BY <1>1, ClosingAll DEF ConnType
  <2> HIDE DEF closed
  <2> QED
    BY <1>2, <2>2, <2>3 DEF Events
<1>5. /\ told \in SUBSET Notice /\ \A n \in told : n.type = "revoked"
      /\ \A s \in hosted : RevokedNotice(s) \in told
  BY <1>1, TellsFacts
<1> HIDE DEF told, closed
<1>6. /\ sending' \in [Speakers -> SUBSET Notice]
      /\ \A x \in Connections : sending'[x] = sending[x]
      /\ slot["control"] = None => sending'[Revoker] = sending[Revoker]
      /\ slot["control"] # None => sending'[Revoker] = told
  BY <1>1, <1>2, <1>5 DEF Speakers
<1>7. \A x \in Speakers : sending'[x] = sending[x] \/ (x = Revoker /\ sending'[x] = told)
  BY <1>6 DEF Speakers
<1>8. KType' /\ NoticesOK'
  <2>1. KType'
    BY <1>1, <1>2, <1>6 DEF KType
  <2>2. NoticesOK'
    BY <1>1, <1>2, <1>5, <1>7 DEF NoticesOK
  <2> QED
    BY <2>1, <2>2
<1>9. ASSUME NEW d \in Connections
      PROVE  (EventsOK(d) /\ UpOK(d) /\ SnapshotOK(d))'
  <2>1. EventsOK(d) /\ UpOK(d) /\ SnapshotOK(d)
    BY <1>1 DEF ConnsOK
  <2>2. EventsOK(d)' /\ UpOK(d)'
    BY <1>2, <1>4, <2>1 DEF EventsOK, UpOK
  <2> QED
    BY <1>2, <1>4, <2>1, <2>2 DEF SnapshotOK, Snapped, Last, NoneIn
<1>10. ASSUME NEW s \in Sessions
       PROVE  (Unsaid(s) => Unsaid(s)') /\ (Unseen(s) => Unseen(s)')
  <2>1. \A d \in Connections : (NoneIn(d, s) => NoneIn(d, s)') /\ (Blank(d, s) => Blank(d, s)')
    BY <1>4 DEF NoneIn, Blank
  <2>2. \A x \in Speakers : Mute(x, s) => Mute(x, s)'
    BY <1>5, <1>7 DEF Mute, Tells
  <2> QED
    BY <1>2, <2>1, <2>2 DEF Unsaid, Unseen
<1>11. ASSUME NEW s \in Sessions
       PROVE  (NewOK(s) /\ CallOK(s) /\ LinkOK(s) /\ HostOK(s) /\ UnlinkOK(s) /\ LostOK(s))'
  <2>1. NewOK(s) /\ CallOK(s) /\ LinkOK(s) /\ HostOK(s) /\ UnlinkOK(s) /\ LostOK(s)
    BY <1>1 DEF SessionsOK
  <2>2. NewOK(s)' /\ CallOK(s)' /\ LinkOK(s)'
    BY <1>2, <1>4, <1>10, <2>1 DEF NewOK, CallOK, LinkOK
  <2>3. HostOK(s)'
    BY <1>3 DEF HostOK, Hosts
  <2>4. ASSUME mishap = "none", env[s] # "none", slot["control"] # None,
               view[s].reachable \/ s \in link \/ call[s].pc = "accepted"
        PROVE  RevokedNotice(s) \in sending'[Revoker]
    <3>1. s \in hosted
      BY <2>4, UnhostedIsUnknown
    <3> QED
      BY <1>5, <1>6, <2>4, <3>1
  <2>5. UnlinkOK(s)'
    BY <1>2, <2>4 DEF UnlinkOK
  <2>6. LostOK(s)'
    BY <1>2, <1>4, <1>6, <2>1, <2>4 DEF LostOK, Losing
  <2> QED
    BY <2>2, <2>3, <2>5, <2>6
<1>12. ASSUME NEW d \in Connections, NEW s \in Sessions
       PROVE  ViewOK(d, s)'
  BY <1>3, NoneAssumption DEF ViewOK
<1> QED
  BY <1>8, <1>9, <1>11, <1>12 DEF KInv, ConnsOK, SessionsOK, ViewsOK

(* After a restart nothing is registered, hosted or under way.             *)
LEMMA RestartSettles ==
  ASSUME RInv, KInv, Restart
  PROVE  KInv'
<1>1. KType /\ SessionsOK /\ NoticesOK
  BY DEF KInv
<1>2. /\ UNCHANGED <<env, dialed, late, view, link, mishap>>
      /\ slot' = [k \in Kinds |-> None] /\ hosted' = {}
      /\ conn' = [c \in Connections |-> Fresh(conn[c].kind)]
      /\ revoke' = IF revoke = "closing" THEN "done" ELSE revoke
      /\ sending' = [x \in DOMAIN sending |-> {}]
      /\ call' = [s \in Sessions |-> Unanswered(s)]
      /\ restarts' = restarts + 1
  BY DEF Restart, runner
<1>3. slot'["control"] = None
  BY <1>2, KindsAssumption
<1>4. \A d \in Connections : /\ conn'[d].pc = "gone" /\ ~conn'[d].up
                             /\ Events(d)' = <<>> /\ Len(Events(d)') = 0
  BY <1>2 DEF Fresh, Events
<1>5. sending' \in [Speakers -> SUBSET Notice] /\ \A x \in Speakers : sending'[x] = {}
  BY <1>1, <1>2 DEF KType
<1>6. /\ call' \in [Sessions -> Call]
      /\ \A s \in Sessions : /\ call'[s].pc = "idle"
                             /\ call'[s].op = "delete" <=> call[s].op = "delete"
  BY <1>2, UnansweredFacts
<1>7. KType'
  BY <1>1, <1>2, <1>5, <1>6 DEF KType
<1>8. ConnsOK' /\ ViewsOK'
  BY <1>4 DEF ConnsOK, EventsOK, UpOK, SnapshotOK, ViewsOK, ViewOK
<1>9. NoticesOK'
  BY <1>1, <1>2, <1>5 DEF NoticesOK, Speakers
<1>10. ASSUME NEW s \in Sessions
       PROVE  (NewOK(s) /\ CallOK(s) /\ LinkOK(s) /\ HostOK(s) /\ UnlinkOK(s) /\ LostOK(s))'
  <2>1. NewOK(s) /\ CallOK(s) /\ LinkOK(s)
    BY <1>1 DEF SessionsOK
  <2>2. (Unsaid(s) => Unsaid(s)') /\ Unseen(s)'
    BY <1>2, <1>4, <1>5 DEF Unsaid, Unseen, Mute, NoneIn, Blank
  <2>3. NewOK(s)' /\ CallOK(s)' /\ LinkOK(s)' /\ HostOK(s)'
    BY <1>2, <1>3, <1>6, <2>1, <2>2 DEF NewOK, CallOK, LinkOK, HostOK, Hosts
  <2>4. restarts' # 0
    BY <1>1, <1>2 DEF KType
  <2> QED
    BY <2>3, <2>4 DEF UnlinkOK, LostOK
<1> QED
  BY <1>7, <1>8, <1>9, <1>10 DEF KInv, SessionsOK
-----------------------------------------------------------------------------
(* Nothing is said at first, and there is nobody to say it.                *)
LEMMA InitSettles == Init => KInv
<1> SUFFICES ASSUME Init PROVE KInv
  OBVIOUS
<1>1. NoCall \in Call /\ NoCall.pc = "idle"
  BY DEF NoCall, Call, Environment
<1>2. KType
  BY <1>1 DEF Init, KType, Speakers, View, Environment
<1>3. slot["control"] = None
  BY KindsAssumption DEF Init
<1>4. \A d \in Connections : /\ conn[d].pc = "gone" /\ ~conn[d].up
                             /\ Events(d) = <<>> /\ Len(Events(d)) = 0
  BY DEF Init, Fresh, Events
<1>5. \A x \in Speakers : sending[x] = {}
  BY DEF Init, Speakers
<1>6. ConnsOK /\ ViewsOK
  BY <1>4 DEF ConnsOK, EventsOK, UpOK, SnapshotOK, ViewsOK, ViewOK
<1>7. NoticesOK
  BY <1>5 DEF Init, NoticesOK, Speakers
<1>8. ASSUME NEW s \in Sessions
      PROVE  NewOK(s) /\ CallOK(s) /\ LinkOK(s) /\ HostOK(s) /\ UnlinkOK(s) /\ LostOK(s)
  <2>1. /\ env[s] = "none" /\ view[s].state = "none" /\ ~view[s].reachable /\ s \notin link
        /\ call[s].pc = "idle"
    BY <1>1 DEF Init
  <2>2. Unsaid(s) /\ Unseen(s)
    <3>1. \A d \in Connections : NoneIn(d, s) /\ Blank(d, s)
      BY <1>4 DEF NoneIn, Blank
    <3>2. \A x \in Speakers : Mute(x, s)
      BY <1>5 DEF Mute
    <3>3. \A n \in late : ~Tells(n, s)
      BY DEF Init
    <3> QED
      BY <3>1, <3>2, <3>3 DEF Unsaid, Unseen
  <2> QED
    BY <1>3, <2>1, <2>2 DEF NewOK, CallOK, LinkOK, HostOK, Hosts, UnlinkOK,
       LostOK
<1> QED
  BY <1>2, <1>6, <1>7, <1>8 DEF KInv, SessionsOK

(* Every step keeps the invariant.                                         *)
LEMMA StepSettles ==
  ASSUME RInv, KInv, [Next]_vars
  PROVE  KInv'
<1>1. CASE RunnerStep
  <2>1. ASSUME NEW c \in Connections, Break(c) PROVE KInv'
    BY <2>1, FiberFades, FadingKeeps DEF RInv
  <2>2. ASSUME NEW s \in Sessions, LinkAttached(s) \/ LinkLost(s) PROVE KInv'
    BY <2>2, LinkKeeps
  <2> QED
    BY <1>1, <2>1, <2>2, SnapshotKeeps, DialSettles, ChangesKeeps DEF RunnerStep
<1>2. ASSUME NEW c \in Connections, FiberStep(c) PROVE KInv'
  <2>1. CASE \/ Authenticate(c) \/ Refuse(c) \/ Confirm(c) \/ ConfirmFails(c)
             \/ EndWatch(c) \/ Leave(c)
    BY <2>1, FiberFades, FadingKeeps DEF RInv
  <2> QED
    BY <1>2, <2>1, AdmitSettles, BulkSettles, ApplyKeeps, RemoveSettles
       DEF FiberStep
<1>3. CASE Revoke \/ RevocationEnds \/ UNCHANGED vars
  BY <1>3, RevokeKeeps
<1>4. CASE NoticeStep
  BY <1>4, NotifyKeeps, LateKeeps DEF NoticeStep, Speakers
<1>5. ASSUME NEW s \in Sessions, CallStep(s) PROVE KInv'
  BY <1>5, CallKeeps, ServedKeeps DEF CallStep
<1> QED
  BY <1>1, <1>2, <1>3, <1>4, <1>5, DisconnectSettles, RestartSettles DEF Next

(* The invariant holds, together with those of the theorems above.         *)
LEMMA Settling == Spec => [](RInv /\ KInv /\ RevokedIsOut)
<1>1. RInv /\ KInv /\ RevokedIsOut /\ [Next]_vars => (RInv /\ KInv /\ RevokedIsOut)'
  BY StepKeeps, StepSettles
<1> QED
  BY <1>1, InitKeeps, InitSettles, PTL DEF Spec

(* Every Session that knows its environment is a session of the registered *)
(* connection, as long as that works: so removeConnection and              *)
(* disconnectRunner, which tell only the sessions of the connection they   *)
(* remove, forget nobody. Whatever connections overlap, calls fail, or     *)
(* notices are late.                                                       *)
THEOREM KnownHosted == Spec => []KnownIsHosted
<1>1. KInv => KnownIsHosted
  <2> SUFFICES ASSUME KInv, NEW s \in Sessions, slot["control"] # None,
                      conn[slot["control"]].up, env[s] # "none", view[s].state \in States
               PROVE  s \in hosted
    BY DEF KnownIsHosted
  <2>1. HostOK(s)
    BY DEF KInv, SessionsOK
  <2> QED
    BY <2>1 DEF HostOK, Hosts, States
<1> QED
  BY <1>1, Settling, PTL

(* Once disconnectRunner has returned, no Session of a runner that was     *)
(* connected has an Environment Link: one attached before the revocation   *)
(* was closed by its notice, and none is attached after it.                *)
THEOREM RevokedUnlinked == Spec => []RevokedIsUnlinked
<1>1. KInv => RevokedIsUnlinked
  BY DEF KInv, SessionsOK, UnlinkOK, RevokedIsUnlinked
<1> QED
  BY <1>1, Settling, PTL

(* Once everything is told, a Session sees its environment as it is while  *)
(* the runner is connected, and takes it for unreachable when the          *)
(* connection is lost; unless connections overlapped, a notice was late or *)
(* a reply crossed a notice.                                               *)
THEOREM ViewsAreSettled == Spec => []ViewsSettle
<1>1. RInv /\ KInv /\ RevokedIsOut => ViewsSettle
  <2> SUFFICES ASSUME RInv, KInv, RevokedIsOut, mishap = "none", Settled
               PROVE  /\ Connected => ViewsAccurate
                      /\ restarts = 0 /\ Unserved =>
                            \A s \in Sessions : env[s] # "none" => ~view[s].reachable
    BY DEF ViewsSettle
  <2>1. sending \in [Speakers -> SUBSET Notice] /\ \A x \in Speakers : sending[x] = {}
    BY DEF KInv, KType, Settled
  <2>2. slot["control"] # None => slot["control"] \in Connections
    BY KindsAssumption DEF RInv, ConnType
  <2>3. ASSUME Connected, NEW s \in Sessions, env[s] # "none", view[s].state \in States
        PROVE  view[s] = [state |-> env[s], reachable |-> TRUE]
    <3>1. PICK c \in Connections : c = slot["control"]
      BY <2>2, <2>3 DEF Connected
    <3>2. conn[c].pc = "serving" /\ conn[c].up /\ Events(c) = <<>>
      BY <2>3, <3>1 DEF Connected, At, Events
    <3>3. revoke \in {"no", "revoked"}
      BY <3>2 DEF RevokedIsOut, At, KInv, KType
    <3>4. ViewOK(c, s)
      BY DEF KInv, ViewsOK
    <3>5. ~Last(c, s)
      BY <3>2 DEF Last
    <3>6. ~Noticed(c, s)
      BY <2>1 DEF Noticed, Speakers
    <3> QED
      BY <2>3, <3>1, <3>2, <3>3, <3>4, <3>5, <3>6 DEF ViewOK, Seen
  <2>4. ASSUME restarts = 0, Unserved, NEW s \in Sessions, env[s] # "none"
        PROVE  ~view[s].reachable
    <3>1. slot["control"] = None
      BY <2>2, <2>4 DEF Unserved, RInv, RegisteredIsServed
    <3>2. ~Losing(s)
      BY <2>1 DEF Losing, Speakers
    <3>3. LostOK(s)
      BY DEF KInv, SessionsOK
    <3> QED
      BY <2>4, <3>1, <3>2, <3>3 DEF LostOK
  <2> QED
    BY <2>3, <2>4 DEF ViewsAccurate
<1> QED
  BY <1>1, Settling, PTL
=============================================================================
