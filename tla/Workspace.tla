----------------------------- MODULE Workspace -----------------------------
(***************************************************************************)
(* The Workspace Durable Object: the login of the model provider, whose     *)
(* credential every Session asks for, and the catalogue of Sessions.        *)
(*                                                                          *)
(* All operations of the object run one after the other (#serialize), some  *)
(* with a request to the provider in the middle.  Only the poll of a login, *)
(* which the object's alarm runs, asks the provider outside the queue and   *)
(* comes back with its answer.  The catalogue is written by those who start *)
(* a Session (start.ts: the browser's request, and an agent's create_thread *)
(* call, which is repeated when its Session was evicted) and by those who   *)
(* delete one; each calls the Workspace and the Session in turn.            *)
(*                                                                          *)
(* Abstracted: a credential is the login it came from and the number of its *)
(* refresh token, of which the provider honours the latest; an API key is a *)
(* credential of no login.  One project, to which every Session belongs,    *)
(* and one model provider.                                                  *)
(***************************************************************************)
EXTENDS Naturals, Sequences

CONSTANTS
  Sessions,     \* the Sessions that may be started
  Children,     \* those an agent starts
  None,         \* absent
  Mishaps,      \* which mishaps may happen
  MaxLogins,    \* bound: logins begun
  MaxTokens,    \* bound: refresh tokens of a grant
  MaxCalls,     \* bound: what the user undoes: cancels, disconnects, deletes
  MaxMishaps    \* bound: mishaps

ASSUME WorkspaceAssumption ==
  /\ Children \subseteq Sessions /\ None \notin Sessions
  /\ MaxLogins \in Nat /\ MaxTokens \in Nat /\ MaxCalls \in Nat /\ MaxMishaps \in Nat

VARIABLES
  login,       \* the row of provider_authorizations
  alarm,       \* the object's alarm is set
  poll,        \* the alarm handler, once it has read the login
  awaiting,    \* the operations that wait for the provider: one, while they are serialized
  credential,  \* the provider's credential
  provider,    \* the grants: their latest token; those revoked; the logins whose time is over
  catalog,     \* the Sessions listed, and whether their project exists
  session,     \* the state of each Session object
  start,       \* how far the start of a Session is
  removal,     \* Sessions whose entry was deleted, and that are to be told
  calls,
  mishaps,
  history      \* of no influence: what the properties ask of the past

login_vars == <<login, alarm, poll, awaiting, credential, provider>>
catalog_vars == <<catalog, session, start, removal>>
vars == <<login, alarm, poll, awaiting, credential, provider, catalog, session, start, removal,
          calls, mishaps, history>>

Logins == 1..MaxLogins
Key == [grant |-> 0, token |-> 0]
NoPoll == [at |-> "idle", id |-> 0, answer |-> None]

Init ==
  /\ login = None /\ alarm = FALSE /\ poll = NoPoll /\ awaiting = <<>>
  /\ credential = None
  /\ provider = [latest |-> [g \in Logins |-> 0], revoked |-> {}, expired |-> {}, begun |-> 0]
  /\ catalog = [listed |-> {}, project |-> TRUE]
  /\ session = [s \in Sessions |-> "none"]
  /\ start = [s \in Sessions |-> "idle"]
  /\ removal = {}
  /\ calls = 0 /\ mishaps = 0
  /\ history = [over |-> {}, unsure |-> {}, deleted |-> {}]

Mishap(kind) == kind \in Mishaps /\ mishaps < MaxMishaps /\ mishaps' = mishaps + 1
Call == calls < MaxCalls /\ calls' = calls + 1

(* #serialize: the operation before has ended. *)
Turn == awaiting = <<>>

Await(op, held) == awaiting' = Append(awaiting, [op |-> op, credential |-> held])
Done(i) == awaiting' = [j \in 1..(Len(awaiting) - 1) |-> awaiting[IF j < i THEN j ELSE j + 1]]

Pending == login # None /\ login.status = "pending"
OAuth == credential # None /\ credential # Key

(* What the user has put an end to: the login under way, the credential in use. *)
Abandoned == IF Pending THEN {login.id} ELSE {}
Replaced == IF OAuth THEN {credential.grant} ELSE {}

-----------------------------------------------------------------------------
(* The login. *)

ClearLogin == login' = None /\ alarm' = FALSE

(* startProviderLogin: the provider is asked in the middle of the operation. *)
StartLogin ==
  /\ Turn /\ provider.begun < MaxLogins
  /\ Await("start", None)
  /\ provider' = [provider EXCEPT !.begun = @ + 1]
  /\ UNCHANGED <<login, alarm, poll, credential, catalog_vars, calls, mishaps, history>>

StartAnswered(i) ==
  /\ awaiting[i].op = "start" /\ Done(i)
  /\ \/ /\ login' = [id |-> provider.begun, status |-> "pending"]
        /\ alarm' = TRUE
        /\ history' = [history EXCEPT !.over = @ \cup Abandoned]
        /\ UNCHANGED mishaps
     \/ Mishap("provider") /\ UNCHANGED <<login, alarm, history>>
  /\ UNCHANGED <<poll, credential, provider, catalog_vars, calls>>

(* cancelProviderLogin, of the login the browser knows. *)
CancelLogin(id) ==
  /\ Turn /\ Call
  /\ login # None /\ login.id = id
  /\ ClearLogin
  /\ history' = [history EXCEPT !.over = @ \cup Abandoned]
  /\ UNCHANGED <<poll, awaiting, credential, provider, catalog_vars, mishaps>>

(* saveModelProviderCredential and deleteModelProviderCredential of this provider. *)
ReplaceCredential(new) ==
  /\ Turn /\ Call
  /\ ClearLogin
  /\ credential' = new
  /\ history' = [history EXCEPT !.over = @ \cup Abandoned \cup Replaced]
  /\ UNCHANGED <<poll, awaiting, provider, catalog_vars, mishaps>>

(* disconnectProvider: the grant is revoked in the middle of the operation. *)
Disconnect ==
  /\ Turn /\ Call
  /\ ClearLogin
  /\ history' = [history EXCEPT !.over = @ \cup Abandoned]
  /\ \/ OAuth /\ Await("revoke", credential) /\ UNCHANGED credential
     \/ ~OAuth /\ credential' = None /\ UNCHANGED awaiting
  /\ UNCHANGED <<poll, provider, catalog_vars, mishaps>>

(* A failure to revoke is ignored. *)
RevokeAnswered(i) ==
  /\ awaiting[i].op = "revoke" /\ Done(i)
  /\ \/ provider' = [provider EXCEPT !.revoked = @ \cup {awaiting[i].credential.grant}] /\ UNCHANGED mishaps
     \/ Mishap("provider") /\ UNCHANGED provider
  /\ credential' = None
  /\ history' = [history EXCEPT !.over = @ \cup {awaiting[i].credential.grant}]
  /\ UNCHANGED <<login, alarm, poll, catalog_vars, calls>>

(* pollLogin, in the queue: the alarm has fired. *)
ReadLogin ==
  /\ Turn /\ alarm /\ poll.at = "idle"
  /\ alarm' = FALSE
  /\ poll' = IF Pending THEN [at |-> "asking", id |-> login.id, answer |-> None] ELSE NoPoll
  /\ UNCHANGED <<login, awaiting, credential, provider, catalog_vars, calls, mishaps, history>>

(* pollDeviceLogin, outside the queue: an expired login is not asked for; an approved one is
   exchanged for a grant, whose credential may not arrive. *)
PollAnswered ==
  /\ poll.at = "asking"
  /\ LET expired == poll.id \in provider.expired
         Answer(a) == poll' = [at |-> "answered", id |-> poll.id, answer |-> a]
     IN \/ expired /\ Answer("error") /\ UNCHANGED <<provider, mishaps>>
        \/ ~expired /\ Answer("pending") /\ UNCHANGED <<provider, mishaps>>
        \/ /\ ~expired /\ provider.latest[poll.id] = 0
           /\ provider' = [provider EXCEPT !.latest[poll.id] = 1]
           /\ \/ Answer("complete") /\ UNCHANGED mishaps
              \/ Answer("error") /\ Mishap("provider")
        \/ ~expired /\ Answer("error") /\ Mishap("provider") /\ UNCHANGED provider
  /\ UNCHANGED <<login, alarm, awaiting, credential, catalog_vars, calls, history>>

(* Mutant: the answer is taken for the login there is. *)
SavePoll_AnyLogin ==
  /\ Turn /\ poll.at = "answered"
  /\ poll' = NoPoll
  /\ IF Pending
     THEN /\ alarm' = (poll.answer = "pending")
          /\ login' = [login EXCEPT !.status = poll.answer]
          /\ credential' = IF poll.answer = "complete" THEN [grant |-> poll.id, token |-> 1] ELSE credential
     ELSE UNCHANGED <<login, alarm, credential>>
  /\ history' = [history EXCEPT !.over = @ \cup IF credential' # credential THEN Replaced ELSE {}]
  /\ UNCHANGED <<awaiting, provider, catalog_vars, calls, mishaps>>

(* Mutant: a login that is still pending is not polled again. *)
SavePoll_Once ==
  /\ Turn /\ poll.at = "answered"
  /\ poll' = NoPoll
  /\ IF Pending /\ login.id = poll.id
     THEN /\ alarm' = FALSE
          /\ login' = [login EXCEPT !.status = poll.answer]
          /\ credential' = IF poll.answer = "complete" THEN [grant |-> poll.id, token |-> 1] ELSE credential
     ELSE UNCHANGED <<login, alarm, credential>>
  /\ history' = [history EXCEPT !.over = @ \cup IF credential' # credential THEN Replaced ELSE {}]
  /\ UNCHANGED <<awaiting, provider, catalog_vars, calls, mishaps>>

(* pollLogin, in the queue again: the answer counts if its login is still the one pending. *)
SavePoll ==
  /\ Turn /\ poll.at = "answered"
  /\ poll' = NoPoll
  /\ IF Pending /\ login.id = poll.id
     THEN /\ alarm' = (poll.answer = "pending")
          /\ login' = [login EXCEPT !.status = poll.answer]
          /\ credential' = IF poll.answer = "complete" THEN [grant |-> poll.id, token |-> 1] ELSE credential
     ELSE UNCHANGED <<login, alarm, credential>>
  /\ history' = [history EXCEPT !.over = @ \cup IF credential' # credential THEN Replaced ELSE {}]
  /\ UNCHANGED <<awaiting, provider, catalog_vars, calls, mishaps>>

(* The fifteen minutes of a login. *)
Expire(id) ==
  /\ Pending /\ login.id = id /\ id \notin provider.expired
  /\ provider' = [provider EXCEPT !.expired = @ \cup {id}]
  /\ UNCHANGED <<login, alarm, poll, awaiting, credential, catalog_vars, calls, mishaps, history>>

-----------------------------------------------------------------------------
(* The credential, for a Session. *)

(* Mutant: outside the queue. *)
Resolve_Unserialized ==
  /\ Len(awaiting) < 2
  /\ OAuth /\ provider.latest[credential.grant] < MaxTokens
  /\ Await("refresh", credential)
  /\ UNCHANGED <<login, alarm, poll, credential, provider, catalog_vars, calls, mishaps, history>>

(* resolveProviderAccessToken, of an access token about to expire: others change nothing. *)
Resolve ==
  /\ Turn
  /\ OAuth /\ provider.latest[credential.grant] < MaxTokens
  /\ Await("refresh", credential)
  /\ UNCHANGED <<login, alarm, poll, credential, provider, catalog_vars, calls, mishaps, history>>

(* The provider honours the latest token of a grant that is not revoked; one that was used
   before may cost the grant. *)
Honours(held) == held.token = provider.latest[held.grant] /\ held.grant \notin provider.revoked
Rotated(g) == [provider EXCEPT !.latest[g] = @ + 1]

RefreshAnswered(i) ==
  /\ awaiting[i].op = "refresh" /\ Done(i)
  /\ LET held == awaiting[i].credential
     IN \/ /\ Honours(held)
           /\ provider' = Rotated(held.grant)
           /\ credential' = [held EXCEPT !.token = @ + 1]
           /\ UNCHANGED <<mishaps, history>>
        \/ /\ Honours(held) /\ Mishap("provider")
           /\ provider' = Rotated(held.grant)
           /\ history' = [history EXCEPT !.unsure = @ \cup {held.grant}]
           /\ UNCHANGED credential
        \/ Mishap("provider") /\ UNCHANGED <<provider, credential, history>>
        \/ /\ ~Honours(held)
           /\ provider' \in {provider, [provider EXCEPT !.revoked = @ \cup {held.grant}]}
           /\ UNCHANGED <<credential, mishaps, history>>
  /\ UNCHANGED <<login, alarm, poll, catalog_vars, calls>>

(* The object is evicted: an operation stops where it waits, the provider having done what it was
   asked or not, and an alarm whose handler has not ended is delivered again. *)
Evict ==
  /\ Mishap("evict")
  /\ alarm' = (alarm \/ poll.at # "idle") /\ poll' = NoPoll /\ awaiting' = <<>>
  /\ IF Turn THEN UNCHANGED <<provider, history>>
     ELSE LET held == awaiting[1].credential
          IN \/ UNCHANGED <<provider, history>>
             \/ /\ awaiting[1].op = "refresh" /\ Honours(held)
                /\ provider' = Rotated(held.grant)
                /\ history' = [history EXCEPT !.unsure = @ \cup {held.grant}]
             \/ /\ awaiting[1].op = "revoke"
                /\ provider' = [provider EXCEPT !.revoked = @ \cup {held.grant}]
                /\ history' = [history EXCEPT !.unsure = @ \cup {held.grant}]
  /\ UNCHANGED <<login, credential, catalog_vars, calls>>

-----------------------------------------------------------------------------
(* The catalogue. *)

Goes(s, stage) == start' = [start EXCEPT ![s] = stage]

(* addSessionCatalogEntry: repeating an entry is harmless; a child is refused when its parent is
   not listed or has too many. *)
AddEntry(s) ==
  /\ Turn /\ start[s] = "idle"
  /\ \/ /\ catalog.project
        /\ catalog' = [catalog EXCEPT !.listed = @ \cup {s}]
        /\ history' = [history EXCEPT !.deleted = @ \ {s}]
        /\ Goes(s, "create")
     \/ /\ ~catalog.project \/ (s \in Children /\ s \notin catalog.listed)
        /\ Goes(s, "ended")
        /\ UNCHANGED <<catalog, history>>
  /\ UNCHANGED <<login_vars, session, removal, calls, mishaps>>

(* create: the record is written, and removed when its environment's provider cannot be opened. A
   Session under deletion stays so.  The answer may be lost, and so may the call. *)
CreateCalled(s) ==
  /\ start[s] = "create"
  /\ \/ Goes(s, "creating") /\ UNCHANGED mishaps
        /\ session' = [session EXCEPT ![s] = IF @ = "none" THEN "opening" ELSE @]
     \/ Goes(s, "view") /\ Mishap("lose") /\ UNCHANGED session
  /\ UNCHANGED <<login_vars, catalog, removal, calls, history>>

Opened(s) ==
  /\ session[s] = "opening"
  /\ \/ session' = [session EXCEPT ![s] = "live"] /\ UNCHANGED <<start, mishaps>>
     \/ /\ Mishap("open")
        /\ session' = [session EXCEPT ![s] = "none"]
        /\ Goes(s, IF start[s] = "creating" THEN "view" ELSE start[s])
  /\ UNCHANGED <<login_vars, catalog, removal, calls, history>>

CreateAnswered(s) ==
  /\ start[s] = "creating"
  /\ \/ session[s] # "opening" /\ Goes(s, "ended") /\ UNCHANGED mishaps
     \/ Goes(s, "view") /\ Mishap("lose")
  /\ UNCHANGED <<login_vars, catalog, session, removal, calls, history>>

(* Mutant: a Session that does not answer holds no record. *)
HoldsRecord_Answering(s) ==
  \/ Goes(s, IF session[s] \in {"opening", "live"} THEN "ended" ELSE "remove")
  \/ Goes(s, "remove")

(* holdsRecord: only a definite answer lets the entry go; a Session that cannot be asked keeps it. *)
HoldsRecord(s) ==
  \/ Goes(s, IF session[s] \in {"opening", "live"} THEN "ended" ELSE "remove")
  \/ Goes(s, "ended")

View(s) ==
  /\ start[s] = "view"
  /\ HoldsRecord(s)
  /\ UNCHANGED <<login_vars, catalog, session, removal, calls, mishaps, history>>

RemoveEntry(s) ==
  /\ Turn /\ start[s] = "remove"
  /\ catalog' = [catalog EXCEPT !.listed = @ \ {s}]
  /\ Goes(s, "ended")
  /\ UNCHANGED <<login_vars, session, removal, calls, mishaps, history>>

(* The Session of the agent that starts a child is evicted, and its tool call is repeated. *)
Repeat(s) ==
  /\ s \in Children /\ start[s] # "idle" /\ Mishap("repeat")
  /\ Goes(s, "idle")
  /\ UNCHANGED <<login_vars, catalog, session, removal, calls, history>>

(* The user's deletion: the entry first, then the Session, whose answer nobody looks at. *)
DeleteEntry(s) ==
  /\ Turn /\ Call
  /\ s \in catalog.listed
  /\ catalog' = [catalog EXCEPT !.listed = @ \ {s}]
  /\ removal' = removal \cup {s}
  /\ history' = [history EXCEPT !.deleted = @ \cup {s}]
  /\ UNCHANGED <<login_vars, session, start, mishaps>>

DeleteSession(s) ==
  /\ s \in removal /\ session[s] # "opening"
  /\ removal' = removal \ {s}
  /\ \/ session' = [session EXCEPT ![s] = IF @ = "live" THEN "deleting" ELSE @] /\ UNCHANGED mishaps
     \/ Mishap("lose") /\ UNCHANGED session
  /\ UNCHANGED <<login_vars, catalog, start, calls, history>>

FinishDeletion(s) ==
  /\ session[s] = "deleting"
  /\ session' = [session EXCEPT ![s] = "none"]
  /\ UNCHANGED <<login_vars, catalog, start, removal, calls, mishaps, history>>

(* deleteProject: refused while a Session of it is listed. *)
DeleteProject ==
  /\ Turn /\ Call
  /\ catalog.project /\ catalog.listed = {}
  /\ catalog' = [catalog EXCEPT !.project = FALSE]
  /\ UNCHANGED <<login_vars, session, start, removal, mishaps, history>>

-----------------------------------------------------------------------------
Answered == \E i \in 1..Len(awaiting) : StartAnswered(i) \/ RevokeAnswered(i) \/ RefreshAnswered(i)
Login ==
  \/ StartLogin \/ Disconnect \/ ReplaceCredential(Key) \/ ReplaceCredential(None)
  \/ ReadLogin \/ PollAnswered \/ SavePoll \/ Resolve \/ Answered
  \/ \E id \in Logins : CancelLogin(id) \/ Expire(id)
Catalogue == \E s \in Sessions :
  \/ AddEntry(s) \/ CreateCalled(s) \/ Opened(s) \/ CreateAnswered(s) \/ View(s) \/ RemoveEntry(s)
  \/ Repeat(s) \/ DeleteEntry(s) \/ DeleteSession(s) \/ FinishDeletion(s)

Next == Login \/ Catalogue \/ DeleteProject \/ Evict

(* Requests to the provider end after fifteen seconds; an alarm that is due is delivered, and what
   waits in the queue, which is served in order, gets its turn; time passes. *)
Fairness ==
  /\ WF_vars(Answered) /\ WF_vars(PollAnswered)
  /\ SF_vars(ReadLogin) /\ SF_vars(SavePoll)
  /\ \A id \in Logins : WF_vars(Expire(id))

Spec == Init /\ [][Next]_vars
FairSpec == Spec /\ Fairness

-----------------------------------------------------------------------------
(* What the user has ended stays ended: the credential in use is never that of a login that was
   cancelled, replaced or cleared while its poll was under way, nor one that was disconnected or
   replaced while a refresh of it was. *)
EndedStaysEnded == OAuth => credential.grant \notin history.over

(* Sessions may ask for the credential at any time, and a login may end at any time, but the
   refresh token stored is always the one the provider honours, unless the answer that brought
   its successor was lost, or a disconnect was cut short. *)
CredentialHonoured ==
  OAuth =>
    \/ Honours(credential)
    \/ credential.grant \in history.unsure

(* A Session that is there, and that the user did not delete, is in the catalogue, where it can
   be found and deleted, and so its project cannot be deleted: however its start was answered,
   repeated or refused. *)
StartedIsListed ==
  \A s \in Sessions : session[s] \in {"opening", "live"} /\ s \notin history.deleted =>
    s \in catalog.listed /\ catalog.project

(* Every login ends: completed, failed, or given up. *)
LoginEnds == \A id \in Logins : (Pending /\ login.id = id) ~> ~(Pending /\ login.id = id)
=============================================================================
