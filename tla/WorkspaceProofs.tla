-------------------------- MODULE WorkspaceProofs --------------------------
(***************************************************************************)
(* That a login or a credential the user ended stays ended, that the token  *)
(* stored is the one the provider honours, and that every Session is        *)
(* listed, for every number of Sessions, logins, calls and mishaps.         *)
(***************************************************************************)
EXTENDS Workspace, SequenceTheorems, TLAPS

-----------------------------------------------------------------------------
(* The inductive invariants. *)

Credentials == [grant : 0..MaxLogins, token : Nat]
Awaited == [op : {"start", "refresh", "revoke"}, credential : {None} \cup Credentials]

Rows == [id : Logins, status : {"pending", "complete", "error"}]
Polls == [at : {"idle", "asking", "answered"}, id : 0..MaxLogins, answer : {None, "pending", "complete", "error"}]
Providers == [latest : [Logins -> Nat], revoked : SUBSET Logins, expired : SUBSET Logins, begun : 0..MaxLogins]
Histories == [over : SUBSET Logins, unsure : SUBSET Logins, deleted : SUBSET Sessions]

LoginTypeOK ==
  /\ login \in {None} \cup Rows
  /\ alarm \in BOOLEAN
  /\ poll \in Polls
  /\ awaiting \in Seq(Awaited)
  /\ credential \in {None} \cup Credentials
  /\ provider \in Providers
  /\ history \in Histories

(* One operation at most waits for the provider, and what it holds is what is stored. *)
Serialized ==
  /\ Len(awaiting) <= 1
  /\ Len(awaiting) = 1 =>
       /\ awaiting[1].op # "start" => OAuth /\ awaiting[1].credential = credential
       /\ awaiting[1].op = "revoke" => ~Pending
       /\ awaiting[1].op = "start" =>
            /\ provider.begun \in Logins
            /\ provider.begun \notin history.over \cup provider.revoked
            /\ Pending => login.id # provider.begun
            /\ OAuth => credential.grant # provider.begun
            /\ poll.at # "idle" => poll.id # provider.begun

(* What is over, and what is revoked, is of a login begun, and neither the one pending nor the one
   whose credential is stored is over. *)
OverIsPast ==
  /\ \A g \in history.over \cup provider.revoked : g <= provider.begun
  /\ Pending => login.id <= provider.begun /\ login.id \notin history.over \cup provider.revoked
  /\ OAuth => credential.grant \in 1..provider.begun /\ credential.grant \notin history.over
  /\ Pending /\ OAuth => login.id # credential.grant

(* An answer that completes the login pending brings a grant of one token, and no other answer
   does. *)
AnswerIsFresh ==
  /\ poll.at # "idle" => poll.id \in 1..provider.begun
  /\ poll.at = "answered" => poll.answer \in {"pending", "complete", "error"}
  /\ poll.at = "answered" /\ poll.answer = "complete" /\ Pending /\ login.id = poll.id =>
       provider.latest[poll.id] = 1
  /\ OAuth => provider.latest[credential.grant] > 0

LoginInv == LoginTypeOK /\ Serialized /\ OverIsPast /\ AnswerIsFresh /\ CredentialHonoured

CatalogTypeOK ==
  /\ catalog \in [listed : SUBSET Sessions, project : BOOLEAN]
  /\ session \in [Sessions -> {"none", "opening", "live", "deleting"}]
  /\ start \in [Sessions -> {"idle", "create", "creating", "view", "remove", "ended"}]
  /\ history \in Histories

(* Who may create a Session has listed it, and who unlists it knows there is none. *)
CatalogInv ==
  /\ CatalogTypeOK
  /\ catalog.listed # {} => catalog.project
  /\ \A s \in Sessions :
       /\ start[s] = "create" \/ session[s] \in {"opening", "live"} =>
            s \in catalog.listed \/ s \in history.deleted
       /\ start[s] = "remove" => session[s] \in {"none", "deleting"}

-----------------------------------------------------------------------------
(* The operation that ends is the only one, and none waits after it. *)
LEMMA OnlyOne ==
  ASSUME LoginTypeOK, Serialized, NEW i \in 1..Len(awaiting), Done(i)
  PROVE  i = 1 /\ Len(awaiting) = 1 /\ awaiting' \in Seq(Awaited) /\ Len(awaiting') = 0
         /\ awaiting[1] \in Awaited
<1>1. awaiting \in Seq(Awaited) /\ Len(awaiting) <= 1
  BY DEF LoginTypeOK, Serialized
<1>2. i = 1 /\ Len(awaiting) = 1 /\ awaiting[1] \in Awaited
  <2>1. Len(awaiting) \in Nat /\ awaiting \in [1..Len(awaiting) -> Awaited]
    BY <1>1
  <2>2. i = 1 /\ Len(awaiting) = 1
    BY <1>1, <2>1
  <2> QED BY <2>1, <2>2
<1>3. awaiting' = [j \in {} |-> awaiting[IF j < i THEN j ELSE j + 1]]
  <2>1. 1..(Len(awaiting) - 1) = {}
    BY <1>2
  <2> QED BY <2>1 DEF Done
<1>4. awaiting' \in Seq(Awaited) /\ Len(awaiting') = 0
  <2>1. awaiting' \in [1..0 -> Awaited]
    BY <1>3
  <2> QED BY <2>1
<1> QED BY <1>2, <1>4

(* What the user ends is of a login begun; history keeps the rest of what it knew. *)
LEMMA Ends ==
  ASSUME WorkspaceAssumption, LoginTypeOK, OverIsPast
  PROVE  Abandoned \subseteq Logins /\ Replaced \subseteq Logins
<1>1. Pending => login.id \in Logins
  BY DEF LoginTypeOK, Pending, Rows
<1>2. OAuth => credential.grant \in Logins
  <2>1. provider.begun \in 0..MaxLogins /\ MaxLogins \in Nat
    BY DEF LoginTypeOK, Providers, WorkspaceAssumption
  <2> QED BY <2>1 DEF OverIsPast, Logins
<1> QED BY <1>1, <1>2 DEF Abandoned, Replaced

LEMMA Remembers ==
  ASSUME LoginTypeOK, NEW x \in SUBSET Logins
  PROVE  /\ LET h == [history EXCEPT !.over = @ \cup x]
            IN /\ h \in Histories /\ h.over = history.over \cup x /\ h.unsure = history.unsure
               /\ h.deleted = history.deleted
         /\ LET h == [history EXCEPT !.unsure = @ \cup x]
            IN /\ h \in Histories /\ h.over = history.over /\ h.unsure = history.unsure \cup x
               /\ h.deleted = history.deleted
  BY DEF LoginTypeOK, Histories

(* What the provider does to one grant leaves it with the rest. *)
LEMMA Provides ==
  ASSUME LoginTypeOK, NEW g \in Logins
  PROVE  /\ LET p == [provider EXCEPT !.revoked = @ \cup {g}]
            IN /\ p \in Providers /\ p.revoked = provider.revoked \cup {g} /\ p.latest = provider.latest
               /\ p.begun = provider.begun
         /\ Rotated(g) \in Providers /\ Rotated(g).revoked = provider.revoked
         /\ Rotated(g).latest = [provider.latest EXCEPT ![g] = @ + 1] /\ Rotated(g).begun = provider.begun
         /\ LET p == [provider EXCEPT !.latest[g] = 1]
            IN /\ p \in Providers /\ p.revoked = provider.revoked
               /\ p.latest = [provider.latest EXCEPT ![g] = 1] /\ p.begun = provider.begun
         /\ LET p == [provider EXCEPT !.expired = @ \cup {g}]
            IN /\ p \in Providers /\ p.revoked = provider.revoked /\ p.latest = provider.latest
               /\ p.begun = provider.begun
<1>1. provider \in Providers /\ provider.latest \in [Logins -> Nat]
  BY DEF LoginTypeOK, Providers
<1>2. [provider.latest EXCEPT ![g] = @ + 1] \in [Logins -> Nat] /\ [provider.latest EXCEPT ![g] = 1] \in [Logins -> Nat]
  BY <1>1
<1>3. ASSUME NEW f \in [Logins -> Nat]
      PROVE  LET p == [provider EXCEPT !.latest = f]
             IN p \in Providers /\ p.revoked = provider.revoked /\ p.latest = f /\ p.begun = provider.begun
  BY <1>1 DEF Providers
<1>4. LET p == [provider EXCEPT !.revoked = @ \cup {g}]
      IN /\ p \in Providers /\ p.revoked = provider.revoked \cup {g} /\ p.latest = provider.latest
         /\ p.begun = provider.begun
  BY <1>1 DEF Providers
<1>5. LET p == [provider EXCEPT !.expired = @ \cup {g}]
      IN /\ p \in Providers /\ p.revoked = provider.revoked /\ p.latest = provider.latest
         /\ p.begun = provider.begun
  BY <1>1 DEF Providers
<1>6. Rotated(g) = [provider EXCEPT !.latest = [provider.latest EXCEPT ![g] = @ + 1]]
  BY <1>1 DEF Rotated, Providers
<1>7. [provider EXCEPT !.latest[g] = 1] = [provider EXCEPT !.latest = [provider.latest EXCEPT ![g] = 1]]
  BY <1>1 DEF Providers
<1> QED BY <1>2, <1>3, <1>4, <1>5, <1>6, <1>7

(* Only an operation that finds none waiting begins to wait. *)
LEMMA Joined ==
  ASSUME LoginTypeOK, Turn, NEW op \in {"start", "refresh", "revoke"},
         NEW held \in {None} \cup Credentials, Await(op, held)
  PROVE  awaiting' \in Seq(Awaited) /\ Len(awaiting') = 1
         /\ awaiting'[1] = [op |-> op, credential |-> held]
  BY DEF LoginTypeOK, Turn, Await, Awaited

LEMMA LoginStep ==
  ASSUME WorkspaceAssumption, LoginInv, [Next]_vars
  PROVE  LoginInv'
<1> USE DEF Logins
<1>0. /\ LoginTypeOK /\ Serialized /\ OverIsPast /\ AnswerIsFresh /\ CredentialHonoured
      /\ login \in {None} \cup Rows /\ poll \in Polls /\ credential \in {None} \cup Credentials
      /\ provider \in Providers /\ history \in Histories /\ awaiting \in Seq(Awaited)
      /\ MaxLogins \in Nat /\ provider.begun \in 0..MaxLogins
      /\ Abandoned \subseteq Logins /\ Replaced \subseteq Logins
      /\ OAuth => credential \in Credentials /\ credential.grant \in Logins
      /\ Pending => login \in Rows /\ login.id \in Logins
      /\ history.over \subseteq Logins /\ provider.revoked \subseteq Logins /\ provider.latest \in [Logins -> Nat]
  <2>1. LoginTypeOK /\ Serialized /\ OverIsPast /\ AnswerIsFresh /\ CredentialHonoured
    BY DEF LoginInv
  <2>2. Abandoned \subseteq Logins /\ Replaced \subseteq Logins
    BY <2>1, Ends
  <2>3. OAuth => credential \in Credentials /\ credential.grant \in Logins
    BY <2>1, <2>2 DEF Replaced, OAuth, LoginTypeOK
  <2> QED
    BY <2>1, <2>2, <2>3, WorkspaceAssumption DEF LoginTypeOK, Pending, Providers, Histories, Rows
<1>1. ASSUME StartLogin PROVE LoginInv'
  <2>1. awaiting' \in Seq(Awaited) /\ Len(awaiting') = 1 /\ awaiting'[1] = [op |-> "start", credential |-> None]
    BY <1>1, <1>0, Joined DEF StartLogin
  <2>2. /\ provider' \in Providers /\ provider'.begun = provider.begun + 1 /\ provider'.begun \in Logins
        /\ provider'.revoked = provider.revoked /\ provider'.latest = provider.latest
    <3>1. provider' = [provider EXCEPT !.begun = provider.begun + 1] /\ provider.begun + 1 \in Logins
      BY <1>1, <1>0 DEF StartLogin
    <3> QED BY SMTT(20), <1>0, <3>1 DEF Providers
  <2>5. LoginTypeOK'
    BY <1>0, <1>1, <2>1, <2>2 DEF LoginTypeOK, StartLogin
  <2>6. Serialized'
    BY <1>0, <1>1, <2>1, <2>2 DEF StartLogin, Serialized, OverIsPast, AnswerIsFresh, Pending, OAuth
  <2>7. OverIsPast'
    <3>1. UNCHANGED <<login, credential, history>>
      BY <1>1 DEF StartLogin
    <3>2. \A g \in history.over \cup provider.revoked : g <= provider.begun + 1
      BY <1>0 DEF OverIsPast
    <3>3. Pending => login.id <= provider.begun + 1
      BY <1>0 DEF OverIsPast
    <3>4. OAuth => credential.grant \in 1..(provider.begun + 1)
      BY <1>0 DEF OverIsPast
    <3> QED BY <1>0, <2>2, <3>1, <3>2, <3>3, <3>4 DEF OverIsPast, Pending, OAuth
  <2>8. AnswerIsFresh'
    BY <1>0, <1>1, <2>1, <2>2 DEF StartLogin, AnswerIsFresh, Serialized, OverIsPast, Pending, OAuth
  <2>9. CredentialHonoured'
    BY <1>0, <1>1, <2>1, <2>2 DEF StartLogin, CredentialHonoured, Honours, Serialized, OverIsPast, AnswerIsFresh, Pending, OAuth
  <2> QED BY <2>5, <2>6, <2>7, <2>8, <2>9 DEF LoginInv
<1>2. ASSUME NEW i \in 1..Len(awaiting), StartAnswered(i) PROVE LoginInv'
  <2>1. /\ i = 1 /\ Len(awaiting) = 1 /\ awaiting' \in Seq(Awaited) /\ Len(awaiting') = 0
        /\ awaiting[1].op = "start"
    BY <1>2, <1>0, OnlyOne DEF StartAnswered
  <2>2. CASE /\ login' = [id |-> provider.begun, status |-> "pending"]
             /\ alarm' = TRUE /\ history' = [history EXCEPT !.over = @ \cup Abandoned]
    <3>1. /\ history' \in Histories /\ history'.over = history.over \cup Abandoned
          /\ history'.unsure = history.unsure
      BY <1>0, <2>2, Remembers
    <3>2. login' \in Rows /\ alarm' \in BOOLEAN
      BY <1>2, <1>0, <2>1, <2>2 DEF StartAnswered, Serialized, Rows, LoginTypeOK
    <3>3. UNCHANGED <<poll, credential, provider>>
      BY <1>2 DEF StartAnswered
    <3>5. LoginTypeOK'
      BY <1>0, <2>1, <2>2, <3>1, <3>2, <3>3 DEF LoginTypeOK, Abandoned
    <3>6. Serialized'
      BY <1>0, <2>1, <2>2, <3>1, <3>2, <3>3 DEF Abandoned, Serialized, OverIsPast, AnswerIsFresh, Pending, OAuth
    <3>7. OverIsPast'
      BY SMTT(20), <1>0, <2>1, <2>2, <3>1, <3>2, <3>3 DEF Abandoned, OverIsPast, Serialized, Pending, OAuth
    <3>8. AnswerIsFresh'
      BY <1>0, <2>1, <2>2, <3>1, <3>2, <3>3 DEF Abandoned, AnswerIsFresh, Serialized, OverIsPast, Pending, OAuth
    <3>9. CredentialHonoured'
      BY <1>0, <2>1, <2>2, <3>1, <3>2, <3>3 DEF Abandoned, CredentialHonoured, Honours, Serialized, OverIsPast, AnswerIsFresh, Pending, OAuth
    <3> QED BY <3>5, <3>6, <3>7, <3>8, <3>9 DEF LoginInv
  <2>3. CASE UNCHANGED <<login, alarm, history>>
    <3>3. UNCHANGED <<poll, credential, provider>>
      BY <1>2 DEF StartAnswered
    <3>5. LoginTypeOK'
      BY <1>0, <2>1, <2>3, <3>3 DEF LoginTypeOK, Abandoned
    <3>6. Serialized'
      BY <1>0, <2>1, <2>3, <3>3 DEF Abandoned, Serialized, OverIsPast, AnswerIsFresh, Pending, OAuth
    <3>7. OverIsPast'
      BY <1>0, <2>1, <2>3, <3>3 DEF Abandoned, OverIsPast, Serialized, Pending, OAuth
    <3>8. AnswerIsFresh'
      BY <1>0, <2>1, <2>3, <3>3 DEF Abandoned, AnswerIsFresh, Serialized, OverIsPast, Pending, OAuth
    <3>9. CredentialHonoured'
      BY <1>0, <2>1, <2>3, <3>3 DEF Abandoned, CredentialHonoured, Honours, Serialized, OverIsPast, AnswerIsFresh, Pending, OAuth
    <3> QED BY <3>5, <3>6, <3>7, <3>8, <3>9 DEF LoginInv
  <2> QED BY <1>2, <2>2, <2>3 DEF StartAnswered
<1>3. ASSUME NEW id \in Logins, CancelLogin(id) PROVE LoginInv'
  BY ZenonT(40), <1>3
  DEF LoginInv, CancelLogin, ClearLogin, Turn, LoginTypeOK, Serialized, OverIsPast, AnswerIsFresh,
      CredentialHonoured, Honours, Pending, OAuth, Abandoned, Histories
<1>4. ASSUME NEW new \in {Key, None}, ReplaceCredential(new) PROVE LoginInv'
  <2>1. /\ history' \in Histories /\ history'.over = history.over \cup (Abandoned \cup Replaced)
        /\ history'.unsure = history.unsure
    <3>1. history' = [history EXCEPT !.over = @ \cup (Abandoned \cup Replaced)]
      BY <1>4 DEF ReplaceCredential
    <3> QED BY <3>1, <1>0, Remembers
  <2>2. /\ credential' \in {None} \cup Credentials /\ ~OAuth' /\ ~Pending'
    BY <1>4, <1>0 DEF ReplaceCredential, ClearLogin, Key, Credentials, OAuth, Pending
  <2>5. LoginTypeOK'
    BY <1>0, <1>4, <2>1, <2>2 DEF LoginTypeOK, ReplaceCredential, ClearLogin, Turn, Abandoned, Replaced
  <2>6. Serialized'
    BY <1>0, <1>4, <2>1, <2>2 DEF ReplaceCredential, ClearLogin, Turn, Abandoned, Replaced, Serialized, OverIsPast, AnswerIsFresh, Pending, OAuth
  <2>7. OverIsPast'
    BY <1>0, <1>4, <2>1, <2>2 DEF ReplaceCredential, ClearLogin, Turn, Abandoned, Replaced, OverIsPast, Serialized, Pending, OAuth
  <2>8. AnswerIsFresh'
    BY <1>0, <1>4, <2>1, <2>2 DEF ReplaceCredential, ClearLogin, Turn, Abandoned, Replaced, AnswerIsFresh, Serialized, OverIsPast, Pending, OAuth
  <2>9. CredentialHonoured'
    BY <1>0, <1>4, <2>1, <2>2 DEF ReplaceCredential, ClearLogin, Turn, Abandoned, Replaced, CredentialHonoured, Honours, Serialized, OverIsPast, AnswerIsFresh, Pending, OAuth
  <2> QED BY <2>5, <2>6, <2>7, <2>8, <2>9 DEF LoginInv
<1>5. ASSUME Disconnect PROVE LoginInv'
  <2>1. /\ history' \in Histories /\ history'.over = history.over \cup Abandoned
        /\ history'.unsure = history.unsure /\ ~Pending'
    BY <1>5, <1>0, Remembers DEF Disconnect, ClearLogin, Pending
  <2>2. CASE OAuth /\ Await("revoke", credential) /\ UNCHANGED credential
    <3>1. awaiting' \in Seq(Awaited) /\ Len(awaiting') = 1
          /\ awaiting'[1] = [op |-> "revoke", credential |-> credential]
      BY <1>5, <1>0, <2>2, Joined DEF Disconnect
    <3>5. LoginTypeOK'
      BY <1>0, <1>5, <2>1, <2>2, <3>1 DEF LoginTypeOK, Disconnect, ClearLogin, Turn, Abandoned
    <3>6. Serialized'
      BY <1>0, <1>5, <2>1, <2>2, <3>1 DEF Disconnect, ClearLogin, Turn, Abandoned, Serialized, OverIsPast, AnswerIsFresh, Pending, OAuth
    <3>7. OverIsPast'
      BY <1>0, <1>5, <2>1, <2>2, <3>1 DEF Disconnect, ClearLogin, Turn, Abandoned, OverIsPast, Serialized, Pending, OAuth
    <3>8. AnswerIsFresh'
      BY <1>0, <1>5, <2>1, <2>2, <3>1 DEF Disconnect, ClearLogin, Turn, Abandoned, AnswerIsFresh, Serialized, OverIsPast, Pending, OAuth
    <3>9. CredentialHonoured'
      BY <1>0, <1>5, <2>1, <2>2, <3>1 DEF Disconnect, ClearLogin, Turn, Abandoned, CredentialHonoured, Honours, Serialized, OverIsPast, AnswerIsFresh, Pending, OAuth
    <3> QED BY <3>5, <3>6, <3>7, <3>8, <3>9 DEF LoginInv
  <2>3. CASE credential' = None /\ UNCHANGED awaiting
    <3>5. LoginTypeOK'
      BY <1>0, <1>5, <2>1, <2>3 DEF LoginTypeOK, Disconnect, ClearLogin, Turn, Abandoned
    <3>6. Serialized'
      BY <1>0, <1>5, <2>1, <2>3 DEF Disconnect, ClearLogin, Turn, Abandoned, Serialized, OverIsPast, AnswerIsFresh, Pending, OAuth
    <3>7. OverIsPast'
      BY <1>0, <1>5, <2>1, <2>3 DEF Disconnect, ClearLogin, Turn, Abandoned, OverIsPast, Serialized, Pending, OAuth
    <3>8. AnswerIsFresh'
      BY <1>0, <1>5, <2>1, <2>3 DEF Disconnect, ClearLogin, Turn, Abandoned, AnswerIsFresh, Serialized, OverIsPast, Pending, OAuth
    <3>9. CredentialHonoured'
      BY <1>0, <1>5, <2>1, <2>3 DEF Disconnect, ClearLogin, Turn, Abandoned, CredentialHonoured, Honours, Serialized, OverIsPast, AnswerIsFresh, Pending, OAuth
    <3> QED BY <3>5, <3>6, <3>7, <3>8, <3>9 DEF LoginInv
  <2> QED BY <1>5, <2>2, <2>3 DEF Disconnect
<1>6. ASSUME NEW i \in 1..Len(awaiting), RevokeAnswered(i) PROVE LoginInv'
  <2> DEFINE g == credential.grant
  <2>1. /\ i = 1 /\ Len(awaiting) = 1 /\ awaiting' \in Seq(Awaited) /\ Len(awaiting') = 0
        /\ awaiting[1].op = "revoke"
    BY <1>6, <1>0, OnlyOne DEF RevokeAnswered
  <2>2. OAuth /\ ~Pending /\ awaiting[1].credential = credential /\ g \in Logins
    BY <1>0, <2>1 DEF Serialized
  <2>3. /\ history' \in Histories /\ history'.over = history.over \cup {g} /\ history'.unsure = history.unsure
    BY ZenonT(40), <1>6, <1>0, <2>1, <2>2, Remembers DEF RevokeAnswered
  <2>4. /\ provider' \in Providers /\ provider'.latest = provider.latest /\ provider'.begun = provider.begun
        /\ provider'.revoked \subseteq provider.revoked \cup {g}
    <3>1. provider' = [provider EXCEPT !.revoked = @ \cup {g}] \/ UNCHANGED provider
      BY <1>6, <2>1, <2>2 DEF RevokeAnswered
    <3>2. CASE UNCHANGED provider
      BY <1>0, <3>2
    <3>3. CASE provider' = [provider EXCEPT !.revoked = @ \cup {g}]
      BY <1>0, <2>2, <3>3, Provides
    <3> QED BY <3>1, <3>2, <3>3
  <2>10. credential' = None /\ UNCHANGED <<login, alarm, poll>> /\ g <= provider.begun
    BY <1>6, <1>0, <2>2 DEF RevokeAnswered, OverIsPast
  <2>5. LoginTypeOK'
    BY <1>0, <2>1, <2>2, <2>3, <2>4, <2>10 DEF LoginTypeOK, OAuth
  <2>6. Serialized'
    BY <1>0, <2>1, <2>2, <2>3, <2>4, <2>10 DEF OAuth, Serialized, OverIsPast, AnswerIsFresh, Pending, OAuth
  <2>7. OverIsPast'
    BY <1>0, <2>1, <2>2, <2>3, <2>4, <2>10 DEF OAuth, OverIsPast, Serialized, Pending, OAuth
  <2>8. AnswerIsFresh'
    BY <1>0, <2>1, <2>2, <2>3, <2>4, <2>10 DEF OAuth, AnswerIsFresh, Serialized, OverIsPast, Pending, OAuth
  <2>9. CredentialHonoured'
    BY <1>0, <2>1, <2>2, <2>3, <2>4, <2>10 DEF OAuth, CredentialHonoured, Honours, Serialized, OverIsPast, AnswerIsFresh, Pending, OAuth
  <2> QED BY <2>5, <2>6, <2>7, <2>8, <2>9 DEF LoginInv
<1>7. ASSUME ReadLogin PROVE LoginInv'
  <2>1. poll' \in Polls /\ alarm' \in BOOLEAN
    <3>1. poll' = NoPoll \/ (Pending /\ poll' = [at |-> "asking", id |-> login.id, answer |-> None])
      BY <1>7 DEF ReadLogin
    <3>2. alarm' = FALSE
      BY <1>7 DEF ReadLogin
    <3>3. NoPoll \in Polls
      BY <1>0 DEF NoPoll, Polls
    <3>4. Pending => [at |-> "asking", id |-> login.id, answer |-> None] \in Polls
      BY <1>0 DEF Polls
    <3> QED BY <3>1, <3>2, <3>3, <3>4
  <2>5. LoginTypeOK'
    BY <1>0, <1>7, <2>1 DEF LoginTypeOK, ReadLogin, NoPoll, Rows
  <2>6. Serialized'
    BY <1>0, <1>7, <2>1 DEF ReadLogin, NoPoll, Rows, Serialized, OverIsPast, AnswerIsFresh, Pending, OAuth
  <2>7. OverIsPast'
    BY <1>0, <1>7, <2>1 DEF ReadLogin, NoPoll, Rows, OverIsPast, Serialized, Pending, OAuth
  <2>8. AnswerIsFresh'
    BY <1>0, <1>7, <2>1 DEF ReadLogin, NoPoll, Rows, AnswerIsFresh, Serialized, OverIsPast, Pending, OAuth
  <2>9. CredentialHonoured'
    BY <1>0, <1>7, <2>1 DEF ReadLogin, NoPoll, Rows, CredentialHonoured, Honours, Serialized, OverIsPast, AnswerIsFresh, Pending, OAuth
  <2> QED BY <2>5, <2>6, <2>7, <2>8, <2>9 DEF LoginInv
<1>8. ASSUME PollAnswered PROVE LoginInv'
  <2>1. PICK a \in {"pending", "complete", "error"} : poll' = [at |-> "answered", id |-> poll.id, answer |-> a]
    BY <1>8 DEF PollAnswered
  <2>2. poll' \in Polls /\ poll.id \in Logins /\ poll.id <= provider.begun
    BY <1>8, <1>0, <2>1 DEF PollAnswered, Polls, AnswerIsFresh
  <2>10. UNCHANGED <<login, alarm, awaiting, credential, history>> /\ poll.at = "asking"
    BY <1>8 DEF PollAnswered
  <2>3. CASE UNCHANGED provider /\ a # "complete"
    <3>5. LoginTypeOK'
      BY <1>0, <1>8, <2>1, <2>2, <2>3, <2>10 DEF LoginTypeOK, PollAnswered
    <3>6. Serialized'
      BY <1>0, <1>8, <2>1, <2>2, <2>3, <2>10 DEF PollAnswered, Serialized, OverIsPast, AnswerIsFresh, Pending, OAuth
    <3>7. OverIsPast'
      BY <1>0, <1>8, <2>1, <2>2, <2>3, <2>10 DEF PollAnswered, OverIsPast, Serialized, Pending, OAuth
    <3>8. AnswerIsFresh'
      BY <1>0, <1>8, <2>1, <2>2, <2>3, <2>10 DEF PollAnswered, AnswerIsFresh, Serialized, OverIsPast, Pending, OAuth
    <3>9. CredentialHonoured'
      BY <1>0, <1>8, <2>1, <2>2, <2>3, <2>10 DEF PollAnswered, CredentialHonoured, Honours, Serialized, OverIsPast, AnswerIsFresh, Pending, OAuth
    <3> QED BY <3>5, <3>6, <3>7, <3>8, <3>9 DEF LoginInv
  <2>4. CASE provider.latest[poll.id] = 0 /\ provider' = [provider EXCEPT !.latest[poll.id] = 1]
    <3>1. /\ provider' \in Providers /\ provider'.revoked = provider.revoked /\ provider'.begun = provider.begun
          /\ provider'.latest = [provider.latest EXCEPT ![poll.id] = 1]
      BY <1>0, <2>2, <2>4, Provides
    <3>2. OAuth => credential.grant # poll.id
      BY <1>0, <2>4 DEF AnswerIsFresh
    <3>3. provider.latest \in [Logins -> Nat]
      BY <1>0 DEF Providers
    <3>5. LoginTypeOK'
      BY <1>0, <2>1, <2>2, <2>10, <3>1, <3>2, <3>3 DEF LoginTypeOK, Rows
    <3>6. Serialized'
      BY <1>0, <2>1, <2>2, <2>10, <3>1, <3>2, <3>3 DEF Rows, Serialized, OverIsPast, AnswerIsFresh, Pending, OAuth
    <3>7. OverIsPast'
      BY <1>0, <2>1, <2>2, <2>10, <3>1, <3>2, <3>3 DEF Rows, OverIsPast, Serialized, Pending, OAuth
    <3>8. AnswerIsFresh'
      BY <1>0, <2>1, <2>2, <2>10, <3>1, <3>2, <3>3 DEF Rows, AnswerIsFresh, Serialized, OverIsPast, Pending, OAuth
    <3>9. CredentialHonoured'
      BY <1>0, <2>1, <2>2, <2>10, <3>1, <3>2, <3>3 DEF Rows, CredentialHonoured, Honours, Serialized, OverIsPast, AnswerIsFresh, Pending, OAuth
    <3> QED BY <3>5, <3>6, <3>7, <3>8, <3>9 DEF LoginInv
  <2> QED BY <1>8, <2>1, <2>3, <2>4 DEF PollAnswered
<1>9. ASSUME SavePoll PROVE LoginInv'
  <2>1. poll' = NoPoll /\ poll' \in Polls
    BY <1>9, <1>0 DEF SavePoll, NoPoll, Polls
  <2>10. awaiting = <<>> /\ UNCHANGED <<awaiting, provider>> /\ poll.at = "answered"
    BY <1>9 DEF SavePoll, Turn
  <2>2. CASE Pending /\ login.id = poll.id
    <3>1. /\ login' = [login EXCEPT !.status = poll.answer] /\ alarm' = (poll.answer = "pending")
          /\ credential' = IF poll.answer = "complete" THEN [grant |-> poll.id, token |-> 1] ELSE credential
      BY <1>9, <2>2 DEF SavePoll
    <3>2. login' \in Rows /\ login'.id = login.id /\ login'.status = poll.answer /\ alarm' \in BOOLEAN
      BY <1>0, <2>2, <2>10, <3>1 DEF Rows, AnswerIsFresh
    <3>3. credential' \in {None} \cup Credentials
      BY <1>0, <2>2, <3>1 DEF Credentials, Rows
    <3>4. /\ history' \in Histories /\ history'.over = history.over \cup IF credential' # credential THEN Replaced ELSE {}
          /\ history'.unsure = history.unsure
      <4>1. history' = [history EXCEPT !.over = @ \cup IF credential' # credential THEN Replaced ELSE {}]
        BY <1>9 DEF SavePoll
      <4>2. (IF credential' # credential THEN Replaced ELSE {}) \in SUBSET Logins
        BY <1>0
      <4> QED BY <1>0, <4>1, <4>2, Remembers
    <3>5. LoginTypeOK'
      BY <1>0, <2>1, <2>2, <2>10, <3>1, <3>2, <3>3, <3>4 DEF LoginTypeOK, NoPoll, Replaced, Rows
    <3>6. Serialized'
      BY <1>0, <2>1, <2>2, <2>10, <3>1, <3>2, <3>3, <3>4 DEF NoPoll, Replaced, Rows, Serialized, OverIsPast, AnswerIsFresh, Pending, OAuth
    <3>7. OverIsPast'
      BY <1>0, <2>1, <2>2, <2>10, <3>1, <3>2, <3>3, <3>4 DEF NoPoll, Replaced, Rows, OverIsPast, Serialized, Pending, OAuth
    <3>8. AnswerIsFresh'
      BY <1>0, <2>1, <2>2, <2>10, <3>1, <3>2, <3>3, <3>4 DEF NoPoll, Replaced, Rows, AnswerIsFresh, Serialized, OverIsPast, Pending, OAuth
    <3>9. CredentialHonoured'
      BY <1>0, <2>1, <2>2, <2>10, <3>1, <3>2, <3>3, <3>4 DEF NoPoll, Replaced, Rows, CredentialHonoured, Honours, Serialized, OverIsPast, AnswerIsFresh, Pending, OAuth
    <3> QED BY <3>5, <3>6, <3>7, <3>8, <3>9 DEF LoginInv
  <2>3. CASE ~(Pending /\ login.id = poll.id)
    <3>1. UNCHANGED <<login, alarm, credential>>
      BY <1>9, <2>3 DEF SavePoll
    <3>2. history' \in Histories /\ history'.over = history.over /\ history'.unsure = history.unsure
      <4>1. history' = [history EXCEPT !.over = @ \cup IF credential' # credential THEN Replaced ELSE {}]
        BY <1>9 DEF SavePoll
      <4>2. (IF credential' # credential THEN Replaced ELSE {}) = {}
        BY <3>1
      <4>3. history' = [history EXCEPT !.over = @ \cup {}]
        BY <4>1, <4>2
      <4> QED BY <1>0, <4>3 DEF Histories
    <3>5. LoginTypeOK'
      BY <1>0, <2>1, <2>10, <3>1, <3>2 DEF LoginTypeOK, NoPoll
    <3>6. Serialized'
      BY <1>0, <2>1, <2>10, <3>1, <3>2 DEF NoPoll, Serialized, OverIsPast, AnswerIsFresh, Pending, OAuth
    <3>7. OverIsPast'
      BY <1>0, <2>1, <2>10, <3>1, <3>2 DEF NoPoll, OverIsPast, Serialized, Pending, OAuth
    <3>8. AnswerIsFresh'
      BY <1>0, <2>1, <2>10, <3>1, <3>2 DEF NoPoll, AnswerIsFresh, Serialized, OverIsPast, Pending, OAuth
    <3>9. CredentialHonoured'
      BY <1>0, <2>1, <2>10, <3>1, <3>2 DEF NoPoll, CredentialHonoured, Honours, Serialized, OverIsPast, AnswerIsFresh, Pending, OAuth
    <3> QED BY <3>5, <3>6, <3>7, <3>8, <3>9 DEF LoginInv
  <2> QED BY <2>2, <2>3
<1>10. ASSUME NEW id \in Logins, Expire(id) PROVE LoginInv'
  <2>1. /\ provider' \in Providers /\ provider'.latest = provider.latest /\ provider'.begun = provider.begun
        /\ provider'.revoked = provider.revoked
    BY <1>10, <1>0, Provides DEF Expire
  <2>5. LoginTypeOK'
    BY <1>0, <1>10, <2>1 DEF LoginTypeOK, Expire
  <2>6. Serialized'
    BY <1>0, <1>10, <2>1 DEF Expire, Serialized, OverIsPast, AnswerIsFresh, Pending, OAuth
  <2>7. OverIsPast'
    BY <1>0, <1>10, <2>1 DEF Expire, OverIsPast, Serialized, Pending, OAuth
  <2>8. AnswerIsFresh'
    BY <1>0, <1>10, <2>1 DEF Expire, AnswerIsFresh, Serialized, OverIsPast, Pending, OAuth
  <2>9. CredentialHonoured'
    BY <1>0, <1>10, <2>1 DEF Expire, CredentialHonoured, Honours, Serialized, OverIsPast, AnswerIsFresh, Pending, OAuth
  <2> QED BY <2>5, <2>6, <2>7, <2>8, <2>9 DEF LoginInv
<1>11. ASSUME Resolve PROVE LoginInv'
  <2>1. awaiting' \in Seq(Awaited) /\ Len(awaiting') = 1
        /\ awaiting'[1] = [op |-> "refresh", credential |-> credential]
    BY <1>11, <1>0, Joined DEF Resolve
  <2>5. LoginTypeOK'
    BY <1>0, <1>11, <2>1 DEF LoginTypeOK, Resolve
  <2>6. Serialized'
    BY <1>0, <1>11, <2>1 DEF Resolve, Serialized, OverIsPast, AnswerIsFresh, Pending, OAuth
  <2>7. OverIsPast'
    BY <1>0, <1>11, <2>1 DEF Resolve, OverIsPast, Serialized, Pending, OAuth
  <2>8. AnswerIsFresh'
    BY <1>0, <1>11, <2>1 DEF Resolve, AnswerIsFresh, Serialized, OverIsPast, Pending, OAuth
  <2>9. CredentialHonoured'
    BY <1>0, <1>11, <2>1 DEF Resolve, CredentialHonoured, Honours, Serialized, OverIsPast, AnswerIsFresh, Pending, OAuth
  <2> QED BY <2>5, <2>6, <2>7, <2>8, <2>9 DEF LoginInv
<1>12. ASSUME NEW i \in 1..Len(awaiting), RefreshAnswered(i) PROVE LoginInv'
  <2> DEFINE g == credential.grant
  <2>1. /\ i = 1 /\ Len(awaiting) = 1 /\ awaiting' \in Seq(Awaited) /\ Len(awaiting') = 0
        /\ awaiting[1].op = "refresh"
    BY <1>12, <1>0, OnlyOne DEF RefreshAnswered
  <2>2. OAuth /\ awaiting[1].credential = credential /\ g \in Logins /\ credential \in Credentials
    BY <1>0, <2>1 DEF Serialized
  <2>10. UNCHANGED <<login, alarm, poll>>
    BY <1>12 DEF RefreshAnswered
  <2>11. provider.latest \in [Logins -> Nat]
    BY <1>0 DEF Providers
  <2>3. CASE /\ Honours(credential) /\ provider' = Rotated(g)
             /\ credential' = [credential EXCEPT !.token = @ + 1] /\ UNCHANGED history
    <3>1. credential' \in Credentials /\ credential'.grant = g /\ credential'.token = credential.token + 1
      BY <2>2, <2>3 DEF Credentials
    <3>2. /\ provider' \in Providers /\ provider'.revoked = provider.revoked /\ provider'.begun = provider.begun
          /\ provider'.latest = [provider.latest EXCEPT ![g] = @ + 1]
      BY <1>0, <2>2, <2>3, Provides
    <3>5. LoginTypeOK'
      BY <1>0, <2>1, <2>2, <2>10, <2>11, <2>3, <3>1, <3>2 DEF LoginTypeOK, Honours
    <3>6. Serialized'
      BY <1>0, <2>1, <2>2, <2>10, <2>11, <2>3, <3>1, <3>2 DEF Honours, Serialized, OverIsPast, AnswerIsFresh, Pending, OAuth
    <3>7. OverIsPast'
      BY <1>0, <2>1, <2>2, <2>10, <2>11, <2>3, <3>1, <3>2 DEF Honours, OverIsPast, Serialized, Pending, OAuth
    <3>8. AnswerIsFresh'
      BY <1>0, <2>1, <2>2, <2>10, <2>11, <2>3, <3>1, <3>2 DEF Honours, AnswerIsFresh, Serialized, OverIsPast, Pending, OAuth
    <3>9. CredentialHonoured'
      BY <1>0, <2>1, <2>2, <2>10, <2>11, <2>3, <3>1, <3>2 DEF Honours, CredentialHonoured, Honours, Serialized, OverIsPast, AnswerIsFresh, Pending, OAuth
    <3> QED BY <3>5, <3>6, <3>7, <3>8, <3>9 DEF LoginInv
  <2>4. CASE /\ provider' = Rotated(g) /\ history' = [history EXCEPT !.unsure = @ \cup {g}] /\ UNCHANGED credential
    <3>1. /\ history' \in Histories /\ history'.over = history.over /\ history'.unsure = history.unsure \cup {g}
      BY <1>0, <2>2, <2>4, Remembers
    <3>2. /\ provider' \in Providers /\ provider'.revoked = provider.revoked /\ provider'.begun = provider.begun
          /\ provider'.latest = [provider.latest EXCEPT ![g] = @ + 1]
      BY <1>0, <2>2, <2>4, Provides
    <3>5. LoginTypeOK'
      BY <1>0, <2>1, <2>2, <2>10, <2>11, <2>4, <3>1, <3>2 DEF LoginTypeOK, Honours
    <3>6. Serialized'
      BY <1>0, <2>1, <2>2, <2>10, <2>11, <2>4, <3>1, <3>2 DEF Honours, Serialized, OverIsPast, AnswerIsFresh, Pending, OAuth
    <3>7. OverIsPast'
      BY <1>0, <2>1, <2>2, <2>10, <2>11, <2>4, <3>1, <3>2 DEF Honours, OverIsPast, Serialized, Pending, OAuth
    <3>8. AnswerIsFresh'
      BY <1>0, <2>1, <2>2, <2>10, <2>11, <2>4, <3>1, <3>2 DEF Honours, AnswerIsFresh, Serialized, OverIsPast, Pending, OAuth
    <3>9. CredentialHonoured'
      BY <1>0, <2>1, <2>2, <2>10, <2>11, <2>4, <3>1, <3>2 DEF Honours, CredentialHonoured, Honours, Serialized, OverIsPast, AnswerIsFresh, Pending, OAuth
    <3> QED BY <3>5, <3>6, <3>7, <3>8, <3>9 DEF LoginInv
  <2>12. CASE UNCHANGED <<provider, credential, history>>
    <3>5. LoginTypeOK'
      BY <1>0, <2>1, <2>2, <2>10, <2>11, <2>12 DEF LoginTypeOK, Honours
    <3>6. Serialized'
      BY <1>0, <2>1, <2>2, <2>10, <2>11, <2>12 DEF Honours, Serialized, OverIsPast, AnswerIsFresh, Pending, OAuth
    <3>7. OverIsPast'
      BY <1>0, <2>1, <2>2, <2>10, <2>11, <2>12 DEF Honours, OverIsPast, Serialized, Pending, OAuth
    <3>8. AnswerIsFresh'
      BY <1>0, <2>1, <2>2, <2>10, <2>11, <2>12 DEF Honours, AnswerIsFresh, Serialized, OverIsPast, Pending, OAuth
    <3>9. CredentialHonoured'
      BY <1>0, <2>1, <2>2, <2>10, <2>11, <2>12 DEF Honours, CredentialHonoured, Honours, Serialized, OverIsPast, AnswerIsFresh, Pending, OAuth
    <3> QED BY <3>5, <3>6, <3>7, <3>8, <3>9 DEF LoginInv
  <2>13. CASE /\ ~Honours(credential) /\ UNCHANGED <<credential, history>>
              /\ provider' = [provider EXCEPT !.revoked = @ \cup {g}]
    <3>1. /\ provider' \in Providers /\ provider'.latest = provider.latest /\ provider'.begun = provider.begun
          /\ provider'.revoked = provider.revoked \cup {g}
      BY <1>0, <2>2, <2>13, Provides
    <3>2. g <= provider.begun
      BY <1>0, <2>2 DEF OverIsPast
    <3>5. LoginTypeOK'
      BY <1>0, <2>1, <2>2, <2>10, <2>11, <2>13, <3>1, <3>2 DEF LoginTypeOK, Honours
    <3>6. Serialized'
      BY <1>0, <2>1, <2>2, <2>10, <2>11, <2>13, <3>1, <3>2 DEF Honours, Serialized, OverIsPast, AnswerIsFresh, Pending, OAuth
    <3>7. OverIsPast'
      BY <1>0, <2>1, <2>2, <2>10, <2>11, <2>13, <3>1, <3>2 DEF Honours, OverIsPast, Serialized, Pending, OAuth
    <3>8. AnswerIsFresh'
      BY <1>0, <2>1, <2>2, <2>10, <2>11, <2>13, <3>1, <3>2 DEF Honours, AnswerIsFresh, Serialized, OverIsPast, Pending, OAuth
    <3>9. CredentialHonoured'
      BY <1>0, <2>1, <2>2, <2>10, <2>11, <2>13, <3>1, <3>2 DEF Honours, CredentialHonoured, Honours, Serialized, OverIsPast, AnswerIsFresh, Pending, OAuth
    <3> QED BY <3>5, <3>6, <3>7, <3>8, <3>9 DEF LoginInv
  <2> QED BY <1>12, <2>1, <2>2, <2>3, <2>4, <2>12, <2>13 DEF RefreshAnswered
<1>13. ASSUME Evict PROVE LoginInv'
  <2> DEFINE g == credential.grant
  <2>1. /\ poll' = NoPoll /\ poll' \in Polls /\ awaiting' = <<>> /\ awaiting' \in Seq(Awaited) /\ Len(awaiting') = 0
        /\ alarm' \in BOOLEAN /\ UNCHANGED <<login, credential>>
    BY <1>13, <1>0 DEF Evict, NoPoll, Polls, LoginTypeOK
  <2>11. provider.latest \in [Logins -> Nat]
    BY <1>0 DEF Providers
  <2>2. CASE UNCHANGED <<provider, history>>
    <3>5. LoginTypeOK'
      BY <1>0, <2>1, <2>2 DEF LoginTypeOK, NoPoll
    <3>6. Serialized'
      BY <1>0, <2>1, <2>2 DEF NoPoll, Serialized, OverIsPast, AnswerIsFresh, Pending, OAuth
    <3>7. OverIsPast'
      BY <1>0, <2>1, <2>2 DEF NoPoll, OverIsPast, Serialized, Pending, OAuth
    <3>8. AnswerIsFresh'
      BY <1>0, <2>1, <2>2 DEF NoPoll, AnswerIsFresh, Serialized, OverIsPast, Pending, OAuth
    <3>9. CredentialHonoured'
      BY <1>0, <2>1, <2>2 DEF NoPoll, CredentialHonoured, Honours, Serialized, OverIsPast, AnswerIsFresh, Pending, OAuth
    <3> QED BY <3>5, <3>6, <3>7, <3>8, <3>9 DEF LoginInv
  <2>3. ASSUME ~Turn, awaiting[1].op # "start"
        PROVE  OAuth /\ awaiting[1].credential = credential /\ g \in Logins /\ credential \in Credentials
               /\ g <= provider.begun /\ (awaiting[1].op = "revoke" => ~Pending)
    <3>1. Len(awaiting) = 1
      <4>1. awaiting \in Seq(Awaited) /\ Len(awaiting) <= 1
        BY <1>0 DEF Serialized
      <4>2. Len(awaiting) \in Nat /\ awaiting # <<>>
        BY <2>3, <4>1 DEF Turn
      <4>3. Len(awaiting) # 0
        BY <4>1, <4>2, EmptySeq
      <4>4. ASSUME NEW n \in Nat, n <= 1, n # 0 PROVE n = 1
        BY <4>4
      <4> QED BY <4>1, <4>2, <4>3, <4>4
    <3> QED BY <1>0, <2>3, <3>1 DEF Serialized, OverIsPast
  <2>4. CASE /\ ~Turn /\ awaiting[1].op = "refresh" /\ provider' = Rotated(awaiting[1].credential.grant)
             /\ history' = [history EXCEPT !.unsure = @ \cup {awaiting[1].credential.grant}]
    <3>1. /\ history' \in Histories /\ history'.over = history.over /\ history'.unsure = history.unsure \cup {g}
      <4>1. history' = [history EXCEPT !.unsure = @ \cup {g}] /\ g \in Logins
        BY <2>3, <2>4
      <4> QED BY <1>0, <4>1, Remembers
    <3>2. /\ provider' \in Providers /\ provider'.revoked = provider.revoked /\ provider'.begun = provider.begun
          /\ provider'.latest = [provider.latest EXCEPT ![g] = @ + 1]
      BY ZenonT(40), <1>0, <2>3, <2>4, Provides
    <3>5. LoginTypeOK'
      BY <1>0, <2>1, <2>11, <2>3, <2>4, <3>1, <3>2 DEF LoginTypeOK, NoPoll
    <3>6. Serialized'
      BY <1>0, <2>1, <2>11, <2>3, <2>4, <3>1, <3>2 DEF NoPoll, Serialized, OverIsPast, AnswerIsFresh, Pending, OAuth
    <3>7. OverIsPast'
      BY <1>0, <2>1, <2>11, <2>3, <2>4, <3>1, <3>2 DEF NoPoll, OverIsPast, Serialized, Pending, OAuth
    <3>8. AnswerIsFresh'
      BY <1>0, <2>1, <2>11, <2>3, <2>4, <3>1, <3>2 DEF NoPoll, AnswerIsFresh, Serialized, OverIsPast, Pending, OAuth
    <3>9. CredentialHonoured'
      BY <1>0, <2>1, <2>11, <2>3, <2>4, <3>1, <3>2 DEF NoPoll, CredentialHonoured, Honours, Serialized, OverIsPast, AnswerIsFresh, Pending, OAuth
    <3> QED BY <3>5, <3>6, <3>7, <3>8, <3>9 DEF LoginInv
  <2>10. CASE /\ ~Turn /\ awaiting[1].op = "revoke"
              /\ provider' = [provider EXCEPT !.revoked = @ \cup {awaiting[1].credential.grant}]
              /\ history' = [history EXCEPT !.unsure = @ \cup {awaiting[1].credential.grant}]
    <3>1. /\ history' \in Histories /\ history'.over = history.over /\ history'.unsure = history.unsure \cup {g}
      <4>1. history' = [history EXCEPT !.unsure = @ \cup {g}] /\ g \in Logins
        BY <2>3, <2>10
      <4> QED BY <1>0, <4>1, Remembers
    <3>2. /\ provider' \in Providers /\ provider'.revoked = provider.revoked \cup {g} /\ provider'.begun = provider.begun
          /\ provider'.latest = provider.latest
      BY <1>0, <2>3, <2>10, Provides
    <3>5. LoginTypeOK'
      BY <1>0, <2>1, <2>11, <2>3, <2>10, <3>1, <3>2 DEF LoginTypeOK, NoPoll
    <3>6. Serialized'
      BY <1>0, <2>1, <2>11, <2>3, <2>10, <3>1, <3>2 DEF NoPoll, Serialized, OverIsPast, AnswerIsFresh, Pending, OAuth
    <3>7. OverIsPast'
      BY <1>0, <2>1, <2>11, <2>3, <2>10, <3>1, <3>2 DEF NoPoll, OverIsPast, Serialized, Pending, OAuth
    <3>8. AnswerIsFresh'
      BY <1>0, <2>1, <2>11, <2>3, <2>10, <3>1, <3>2 DEF NoPoll, AnswerIsFresh, Serialized, OverIsPast, Pending, OAuth
    <3>9. CredentialHonoured'
      BY <1>0, <2>1, <2>11, <2>3, <2>10, <3>1, <3>2 DEF NoPoll, CredentialHonoured, Honours, Serialized, OverIsPast, AnswerIsFresh, Pending, OAuth
    <3> QED BY <3>5, <3>6, <3>7, <3>8, <3>9 DEF LoginInv
  <2> QED BY <1>13, <2>2, <2>4, <2>10 DEF Evict
<1>14. ASSUME Catalogue \/ DeleteProject \/ UNCHANGED vars PROVE LoginInv'
  <2>1. /\ UNCHANGED login_vars
        /\ history' \in Histories /\ history'.over = history.over /\ history'.unsure = history.unsure
    BY <1>14, <1>0
    DEF Catalogue, DeleteProject, vars, login_vars, AddEntry, CreateCalled, Opened, CreateAnswered, View, RemoveEntry,
        Repeat, DeleteEntry, DeleteSession, FinishDeletion, Histories
  <2> QED
    BY <1>0, <2>1
    DEF LoginInv, login_vars, LoginTypeOK, Serialized, OverIsPast, AnswerIsFresh, CredentialHonoured, Honours,
        Pending, OAuth
<1> QED
  BY <1>1, <1>2, <1>3, <1>4, <1>5, <1>6, <1>7, <1>8, <1>9, <1>10, <1>11, <1>12, <1>13, <1>14
  DEF Next, Login, Answered

-----------------------------------------------------------------------------
LEMMA CatalogStep ==
  ASSUME WorkspaceAssumption, CatalogInv, LoginInv, [Next]_vars
  PROVE  CatalogInv'
<1>1. ASSUME NEW s \in Sessions, AddEntry(s) PROVE CatalogInv'
  BY <1>1 DEF CatalogInv, CatalogTypeOK, AddEntry, Goes, Histories
<1>2. ASSUME NEW s \in Sessions, CreateCalled(s) PROVE CatalogInv'
  BY <1>2 DEF CatalogInv, CatalogTypeOK, CreateCalled, Goes
<1>3. ASSUME NEW s \in Sessions, Opened(s) PROVE CatalogInv'
  BY <1>3 DEF CatalogInv, CatalogTypeOK, Opened, Goes
<1>4. ASSUME NEW s \in Sessions, CreateAnswered(s) PROVE CatalogInv'
  BY <1>4 DEF CatalogInv, CatalogTypeOK, CreateAnswered, Goes
<1>5. ASSUME NEW s \in Sessions, View(s) PROVE CatalogInv'
  BY <1>5 DEF CatalogInv, CatalogTypeOK, View, HoldsRecord, Goes
<1>6. ASSUME NEW s \in Sessions, RemoveEntry(s) PROVE CatalogInv'
  BY <1>6 DEF CatalogInv, CatalogTypeOK, RemoveEntry, Goes
<1>7. ASSUME NEW s \in Sessions, Repeat(s) PROVE CatalogInv'
  BY <1>7 DEF CatalogInv, CatalogTypeOK, Repeat, Goes
<1>8. ASSUME NEW s \in Sessions, DeleteEntry(s) PROVE CatalogInv'
  BY <1>8 DEF CatalogInv, CatalogTypeOK, DeleteEntry, Histories
<1>9. ASSUME NEW s \in Sessions, DeleteSession(s) PROVE CatalogInv'
  BY <1>9 DEF CatalogInv, CatalogTypeOK, DeleteSession
<1>10. ASSUME NEW s \in Sessions, FinishDeletion(s) PROVE CatalogInv'
  BY <1>10 DEF CatalogInv, CatalogTypeOK, FinishDeletion
<1>11. ASSUME DeleteProject PROVE CatalogInv'
  BY <1>11 DEF CatalogInv, CatalogTypeOK, DeleteProject
<1>12. ASSUME UNCHANGED catalog_vars, history'.deleted = history.deleted, LoginTypeOK' PROVE CatalogInv'
  BY <1>12 DEF CatalogInv, CatalogTypeOK, LoginTypeOK, catalog_vars
<1>13. ASSUME Login \/ Evict \/ UNCHANGED vars PROVE CatalogInv'
  <2>1. LoginTypeOK' BY LoginStep DEF LoginInv
  <2> DEFINE Kept == UNCHANGED catalog_vars /\ history'.deleted = history.deleted
  <2>2. history = [history EXCEPT !.over = @] /\ history \in Histories
    BY DEF LoginInv, LoginTypeOK, Histories
  <2>3. ASSUME StartLogin PROVE Kept
    BY <2>2, <2>3 DEF StartLogin, catalog_vars, Histories
  <2>4. ASSUME NEW i \in 1..Len(awaiting), StartAnswered(i) PROVE Kept
    BY <2>2, <2>4 DEF StartAnswered, catalog_vars, Histories
  <2>5. ASSUME NEW id \in Logins, CancelLogin(id) PROVE Kept
    BY <2>2, <2>5 DEF CancelLogin, catalog_vars, Histories
  <2>6. ASSUME NEW new \in {Key, None}, ReplaceCredential(new) PROVE Kept
    BY <2>2, <2>6 DEF ReplaceCredential, catalog_vars, Histories
  <2>7. ASSUME Disconnect PROVE Kept
    BY <2>2, <2>7 DEF Disconnect, catalog_vars, Histories
  <2>8. ASSUME NEW i \in 1..Len(awaiting), RevokeAnswered(i) PROVE Kept
    BY <2>2, <2>8 DEF RevokeAnswered, catalog_vars, Histories
  <2>9. ASSUME ReadLogin PROVE Kept
    BY <2>2, <2>9 DEF ReadLogin, catalog_vars, Histories
  <2>10. ASSUME PollAnswered PROVE Kept
    BY <2>2, <2>10 DEF PollAnswered, catalog_vars, Histories
  <2>11. ASSUME SavePoll PROVE Kept
    BY <2>2, <2>11 DEF SavePoll, catalog_vars, Histories
  <2>12. ASSUME NEW id \in Logins, Expire(id) PROVE Kept
    BY <2>2, <2>12 DEF Expire, catalog_vars, Histories
  <2>13. ASSUME Resolve PROVE Kept
    BY <2>2, <2>13 DEF Resolve, catalog_vars, Histories
  <2>14. ASSUME NEW i \in 1..Len(awaiting), RefreshAnswered(i) PROVE Kept
    BY <2>2, <2>14 DEF RefreshAnswered, catalog_vars, Histories
  <2>15. ASSUME Evict PROVE Kept
    BY <2>2, <2>15 DEF Evict, catalog_vars, Histories
  <2>16. UNCHANGED vars => Kept
    BY DEF vars, catalog_vars
  <2>17. Kept
    BY <1>13, <2>3, <2>4, <2>5, <2>6, <2>7, <2>8, <2>9, <2>10, <2>11, <2>12, <2>13, <2>14, <2>15, <2>16
    DEF Login, Answered
  <2> QED BY <1>12, <2>1, <2>17
<1> QED
  BY <1>1, <1>2, <1>3, <1>4, <1>5, <1>6, <1>7, <1>8, <1>9, <1>10, <1>11, <1>13
  DEF Next, Catalogue

-----------------------------------------------------------------------------
LEMMA Initially ==
  ASSUME WorkspaceAssumption, Init
  PROVE  LoginInv /\ CatalogInv
<1>0. MaxLogins \in Nat /\ 0 \in 0..MaxLogins
  BY DEF WorkspaceAssumption
<1>1. LoginInv
  <2>1. awaiting \in Seq(Awaited) /\ Len(awaiting) = 0
    BY DEF Init
  <2>2. ~Pending /\ ~OAuth /\ poll = NoPoll
    BY DEF Init, Pending, OAuth
  <2>3. provider \in Providers
    BY <1>0 DEF Init, Providers
  <2>4. history \in Histories
    BY DEF Init, Histories
  <2>5. LoginTypeOK
    BY <1>0, <2>1, <2>3, <2>4 DEF Init, LoginTypeOK, NoPoll, Polls
  <2>6. Serialized
    BY <2>1 DEF Serialized
  <2>7. OverIsPast
    BY <2>2 DEF Init, OverIsPast
  <2>8. AnswerIsFresh
    BY <2>2 DEF AnswerIsFresh, NoPoll
  <2>9. CredentialHonoured
    BY <2>2 DEF CredentialHonoured, OAuth
  <2> QED BY <2>5, <2>6, <2>7, <2>8, <2>9 DEF LoginInv
<1>2. CatalogInv
  <2>1. history \in Histories
    BY DEF Init, Histories
  <2> QED BY <2>1 DEF Init, CatalogInv, CatalogTypeOK
<1> QED BY <1>1, <1>2

LEMMA Invariants == Spec => [](LoginInv /\ CatalogInv)
<1>1. Init => LoginInv /\ CatalogInv
  BY Initially, WorkspaceAssumption
<1>2. LoginInv /\ CatalogInv /\ [Next]_vars => (LoginInv /\ CatalogInv)'
  BY LoginStep, CatalogStep, WorkspaceAssumption
<1> QED BY <1>1, <1>2, PTL DEF Spec

(* However logins, polls, refreshes and disconnects cross: the credential in use is never one whose
   login or grant the user has ended. *)
THEOREM EndedStays == Spec => []EndedStaysEnded
<1>1. LoginInv => EndedStaysEnded
  BY DEF LoginInv, OverIsPast, EndedStaysEnded
<1> QED BY <1>1, Invariants, PTL

(* The refresh token stored is the one the provider honours, unless the answer to a refresh or a
   revocation was lost. *)
THEOREM TokenHonoured == Spec => []CredentialHonoured
<1>1. LoginInv => CredentialHonoured
  BY DEF LoginInv
<1> QED BY <1>1, Invariants, PTL

(* A Session that exists and was not deleted is listed, and its project exists. *)
THEOREM Listed == Spec => []StartedIsListed
<1>1. CatalogInv => StartedIsListed
  BY DEF CatalogInv, CatalogTypeOK, StartedIsListed
<1> QED BY <1>1, Invariants, PTL
=============================================================================
