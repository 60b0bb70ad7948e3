---------------------------- MODULE StoresProofs ----------------------------
(***************************************************************************)
(* Theorems about Authentication, BackupRestore and SchemaMigrations, and  *)
(* about the stores of the control plane together (MCStores), for any      *)
(* number of accounts, codes, sessions, requests, backup sets, commands,   *)
(* processes and migrations.                                               *)
(***************************************************************************)
EXTENDS MCStores, PlayerSessionsProofs, TelemetryStreamProofs

-----------------------------------------------------------------------------
(* Accounts, codes and sessions.                                           *)

\* What a request has in hand while it is handled
RequestsFit ==
    \A r \in Requests :
        /\ pc[r] = "handler" => by[r] \in Sessions
        /\ pc[r] = "claiming" => claiming[r].invitation \in Invitations

\* One request at a time is between the reads and the writes of a claim, and
\* what it read about the owners still holds
ClaimsFit ==
    /\ \A r, q \in Requests : pc[r] = "claiming" /\ pc[q] = "claiming" => r = q
    /\ \A r \in Requests : pc[r] = "claiming" => MayClaim(claiming[r].invitation)

AccountsInv == AuthTypeOK /\ LiveSessionsAreActive /\ RequestsFit /\ ClaimsFit

AccountTypes ==
    /\ role \in [Players -> Roles]
    /\ status \in [Players -> {"none", "invited", "active", "suspended"}]

RequestTypes ==
    /\ pc \in [Requests -> {"idle", "handler", "claiming"}]
    /\ by \in [Requests -> Sessions \cup {Nobody}]
    /\ rank \in [Requests -> Roles]
    /\ claiming \in [Requests -> [code : Codes \cup {Nobody}, invitation : Invitations \cup {NoInvitation}]]

CodeTypes == code \in [Codes -> Invitations \cup {NoInvitation}]
SessionTypes == session \in [Sessions -> Players \cup {Nobody}]
RecoveringTypes == recovering \in Invitations \cup {NoInvitation}

LEMMA AccountTypeParts ==
    /\ AuthTypeOK <=> AccountTypes /\ RequestTypes /\ CodeTypes /\ SessionTypes /\ RecoveringTypes
    /\ AuthTypeOK' <=> AccountTypes' /\ RequestTypes' /\ CodeTypes' /\ SessionTypes' /\ RecoveringTypes'
BY DEF AuthTypeOK, AccountTypes, RequestTypes, CodeTypes, SessionTypes, RecoveringTypes

-----------------------------------------------------------------------------
(* What the helpers do.                                                    *)

\* An invitation changes no active account
LEMMA InsertFacts ==
    ASSUME AuthTypeOK, NEW p \in Players, NEW ro \in Roles, InsertInvitation(p, ro)
    PROVE  /\ AccountTypes' /\ CodeTypes'
           /\ ActiveOwners' = ActiveOwners
           /\ \A q \in Players : status[q] = "active" => status'[q] = "active"
<1>1. AccountTypes'
  BY DEF InsertInvitation, AuthTypeOK, AccountTypes
<1>2. CodeTypes'
  BY DEF InsertInvitation, AuthTypeOK, CodeTypes, Invitations
<1>3. \A q \in Players : (role'[q] = "owner" /\ status'[q] = "active") <=> (role[q] = "owner" /\ status[q] = "active")
  BY DEF InsertInvitation, AuthTypeOK
<1>4. \A q \in Players : status[q] = "active" => status'[q] = "active"
  BY DEF InsertInvitation, AuthTypeOK
<1>. QED BY <1>1, <1>2, <1>3, <1>4 DEF ActiveOwners

\* Nobody gets a session through a revocation
LEMMA RevokeFacts ==
    ASSUME AuthTypeOK, NEW revoked, Revoke(revoked)
    PROVE  SessionTypes' /\ \A s \in Sessions : session'[s] \in {session[s], Nobody}
BY DEF AuthTypeOK, Revoke, SessionTypes

\* A login gives a session to one account
LEMMA CreateFacts ==
    ASSUME AuthTypeOK, NEW p \in Players, NEW revoked, CreateSession(p, revoked)
    PROVE  SessionTypes' /\ \A s \in Sessions : session'[s] \in {session[s], Nobody, p}
BY DEF AuthTypeOK, CreateSession, SessionTypes

LEMMA FinishFacts ==
    ASSUME AuthTypeOK, RequestsFit, ClaimsFit, NEW r \in Requests, ~Busy, Finish(r)
    PROVE  /\ RequestTypes' /\ RecoveringTypes'
           /\ RequestsFit' /\ ClaimsFit'
<1>1. RequestTypes' /\ RecoveringTypes'
  BY DEF AuthTypeOK, Finish, RequestTypes, RecoveringTypes, Roles
<1>2. \A q \in Requests : pc'[q] # "claiming"
  BY DEF AuthTypeOK, Finish, Busy
<1>3. \A q \in Requests : pc'[q] = "handler" => q # r /\ pc[q] = "handler" /\ by'[q] = by[q]
  BY DEF AuthTypeOK, Finish
<1>. QED BY <1>1, <1>2, <1>3 DEF RequestsFit, ClaimsFit

\* Requests keep what they have while nobody touches the active owners
LEMMA RequestsKept ==
    ASSUME RequestsFit, ClaimsFit, AuthTypeOK, UNCHANGED requestVars, ActiveOwners' = ActiveOwners
    PROVE  RequestTypes' /\ RequestsFit' /\ ClaimsFit'
<1>1. RequestTypes' /\ RequestsFit'
  BY DEF AuthTypeOK, RequestTypes, RequestsFit, requestVars
<1>2. \A r \in Requests : MayClaim(claiming[r].invitation) => MayClaim(claiming[r].invitation)'
  BY DEF MayClaim, IsLastOwner, requestVars
<1>. QED BY <1>1, <1>2 DEF ClaimsFit, requestVars

LEMMA OwnersKept ==
    ASSUME UNCHANGED accountVars PROVE ActiveOwners' = ActiveOwners
BY DEF ActiveOwners, accountVars

\* Sessions stay with active accounts when some are revoked
LEMMA RevocationFits ==
    ASSUME AuthTypeOK, LiveSessionsAreActive,
           \A q \in Players : status[q] = "active" => status'[q] = "active",
           \A s \in Sessions : session'[s] \in {session[s], Nobody}
    PROVE  LiveSessionsAreActive'
<1>. SUFFICES ASSUME NEW s \in Sessions, session'[s] # Nobody PROVE status'[session'[s]] = "active"
  BY DEF LiveSessionsAreActive
<1>1. session'[s] = session[s] /\ session[s] \in Players
  BY DEF AuthTypeOK
<1>. QED BY <1>1 DEF LiveSessionsAreActive

\* Sessions stay with active accounts when one gets another
LEMMA SessionsFit ==
    ASSUME AuthTypeOK, LiveSessionsAreActive,
           NEW p \in Players, status'[p] = "active",
           \A q \in Players : status[q] = "active" => status'[q] = "active",
           \A s \in Sessions : session'[s] \in {session[s], Nobody, p}
    PROVE  LiveSessionsAreActive'
<1>. SUFFICES ASSUME NEW s \in Sessions, session'[s] # Nobody PROVE status'[session'[s]] = "active"
  BY DEF LiveSessionsAreActive
<1>1. CASE session'[s] = session[s]
  <2>1. session[s] \in Players /\ status[session[s]] = "active"
    BY <1>1 DEF AuthTypeOK, LiveSessionsAreActive
  <2>. QED BY <1>1, <2>1
<1>2. CASE session'[s] = p
  BY <1>2
<1>. QED BY <1>1, <1>2

-----------------------------------------------------------------------------
(* The steps.                                                              *)

LEMMA AccountsStart == AuthInit => AccountsInv
<1>. SUFFICES ASSUME AuthInit PROVE AccountsInv
  OBVIOUS
<1>1. AuthTypeOK
  BY DEF AuthInit, AuthTypeOK, Roles
<1>2. LiveSessionsAreActive /\ RequestsFit /\ ClaimsFit
  BY DEF AuthInit, LiveSessionsAreActive, RequestsFit, ClaimsFit
<1>. QED BY <1>1, <1>2 DEF AccountsInv

LEMMA CallerIsAPlayer ==
    ASSUME AccountsInv, NEW r \in Requests, IsActiveSession(r)
    PROVE  Caller(r) \in Players /\ status[Caller(r)] = "active"
<1>1. by[r] \in Sessions
  BY DEF AccountsInv, IsActiveSession, Handling, RequestsFit
<1>2. session[by[r]] \in Players \cup {Nobody}
  BY <1>1 DEF AccountsInv, AuthTypeOK
<1>. QED BY <1>2 DEF IsActiveSession, Caller

\* A request that was handled without touching the accounts
LEMMA HandledKeeps ==
    ASSUME AccountsInv, NEW r \in Requests, ~Busy, Finish(r), UNCHANGED accountVars, CodeTypes',
           SessionTypes', LiveSessionsAreActive'
    PROVE  AccountsInv'
BY FinishFacts, AccountTypeParts DEF AccountsInv, accountVars, AccountTypes

LEMMA RequestKeeps ==
    ASSUME AccountsInv, NEW r \in Requests, RequestStep(r)
    PROVE  AccountsInv'
<1>. USE DEF AccountsInv
<1>a. ASSUME UNCHANGED accountVars
      PROVE  \A q \in Players : status[q] = "active" => status'[q] = "active"
  BY <1>a DEF accountVars
<1>1. ASSUME NEW s \in Sessions, Authenticate(r, s) PROVE AccountsInv'
  <2>1. AccountTypes' /\ CodeTypes' /\ SessionTypes' /\ RecoveringTypes' /\ LiveSessionsAreActive'
    BY <1>1, AccountTypeParts DEF Authenticate, accountVars, AccountTypes, CodeTypes, SessionTypes, RecoveringTypes, LiveSessionsAreActive
  <2>2. session[s] \in Players
    BY <1>1 DEF Authenticate, AuthTypeOK
  <2>3. RequestTypes'
    BY <1>1, <2>2 DEF Authenticate, RequestTypes, AuthTypeOK
  <2>4. \A q \in Requests : pc'[q] # "claiming"
    BY <1>1 DEF Authenticate, Busy, AuthTypeOK
  <2>5. RequestsFit'
    BY <1>1, <2>4 DEF Authenticate, RequestsFit, AuthTypeOK
  <2>. QED BY <2>1, <2>3, <2>4, <2>5, AccountTypeParts DEF ClaimsFit
<1>2. ASSUME NEW s \in Sessions, RevokeSession(r, s) PROVE AccountsInv'
  <2>1. SessionTypes' /\ LiveSessionsAreActive'
    BY <1>2, <1>a, RevokeFacts, RevocationFits DEF RevokeSession
  <2>. QED BY <1>2, <2>1, HandledKeeps, AccountTypeParts DEF RevokeSession, IsActiveSession, Handling, CodeTypes
<1>3. ASSUME NEW p \in Players, Suspend(r, p) PROVE AccountsInv'
  <2>1. SessionTypes' /\ \A s \in Sessions : session'[s] \in {session[s], Nobody}
    BY <1>3, RevokeFacts DEF Suspend, SuspendSessions
  <2>2. \A s \in Sessions : session[s] = p => session'[s] = Nobody
    BY <1>3 DEF Suspend, SuspendSessions, Revoke, SessionsOf
  <2>3. \A q \in Players \ {p} : status'[q] = status[q]
    BY <1>3 DEF Suspend, AuthTypeOK
  <2>4. LiveSessionsAreActive'
    <3>. SUFFICES ASSUME NEW s \in Sessions, session'[s] # Nobody PROVE status'[session'[s]] = "active"
      BY DEF LiveSessionsAreActive
    <3>1. session'[s] = session[s] /\ session[s] \in Players \ {p}
      BY <2>1, <2>2 DEF AuthTypeOK
    <3>. QED BY <3>1, <2>3 DEF LiveSessionsAreActive
  <2>5. AccountTypes' /\ CodeTypes'
    BY <1>3 DEF Suspend, AccountTypes, CodeTypes, AuthTypeOK
  <2>6. RequestTypes' /\ RecoveringTypes' /\ RequestsFit' /\ ClaimsFit'
    BY <1>3, FinishFacts DEF Suspend, MayManageUsers, Handling
  <2>. QED BY <2>1, <2>4, <2>5, <2>6, AccountTypeParts
<1>4. ASSUME NEW p \in Players, NEW ro \in Roles, Invite(r, p, ro) PROVE AccountsInv'
  <2>1. AccountTypes' /\ CodeTypes' /\ \A q \in Players : status[q] = "active" => status'[q] = "active"
    BY <1>4, InsertFacts DEF Invite
  <2>2. SessionTypes' /\ LiveSessionsAreActive'
    BY <1>4, <2>1, RevocationFits DEF Invite, SessionTypes, AuthTypeOK
  <2>3. RequestTypes' /\ RecoveringTypes' /\ RequestsFit' /\ ClaimsFit'
    BY <1>4, FinishFacts DEF Invite, MayManageUsers, Handling
  <2>. QED BY <2>1, <2>2, <2>3, AccountTypeParts
<1>5. ASSUME ChangePassword(r) PROVE AccountsInv'
  <2>1. Caller(r) \in Players /\ status[Caller(r)] = "active"
    BY <1>5, CallerIsAPlayer DEF ChangePassword
  <2>2. SessionTypes' /\ \A s \in Sessions : session'[s] \in {session[s], Nobody, Caller(r)}
    BY <1>5, <2>1, CreateFacts DEF ChangePassword
  <2>3. LiveSessionsAreActive'
    BY <1>5, <1>a, <2>1, <2>2, SessionsFit DEF ChangePassword, accountVars
  <2>. QED BY <1>5, <2>2, <2>3, HandledKeeps, AccountTypeParts DEF ChangePassword, IsActiveSession, Handling, CodeTypes
<1>6. ASSUME RevokeOtherSessions(r) PROVE AccountsInv'
  <2>1. SessionTypes' /\ LiveSessionsAreActive'
    BY <1>6, <1>a, RevokeFacts, RevocationFits DEF RevokeOtherSessions
  <2>. QED BY <1>6, <2>1, HandledKeeps, AccountTypeParts DEF RevokeOtherSessions, IsActiveSession, Handling, CodeTypes
<1>7. ASSUME Logout(r) PROVE AccountsInv'
  <2>1. SessionTypes' /\ LiveSessionsAreActive'
    BY <1>7, <1>a, RevokeFacts, RevocationFits DEF Logout
  <2>. QED BY <1>7, <2>1, HandledKeeps, AccountTypeParts DEF Logout, Handling, CodeTypes
<1>8. ASSUME Refuse(r) PROVE AccountsInv'
  <2>1. SessionTypes' /\ CodeTypes' /\ LiveSessionsAreActive'
    BY <1>8 DEF Refuse, accountVars, SessionTypes, CodeTypes, LiveSessionsAreActive, AuthTypeOK
  <2>. QED BY <1>8, <2>1, HandledKeeps DEF Refuse, Handling
<1>9. ASSUME NEW c \in Codes, ClaimRead(r, c) PROVE AccountsInv'
  <2>1. AccountTypes' /\ CodeTypes' /\ SessionTypes' /\ RecoveringTypes' /\ LiveSessionsAreActive'
    BY <1>9, AccountTypeParts DEF ClaimRead, accountVars, AccountTypes, CodeTypes, SessionTypes, RecoveringTypes, LiveSessionsAreActive
  <2>2. code[c] \in Invitations
    BY <1>9 DEF ClaimRead, AuthTypeOK
  <2>3. RequestTypes'
    BY <1>9, <2>2 DEF ClaimRead, RequestTypes, AuthTypeOK
  <2>4. \A q \in Requests : pc'[q] = "claiming" => q = r
    BY <1>9 DEF ClaimRead, Busy, AuthTypeOK
  <2>5. claiming'[r].invitation = code[c]
    BY <1>9 DEF ClaimRead, AuthTypeOK
  <2>6. RequestsFit'
    BY <1>9, <2>2, <2>4, <2>5 DEF ClaimRead, RequestsFit, AuthTypeOK
  <2>7. MayClaim(claiming[r].invitation)'
    BY <1>9, <2>5, OwnersKept DEF ClaimRead, MayClaim, IsLastOwner
  <2>. QED BY <2>1, <2>3, <2>4, <2>6, <2>7, AccountTypeParts DEF ClaimsFit
<1>10. ASSUME ClaimWrite(r) PROVE AccountsInv'
  <2>. DEFINE invitation == claiming[r].invitation
  <2>1. invitation \in Invitations
    BY <1>10 DEF ClaimWrite, RequestsFit
  <2>2. AccountTypes' /\ status'[invitation.to] = "active"
        /\ \A q \in Players : status[q] = "active" => status'[q] = "active"
    BY <1>10, <2>1 DEF ClaimWrite, AccountTypes, Invitations, AuthTypeOK
  <2>3. SessionTypes' /\ \A s \in Sessions : session'[s] \in {session[s], Nobody, invitation.to}
    BY <1>10, <2>1, CreateFacts DEF ClaimWrite, Invitations
  <2>4. LiveSessionsAreActive'
    BY <2>1, <2>2, <2>3, SessionsFit DEF Invitations
  <2>5. CodeTypes'
    BY <1>10 DEF ClaimWrite, CodeTypes, AuthTypeOK
  <2>6. RequestTypes' /\ RecoveringTypes'
    BY <1>10 DEF ClaimWrite, RequestTypes, RecoveringTypes, AuthTypeOK
  <2>7. \A q \in Requests : pc'[q] # "claiming"
    BY <1>10 DEF ClaimWrite, ClaimsFit, AuthTypeOK
  <2>8. RequestsFit'
    BY <1>10, <2>7 DEF ClaimWrite, RequestsFit, AuthTypeOK
  <2>. QED BY <2>2, <2>3, <2>4, <2>5, <2>6, <2>7, <2>8, AccountTypeParts DEF ClaimsFit
<1>. QED BY <1>1, <1>2, <1>3, <1>4, <1>5, <1>6, <1>7, <1>8, <1>9, <1>10 DEF RequestStep

\* A command, a login or time: no request moves and no active owner changes
LEMMA OthersKeep ==
    ASSUME AccountsInv, UNCHANGED requestVars, ActiveOwners' = ActiveOwners,
           AccountTypes', CodeTypes', SessionTypes', RecoveringTypes', LiveSessionsAreActive'
    PROVE  AccountsInv'
BY RequestsKept, AccountTypeParts DEF AccountsInv

LEMMA InvitationKeeps ==
    ASSUME AccountsInv, NEW p \in Players, NEW ro \in Roles, InsertInvitation(p, ro),
           UNCHANGED session, UNCHANGED requestVars, RecoveringTypes'
    PROVE  AccountsInv'
<1>1. SessionTypes'
  BY DEF AccountsInv, AuthTypeOK, SessionTypes
<1>2. LiveSessionsAreActive'
  BY InsertFacts, RevocationFits DEF AccountsInv
<1>. QED BY <1>1, <1>2, InsertFacts, OthersKeep DEF AccountsInv

LEMMA AccountsStep == AccountsInv /\ [AuthNext]_authVars => AccountsInv'
<1>. SUFFICES ASSUME AccountsInv, [AuthNext]_authVars PROVE AccountsInv'
  OBVIOUS
<1>a. AuthTypeOK /\ AccountTypes /\ CodeTypes /\ SessionTypes /\ RecoveringTypes /\ LiveSessionsAreActive
  BY AccountTypeParts DEF AccountsInv
<1>1. CASE UNCHANGED authVars
  BY <1>1, <1>a, OwnersKept, OthersKeep
  DEF authVars, accountVars, AccountTypes, CodeTypes, SessionTypes, RecoveringTypes, LiveSessionsAreActive
<1>2. ASSUME NEW r \in Requests, RequestStep(r) PROVE AccountsInv'
  BY <1>2, RequestKeeps
<1>3. ASSUME NEW p \in Players, Login(p) PROVE AccountsInv'
  <2>1. SessionTypes' /\ \A s \in Sessions : session'[s] \in {session[s], Nobody, p}
    BY <1>3, <1>a, CreateFacts DEF Login
  <2>2. LiveSessionsAreActive'
    BY <1>3, <1>a, <2>1, SessionsFit DEF Login, accountVars
  <2>3. AccountTypes' /\ CodeTypes' /\ RecoveringTypes'
    BY <1>3, <1>a DEF Login, accountVars, AccountTypes, CodeTypes, RecoveringTypes
  <2>. QED BY <1>3, <2>1, <2>2, <2>3, OwnersKept, OthersKeep DEF Login
<1>4. ASSUME NEW p \in Players, Bootstrap(p) PROVE AccountsInv'
  BY <1>4, <1>a, InvitationKeeps DEF Bootstrap, Roles, RecoveringTypes
<1>5. ASSUME NEW p \in Players, NEW ro \in Roles, CliInvite(p, ro) PROVE AccountsInv'
  BY <1>5, <1>a, InvitationKeeps DEF CliInvite, RecoveringTypes
<1>6. ASSUME NEW p \in Players, RecoverRead(p) PROVE AccountsInv'
  <2>1. RecoveringTypes'
    BY <1>6, <1>a DEF RecoverRead, RecoveringTypes, AccountTypes, Invitations
  <2>2. AccountTypes' /\ CodeTypes' /\ SessionTypes' /\ LiveSessionsAreActive'
    BY <1>6, <1>a DEF RecoverRead, accountVars, AccountTypes, CodeTypes, SessionTypes, LiveSessionsAreActive
  <2>. QED BY <1>6, <2>1, <2>2, OwnersKept, OthersKeep DEF RecoverRead
<1>7. CASE RecoverWrite
  <2>1. recovering.to \in Players /\ recovering.role \in Roles
    BY <1>7, <1>a DEF RecoverWrite, RecoveringTypes, Invitations
  <2>. QED BY <1>7, <2>1, InvitationKeeps DEF RecoverWrite, RecoveringTypes
<1>8. ASSUME NEW c \in Codes, ExpireCode(c) PROVE AccountsInv'
  <2>1. AccountTypes' /\ CodeTypes' /\ SessionTypes' /\ RecoveringTypes' /\ LiveSessionsAreActive'
    BY <1>8, <1>a DEF ExpireCode, accountVars, AccountTypes, CodeTypes, SessionTypes, RecoveringTypes, LiveSessionsAreActive
  <2>. QED BY <1>8, <2>1, OwnersKept, OthersKeep DEF ExpireCode
<1>9. ASSUME NEW s \in Sessions, ExpireSession(s) PROVE AccountsInv'
  <2>1. SessionTypes' /\ \A t \in Sessions : session'[t] \in {session[t], Nobody}
    BY <1>9, <1>a, RevokeFacts DEF ExpireSession
  <2>2. LiveSessionsAreActive'
    BY <1>9, <1>a, <2>1, RevocationFits DEF ExpireSession, accountVars
  <2>3. AccountTypes' /\ CodeTypes' /\ RecoveringTypes'
    BY <1>9, <1>a DEF ExpireSession, accountVars, AccountTypes, CodeTypes, RecoveringTypes
  <2>. QED BY <1>9, <2>1, <2>2, <2>3, OwnersKept, OthersKeep DEF ExpireSession
<1>. QED BY <1>1, <1>2, <1>3, <1>4, <1>5, <1>6, <1>7, <1>8, <1>9 DEF AuthNext

LEMMA AccountsInvariance == AuthSpec => []AccountsInv
BY AccountsStart, AccountsStep, PTL DEF AuthSpec

-----------------------------------------------------------------------------
(* Theorems.                                                               *)

\* Accounts, codes, sessions and requests keep their types
THEOREM AccountTypeCorrect == AuthSpec => []AuthTypeOK
<1>1. AccountsInv => AuthTypeOK
  BY DEF AccountsInv
<1>. QED BY <1>1, AccountsInvariance, PTL

\* A session that is neither revoked nor expired belongs to an active account
THEOREM SessionsOfActiveAccounts == AuthSpec => []LiveSessionsAreActive
<1>1. AccountsInv => LiveSessionsAreActive
  BY DEF AccountsInv
<1>. QED BY <1>1, AccountsInvariance, PTL

\* Who is not the last owner leaves an owner behind
LEMMA AnotherOwner ==
    ASSUME NEW p, ~IsLastOwner(p), ActiveOwners # {}
    PROVE  \E q \in ActiveOwners : q # p
BY DEF IsLastOwner

\* The panel never loses its last active owner, whatever requests and commands
\* interleave
THEOREM AnOwnerRemains == AuthSpec => LastOwnerRemains
<1>1. AccountsInv /\ [AuthNext]_authVars => [ActiveOwners # {} => ActiveOwners' # {}]_authVars
  <2>. SUFFICES ASSUME AccountsInv, AuthNext, ActiveOwners # {} PROVE ActiveOwners' # {}
    OBVIOUS
  <2>a. AuthTypeOK
    BY DEF AccountsInv
  <2>1. CASE UNCHANGED accountVars
    BY <2>1, OwnersKept
  <2>2. ASSUME NEW p \in Players, NEW ro \in Roles, InsertInvitation(p, ro) PROVE ActiveOwners' # {}
    BY <2>2, <2>a, InsertFacts
  <2>3. ASSUME NEW r \in Requests, NEW p \in Players, Suspend(r, p) PROVE ActiveOwners' # {}
    <3>1. PICK q \in ActiveOwners : q # p
      BY <2>3, AnotherOwner DEF Suspend, MaySuspend
    <3>2. q \in ActiveOwners'
      BY <2>3, <2>a, <3>1 DEF Suspend, ActiveOwners, AuthTypeOK
    <3>. QED BY <3>2
  <2>4. ASSUME NEW r \in Requests, ClaimWrite(r) PROVE ActiveOwners' # {}
    <3>. DEFINE invitation == claiming[r].invitation
    <3>1. invitation \in Invitations /\ MayClaim(invitation)
      BY <2>4 DEF ClaimWrite, AccountsInv, RequestsFit, ClaimsFit
    <3>2. role' = [role EXCEPT ![invitation.to] = invitation.role]
          /\ status' = [status EXCEPT ![invitation.to] = "active"]
      BY <2>4 DEF ClaimWrite
    <3>3. CASE invitation.role = "owner"
      <4>1. invitation.to \in ActiveOwners'
        BY <2>a, <3>1, <3>2, <3>3 DEF ActiveOwners, Invitations, AuthTypeOK
      <4>. QED BY <4>1
    <3>4. CASE ~IsLastOwner(invitation.to)
      <4>1. PICK q \in ActiveOwners : q # invitation.to
        BY <3>4, AnotherOwner
      <4>2. q \in ActiveOwners'
        BY <2>a, <3>1, <3>2, <4>1 DEF ActiveOwners, Invitations, AuthTypeOK
      <4>. QED BY <4>2
    <3>. QED BY <3>1, <3>3, <3>4 DEF MayClaim
  <2>5. ASSUME NEW r \in Requests, RequestStep(r) PROVE ActiveOwners' # {}
    BY <2>1, <2>2, <2>3, <2>4, <2>5
    DEF RequestStep, Authenticate, RevokeSession, Invite, ChangePassword, RevokeOtherSessions,
        Logout, Refuse, ClaimRead
  <2>6. CASE RecoverWrite
    BY <2>2, <2>6, <2>a DEF RecoverWrite, AuthTypeOK, Invitations
  <2>. QED BY <2>1, <2>2, <2>5, <2>6
       DEF AuthNext, Login, Bootstrap, Roles, RecoverRead, CliInvite, ExpireCode, ExpireSession
<1>. QED BY <1>1, AccountsInvariance, PTL DEF AuthSpec, LastOwnerRemains

-----------------------------------------------------------------------------
(* Backup and restore.                                                     *)

\* A command has a set of its own, a restore one to restore
TargetsFit ==
    /\ \A c \in Creators : IF stage[c] = "idle" THEN target[c] = Nowhere ELSE target[c] \in Sets
    /\ \A c, d \in Creators : stage[c] # "idle" /\ target[c] = target[d] => c = d
    /\ rpc # "idle" => source \in Sets

\* Until a set is disturbed nothing is saved between the hold and the end of
\* the copy, which is therefore clean
CopiesFit ==
    /\ \A c \in Creators :
          /\ InUse(c) /\ target[c] \notin disturbed => ~running \/ hold = "ready"
          /\ stage[c] = "copying" => target[c] \in clean \cup disturbed
          /\ stage[c] \in {"hold", "wait", "database", "copy", "copying"} => "world" \notin parts[target[c]]
    /\ \A s \in Sets : "world" \in parts[s] => s \in clean \cup disturbed

\* Where a restore is says what it has kept and whether the rest is untouched
RestoreFits ==
    /\ rpc # "idle" => ~running
    /\ rpc \in {"keep database", "keep world"} => ~replaced /\ found = [world |-> world, database |-> database]
    /\ rpc \in {"keep world", "extract", "move away", "move in", "database"}
          => found.database \in recovery.database
    /\ rpc \in {"extract", "move away", "move in", "database"}
          => found.world \in recovery.world \cup {Missing}

-----------------------------------------------------------------------------
(* Types, and whose set is whose.                                          *)

SetTypes ==
    /\ parts \in [Sets -> SUBSET Files]
    /\ content \in [Sets -> [world : WorldVersions, database : WorldVersions]]
    /\ clean \in SUBSET Sets
    /\ disturbed \in SUBSET Sets

CreatorTypes ==
    /\ stage \in [Creators -> Labels]
    /\ target \in [Creators -> Sets \cup {Nowhere}]
    /\ held \in [Creators -> BOOLEAN]
    /\ abandoned \in BOOLEAN

BedrockTypes ==
    /\ running \in BOOLEAN
    /\ hold \in {"off", "asked", "ready"}
    /\ readyLine \in BOOLEAN
    /\ world \in WorldVersions \cup {Missing}
    /\ database \in WorldVersions

RestoreTypes ==
    /\ rpc \in RestoreLabels
    /\ source \in Sets \cup {Nowhere}
    /\ recovery \in [world : SUBSET WorldVersions, database : SUBSET WorldVersions]
    /\ found \in [world : WorldVersions \cup {Missing}, database : WorldVersions]
    /\ replaced \in BOOLEAN
    /\ restores \in 0..MaxRestores

LEMMA BackupTypeParts ==
    /\ BackupTypeOK <=> BedrockTypes /\ SetTypes /\ CreatorTypes /\ RestoreTypes
    /\ BackupTypeOK' <=> BedrockTypes' /\ SetTypes' /\ CreatorTypes' /\ RestoreTypes'
BY DEF BackupTypeOK, BedrockTypes, SetTypes, CreatorTypes, RestoreTypes

LEMMA VersionFacts ==
    /\ 0 \in WorldVersions
    /\ NoContent \in [world : WorldVersions, database : WorldVersions]
    /\ Missing \notin WorldVersions
    /\ \A v \in WorldVersions : v < MaxWrites => v + 1 \in WorldVersions
    /\ \A v \in 0 .. (MaxWrites - 1) : v + 1 \in WorldVersions
BY BoundsAssumption DEF WorldVersions, Missing, NoContent

\* Who goes to a step other than "idle" keeps its set
LEMMA GotoFits ==
    ASSUME BackupTypeOK, TargetsFit, NEW c \in Creators, stage[c] # "idle",
           NEW label \in Labels \ {"idle"}, Goto(c, label), UNCHANGED <<target, rpc, source>>
    PROVE  TargetsFit' /\ stage' \in [Creators -> Labels] /\ target[c] \in Sets
<1>1. stage' \in [Creators -> Labels] /\ \A d \in Creators : stage'[d] = "idle" <=> stage[d] = "idle"
  BY DEF BackupTypeOK, Goto
<1>. QED BY <1>1 DEF TargetsFit

\* Who ends gives up its set
LEMMA EndFits ==
    ASSUME BackupTypeOK, TargetsFit, NEW c \in Creators, Goto(c, "idle"),
           target' = [target EXCEPT ![c] = Nowhere], UNCHANGED <<rpc, source>>
    PROVE  TargetsFit' /\ stage' \in [Creators -> Labels] /\ target' \in [Creators -> Sets \cup {Nowhere}]
<1>1. stage' \in [Creators -> Labels] /\ target' \in [Creators -> Sets \cup {Nowhere}]
  BY DEF BackupTypeOK, Goto, Labels
<1>2. \A d \in Creators \ {c} : stage'[d] = stage[d] /\ target'[d] = target[d]
  BY DEF BackupTypeOK, Goto
<1>3. stage'[c] = "idle" /\ target'[c] = Nowhere
  BY DEF BackupTypeOK, Goto
<1>. QED BY <1>1, <1>2, <1>3, SetsAssumption DEF TargetsFit

\* What a removal leaves of a set has its type
LEMMA RemoveTypes ==
    ASSUME BackupTypeOK, NEW s \in Sets, NEW rest \in SUBSET Files, Discard(s, rest), UNCHANGED disturbed
    PROVE  SetTypes'
BY VersionFacts DEF BackupTypeOK, Discard, SetTypes

BackupKept == BackupTypeOK /\ TargetsFit

LEMMA BackupStart == BackupInit => BackupKept
<1>. SUFFICES ASSUME BackupInit PROVE BackupKept
  OBVIOUS
<1>1. BedrockTypes /\ SetTypes
  BY VersionFacts DEF BackupInit, BedrockTypes, SetTypes
<1>2. CreatorTypes /\ RestoreTypes
  <2>1. CreatorTypes
    BY DEF BackupInit, CreatorTypes, Labels
  <2>2. recovery \in [world : SUBSET WorldVersions, database : SUBSET WorldVersions]
    BY DEF BackupInit
  <2>3. found \in [world : WorldVersions \cup {Missing}, database : WorldVersions]
    BY VersionFacts DEF BackupInit, NoContent
  <2>4. rpc \in RestoreLabels /\ source \in Sets \cup {Nowhere} /\ replaced \in BOOLEAN
    BY DEF BackupInit, RestoreLabels
  <2>5. restores \in 0..MaxRestores
    BY BoundsAssumption DEF BackupInit
  <2>. QED BY <2>1, <2>2, <2>3, <2>4, <2>5 DEF RestoreTypes
<1>3. TargetsFit
  BY DEF BackupInit, TargetsFit
<1>. QED BY <1>1, <1>2, <1>3, BackupTypeParts DEF BackupKept

LEMMA CreatorKeeps ==
    ASSUME BackupKept, NEW c \in Creators, CreateStep(c)
    PROVE  BackupKept'
<1>. USE DEF BackupKept
<1>a. BedrockTypes /\ SetTypes /\ CreatorTypes /\ RestoreTypes
  BY BackupTypeParts
<1>b. ASSUME UNCHANGED restoreVars PROVE RestoreTypes' /\ UNCHANGED <<rpc, source>>
  BY <1>a, <1>b DEF restoreVars, RestoreTypes
<1>c. ASSUME UNCHANGED bedrockVars PROVE BedrockTypes'
  BY <1>a, <1>c DEF bedrockVars, BedrockTypes
<1>d. ASSUME UNCHANGED setVars PROVE SetTypes'
  BY <1>a, <1>d DEF setVars, SetTypes
<1>1. ASSUME NEW s \in Sets, Create(c, s) PROVE BackupKept'
  <2>1. CreatorTypes' /\ SetTypes'
    BY <1>1, <1>a DEF Create, Goto, CreatorTypes, SetTypes, Labels, Steps
  <2>2. \A d \in Creators \ {c} : stage'[d] = stage[d] /\ target'[d] = target[d] /\ target[d] # s
    BY <1>1 DEF Create, Goto, BackupTypeOK
  <2>3. stage'[c] # "idle" /\ target'[c] = s
    BY <1>1 DEF Create, Goto, BackupTypeOK
  <2>4. TargetsFit'
    BY <1>1, <1>b, <2>2, <2>3 DEF Create, TargetsFit
  <2>. QED BY <1>1, <1>b, <1>c, <2>1, <2>4, BackupTypeParts DEF Create
<1>2. ASSUME SaveHold(c) PROVE BackupKept'
  <2>1. PICK label \in {"wait", "undo"} : Goto(c, label)
    BY <1>2 DEF SaveHold
  <2>2. TargetsFit' /\ stage' \in [Creators -> Labels]
    BY <1>2, <1>b, <2>1, GotoFits DEF SaveHold, Labels, Steps
  <2>3. BedrockTypes'
    BY <1>2, <1>a DEF SaveHold, BedrockTypes
  <2>4. CreatorTypes'
    BY <1>2, <1>a, <2>2 DEF SaveHold, CreatorTypes
  <2>. QED BY <1>2, <1>b, <1>d, <2>2, <2>3, <2>4, BackupTypeParts DEF SaveHold
<1>3. ASSUME Ready(c) PROVE BackupKept'
  <2>1. TargetsFit' /\ stage' \in [Creators -> Labels]
    BY <1>3, <1>b, GotoFits DEF Ready, Labels, Steps
  <2>2. CreatorTypes'
    BY <1>3, <1>a, <2>1 DEF Ready, CreatorTypes
  <2>3. target[c] \in Sets
    BY <1>3 DEF Ready, TargetsFit
  <2>4. SetTypes'
    BY <1>3, <1>a, <2>3 DEF Ready, Disturb, SetTypes
  <2>. QED BY <1>3, <1>b, <1>c, <1>d, <2>1, <2>2, <2>4, BackupTypeParts DEF Ready
<1>4. ASSUME CopyDatabase(c) PROVE BackupKept'
  <2>1. TargetsFit' /\ stage' \in [Creators -> Labels] /\ target[c] \in Sets
    BY <1>4, <1>b, GotoFits DEF CopyDatabase, Labels, Steps
  <2>2. CreatorTypes'
    BY <1>4, <1>a, <2>1 DEF CopyDatabase, CreatorTypes
  <2>3. SetTypes'
    BY <1>4, <1>a, <2>1 DEF CopyDatabase, AddPart, SetTypes, BedrockTypes, Files
  <2>. QED BY <1>4, <1>b, <1>c, <2>1, <2>2, <2>3, BackupTypeParts DEF CopyDatabase
<1>5. ASSUME CopyWorld(c) PROVE BackupKept'
  <2>1. TargetsFit' /\ stage' \in [Creators -> Labels] /\ target[c] \in Sets
    BY <1>5, <1>b, GotoFits DEF CopyWorld, Labels, Steps
  <2>2. CreatorTypes'
    BY <1>5, <1>a, <2>1 DEF CopyWorld, CreatorTypes
  <2>3. SetTypes'
    BY <1>5, <1>a, <2>1 DEF CopyWorld, SetTypes, BedrockTypes
  <2>. QED BY <1>5, <1>b, <1>c, <2>1, <2>2, <2>3, BackupTypeParts DEF CopyWorld
<1>6. ASSUME WorldCopied(c) PROVE BackupKept'
  <2>1. TargetsFit' /\ stage' \in [Creators -> Labels] /\ target[c] \in Sets
    BY <1>6, <1>b, GotoFits DEF WorldCopied, Labels, Steps
  <2>2. CreatorTypes'
    BY <1>6, <1>a, <2>1 DEF WorldCopied, CreatorTypes
  <2>3. SetTypes'
    BY <1>6, <1>a, <2>1 DEF WorldCopied, AddPart, SetTypes, Files
  <2>. QED BY <1>6, <1>b, <1>c, <2>1, <2>2, <2>3, BackupTypeParts DEF WorldCopied
<1>7. ASSUME WriteManifest(c) PROVE BackupKept'
  <2>1. TargetsFit' /\ stage' \in [Creators -> Labels] /\ target[c] \in Sets
    BY <1>7, <1>b, GotoFits DEF WriteManifest, Labels
  <2>2. CreatorTypes'
    BY <1>7, <1>a, <2>1 DEF WriteManifest, CreatorTypes
  <2>3. SetTypes'
    BY <1>7, <1>a, <2>1 DEF WriteManifest, AddPart, SetTypes, Files
  <2>. QED BY <1>7, <1>b, <1>c, <2>1, <2>2, <2>3, BackupTypeParts DEF WriteManifest
<1>8. ASSUME CreateRaises(c) PROVE BackupKept'
  <2>1. TargetsFit' /\ stage' \in [Creators -> Labels]
    BY <1>8, <1>b, GotoFits DEF CreateRaises, Labels, Steps
  <2>2. CreatorTypes'
    BY <1>8, <1>a, <2>1 DEF CreateRaises, CreatorTypes
  <2>. QED BY <1>8, <1>b, <1>c, <1>d, <2>1, <2>2, BackupTypeParts DEF CreateRaises
<1>9. ASSUME SaveResume(c) PROVE BackupKept'
  <2>1. TargetsFit' /\ stage' \in [Creators -> Labels] /\ target' \in [Creators -> Sets \cup {Nowhere}]
    BY <1>9, <1>b, EndFits DEF SaveResume
  <2>2. target[c] \in Sets
    BY <1>9 DEF SaveResume, TargetsFit
  <2>3. hold' \in {"off", "asked", "ready"} /\ abandoned' \in BOOLEAN
    BY <1>9, <1>a DEF SaveResume, BedrockTypes, CreatorTypes
  <2>4. disturbed' \in SUBSET Sets
    <3>1. \A d \in Creators : InUse(d) => target[d] \in Sets
      BY DEF InUse, TargetsFit
    <3>. QED BY <1>9, <1>a, <3>1 DEF SaveResume, Disturb, SetTypes
  <2>5. parts' \in [Sets -> SUBSET Files] /\ content' \in [Sets -> [world : WorldVersions, database : WorldVersions]] /\ clean' \in SUBSET Sets
    BY <1>9, <1>a, <2>2, VersionFacts DEF SaveResume, Discard, SetTypes
  <2>. QED BY <1>9, <1>a, <1>b, <2>1, <2>3, <2>4, <2>5, BackupTypeParts DEF SaveResume, SetTypes, CreatorTypes, BedrockTypes
<1>10. ASSUME Kill(c) PROVE BackupKept'
  <2>1. TargetsFit' /\ stage' \in [Creators -> Labels] /\ target' \in [Creators -> Sets \cup {Nowhere}]
    BY <1>10, <1>b, EndFits DEF Kill
  <2>2. target[c] \in Sets
    BY <1>10 DEF Kill, TargetsFit
  <2>3. SetTypes'
    BY <1>10, <1>a, <2>2, VersionFacts DEF Kill, Discard, SetTypes
  <2>4. CreatorTypes'
    BY <1>10, <1>a, <2>1 DEF Kill, CreatorTypes
  <2>. QED BY <1>10, <1>b, <1>c, <2>1, <2>3, <2>4, BackupTypeParts DEF Kill
<1>. QED BY <1>1, <1>2, <1>3, <1>4, <1>5, <1>6, <1>7, <1>8, <1>9, <1>10 DEF CreateStep

LEMMA RestoreKeeps ==
    ASSUME BackupKept, RestoreStep
    PROVE  BackupKept'
<1>. USE DEF BackupKept
<1>a. BedrockTypes /\ SetTypes /\ CreatorTypes /\ RestoreTypes
  BY BackupTypeParts
<1>b. ASSUME UNCHANGED creatorVars, rpc' # "idle" => source' \in Sets PROVE CreatorTypes' /\ TargetsFit'
  BY <1>a, <1>b DEF creatorVars, CreatorTypes, TargetsFit
<1>c. ASSUME UNCHANGED bedrockVars PROVE BedrockTypes'
  BY <1>a, <1>c DEF bedrockVars, BedrockTypes
<1>d. ASSUME UNCHANGED setVars PROVE SetTypes'
  BY <1>a, <1>d DEF setVars, SetTypes
<1>e. ASSUME Torn, Disturb(Copiers), UNCHANGED <<parts, content>> PROVE SetTypes'
  <2>1. \A d \in Copiers : target[d] \in Sets
    BY DEF Copiers, TargetsFit
  <2>. QED BY <1>a, <1>e, <2>1 DEF Torn, Disturb, SetTypes
<1>1. ASSUME NEW s \in Sets, Restore(s) PROVE BackupKept'
  <2>1. restores' \in 0..MaxRestores
    <3>1. restores \in 0..MaxRestores
      BY <1>a DEF RestoreTypes
    <3>2. restores < MaxRestores /\ restores' = restores + 1
      BY <1>1 DEF Restore
    <3>. QED BY <3>1, <3>2, BoundsAssumption
  <2>2. found' \in [world : WorldVersions \cup {Missing}, database : WorldVersions]
    BY <1>1, <1>a DEF Restore, BedrockTypes
  <2>3. RestoreTypes'
    BY <1>1, <1>a, <2>1, <2>2 DEF Restore, RGoto, RestoreTypes, RestoreLabels
  <2>. QED BY <1>1, <1>b, <1>c, <1>d, <2>3, BackupTypeParts DEF Restore
<1>2. CASE KeepDatabase
  <2>1. RestoreTypes'
    BY <1>2, <1>a DEF KeepDatabase, RGoto, RestoreTypes, RestoreLabels, BedrockTypes
  <2>. QED BY <1>2, <1>b, <1>c, <1>d, <2>1, BackupTypeParts DEF KeepDatabase, TargetsFit
<1>3. CASE KeepWorld
  <2>1. KeptWorld \subseteq WorldVersions
    BY <1>a DEF KeptWorld, BedrockTypes
  <2>2. RestoreTypes'
    BY <1>3, <1>a, <2>1 DEF KeepWorld, RGoto, RestoreTypes, RestoreLabels
  <2>. QED BY <1>3, <1>b, <1>c, <1>d, <2>2, BackupTypeParts DEF KeepWorld, TargetsFit
<1>4. CASE Extract
  <2>1. RestoreTypes'
    BY <1>4, <1>a DEF Extract, RGoto, RestoreTypes, RestoreLabels
  <2>. QED BY <1>4, <1>b, <1>c, <1>d, <2>1, BackupTypeParts DEF Extract, TargetsFit
<1>5. CASE MoveAway
  <2>1. RestoreTypes' /\ BedrockTypes'
    BY <1>5, <1>a DEF MoveAway, RGoto, RestoreTypes, RestoreLabels, BedrockTypes
  <2>. QED BY <1>5, <1>b, <1>e, <2>1, BackupTypeParts DEF MoveAway, TargetsFit
<1>6. CASE MoveIn
  <2>1. content[source].world \in WorldVersions
    BY <1>6, <1>a DEF MoveIn, TargetsFit, SetTypes
  <2>2. RestoreTypes' /\ BedrockTypes'
    BY <1>6, <1>a, <2>1 DEF MoveIn, RGoto, RestoreTypes, RestoreLabels, BedrockTypes
  <2>. QED BY <1>6, <1>b, <1>e, <2>2, BackupTypeParts DEF MoveIn, TargetsFit
<1>7. CASE ReplaceDatabase
  <2>1. content[source].database \in WorldVersions
    BY <1>7, <1>a DEF ReplaceDatabase, TargetsFit, SetTypes
  <2>2. RestoreTypes' /\ BedrockTypes'
    BY <1>7, <1>a, <2>1 DEF ReplaceDatabase, RGoto, RestoreTypes, RestoreLabels, BedrockTypes
  <2>. QED BY <1>7, <1>b, <1>d, <2>2, BackupTypeParts DEF ReplaceDatabase, RGoto
<1>8. CASE RestoreStops
  <2>1. RestoreTypes'
    BY <1>8, <1>a DEF RestoreStops, RGoto, RestoreTypes, RestoreLabels
  <2>. QED BY <1>8, <1>b, <1>c, <1>d, <2>1, BackupTypeParts DEF RestoreStops, RGoto
<1>. QED BY <1>1, <1>2, <1>3, <1>4, <1>5, <1>6, <1>7, <1>8 DEF RestoreStep

LEMMA BackupStep == BackupKept /\ [BackupNext]_backupVars => BackupKept'
<1>. SUFFICES ASSUME BackupKept, [BackupNext]_backupVars PROVE BackupKept'
  OBVIOUS
<1>. USE DEF BackupKept
<1>a. BedrockTypes /\ SetTypes /\ CreatorTypes /\ RestoreTypes
  BY BackupTypeParts
<1>b. ASSUME UNCHANGED <<creatorVars, restoreVars>> PROVE CreatorTypes' /\ RestoreTypes' /\ TargetsFit'
  BY <1>a, <1>b DEF creatorVars, restoreVars, CreatorTypes, RestoreTypes, TargetsFit
<1>1. CASE UNCHANGED backupVars
  <2>1. BedrockTypes' /\ SetTypes'
    BY <1>1, <1>a DEF backupVars, bedrockVars, setVars, BedrockTypes, SetTypes
  <2>. QED BY <1>1, <1>b, <2>1, BackupTypeParts DEF backupVars
<1>2. CASE BedrockSaves
  <2>1. BedrockTypes' /\ SetTypes'
    BY <1>2, <1>a, VersionFacts DEF BedrockSaves, Torn, BedrockTypes, SetTypes
  <2>. QED BY <1>2, <1>b, <2>1, BackupTypeParts DEF BedrockSaves
<1>3. CASE BedrockIsReady
  <2>1. BedrockTypes' /\ SetTypes'
    BY <1>3, <1>a DEF BedrockIsReady, setVars, BedrockTypes, SetTypes
  <2>. QED BY <1>3, <1>b, <2>1, BackupTypeParts DEF BedrockIsReady
<1>4. CASE BedrockStopsOrStarts
  <2>1. \A d \in Creators : InUse(d) => target[d] \in Sets
    BY DEF InUse, TargetsFit
  <2>2. BedrockTypes' /\ SetTypes'
    BY <1>4, <1>a, <2>1 DEF BedrockStopsOrStarts, Disturb, BedrockTypes, SetTypes
  <2>. QED BY <1>4, <1>b, <2>2, BackupTypeParts DEF BedrockStopsOrStarts
<1>5. CASE DatabaseWrites
  <2>1. BedrockTypes' /\ SetTypes'
    BY <1>5, <1>a, VersionFacts DEF DatabaseWrites, setVars, BedrockTypes, SetTypes
  <2>. QED BY <1>5, <1>b, <2>1, BackupTypeParts DEF DatabaseWrites
<1>6. ASSUME NEW s \in Sets, Prune(s) PROVE BackupKept'
  <2>1. SetTypes'
    BY <1>6, RemoveTypes DEF Prune, Files
  <2>2. BedrockTypes'
    BY <1>6, <1>a DEF Prune, bedrockVars, BedrockTypes
  <2>. QED BY <1>6, <1>b, <2>1, <2>2, BackupTypeParts DEF Prune
<1>. QED BY <1>1, <1>2, <1>3, <1>4, <1>5, <1>6, CreatorKeeps, RestoreKeeps DEF BackupNext

LEMMA BackupKeeping == BackupSpec => []BackupKept
BY BackupStart, BackupStep, PTL DEF BackupSpec

\* Bedrock, the sets, the commands and the restore keep their types
THEOREM BackupTypeCorrect == BackupSpec => []BackupTypeOK
<1>1. BackupKept => BackupTypeOK
  BY DEF BackupKept
<1>. QED BY <1>1, BackupKeeping, PTL

-----------------------------------------------------------------------------
(* The hold.                                                               *)

LEMMA HoldStep == BackupTypeOK /\ SavesResume /\ [BackupNext]_backupVars => SavesResume'
<1>. SUFFICES ASSUME BackupTypeOK, SavesResume, [BackupNext]_backupVars PROVE SavesResume'
  OBVIOUS
<1>1. CASE UNCHANGED <<hold, abandoned, held>>
  BY <1>1 DEF SavesResume
<1>2. CASE BedrockIsReady
  BY <1>2 DEF BedrockIsReady, creatorVars, SavesResume
<1>3. CASE BedrockStopsOrStarts
  BY <1>3 DEF BedrockStopsOrStarts, SavesResume
<1>4. ASSUME NEW c \in Creators, SaveHold(c) PROVE SavesResume'
  BY <1>4 DEF SaveHold, SavesResume, BackupTypeOK
<1>5. ASSUME NEW c \in Creators, SaveResume(c) PROVE SavesResume'
  <2>1. CASE held[c]
    BY <1>5, <2>1 DEF SaveResume, ResumedAt, SavesResume
  <2>2. CASE ~held[c]
    <3>1. hold' = hold /\ abandoned' = abandoned /\ held' = [held EXCEPT ![c] = FALSE]
      BY <1>5, <2>2 DEF SaveResume
    <3>2. \A d \in Creators : held[d] => held'[d]
      BY <2>2, <3>1 DEF BackupTypeOK
    <3>. QED BY <3>1, <3>2 DEF SavesResume
  <2>. QED BY <2>1, <2>2
<1>6. ASSUME NEW c \in Creators, Kill(c) PROVE SavesResume'
  <2>1. hold' = hold /\ abandoned' = (abandoned \/ held[c]) /\ held' = [held EXCEPT ![c] = FALSE]
    BY <1>6 DEF Kill, bedrockVars
  <2>2. \A d \in Creators \ {c} : held'[d] = held[d]
    BY <2>1 DEF BackupTypeOK
  <2>. QED BY <2>1, <2>2 DEF SavesResume
<1>7. ASSUME NEW c \in Creators, CreateStep(c) PROVE SavesResume'
  BY <1>1, <1>4, <1>5, <1>6, <1>7
  DEF CreateStep, Create, Ready, CopyDatabase, CopyWorld, WorldCopied, WriteManifest, CreateRaises, bedrockVars
<1>8. ASSUME NEW s \in Sets, Prune(s) PROVE SavesResume'
  BY <1>1, <1>8 DEF Prune, bedrockVars, creatorVars
<1>9. CASE RestoreStep
  BY <1>1, <1>9 DEF RestoreStep, Restore, KeepDatabase, KeepWorld, Extract, MoveAway, MoveIn,
       ReplaceDatabase, RestoreStops, bedrockVars, creatorVars
<1>10. CASE BedrockSaves \/ DatabaseWrites \/ UNCHANGED backupVars
  BY <1>1, <1>10 DEF BedrockSaves, DatabaseWrites, backupVars, bedrockVars, creatorVars
<1>. QED BY <1>2, <1>3, <1>7, <1>8, <1>9, <1>10 DEF BackupNext

\* Whichever step of which command fails, only one that was killed or lost its
\* console leaves the saves held
THEOREM SavesAreResumed == BackupSpec => []SavesResume
<1>1. BackupInit => SavesResume
  BY DEF BackupInit, SavesResume
<1>. QED BY <1>1, HoldStep, BackupTypeCorrect, PTL DEF BackupSpec

-----------------------------------------------------------------------------
(* The restore.                                                            *)

LEMMA RestoreStepFits == BackupTypeOK /\ RestoreFits /\ NothingIsLost /\ [BackupNext]_backupVars => RestoreFits' /\ NothingIsLost'
<1>. SUFFICES ASSUME BackupTypeOK, RestoreFits, NothingIsLost, [BackupNext]_backupVars PROVE RestoreFits' /\ NothingIsLost'
  OBVIOUS
<1>. USE DEF RestoreFits, NothingIsLost, restoreVars, bedrockVars
<1>1. CASE UNCHANGED <<restoreVars, running, world, database>>
  BY <1>1
<1>2. CASE rpc = "idle" /\ UNCHANGED restoreVars
  BY <1>2
<1>3. CASE BedrockSaves
  <2>1. rpc = "idle"
    BY <1>3 DEF BedrockSaves
  <2>. QED BY <1>2, <1>3, <2>1 DEF BedrockSaves
<1>4. ASSUME NEW c \in Creators, CreateStep(c) PROVE RestoreFits' /\ NothingIsLost'
  BY <1>1, <1>4 DEF CreateStep, Create, SaveHold, Ready, CopyDatabase, CopyWorld, WorldCopied,
       WriteManifest, CreateRaises, SaveResume, Kill
<1>5. ASSUME NEW s \in Sets, Restore(s) PROVE RestoreFits' /\ NothingIsLost'
  BY <1>5 DEF Restore, RGoto
<1>6. CASE KeepDatabase
  <2>1. ~replaced /\ found = [world |-> world, database |-> database] /\ ~running
    BY <1>6 DEF KeepDatabase
  <2>2. rpc' = "keep world" /\ UNCHANGED <<found, replaced, running, world, database>>
    BY <1>6 DEF KeepDatabase, RGoto
  <2>3. found.database = database
    BY <2>1
  <2>4. recovery'.database = recovery.database \cup {database}
    BY <1>6 DEF KeepDatabase, BackupTypeOK
  <2>. QED BY <2>1, <2>2, <2>3, <2>4
<1>7. CASE KeepWorld
  <2>1. ~replaced /\ found = [world |-> world, database |-> database] /\ ~running
        /\ found.database \in recovery.database
    BY <1>7 DEF KeepWorld
  <2>2. rpc' = "extract" /\ UNCHANGED <<found, replaced, running>>
    BY <1>7 DEF KeepWorld, RGoto
  <2>3. recovery'.database = recovery.database /\ recovery'.world = recovery.world \cup KeptWorld
    BY <1>7 DEF KeepWorld, BackupTypeOK
  <2>4. found.world = world
    BY <2>1
  <2>. QED BY <2>1, <2>2, <2>3, <2>4 DEF KeptWorld
<1>8. CASE Extract \/ MoveAway \/ MoveIn \/ ReplaceDatabase \/ RestoreStops
  <2>1. UNCHANGED <<recovery, found, running>>
    BY <1>8 DEF Extract, MoveAway, MoveIn, ReplaceDatabase, RestoreStops
  <2>2. CASE Extract \/ MoveAway \/ MoveIn
    <3>1. rpc \in {"extract", "move away", "move in"} /\ rpc' \in {"move away", "move in", "database"}
      BY <2>2 DEF Extract, MoveAway, MoveIn, RGoto
    <3>2. found.database \in recovery.database /\ found.world \in recovery.world \cup {Missing} /\ ~running
      BY <3>1
    <3>. QED BY <2>1, <3>1, <3>2
  <2>3. CASE ReplaceDatabase \/ RestoreStops
    <3>1. rpc' = "idle" /\ replaced' = replaced
      BY <2>3 DEF ReplaceDatabase, RestoreStops, RGoto
    <3>. QED BY <2>1, <3>1
  <2>. QED BY <1>8, <2>2, <2>3
<1>9. CASE RestoreStep
  BY <1>5, <1>6, <1>7, <1>8, <1>9 DEF RestoreStep
<1>10. CASE BedrockIsReady \/ (\E s \in Sets : Prune(s)) \/ UNCHANGED backupVars
  BY <1>1, <1>10 DEF BedrockIsReady, Prune, backupVars
<1>11. CASE BedrockStopsOrStarts \/ DatabaseWrites
  BY <1>2, <1>11 DEF BedrockStopsOrStarts, DatabaseWrites
<1>. QED BY <1>3, <1>4, <1>9, <1>10, <1>11 DEF BackupNext

\* Wherever a restore stops, what it replaced is under pre-restore
THEOREM NothingRestoredIsLost == BackupSpec => []NothingIsLost
<1>1. BackupInit => RestoreFits /\ NothingIsLost
  BY DEF BackupInit, RestoreFits, NothingIsLost
<1>. QED BY <1>1, RestoreStepFits, BackupTypeCorrect, PTL DEF BackupSpec

-----------------------------------------------------------------------------
(* The copies.                                                             *)

\* What no copy depends on
LEMMA CopiesKept ==
    ASSUME CopiesFit, UNCHANGED <<parts, clean, disturbed, stage, target, running, hold>>
    PROVE  CopiesFit'
BY DEF CopiesFit, InUse

\* A command c that changes no other command's set, and whose own fits
LEMMA CreatorFits ==
    ASSUME BackupKept, BackupKept', CopiesFit, NEW c \in Creators,
           NEW s \in Sets,
           target[c] \in {s, Nowhere}, target'[c] \in {s, Nowhere},
           \A d \in Creators \ {c} : stage'[d] = stage[d] /\ target'[d] = target[d] /\ target[d] # s,
           \A u \in Sets \ {s} : parts'[u] = parts[u] /\ (u \in clean => u \in clean')
                                 /\ (u \in disturbed => u \in disturbed'),
           \A d \in Creators \ {c} : InUse(d) /\ target[d] \notin disturbed' => (~running' \/ hold' = "ready") \/ (running' = running /\ hold' = hold),
           InUse(c)' /\ s \notin disturbed' => ~running' \/ hold' = "ready",
           stage'[c] = "copying" => s \in clean' \cup disturbed',
           stage'[c] \in {"hold", "wait", "database", "copy", "copying"} => "world" \notin parts'[s],
           "world" \in parts'[s] => s \in clean' \cup disturbed'
    PROVE  CopiesFit'
<1>1. ASSUME NEW d \in Creators \ {c}
      PROVE  /\ InUse(d)' /\ target'[d] \notin disturbed' => ~running' \/ hold' = "ready"
             /\ stage'[d] = "copying" => target'[d] \in clean' \cup disturbed'
             /\ stage'[d] \in {"hold", "wait", "database", "copy", "copying"} => "world" \notin parts'[target'[d]]
  <2>1. stage[d] # "idle" => target[d] \in Sets \ {s}
    BY DEF BackupKept, TargetsFit
  <2>2. InUse(d)' => InUse(d) /\ stage[d] # "idle"
    BY DEF InUse
  <2>. QED BY <2>1, <2>2 DEF CopiesFit
<1>2. stage'[c] # "idle" => target'[c] = s
  BY SetsAssumption DEF BackupKept, TargetsFit
<1>3. /\ InUse(c)' /\ target'[c] \notin disturbed' => ~running' \/ hold' = "ready"
      /\ stage'[c] = "copying" => target'[c] \in clean' \cup disturbed'
      /\ stage'[c] \in {"hold", "wait", "database", "copy", "copying"} => "world" \notin parts'[target'[c]]
  BY <1>2 DEF InUse
<1>4. \A u \in Sets : "world" \in parts'[u] => u \in clean' \cup disturbed'
  BY DEF CopiesFit
<1>. QED BY <1>1, <1>3, <1>4 DEF CopiesFit

LEMMA CreatorCopies ==
    ASSUME BackupKept, BackupKept', CopiesFit, NEW c \in Creators, CreateStep(c)
    PROVE  CopiesFit'
<1>a. target[c] \in Sets <=> stage[c] # "idle"
  BY SetsAssumption DEF BackupKept, TargetsFit
<1>b. ASSUME stage[c] # "idle"
      PROVE  \A d \in Creators \ {c} : target[d] # target[c]
  BY <1>b DEF BackupKept, TargetsFit
<1>c. BackupTypeOK
  BY DEF BackupKept
<1>d. /\ InUse(c) /\ target[c] \notin disturbed => ~running \/ hold = "ready"
      /\ stage[c] = "copying" => target[c] \in clean \cup disturbed
      /\ stage[c] \in {"hold", "wait", "database", "copy", "copying"} => "world" \notin parts[target[c]]
      /\ \A s \in Sets : "world" \in parts[s] => s \in clean \cup disturbed
  BY DEF CopiesFit
<1>e. ASSUME NEW label, Goto(c, label)
      PROVE  stage'[c] = label /\ \A d \in Creators \ {c} : stage'[d] = stage[d]
  BY <1>c, <1>e DEF BackupTypeOK, Goto
<1>1. ASSUME NEW s \in Sets, Create(c, s) PROVE CopiesFit'
  <2>1. /\ stage'[c] = IF running THEN "hold" ELSE "database"
        /\ \A d \in Creators \ {c} : stage'[d] = stage[d]
        /\ target'[c] = s /\ target[c] = Nowhere
        /\ \A d \in Creators \ {c} : target'[d] = target[d] /\ target[d] # s
    BY <1>1, <1>c, <1>e DEF Create, BackupTypeOK, BackupKept, TargetsFit
  <2>2. parts[s] = {} /\ UNCHANGED <<parts, clean, running, hold>> /\ disturbed' = disturbed \ {s}
    BY <1>1 DEF Create, bedrockVars
  <2>3. InUse(c)' => ~running'
    BY <2>1, <2>2 DEF InUse
  <2>. QED BY <2>1, <2>2, <2>3, CreatorFits
<1>2. ASSUME SaveHold(c) PROVE CopiesFit'
  <2>1. target[c] \in Sets /\ stage[c] = "hold" /\ running
    BY <1>2, <1>a DEF SaveHold
  <2>2. stage'[c] \in {"wait", "undo"} /\ \A d \in Creators \ {c} : stage'[d] = stage[d]
    BY <1>2, <1>e DEF SaveHold
  <2>3. UNCHANGED <<target, parts, clean, disturbed, running>> /\ (hold = "ready" => hold' = "ready")
    BY <1>2 DEF SaveHold, setVars
  <2>4. \A d \in Creators : InUse(d) /\ target[d] \notin disturbed => hold = "ready"
    BY <2>1 DEF CopiesFit
  <2>. QED BY <1>b, <1>d, <2>1, <2>2, <2>3, <2>4, CreatorFits DEF InUse
<1>3. ASSUME Ready(c) PROVE CopiesFit'
  <2>1. target[c] \in Sets /\ stage[c] = "wait"
    BY <1>3, <1>a DEF Ready
  <2>2. stage'[c] = "database" /\ \A d \in Creators \ {c} : stage'[d] = stage[d]
    BY <1>3, <1>e DEF Ready
  <2>3. UNCHANGED <<target, parts, clean, running, hold>> /\ disturbed \subseteq disturbed'
    BY <1>3 DEF Ready, Disturb, bedrockVars
  <2>4. hold = "ready" \/ target[c] \in disturbed'
    BY <1>3 DEF Ready, WaitUntilReady, Disturb
  <2>. QED BY <1>b, <1>d, <2>1, <2>2, <2>3, <2>4, CreatorFits
<1>4. ASSUME CopyDatabase(c) PROVE CopiesFit'
  <2>1. target[c] \in Sets /\ stage[c] = "database"
    BY <1>4, <1>a DEF CopyDatabase
  <2>2. stage'[c] = "copy" /\ \A d \in Creators \ {c} : stage'[d] = stage[d]
    BY <1>4, <1>e DEF CopyDatabase
  <2>3. UNCHANGED <<target, clean, disturbed, running, hold>>
    BY <1>4 DEF CopyDatabase, bedrockVars
  <2>4. /\ parts'[target[c]] = parts[target[c]] \cup {"database"}
        /\ \A u \in Sets \ {target[c]} : parts'[u] = parts[u]
    BY <1>4, <1>c, <2>1 DEF CopyDatabase, AddPart, BackupTypeOK
  <2>5. InUse(c)
    BY <2>1 DEF InUse
  <2>. QED BY <1>b, <1>d, <2>1, <2>2, <2>3, <2>4, <2>5, CreatorFits
<1>5. ASSUME CopyWorld(c) PROVE CopiesFit'
  <2>1. target[c] \in Sets /\ stage[c] = "copy"
    BY <1>5, <1>a DEF CopyWorld
  <2>2. stage'[c] = "copying" /\ \A d \in Creators \ {c} : stage'[d] = stage[d]
    BY <1>5, <1>e DEF CopyWorld
  <2>3. UNCHANGED <<target, parts, disturbed, running, hold>> /\ clean' = clean \cup {target[c]}
    BY <1>5 DEF CopyWorld, bedrockVars
  <2>4. InUse(c)
    BY <2>1 DEF InUse
  <2>. QED BY <1>b, <1>d, <2>1, <2>2, <2>3, <2>4, CreatorFits
<1>6. ASSUME WorldCopied(c) PROVE CopiesFit'
  <2>1. target[c] \in Sets /\ stage[c] = "copying"
    BY <1>6, <1>a DEF WorldCopied
  <2>2. stage'[c] = "manifest" /\ \A d \in Creators \ {c} : stage'[d] = stage[d]
    BY <1>6, <1>e DEF WorldCopied
  <2>3. UNCHANGED <<target, clean, disturbed, running, hold>>
    BY <1>6 DEF WorldCopied, bedrockVars
  <2>4. \A u \in Sets \ {target[c]} : parts'[u] = parts[u]
    BY <1>6, <1>c DEF WorldCopied, AddPart, BackupTypeOK
  <2>5. ~InUse(c)'
    BY <2>2 DEF InUse
  <2>. QED BY <1>b, <1>d, <2>1, <2>2, <2>3, <2>4, <2>5, CreatorFits
<1>7. ASSUME WriteManifest(c) PROVE CopiesFit'
  <2>1. target[c] \in Sets
    BY <1>7, <1>a DEF WriteManifest
  <2>2. stage'[c] = "resume" /\ \A d \in Creators \ {c} : stage'[d] = stage[d]
    BY <1>7, <1>e DEF WriteManifest
  <2>3. UNCHANGED <<target, clean, disturbed, running, hold>>
    BY <1>7 DEF WriteManifest, bedrockVars
  <2>4. /\ "world" \in parts'[target[c]] => "world" \in parts[target[c]]
        /\ \A u \in Sets \ {target[c]} : parts'[u] = parts[u]
    BY <1>7, <1>c, <2>1 DEF WriteManifest, AddPart, BackupTypeOK
  <2>5. ~InUse(c)' /\ stage[c] # "idle"
    BY <1>7, <2>2 DEF InUse, WriteManifest
  <2>. QED BY <1>b, <1>d, <2>1, <2>2, <2>3, <2>4, <2>5, CreatorFits
<1>8. ASSUME CreateRaises(c) PROVE CopiesFit'
  <2>1. target[c] \in Sets /\ stage[c] # "idle"
    BY <1>8, <1>a DEF CreateRaises, Steps
  <2>2. stage'[c] = "undo" /\ \A d \in Creators \ {c} : stage'[d] = stage[d]
    BY <1>8, <1>e DEF CreateRaises
  <2>3. UNCHANGED <<target, parts, clean, disturbed, running, hold>>
    BY <1>8 DEF CreateRaises, bedrockVars, setVars
  <2>4. ~InUse(c)'
    BY <2>2 DEF InUse
  <2>. QED BY <1>b, <1>d, <2>1, <2>2, <2>3, <2>4, CreatorFits
<1>9. ASSUME SaveResume(c) PROVE CopiesFit'
  <2>1. target[c] \in Sets /\ stage[c] # "idle"
    BY <1>9, <1>a DEF SaveResume
  <2>2. stage'[c] = "idle" /\ \A d \in Creators \ {c} : stage'[d] = stage[d]
    BY <1>9, <1>e DEF SaveResume
  <2>3. target'[c] = Nowhere /\ \A d \in Creators \ {c} : target'[d] = target[d]
    BY <1>9, <1>c DEF SaveResume, BackupTypeOK
  <2>4. running' = running /\ disturbed \subseteq disturbed'
        /\ (hold' = hold \/ \A d \in Creators \ {c} : InUse(d) => target[d] \in disturbed')
    BY <1>9 DEF SaveResume, Disturb
  <2>5. /\ \A u \in Sets \ {target[c]} : parts'[u] = parts[u] /\ (u \in clean => u \in clean')
        /\ "world" \in parts'[target[c]] => parts' = parts /\ clean' = clean
    BY <1>9, <1>c, <2>1 DEF SaveResume, Discard, BackupTypeOK
  <2>6. ~InUse(c)'
    BY <2>2 DEF InUse
  <2>. QED BY <1>b, <1>d, <2>1, <2>2, <2>3, <2>4, <2>5, <2>6, CreatorFits
<1>10. ASSUME Kill(c) PROVE CopiesFit'
  <2>1. target[c] \in Sets /\ stage[c] # "idle"
    BY <1>10, <1>a DEF Kill
  <2>2. stage'[c] = "idle" /\ \A d \in Creators \ {c} : stage'[d] = stage[d]
    BY <1>10, <1>e DEF Kill
  <2>3. target'[c] = Nowhere /\ \A d \in Creators \ {c} : target'[d] = target[d]
    BY <1>10, <1>c DEF Kill, BackupTypeOK
  <2>4. UNCHANGED <<running, hold, disturbed>>
    BY <1>10 DEF Kill, bedrockVars
  <2>5. /\ \A u \in Sets \ {target[c]} : parts'[u] = parts[u] /\ (u \in clean => u \in clean')
        /\ "world" \in parts'[target[c]] => parts' = parts /\ clean' = clean
    BY <1>10, <1>c, <2>1 DEF Kill, Discard, BackupTypeOK
  <2>6. ~InUse(c)'
    BY <2>2 DEF InUse
  <2>. QED BY <1>b, <1>d, <2>1, <2>2, <2>3, <2>4, <2>5, <2>6, CreatorFits
<1>. QED BY <1>1, <1>2, <1>3, <1>4, <1>5, <1>6, <1>7, <1>8, <1>9, <1>10 DEF CreateStep

LEMMA CopiesStep == BackupKept /\ BackupKept' /\ CopiesFit /\ [BackupNext]_backupVars => CopiesFit'
<1>. SUFFICES ASSUME BackupKept, BackupKept', CopiesFit, [BackupNext]_backupVars PROVE CopiesFit'
  OBVIOUS
<1>1. CASE DatabaseWrites \/ (\E s \in Sets : Restore(s)) \/ KeepDatabase \/ KeepWorld \/ Extract
           \/ ReplaceDatabase \/ RestoreStops \/ UNCHANGED backupVars
  BY <1>1, CopiesKept
  DEF DatabaseWrites, Restore, KeepDatabase, KeepWorld, Extract,
      ReplaceDatabase, RestoreStops, backupVars, bedrockVars, setVars, creatorVars
<1>6. CASE MoveAway \/ MoveIn
  <2>1. UNCHANGED <<parts, stage, target, running, hold>>
        /\ clean' = clean \ {target[c] : c \in Copiers}
        /\ disturbed' = disturbed \cup {target[c] : c \in Copiers}
    BY <1>6 DEF MoveAway, MoveIn, Torn, Disturb, creatorVars
  <2>. QED BY <2>1 DEF CopiesFit, InUse
<1>2. CASE BedrockSaves
  <2>1. \A c \in Creators : stage[c] = "copying" => target[c] \in disturbed
    BY <1>2 DEF BedrockSaves, CopiesFit, InUse
  <2>2. UNCHANGED <<parts, disturbed, stage, target, running, hold>>
        /\ clean' = clean \ {target[c] : c \in Copiers}
    BY <1>2 DEF BedrockSaves, Torn, creatorVars
  <2>. QED BY <2>1, <2>2 DEF CopiesFit, Copiers, InUse
<1>3. CASE BedrockIsReady
  BY <1>3 DEF BedrockIsReady, CopiesFit, InUse, setVars, creatorVars
<1>4. CASE BedrockStopsOrStarts
  <2>1. UNCHANGED <<parts, clean, stage, target>> /\ disturbed \subseteq disturbed'
        /\ \A c \in Creators : InUse(c) => target[c] \in disturbed'
    BY <1>4 DEF BedrockStopsOrStarts, Disturb, creatorVars
  <2>. QED BY <2>1 DEF CopiesFit, InUse
<1>5. ASSUME NEW s \in Sets, Prune(s) PROVE CopiesFit'
  <2>1. UNCHANGED <<disturbed, stage, target, running, hold>> /\ clean' = clean \ {s}
        /\ \A c \in Creators : target[c] # s
    BY <1>5 DEF Prune, Discard, bedrockVars, creatorVars
  <2>2. "world" \notin parts'[s] /\ \A u \in Sets \ {s} : parts'[u] = parts[u]
    BY <1>5 DEF Prune, Discard, BackupKept, BackupTypeOK
  <2>3. \A c \in Creators : stage[c] # "idle" => target[c] \in Sets
    BY DEF BackupKept, TargetsFit
  <2>. QED BY <2>1, <2>2, <2>3 DEF CopiesFit, InUse
<1>. QED BY <1>1, <1>2, <1>3, <1>4, <1>5, <1>6, CreatorCopies DEF BackupNext, RestoreStep

\* The world in a set was neither written nor moved while it was copied, unless
\* Bedrock was stopped or started, or another command came between
THEOREM ArchivesAreConsistent == BackupSpec => []ArchiveIsConsistent
<1>1. BackupInit => CopiesFit
  BY DEF BackupInit, CopiesFit, InUse
<1>2. CopiesFit => ArchiveIsConsistent
  BY DEF CopiesFit, ArchiveIsConsistent
<1>. QED BY <1>1, <1>2, CopiesStep, BackupKeeping, PTL DEF BackupSpec

-----------------------------------------------------------------------------
(* Migrations of the schema.                                               *)

\* A process that migrates has behind it what it counted, one that serves
\* everything it knows
Migrated(p) ==
    /\ at[p] = "migrate" => 1 .. reached[p] \subseteq schema
    /\ at[p] = "serving" => 1 .. Supported(p) \subseteq schema

MigratedInv ==
    /\ SchemaCoversVersion
    /\ \A p \in Processes : Migrated(p)

\* Both releases know migrations that exist
LEMMA SupportedType ==
    \A p \in Processes : Supported(p) \in Versions
BY MigrationsAssumption DEF Supported, Versions

-----------------------------------------------------------------------------

\* The file's version and what a process remembers of it stay between 0 and
\* the last migration
THEOREM SchemaTypeCorrect == SchemaSpec => []SchemaTypeOK
<1>1. SchemaInit => SchemaTypeOK
  <2>. SUFFICES ASSUME SchemaInit PROVE SchemaTypeOK
    OBVIOUS
  <2>1. version \in Versions /\ schema \subseteq Migrations /\ used \in BOOLEAN
    <3>1. version \in Versions /\ schema = 1 .. version
      BY DEF SchemaInit
    <3>2. schema \subseteq Migrations
      BY <3>1, MigrationsAssumption DEF Versions, Migrations
    <3>3. used \in BOOLEAN
      <4>1. CASE version = 0
        BY <4>1 DEF SchemaInit
      <4>2. CASE version # 0
        BY <4>2 DEF SchemaInit
      <4>. QED BY <4>1, <4>2
    <3>. QED BY <3>1, <3>2, <3>3
  <2>2. backups \in [Versions -> {[is |-> "none"], [is |-> "empty"]} \cup [is : {"copy"}, of : SUBSET Migrations]]
    BY DEF SchemaInit
  <2>3. 0 \in Versions
    BY MigrationsAssumption DEF Versions
  <2>. QED BY <2>1, <2>2, <2>3 DEF SchemaInit, SchemaTypeOK
<1>2. SchemaTypeOK /\ [SchemaNext]_schemaVars => SchemaTypeOK'
  <2>. SUFFICES ASSUME SchemaTypeOK, [SchemaNext]_schemaVars PROVE SchemaTypeOK'
    OBVIOUS
  <2>. USE DEF SchemaTypeOK
  <2>1. CASE UNCHANGED schemaVars
    BY <2>1 DEF schemaVars, fileVars, readVars
  <2>2. ASSUME NEW p \in Processes, Start(p) PROVE SchemaTypeOK'
    BY <2>2 DEF Start, Moves, fileVars
  <2>3. ASSUME NEW p \in Processes, Backup(p) PROVE SchemaTypeOK'
    BY <2>3 DEF Backup, Moves, fileVars, readVars
  <2>4. ASSUME NEW p \in Processes, Copy(p) PROVE SchemaTypeOK'
    BY <2>4 DEF Copy, Moves, fileVars, readVars
  <2>5. ASSUME NEW p \in Processes, Plan(p) PROVE SchemaTypeOK'
    BY <2>5 DEF Plan, Moves, fileVars
  <2>6. ASSUME NEW p \in Processes, Migrate(p) PROVE SchemaTypeOK'
    <3>1. reached[p] + 1 \in Versions /\ reached[p] + 1 \in Migrations
      BY <2>6, SupportedType, MigrationsAssumption DEF Migrate, Versions, Migrations
    <3>2. version' \in Versions /\ schema' \subseteq Migrations /\ used' \in BOOLEAN
      BY <2>6, <3>1 DEF Migrate
    <3>3. reached' \in [Processes -> Versions]
      BY <2>6, <3>1 DEF Migrate
    <3>. QED BY <2>6, <3>2, <3>3 DEF Migrate
  <2>7. ASSUME NEW p \in Processes, MigrationFails(p) PROVE SchemaTypeOK'
    BY <2>7 DEF MigrationFails, RolledBack, Moves, fileVars, readVars
  <2>8. ASSUME NEW p \in Processes, Serve(p) PROVE SchemaTypeOK'
    BY <2>8 DEF Serve, Moves, fileVars, readVars
  <2>9. ASSUME NEW p \in Processes, Stop(p) \/ Die(p) PROVE SchemaTypeOK'
    BY <2>9 DEF Stop, Die, Moves, fileVars, readVars
  <2>. QED BY <2>1, <2>2, <2>3, <2>4, <2>5, <2>6, <2>7, <2>8, <2>9 DEF SchemaNext
<1>. QED BY <1>1, <1>2, PTL DEF SchemaSpec

-----------------------------------------------------------------------------

\* A step that leaves the file alone and brings no process to "migrate" or
\* "serving" keeps what is migrated
LEMMA FileKept ==
    ASSUME MigratedInv, NEW p \in Processes, SchemaTypeOK,
           UNCHANGED fileVars, UNCHANGED reached,
           NEW step \in {"down", "backup", "copy", "plan"},
           Moves(p, step)
    PROVE  MigratedInv'
<1>1. SchemaCoversVersion'
  BY DEF MigratedInv, SchemaCoversVersion, fileVars
<1>2. ASSUME NEW q \in Processes PROVE Migrated(q)'
  <2>1. CASE q = p
    BY <2>1 DEF Moves, Migrated, SchemaTypeOK
  <2>2. CASE q # p
    BY <2>2 DEF Moves, Migrated, MigratedInv, Supported, fileVars, SchemaTypeOK
  <2>. QED BY <2>1, <2>2
<1>. QED BY <1>1, <1>2 DEF MigratedInv

LEMMA MigratedStep == SchemaTypeOK /\ MigratedInv /\ [SchemaNext]_schemaVars => MigratedInv'
<1>. SUFFICES ASSUME SchemaTypeOK, MigratedInv, [SchemaNext]_schemaVars PROVE MigratedInv'
  OBVIOUS
<1>1. CASE UNCHANGED schemaVars
  BY <1>1 DEF schemaVars, fileVars, readVars, MigratedInv, SchemaCoversVersion, Migrated, Supported
<1>2. ASSUME NEW p \in Processes, Start(p) PROVE MigratedInv'
  BY <1>2, FileKept DEF Start
<1>3. ASSUME NEW p \in Processes, Backup(p) PROVE MigratedInv'
  BY <1>3, FileKept DEF Backup, readVars
<1>4. ASSUME NEW p \in Processes, Copy(p) PROVE MigratedInv'
  BY <1>4, FileKept DEF Copy, readVars
<1>5. ASSUME NEW p \in Processes, Plan(p) PROVE MigratedInv'
  <2>1. SchemaCoversVersion'
    BY <1>5 DEF Plan, fileVars, MigratedInv, SchemaCoversVersion
  <2>2. ASSUME NEW q \in Processes PROVE Migrated(q)'
    <3>1. CASE q = p
      BY <1>5, <3>1 DEF Plan, Moves, fileVars, MigratedInv, SchemaCoversVersion, Migrated, Supported, SchemaTypeOK
    <3>2. CASE q # p
      BY <1>5, <3>2 DEF Plan, Moves, fileVars, MigratedInv, Migrated, Supported, SchemaTypeOK
    <3>. QED BY <3>1, <3>2
  <2>. QED BY <2>1, <2>2 DEF MigratedInv
<1>6. ASSUME NEW p \in Processes, Migrate(p) PROVE MigratedInv'
  <2>1. schema' = schema \cup {reached[p] + 1} /\ version' = reached[p] + 1 /\ at' = at
    BY <1>6 DEF Migrate
  <2>2. reached[p] \in Nat /\ 1 .. reached[p] \subseteq schema
    BY <1>6 DEF Migrate, MigratedInv, Migrated, SchemaTypeOK, Versions
  <2>3. 1 .. (reached[p] + 1) \subseteq schema'
    BY <2>1, <2>2
  <2>4. reached' = [reached EXCEPT ![p] = @ + 1]
    BY <1>6 DEF Migrate
  <2>5. ASSUME NEW q \in Processes PROVE Migrated(q)'
    <3>1. CASE q = p
      BY <1>6, <2>1, <2>3, <2>4, <3>1 DEF Migrate, Migrated, SchemaTypeOK
    <3>2. CASE q # p
      BY <2>1, <2>4, <3>2 DEF MigratedInv, Migrated, Supported, SchemaTypeOK
    <3>. QED BY <3>1, <3>2
  <2>. QED BY <2>1, <2>3, <2>5 DEF MigratedInv, SchemaCoversVersion
<1>7. ASSUME NEW p \in Processes, MigrationFails(p) PROVE MigratedInv'
  BY <1>7, FileKept DEF MigrationFails, RolledBack, readVars
<1>8. ASSUME NEW p \in Processes, Serve(p) PROVE MigratedInv'
  <2>1. SchemaCoversVersion'
    BY <1>8 DEF Serve, fileVars, MigratedInv, SchemaCoversVersion
  <2>2. 1 .. Supported(p) \subseteq schema
    BY <1>8, SupportedType DEF Serve, MigratedInv, Migrated, SchemaTypeOK, Versions
  <2>3. ASSUME NEW q \in Processes PROVE Migrated(q)'
    <3>1. CASE q = p
      BY <1>8, <2>2, <3>1 DEF Serve, Moves, fileVars, Migrated, Supported, SchemaTypeOK
    <3>2. CASE q # p
      BY <1>8, <3>2 DEF Serve, Moves, fileVars, readVars, MigratedInv, Migrated, Supported, SchemaTypeOK
    <3>. QED BY <3>1, <3>2
  <2>. QED BY <2>1, <2>3 DEF MigratedInv
<1>9. ASSUME NEW p \in Processes, Stop(p) \/ Die(p) PROVE MigratedInv'
  BY <1>9, FileKept DEF Stop, Die, readVars
<1>. QED BY <1>1, <1>2, <1>3, <1>4, <1>5, <1>6, <1>7, <1>8, <1>9 DEF SchemaNext

\* A process serves only on a schema that has every migration it knows,
\* whatever other processes of either release did to the version meanwhile
THEOREM ServingIsMigrated == SchemaSpec => []ServesOnItsSchema
<1>1. SchemaInit => MigratedInv
  BY DEF SchemaInit, MigratedInv, SchemaCoversVersion, Migrated
<1>2. MigratedInv => ServesOnItsSchema
  BY DEF MigratedInv, Migrated, ServesOnItsSchema
<1>. QED BY <1>1, <1>2, MigratedStep, SchemaTypeCorrect, PTL DEF SchemaSpec

-----------------------------------------------------------------------------
(* The stores together.                                                    *)

\* A step of one part is a step of it and rests the others
LEMMA StoresStep ==
    [Next]_vars =>
        /\ [AuthNext]_authVars /\ [BackupNext]_backupVars /\ [TelemetryNext]_telemetryVars
        /\ [VisitsNext]_visitVars /\ [SchemaNext]_schemaVars
BY DEF Next, Runs, vars

\* So each part does what it does alone
LEMMA StoresParts == Spec => AuthSpec /\ BackupSpec /\ TelemetrySpec /\ VisitsSpec /\ SchemaSpec
<1>1. Init => AuthInit /\ BackupInit /\ TelemetryInit /\ VisitsInit /\ SchemaInit
  BY DEF Init
<1>. QED BY <1>1, StoresStep, PTL DEF Spec, AuthSpec, BackupSpec, TelemetrySpec, VisitsSpec, SchemaSpec

\* Every store of the control plane keeps the types of its data, beside the
\* others.
THEOREM StoresTypeCorrect == Spec => []TypeOK
<1>1. AuthTypeOK /\ BackupTypeOK /\ TelemetryTypeOK /\ VisitsTypeOK /\ SchemaTypeOK => TypeOK
  BY DEF TypeOK
<1>. QED BY <1>1, StoresParts, AccountTypeCorrect, BackupTypeCorrect, TelemetryTypeCorrect, VisitsTypeCorrect, SchemaTypeCorrect, PTL
=============================================================================
