--------------------------- MODULE Authentication ---------------------------
(***************************************************************************)
(* Local accounts: AuthService (auth/service.py) behind auth/http.py, and  *)
(* the commands of cli.py, which run in a process of their own.            *)
(*                                                                         *)
(* In the web process a request is authenticated, waits for its body, and  *)
(* then its handler runs without another greenlet in between, since SQLite *)
(* does not yield.  Python opens a transaction at the first write, so the  *)
(* commands may come between the reads of a handler and its writes.        *)
(***************************************************************************)
EXTENDS Naturals, FiniteSets

CONSTANTS
    Players,   \* observed profiles
    Codes,     \* one-time codes; a dead code's name is used again
    Sessions,  \* session tokens, likewise
    Requests,  \* requests the web process serves
    Nobody

ASSUME NobodyAssumption == Nobody \notin Players

VARIABLES
    role,      \* player |-> panel_accounts.role
    status,    \* player |-> panel_accounts.status
    code,      \* code |-> the unused, unexpired invitation it stands for
    session,   \* session |-> whose it is, if neither revoked nor expired
    pc,        \* request |-> where it is
    by,        \* request |-> the session it was authenticated with
    rank,      \* request |-> the role it was authenticated with
    claiming,  \* request |-> the invitation it is about to spend
    recovering \* the account create_recovery has read, as an invitation

accountVars == <<role, status>>
requestVars == <<pc, by, rank, claiming>>
authVars == <<accountVars, code, session, requestVars, recovering>>

Roles == {"owner", "member"}   \* operator and viewer administer nobody
Invitations == [to : Players, role : Roles]
NoInvitation == [to |-> Nobody, role |-> "member"]

AuthInit ==
    /\ role = [p \in Players |-> "member"]
    /\ status = [p \in Players |-> "none"]
    /\ code = [c \in Codes |-> NoInvitation]
    /\ session = [s \in Sessions |-> Nobody]
    /\ pc = [r \in Requests |-> "idle"]
    /\ by = [r \in Requests |-> Nobody]
    /\ rank = [r \in Requests |-> "member"]
    /\ claiming = [r \in Requests |-> [code |-> Nobody, invitation |-> NoInvitation]]
    /\ recovering = NoInvitation

-----------------------------------------------------------------------------

ActiveOwners == {p \in Players : role[p] = "owner" /\ status[p] = "active"}
IsLastOwner(p) == ActiveOwners = {p}

\* The names no row and no request refers to
FreeCodes == {c \in Codes : code[c] = NoInvitation /\ \A r \in Requests : claiming[r].code # c}
FreeSessions == {s \in Sessions : session[s] = Nobody /\ \A r \in Requests : by[r] # s}

\* _insert_invitation: an active account keeps its role; other codes are deleted
InsertInvitation(p, ro) ==
    /\ role' = IF status[p] = "active" THEN role ELSE [role EXCEPT ![p] = ro]
    /\ status' = IF status[p] = "active" THEN status ELSE [status EXCEPT ![p] = "invited"]
    /\ \E new \in FreeCodes :
          code' = [c \in Codes |-> IF c = new THEN [to |-> p, role |-> ro]
                                   ELSE IF code[c].to = p THEN NoInvitation ELSE code[c]]

\* the table of sessions once those of "revoked" are revoked and p has a new one
CreateSession(p, revoked) ==
    \E new \in FreeSessions :
        session' = [s \in Sessions |-> IF s = new THEN p ELSE IF s \in revoked THEN Nobody ELSE session[s]]

SessionsOf(p) == {s \in Sessions : session[s] = p}
Revoke(revoked) == session' = [s \in Sessions |-> IF s \in revoked THEN Nobody ELSE session[s]]

-----------------------------------------------------------------------------
(* The web process.                                                        *)

\* A handler is between its reads and its writes
Busy == \E r \in Requests : pc[r] = "claiming"

\* authenticate_request; the handler waits for the body
Authenticate(r, s) ==
    /\ pc[r] = "idle"
    /\ ~Busy
    /\ session[s] # Nobody
    /\ status[session[s]] = "active"
    /\ pc' = [pc EXCEPT ![r] = "handler"]
    /\ by' = [by EXCEPT ![r] = s]
    /\ rank' = [rank EXCEPT ![r] = role[session[s]]]
    /\ UNCHANGED <<accountVars, code, session, claiming, recovering>>

Finish(r) ==
    /\ pc' = [pc EXCEPT ![r] = "idle"]
    /\ by' = [by EXCEPT ![r] = Nobody]
    /\ rank' = [rank EXCEPT ![r] = "member"]
    /\ UNCHANGED <<claiming, recovering>>

Handling(r) == pc[r] = "handler" /\ ~Busy

\* The capability was that of the account when the request was authenticated
MayManageUsers(r) == Handling(r) /\ rank[r] = "owner"

Invite(r, p, ro) ==
    /\ MayManageUsers(r)
    /\ InsertInvitation(p, ro)
    /\ Finish(r)
    /\ UNCHANGED session

\* mutant: the guard trusts the role the request was authenticated with
MaySuspend_Other(r, p) == status[p] # "none" /\ session[by[r]] # p
MaySuspend(r, p) == status[p] # "none" /\ ~IsLastOwner(p)

SuspendSessions_Later(p) == UNCHANGED session  \* mutant: left to expire
SuspendSessions(p) == Revoke(SessionsOf(p))

Suspend(r, p) ==
    /\ MayManageUsers(r)
    /\ MaySuspend(r, p)
    /\ status' = [status EXCEPT ![p] = "suspended"]
    /\ SuspendSessions(p)
    /\ Finish(r)
    /\ UNCHANGED <<role, code>>

\* Only who still has an active session gets past _active_session_identity
Caller(r) == session[by[r]]
IsActiveSession(r) == Handling(r) /\ Caller(r) # Nobody /\ status[Caller(r)] = "active"

ChangePassword(r) ==
    /\ IsActiveSession(r)
    /\ CreateSession(Caller(r), SessionsOf(Caller(r)))
    /\ Finish(r)
    /\ UNCHANGED <<accountVars, code>>

RevokeSession(r, target) ==
    /\ IsActiveSession(r)
    /\ target \in SessionsOf(Caller(r)) \ {by[r]}
    /\ Revoke({target})
    /\ Finish(r)
    /\ UNCHANGED <<accountVars, code>>

RevokeOtherSessions(r) ==
    /\ IsActiveSession(r)
    /\ Revoke(SessionsOf(Caller(r)) \ {by[r]})
    /\ Finish(r)
    /\ UNCHANGED <<accountVars, code>>

Logout(r) ==
    /\ Handling(r)
    /\ Revoke({by[r]})
    /\ Finish(r)
    /\ UNCHANGED <<accountVars, code>>

\* A refused request, or one that only reads, changes no account
Refuse(r) ==
    /\ Handling(r)
    /\ Finish(r)
    /\ UNCHANGED <<accountVars, code, session>>

Login(p) ==
    /\ ~Busy
    /\ status[p] = "active"
    /\ CreateSession(p, {})
    /\ UNCHANGED <<accountVars, code, requestVars, recovering>>

\* claim reads the invitation, the account and the number of owners ...
MayClaim_Any(invitation) == TRUE  \* mutant: an owner may be demoted by a code
MayClaim(invitation) == invitation.role = "owner" \/ ~IsLastOwner(invitation.to)

ClaimRead(r, c) ==
    /\ pc[r] = "idle"
    /\ ~Busy
    /\ code[c] # NoInvitation
    /\ MayClaim(code[c])
    /\ claiming' = [claiming EXCEPT ![r] = [code |-> c, invitation |-> code[c]]]
    /\ pc' = [pc EXCEPT ![r] = "claiming"]
    /\ UNCHANGED <<accountVars, code, session, by, rank, recovering>>

\* ... and writes; a command may have replaced the code in between
ClaimWrite(r) ==
    /\ pc[r] = "claiming"
    /\ LET c == claiming[r].code
           invitation == claiming[r].invitation
       IN  /\ code' = IF code[c] = invitation THEN [code EXCEPT ![c] = NoInvitation] ELSE code
           /\ role' = [role EXCEPT ![invitation.to] = invitation.role]
           /\ status' = [status EXCEPT ![invitation.to] = "active"]
           /\ CreateSession(invitation.to, {})
    /\ claiming' = [claiming EXCEPT ![r] = [code |-> Nobody, invitation |-> NoInvitation]]
    /\ pc' = [pc EXCEPT ![r] = "idle"]
    /\ UNCHANGED <<by, rank, recovering>>

RequestStep(r) ==
    \/ \E s \in Sessions : Authenticate(r, s) \/ RevokeSession(r, s)
    \/ \E p \in Players : Suspend(r, p) \/ \E ro \in Roles : Invite(r, p, ro)
    \/ ChangePassword(r) \/ RevokeOtherSessions(r) \/ Logout(r) \/ Refuse(r)
    \/ (\E c \in Codes : ClaimRead(r, c)) \/ ClaimWrite(r)

-----------------------------------------------------------------------------
(* The command line, and time.                                             *)

Bootstrap(p) ==
    /\ ActiveOwners = {}
    /\ \A c \in Codes : code[c].role # "owner"
    /\ InsertInvitation(p, "owner")
    /\ UNCHANGED <<session, requestVars, recovering>>

CliInvite(p, ro) ==
    /\ recovering = NoInvitation
    /\ InsertInvitation(p, ro)
    /\ UNCHANGED <<session, requestVars, recovering>>

\* create_recovery reads the account in one transaction ...
RecoverRead(p) ==
    /\ recovering = NoInvitation
    /\ status[p] = "active"
    /\ recovering' = [to |-> p, role |-> role[p]]
    /\ UNCHANGED <<accountVars, code, session, requestVars>>

\* ... and invites in another
RecoverWrite ==
    /\ recovering # NoInvitation
    /\ InsertInvitation(recovering.to, recovering.role)
    /\ recovering' = NoInvitation
    /\ UNCHANGED <<session, requestVars>>

ExpireCode(c) ==
    /\ code[c] # NoInvitation
    /\ code' = [code EXCEPT ![c] = NoInvitation]
    /\ UNCHANGED <<accountVars, session, requestVars, recovering>>

ExpireSession(s) ==
    /\ session[s] # Nobody
    /\ Revoke({s})
    /\ UNCHANGED <<accountVars, code, requestVars, recovering>>

AuthNext ==
    \/ \E r \in Requests : RequestStep(r)
    \/ \E p \in Players :
          Login(p) \/ Bootstrap(p) \/ RecoverRead(p) \/ \E ro \in Roles : CliInvite(p, ro)
    \/ RecoverWrite
    \/ (\E c \in Codes : ExpireCode(c)) \/ (\E s \in Sessions : ExpireSession(s))

AuthSpec == AuthInit /\ [][AuthNext]_authVars

-----------------------------------------------------------------------------
(* Properties.                                                             *)

AuthTypeOK ==
    /\ role \in [Players -> Roles]
    /\ status \in [Players -> {"none", "invited", "active", "suspended"}]
    /\ code \in [Codes -> Invitations \cup {NoInvitation}]
    /\ session \in [Sessions -> Players \cup {Nobody}]
    /\ pc \in [Requests -> {"idle", "handler", "claiming"}]
    /\ by \in [Requests -> Sessions \cup {Nobody}]
    /\ rank \in [Requests -> Roles]
    /\ claiming \in [Requests -> [code : Codes \cup {Nobody}, invitation : Invitations \cup {NoInvitation}]]
    /\ recovering \in Invitations \cup {NoInvitation}

\* Once the panel has an active owner it always has one, whatever owners who
\* were authenticated at the same time do to each other and whichever codes are
\* claimed meanwhile.
LastOwnerRemains == [][ActiveOwners # {} => ActiveOwners' # {}]_authVars

\* A session that is neither revoked nor expired belongs to an active account:
\* a suspension leaves none behind that a later invitation would revive.
LiveSessionsAreActive == \A s \in Sessions : session[s] # Nobody => status[session[s]] = "active"
=============================================================================
