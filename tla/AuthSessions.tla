----------------------------- MODULE AuthSessions -----------------------------
(***************************************************************************)
(* Refresh sessions (user_sessions) and the requests that create, rotate   *)
(* and revoke them.  Every request runs in a thread and a database session *)
(* of its own, and each repository call commits, so a request is a short   *)
(* sequence of transactions between which other requests run, and in the   *)
(* middle of which it may die.                                             *)
(*                                                                         *)
(* A session is known by the serial id of its row, which stands for its    *)
(* jti too: what its refresh token and the access tokens issued with it    *)
(* carry.  A password is known by the number of changes that led to it.    *)
(* A request that is refused before its first write changes nothing and is *)
(* not a step.  Accounts are active throughout: activation, and how a      *)
(* reset token is earned, are OtpVerification's subject.  The event a      *)
(* request logs before it responds is a call of AuditLedger; here it is    *)
(* part of the request's last step.                                        *)
(***************************************************************************)
EXTENDS Naturals, Sequences, FiniteSets

CONSTANTS
  Users,
  MaxSessions,    \* bound on the number of rows in user_sessions
  Requests,       \* requests that may be in flight together
  MaxPassword,    \* bound on the number of password changes per user
  MaxWrites,      \* bound on the two together
  Failures,       \* may a request die between two of its transactions?
  NoUser

ASSUME FailuresAssumption == Failures \in BOOLEAN
ASSUME BoundsAssumption == MaxPassword \in Nat /\ MaxSessions \in Nat /\ MaxWrites \in Nat
ASSUME NoUserAssumption == NoUser \notin Users

VARIABLES
  sessions,       \* sessions[j]: row j of user_sessions, rows in the order of their insertion
  password,       \* password[u]: which password users.hashed_password holds
  delivered,      \* sessions whose tokens have reached a client
  resetTokens,    \* users holding an unexpired password_reset token
  request,        \* request[r]: what request r is doing
  \* history, read by properties only
  vouched,        \* vouched[j]: the last password the holder of j showed or set
  parent,         \* parent[j]: the session j was rotated from, or NoJti
  overtaken,      \* requests that will create a session although their user's sessions have
                  \* been revoked since they made their checks
  survivors,      \* sessions such a request went on to create, and their successors
  cutShort        \* users whose password change died before its revocation

history == <<vouched, parent, overtaken, survivors, cutShort>>
vars == <<sessions, password, delivered, resetTokens, request, history>>

-----------------------------------------------------------------------------
Jtis == DOMAIN sessions
NoJti == 0
AnyJti == 0..MaxSessions

UserSession == [user : Users, revoked : BOOLEAN, expired : BOOLEAN, replacedBy : AnyJti]

Steps == {"idle", "login", "rotate", "change", "changeRevoke", "changeCreate", "resetRevoke",
          "revokeAll", "revokeOne", "logout", "respond"}

(* user: whom the request acts for; jti: the session it works on; fresh:   *)
(* the session it has created; shown: the password its user showed or set. *)
Request == [step : Steps, user : Users \cup {NoUser}, jti : AnyJti, fresh : AnyJti, shown : 0..MaxPassword]

Idle == [step |-> "idle", user |-> NoUser, jti |-> NoJti, fresh |-> NoJti, shown |-> 0]

(* get_active_session_by_jti finds it.                                     *)
Live(j) == ~sessions[j].revoked /\ ~sessions[j].expired

SessionsOf(u) == {j \in Jtis : sessions[j].user = u}

(* get_current_user accepts the access token issued with session j: each   *)
(* of the three places that issue one names the session in it, and a token *)
(* without a session, which would pass unchecked, is never made.           *)
AuthenticatesUnbound(j) == j \in delivered
Authenticates(j) == j \in delivered /\ Live(j)

Init ==
  /\ sessions = <<>>
  /\ password = [u \in Users |-> 0]
  /\ delivered = {}
  /\ resetTokens = {}
  /\ request = [r \in Requests |-> Idle]
  /\ vouched = <<>>
  /\ parent = <<>>
  /\ overtaken = {}
  /\ survivors = {}
  /\ cutShort = {}

-----------------------------------------------------------------------------
(* SessionRepository, one transaction per operator.                        *)

NewRow(u) == [user |-> u, revoked |-> FALSE, expired |-> FALSE, replacedBy |-> NoJti]

RotatedRowLive(row, j) == [row EXCEPT !.replacedBy = j]
RotatedRow(row, j) == [row EXCEPT !.revoked = TRUE, !.replacedBy = j]

NewJti == Len(sessions) + 1

(* History of the session that request r creates in the place of p.        *)
Remember(r, p, shown) ==
  /\ vouched' = Append(vouched, shown)
  /\ parent' = Append(parent, p)
  /\ survivors' = survivors \cup (IF r \in overtaken \/ p \in survivors THEN {NewJti} ELSE {})
  /\ overtaken' = overtaken \ {r}
  /\ UNCHANGED cutShort

create_sessionUncommitted(r, u, shown) == UNCHANGED sessions /\ Remember(r, NoJti, shown)
create_session(r, u, shown) ==
  /\ sessions' = Append(sessions, NewRow(u))
  /\ Remember(r, NoJti, shown)

(* The row was loaded before the rotation began, and re-selecting it       *)
(* inside rotate_session returns the object already loaded: whatever       *)
(* happened to its revoked_at and replaced_by_jti since is not seen and is *)
(* written over.  The reuse branch is therefore never taken here.          *)
rotate_session(r, old) ==
  /\ sessions' = Append([sessions EXCEPT ![old] = RotatedRow(@, NewJti)], NewRow(sessions[old].user))
  /\ Remember(r, old, vouched[old])

Revoked(row) == [row EXCEPT !.revoked = TRUE]

revoke_session(j) == sessions' = [sessions EXCEPT ![j] = Revoked(@)]

(* Requests that may still commit a session whose password or predecessor  *)
(* they checked earlier.                                                   *)
Creating == {"login", "rotate", "changeRevoke", "changeCreate"}

(* Revoking the sessions of u leaves these behind: the creating requests   *)
(* of others, and a change of password of its own that was itself replaced *)
(* before it came to revoke.                                               *)
LeftBehind(r, u) ==
  {q \in Requests : /\ request[q].user = u /\ request[q].step \in Creating
                    /\ q = r => request[q].shown # password[u]}

ToRevokeOldest(u) ==
  {j \in SessionsOf(u) : ~sessions[j].revoked /\ \A k \in SessionsOf(u) : k < j => sessions[k].revoked}
ToRevoke(u) == {j \in SessionsOf(u) : ~sessions[j].revoked}

revoke_all_user_sessions(r, u) ==
  /\ sessions' = [j \in Jtis |-> IF j \in ToRevoke(u) THEN Revoked(sessions[j]) ELSE sessions[j]]
  /\ overtaken' = overtaken \cup LeftBehind(r, u)
  /\ cutShort' = cutShort \ {u}
  /\ UNCHANGED <<vouched, parent, survivors>>

-----------------------------------------------------------------------------
(* Requests.                                                               *)

(* Bounds: a request starts only while there is room for the rows and the  *)
(* changes of password of all that are in flight, and for its own.         *)
Changing(u) == {q \in Requests : request[q].user = u /\ request[q].step = "change"}
RowsWritten == Len(sessions) + Cardinality({q \in Requests : request[q].step \in Creating \cup {"change"}})
PasswordsSet(u) == password[u] + Cardinality(Changing(u))

Room(u, rows, passwords) ==
  /\ RowsWritten + rows <= MaxSessions
  /\ PasswordsSet(u) + passwords <= MaxPassword
  /\ RowsWritten + rows + PasswordsSet(u) + passwords <= MaxWrites

Start(r, step, u, j, shown) ==
  /\ request[r] = Idle
  /\ request' = [request EXCEPT ![r] = [Idle EXCEPT !.step = step, !.user = u, !.jti = j, !.shown = shown]]
  /\ UNCHANGED <<sessions, password, delivered, resetTokens, history>>

At(r, step) == request[r].step = step

Goto(r, step) == request' = [request EXCEPT ![r].step = step]

(* What is left of a request is its event and its response, which carries  *)
(* the tokens of session j if the request created one.                     *)
RespondWith(r, j) ==
  request' = [request EXCEPT ![r] = [Idle EXCEPT !.step = "respond", !.user = request[r].user, !.fresh = j]]

(* POST /login: the password shown is the one in the database when it is   *)
(* verified.                                                               *)
LoginVerify(r, u) == Room(u, 1, 0) /\ Start(r, "login", u, NoJti, password[u])

LoginCreate(r) ==
  /\ At(r, "login")
  /\ create_session(r, request[r].user, request[r].shown)
  /\ RespondWith(r, NewJti)
  /\ UNCHANGED <<password, delivered, resetTokens>>

(* POST /refresh with the refresh token of session j.  Only one token was  *)
(* ever signed for j, so the comparison of token hashes always succeeds.   *)
RefreshAccepted(r, j) ==
  /\ j \in delivered /\ Live(j)
  /\ Room(sessions[j].user, 1, 0)
  /\ Start(r, "rotate", sessions[j].user, j, 0)

(* The token is still good as a JWT, its session is not: cookies cleared,  *)
(* REFRESH_REUSE_DETECTED logged, no session touched.                      *)
RefreshRefused(r, j) ==
  /\ j \in delivered /\ ~sessions[j].expired /\ ~Live(j)
  /\ Start(r, "respond", sessions[j].user, NoJti, 0)

(* The session whose tokens answer a rotation.                             *)
RotationAnswerUnrotated(r) == request[r].jti
RotationAnswer(r) == NewJti

RefreshRotate(r) ==
  /\ At(r, "rotate")
  /\ ~sessions[request[r].jti].expired
  /\ rotate_session(r, request[r].jti)
  /\ RespondWith(r, RotationAnswer(r))
  /\ UNCHANGED <<password, delivered, resetTokens>>

RefreshTooLate(r) ==
  /\ At(r, "rotate")
  /\ sessions[request[r].jti].expired
  /\ revoke_session(request[r].jti)
  /\ RespondWith(r, NoJti)
  /\ overtaken' = overtaken \ {r}
  /\ UNCHANGED <<password, delivered, resetTokens, vouched, parent, survivors, cutShort>>

(* POST /change-password, authenticated by session j and the current       *)
(* password: new hash, revocation of every session, a fresh session.       *)
ChangeVerify(r, j) ==
  /\ Authenticates(j)
  /\ Room(sessions[j].user, 1, 1)
  /\ Start(r, "change", sessions[j].user, NoJti, 0)

SetPassword(u) == password' = [password EXCEPT ![u] = @ + 1]

ChangeCommit(r) ==
  /\ At(r, "change")
  /\ SetPassword(request[r].user)
  /\ request' = [request EXCEPT ![r].step = "changeRevoke", ![r].shown = password[request[r].user] + 1]
  /\ UNCHANGED <<sessions, delivered, resetTokens, history>>

ChangeRevoke(r) ==
  /\ At(r, "changeRevoke")
  /\ revoke_all_user_sessions(r, request[r].user)
  /\ Goto(r, "changeCreate")
  /\ UNCHANGED <<password, delivered, resetTokens>>

ChangeCreate(r) ==
  /\ At(r, "changeCreate")
  /\ create_session(r, request[r].user, request[r].shown)
  /\ RespondWith(r, NewJti)
  /\ UNCHANGED <<password, delivered, resetTokens>>

(* POST /reset-password: the signed token alone names the user, and stays  *)
(* good until it expires.                                                  *)
ResetCommit(r, u) ==
  /\ request[r] = Idle
  /\ u \in resetTokens
  /\ Room(u, 0, 1)
  /\ SetPassword(u)
  /\ request' = [request EXCEPT ![r] = [Idle EXCEPT !.step = "resetRevoke", !.user = u]]
  /\ UNCHANGED <<sessions, delivered, resetTokens, history>>

ResetRevoke(r) ==
  /\ At(r, "resetRevoke")
  /\ revoke_all_user_sessions(r, request[r].user)
  /\ RespondWith(r, NoJti)
  /\ UNCHANGED <<password, delivered, resetTokens>>

(* POST /logout-all.                                                       *)
LogoutAllStart(r, j) == Authenticates(j) /\ Start(r, "revokeAll", sessions[j].user, NoJti, 0)

LogoutAll(r) ==
  /\ At(r, "revokeAll")
  /\ revoke_all_user_sessions(r, request[r].user)
  /\ RespondWith(r, NoJti)
  /\ UNCHANGED <<password, delivered, resetTokens>>

(* DELETE /sessions/{id}: authenticated by session j, the target k is      *)
(* looked up by id and refused unless it is the caller's.                  *)
MayRevoke(u, k) == sessions[k].user = u

RevokeOneStart(r, j, k) ==
  /\ Authenticates(j)
  /\ MayRevoke(sessions[j].user, k)
  /\ Start(r, "revokeOne", sessions[j].user, k, 0)

RevokeOne(r) ==
  /\ At(r, "revokeOne")
  /\ revoke_session(request[r].jti)
  /\ RespondWith(r, NoJti)
  /\ UNCHANGED <<password, delivered, resetTokens, history>>

(* POST /logout: no authentication; each of the refresh and the access     *)
(* cookie, when there is one, has its session revoked.  A client's two     *)
(* cookies name the same session, and the refresh cookie's path keeps it   *)
(* from being sent here, so one revocation stands for both.                *)
LogoutStart(r, j) == j \in delivered /\ Start(r, "logout", sessions[j].user, j, 0)

Logout(r) ==
  /\ At(r, "logout")
  /\ revoke_session(request[r].jti)
  /\ RespondWith(r, NoJti)
  /\ UNCHANGED <<password, delivered, resetTokens, history>>

(* Audit event, then the response: only now does a client hold the tokens. *)
Respond(r) ==
  /\ At(r, "respond")
  /\ delivered' = delivered \cup ({request[r].fresh} \ {NoJti})
  /\ request' = [request EXCEPT ![r] = Idle]
  /\ UNCHANGED <<sessions, password, resetTokens, history>>

-----------------------------------------------------------------------------
(* Time, failure, and the one-time password flow outside this module.      *)

Expire(j) ==
  /\ ~sessions[j].expired
  /\ sessions' = [sessions EXCEPT ![j].expired = TRUE]
  /\ UNCHANGED <<password, delivered, resetTokens, request, history>>

IssueResetToken(u) ==
  /\ u \notin resetTokens
  /\ resetTokens' = resetTokens \cup {u}
  /\ UNCHANGED <<sessions, password, delivered, request, history>>

ExpireResetToken(u) ==
  /\ u \in resetTokens
  /\ resetTokens' = resetTokens \ {u}
  /\ UNCHANGED <<sessions, password, delivered, request, history>>

(* The process or its database connection is lost between transactions.    *)
Die(r) ==
  /\ Failures
  /\ request[r] # Idle
  /\ request' = [request EXCEPT ![r] = Idle]
  /\ cutShort' = cutShort \cup (IF request[r].step \in {"changeRevoke", "resetRevoke"} THEN {request[r].user} ELSE {})
  /\ overtaken' = overtaken \ {r}
  /\ UNCHANGED <<sessions, password, delivered, resetTokens, vouched, parent, survivors>>

-----------------------------------------------------------------------------
Continue(r) ==
  \/ LoginCreate(r) \/ RefreshRotate(r) \/ RefreshTooLate(r)
  \/ ChangeCommit(r) \/ ChangeRevoke(r) \/ ChangeCreate(r) \/ ResetRevoke(r)
  \/ LogoutAll(r) \/ RevokeOne(r) \/ Logout(r) \/ Respond(r)

Begin(r) ==
  \/ \E u \in Users : LoginVerify(r, u) \/ ResetCommit(r, u)
  \/ \E j \in Jtis : \/ RefreshAccepted(r, j) \/ RefreshRefused(r, j) \/ ChangeVerify(r, j)
                     \/ LogoutAllStart(r, j) \/ LogoutStart(r, j)
                     \/ \E k \in Jtis : RevokeOneStart(r, j, k)

Environment ==
  \/ \E j \in Jtis : Expire(j)
  \/ \E u \in Users : IssueResetToken(u) \/ ExpireResetToken(u)
  \/ \E r \in Requests : Die(r)

Next == Environment \/ \E r \in Requests : Begin(r) \/ Continue(r)

Spec == Init /\ [][Next]_vars

(* A thread that has begun a request is scheduled until it is done; nobody *)
(* is bound to send a request.                                             *)
Fairness == \A r \in Requests : WF_vars(Continue(r))

FairSpec == Spec /\ Fairness

-----------------------------------------------------------------------------
(* Every variable holds values of its type.                                *)
TypeOK ==
  /\ sessions \in Seq(UserSession) /\ Len(sessions) <= MaxSessions
  /\ password \in [Users -> 0..MaxPassword]
  /\ delivered \in SUBSET Jtis
  /\ resetTokens \in SUBSET Users
  /\ request \in [Requests -> Request]
  /\ vouched \in Seq(0..MaxPassword) /\ Len(vouched) = Len(sessions)
  /\ parent \in Seq(AnyJti) /\ Len(parent) = Len(sessions)
  /\ overtaken \in SUBSET Requests
  /\ survivors \in SUBSET Jtis
  /\ cutShort \in SUBSET Users

(* Rotation leaves a trail that an investigator can follow: a session that *)
(* was replaced is revoked, the session it names exists, belongs to the    *)
(* same user and descends from it, however many requests rotate or revoke  *)
(* the same session at once.                                               *)
LineageSound ==
  \A j \in Jtis : LET k == sessions[j].replacedBy IN
    k # NoJti => /\ sessions[j].revoked
                 /\ k \in Jtis /\ sessions[k].user = sessions[j].user
                 /\ parent[k] = j

(* The ways a session that rests on a replaced password can still be live: *)
(* the change has not reached its revocation yet, it died before it, or    *)
(* the session was committed after the revocation had swept the table, by  *)
(* a request that had made its checks, or set its own password, before the *)
(* password was replaced.  There is no other.                              *)
StaleSessionsExplained ==
  \A j \in Jtis : Live(j) /\ vouched[j] # password[sessions[j].user] =>
    \/ j \in survivors
    \/ sessions[j].user \in cutShort
    \/ \E r \in Requests : /\ request[r].user = sessions[j].user
                           /\ request[r].step \in {"changeRevoke", "resetRevoke"}

InFlight(u) == \E r \in Requests : request[r].user = u
SignedOut(u) == ~InFlight(u) /\ \A j \in SessionsOf(u) : ~Live(j)

(* A user with no live session and nothing in flight stays signed out: the *)
(* tokens of dead sessions start no change of password, no rotation and no *)
(* revocation; the only ways on are to log in or to hold a reset token.    *)
SignedOutStaysOut ==
  [][\A u \in Users : SignedOut(u) =>
       \A r \in Requests : request'[r].user = u =>
         request'[r].step \in {"login", "logout", "respond"} \/ u \in resetTokens]_vars

RestsOnOldPassword(j) == j \in Jtis /\ Live(j) /\ vouched[j] # password[sessions[j].user]

(* Once a password has been replaced every session that rests on an older  *)
(* one dies, unless it belongs to the survivors of the race above.  Holds  *)
(* when no request dies.                                                   *)
OldSessionsDie ==
  \A j \in 1..MaxSessions : RestsOnOldPassword(j) ~> (~RestsOnOldPassword(j) \/ j \in survivors)

(* A rotation that committed reaches its client: the session it revoked is *)
(* not the last one the client ever hears of.                              *)
RotationReaches ==
  \A j, k \in 1..MaxSessions : (j \in Jtis /\ sessions[j].replacedBy = k) ~> (k \in delivered)

-----------------------------------------------------------------------------
(* What the documentation says, and the code does not do.                  *)

(* "Password changed successfully. All previous sessions revoked.": with no *)
(* request of the user in flight, no session that existed before the       *)
(* change lives on in the session it was rotated into.                     *)
RevocationReachesSuccessors ==
  \A j \in Jtis : Live(j) /\ parent[j] # NoJti /\ ~InFlight(sessions[j].user)
    => vouched[j] = password[sessions[j].user]
=============================================================================
