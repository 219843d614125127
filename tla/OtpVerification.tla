---------------------------- MODULE OtpVerification ----------------------------
(***************************************************************************)
(* One-time codes (verification_tokens): registration, resending and       *)
(* forgotten passwords issue them, the two verify endpoints check them,    *)
(* and a verified code activates the account or earns a reset token.       *)
(*                                                                         *)
(* A request runs in a thread and a PostgreSQL transaction of its own, at  *)
(* READ COMMITTED: a SELECT ... FOR UPDATE waits for the rows its snapshot *)
(* found and keeps those that still match.  A code is right or wrong; how  *)
(* it is drawn, hashed and mailed is left out.  A token's age is counted   *)
(* in ticks and stops one past its time to live.  A refusal by the rate    *)
(* limiter changes nothing and is not a step.                              *)
(***************************************************************************)
EXTENDS Naturals, Sequences, FiniteSets

CONSTANTS
  Emails,
  Requests,          \* requests that may be in flight together
  Max_Attempts,      \* OTP_MAX_ATTEMPTS
  Cooldown, Ttl,     \* OTP_RESEND_COOLDOWN_SECONDS and OTP_EXPIRE_MINUTES, in ticks
  MaxTokens,         \* bound on the number of tokens ever issued
  MaxRegistrations,  \* bound on the registrations of one email
  Failures,          \* may a request die between two of its commits?
  NoRequest

ASSUME LimitsAssumption == Max_Attempts \in Nat \ {0} /\ Cooldown \in Nat /\ Ttl \in Nat /\ Cooldown <= Ttl
ASSUME BoundsAssumption == MaxTokens \in Nat /\ MaxRegistrations \in Nat
ASSUME FailuresAssumption == Failures \in BOOLEAN
ASSUME NoRequestAssumption == NoRequest \notin Requests

VARIABLES
  tokens,      \* tokens[t]: row t of verification_tokens, in the order of insertion
  account,     \* account[e]: the users row of email e
  credential,  \* credential[e]: the registration whose password that row holds
  grants,      \* tokens that earned an unexpired password_reset JWT
  lock,        \* lock[t]: the request whose transaction has locked row t
  request,     \* request[r]: what request r is doing
  \* history, read by properties only
  tried,       \* tried[t]: codes compared with token t's
  accepted,    \* accepted[t]: how often a code was accepted
  cutShort     \* verified tokens whose request died before it granted anything

history == <<tried, accepted, cutShort>>
vars == <<tokens, account, credential, grants, lock, request, history>>

-----------------------------------------------------------------------------
Purposes == {"EMAIL_VERIFICATION", "PASSWORD_RESET"}
Statuses == {"PENDING", "VERIFIED", "EXPIRED", "LOCKED", "CANCELLED"}
Ages == 0..Ttl + 1

VerificationToken == [email : Emails, purpose : Purposes, status : Statuses,
                      attempts : 0..Max_Attempts, age : Ages]

Tokens == DOMAIN tokens
AnyToken == 1..MaxTokens

(* What a request knows: its step and, as the step needs them, the email   *)
(* and purpose it issues a token for, the rows its SELECT found, the       *)
(* account it read, the token it verifies and that row as it was read.     *)
Idle == [step |-> "idle"]
Requested ==
  {Idle}
  \cup [step : {"register"}, email : Emails, found : {"none", "inactive"}]
  \cup [step : {"issue", "issueLock", "issueCommit"}, email : Emails, purpose : Purposes, found : SUBSET AnyToken]
  \cup [step : {"verify"}, token : AnyToken, purpose : Purposes]
  \cup [step : {"compare"}, token : AnyToken, purpose : Purposes, row : VerificationToken]
  \cup [step : {"grant"}, token : AnyToken, purpose : Purposes]

At(r, step) == request[r].step = step
Become(r, q) == request' = [request EXCEPT ![r] = q]
End(r) == Become(r, Idle)

LockFreeAlways(t, r) == TRUE
LockFree(t, r) == lock[t] \in {NoRequest, r}
LockedBy(r, ts) == [t \in Tokens |-> IF t \in ts THEN r ELSE lock[t]]
LocksLeftBy(r) == lock
ReleasedBy(r) == [t \in Tokens |-> IF lock[t] = r THEN NoRequest ELSE lock[t]]

Pending(e, p) == {t \in Tokens : tokens[t].email = e /\ tokens[t].purpose = p /\ tokens[t].status = "PENDING"}
Expired(row) == row.age > Ttl

Init ==
  /\ tokens = <<>>
  /\ account = [e \in Emails |-> "none"]
  /\ credential = [e \in Emails |-> 0]
  /\ grants = {}
  /\ lock = <<>>
  /\ request = [r \in Requests |-> Idle]
  /\ tried = <<>>
  /\ accepted = <<>>
  /\ cutShort = {}

-----------------------------------------------------------------------------
(* Issuing: create_verification_token and the endpoints that call it.      *)

(* Bound: an issuing request starts only while there is room for its row.  *)
Issuing == {"register", "issue", "issueLock", "issueCommit"}
TokenLeft == Len(tokens) + Cardinality({q \in Requests : request[q].step \in Issuing}) < MaxTokens

Issue(e, p) == [step |-> "issue", email |-> e, purpose |-> p, found |-> {}]

(* POST /register: an active account is refused.                           *)
RegisterRead(r, e) ==
  /\ request[r] = Idle /\ TokenLeft
  /\ credential[e] + Cardinality({q \in Requests : At(q, "register") /\ request[q].email = e}) < MaxRegistrations
  /\ account[e] # "active"
  /\ Become(r, [step |-> "register", email |-> e, found |-> account[e]])
  /\ UNCHANGED <<tokens, account, credential, grants, lock, history>>

(* A new user is inserted inactive; for a known one password and profile   *)
(* are updated, and is_active is not part of the UPDATE.                   *)
RegisterCommit(r) ==
  LET e == request[r].email IN
  /\ At(r, "register")
  /\ request[r].found = "inactive" \/ account[e] = "none"
  /\ account' = [account EXCEPT ![e] = IF @ = "none" THEN "inactive" ELSE @]
  /\ credential' = [credential EXCEPT ![e] = @ + 1]
  /\ Become(r, Issue(e, "EMAIL_VERIFICATION"))
  /\ UNCHANGED <<tokens, grants, lock, history>>

(* Another registration has inserted the email since: unique violation.    *)
RegisterConflict(r) ==
  /\ At(r, "register")
  /\ request[r].found = "none" /\ account[request[r].email] # "none"
  /\ End(r)
  /\ UNCHANGED <<tokens, account, credential, grants, lock, history>>

StartIssue(r, e, p) ==
  /\ request[r] = Idle /\ TokenLeft
  /\ Become(r, Issue(e, p))
  /\ UNCHANGED <<tokens, account, credential, grants, lock, history>>

(* POST /resend-otp takes the email and the purpose of any known token.    *)
Resend(r, t) == StartIssue(r, tokens[t].email, tokens[t].purpose)

(* POST /forgot-password.                                                  *)
Forgot(r, e) ==
  \/ account[e] = "active" /\ StartIssue(r, e, "PASSWORD_RESET")
  \/ account[e] = "inactive" /\ StartIssue(r, e, "EMAIL_VERIFICATION")

(* POST /login of an inactive account, when get_latest_active_token finds  *)
(* nothing.                                                                *)
LoginInactive(r, e) ==
  /\ account[e] = "inactive"
  /\ \A t \in Pending(e, "EMAIL_VERIFICATION") : Expired(tokens[t])
  /\ StartIssue(r, e, "EMAIL_VERIFICATION")

(* The SELECT ... FOR UPDATE takes its snapshot ...                        *)
IssueSelect(r) ==
  /\ At(r, "issue")
  /\ Become(r, [request[r] EXCEPT !.step = "issueLock", !.found = Pending(request[r].email, request[r].purpose)])
  /\ UNCHANGED <<tokens, account, credential, grants, lock, history>>

(* ... waits for the rows it found, and drops those no longer pending.     *)
IssueLock(r) ==
  LET q == request[r] IN
  /\ At(r, "issueLock")
  /\ \A t \in q.found : LockFree(t, r)
  /\ lock' = LockedBy(r, q.found)
  /\ Become(r, [q EXCEPT !.step = "issueCommit", !.found = @ \cap Pending(q.email, q.purpose)])
  /\ UNCHANGED <<tokens, account, credential, grants, history>>

TooSoon(r) == \E t \in request[r].found : tokens[t].age < Cooldown

(* The unique index on pending (email, purpose) meets a row the SELECT did *)
(* not return.                                                             *)
ConflictNever(r) == FALSE
Conflict(r) == Pending(request[r].email, request[r].purpose) \ request[r].found # {}

(* 429 inside the cooldown, or an IntegrityError: the transaction is       *)
(* rolled back.                                                            *)
IssueRefused(r) ==
  /\ At(r, "issueCommit")
  /\ TooSoon(r) \/ Conflict(r)
  /\ lock' = ReleasedBy(r)
  /\ End(r)
  /\ UNCHANGED <<tokens, account, credential, grants, history>>

NewToken(e, p) == [email |-> e, purpose |-> p, status |-> "PENDING", attempts |-> 0, age |-> 0]

IssueCommit(r) ==
  LET q == request[r]
      cancelled == [t \in Tokens |-> IF t \in q.found THEN [tokens[t] EXCEPT !.status = "CANCELLED"] ELSE tokens[t]]
  IN
  /\ At(r, "issueCommit")
  /\ ~TooSoon(r) /\ ~Conflict(r)
  /\ tokens' = Append(cancelled, NewToken(q.email, q.purpose))
  /\ lock' = Append(ReleasedBy(r), NoRequest)
  /\ tried' = Append(tried, 0)
  /\ accepted' = Append(accepted, 0)
  /\ End(r)
  /\ UNCHANGED <<account, credential, grants, cutShort>>

-----------------------------------------------------------------------------
(* Verifying: verify_otp and the endpoints that call it.                   *)

(* POST /verify-email-otp, POST /verify-password-reset-otp.                *)
VerifyStart(r, t, p) ==
  /\ request[r] = Idle
  /\ Become(r, [step |-> "verify", token |-> t, purpose |-> p])
  /\ UNCHANGED <<tokens, account, credential, grants, lock, history>>

VerifySelect(r) ==
  LET q == request[r] IN
  /\ At(r, "verify")
  /\ LockFree(q.token, r)
  /\ lock' = LockedBy(r, {q.token})
  /\ Become(r, [step |-> "compare", token |-> q.token, purpose |-> q.purpose, row |-> tokens[q.token]])
  /\ UNCHANGED <<tokens, account, credential, grants, history>>

(* The age is the clock's, the rest is the row as it was read.             *)
RowRead(r) == [request[r].row EXCEPT !.age = tokens[request[r].token].age]

RightPurposeAny(r) == TRUE
RightPurpose(r) == request[r].row.purpose = request[r].purpose
Checkable == {"PENDING", "EXPIRED"}

(* Purpose and status checks fail: nothing is written.                     *)
VerifyRefused(r) ==
  /\ At(r, "compare")
  /\ ~RightPurpose(r) \/ RowRead(r).status \notin Checkable
  /\ lock' = ReleasedBy(r)
  /\ End(r)
  /\ UNCHANGED <<tokens, account, credential, grants, history>>

(* The row is written back with the columns the session has changed.       *)
WriteBack(r, row) ==
  LET k == request[r].token
      read == request[r].row
      now == tokens[k]
  IN
  /\ tokens' = [tokens EXCEPT ![k] =
                  [now EXCEPT !.status = IF row.status # read.status THEN row.status ELSE now.status,
                              !.attempts = IF row.attempts # read.attempts THEN row.attempts ELSE now.attempts]]
  /\ lock' = ReleasedBy(r)
  /\ UNCHANGED <<account, credential, grants, cutShort>>

MayCompare(r) == At(r, "compare") /\ RightPurpose(r) /\ RowRead(r).status \in Checkable

(* Past its time, or out of attempts: only the status is written.          *)
Spent(row) == Expired(row) \/ row.attempts >= Max_Attempts

VerifySpent(r) ==
  /\ MayCompare(r)
  /\ Spent(RowRead(r))
  /\ WriteBack(r, [RowRead(r) EXCEPT !.status = IF Expired(RowRead(r)) THEN "EXPIRED" ELSE "LOCKED"])
  /\ End(r)
  /\ UNCHANGED <<tried, accepted>>

Compare(r) ==
  /\ MayCompare(r)
  /\ ~Spent(RowRead(r))
  /\ tried' = [tried EXCEPT ![request[r].token] = @ + 1]

AfterWrongMisnamed(row) ==
  [row EXCEPT !.attempts = @ + 1, !.status = IF row.attempts + 1 >= Max_Attempts THEN "FAILED" ELSE @]
AfterWrong(row) ==
  [row EXCEPT !.attempts = @ + 1, !.status = IF row.attempts + 1 >= Max_Attempts THEN "LOCKED" ELSE @]

VerifyWrong(r) ==
  /\ Compare(r)
  /\ WriteBack(r, AfterWrong(RowRead(r)))
  /\ End(r)
  /\ UNCHANGED accepted

VerifyRight(r) ==
  /\ Compare(r)
  /\ WriteBack(r, [RowRead(r) EXCEPT !.status = "VERIFIED"])
  /\ accepted' = [accepted EXCEPT ![request[r].token] = @ + 1]
  /\ Become(r, [step |-> "grant", token |-> request[r].token, purpose |-> request[r].purpose])

(* A commit of its own: the account becomes active ...                     *)
ActivatedNot(e) == account
Activated(e) == [account EXCEPT ![e] = "active"]

GrantActivation(r) ==
  /\ At(r, "grant")
  /\ request[r].purpose = "EMAIL_VERIFICATION"
  /\ account' = Activated(tokens[request[r].token].email)
  /\ End(r)
  /\ UNCHANGED <<tokens, credential, grants, lock, history>>

(* ... or the signed reset token is in the response.                       *)
GrantReset(r) ==
  /\ At(r, "grant")
  /\ request[r].purpose = "PASSWORD_RESET"
  /\ grants' = grants \cup {request[r].token}
  /\ End(r)
  /\ UNCHANGED <<tokens, account, credential, lock, history>>

-----------------------------------------------------------------------------
(* Time and failure.                                                       *)

Tick ==
  /\ \E t \in Tokens : tokens[t].age <= Ttl
  /\ tokens' = [t \in Tokens |-> [tokens[t] EXCEPT !.age = IF @ <= Ttl THEN @ + 1 ELSE @]]
  /\ UNCHANGED <<account, credential, grants, lock, request, history>>

ExpireGrant(t) ==
  /\ t \in grants
  /\ grants' = grants \ {t}
  /\ UNCHANGED <<tokens, account, credential, lock, request, history>>

(* The request is lost; its open transaction is rolled back.               *)
Die(r) ==
  /\ Failures
  /\ request[r] # Idle
  /\ lock' = ReleasedBy(r)
  /\ End(r)
  /\ cutShort' = cutShort \cup (IF At(r, "grant") THEN {request[r].token} ELSE {})
  /\ UNCHANGED <<tokens, account, credential, grants, tried, accepted>>

-----------------------------------------------------------------------------
Continue(r) ==
  \/ RegisterCommit(r) \/ RegisterConflict(r)
  \/ IssueSelect(r) \/ IssueLock(r) \/ IssueRefused(r) \/ IssueCommit(r)
  \/ VerifySelect(r) \/ VerifyRefused(r) \/ VerifySpent(r) \/ VerifyWrong(r) \/ VerifyRight(r)
  \/ GrantActivation(r) \/ GrantReset(r)

Begin(r) ==
  \/ \E e \in Emails : RegisterRead(r, e) \/ Forgot(r, e) \/ LoginInactive(r, e)
  \/ \E t \in Tokens : Resend(r, t) \/ \E p \in Purposes : VerifyStart(r, t, p)

Environment ==
  \/ Tick
  \/ \E t \in Tokens : ExpireGrant(t)
  \/ \E r \in Requests : Die(r)

Next == Environment \/ \E r \in Requests : Begin(r) \/ Continue(r)

Spec == Init /\ [][Next]_vars

(* A thread in the middle of a request runs on.  Strong fairness, for the  *)
(* steps that wait for a row lock: a waiter that keeps finding the row     *)
(* free gets it, however often others take it in between, since PostgreSQL *)
(* queues the waiters of a row.                                            *)
FairSpec == Spec /\ \A r \in Requests : SF_vars(Continue(r))

-----------------------------------------------------------------------------
(* Every variable holds values of its type.                                *)
TypeOK ==
  /\ tokens \in Seq(VerificationToken) /\ Len(tokens) <= MaxTokens
  /\ account \in [Emails -> {"none", "inactive", "active"}]
  /\ credential \in [Emails -> 0..MaxRegistrations]
  /\ grants \in SUBSET Tokens
  /\ lock \in [Tokens -> Requests \cup {NoRequest}]
  /\ request \in [Requests -> Requested]
  /\ tried \in [Tokens -> Nat]
  /\ accepted \in [Tokens -> Nat]
  /\ cutShort \in SUBSET Tokens

(* However many requests verify the same code at once, each comparison is  *)
(* counted (attempt_count loses no update), no token is compared more than *)
(* Max_Attempts times, and it is accepted at most once.                    *)
AttemptsCounted ==
  \A t \in Tokens : /\ tried[t] = tokens[t].attempts + accepted[t]
                    /\ tried[t] <= Max_Attempts
                    /\ accepted[t] <= 1

(* Issuing requests that race leave one pending code per email and         *)
(* purpose: the unique index turns the loser away, it does not trust the   *)
(* SELECT.                                                                 *)
OnePending == \A e \in Emails, p \in Purposes : Cardinality(Pending(e, p)) <= 1

(* An account is active only after a code mailed for activation has been   *)
(* verified, and a reset token is held only for a verified reset code: the *)
(* two purposes never stand in for each other.                             *)
GrantsEarned ==
  /\ \A e \in Emails : account[e] = "active" =>
       \E t \in Tokens : /\ tokens[t].email = e
                         /\ tokens[t].purpose = "EMAIL_VERIFICATION"
                         /\ tokens[t].status = "VERIFIED"
  /\ \A t \in grants : tokens[t].purpose = "PASSWORD_RESET" /\ tokens[t].status = "VERIFIED"

(* A token that has left PENDING keeps its status for good: a code that    *)
(* was superseded, used, locked or found expired does not come back,       *)
(* whatever was in flight when it happened.                                *)
DeadStaysDead ==
  [][\A t \in Tokens : tokens[t].status # "PENDING" => tokens'[t].status = tokens[t].status]_vars

(* Row locks never keep a request waiting for good.                        *)
RequestsEnd == \A r \in Requests : request[r] # Idle ~> request[r] = Idle

(* A verified activation code has activated its account, or its request is *)
(* about to.  The two commits are separate: when a request dies between    *)
(* them the code is used up and the account still inactive, and that is    *)
(* the only way.                                                           *)
VerifiedActivates ==
  \A t \in Tokens :
    (tokens[t].purpose = "EMAIL_VERIFICATION" /\ tokens[t].status = "VERIFIED") =>
      \/ account[tokens[t].email] = "active"
      \/ t \in cutShort
      \/ \E r \in Requests : At(r, "grant") /\ request[r].token = t
=============================================================================
