------------------------------- MODULE OtpProofs -------------------------------
(***************************************************************************)
(* One-time codes, for any number of emails, requests, codes and attempts: *)
(* no guess is uncounted, one code is pending, purposes are kept apart and *)
(* a dead code stays dead, whether or not requests die.                    *)
(***************************************************************************)
EXTENDS OtpVerification, SequenceTheorems, FiniteSetTheorems, TLAPS

(* What the proofs need of the types; the bounds of the model are left out.*)
Row == [email : Emails, purpose : Purposes, status : Statuses, attempts : Nat, age : Nat]

Known ==
  {Idle}
  \cup [step : {"register"}, email : Emails, found : {"none", "inactive"}]
  \cup [step : {"issue", "issueLock", "issueCommit"}, email : Emails, purpose : Purposes, found : SUBSET Nat]
  \cup [step : {"verify"}, token : Nat, purpose : Purposes]
  \cup [step : {"compare"}, token : Nat, purpose : Purposes, row : Row]
  \cup [step : {"grant"}, token : Nat, purpose : Purposes]

Typed ==
  /\ tokens \in Seq(Row)
  /\ account \in [Emails -> {"none", "inactive", "active"}]
  /\ grants \subseteq Tokens
  /\ lock \in Seq(Requests \cup {NoRequest}) /\ Len(lock) = Len(tokens)
  /\ tried \in Seq(Nat) /\ Len(tried) = Len(tokens)
  /\ accepted \in Seq(Nat) /\ Len(accepted) = Len(tokens)
  /\ request \in [Requests -> Known]

(* Requests speak of rows there are.                                       *)
RowsExist ==
  \A r \in Requests :
    /\ request[r].step \in {"issue", "issueLock", "issueCommit"} => request[r].found \subseteq Tokens
    /\ request[r].step \in {"verify", "compare", "grant"} => request[r].token \in Tokens

SameButAge(row, now) ==
  row.email = now.email /\ row.purpose = now.purpose /\ row.status = now.status /\ row.attempts = now.attempts

(* A request that is past its SELECT ... FOR UPDATE holds its rows, and    *)
(* they are as it read them but for their age.                             *)
LocksHeld ==
  \A r \in Requests :
    /\ At(r, "issueCommit") => \A t \in request[r].found :
         /\ lock[t] = r
         /\ tokens[t].status = "PENDING"
         /\ tokens[t].email = request[r].email /\ tokens[t].purpose = request[r].purpose
    /\ At(r, "compare") =>
         lock[request[r].token] = r /\ SameButAge(request[r].row, tokens[request[r].token])

(* EXPIRED is only ever written over a code past its time.                 *)
ExpiredIsOld == \A t \in Tokens : tokens[t].status = "EXPIRED" => Expired(tokens[t])

AtMostOne == \A t, u \in Tokens :
  /\ tokens[t].status = "PENDING" /\ tokens[u].status = "PENDING"
  /\ tokens[t].email = tokens[u].email /\ tokens[t].purpose = tokens[u].purpose
  => t = u

Counted == \A t \in Tokens :
  /\ tried[t] = tokens[t].attempts + accepted[t]
  /\ tried[t] <= Max_Attempts
  /\ accepted[t] = IF tokens[t].status = "VERIFIED" THEN 1 ELSE 0

(* A request that is about to grant something has verified its code.       *)
GrantsVerified ==
  \A r \in Requests : At(r, "grant") =>
    tokens[request[r].token].status = "VERIFIED" /\ tokens[request[r].token].purpose = request[r].purpose

IInv ==
  /\ Typed /\ RowsExist /\ LocksHeld /\ ExpiredIsOld
  /\ AtMostOne /\ Counted /\ GrantsVerified /\ GrantsEarned /\ VerifiedActivates

-----------------------------------------------------------------------------
LEMMA RowFacts ==
  ASSUME Typed
  PROVE  /\ Len(tokens) \in Nat /\ Tokens = 1 .. Len(tokens)
         /\ \A t \in Tokens : /\ tokens[t] \in Row /\ lock[t] \in Requests \cup {NoRequest}
                             /\ tried[t] \in Nat /\ accepted[t] \in Nat
         /\ DOMAIN lock = Tokens /\ DOMAIN tried = Tokens /\ DOMAIN accepted = Tokens
BY LenProperties, ElementOfSeq DEF Typed, Tokens

(* What a step tells of a request.                                         *)
LEMMA StepFacts ==
  ASSUME Typed, NEW r \in Requests
  PROVE  /\ request[r].step \in {"issue", "issueLock", "issueCommit"} =>
              request[r] \in [step : {"issue", "issueLock", "issueCommit"}, email : Emails, purpose : Purposes,
                             found : SUBSET Nat]
         /\ request[r].step = "register" =>
              request[r] \in [step : {"register"}, email : Emails, found : {"none", "inactive"}]
         /\ request[r].step = "verify" => request[r] \in [step : {"verify"}, token : Nat, purpose : Purposes]
         /\ request[r].step = "compare" =>
              request[r] \in [step : {"compare"}, token : Nat, purpose : Purposes, row : Row]
         /\ request[r].step = "grant" => request[r] \in [step : {"grant"}, token : Nat, purpose : Purposes]
<1>1. request[r] \in Known
  BY DEF Typed
<1>. QED
  BY <1>1 DEF Known, Idle

LEMMA InitInv == Init => IInv
<1> SUFFICES ASSUME Init PROVE IInv
  OBVIOUS
<1>1. tokens = << >> /\ Tokens = {} /\ Len(tokens) = 0
  BY DEF Init, Tokens
<1>2. Typed
  BY <1>1, EmptySeq DEF Init, Typed, Known
<1>3. RowsExist /\ LocksHeld /\ GrantsVerified
  BY DEF Init, RowsExist, LocksHeld, GrantsVerified, Idle, At
<1>4. ExpiredIsOld /\ AtMostOne /\ Counted /\ GrantsEarned /\ VerifiedActivates
  BY <1>1 DEF Init, ExpiredIsOld, AtMostOne, Counted, GrantsEarned, VerifiedActivates
<1>. QED
  BY <1>2, <1>3, <1>4 DEF IInv

-----------------------------------------------------------------------------
(* A request takes a step that locks, writes and grants nothing.           *)
LEMMA QuietStep ==
  ASSUME IInv, NEW r \in Requests, NEW q \in Known, Become(r, q),
         UNCHANGED <<tokens, grants, lock, history>>,
         account' \in [Emails -> {"none", "inactive", "active"}],
         \A e \in Emails : account'[e] = "active" <=> account[e] = "active",
         q.step \in {"idle", "register", "issue", "issueLock", "verify"}, ~At(r, "grant"),
         q.step \in {"issue", "issueLock"} => q.found \subseteq Tokens,
         q.step = "verify" => q.token \in Tokens
  PROVE  IInv'
<1>0. Tokens' = Tokens
  BY DEF Tokens
<1>1. \A s \in Requests : request'[s] = IF s = r THEN q ELSE request[s]
  BY DEF IInv, Typed, Become
<1>2. Typed'
  BY <1>0 DEF IInv, Typed, Become, history
<1>3. RowsExist'
  BY <1>0, <1>1 DEF IInv, RowsExist
<1>4. LocksHeld' /\ GrantsVerified'
  BY <1>1 DEF IInv, LocksHeld, GrantsVerified, At, SameButAge
<1>5. ExpiredIsOld' /\ AtMostOne' /\ Counted'
  BY <1>0 DEF IInv, ExpiredIsOld, AtMostOne, Counted, Expired, history
<1>6. \A t \in Tokens : tokens[t].email \in Emails
  BY RowFacts DEF IInv, Row
<1>7. GrantsEarned'
  BY <1>0 DEF IInv, GrantsEarned
<1>8. VerifiedActivates'
  BY <1>0, <1>1, <1>6 DEF IInv, VerifiedActivates, At, history
<1>. QED
  BY <1>2, <1>3, <1>4, <1>5, <1>7, <1>8 DEF IInv

LEMMA LockRelease ==
  ASSUME Typed, NEW r \in Requests
  PROVE  /\ ReleasedBy(r) \in Seq(Requests \cup {NoRequest}) /\ Len(ReleasedBy(r)) = Len(tokens)
         /\ \A t \in Tokens : ReleasedBy(r)[t] = IF lock[t] = r THEN NoRequest ELSE lock[t]
<1>1. /\ Len(tokens) \in Nat /\ Tokens = 1 .. Len(tokens)
      /\ \A t \in Tokens : lock[t] \in Requests \cup {NoRequest}
  BY RowFacts
<1>. QED
  BY <1>1 DEF ReleasedBy

(* A request ends, and gives up the rows it has locked.                    *)
LEMMA EndStep ==
  ASSUME IInv, NEW r \in Requests, End(r), lock' = ReleasedBy(r),
         UNCHANGED <<tokens, account, grants, tried, accepted>>,
         cutShort' = cutShort \cup (IF At(r, "grant") THEN {request[r].token} ELSE {})
  PROVE  IInv'
<1>0. Tokens' = Tokens
  BY DEF Tokens
<1>1. \A s \in Requests : request'[s] = IF s = r THEN Idle ELSE request[s]
  BY DEF IInv, Typed, Become, End
<1>2. /\ ReleasedBy(r) \in Seq(Requests \cup {NoRequest}) /\ Len(ReleasedBy(r)) = Len(tokens)
      /\ \A t \in Tokens : ReleasedBy(r)[t] = IF lock[t] = r THEN NoRequest ELSE lock[t]
  BY LockRelease DEF IInv
<1>3. Typed'
  BY <1>0, <1>2 DEF IInv, Typed, Become, End, Known
<1>4. RowsExist' /\ GrantsVerified'
  BY <1>0, <1>1 DEF IInv, RowsExist, GrantsVerified, At, Idle
<1>5. LocksHeld'
  BY <1>1, <1>2 DEF IInv, LocksHeld, RowsExist, SameButAge, At, Idle
<1>6. ExpiredIsOld' /\ AtMostOne' /\ Counted' /\ GrantsEarned'
  BY <1>0 DEF IInv, ExpiredIsOld, AtMostOne, Counted, Expired, GrantsEarned
<1>7. VerifiedActivates'
  BY <1>0, <1>1 DEF IInv, VerifiedActivates, At, Idle
<1>. QED
  BY <1>3, <1>4, <1>5, <1>6, <1>7 DEF IInv

(* A request locks rows nobody else has locked.                            *)
LEMMA LockStep ==
  ASSUME IInv, NEW r \in Requests, NEW ts \in SUBSET Tokens, NEW q \in Known, Become(r, q),
         \A t \in ts : LockFree(t, r), lock' = LockedBy(r, ts),
         UNCHANGED <<tokens, account, grants, history>>, ~At(r, "grant"),
         \/ q.step = "issueCommit" /\ q.found \subseteq ts
            /\ \A t \in q.found : /\ tokens[t].status = "PENDING"
                                 /\ tokens[t].email = q.email /\ tokens[t].purpose = q.purpose
         \/ q.step = "compare" /\ q.token \in ts /\ q.row = tokens[q.token]
  PROVE  IInv'
<1>0. Tokens' = Tokens
  BY DEF Tokens
<1>1. \A s \in Requests : request'[s] = IF s = r THEN q ELSE request[s]
  BY DEF IInv, Typed, Become
<1>2. /\ Len(tokens) \in Nat /\ Tokens = 1 .. Len(tokens)
      /\ \A t \in Tokens : lock[t] \in Requests \cup {NoRequest}
  BY RowFacts DEF IInv
<1>3. /\ lock' \in Seq(Requests \cup {NoRequest}) /\ Len(lock') = Len(tokens)
      /\ \A t \in Tokens : lock'[t] = IF t \in ts THEN r ELSE lock[t]
  BY <1>2 DEF LockedBy
<1>4. Typed'
  BY <1>0, <1>3 DEF IInv, Typed, Become, history
<1>5. RowsExist' /\ GrantsVerified'
  BY <1>0, <1>1 DEF IInv, RowsExist, GrantsVerified, At
<1>6. \A s \in Requests, t \in Tokens : s # r /\ lock[t] = s => lock'[t] = s
  BY <1>3, NoRequestAssumption DEF LockFree
<1>7. LocksHeld'
  <2>1. ASSUME NEW s \in Requests, s # r
        PROVE  /\ At(s, "issueCommit") => \A t \in request[s].found : lock'[t] = s
               /\ At(s, "compare") => lock'[request[s].token] = s
    BY <2>1, <1>6 DEF IInv, LocksHeld, RowsExist, At
  <2>2. \A t \in ts : lock'[t] = r
    BY <1>3
  <2>. QED
    BY <1>1, <2>1, <2>2 DEF IInv, LocksHeld, SameButAge, At
<1>8. ExpiredIsOld' /\ AtMostOne' /\ Counted' /\ GrantsEarned'
  BY <1>0 DEF IInv, ExpiredIsOld, AtMostOne, Counted, Expired, GrantsEarned, history
<1>9. VerifiedActivates'
  BY <1>0, <1>1 DEF IInv, VerifiedActivates, At, history
<1>. QED
  BY <1>4, <1>5, <1>7, <1>8, <1>9 DEF IInv

-----------------------------------------------------------------------------
(* What every step keeps of the rows it finds.                             *)
DeadKept == \A t \in Tokens : tokens[t].status # "PENDING" => tokens'[t].status = tokens[t].status

LEMMA IssueCommitStep ==
  ASSUME IInv, NEW r \in Requests, IssueCommit(r)
  PROVE  IInv' /\ DeadKept
<1> DEFINE q == request[r]
           n == Len(tokens) + 1
           new == NewToken(q.email, q.purpose)
           cancelled == [t \in Tokens |-> IF t \in q.found THEN [tokens[t] EXCEPT !.status = "CANCELLED"]
                                          ELSE tokens[t]]
<1>1. /\ Len(tokens) \in Nat /\ Tokens = 1 .. Len(tokens)
      /\ \A t \in Tokens : tokens[t] \in Row /\ tried[t] \in Nat /\ accepted[t] \in Nat
  BY RowFacts DEF IInv
<1>2. /\ q.step = "issueCommit" /\ q.email \in Emails /\ q.purpose \in Purposes
      /\ q.found \subseteq Tokens
  BY StepFacts DEF IInv, RowsExist, IssueCommit, At
<1>3. /\ ReleasedBy(r) \in Seq(Requests \cup {NoRequest}) /\ Len(ReleasedBy(r)) = Len(tokens)
      /\ \A t \in Tokens : ReleasedBy(r)[t] = IF lock[t] = r THEN NoRequest ELSE lock[t]
  BY LockRelease DEF IInv
<1>4. cancelled \in Seq(Row) /\ Len(cancelled) = Len(tokens) /\ new \in Row
  <2>1. \A t \in Tokens : cancelled[t] \in Row
    BY <1>1 DEF Row, Statuses
  <2>2. new \in Row
    BY <1>2 DEF Row, NewToken, Statuses
  <2>. QED
    BY <1>1, <2>1, <2>2
<1>5. /\ tokens' \in Seq(Row) /\ Len(tokens') = n /\ Tokens' = Tokens \cup {n} /\ n \notin Tokens
      /\ \A t \in Tokens : tokens'[t] = cancelled[t]
      /\ tokens'[n] = new
  <2>1. tokens' = Append(cancelled, new)
    BY DEF IssueCommit
  <2>2. /\ tokens' \in Seq(Row) /\ Len(tokens') = n
        /\ \A t \in 1 .. Len(tokens) : tokens'[t] = cancelled[t]
        /\ tokens'[n] = new
    BY <1>1, <1>4, <2>1, AppendProperties
  <2>3. Tokens' = 1 .. n
    BY <2>2, LenProperties DEF Tokens
  <2>. QED
    BY <1>1, <2>2, <2>3
<1>6. /\ lock' \in Seq(Requests \cup {NoRequest}) /\ Len(lock') = n
      /\ \A t \in Tokens : lock'[t] = IF lock[t] = r THEN NoRequest ELSE lock[t]
  <2>1. lock' = Append(ReleasedBy(r), NoRequest)
    BY DEF IssueCommit
  <2>. QED
    BY <1>1, <1>3, <2>1, AppendProperties
<1>7. /\ tried' \in Seq(Nat) /\ Len(tried') = n /\ tried'[n] = 0
      /\ accepted' \in Seq(Nat) /\ Len(accepted') = n /\ accepted'[n] = 0
      /\ \A t \in Tokens : tried'[t] = tried[t] /\ accepted'[t] = accepted[t]
  <2>1. tried' = Append(tried, 0) /\ accepted' = Append(accepted, 0)
    BY DEF IssueCommit
  <2>. QED
    BY <1>1, <2>1, AppendProperties DEF IInv, Typed
<1>8. /\ request' = [request EXCEPT ![r] = Idle]
      /\ \A s \in Requests : request'[s] = IF s = r THEN Idle ELSE request[s]
  BY DEF IInv, Typed, IssueCommit, End, Become
<1>9. UNCHANGED <<account, grants, cutShort>>
  BY DEF IssueCommit
<1>10. \A t \in Tokens : /\ tokens'[t].email = tokens[t].email /\ tokens'[t].purpose = tokens[t].purpose
                         /\ tokens'[t].attempts = tokens[t].attempts /\ tokens'[t].age = tokens[t].age
                         /\ tokens'[t].status = IF t \in q.found THEN "CANCELLED" ELSE tokens[t].status
  BY <1>1, <1>5 DEF Row
<1>11. /\ new.email = q.email /\ new.purpose = q.purpose /\ new.status = "PENDING" /\ new.attempts = 0
  BY DEF NewToken
<1>12. \A t \in q.found : lock[t] = r /\ tokens[t].status = "PENDING"
  BY <1>2 DEF IInv, LocksHeld, At
<1>13. Typed'
  <2>1. request' \in [Requests -> Known]
    BY <1>8 DEF IInv, Typed, Known
  <2>2. grants' \subseteq Tokens'
    BY <1>5, <1>9 DEF IInv, Typed
  <2>. QED
    BY <1>5, <1>6, <1>7, <1>9, <2>1, <2>2 DEF IInv, Typed
<1>14. RowsExist'
  BY <1>5, <1>8 DEF IInv, RowsExist, Idle
<1>15. LocksHeld'
  <2> SUFFICES ASSUME NEW s \in Requests, s # r
               PROVE  /\ At(s, "issueCommit") => \A t \in request[s].found :
                           /\ lock'[t] = s
                           /\ tokens'[t].status = "PENDING"
                           /\ tokens'[t].email = request[s].email /\ tokens'[t].purpose = request[s].purpose
                      /\ At(s, "compare") =>
                           /\ lock'[request[s].token] = s
                           /\ SameButAge(request[s].row, tokens'[request[s].token])
    BY <1>8 DEF LocksHeld, At, Idle, SameButAge
  <2>1. CASE At(s, "issueCommit")
    <3>1. \A t \in request[s].found : t \in Tokens /\ lock[t] = s /\ t \notin q.found
      BY <2>1, <1>12 DEF IInv, LocksHeld, RowsExist, At
    <3>. QED
      BY <2>1, <3>1, <1>6, <1>10 DEF IInv, LocksHeld, At
  <2>2. CASE At(s, "compare")
    <3>1. request[s].token \in Tokens /\ lock[request[s].token] = s /\ request[s].token \notin q.found
      BY <2>2, <1>12 DEF IInv, LocksHeld, RowsExist, At
    <3>. QED
      BY <2>2, <3>1, <1>6, <1>10 DEF IInv, LocksHeld, SameButAge, At
  <2>. QED
    BY <2>1, <2>2 DEF At
<1>16. ExpiredIsOld'
  BY <1>5, <1>10, <1>11 DEF IInv, ExpiredIsOld, Expired
<1>17. AtMostOne'
  <2>1. ASSUME NEW t \in Tokens, tokens'[t].status = "PENDING"
        PROVE  ~(tokens'[t].email = q.email /\ tokens'[t].purpose = q.purpose)
    <3>1. t \notin q.found /\ tokens[t].status = "PENDING"
      BY <2>1, <1>10
    <3>2. Pending(q.email, q.purpose) \ q.found = {}
      BY DEF IssueCommit, Conflict
    <3>. QED
      BY <3>1, <3>2, <1>10 DEF Pending
  <2>2. \A t, u \in Tokens :
          /\ tokens'[t].status = "PENDING" /\ tokens'[u].status = "PENDING"
          /\ tokens'[t].email = tokens'[u].email /\ tokens'[t].purpose = tokens'[u].purpose
          => t = u
    BY <1>10 DEF IInv, AtMostOne
  <2>. QED
    BY <2>1, <2>2, <1>5, <1>11 DEF AtMostOne
<1>18. \A t \in Tokens : tokens'[t].status = "VERIFIED" <=> tokens[t].status = "VERIFIED"
  BY <1>10, <1>12
<1>19. Counted'
  <2>1. \A t \in Tokens : /\ tried'[t] = tokens'[t].attempts + accepted'[t]
                          /\ tried'[t] <= Max_Attempts
                          /\ accepted'[t] = IF tokens'[t].status = "VERIFIED" THEN 1 ELSE 0
    BY <1>7, <1>10, <1>18 DEF IInv, Counted
  <2>2. tried'[n] = tokens'[n].attempts + accepted'[n] /\ tried'[n] <= Max_Attempts
    BY <1>5, <1>7, <1>11, LimitsAssumption
  <2>3. accepted'[n] = IF tokens'[n].status = "VERIFIED" THEN 1 ELSE 0
    BY <1>5, <1>7, <1>11
  <2>. QED
    BY <2>1, <2>2, <2>3, <1>5 DEF Counted
<1>20. GrantsVerified'
  BY <1>8, <1>10, <1>18 DEF IInv, GrantsVerified, RowsExist, At, Idle
<1>21. GrantsEarned'
  <2>1. ASSUME NEW e \in Emails, account'[e] = "active"
        PROVE  \E t \in Tokens' : /\ tokens'[t].email = e
                                  /\ tokens'[t].purpose = "EMAIL_VERIFICATION"
                                  /\ tokens'[t].status = "VERIFIED"
    <3>1. PICK t \in Tokens : /\ tokens[t].email = e
                              /\ tokens[t].purpose = "EMAIL_VERIFICATION"
                              /\ tokens[t].status = "VERIFIED"
      BY <1>9, <2>1 DEF IInv, GrantsEarned
    <3>. QED
      BY <3>1, <1>5, <1>10, <1>18
  <2>2. \A t \in grants' : tokens'[t].purpose = "PASSWORD_RESET" /\ tokens'[t].status = "VERIFIED"
    BY <1>9, <1>10, <1>18 DEF IInv, Typed, GrantsEarned
  <2>. QED
    BY <2>1, <2>2 DEF GrantsEarned
<1>22. VerifiedActivates'
  BY <1>2, <1>5, <1>8, <1>9, <1>10, <1>11, <1>18 DEF IInv, VerifiedActivates, At, Idle
<1>23. DeadKept
  BY <1>10, <1>12 DEF DeadKept
<1>. QED
  BY <1>13, <1>14, <1>15, <1>16, <1>17, <1>19, <1>20, <1>21, <1>22, <1>23 DEF IInv

(* A request that holds row k of a code that may still be checked writes   *)
(* it back as row: it ends, or it has verified the code and goes on.       *)
LEMMA WriteStep ==
  ASSUME IInv, NEW r \in Requests, At(r, "compare"),
         NEW k \in Tokens, k = request[r].token,
         NEW row \in Row, NEW x \in Nat, NEW y \in Nat, NEW q \in Known,
         tokens' = [tokens EXCEPT ![k] = row], lock' = ReleasedBy(r),
         tried' = [tried EXCEPT ![k] = x], accepted' = [accepted EXCEPT ![k] = y],
         Become(r, q), UNCHANGED <<account, grants, cutShort>>,
         row.email = tokens[k].email, row.purpose = tokens[k].purpose, row.age = tokens[k].age,
         tokens[k].status \in Checkable, tokens[k].status = "EXPIRED" => row.status = "EXPIRED",
         row.status = "EXPIRED" => Expired(row),
         x = row.attempts + y, x <= Max_Attempts, y = IF row.status = "VERIFIED" THEN 1 ELSE 0,
         \/ q = Idle /\ row.status # "VERIFIED"
         \/ q.step = "grant" /\ q.token = k /\ q.purpose = row.purpose /\ row.status = "VERIFIED"
  PROVE  IInv' /\ DeadKept
<1>1. /\ Len(tokens) \in Nat /\ Tokens = 1 .. Len(tokens)
      /\ \A t \in Tokens : tokens[t] \in Row /\ tried[t] \in Nat /\ accepted[t] \in Nat
  BY RowFacts DEF IInv
<1>2. /\ tokens' \in Seq(Row) /\ Len(tokens') = Len(tokens) /\ Tokens' = Tokens
      /\ \A t \in Tokens : tokens'[t] = IF t = k THEN row ELSE tokens[t]
  <2>1. /\ tokens' \in Seq(Row) /\ Len(tokens') = Len(tokens)
        /\ \A t \in Tokens : tokens'[t] = IF t = k THEN row ELSE tokens[t]
    BY <1>1, ExceptSeq DEF IInv, Typed
  <2>. QED
    BY <2>1, <1>1, LenProperties DEF Tokens
<1>3. /\ tried' \in Seq(Nat) /\ Len(tried') = Len(tried)
      /\ accepted' \in Seq(Nat) /\ Len(accepted') = Len(accepted)
      /\ \A t \in Tokens : /\ tried'[t] = IF t = k THEN x ELSE tried[t]
                           /\ accepted'[t] = IF t = k THEN y ELSE accepted[t]
  BY SMTT(30), <1>1, ExceptSeq DEF IInv, Typed
<1>4. /\ lock' \in Seq(Requests \cup {NoRequest}) /\ Len(lock') = Len(tokens)
      /\ \A t \in Tokens : lock'[t] = IF lock[t] = r THEN NoRequest ELSE lock[t]
  BY LockRelease DEF IInv
<1>5. \A s \in Requests : request'[s] = IF s = r THEN q ELSE request[s]
  BY DEF IInv, Typed, Become
<1>6. \A t \in Tokens : /\ tokens'[t].email = tokens[t].email /\ tokens'[t].purpose = tokens[t].purpose
                        /\ tokens[t].status = "VERIFIED" => tokens'[t].status = "VERIFIED"
  BY <1>2 DEF Checkable
<1>7. lock[k] = r
  BY DEF IInv, LocksHeld
<1>8. Typed'
  BY <1>2, <1>3, <1>4 DEF IInv, Typed, Become
<1>9. RowsExist'
  BY <1>2, <1>5 DEF IInv, RowsExist, Idle
<1>10. LocksHeld'
  <2>1. ASSUME NEW s \in Requests, s # r, At(s, "issueCommit"), NEW t \in request[s].found
        PROVE  /\ lock'[t] = s /\ tokens'[t].status = "PENDING"
               /\ tokens'[t].email = request[s].email /\ tokens'[t].purpose = request[s].purpose
    <3>1. t \in Tokens /\ lock[t] = s /\ t # k
      BY <2>1, <1>7 DEF IInv, LocksHeld, RowsExist, At
    <3>2. tokens'[t] = tokens[t] /\ lock'[t] = s
      BY <2>1, <3>1, <1>2, <1>4
    <3>. QED
      BY <2>1, <3>2 DEF IInv, LocksHeld
  <2>2. ASSUME NEW s \in Requests, s # r, At(s, "compare")
        PROVE  lock'[request[s].token] = s /\ SameButAge(request[s].row, tokens'[request[s].token])
    <3>1. /\ request[s].token \in Tokens /\ lock[request[s].token] = s /\ request[s].token # k
      BY <2>2, <1>7 DEF IInv, LocksHeld, RowsExist, At
    <3>2. tokens'[request[s].token] = tokens[request[s].token] /\ lock'[request[s].token] = s
      BY <2>2, <3>1, <1>2, <1>4
    <3>. QED
      BY <2>2, <3>2 DEF IInv, LocksHeld
  <2>3. \A s \in Requests : At(s, "issueCommit")' \/ At(s, "compare")' => s # r /\ request'[s] = request[s]
    BY <1>5 DEF At, Idle
  <2>. QED
    BY <2>1, <2>2, <2>3 DEF LocksHeld, At
<1>11. ExpiredIsOld'
  BY <1>2 DEF IInv, ExpiredIsOld, Expired
<1>12. AtMostOne'
  BY <1>2, <1>6 DEF IInv, AtMostOne, Checkable
<1>13. Counted'
  BY <1>2, <1>3 DEF IInv, Counted
<1>14. GrantsVerified'
  BY <1>2, <1>5, <1>6 DEF IInv, GrantsVerified, RowsExist, At, Idle
<1>15. GrantsEarned'
  <2>1. ASSUME NEW e \in Emails, account'[e] = "active"
        PROVE  \E t \in Tokens' : /\ tokens'[t].email = e
                                  /\ tokens'[t].purpose = "EMAIL_VERIFICATION"
                                  /\ tokens'[t].status = "VERIFIED"
    BY <1>2, <1>6, <2>1 DEF IInv, GrantsEarned
  <2>2. \A t \in grants' : tokens'[t].purpose = "PASSWORD_RESET" /\ tokens'[t].status = "VERIFIED"
    BY <1>6 DEF IInv, Typed, GrantsEarned
  <2>. QED
    BY <2>1, <2>2 DEF GrantsEarned
<1>16. VerifiedActivates'
  <2> SUFFICES ASSUME NEW t \in Tokens, tokens'[t].purpose = "EMAIL_VERIFICATION",
                      tokens'[t].status = "VERIFIED"
               PROVE  \/ account[tokens[t].email] = "active"
                      \/ t \in cutShort
                      \/ \E s \in Requests : At(s, "grant")' /\ request'[s].token = t
    BY <1>2, <1>6 DEF VerifiedActivates
  <2>1. CASE t = k
    BY <2>1, <1>2, <1>5 DEF At
  <2>2. CASE t # k
    BY <2>2, <1>2, <1>5 DEF IInv, VerifiedActivates, At
  <2>. QED
    BY <2>1, <2>2
<1>17. DeadKept
  BY <1>2 DEF DeadKept, Checkable
<1>. QED
  BY <1>8, <1>9, <1>10, <1>11, <1>12, <1>13, <1>14, <1>15, <1>16, <1>17 DEF IInv

(* Every outcome of a check of a code that may still be checked.           *)
LEMMA CheckStep ==
  ASSUME IInv, NEW r \in Requests, VerifySpent(r) \/ VerifyWrong(r) \/ VerifyRight(r)
  PROVE  IInv' /\ DeadKept
<1> DEFINE k == request[r].token
           now == RowRead(r)
<1>1. At(r, "compare") /\ now.status \in Checkable /\ request[r].row.purpose = request[r].purpose
  BY DEF VerifySpent, VerifyWrong, VerifyRight, Compare, MayCompare, RightPurpose
<1>2. /\ k \in Tokens /\ request[r].row \in Row /\ request[r].purpose \in Purposes /\ k \in Nat
      /\ SameButAge(request[r].row, tokens[k])
  BY <1>1, StepFacts DEF IInv, RowsExist, LocksHeld, At
<1>3. /\ tokens[k] \in Row /\ tokens \in Seq(Row) /\ Tokens = 1 .. Len(tokens)
      /\ tried[k] \in Nat /\ accepted[k] \in Nat
      /\ \A t \in Tokens : tried[t] \in Nat /\ accepted[t] \in Nat
      /\ DOMAIN tried = Tokens /\ DOMAIN accepted = Tokens
  BY <1>2, RowFacts DEF IInv, Typed
<1>4. now = tokens[k]
  BY <1>2, <1>3 DEF RowRead, SameButAge, Row
<1>5. tried[k] = now.attempts + accepted[k] /\ tried[k] <= Max_Attempts /\ accepted[k] = 0
  BY <1>1, <1>2, <1>4 DEF IInv, Counted, Checkable
<1>6. now.status = "EXPIRED" => Expired(now)
  BY <1>2, <1>4 DEF IInv, ExpiredIsOld
<1>7. now.purpose = request[r].purpose /\ now \in Row /\ now.attempts \in Nat
  BY <1>1, <1>2, <1>3, <1>4 DEF SameButAge, Row
<1>8. ASSUME NEW row \in Row, WriteBack(r, row), row.email = now.email, row.purpose = now.purpose, row.age = now.age
      PROVE  /\ tokens' = [tokens EXCEPT ![k] = row]
             /\ lock' = ReleasedBy(r) /\ UNCHANGED <<account, grants, cutShort>>
  <2> DEFINE written == [tokens[k] EXCEPT
                !.status = IF row.status # request[r].row.status THEN row.status ELSE tokens[k].status,
                !.attempts = IF row.attempts # request[r].row.attempts THEN row.attempts ELSE tokens[k].attempts]
  <2>1. written = row
    BY <1>2, <1>3, <1>4, <1>8 DEF SameButAge, Row
  <2>2. tokens' = [tokens EXCEPT ![k] = written]
    BY <1>8 DEF WriteBack
  <2>3. lock' = ReleasedBy(r) /\ UNCHANGED <<account, grants, cutShort>>
    BY <1>8 DEF WriteBack
  <2>. HIDE DEF written
  <2>. QED
    BY <2>1, <2>2, <2>3
<1>9. ASSUME NEW row \in Row, NEW x \in Nat, WriteBack(r, row), End(r),
             row.email = now.email, row.purpose = now.purpose, row.age = now.age,
             row.status \in {"PENDING", "LOCKED", "EXPIRED"}, row.status = "EXPIRED" <=> Expired(now),
             tried' = [tried EXCEPT ![k] = x], UNCHANGED accepted, x = row.attempts, x <= Max_Attempts
      PROVE  IInv' /\ DeadKept
  <2>1. /\ tokens' = [tokens EXCEPT ![k] = row] /\ lock' = ReleasedBy(r)
        /\ accepted' = [accepted EXCEPT ![k] = 0]
        /\ UNCHANGED <<account, grants, cutShort>>
    BY <1>3, <1>5, <1>8, <1>9 DEF IInv, Typed
  <2>2. /\ tokens[k].status \in Checkable
        /\ tokens[k].status = "EXPIRED" => row.status = "EXPIRED"
        /\ row.status = "EXPIRED" => Expired(row)
    BY <1>1, <1>4, <1>6, <1>9 DEF Expired
  <2>3. row.status # "VERIFIED" /\ x = row.attempts + 0 /\ 0 = IF row.status = "VERIFIED" THEN 1 ELSE 0
    BY <1>9 DEF Row
  <2>4. row.email = tokens[k].email /\ row.purpose = tokens[k].purpose /\ row.age = tokens[k].age
    BY <1>4, <1>9
  <2>5. Become(r, Idle) /\ Idle \in Known
    BY <1>9 DEF End, Known
  <2>6. tried' = [tried EXCEPT ![k] = x] /\ x <= Max_Attempts /\ k \in Tokens /\ k = request[r].token
    BY <1>2, <1>9
  <2>. HIDE DEF k
  <2>. QED
    BY <2>1, <2>2, <2>3, <2>4, <2>5, <2>6, <1>1, WriteStep
<1>10. CASE VerifySpent(r)
  <2> DEFINE row == [now EXCEPT !.status = IF Expired(now) THEN "EXPIRED" ELSE "LOCKED"]
  <2>1. /\ row \in Row /\ row.email = now.email /\ row.purpose = now.purpose /\ row.age = now.age
        /\ row.attempts = now.attempts /\ row.status = IF Expired(now) THEN "EXPIRED" ELSE "LOCKED"
    BY <1>7 DEF Row, Statuses
  <2>2. WriteBack(r, row) /\ End(r) /\ UNCHANGED <<tried, accepted>>
    BY <1>10 DEF VerifySpent
  <2>3. tried' = [tried EXCEPT ![k] = now.attempts] /\ now.attempts <= Max_Attempts
    BY <2>2, <1>3, <1>5, <1>7 DEF IInv, Typed
  <2>. HIDE DEF row
  <2>. QED
    BY <2>1, <2>2, <2>3, <1>7, <1>9
<1>11. CASE VerifyWrong(r)
  <2> DEFINE row == AfterWrong(now)
             n == now.attempts + 1
             st == IF n >= Max_Attempts THEN "LOCKED" ELSE "PENDING"
  <2>1. ~Expired(now) /\ now.attempts < Max_Attempts
    BY <1>7, <1>11, LimitsAssumption DEF VerifyWrong, Compare, Spent
  <2>2. now.status = "PENDING"
    BY <2>1, <1>1, <1>6 DEF Checkable
  <2>3. row = [now EXCEPT !.attempts = n, !.status = st]
    BY <2>2 DEF AfterWrong
  <2>4. n \in Nat /\ n <= Max_Attempts /\ st \in {"LOCKED", "PENDING"} /\ st \in Statuses
    BY <2>1, <1>7, LimitsAssumption DEF Statuses
  <2>5. WriteBack(r, row) /\ End(r) /\ UNCHANGED accepted /\ tried' = [tried EXCEPT ![k] = n]
    <3>1. WriteBack(r, row) /\ End(r) /\ UNCHANGED accepted /\ tried' = [tried EXCEPT ![k] = tried[k] + 1]
      BY <1>11 DEF VerifyWrong, Compare
    <3>2. tried[k] + 1 = n
      BY <1>3, <1>5, <1>7
    <3>. QED
      BY <3>1, <3>2
  <2>. HIDE DEF n, st, now, row
  <2>6. /\ row \in Row /\ row.email = now.email /\ row.purpose = now.purpose /\ row.age = now.age
        /\ row.attempts = n /\ row.status = st
    BY <2>3, <2>4, <1>7 DEF Row
  <2>. QED
    BY <2>1, <2>4, <2>5, <2>6, <1>9
<1>12. CASE VerifyRight(r)
  <2> DEFINE row == [now EXCEPT !.status = "VERIFIED"]
             q == [step |-> "grant", token |-> k, purpose |-> request[r].purpose]
  <2>1. ~Expired(now) /\ now.attempts < Max_Attempts
    BY <1>7, <1>12, LimitsAssumption DEF VerifyRight, Compare, Spent
  <2>2. /\ row \in Row /\ row.email = now.email /\ row.purpose = now.purpose /\ row.age = now.age
        /\ row.attempts = now.attempts /\ row.status = "VERIFIED"
    BY <1>7 DEF Row, Statuses
  <2>3. /\ WriteBack(r, row) /\ Become(r, q)
        /\ tried' = [tried EXCEPT ![k] = tried[k] + 1] /\ accepted' = [accepted EXCEPT ![k] = accepted[k] + 1]
    BY <1>12 DEF VerifyRight, Compare
  <2>4. tokens' = [tokens EXCEPT ![k] = row] /\ lock' = ReleasedBy(r) /\ UNCHANGED <<account, grants, cutShort>>
    BY <2>2, <2>3, <1>8
  <2>5. q \in Known /\ q.step = "grant" /\ q.token = k /\ q.purpose = now.purpose
    BY <1>2, <1>7 DEF Known
  <2>6. /\ tried[k] + 1 \in Nat /\ accepted[k] + 1 \in Nat /\ accepted[k] + 1 = 1
        /\ tried[k] + 1 = row.attempts + (accepted[k] + 1) /\ tried[k] + 1 <= Max_Attempts
    BY <2>1, <2>2, <1>3, <1>5, <1>7, LimitsAssumption
  <2>7. tokens[k].status # "EXPIRED"
    BY <2>1, <1>4, <1>6
  <2>. HIDE DEF row, q
  <2>. QED
    BY <2>2, <2>3, <2>4, <2>5, <2>6, <2>7, <1>1, <1>2, <1>3, <1>4, <1>5, WriteStep
<1>. QED
  BY <1>10, <1>11, <1>12

-----------------------------------------------------------------------------
(* A verified code activates its account, or earns a reset token.          *)
LEMMA GrantStep ==
  ASSUME IInv, NEW r \in Requests, GrantActivation(r) \/ GrantReset(r)
  PROVE  IInv'
<1> DEFINE k == request[r].token
<1>0. Tokens' = Tokens
  BY DEF Tokens, GrantActivation, GrantReset
<1>1. /\ At(r, "grant") /\ k \in Tokens /\ tokens[k].status = "VERIFIED"
      /\ tokens[k].purpose = request[r].purpose
  BY DEF IInv, RowsExist, GrantsVerified, GrantActivation, GrantReset, At
<1>2. \A s \in Requests : request'[s] = IF s = r THEN Idle ELSE request[s]
  BY DEF IInv, Typed, Become, End, GrantActivation, GrantReset
<1>3. UNCHANGED <<tokens, lock, tried, accepted, cutShort>>
  BY DEF GrantActivation, GrantReset, history
<1>4. \A t \in Tokens : tokens[t].email \in Emails
  BY RowFacts DEF IInv, Row
<1>5. ASSUME GrantActivation(r)
     PROVE  /\ GrantsEarned' /\ VerifiedActivates'
            /\ account' \in [Emails -> {"none", "inactive", "active"}] /\ grants' \subseteq Tokens
  <2>1. /\ request[r].purpose = "EMAIL_VERIFICATION" /\ UNCHANGED grants
        /\ account' = [account EXCEPT ![tokens[k].email] = "active"]
    BY <1>5 DEF GrantActivation, Activated
  <2>2. /\ account' \in [Emails -> {"none", "inactive", "active"}]
        /\ \A e \in Emails : account'[e] = IF e = tokens[k].email THEN "active" ELSE account[e]
    BY <2>1, <1>1, <1>4 DEF IInv, Typed
  <2>3. GrantsEarned'
    <3>1. ASSUME NEW e \in Emails, account'[e] = "active"
          PROVE  \E t \in Tokens : /\ tokens[t].email = e
                                   /\ tokens[t].purpose = "EMAIL_VERIFICATION"
                                   /\ tokens[t].status = "VERIFIED"
      BY <2>1, <2>2, <3>1, <1>1 DEF IInv, GrantsEarned
    <3>. QED
      BY <3>1, <2>1, <1>0, <1>3 DEF IInv, GrantsEarned
  <2>4. VerifiedActivates'
    BY <2>2, <1>0, <1>1, <1>2, <1>3, <1>4 DEF IInv, VerifiedActivates, At
  <2>5. account' \in [Emails -> {"none", "inactive", "active"}] /\ grants' \subseteq Tokens
    BY <2>1, <2>2 DEF IInv, Typed
  <2>. QED
    BY <2>3, <2>4, <2>5
<1>6. ASSUME GrantReset(r)
     PROVE  /\ GrantsEarned' /\ VerifiedActivates'
            /\ account' \in [Emails -> {"none", "inactive", "active"}] /\ grants' \subseteq Tokens
  <2>1. /\ request[r].purpose = "PASSWORD_RESET" /\ UNCHANGED account
        /\ grants' = grants \cup {k}
    BY <1>6 DEF GrantReset
  <2>2. GrantsEarned'
    BY <2>1, <1>0, <1>1, <1>3 DEF IInv, GrantsEarned
  <2>3. VerifiedActivates'
    BY <2>1, <1>0, <1>1, <1>2, <1>3 DEF IInv, VerifiedActivates, At
  <2>4. account' \in [Emails -> {"none", "inactive", "active"}] /\ grants' \subseteq Tokens
    BY <2>1, <1>1 DEF IInv, Typed
  <2>. QED
    BY <2>2, <2>3, <2>4
<1>7. /\ GrantsEarned' /\ VerifiedActivates'
      /\ account' \in [Emails -> {"none", "inactive", "active"}] /\ grants' \subseteq Tokens
  BY <1>5, <1>6
<1>8. Typed'
  <2>1. request' \in [Requests -> Known]
    BY DEF IInv, Typed, Become, End, Known, GrantActivation, GrantReset
  <2>. QED
    BY <2>1, <1>0, <1>3, <1>7 DEF IInv, Typed
<1>9. RowsExist' /\ GrantsVerified'
  BY <1>0, <1>2, <1>3 DEF IInv, RowsExist, GrantsVerified, At, Idle
<1>10. LocksHeld'
  BY <1>2, <1>3 DEF IInv, LocksHeld, SameButAge, At, Idle
<1>11. ExpiredIsOld' /\ AtMostOne' /\ Counted'
  BY <1>0, <1>3 DEF IInv, ExpiredIsOld, AtMostOne, Counted, Expired
<1>. QED
  BY <1>7, <1>8, <1>9, <1>10, <1>11 DEF IInv

(* Time passes: rows keep all but their age, and no code grows younger.    *)
LEMMA TickStep ==
  ASSUME IInv, Tick
  PROVE  IInv' /\ DeadKept
<1>1. /\ Len(tokens) \in Nat /\ Tokens = 1 .. Len(tokens)
      /\ \A t \in Tokens : tokens[t] \in Row
  BY RowFacts DEF IInv
<1>2. tokens' = [t \in Tokens |-> [tokens[t] EXCEPT !.age = IF @ <= Ttl THEN @ + 1 ELSE @]]
  BY DEF Tick
<1>3. /\ Tokens' = Tokens
      /\ \A t \in Tokens : /\ tokens'[t] \in Row /\ SameButAge(tokens[t], tokens'[t])
                           /\ Expired(tokens[t]) => Expired(tokens'[t])
  BY <1>1, <1>2, LimitsAssumption DEF Row, SameButAge, Expired, Tokens
<1>4. tokens' \in Seq(Row) /\ Len(tokens') = Len(tokens)
  BY <1>1, <1>2, <1>3
<1>5. UNCHANGED <<account, grants, lock, request, tried, accepted, cutShort>>
  BY DEF Tick, history
<1>6. Typed'
  BY <1>3, <1>4, <1>5 DEF IInv, Typed
<1>7. RowsExist'
  BY <1>3, <1>5 DEF IInv, RowsExist
<1>8. LocksHeld'
  BY <1>3, <1>5 DEF IInv, LocksHeld, RowsExist, SameButAge, At
<1>9. ExpiredIsOld'
  BY <1>3 DEF IInv, ExpiredIsOld, SameButAge
<1>10. AtMostOne' /\ Counted'
  BY <1>3, <1>5 DEF IInv, AtMostOne, Counted, SameButAge
<1>11. GrantsVerified' /\ GrantsEarned'
  <2>1. GrantsVerified'
    BY <1>3, <1>5 DEF IInv, RowsExist, GrantsVerified, SameButAge, At
  <2>2. \A e \in Emails : account[e] = "active" =>
          \E t \in Tokens : /\ tokens'[t].email = e
                            /\ tokens'[t].purpose = "EMAIL_VERIFICATION"
                            /\ tokens'[t].status = "VERIFIED"
    BY <1>3 DEF IInv, GrantsEarned, SameButAge
  <2>3. \A t \in grants : tokens'[t].purpose = "PASSWORD_RESET" /\ tokens'[t].status = "VERIFIED"
    BY <1>3 DEF IInv, Typed, GrantsEarned, SameButAge
  <2>. QED
    BY <2>1, <2>2, <2>3, <1>3, <1>5 DEF GrantsEarned
<1>12. VerifiedActivates'
  BY <1>3, <1>5 DEF IInv, VerifiedActivates, SameButAge, At
<1>13. DeadKept
  BY <1>3 DEF DeadKept, SameButAge
<1>. QED
  BY <1>6, <1>7, <1>8, <1>9, <1>10, <1>11, <1>12, <1>13 DEF IInv

-----------------------------------------------------------------------------
(* The steps that begin a request.                                         *)
LEMMA BeginStep ==
  ASSUME IInv, NEW r \in Requests, Begin(r)
  PROVE  IInv' /\ DeadKept
<1>1. /\ Tokens = 1 .. Len(tokens) /\ Len(tokens) \in Nat
      /\ \A t \in Tokens : tokens[t].email \in Emails /\ tokens[t].purpose \in Purposes
  BY RowFacts DEF IInv, Row
<1>2. ASSUME NEW e \in Emails, NEW p \in Purposes, StartIssue(r, e, p)
      PROVE  IInv' /\ DeadKept
  <2>1. Issue(e, p) \in Known /\ Issue(e, p).step = "issue" /\ Issue(e, p).found \subseteq Tokens
    BY DEF Issue, Known
  <2>2. /\ Become(r, Issue(e, p)) /\ ~At(r, "grant")
        /\ UNCHANGED <<tokens, account, grants, lock, history>>
    BY <1>2 DEF StartIssue, At, Idle
  <2>3. IInv'
    BY <2>1, <2>2, QuietStep DEF IInv, Typed
  <2>. QED
    BY <2>2, <2>3 DEF DeadKept
<1>3. ASSUME NEW e \in Emails, RegisterRead(r, e)
      PROVE  IInv' /\ DeadKept
  <2> DEFINE q == [step |-> "register", email |-> e, found |-> account[e]]
  <2>1. q \in Known /\ q.step = "register"
    BY <1>3 DEF RegisterRead, IInv, Typed, Known
  <2>2. /\ Become(r, q) /\ ~At(r, "grant")
        /\ UNCHANGED <<tokens, account, grants, lock, history>>
    BY <1>3 DEF RegisterRead, At, Idle
  <2>. HIDE DEF q
  <2>3. IInv'
    BY <2>1, <2>2, QuietStep DEF IInv, Typed
  <2>. QED
    BY <2>2, <2>3 DEF DeadKept
<1>4. ASSUME NEW t \in Tokens, NEW p \in Purposes, VerifyStart(r, t, p)
      PROVE  IInv' /\ DeadKept
  <2> DEFINE q == [step |-> "verify", token |-> t, purpose |-> p]
  <2>1. q \in Known /\ q.step = "verify" /\ q.token = t
    BY <1>1 DEF Known
  <2>2. /\ Become(r, q) /\ ~At(r, "grant")
        /\ UNCHANGED <<tokens, account, grants, lock, history>>
    BY <1>4 DEF VerifyStart, At, Idle
  <2>. HIDE DEF q
  <2>3. IInv'
    BY <2>1, <2>2, QuietStep DEF IInv, Typed
  <2>. QED
    BY <2>2, <2>3 DEF DeadKept
<1>. QED
  BY <1>1, <1>2, <1>3, <1>4 DEF Begin, Forgot, LoginInactive, Resend, Purposes

(* The steps of a request before it locks anything.                        *)
LEMMA EarlyStep ==
  ASSUME IInv, NEW r \in Requests, RegisterCommit(r) \/ RegisterConflict(r) \/ IssueSelect(r)
  PROVE  IInv' /\ DeadKept
<1>1. Tokens = 1 .. Len(tokens) /\ Len(tokens) \in Nat
  BY RowFacts DEF IInv
<1>2. Idle \in Known /\ Idle.step = "idle"
  BY DEF Known, Idle
<1>3. CASE RegisterCommit(r)
  <2> DEFINE e == request[r].email
  <2>1. e \in Emails /\ ~At(r, "grant")
    BY <1>3, StepFacts DEF IInv, RegisterCommit, At
  <2>2. /\ Issue(e, "EMAIL_VERIFICATION") \in Known /\ Issue(e, "EMAIL_VERIFICATION").step = "issue"
        /\ Issue(e, "EMAIL_VERIFICATION").found \subseteq Tokens
    BY <2>1 DEF Issue, Known, Purposes
  <2>3. /\ account' \in [Emails -> {"none", "inactive", "active"}]
        /\ \A d \in Emails : account'[d] = "active" <=> account[d] = "active"
    BY <1>3, <2>1 DEF RegisterCommit, IInv, Typed
  <2>4. Become(r, Issue(e, "EMAIL_VERIFICATION")) /\ UNCHANGED <<tokens, grants, lock, history>>
    BY <1>3 DEF RegisterCommit
  <2>5. IInv'
    BY <2>1, <2>2, <2>3, <2>4, QuietStep
  <2>. QED
    BY <2>4, <2>5 DEF DeadKept
<1>4. CASE RegisterConflict(r)
  <2>1. Become(r, Idle) /\ ~At(r, "grant") /\ UNCHANGED <<tokens, account, grants, lock, history>>
    BY <1>4 DEF RegisterConflict, End, At
  <2>2. IInv'
    BY <2>1, <1>2, QuietStep DEF IInv, Typed
  <2>. QED
    BY <2>1, <2>2 DEF DeadKept
<1>5. CASE IssueSelect(r)
  <2> DEFINE q == [request[r] EXCEPT !.step = "issueLock", !.found = Pending(request[r].email, request[r].purpose)]
  <2>1. /\ Pending(request[r].email, request[r].purpose) \subseteq Tokens
        /\ Pending(request[r].email, request[r].purpose) \subseteq Nat
    BY <1>1 DEF Pending
  <2>2. request[r] \in [step : {"issue", "issueLock", "issueCommit"}, email : Emails, purpose : Purposes,
                        found : SUBSET Nat]
    BY <1>5, StepFacts DEF IssueSelect, IInv, At
  <2>4. q \in [step : {"issueLock"}, email : Emails, purpose : Purposes, found : SUBSET Nat]
    BY <1>1, <2>1, <2>2
  <2>5. q \in Known /\ q.step = "issueLock" /\ q.found \subseteq Tokens
    BY <2>1, <2>2, <2>4 DEF Known
  <2>3. Become(r, q) /\ ~At(r, "grant") /\ UNCHANGED <<tokens, account, grants, lock, history>>
    BY <1>5 DEF IssueSelect, At
  <2>. HIDE DEF q
  <2>6. IInv'
    BY <2>5, <2>3, QuietStep DEF IInv, Typed
  <2>. QED
    BY <2>3, <2>6 DEF DeadKept
<1>. QED
  BY <1>3, <1>4, <1>5

(* The steps at which a SELECT ... FOR UPDATE gets its rows.               *)
LEMMA LockingStep ==
  ASSUME IInv, NEW r \in Requests, IssueLock(r) \/ VerifySelect(r)
  PROVE  IInv' /\ DeadKept
<1>1. /\ Tokens = 1 .. Len(tokens) /\ Len(tokens) \in Nat
      /\ \A t \in Tokens : tokens[t] \in Row
  BY RowFacts DEF IInv
<1>2. CASE IssueLock(r)
  <2> DEFINE ts == request[r].found
             q == [request[r] EXCEPT !.step = "issueCommit",
                                     !.found = @ \cap Pending(request[r].email, request[r].purpose)]
  <2>1. /\ request[r].step = "issueLock" /\ ts \subseteq Tokens
        /\ request[r] \in [step : {"issue", "issueLock", "issueCommit"}, email : Emails, purpose : Purposes,
                           found : SUBSET Nat]
    BY <1>2, StepFacts DEF IssueLock, IInv, RowsExist, At
  <2>2. /\ q \in Known /\ q.step = "issueCommit" /\ q.email = request[r].email
        /\ q.purpose = request[r].purpose /\ q.found = ts \cap Pending(request[r].email, request[r].purpose)
    BY <1>1, <2>1 DEF Known
  <2>3. /\ Become(r, q) /\ ~At(r, "grant") /\ lock' = LockedBy(r, ts) /\ \A t \in ts : LockFree(t, r)
        /\ UNCHANGED <<tokens, account, grants, history>>
    BY <1>2 DEF IssueLock, At
  <2>. HIDE DEF q
  <2>4. q.found \subseteq ts /\ \A t \in q.found : /\ tokens[t].status = "PENDING"
                                                  /\ tokens[t].email = q.email /\ tokens[t].purpose = q.purpose
    BY <2>2 DEF Pending
  <2>5. IInv'
    BY <2>1, <2>2, <2>3, <2>4, LockStep
  <2>. QED
    BY <2>3, <2>5 DEF DeadKept
<1>3. CASE VerifySelect(r)
  <2> DEFINE k == request[r].token
             q == [step |-> "compare", token |-> k, purpose |-> request[r].purpose, row |-> tokens[k]]
  <2>1. k \in Tokens /\ k \in Nat /\ request[r].purpose \in Purposes
    BY <1>3, StepFacts DEF VerifySelect, IInv, RowsExist, At
  <2>2. q \in Known /\ q.step = "compare" /\ q.token = k /\ q.row = tokens[k]
    BY <1>1, <2>1 DEF Known
  <2>3. /\ Become(r, q) /\ ~At(r, "grant") /\ lock' = LockedBy(r, {k}) /\ LockFree(k, r)
        /\ UNCHANGED <<tokens, account, grants, history>>
    BY <1>3 DEF VerifySelect, At
  <2>. HIDE DEF q
  <2>4. IInv'
    BY <2>1, <2>2, <2>3, LockStep
  <2>. QED
    BY <2>3, <2>4 DEF DeadKept
<1>. QED
  BY <1>2, <1>3

LEMMA NextInv == IInv /\ [Next]_vars => IInv' /\ (DeadKept \/ UNCHANGED vars)
<1> SUFFICES ASSUME IInv, [Next]_vars
             PROVE  IInv' /\ (DeadKept \/ UNCHANGED vars)
  OBVIOUS
<1>1. CASE UNCHANGED vars
  <2>1. UNCHANGED <<tokens, account, grants, lock, request, tried, accepted, cutShort>> /\ Tokens' = Tokens
    BY <1>1 DEF vars, history, Tokens
  <2>2. Typed' /\ RowsExist' /\ LocksHeld' /\ ExpiredIsOld' /\ AtMostOne' /\ Counted' /\ GrantsVerified'
    BY <2>1 DEF IInv, Typed, RowsExist, LocksHeld, ExpiredIsOld, AtMostOne, Counted, GrantsVerified,
                At, SameButAge, Expired
  <2>3. GrantsEarned' /\ VerifiedActivates'
    BY <2>1 DEF IInv, GrantsEarned, VerifiedActivates, At
  <2>. QED
    BY <1>1, <2>2, <2>3 DEF IInv
<1>2. ASSUME Environment PROVE IInv' /\ DeadKept
  <2>1. CASE Tick
    BY <2>1, TickStep
  <2>2. ASSUME NEW t \in Tokens, ExpireGrant(t) PROVE IInv' /\ DeadKept
    <3>1. /\ UNCHANGED <<tokens, account, lock, request, tried, accepted, cutShort>> /\ Tokens' = Tokens
          /\ grants' \subseteq grants
      BY <2>2 DEF ExpireGrant, history, Tokens
    <3>2. Typed' /\ RowsExist' /\ LocksHeld' /\ ExpiredIsOld' /\ AtMostOne' /\ Counted' /\ GrantsVerified'
      BY <3>1 DEF IInv, Typed, RowsExist, LocksHeld, ExpiredIsOld, AtMostOne, Counted, GrantsVerified,
                  At, SameButAge, Expired
    <3>3. GrantsEarned' /\ VerifiedActivates'
      BY <3>1 DEF IInv, GrantsEarned, VerifiedActivates, At
    <3>. QED
      BY <3>1, <3>2, <3>3 DEF IInv, DeadKept
  <2>3. ASSUME NEW r \in Requests, Die(r) PROVE IInv' /\ DeadKept
    <3>1. IInv'
      BY <2>3, EndStep DEF Die
    <3>. QED
      BY <2>3, <3>1 DEF Die, DeadKept
  <2>. QED
    BY <1>2, <2>1, <2>2, <2>3 DEF Environment
<1>3. ASSUME NEW r \in Requests, Continue(r) PROVE IInv' /\ DeadKept
  <2>1. CASE RegisterCommit(r) \/ RegisterConflict(r) \/ IssueSelect(r)
    BY <2>1, EarlyStep
  <2>2. CASE IssueLock(r) \/ VerifySelect(r)
    BY <2>2, LockingStep
  <2>3. CASE IssueRefused(r) \/ VerifyRefused(r)
    <3>1. ~At(r, "grant") /\ End(r) /\ lock' = ReleasedBy(r) /\ UNCHANGED <<tokens, account, grants, history>>
      BY <2>3 DEF IssueRefused, VerifyRefused, At
    <3>2. IInv'
      BY <3>1, EndStep DEF history
    <3>. QED
      BY <3>1, <3>2 DEF DeadKept
  <2>4. CASE IssueCommit(r)
    BY <2>4, IssueCommitStep
  <2>5. CASE VerifySpent(r) \/ VerifyWrong(r) \/ VerifyRight(r)
    BY <2>5, CheckStep
  <2>6. CASE GrantActivation(r) \/ GrantReset(r)
    <3>1. IInv' /\ UNCHANGED tokens
      BY <2>6, GrantStep DEF GrantActivation, GrantReset
    <3>. QED
      BY <3>1 DEF DeadKept
  <2>. QED
    BY <1>3, <2>1, <2>2, <2>3, <2>4, <2>5, <2>6 DEF Continue
<1>. QED
  BY <1>1, <1>2, <1>3, BeginStep DEF Next

-----------------------------------------------------------------------------
(* The inductive invariant holds in every state of the requests'           *)
(* interleavings.                                                          *)
THEOREM InvariantHolds == Spec => []IInv
<1>1. IInv /\ [Next]_vars => IInv'
  BY NextInv
<1>. QED
  BY InitInv, <1>1, PTL DEF Spec

(* No comparison of a code is lost to a race, none is made past            *)
(* Max_Attempts, and a code is accepted once: verify_otp under its row     *)
(* lock, for any number of requests at once.                               *)
THEOREM AttemptsAlwaysCounted == Spec => []AttemptsCounted
<1>1. IInv => AttemptsCounted
  BY DEF IInv, Counted, AttemptsCounted
<1>. QED
  BY InvariantHolds, <1>1, PTL

(* create_verification_token leaves at most one code of an email and       *)
(* purpose pending, however many requests issue one at once.               *)
THEOREM OneCodePending == Spec => []OnePending
<1>1. IInv => OnePending
  <2> SUFFICES ASSUME IInv, NEW e \in Emails, NEW p \in Purposes
               PROVE  Cardinality(Pending(e, p)) <= 1
    BY DEF OnePending
  <2>1. CASE Pending(e, p) = {}
    BY <2>1, FS_EmptySet
  <2>2. CASE Pending(e, p) # {}
    <3>1. PICK t : t \in Pending(e, p)
      BY <2>2
    <3>2. Pending(e, p) = {t}
      BY <3>1 DEF Pending, IInv, AtMostOne
    <3>. QED
      BY <3>2, FS_Singleton
  <2>. QED
    BY <2>1, <2>2
<1>. QED
  BY InvariantHolds, <1>1, PTL

(* Only a verified activation code makes an account active, and only a     *)
(* verified reset code a reset token.                                      *)
THEOREM GrantsAlwaysEarned == Spec => []GrantsEarned
<1>1. IInv => GrantsEarned
  BY DEF IInv
<1>. QED
  BY InvariantHolds, <1>1, PTL

(* A verified activation code leaves its account inactive only while its   *)
(* request is between the two commits, or when it died there.              *)
THEOREM VerifiedAlwaysActivates == Spec => []VerifiedActivates
<1>1. IInv => VerifiedActivates
  BY DEF IInv
<1>. QED
  BY InvariantHolds, <1>1, PTL

(* No step of any request brings a superseded, used, locked or expired     *)
(* code back.                                                              *)
THEOREM DeadCodesStayDead == Spec => DeadStaysDead
<1>1. IInv /\ [Next]_vars => [DeadKept]_vars
  BY NextInv
<1>2. [][DeadKept]_vars => DeadStaysDead
  BY PTL DEF DeadStaysDead, DeadKept
<1>. QED
  BY InvariantHolds, <1>1, <1>2, PTL DEF Spec
===============================================================================
