----------------------------- MODULE SessionProofs -----------------------------
(***************************************************************************)
(* Refresh sessions, for any number of users, sessions, requests and       *)
(* changes of password: rotation leaves a trail, a session that rests on a *)
(* replaced password is accounted for, and a user who is signed out stays  *)
(* so, whether or not requests die.                                        *)
(***************************************************************************)
EXTENDS AuthSessions, SequenceTheorems, TLAPS

(* What the proofs need of the types; the bounds of the model are left out.*)
Row == [user : Users, revoked : BOOLEAN, expired : BOOLEAN, replacedBy : Nat]

Known == [step : Steps, user : Users \cup {NoUser}, jti : Nat, fresh : Nat, shown : Nat]

Typed ==
  /\ sessions \in Seq(Row)
  /\ password \in [Users -> Nat]
  /\ request \in [Requests -> Known]
  /\ vouched \in Seq(Nat) /\ Len(vouched) = Len(sessions)
  /\ parent \in Seq(Nat) /\ Len(parent) = Len(sessions)

(* Whoever is at work acts for a user; a rotation works on a session of    *)
(* that user.                                                              *)
ActsForUser == \A r \in Requests : request[r] # Idle => request[r].user \in Users

WorksOnSession ==
  \A r \in Requests :
    /\ request[r].step \in {"rotate", "revokeOne", "logout"} => request[r].jti \in Jtis
    /\ At(r, "rotate") => sessions[request[r].jti].user = request[r].user

(* A change of password is on its way to its revocation, or died before.   *)
Pending(u) ==
  \/ u \in cutShort
  \/ \E r \in Requests : request[r].user = u /\ request[r].step \in {"changeRevoke", "resetRevoke"}

(* A request that will create a session vouches for it with the password   *)
(* in force, unless a revocation is to come or has overtaken it.           *)
Vouches ==
  \A r \in Requests :
    /\ request[r].step \in {"login", "changeCreate"} =>
         \/ request[r].shown = password[request[r].user]
         \/ r \in overtaken \/ Pending(request[r].user)
    /\ At(r, "rotate") =>
         \/ vouched[request[r].jti] = password[request[r].user]
         \/ request[r].jti \in survivors
         \/ r \in overtaken \/ Pending(request[r].user)

StaleExplained ==
  \A j \in Jtis : Live(j) /\ vouched[j] # password[sessions[j].user] =>
    j \in survivors \/ Pending(sessions[j].user)

IInv == Typed /\ ActsForUser /\ WorksOnSession /\ Vouches /\ StaleExplained /\ LineageSound

-----------------------------------------------------------------------------
LEMMA RowFacts ==
  ASSUME Typed
  PROVE  /\ Len(sessions) \in Nat /\ Jtis = 1 .. Len(sessions)
         /\ \A j \in Jtis : sessions[j] \in Row /\ vouched[j] \in Nat /\ parent[j] \in Nat
         /\ DOMAIN vouched = Jtis /\ DOMAIN parent = Jtis
BY LenProperties, ElementOfSeq DEF Typed, Jtis

LEMMA IdleKnown == Idle \in Known /\ Idle.step = "idle" /\ Idle.user = NoUser
BY DEF Idle, Known, Steps, NoJti

LEMMA InitInv == Init => IInv
<1> SUFFICES ASSUME Init PROVE IInv
  OBVIOUS
<1>1. Jtis = {} /\ Len(sessions) = 0
  BY DEF Init, Jtis
<1>2. Typed
  BY <1>1, IdleKnown, EmptySeq DEF Init, Typed
<1>3. ActsForUser /\ WorksOnSession /\ Vouches
  BY IdleKnown DEF Init, ActsForUser, WorksOnSession, Vouches, At
<1>4. StaleExplained /\ LineageSound
  BY <1>1 DEF StaleExplained, LineageSound
<1>. QED
  BY <1>2, <1>3, <1>4 DEF IInv

(* The rows a step may leave: no session changes hands or comes back to    *)
(* life, and replacedBy is set only as a rotation sets it.                 *)
Dwindled ==
  /\ sessions' \in Seq(Row) /\ Len(sessions') = Len(sessions) /\ Jtis' = Jtis
  /\ \A j \in Jtis : /\ sessions'[j].user = sessions[j].user
                     /\ sessions'[j].replacedBy = sessions[j].replacedBy
                     /\ sessions[j].revoked => sessions'[j].revoked
                     /\ sessions[j].expired => sessions'[j].expired

(* A step of request r that adds no row: it goes on to q, which vouches.   *)
LEMMA PlainStep ==
  ASSUME IInv, NEW r \in Requests, NEW q \in Known, request' = [request EXCEPT ![r] = q], Dwindled,
         password' \in [Users -> Nat], UNCHANGED <<vouched, parent, survivors>>,
         q = Idle \/ q.user \in Users,
         q.step \in {"rotate", "revokeOne", "logout"} => q.jti \in Jtis,
         q.step = "rotate" => sessions[q.jti].user = q.user,
         \A u \in Users : password'[u] = password[u] \/ Pending(u)',
         \A u \in Users : Pending(u) => Pending(u)' ,
         overtaken \ {r} \subseteq overtaken',
         q.step \in {"login", "changeCreate"} => q.shown = password'[q.user] \/ r \in overtaken' \/ Pending(q.user)',
         q.step = "rotate" => \/ vouched[q.jti] = password'[q.user]
                              \/ q.jti \in survivors
                              \/ r \in overtaken' \/ Pending(q.user)'
  PROVE  IInv'
<1>1. \A s \in Requests : request'[s] = IF s = r THEN q ELSE request[s]
  BY DEF IInv, Typed
<1>2. /\ Jtis' = Jtis /\ \A j \in Jtis : sessions'[j].user = sessions[j].user /\ sessions[j].user \in Users
  BY RowFacts DEF IInv, Row, Dwindled
<1>3. Typed'
  BY DEF IInv, Typed, Dwindled
<1>4. ActsForUser'
  BY <1>1 DEF IInv, ActsForUser
<1>5. WorksOnSession'
  BY <1>1, <1>2 DEF IInv, WorksOnSession, At
<1>6. Vouches'
  <2> SUFFICES ASSUME NEW s \in Requests, s # r
               PROVE  /\ request[s].step \in {"login", "changeCreate"} =>
                           \/ request[s].shown = password'[request[s].user]
                           \/ s \in overtaken' \/ Pending(request[s].user)'
                      /\ At(s, "rotate") =>
                           \/ vouched[request[s].jti] = password'[request[s].user]
                           \/ request[s].jti \in survivors
                           \/ s \in overtaken' \/ Pending(request[s].user)'
    BY <1>1 DEF Vouches, At
  <2>1. request[s].step \in {"login", "changeCreate", "rotate"} => request[s].user \in Users
    BY IdleKnown DEF IInv, ActsForUser
  <2>. QED
    BY <2>1 DEF IInv, Vouches, At
<1>7. StaleExplained'
  BY SMTT(30), <1>2 DEF IInv, StaleExplained, Live, Dwindled
<1>8. LineageSound'
  BY <1>2 DEF IInv, LineageSound, Dwindled
<1>. QED
  BY <1>3, <1>4, <1>5, <1>6, <1>7, <1>8 DEF IInv

(* The answer of a request is on its way.                                  *)
LEMMA RespondKnown ==
  ASSUME IInv, NEW r \in Requests, request[r].user \in Users, NEW j \in Nat
  PROVE  LET q == [Idle EXCEPT !.step = "respond", !.user = request[r].user, !.fresh = j]
         IN  q \in Known /\ q.step = "respond" /\ q.user = request[r].user
BY DEF Idle, Known, Steps, NoJti

(* A request revokes every session of its user, and with that makes good a *)
(* change of password that had died before its revocation.                 *)
LEMMA SweepStep ==
  ASSUME IInv, NEW r \in Requests, NEW u \in Users, request[r].user = u,
         revoke_all_user_sessions(r, u), UNCHANGED password,
         NEW q \in Known, request' = [request EXCEPT ![r] = q], q.user = u,
         \/ q.step = "respond"
         \/ q.step = "changeCreate" /\ q.shown = request[r].shown /\ At(r, "changeRevoke")
  PROVE  IInv'
<1> DEFINE new == [j \in Jtis |-> IF j \in ToRevoke(u) THEN Revoked(sessions[j]) ELSE sessions[j]]
<1>1. /\ Len(sessions) \in Nat /\ Jtis = 1 .. Len(sessions)
      /\ \A j \in Jtis : sessions[j] \in Row
  BY RowFacts DEF IInv
<1>2. \A s \in Requests : request'[s] = IF s = r THEN q ELSE request[s]
  BY DEF IInv, Typed
<1>3. /\ overtaken' = overtaken \cup LeftBehind(r, u) /\ cutShort' = cutShort \ {u}
      /\ UNCHANGED <<vouched, parent, survivors>>
  BY DEF revoke_all_user_sessions
<1>4. sessions' \in Seq(Row) /\ Len(sessions') = Len(sessions) /\ Jtis' = Jtis
  <2>1. \A j \in Jtis : new[j] \in Row
    BY <1>1 DEF Revoked, Row
  <2>2. new \in Seq(Row) /\ Len(new) = Len(sessions) /\ sessions' = new
    BY <1>1, <2>1 DEF revoke_all_user_sessions
  <2>. QED
    BY <2>2, <1>1, LenProperties DEF Jtis
<1>5. \A j \in Jtis : /\ sessions'[j].user = sessions[j].user
                      /\ sessions'[j].replacedBy = sessions[j].replacedBy
                      /\ sessions'[j].expired = sessions[j].expired
                      /\ sessions[j].revoked => sessions'[j].revoked
                      /\ sessions[j].user = u => sessions'[j].revoked
  BY <1>1 DEF revoke_all_user_sessions, Revoked, ToRevoke, SessionsOf, Row
<1>6. \A s \in Requests : s # r /\ request[s].user = u /\ request[s].step \in {"login", "changeCreate", "rotate"}
        => s \in overtaken'
  BY <1>3 DEF LeftBehind, Creating
<1>7. \A w \in Users : w # u /\ Pending(w) => Pending(w)'
  BY <1>2, <1>3 DEF Pending
<1>8. Typed'
  BY <1>3, <1>4 DEF IInv, Typed
<1>9. ActsForUser'
  BY <1>2 DEF IInv, ActsForUser
<1>10. WorksOnSession'
  BY <1>2, <1>4, <1>5 DEF IInv, WorksOnSession, At
<1>11. Vouches'
  <2>1. ASSUME NEW s \in Requests, s # r
        PROVE  /\ request[s].step \in {"login", "changeCreate"} =>
                    \/ request[s].shown = password[request[s].user]
                    \/ s \in overtaken' \/ Pending(request[s].user)'
               /\ At(s, "rotate") =>
                    \/ vouched[request[s].jti] = password[request[s].user]
                    \/ request[s].jti \in survivors
                    \/ s \in overtaken' \/ Pending(request[s].user)'
    <3>1. request[s].step \in {"login", "changeCreate", "rotate"} => request[s].user \in Users
      BY IdleKnown DEF IInv, ActsForUser
    <3>. QED
      BY <2>1, <3>1, <1>3, <1>6, <1>7 DEF IInv, Vouches, At
  <2>2. q.step = "changeCreate" => q.shown = password[u] \/ r \in overtaken'
    BY <1>3 DEF LeftBehind, Creating, At
  <2>. QED
    BY <2>1, <2>2, <1>2, <1>3 DEF Vouches, At
<1>12. StaleExplained'
  <2>1. \A j \in Jtis : sessions[j].user \in Users
    BY <1>1 DEF Row
  <2>. QED
    BY <2>1, <1>3, <1>4, <1>5, <1>7 DEF IInv, StaleExplained, Live
<1>13. LineageSound'
  BY <1>3, <1>4, <1>5 DEF IInv, LineageSound
<1>. QED
  BY <1>8, <1>9, <1>10, <1>11, <1>12, <1>13 DEF IInv

(* A request adds the session it vouches for, in the place of p if it      *)
(* rotates.                                                                *)
LEMMA CreateStep ==
  ASSUME IInv, NEW r \in Requests, NEW u \in Users, request[r].user = u,
         request[r].step \in {"login", "changeCreate", "rotate"},
         NEW p \in Nat, NEW shown \in Nat, Remember(r, p, shown), UNCHANGED password,
         NEW n \in Nat, n = NewJti,
         sessions' \in Seq(Row), Len(sessions') = n, sessions'[n].user = u, sessions'[n].replacedBy = NoJti,
         \A j \in Jtis : /\ sessions'[j].user = sessions[j].user
                         /\ sessions[j].revoked => sessions'[j].revoked
                         /\ sessions[j].expired => sessions'[j].expired
                         /\ \/ sessions'[j].replacedBy = sessions[j].replacedBy
                            \/ j = p /\ sessions'[j].replacedBy = n /\ sessions'[j].revoked,
         p \in Jtis => sessions[p].user = u,
         shown = password[u] \/ r \in overtaken \/ p \in survivors \/ Pending(u),
         request' \in [Requests -> Known], request'[r].user = u, request'[r].step = "respond",
         \A s \in Requests : s # r => request'[s] = request[s]
  PROVE  IInv'
<1>1. /\ Len(sessions) \in Nat /\ Jtis = 1 .. Len(sessions) /\ n = Len(sessions) + 1 /\ n \notin Jtis
      /\ \A j \in Jtis : sessions[j] \in Row /\ vouched[j] \in Nat /\ parent[j] \in Nat
  BY RowFacts DEF IInv, NewJti
<1>2. Jtis' = Jtis \cup {n}
  <2>1. Jtis' = 1 .. n
    BY LenProperties DEF Jtis
  <2>. QED
    BY <1>1, <2>1
<1>3. /\ vouched' \in Seq(Nat) /\ Len(vouched') = n /\ vouched'[n] = shown
      /\ parent' \in Seq(Nat) /\ Len(parent') = n /\ parent'[n] = p
      /\ \A j \in Jtis : vouched'[j] = vouched[j] /\ parent'[j] = parent[j]
  <2>1. vouched' = Append(vouched, shown) /\ parent' = Append(parent, p)
    BY DEF Remember
  <2>. QED
    BY <1>1, <2>1, AppendProperties DEF IInv, Typed
<1>4. /\ survivors \subseteq survivors' /\ overtaken' = overtaken \ {r} /\ cutShort' = cutShort
      /\ r \in overtaken \/ p \in survivors => n \in survivors'
  BY DEF Remember
<1>5. \A w \in Users : Pending(w) => Pending(w)'
  BY <1>4 DEF Pending
<1>6. Typed'
  BY <1>3 DEF IInv, Typed
<1>7. ActsForUser'
  BY DEF IInv, ActsForUser
<1>8. WorksOnSession'
  BY <1>2 DEF IInv, WorksOnSession, At
<1>9. Vouches'
  <2> SUFFICES ASSUME NEW s \in Requests, s # r
               PROVE  /\ request[s].step \in {"login", "changeCreate"} =>
                           \/ request[s].shown = password[request[s].user]
                           \/ s \in overtaken' \/ Pending(request[s].user)'
                      /\ At(s, "rotate") =>
                           \/ vouched'[request[s].jti] = password[request[s].user]
                           \/ request[s].jti \in survivors'
                           \/ s \in overtaken' \/ Pending(request[s].user)'
    BY DEF Vouches, At
  <2>1. request[s].step \in {"login", "changeCreate", "rotate"} => request[s].user \in Users
    BY IdleKnown DEF IInv, ActsForUser
  <2>2. At(s, "rotate") => request[s].jti \in Jtis
    BY DEF IInv, WorksOnSession, At
  <2>3. request[s].user \in Users => (Pending(request[s].user) => Pending(request[s].user)')
    BY <1>5
  <2>4. s \in overtaken => s \in overtaken'
    BY <1>4
  <2>5. At(s, "rotate") => /\ vouched'[request[s].jti] = vouched[request[s].jti]
                           /\ request[s].jti \in survivors => request[s].jti \in survivors'
    BY <2>2, <1>3, <1>4
  <2>6. /\ request[s].step \in {"login", "changeCreate"} =>
             \/ request[s].shown = password[request[s].user]
             \/ s \in overtaken \/ Pending(request[s].user)
        /\ At(s, "rotate") =>
             \/ vouched[request[s].jti] = password[request[s].user]
             \/ request[s].jti \in survivors
             \/ s \in overtaken \/ Pending(request[s].user)
    BY DEF IInv, Vouches
  <2>. QED
    BY <2>1, <2>3, <2>4, <2>5, <2>6 DEF At
<1>10. StaleExplained'
  <2>1. ASSUME NEW j \in Jtis, Live(j)', vouched'[j] # password'[sessions'[j].user]
        PROVE  j \in survivors' \/ Pending(sessions[j].user)'
    <3>1. Live(j) /\ vouched[j] # password[sessions[j].user] /\ sessions[j].user \in Users
      BY <2>1, <1>1, <1>3 DEF Live, Row
    <3>. QED
      BY <3>1, <1>4, <1>5 DEF IInv, StaleExplained
  <2>2. vouched'[n] # password'[u] => n \in survivors' \/ Pending(u)'
    BY <1>3, <1>4, <1>5
  <2>. QED
    BY <2>1, <2>2, <1>2 DEF StaleExplained
<1>11. LineageSound'
  <2>1. ASSUME NEW j \in Jtis, NEW m, m = sessions'[j].replacedBy, m # NoJti
        PROVE  sessions'[j].revoked /\ m \in Jtis' /\ sessions'[m].user = sessions'[j].user /\ parent'[m] = j
    <3>1. CASE sessions[j].replacedBy = m
      <4>1. sessions[j].revoked /\ m \in Jtis /\ sessions[m].user = sessions[j].user /\ parent[m] = j
        BY <2>1, <3>1 DEF IInv, LineageSound
      <4>. QED
        BY <4>1, <1>2, <1>3
    <3>2. CASE j = p /\ m = n /\ sessions'[j].revoked
      BY <3>2, <1>2, <1>3
    <3>. QED
      BY <2>1, <3>1, <3>2
  <2>. QED
    BY <2>1, <1>2 DEF LineageSound
<1>. QED
  BY <1>6, <1>7, <1>8, <1>9, <1>10, <1>11 DEF IInv

-----------------------------------------------------------------------------
(* What a user who is signed out cannot set going.                         *)
StaysOut ==
  \A u \in Users : SignedOut(u) =>
    \A r \in Requests : request'[r].user = u =>
      request'[r].step \in {"login", "logout", "respond"} \/ u \in resetTokens

(* A request in flight works on for its user: it signs nobody in.          *)
LEMMA OutByStep ==
  ASSUME IInv, NEW r \in Requests, \A s \in Requests : s # r => request'[s] = request[s],
         \/ request'[r].user = request[r].user
         \/ request'[r].user = NoUser
         \/ request'[r].step \in {"login", "logout", "respond"}
         \/ request'[r].user \in Users /\ ~SignedOut(request'[r].user)
         \/ request'[r].user \in resetTokens
  PROVE  StaysOut
<1> SUFFICES ASSUME NEW u \in Users, SignedOut(u), NEW s \in Requests, request'[s].user = u
             PROVE  request'[s].step \in {"login", "logout", "respond"} \/ u \in resetTokens
  BY DEF StaysOut
<1>1. request[s].user # u
  BY DEF SignedOut, InFlight
<1>. QED
  BY <1>1, NoUserAssumption

LEMMA StartStep ==
  ASSUME IInv, NEW r \in Requests, NEW step \in Steps, NEW u \in Users, NEW j \in Nat, NEW shown \in Nat,
         Start(r, step, u, j, shown),
         step \in {"login", "rotate", "change", "revokeAll", "revokeOne", "logout", "respond"},
         step = "login" => shown = password[u],
         step \in {"rotate", "revokeOne", "logout"} => j \in Jtis,
         step = "rotate" => sessions[j].user = u /\ Live(j),
         step \in {"rotate", "change", "revokeAll", "revokeOne"} => ~SignedOut(u)
  PROVE  IInv' /\ StaysOut
<1> DEFINE q == [Idle EXCEPT !.step = step, !.user = u, !.jti = j, !.shown = shown]
<1>1. q \in Known /\ q.step = step /\ q.user = u /\ q.jti = j /\ q.shown = shown
  BY DEF Idle, Known, NoJti
<1>2. /\ request' = [request EXCEPT ![r] = q] /\ request[r] = Idle
      /\ UNCHANGED <<sessions, password, history>>
  BY DEF Start
<1>. HIDE DEF q
<1>3. UNCHANGED <<vouched, parent, survivors, overtaken, cutShort>>
  BY <1>2 DEF history
<1>4. \A s \in Requests : request'[s] = IF s = r THEN q ELSE request[s]
  BY <1>2 DEF IInv, Typed
<1>5. Dwindled
  BY <1>2 DEF IInv, Typed, Dwindled, Jtis
<1>6. \A w \in Users : Pending(w) => Pending(w)'
  BY <1>2, <1>3, <1>4, IdleKnown DEF Pending
<1>7. step = "rotate" => \/ vouched[j] = password[u]
                         \/ j \in survivors
                         \/ Pending(u)
  BY DEF IInv, StaleExplained
<1>8. IInv'
  BY <1>1, <1>2, <1>3, <1>5, <1>6, <1>7, PlainStep DEF IInv, Typed
<1>9. StaysOut
  BY <1>1, <1>4, OutByStep
<1>. QED
  BY <1>8, <1>9

LEMMA BeginStep ==
  ASSUME IInv, NEW r \in Requests, Begin(r)
  PROVE  IInv' /\ StaysOut
<1>1. /\ Len(sessions) \in Nat /\ Jtis = 1 .. Len(sessions)
      /\ \A j \in Jtis : sessions[j].user \in Users /\ j \in Nat
  BY RowFacts DEF IInv, Row
<1>2. \A u \in Users : password[u] \in Nat
  BY DEF IInv, Typed
<1>3. \A j \in Jtis : Live(j) => ~SignedOut(sessions[j].user)
  BY DEF SignedOut, SessionsOf
<1>4. 0 \in Nat /\ NoJti \in Nat
  BY DEF NoJti
<1>5. {"login", "rotate", "change", "revokeAll", "revokeOne", "logout", "respond"} \subseteq Steps
  BY DEF Steps
<1>6. ASSUME NEW u \in Users, LoginVerify(r, u) PROVE IInv' /\ StaysOut
  BY <1>2, <1>4, <1>5, <1>6, StartStep DEF LoginVerify
<1>7. ASSUME NEW u \in Users, ResetCommit(r, u) PROVE IInv' /\ StaysOut
  <2> DEFINE q == [Idle EXCEPT !.step = "resetRevoke", !.user = u]
  <2>1. q \in Known /\ q.step = "resetRevoke" /\ q.user = u
    BY DEF Idle, Known, Steps, NoJti
  <2>2. /\ request' = [request EXCEPT ![r] = q] /\ request[r] = Idle /\ u \in resetTokens
        /\ password' = [password EXCEPT ![u] = @ + 1]
        /\ UNCHANGED <<sessions, history>>
    BY <1>7 DEF ResetCommit, SetPassword
  <2>. HIDE DEF q
  <2>3. UNCHANGED <<vouched, parent, survivors, overtaken, cutShort>>
    BY <2>2 DEF history
  <2>4. \A s \in Requests : request'[s] = IF s = r THEN q ELSE request[s]
    BY <2>2 DEF IInv, Typed
  <2>5. Dwindled
    BY <2>2 DEF IInv, Typed, Dwindled, Jtis
  <2>6. (\A w \in Users : Pending(w) => Pending(w)') /\ Pending(u)'
    BY <2>1, <2>2, <2>3, <2>4, IdleKnown DEF Pending
  <2>7. password' \in [Users -> Nat] /\ \A w \in Users : password'[w] = password[w] \/ Pending(w)'
    BY <2>2, <2>6, <1>2 DEF IInv, Typed
  <2>8. IInv'
    BY <2>1, <2>2, <2>3, <2>5, <2>6, <2>7, PlainStep
  <2>9. StaysOut
    BY <2>1, <2>2, <2>4, OutByStep
  <2>. QED
    BY <2>8, <2>9
<1>8. ASSUME NEW j \in Jtis, RefreshAccepted(r, j) PROVE IInv' /\ StaysOut
  BY <1>1, <1>3, <1>4, <1>5, <1>8, StartStep DEF RefreshAccepted
<1>9. ASSUME NEW j \in Jtis, RefreshRefused(r, j) PROVE IInv' /\ StaysOut
  BY <1>1, <1>4, <1>5, <1>9, StartStep DEF RefreshRefused
<1>10. ASSUME NEW j \in Jtis, ChangeVerify(r, j) PROVE IInv' /\ StaysOut
  BY <1>1, <1>3, <1>4, <1>5, <1>10, StartStep DEF ChangeVerify, Authenticates
<1>11. ASSUME NEW j \in Jtis, LogoutAllStart(r, j) PROVE IInv' /\ StaysOut
  BY <1>1, <1>3, <1>4, <1>5, <1>11, StartStep DEF LogoutAllStart, Authenticates
<1>12. ASSUME NEW j \in Jtis, LogoutStart(r, j) PROVE IInv' /\ StaysOut
  BY <1>1, <1>4, <1>5, <1>12, StartStep DEF LogoutStart
<1>13. ASSUME NEW j \in Jtis, NEW k \in Jtis, RevokeOneStart(r, j, k) PROVE IInv' /\ StaysOut
  BY <1>1, <1>3, <1>4, <1>5, <1>13, StartStep DEF RevokeOneStart, Authenticates
<1>. QED
  BY <1>6, <1>7, <1>8, <1>9, <1>10, <1>11, <1>12, <1>13 DEF Begin

-----------------------------------------------------------------------------
(* Revoking one session.                                                   *)
LEMMA RevokeDwindles ==
  ASSUME IInv, NEW j \in Jtis, revoke_session(j)
  PROVE  Dwindled
<1>1. /\ Len(sessions) \in Nat /\ Jtis = 1 .. Len(sessions) /\ sessions[j] \in Row /\ sessions \in Seq(Row)
      /\ \A k \in Jtis : sessions[k] \in Row
  BY RowFacts DEF IInv, Typed
<1>2. Revoked(sessions[j]) \in Row
  BY <1>1 DEF Revoked, Row
<1>3. sessions' = [sessions EXCEPT ![j] = Revoked(sessions[j])]
  BY DEF revoke_session
<1>4. /\ sessions' \in Seq(Row) /\ Len(sessions') = Len(sessions)
      /\ \A k \in Jtis : sessions'[k] = IF k = j THEN Revoked(sessions[j]) ELSE sessions[k]
  BY <1>1, <1>2, <1>3, ExceptSeq
<1>5. Jtis' = Jtis
  BY <1>1, <1>4, LenProperties DEF Jtis
<1>6. LET row == Revoked(sessions[j]) IN
      /\ row.user = sessions[j].user /\ row.replacedBy = sessions[j].replacedBy
      /\ row.revoked /\ row.expired = sessions[j].expired
  BY <1>1 DEF Revoked, Row
<1>. QED
  BY <1>4, <1>5, <1>6 DEF Dwindled

(* The steps of a request that add no session and sweep none.              *)
LEMMA WorkStep ==
  ASSUME IInv, NEW r \in Requests,
         RefreshTooLate(r) \/ RevokeOne(r) \/ Logout(r) \/ Respond(r) \/ ChangeCommit(r)
  PROVE  IInv' /\ StaysOut
<1>1. request[r].user \in Users /\ request[r] \in Known /\ password[request[r].user] \in Nat
  BY IdleKnown DEF IInv, Typed, ActsForUser, RefreshTooLate, RevokeOne, Logout, Respond, ChangeCommit, At
<1>2. CASE RefreshTooLate(r) \/ RevokeOne(r) \/ Logout(r)
  <2> DEFINE q == [Idle EXCEPT !.step = "respond", !.user = request[r].user, !.fresh = NoJti]
  <2>1. q \in Known /\ q.step = "respond" /\ q.user = request[r].user
    BY <1>1, RespondKnown DEF NoJti
  <2>2. /\ request' = [request EXCEPT ![r] = q]
        /\ UNCHANGED <<password, vouched, parent, survivors, cutShort>> /\ overtaken \ {r} \subseteq overtaken'
        /\ revoke_session(request[r].jti) /\ request[r].jti \in Jtis
        /\ request[r].step \in {"rotate", "revokeOne", "logout"}
    BY <1>2 DEF RefreshTooLate, RevokeOne, Logout, RespondWith, IInv, WorksOnSession, At, history
  <2>. HIDE DEF q
  <2>3. \A s \in Requests : request'[s] = IF s = r THEN q ELSE request[s]
    BY <2>2 DEF IInv, Typed
  <2>4. Dwindled
    BY <2>2, RevokeDwindles
  <2>5. \A w \in Users : Pending(w) => Pending(w)'
    BY <2>2, <2>3 DEF Pending
  <2>6. IInv'
    BY <2>1, <2>2, <2>4, <2>5, <1>1, PlainStep DEF IInv, Typed
  <2>7. StaysOut
    BY <2>1, <2>3, OutByStep
  <2>. QED
    BY <2>6, <2>7
<1>3. CASE Respond(r)
  <2>1. /\ request' = [request EXCEPT ![r] = Idle] /\ request[r].step = "respond"
        /\ UNCHANGED <<sessions, password, vouched, parent, survivors, cutShort, overtaken>>
    BY <1>3 DEF Respond, history, At
  <2>2. \A s \in Requests : request'[s] = IF s = r THEN Idle ELSE request[s]
    BY <2>1 DEF IInv, Typed
  <2>3. Dwindled
    BY <2>1 DEF IInv, Typed, Dwindled, Jtis
  <2>4. \A w \in Users : Pending(w) => Pending(w)'
    BY <2>1, <2>2 DEF Pending
  <2>5. IInv'
    BY <2>1, <2>3, <2>4, IdleKnown, PlainStep DEF IInv, Typed
  <2>6. StaysOut
    BY <2>2, IdleKnown, OutByStep
  <2>. QED
    BY <2>5, <2>6
<1>4. CASE ChangeCommit(r)
  <2> PICK u \in Users : u = request[r].user
    BY <1>1
  <2> DEFINE m == password[u] + 1
             q == [request[r] EXCEPT !.step = "changeRevoke", !.shown = m]
  <2>0. m \in Nat
    BY <1>1
  <2>1. q \in Known /\ q.step = "changeRevoke" /\ q.user = u
    <3> HIDE DEF m
    <3>. QED
      BY <2>0, <1>1 DEF Known, Steps
  <2>2. /\ request' = [request EXCEPT ![r] = q] /\ request[r].step = "change"
        /\ password' = [password EXCEPT ![u] = m]
        /\ UNCHANGED <<sessions, vouched, parent, survivors, cutShort, overtaken>>
    BY <1>4 DEF ChangeCommit, SetPassword, At, history
  <2>. HIDE DEF q, m
  <2>3. \A s \in Requests : request'[s] = IF s = r THEN q ELSE request[s]
    BY <2>2 DEF IInv, Typed
  <2>4. Dwindled
    BY <2>2 DEF IInv, Typed, Dwindled, Jtis
  <2>5. (\A w \in Users : Pending(w) => Pending(w)') /\ Pending(u)'
    BY <2>1, <2>2, <2>3 DEF Pending
  <2>6. password' \in [Users -> Nat] /\ \A w \in Users : password'[w] = password[w] \/ Pending(w)'
    BY <2>0, <2>2, <2>5, <1>1 DEF IInv, Typed
  <2>7. IInv'
    BY <2>1, <2>2, <2>4, <2>5, <2>6, <1>1, PlainStep
  <2>8. StaysOut
    BY <2>1, <2>3, OutByStep
  <2>. QED
    BY <2>7, <2>8
<1>. QED
  BY <1>2, <1>3, <1>4

(* The steps that add a session.                                           *)
LEMMA CreatingStep ==
  ASSUME IInv, NEW r \in Requests, LoginCreate(r) \/ ChangeCreate(r) \/ RefreshRotate(r)
  PROVE  IInv' /\ StaysOut
<1>0. request[r].user \in Users /\ request[r] \in Known /\ request[r].step \in {"login", "changeCreate", "rotate"}
  BY IdleKnown DEF IInv, Typed, ActsForUser, LoginCreate, ChangeCreate, RefreshRotate, At
<1>1. PICK u \in Users : u = request[r].user
  BY <1>0
<1> DEFINE n == Len(sessions) + 1
           q == [Idle EXCEPT !.step = "respond", !.user = u, !.fresh = n]
<1>2. /\ Len(sessions) \in Nat /\ Jtis = 1 .. Len(sessions) /\ n \in Nat /\ n = NewJti /\ sessions \in Seq(Row)
      /\ \A j \in Jtis : sessions[j] \in Row /\ vouched[j] \in Nat
  BY RowFacts DEF IInv, Typed, NewJti
<1>3. q \in Known /\ q.step = "respond" /\ q.user = u
  BY <1>1, <1>2, RespondKnown
<1>4. request' = [request EXCEPT ![r] = q] /\ UNCHANGED password
  BY <1>1, <1>2 DEF LoginCreate, ChangeCreate, RefreshRotate, RespondWith, RotationAnswer
<1>. HIDE DEF q
<1>5. /\ request' \in [Requests -> Known] /\ request'[r].user = u /\ request'[r].step = "respond"
      /\ \A s \in Requests : s # r => request'[s] = request[s]
  BY <1>3, <1>4 DEF IInv, Typed
<1>6. NewRow(u) \in Row /\ NewRow(u).user = u /\ NewRow(u).replacedBy = NoJti
  BY <1>1 DEF NewRow, Row, NoJti
<1>7. CASE LoginCreate(r) \/ ChangeCreate(r)
  <2>1. /\ sessions' = Append(sessions, NewRow(u)) /\ Remember(r, NoJti, request[r].shown)
        /\ request[r].step \in {"login", "changeCreate"}
    BY <1>1, <1>7 DEF LoginCreate, ChangeCreate, create_session, At
  <2>2. /\ sessions' \in Seq(Row) /\ Len(sessions') = n /\ sessions'[n] = NewRow(u)
        /\ \A j \in Jtis : sessions'[j] = sessions[j]
    BY <2>1, <1>2, <1>6, AppendProperties
  <2>3. NoJti \in Nat /\ NoJti \notin Jtis /\ request[r].shown \in Nat
    BY <1>0, <1>2 DEF NoJti, Known
  <2>4. request[r].shown = password[u] \/ r \in overtaken \/ Pending(u)
    BY <2>1, <1>1 DEF IInv, Vouches
  <2>5. sessions'[n].user = u /\ sessions'[n].replacedBy = NoJti /\ Remember(r, NoJti, request[r].shown)
    BY <2>1, <2>2, <1>6
  <2>6. /\ sessions' \in Seq(Row) /\ Len(sessions') = n
        /\ \A j \in Jtis : /\ sessions'[j].user = sessions[j].user
                           /\ sessions'[j].replacedBy = sessions[j].replacedBy
                           /\ sessions[j].revoked => sessions'[j].revoked
                           /\ sessions[j].expired => sessions'[j].expired
    BY <2>2
  <2>. HIDE DEF n
  <2>7. IInv'
    BY <2>3, <2>4, <2>5, <2>6, <1>0, <1>1, <1>2, <1>4, <1>5, CreateStep
  <2>8. StaysOut
    BY <1>1, <1>5, OutByStep
  <2>. QED
    BY <2>7, <2>8
<1>8. CASE RefreshRotate(r)
  <2> DEFINE p == request[r].jti
             base == [sessions EXCEPT ![p] = RotatedRow(sessions[p], n)]
  <2>1. /\ sessions' = Append(base, NewRow(sessions[p].user)) /\ Remember(r, p, vouched[p])
        /\ request[r].step = "rotate"
    BY <1>2, <1>8 DEF RefreshRotate, rotate_session, At
  <2>2. p \in Jtis /\ sessions[p].user = u /\ p \in Nat /\ vouched[p] \in Nat
    BY <2>1, <1>1, <1>2 DEF IInv, WorksOnSession, At
  <2>3. /\ RotatedRow(sessions[p], n) \in Row /\ RotatedRow(sessions[p], n).user = sessions[p].user
        /\ RotatedRow(sessions[p], n).revoked /\ RotatedRow(sessions[p], n).expired = sessions[p].expired
        /\ RotatedRow(sessions[p], n).replacedBy = n
    BY <2>2, <1>2 DEF RotatedRow, Row
  <2>4. /\ base \in Seq(Row) /\ Len(base) = Len(sessions)
        /\ \A j \in Jtis : base[j] = IF j = p THEN RotatedRow(sessions[p], n) ELSE sessions[j]
    BY <2>2, <2>3, <1>2, ExceptSeq
  <2>. HIDE DEF base
  <2>5. /\ sessions' \in Seq(Row) /\ Len(sessions') = n /\ sessions'[n] = NewRow(u)
        /\ \A j \in Jtis : sessions'[j] = base[j]
    BY <2>1, <2>2, <2>4, <1>2, <1>6, AppendProperties
  <2>6. \A j \in Jtis : /\ sessions'[j].user = sessions[j].user
                        /\ sessions[j].revoked => sessions'[j].revoked
                        /\ sessions[j].expired => sessions'[j].expired
                        /\ \/ sessions'[j].replacedBy = sessions[j].replacedBy
                           \/ j = p /\ sessions'[j].replacedBy = n /\ sessions'[j].revoked
    BY <2>3, <2>4, <2>5
  <2>7. vouched[p] = password[u] \/ r \in overtaken \/ p \in survivors \/ Pending(u)
    BY <2>1, <1>1 DEF IInv, Vouches, At
  <2>8. sessions'[n].user = u /\ sessions'[n].replacedBy = NoJti /\ Remember(r, p, vouched[p])
    BY <2>1, <2>5, <1>6
  <2>9. sessions' \in Seq(Row) /\ Len(sessions') = n
    BY <2>5
  <2> DEFINE shown == vouched[p]
  <2>10. /\ shown \in Nat /\ Remember(r, p, shown)
         /\ shown = password[u] \/ r \in overtaken \/ p \in survivors \/ Pending(u)
    BY <2>2, <2>7, <2>8
  <2>. HIDE DEF p, n, shown
  <2>11. IInv'
    BY <2>2, <2>6, <2>8, <2>9, <2>10, <1>0, <1>1, <1>2, <1>4, <1>5, CreateStep
  <2>12. StaysOut
    BY <1>1, <1>5, OutByStep
  <2>. QED
    BY <2>11, <2>12
<1>. QED
  BY <1>7, <1>8

(* The steps that sweep a user's sessions.                                 *)
LEMMA SweepingStep ==
  ASSUME IInv, NEW r \in Requests, ChangeRevoke(r) \/ ResetRevoke(r) \/ LogoutAll(r)
  PROVE  IInv' /\ StaysOut
<1>0. request[r].user \in Users /\ request[r] \in Known /\ UNCHANGED password
  BY IdleKnown DEF IInv, Typed, ActsForUser, ChangeRevoke, ResetRevoke, LogoutAll, At
<1>1. PICK u \in Users : u = request[r].user
  BY <1>0
<1>2. revoke_all_user_sessions(r, u)
  BY <1>1 DEF ChangeRevoke, ResetRevoke, LogoutAll
<1>3. PICK q \in Known : /\ request' = [request EXCEPT ![r] = q] /\ q.user = u
                         /\ \/ q.step = "respond"
                            \/ q.step = "changeCreate" /\ q.shown = request[r].shown /\ At(r, "changeRevoke")
  <2>1. CASE ChangeRevoke(r)
    <3> DEFINE q == [request[r] EXCEPT !.step = "changeCreate"]
    <3>1. /\ q \in Known /\ q.step = "changeCreate" /\ q.user = u /\ q.shown = request[r].shown
      BY <1>0, <1>1 DEF Known, Steps
    <3>2. request' = [request EXCEPT ![r] = q] /\ At(r, "changeRevoke")
      BY <2>1 DEF ChangeRevoke, Goto
    <3>. HIDE DEF q
    <3>. QED
      BY <3>1, <3>2
  <2>2. CASE ResetRevoke(r) \/ LogoutAll(r)
    <3> DEFINE q == [Idle EXCEPT !.step = "respond", !.user = request[r].user, !.fresh = NoJti]
    <3>1. q \in Known /\ q.step = "respond" /\ q.user = u
      BY <1>0, <1>1, RespondKnown DEF NoJti
    <3>2. request' = [request EXCEPT ![r] = q]
      BY <2>2 DEF ResetRevoke, LogoutAll, RespondWith
    <3>. HIDE DEF q
    <3>. QED
      BY <3>1, <3>2
  <2>. QED
    BY <2>1, <2>2
<1>4. IInv'
  BY <1>0, <1>1, <1>2, <1>3, SweepStep
<1>5. \A s \in Requests : request'[s] = IF s = r THEN q ELSE request[s]
  BY <1>3 DEF IInv, Typed
<1>6. StaysOut
  BY <1>1, <1>3, <1>5, OutByStep
<1>. QED
  BY <1>4, <1>6

(* What nobody asked for: time passes and requests die.                    *)
LEMMA EnvironmentStep ==
  ASSUME IInv, Environment
  PROVE  IInv' /\ StaysOut
<1>1. ASSUME Dwindled, UNCHANGED <<password, request, vouched, parent, overtaken, survivors, cutShort>>
      PROVE  IInv' /\ StaysOut
  <2>1. Typed' /\ ActsForUser'
    BY <1>1 DEF IInv, Typed, ActsForUser, Dwindled
  <2>2. \A u \in Users : Pending(u) => Pending(u)'
    BY <1>1 DEF Pending
  <2>3. \A j \in Jtis : sessions[j].user \in Users
    BY RowFacts DEF IInv, Row
  <2>4. WorksOnSession'
    BY <1>1 DEF IInv, WorksOnSession, Dwindled, At
  <2>5. Vouches'
    <3>1. \A s \in Requests : request[s].step \in {"login", "changeCreate", "rotate"} => request[s].user \in Users
      BY IdleKnown DEF IInv, ActsForUser
    <3>. QED
      BY <1>1, <2>2, <3>1 DEF IInv, Vouches, At
  <2>6. StaleExplained'
    BY <1>1, <2>2, <2>3 DEF IInv, StaleExplained, Live, Dwindled
  <2>7. LineageSound'
    BY <1>1 DEF IInv, LineageSound, Dwindled
  <2>8. StaysOut
    BY <1>1 DEF StaysOut, SignedOut, InFlight
  <2>. QED
    BY <2>1, <2>4, <2>5, <2>6, <2>7, <2>8 DEF IInv
<1>2. ASSUME NEW j \in Jtis, Expire(j)
      PROVE  IInv' /\ StaysOut
  <2>1. /\ Len(sessions) \in Nat /\ Jtis = 1 .. Len(sessions) /\ sessions \in Seq(Row)
        /\ \A k \in Jtis : sessions[k] \in Row
    BY RowFacts DEF IInv, Typed
  <2> DEFINE row == [sessions[j] EXCEPT !.expired = TRUE]
  <2>2. row \in Row /\ row.user = sessions[j].user /\ row.revoked = sessions[j].revoked
        /\ row.replacedBy = sessions[j].replacedBy /\ row.expired
    BY <2>1 DEF Row
  <2>3. sessions' = [sessions EXCEPT ![j] = row]
    BY <1>2 DEF Expire
  <2>. HIDE DEF row
  <2>4. /\ sessions' \in Seq(Row) /\ Len(sessions') = Len(sessions)
        /\ \A k \in Jtis : sessions'[k] = IF k = j THEN row ELSE sessions[k]
    BY <2>1, <2>2, <2>3, ExceptSeq
  <2>5. Jtis' = Jtis
    BY <2>1, <2>4, LenProperties DEF Jtis
  <2>6. Dwindled
    BY <2>2, <2>4, <2>5 DEF Dwindled
  <2>. QED
    BY <1>1, <1>2, <2>6 DEF Expire, history
<1>3. ASSUME NEW u \in Users, IssueResetToken(u) \/ ExpireResetToken(u)
      PROVE  IInv' /\ StaysOut
  <2>1. UNCHANGED <<sessions, password, request, vouched, parent, overtaken, survivors, cutShort>>
    BY <1>3 DEF IssueResetToken, ExpireResetToken, history
  <2>2. Dwindled
    BY <2>1 DEF IInv, Typed, Dwindled, Jtis
  <2>. QED
    BY <2>1, <2>2, <1>1
<1>4. ASSUME NEW r \in Requests, Die(r)
      PROVE  IInv' /\ StaysOut
  <2>1. /\ request' = [request EXCEPT ![r] = Idle] /\ overtaken \ {r} \subseteq overtaken'
        /\ cutShort' = cutShort \cup (IF request[r].step \in {"changeRevoke", "resetRevoke"}
                                      THEN {request[r].user} ELSE {})
        /\ UNCHANGED <<sessions, password, vouched, parent, survivors>>
    BY <1>4 DEF Die
  <2>2. \A s \in Requests : request'[s] = IF s = r THEN Idle ELSE request[s]
    BY <2>1 DEF IInv, Typed
  <2>3. Dwindled
    BY <2>1 DEF IInv, Typed, Dwindled, Jtis
  <2>4. \A w \in Users : Pending(w) => Pending(w)'
    BY <2>1, <2>2 DEF Pending
  <2>5. IInv'
    BY <2>1, <2>3, <2>4, IdleKnown, PlainStep DEF IInv, Typed
  <2>6. StaysOut
    BY <2>2, IdleKnown, OutByStep
  <2>. QED
    BY <2>5, <2>6
<1>. QED
  BY <1>2, <1>3, <1>4 DEF Environment

LEMMA NextInv == IInv /\ [Next]_vars => IInv' /\ (StaysOut \/ UNCHANGED vars)
<1> SUFFICES ASSUME IInv, [Next]_vars PROVE IInv' /\ (StaysOut \/ UNCHANGED vars)
  OBVIOUS
<1>1. CASE UNCHANGED vars
  <2>1. Jtis' = Jtis /\ UNCHANGED <<sessions, password, request, vouched, parent, overtaken, survivors, cutShort>>
    BY <1>1 DEF vars, history, Jtis
  <2>2. Typed' /\ ActsForUser' /\ WorksOnSession' /\ LineageSound'
    BY <2>1 DEF IInv, Typed, ActsForUser, WorksOnSession, LineageSound, At
  <2>3. Vouches' /\ StaleExplained'
    BY <2>1 DEF IInv, Vouches, StaleExplained, Pending, Live, At
  <2>. QED
    BY <1>1, <2>2, <2>3 DEF IInv
<1>2. ASSUME NEW r \in Requests, Continue(r) PROVE IInv' /\ StaysOut
  BY <1>2, CreatingStep, SweepingStep, WorkStep DEF Continue
<1>. QED
  BY <1>1, <1>2, EnvironmentStep, BeginStep DEF Next

-----------------------------------------------------------------------------
(* The inductive invariant holds in every state of the requests'           *)
(* interleavings.                                                          *)
THEOREM InvariantHolds == Spec => []IInv
<1>1. IInv /\ [Next]_vars => IInv'
  BY NextInv
<1>. QED
  BY InitInv, <1>1, PTL DEF Spec

(* rotate_session leaves a trail: what replaced a session is a session of  *)
(* the same user, made from it, however many rotations race.               *)
THEOREM LineageAlwaysSound == Spec => []LineageSound
<1>1. IInv => LineageSound
  BY DEF IInv
<1>. QED
  BY InvariantHolds, <1>1, PTL

(* A live session on a replaced password is one of the three cases: no     *)
(* other interleaving of logins, rotations, changes and resets makes one.  *)
THEOREM StaleSessionsAlwaysExplained == Spec => []StaleSessionsExplained
<1>1. IInv => StaleSessionsExplained
  BY DEF IInv, StaleExplained, Pending, StaleSessionsExplained
<1>. QED
  BY InvariantHolds, <1>1, PTL

(* Dead tokens set nothing going that could sign their user in again.      *)
THEOREM SignedOutStaysSignedOut == Spec => SignedOutStaysOut
<1>1. IInv /\ [Next]_vars => [StaysOut]_vars
  BY NextInv
<1>2. [][StaysOut]_vars => SignedOutStaysOut
  BY PTL DEF StaysOut, SignedOutStaysOut
<1>. QED
  BY InvariantHolds, <1>1, <1>2, PTL DEF Spec
===============================================================================
