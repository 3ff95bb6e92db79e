------------------------------ MODULE EdgeProofs ------------------------------
EXTENDS Accounts, Delivery, FiniteSetTheorems, Limiter, Sums, TLAPS

-----------------------------------------------------------------------------
(***************************************************************************)
(* What holds of Accounts for any numbers of users, sessions, links and    *)
(* calls.                                                                  *)
(*                                                                         *)
(* That old sessions end rests on two facts.  While a password is being    *)
(* set, every open session of its user is one the statement saw, one it    *)
(* keeps, or one that began since.  And before a row is there nobody is    *)
(* signed in to it, nothing is being done for it, and no link leads to it, *)
(* so a registration finds no session older than its password.  That an    *)
(* erasure is final rests on the two checks that ask for it.               *)
(***************************************************************************)

\* What a call in flight has read.
InFlight ==
    [at : {"idle", "register"}]
      \cup [at : {"matched", "passed", "partial"}, user : Users, rehash : Nat]
      \cup [at : {"wrong"}, user : Users, failed : Nat]
      \cup [at : {"issued", "enrolling"}, user : Users]
      \cup [at : {"linking"}, user : Users, links : SUBSET Links, awaited : SUBSET Links]
      \cup [at : {"resetting", "changing"}, user : Users,
             kept : SUBSET Sessions, links : SUBSET Links]
      \cup [at : {"setting"}, user : Users, kept : SUBSET Sessions, links : SUBSET Links,
             seen : SUBSET Sessions, missed : SUBSET Sessions]
      \cup [at : {"erasing"}, user : Users, links : SUBSET Links, seen : SUBSET Sessions]

OpenSessions == [state : {"open"}, user : Users, level : {"full", "pending_mfa"}, issued : Nat \ {0}]

OpenLinks == [state : {"open"}, user : Users, purpose : {"reset", "verify"}]

\* The part of the type invariant the proofs need; no bound on passwords is part of it.
Shapes ==
    /\ user \in [Users -> {"none", "active", "erased"}]
    /\ key \in [Users -> BOOLEAN]
    /\ changes \in [Users -> Nat]
    /\ failed \in [Users -> Nat]
    /\ spared \in [Users -> SUBSET Sessions]
    /\ session \in [Sessions -> {None} \cup OpenSessions]
    /\ link \in [Links -> {None, Spent} \cup OpenLinks]
    /\ rq \in [Calls -> InFlight]

\* A row that is not there yet has no password, and no other row and no call names it.
NothingBeforeRegistration ==
    /\ \A u \in Users : user[u] # "none" => changes[u] > 0
    /\ \A s \in Sessions : OpenSession(s) => user[session[s].user] # "none"
    /\ \A l \in Links : link[l].state = "open" => user[link[l].user] # "none"
    /\ \A r \in Calls : rq[r].at \notin {"idle", "register"} => user[rq[r].user] # "none"

OnlyLiveHaveKeys == \A u \in Users : key[u] => user[u] = "active"

\* While a password is being set, its user is signed in where the statement that revokes
\* saw it, where the change was made from, or where it signed in since.
SessionsAccountedFor ==
    \A r \in Calls : rq[r].at = "setting" =>
        \A s \in Sessions : OpenSession(s) /\ session[s].user = rq[r].user
            => s \in rq[r].seen \cup rq[r].kept \cup rq[r].missed

AInv ==
    /\ Shapes /\ NothingBeforeRegistration /\ OnlyLiveHaveKeys
    /\ SessionsAccountedFor /\ OldSessionsEnd

\* The shapes of calls and rows by what they are at.
LEMMA CallsInFlight ==
    ASSUME Shapes, NEW r \in Calls
    PROVE  /\ rq[r].at \notin {"idle", "register"} => rq[r].user \in Users
           /\ rq[r].at \in {"resetting", "changing"} =>
                 rq[r] \in [at : {"resetting", "changing"}, user : Users,
                             kept : SUBSET Sessions, links : SUBSET Links]
           /\ rq[r].at = "setting" =>
                 rq[r] \in [at : {"setting"}, user : Users, kept : SUBSET Sessions,
                             links : SUBSET Links, seen : SUBSET Sessions, missed : SUBSET Sessions]
           /\ rq[r].at \in {"matched", "passed", "partial"} =>
                 rq[r] \in [at : {"matched", "passed", "partial"}, user : Users, rehash : Nat]
  BY DEF Shapes, InFlight

LEMMA RowsOpen ==
    ASSUME Shapes
    PROVE  /\ \A s \in Sessions : OpenSession(s) => session[s] \in OpenSessions
           /\ \A l \in Links : link[l].state = "open" => link[l] \in OpenLinks
  BY DEF Shapes, OpenSession, None, Spent, OpenSessions, OpenLinks

\* Registration, sign-in and the calls that read keep the shapes; so does everything else.
LEMMA AccountInitHolds == AccountInit => AInv
<1> SUFFICES ASSUME AccountInit PROVE AInv
  OBVIOUS
<1>1. Shapes
  BY AccountBounds DEF AccountInit, Shapes, None, Idle, InFlight
<1>2. NothingBeforeRegistration /\ SessionsAccountedFor /\ OldSessionsEnd
  BY AccountBounds DEF AccountInit, NothingBeforeRegistration, SessionsAccountedFor,
     OldSessionsEnd, OpenSession, None, Idle
<1>3. OnlyLiveHaveKeys
  BY Zenon DEF AccountInit, OnlyLiveHaveKeys
<1> QED
  BY <1>1, <1>2, <1>3 DEF AInv

\* Steps that leave rows and passwords alone, open no session, move no session or link to
\* another user, and begin to set no password.
LEMMA QuietStepsKeep ==
    ASSUME AInv, UNCHANGED <<user, changes, spared>>, Shapes', OnlyLiveHaveKeys',
           \A s \in Sessions : OpenSession(s)' => OpenSession(s) /\ session'[s].user = session[s].user
                                                   /\ session'[s].issued = session[s].issued,
           \A l \in Links : link'[l].state = "open" => user[link'[l].user] # "none",
           \A r \in Calls : rq'[r].at \notin {"idle", "register"} => user[rq'[r].user] # "none",
           \A r \in Calls : rq'[r].at = "setting" => rq'[r] = rq[r]
    PROVE  AInv'
<1>1. NothingBeforeRegistration'
  BY DEF AInv, NothingBeforeRegistration, OpenSession
<1>2. OldSessionsEnd'
  BY DEF AInv, OldSessionsEnd, OpenSession
<1>3. SessionsAccountedFor'
  BY DEF AInv, SessionsAccountedFor, OpenSession
<1> QED
  BY <1>1, <1>2, <1>3 DEF AInv

\* The steps of a call that changes no row, link or session.
LEMMA CallStepsKeep ==
    ASSUME AInv, NEW r \in Calls, NEW q \in InFlight, rq' = [rq EXCEPT ![r] = q],
           q.at \notin {"idle", "register"} => user[q.user] # "none",
           q.at # "setting",
           UNCHANGED <<user, key, changes, spared, session, link>>,
           failed' \in [Users -> Nat]
    PROVE  AInv'
<1>1. Shapes'
  BY DEF AInv, Shapes
<1>2. \A c \in Calls : /\ rq'[c].at \notin {"idle", "register"} => user[rq'[c].user] # "none"
                       /\ rq'[c].at = "setting" => rq'[c] = rq[c]
  BY DEF AInv, Shapes, NothingBeforeRegistration
<1>3. OnlyLiveHaveKeys'
  BY DEF AInv, OnlyLiveHaveKeys
<1> QED
  BY <1>1, <1>2, <1>3, QuietStepsKeep DEF AInv, NothingBeforeRegistration, OpenSession

LEMMA RegisterKeeps ==
    ASSUME AInv, NEW r \in Calls, Register(r)
    PROVE  AInv'
<1>0. Idle \in InFlight /\ [at |-> "register"] \in InFlight
  BY DEF Idle, InFlight
<1>1. CASE RegisterLookup(r)
  BY <1>0, <1>1, CallStepsKeep DEF RegisterLookup, userVars, password, lockout, AInv, Shapes
<1>2. CASE RegisterInsert(r)
  <2>1. CASE ~ AddressFree
    BY <1>0, <1>2, <2>1, CallStepsKeep DEF RegisterInsert, Answer, password, lockout, Idle, AInv, Shapes
  <2>2. CASE AddressFree
    <3>1. PICK u \in Users : /\ user[u] = "none"
                             /\ user' = [user EXCEPT ![u] = "active"]
                             /\ key' = [key EXCEPT ![u] = TRUE]
                             /\ changes' = [changes EXCEPT ![u] = 1]
      BY <1>2, <2>2 DEF RegisterInsert, KeyIssued
    <3>2. UNCHANGED <<spared, session, link, failed>> /\ rq' = [rq EXCEPT ![r] = Idle]
      BY <1>2, <2>2 DEF RegisterInsert, Answer, lockout
    <3>3. Shapes'
      BY <1>0, <3>1, <3>2 DEF AInv, Shapes
    <3>4. NothingBeforeRegistration'
      <4>1. \A v \in Users : user'[v] # "none" => changes'[v] > 0
        BY <3>1 DEF AInv, Shapes, NothingBeforeRegistration
      <4>2. \A v \in Users : user[v] # "none" => user'[v] # "none"
        BY <3>1 DEF AInv, Shapes
      <4>3. \A s \in Sessions : OpenSession(s)' => user'[session'[s].user] # "none"
        BY <3>2, <4>2, RowsOpen DEF AInv, OpenSession, OpenSessions, NothingBeforeRegistration
      <4>4. \A l \in Links : link'[l].state = "open" => user'[link'[l].user] # "none"
        BY <3>2, <4>2, RowsOpen DEF AInv, OpenLinks, NothingBeforeRegistration
      <4>5. \A c \in Calls : rq'[c].at \notin {"idle", "register"} => user'[rq'[c].user] # "none"
        <5> SUFFICES ASSUME NEW c \in Calls, rq'[c].at \notin {"idle", "register"}
                     PROVE  user'[rq'[c].user] # "none"
          OBVIOUS
        <5>1. rq'[c] = rq[c]
          BY <3>2 DEF AInv, Shapes, Idle
        <5> QED
          BY <5>1, <4>2, CallsInFlight DEF AInv, NothingBeforeRegistration
      <4> QED
        BY <4>1, <4>3, <4>4, <4>5 DEF NothingBeforeRegistration
    <3>5. OnlyLiveHaveKeys'
      BY <3>1 DEF AInv, Shapes, OnlyLiveHaveKeys
    <3>6. OldSessionsEnd'
      <4>1. \A s \in Sessions : OpenSession(s) => session[s].user # u /\ session[s].user \in Users
        BY <3>1, RowsOpen DEF AInv, NothingBeforeRegistration, OpenSessions
      <4> QED
        BY <3>1, <3>2, <4>1 DEF AInv, Shapes, OldSessionsEnd, OpenSession
    <3>7. SessionsAccountedFor'
      <4> SUFFICES ASSUME NEW c \in Calls, rq'[c].at = "setting"
                   PROVE  \A s \in Sessions : OpenSession(s)' /\ session'[s].user = rq'[c].user
                            => s \in rq'[c].seen \cup rq'[c].kept \cup rq'[c].missed
        BY DEF SessionsAccountedFor
      <4>1. rq'[c] = rq[c]
        BY <3>2 DEF AInv, Shapes, Idle
      <4> QED
        BY <3>2, <4>1 DEF AInv, SessionsAccountedFor, OpenSession
    <3> QED
      BY <3>3, <3>4, <3>5, <3>6, <3>7 DEF AInv
  <2> QED
    BY <2>1, <2>2
<1> QED
  BY <1>1, <1>2 DEF Register

LEMMA LoginKeeps ==
    ASSUME AInv, NEW r \in Calls, Login(r)
    PROVE  AInv'
<1>0. Idle \in InFlight /\ Idle.at = "idle"
  BY DEF Idle, InFlight
<1>1. CASE LoginLoad(r)
  <2>1. PICK u \in Users, p \in 1 .. MaxPasswords :
           /\ Live(u)
           /\ rq' = [rq EXCEPT ![r] =
                IF p = hash[u]
                THEN [at |-> IF factor[u].on THEN "matched" ELSE "passed", user |-> u,
                      rehash |-> IF dated[u] THEN p ELSE 0]
                ELSE [at |-> "wrong", user |-> u, failed |-> failed[u]]]
    BY <1>1 DEF LoginLoad
  <2>2. p \in Nat
    BY AccountBounds
  <2>3. CASE p = hash[u]
    <3> DEFINE q == [at |-> IF factor[u].on THEN "matched" ELSE "passed", user |-> u,
                     rehash |-> IF dated[u] THEN p ELSE 0]
    <3>1. q \in InFlight /\ q.user = u /\ q.at # "setting" /\ rq' = [rq EXCEPT ![r] = q]
      BY <2>1, <2>2, <2>3 DEF InFlight
    <3> HIDE DEF q
    <3> QED
      BY <1>1, <2>1, <3>1, CallStepsKeep DEF LoginLoad, Live, userVars, password, lockout, AInv, Shapes
  <2>4. CASE p # hash[u]
    <3> DEFINE q == [at |-> "wrong", user |-> u, failed |-> failed[u]]
    <3>1. q \in InFlight /\ q.user = u /\ q.at # "setting" /\ rq' = [rq EXCEPT ![r] = q]
      BY <2>1, <2>4 DEF InFlight, AInv, Shapes
    <3> HIDE DEF q
    <3> QED
      BY <1>1, <2>1, <3>1, CallStepsKeep DEF LoginLoad, Live, userVars, password, lockout, AInv, Shapes
  <2> QED
    BY <2>3, <2>4
<1>2. CASE FailedPassword(r)
  <2>1. failed' \in [Users -> Nat]
    BY <1>2, CallsInFlight, AccountBounds DEF FailedPassword, AInv, Shapes, InFlight
  <2> QED
    BY <1>0, <1>2, <2>1, CallStepsKeep DEF FailedPassword, Answer, password
<1>3. CASE SecondFactor(r)
  <2>1. PICK at \in {"passed", "partial", "idle"} :
           rq' = IF at = "idle" THEN [rq EXCEPT ![r] = Idle] ELSE [rq EXCEPT ![r].at = at]
    BY <1>3 DEF SecondFactor, Answer
  <2>2. CASE at = "idle"
    BY <1>0, <1>3, <2>1, <2>2, CallStepsKeep DEF SecondFactor, userVars, password, lockout, AInv, Shapes
  <2>3. CASE at # "idle"
    <3>1. rq[r] \in [at : {"matched", "passed", "partial"}, user : Users, rehash : Nat]
      BY <1>3, CallsInFlight DEF SecondFactor, AInv
    <3> DEFINE q == [rq[r] EXCEPT !.at = at]
    <3>2. q \in InFlight /\ q.user = rq[r].user /\ q.at # "setting" /\ rq' = [rq EXCEPT ![r] = q]
      BY <2>1, <2>3, <3>1 DEF InFlight
    <3>3. user[q.user] # "none"
      BY <1>3, <3>2 DEF AInv, NothingBeforeRegistration, SecondFactor
    <3> HIDE DEF q
    <3> QED
      BY <1>3, <3>2, <3>3, CallStepsKeep DEF SecondFactor, userVars, password, lockout, AInv, Shapes
  <2> QED
    BY <2>2, <2>3
<1>4. CASE Rehash(r)
  <2>1. rq[r] \in [at : {"matched", "passed", "partial"}, user : Users, rehash : Nat]
    BY <1>4, CallsInFlight DEF Rehash, AInv
  <2> DEFINE q == [rq[r] EXCEPT !.rehash = 0]
  <2>2. q \in InFlight /\ q.user = rq[r].user /\ q.at # "setting" /\ rq' = [rq EXCEPT ![r] = q]
    BY <1>4, <2>1 DEF Rehash, InFlight
  <2>3. user[q.user] # "none"
    BY <1>4, <2>2 DEF AInv, NothingBeforeRegistration, Rehash
  <2> HIDE DEF q
  <2> QED
    BY <1>4, <2>2, <2>3, CallStepsKeep DEF Rehash, lockout, AInv, Shapes
<1>5. CASE IssueSession(r)
  <2>1. rq[r].user \in Users /\ user[rq[r].user] # "none" /\ changes[rq[r].user] \in Nat \ {0}
    BY <1>5, CallsInFlight DEF IssueSession, AInv, Shapes, NothingBeforeRegistration
  <2>2. PICK s \in Sessions, level \in {"full", "pending_mfa"} :
           /\ session' = [session EXCEPT ![s] = [state |-> "open", user |-> rq[r].user,
                             level |-> level, issued |-> changes[rq[r].user]]]
           /\ rq' = [c \in Calls |->
                CASE c = r /\ rq[r].at = "passed" -> [at |-> "issued", user |-> rq[r].user]
                  [] c = r /\ rq[r].at = "partial" -> Idle
                  [] c # r /\ rq[c].at = "setting" /\ rq[c].user = rq[r].user ->
                        [rq[c] EXCEPT !.missed = @ \cup {s}]
                  [] OTHER -> rq[c]]
    <3>1. PICK s \in Sessions :
             /\ session' = [session EXCEPT ![s] = [state |-> "open", user |-> rq[r].user,
                   level |-> IF rq[r].at = "passed" THEN "full" ELSE "pending_mfa",
                   issued |-> changes[rq[r].user]]]
             /\ rq' = [c \in Calls |->
                   CASE c = r /\ rq[r].at = "passed" -> [at |-> "issued", user |-> rq[r].user]
                     [] c = r /\ rq[r].at = "partial" -> Idle
                     [] c # r /\ rq[c].at = "setting" /\ rq[c].user = rq[r].user ->
                           [rq[c] EXCEPT !.missed = @ \cup {s}]
                     [] OTHER -> rq[c]]
      BY <1>5 DEF IssueSession
    <3> DEFINE level == IF rq[r].at = "passed" THEN "full" ELSE "pending_mfa"
    <3>2. level \in {"full", "pending_mfa"}
      OBVIOUS
    <3> HIDE DEF level
    <3> QED
      BY <3>1, <3>2 DEF level
  <2>3. rq'[r] \in {[at |-> "issued", user |-> rq[r].user], Idle}
    BY <1>5, <2>2 DEF IssueSession
  <2>4. ASSUME NEW c \in Calls, c # r
        PROVE  \/ rq'[c] = rq[c] /\ (rq[c].at = "setting" => rq[c].user # rq[r].user)
               \/ /\ rq[c].at = "setting" /\ rq[c].user = rq[r].user
                  /\ rq'[c] = [rq[c] EXCEPT !.missed = @ \cup {s}]
    BY <2>2, <2>4
  <2>5. ASSUME NEW c \in Calls
        PROVE  /\ rq'[c] \in InFlight
               /\ rq'[c].at \notin {"idle", "register"} => user[rq'[c].user] # "none"
    <3>1. CASE c = r
      BY <1>0, <2>1, <2>3, <3>1 DEF InFlight
    <3>2. CASE c # r /\ rq'[c] = rq[c]
      BY <3>2 DEF AInv, Shapes, NothingBeforeRegistration
    <3>3. CASE c # r /\ rq'[c] # rq[c]
      <4> DEFINE q == [rq[c] EXCEPT !.missed = @ \cup {s}]
      <4>1. /\ q \in [at : {"setting"}, user : Users, kept : SUBSET Sessions,
                        links : SUBSET Links, seen : SUBSET Sessions, missed : SUBSET Sessions]
            /\ q.user = rq[c].user
        BY <2>4, <3>3, CallsInFlight DEF AInv
      <4>2. rq'[c] = q /\ rq[c].user = rq[r].user
        BY <2>4, <3>3
      <4> HIDE DEF q
      <4> QED
        BY <2>1, <4>1, <4>2 DEF InFlight
    <3> QED
      BY <3>1, <3>2, <3>3
  <2>6. UNCHANGED <<user, key, changes, spared, link, failed>>
    BY <1>5 DEF IssueSession, userVars, password, lockout
  <2>7. session' \in [Sessions -> {None} \cup OpenSessions]
    BY <2>1, <2>2 DEF AInv, Shapes, OpenSessions
  <2>8. rq' \in [Calls -> InFlight]
    BY <2>2, <2>5
  <2>9. Shapes'
    BY <2>6, <2>7, <2>8 DEF AInv, Shapes
  <2>10. \A t \in Sessions : t # s => session'[t] = session[t]
    BY <2>2 DEF AInv, Shapes
  <2>11. session'[s].user = rq[r].user /\ session'[s].issued = changes[rq[r].user]
    BY <2>2 DEF AInv, Shapes
  <2>12. NothingBeforeRegistration' /\ OnlyLiveHaveKeys'
    BY <2>1, <2>5, <2>6, <2>10, <2>11 DEF AInv, NothingBeforeRegistration, OnlyLiveHaveKeys, OpenSession
  <2>13. OldSessionsEnd'
    <3> SUFFICES ASSUME NEW t \in Sessions, OpenSession(t)',
                        session'[t].issued < changes'[session'[t].user]
                 PROVE  t \in spared'[session'[t].user]
      BY DEF OldSessionsEnd
    <3>1. t # s
      BY <2>1, <2>6, <2>11
    <3> QED
      BY <2>6, <2>10, <3>1 DEF AInv, OldSessionsEnd, OpenSession
  <2>14. SessionsAccountedFor'
    <3> SUFFICES ASSUME NEW c \in Calls, rq'[c].at = "setting", NEW t \in Sessions,
                        OpenSession(t)', session'[t].user = rq'[c].user
                 PROVE  t \in rq'[c].seen \cup rq'[c].kept \cup rq'[c].missed
      BY DEF SessionsAccountedFor
    <3>1. c # r
      BY <1>0, <2>3
    <3>2. CASE rq'[c] = rq[c] /\ rq[c].user # rq[r].user
      BY <2>10, <2>11, <3>2 DEF AInv, SessionsAccountedFor, OpenSession
    <3>3. CASE rq[c].at = "setting" /\ rq'[c] = [rq[c] EXCEPT !.missed = @ \cup {s}]
      <4>1. rq[c] \in [at : {"setting"}, user : Users, kept : SUBSET Sessions,
                        links : SUBSET Links, seen : SUBSET Sessions, missed : SUBSET Sessions]
        BY <3>3, CallsInFlight DEF AInv
      <4>2. /\ rq'[c].seen = rq[c].seen /\ rq'[c].kept = rq[c].kept /\ rq'[c].user = rq[c].user
            /\ rq'[c].missed = rq[c].missed \cup {s}
        BY <3>3, <4>1
      <4> QED
        BY <2>10, <3>3, <4>2 DEF AInv, SessionsAccountedFor, OpenSession
    <3> QED
      BY <2>4, <3>1, <3>2, <3>3
  <2> QED
    BY <2>9, <2>12, <2>13, <2>14 DEF AInv
<1>6. CASE LoginSuccess(r)
  BY <1>0, <1>6, CallStepsKeep DEF LoginSuccess, Answer, password, AInv, Shapes
<1> QED
  BY <1>1, <1>2, <1>3, <1>4, <1>5, <1>6 DEF Login

\* A session only rises to a full one, or ends.
LEMMA SessionStepsKeep ==
    ASSUME AInv, NEW s \in Sessions, RotateSession(s) \/ RevokeSession(s) \/ SessionLapses(s)
    PROVE  AInv'
<1>1. session[s] \in OpenSessions
  BY RowsOpen DEF RotateSession, RevokeSession, SessionLapses, Ended, AInv
<1>2. UNCHANGED <<user, key, changes, spared, failed, link, rq>>
  BY DEF RotateSession, RevokeSession, SessionLapses, Ended, userVars, password, lockout
<1>3. PICK x \in {None} \cup OpenSessions :
        /\ session' = [session EXCEPT ![s] = x]
        /\ x # None => x.state = "open" /\ x.user = session[s].user /\ x.issued = session[s].issued
  <2>1. CASE RotateSession(s)
    <3> DEFINE x == [session[s] EXCEPT !.level = "full"]
    <3>1. /\ x \in OpenSessions
          /\ x.state = "open" /\ x.user = session[s].user /\ x.issued = session[s].issued
      BY <1>1 DEF OpenSessions
    <3>2. session' = [session EXCEPT ![s] = x]
      BY <2>1 DEF RotateSession
    <3> HIDE DEF x
    <3> QED
      BY <3>1, <3>2
  <2>2. CASE Ended(s)
    BY <2>2 DEF Ended
  <2> QED
    BY <2>1, <2>2 DEF RevokeSession, SessionLapses
<1>4. Shapes' /\ OnlyLiveHaveKeys'
  BY <1>2, <1>3 DEF AInv, Shapes, OnlyLiveHaveKeys
<1>5. \A t \in Sessions : OpenSession(t)' => OpenSession(t) /\ session'[t].user = session[t].user
                                                /\ session'[t].issued = session[t].issued
  BY <1>1, <1>3 DEF AInv, Shapes, OpenSession, None, OpenSessions
<1> QED
  BY <1>2, <1>4, <1>5, QuietStepsKeep DEF AInv, NothingBeforeRegistration

LEMMA ResetKeeps ==
    ASSUME AInv, NEW r \in Calls, BeginPasswordReset(r)
    PROVE  AInv'
<1>0. Idle \in InFlight /\ Idle.at = "idle"
  BY DEF Idle, InFlight
<1>1. CASE ResetBegin(r)
  <2>1. PICK u \in Users, held \in SUBSET Links, awaited \in SUBSET Links :
           Live(u) /\ rq' = [rq EXCEPT ![r] =
              [at |-> "linking", user |-> u, links |-> held, awaited |-> awaited]]
    BY <1>1 DEF ResetBegin
  <2>2. [at |-> "linking", user |-> u, links |-> held, awaited |-> awaited] \in InFlight
    BY DEF InFlight
  <2> QED
    BY <1>1, <2>1, <2>2, CallStepsKeep DEF ResetBegin, Live, userVars, password, lockout, AInv, Shapes
<1>2. CASE ResetLink(r)
  <2>1. rq[r].user \in Users /\ user[rq[r].user] # "none"
    BY <1>2, CallsInFlight DEF ResetLink, AInv, NothingBeforeRegistration
  <2> DEFINE new == [state |-> "open", user |-> rq[r].user, purpose |-> "reset"]
  <2>2. new \in OpenLinks
    BY <2>1 DEF OpenLinks
  <2>3. PICK l \in Links : link' = [x \in Links |-> CASE x = l -> new
                                                   [] x \in rq[r].links \cup rq[r].awaited -> Spent
                                                   [] OTHER -> link[x]]
    BY <1>2 DEF ResetLink
  <2>4. \A x \in Links : link'[x] \in {new, Spent, link[x]}
    BY <2>3
  <2>5. UNCHANGED <<user, key, changes, spared, failed, session>> /\ rq' = [rq EXCEPT ![r] = Idle]
    BY <1>2 DEF ResetLink, userVars, password, lockout, Answer
  <2>6. link' \in [Links -> {None, Spent} \cup OpenLinks]
    BY <2>2, <2>3 DEF AInv, Shapes
  <2>7. Shapes' /\ OnlyLiveHaveKeys'
    BY <1>0, <2>5, <2>6 DEF AInv, Shapes, OnlyLiveHaveKeys
  <2>8. \A x \in Links : link'[x].state = "open" => user[link'[x].user] # "none"
    BY <2>1, <2>4 DEF Spent, AInv, NothingBeforeRegistration
  <2> QED
    BY <1>0, <2>5, <2>7, <2>8, QuietStepsKeep DEF AInv, Shapes, NothingBeforeRegistration, OpenSession
<1> QED
  BY <1>1, <1>2 DEF BeginPasswordReset

LEMMA SetPasswordKeeps ==
    ASSUME AInv, NEW r \in Calls, SetPassword(r)
    PROVE  AInv'
<1>0. Idle \in InFlight /\ Idle.at = "idle"
  BY DEF Idle, InFlight
<1>1. CASE ChangeLoad(r)
  <2>1. PICK s \in Sessions : SignedIn(s) /\ rq' = [rq EXCEPT ![r] =
           [at |-> "changing", user |-> session[s].user, kept |-> {s}, links |-> {}]]
    BY <1>1 DEF ChangeLoad
  <2>2. session[s].user \in Users /\ user[session[s].user] # "none"
    BY <2>1, RowsOpen DEF SignedIn, Resolves, Live, AInv, OpenSessions
  <2>3. [at |-> "changing", user |-> session[s].user, kept |-> {s}, links |-> {}] \in InFlight
    BY <2>2 DEF InFlight
  <2> QED
    BY <1>1, <2>1, <2>2, <2>3, CallStepsKeep DEF ChangeLoad, userVars, password, lockout, AInv, Shapes
<1>2. ASSUME NEW l \in Links, ResetLoad(r, l) PROVE AInv'
  <2> DEFINE q == [at |-> "resetting", user |-> link[l].user, kept |-> {}, links |-> {l}]
  <2>1. link[l].user \in Users /\ user[link[l].user] # "none"
    BY <1>2, RowsOpen DEF ResetLoad, Resettable, Usable, AInv, OpenLinks, NothingBeforeRegistration
  <2>2. q \in InFlight /\ q.at = "resetting" /\ q.user = link[l].user
    BY <2>1 DEF InFlight
  <2>3. rq' = [rq EXCEPT ![r] = q]
    BY <1>2 DEF ResetLoad
  <2> HIDE DEF q
  <2> QED
    BY <1>2, <2>1, <2>2, <2>3, CallStepsKeep DEF ResetLoad, userVars, password, lockout, AInv, Shapes
<1>3. CASE SetWrite(r)
  <2> DEFINE q == [at |-> "setting", user |-> rq[r].user, kept |-> rq[r].kept,
                   links |-> rq[r].links, seen |-> SignedInto(rq[r].user, rq[r].kept), missed |-> {}]
  <2>1. /\ rq[r] \in [at : {"resetting", "changing"}, user : Users,
                      kept : SUBSET Sessions, links : SUBSET Links]
        /\ user[rq[r].user] # "none"
    BY <1>3, CallsInFlight DEF SetWrite, AInv, NothingBeforeRegistration
  <2>2. q \in InFlight
    BY <2>1 DEF InFlight, SignedInto
  <2>3. rq' = [rq EXCEPT ![r] = q]
    BY <1>3 DEF SetWrite
  <2>4. UNCHANGED <<user, key, changes, spared, failed, session, link>>
    BY <1>3 DEF SetWrite, userVars, password, lockout
  <2>5. q.user = rq[r].user /\ q.kept = rq[r].kept /\ q.seen = SignedInto(rq[r].user, rq[r].kept)
    OBVIOUS
  <2> HIDE DEF q
  <2>6. \A c \in Calls : rq'[c] = IF c = r THEN q ELSE rq[c]
    BY <2>3 DEF AInv, Shapes
  <2>7. Shapes' /\ OnlyLiveHaveKeys' /\ OldSessionsEnd'
    BY <2>2, <2>3, <2>4 DEF AInv, Shapes, OnlyLiveHaveKeys, OldSessionsEnd, OpenSession
  <2>8. NothingBeforeRegistration'
    BY <2>1, <2>4, <2>5, <2>6 DEF AInv, NothingBeforeRegistration, OpenSession
  <2>9. SessionsAccountedFor'
    BY <2>4, <2>5, <2>6 DEF AInv, SessionsAccountedFor, SignedInto, OpenSession
  <2> QED
    BY <2>7, <2>8, <2>9 DEF AInv
<1>4. CASE SetCommit(r)
  <2> DEFINE u == rq[r].user
  <2>1. /\ rq[r].at = "setting"
        /\ rq[r] \in [at : {"setting"}, user : Users, kept : SUBSET Sessions,
                      links : SUBSET Links, seen : SUBSET Sessions, missed : SUBSET Sessions]
        /\ u \in Users /\ user[u] # "none"
    BY <1>4, CallsInFlight DEF SetCommit, AInv, NothingBeforeRegistration
  <2>2. /\ changes' = [changes EXCEPT ![u] = @ + 1]
        /\ spared' = [spared EXCEPT ![u] = rq[r].kept \cup rq[r].missed]
        /\ session' = [s \in Sessions |-> IF s \in rq[r].seen THEN None ELSE session[s]]
        /\ link' = [l \in Links |-> IF l \in rq[r].links THEN Spent ELSE link[l]]
        /\ failed' = [failed EXCEPT ![u] = IF rq[r].links # {} THEN 0 ELSE @]
        /\ rq' = [rq EXCEPT ![r] = Idle]
        /\ UNCHANGED <<user, key>>
    BY <1>4 DEF SetCommit, SignOut, Answer
  <2> HIDE DEF u
  <2>3. changes' \in [Users -> Nat] /\ changes'[u] = changes[u] + 1
        /\ \A v \in Users : v # u => changes'[v] = changes[v] /\ spared'[v] = spared[v]
    BY <2>1, <2>2 DEF AInv, Shapes
  <2>4. spared'[u] = rq[r].kept \cup rq[r].missed /\ spared' \in [Users -> SUBSET Sessions]
    BY <2>1, <2>2 DEF AInv, Shapes
  <2>5. \A s \in Sessions : OpenSession(s)' =>
          OpenSession(s) /\ session'[s] = session[s] /\ s \notin rq[r].seen
    BY <2>2 DEF OpenSession, None
  <2>6. \A l \in Links : link'[l].state = "open" => link[l].state = "open" /\ link'[l] = link[l]
    BY <2>2 DEF Spent
  <2>7. \A c \in Calls : rq'[c] = IF c = r THEN Idle ELSE rq[c]
    BY <2>2 DEF AInv, Shapes
  <2>8. Shapes'
    <3>1. failed' \in [Users -> Nat]
      BY <2>1, <2>2 DEF AInv, Shapes
    <3>2. session' \in [Sessions -> {None} \cup OpenSessions]
      BY <2>2 DEF AInv, Shapes
    <3>3. link' \in [Links -> {None, Spent} \cup OpenLinks]
      BY <2>2 DEF AInv, Shapes
    <3>4. rq' \in [Calls -> InFlight]
      BY <1>0, <2>2 DEF AInv, Shapes
    <3> QED
      BY <2>2, <2>3, <2>4, <3>1, <3>2, <3>3, <3>4 DEF AInv, Shapes
  <2>9. NothingBeforeRegistration'
    <3>1. \A v \in Users : user'[v] # "none" => changes'[v] > 0
      BY <2>2, <2>3 DEF AInv, Shapes, NothingBeforeRegistration
    <3>2. \A c \in Calls : rq'[c].at \notin {"idle", "register"} => user'[rq'[c].user] # "none"
      BY <1>0, <2>2, <2>7 DEF AInv, NothingBeforeRegistration
    <3> QED
      BY <2>2, <2>5, <2>6, <3>1, <3>2 DEF AInv, NothingBeforeRegistration
  <2>10. OnlyLiveHaveKeys'
    BY <2>2 DEF AInv, OnlyLiveHaveKeys
  <2>11. SessionsAccountedFor'
    BY <1>0, <2>5, <2>7 DEF AInv, SessionsAccountedFor
  <2>12. OldSessionsEnd'
    <3> SUFFICES ASSUME NEW s \in Sessions, OpenSession(s)',
                        session'[s].issued < changes'[session'[s].user]
                 PROVE  s \in spared'[session'[s].user]
      BY DEF OldSessionsEnd
    <3>1. session'[s] = session[s] /\ OpenSession(s) /\ session[s].user \in Users
      BY <2>5, RowsOpen DEF AInv, OpenSessions
    <3>2. CASE session[s].user = u
      BY <2>1, <2>4, <2>5, <3>1, <3>2 DEF AInv, SessionsAccountedFor, u
    <3>3. CASE session[s].user # u
      BY <2>3, <3>1, <3>3 DEF AInv, OldSessionsEnd
    <3> QED
      BY <3>2, <3>3
  <2> QED
    BY <2>8, <2>9, <2>10, <2>11, <2>12 DEF AInv
<1> QED
  BY <1>1, <1>2, <1>3, <1>4 DEF SetPassword

LEMMA EnrolmentKeeps ==
    ASSUME AInv, NEW r \in Calls, ConfirmTOTPEnrolment(r)
    PROVE  AInv'
<1>0. Idle \in InFlight /\ Idle.at = "idle"
  BY DEF Idle, InFlight
<1>1. CASE EnrolLoad(r)
  <2>1. PICK u \in Users : HasKey(u) /\ rq' = [rq EXCEPT ![r] = [at |-> "enrolling", user |-> u]]
    BY <1>1 DEF EnrolLoad
  <2>2. [at |-> "enrolling", user |-> u] \in InFlight
    BY DEF InFlight
  <2>3. user[u] # "none"
    BY <2>1 DEF AInv, HasKey, OnlyLiveHaveKeys
  <2> QED
    BY <1>1, <2>1, <2>2, <2>3, CallStepsKeep DEF EnrolLoad, userVars, password, lockout, AInv, Shapes
<1>2. CASE EnrolConfirm(r)
  BY <1>0, <1>2, CallStepsKeep DEF EnrolConfirm, Answer, password, lockout, AInv, Shapes
<1> QED
  BY <1>1, <1>2 DEF ConfirmTOTPEnrolment

LEMMA LinkStepsKeep ==
    ASSUME AInv, NEW l \in Links, VerificationComplete(l) \/ LinkLapses(l)
    PROVE  AInv'
<1>1. link' = [link EXCEPT ![l] = Spent]
      /\ UNCHANGED <<user, key, changes, spared, failed, session, rq>>
  BY DEF VerificationComplete, LinkLapses, userVars, password, lockout
<1>2. \A x \in Links : link'[x].state = "open" => user[link'[x].user] # "none"
  BY <1>1 DEF AInv, Shapes, NothingBeforeRegistration, Spent
<1>3. Shapes' /\ OnlyLiveHaveKeys'
  BY <1>1 DEF AInv, Shapes, OnlyLiveHaveKeys
<1> QED
  BY <1>1, <1>2, <1>3, QuietStepsKeep DEF AInv, NothingBeforeRegistration, OpenSession

LEMMA EraseKeeps ==
    ASSUME AInv, NEW r \in Calls, EraseSubject(r)
    PROVE  AInv'
<1>0. Idle \in InFlight /\ Idle.at = "idle"
  BY DEF Idle, InFlight
<1>1. CASE EraseWrite(r)
  <2>1. PICK u \in Users, held \in SUBSET Links :
           Live(u) /\ rq' = [rq EXCEPT ![r] =
              [at |-> "erasing", user |-> u, links |-> held, seen |-> SignedInto(u, {})]]
    BY <1>1 DEF EraseWrite
  <2>2. [at |-> "erasing", user |-> u, links |-> held, seen |-> SignedInto(u, {})] \in InFlight
    BY DEF InFlight, SignedInto
  <2> QED
    BY <1>1, <2>1, <2>2, CallStepsKeep DEF EraseWrite, Live, userVars, password, lockout, AInv, Shapes
<1>2. CASE EraseCommit(r)
  <2> DEFINE u == rq[r].user
  <2>1. u \in Users /\ user[u] # "none"
    BY <1>2, CallsInFlight DEF EraseCommit, AInv, NothingBeforeRegistration
  <2>2. /\ user' = [user EXCEPT ![u] = "erased"] /\ key' = [key EXCEPT ![u] = FALSE]
        /\ session' = [s \in Sessions |-> IF s \in rq[r].seen THEN None ELSE session[s]]
        /\ link' = [l \in Links |-> IF l \in rq[r].links THEN Spent ELSE link[l]]
        /\ rq' = [rq EXCEPT ![r] = Idle]
        /\ UNCHANGED <<changes, spared, failed>>
    BY <1>2 DEF EraseCommit, Shredded, SignOut, Answer, password, lockout
  <2> HIDE DEF u
  <2>3. Shapes'
    BY <1>0, <2>2 DEF AInv, Shapes
  <2>4. \A v \in Users : user[v] # "none" <=> user'[v] # "none"
    BY <2>1, <2>2 DEF AInv, Shapes
  <2>5. \A s \in Sessions : OpenSession(s)' => OpenSession(s) /\ session'[s] = session[s]
    BY <2>2 DEF OpenSession, None
  <2>6. \A l \in Links : link'[l].state = "open" => link[l].state = "open" /\ link'[l] = link[l]
    BY <2>2 DEF Spent
  <2>7. \A c \in Calls : rq'[c] = IF c = r THEN Idle ELSE rq[c]
    BY <2>2 DEF AInv, Shapes
  <2>8. NothingBeforeRegistration'
    <3>1. \A s \in Sessions : OpenSession(s)' => user'[session'[s].user] # "none"
      BY <2>4, <2>5, RowsOpen DEF AInv, NothingBeforeRegistration, OpenSessions
    <3>2. \A l \in Links : link'[l].state = "open" => user'[link'[l].user] # "none"
      BY <2>4, <2>6, RowsOpen DEF AInv, NothingBeforeRegistration, OpenLinks
    <3>3. \A c \in Calls : rq'[c].at \notin {"idle", "register"} => user'[rq'[c].user] # "none"
      BY <1>0, <2>4, <2>7, CallsInFlight DEF AInv, NothingBeforeRegistration
    <3> QED
      BY <2>2, <2>4, <3>1, <3>2, <3>3 DEF AInv, NothingBeforeRegistration
  <2>9. OnlyLiveHaveKeys'
    BY <2>1, <2>2 DEF AInv, Shapes, OnlyLiveHaveKeys
  <2>10. OldSessionsEnd' /\ SessionsAccountedFor'
    BY <1>0, <2>2, <2>5, <2>7 DEF AInv, OldSessionsEnd, SessionsAccountedFor
  <2> QED
    BY <2>3, <2>8, <2>9, <2>10 DEF AInv
<1> QED
  BY <1>1, <1>2 DEF EraseSubject

LEMMA UserStepsKeep ==
    ASSUME AInv, NEW u \in Users,
           LockLapses(u) \/ VerificationLink(u) \/ EnrolBegin(u)
    PROVE  AInv'
<1>1. CASE LockLapses(u) \/ EnrolBegin(u)
  <2>1. UNCHANGED <<user, key, changes, spared, failed, session, link, rq>>
    BY <1>1 DEF LockLapses, EnrolBegin, password, lockout
  <2> QED
    BY <2>1 DEF AInv, Shapes, NothingBeforeRegistration, OnlyLiveHaveKeys, SessionsAccountedFor,
       OldSessionsEnd, OpenSession
<1>2. CASE VerificationLink(u)
  <2>1. UNCHANGED <<user, key, changes, spared, failed, session, rq>> /\ user[u] # "none"
    BY <1>2 DEF VerificationLink, userVars, password, lockout, Live
  <2> DEFINE new == [state |-> "open", user |-> u, purpose |-> "verify"]
  <2>2. new \in OpenLinks
    BY DEF OpenLinks
  <2>3. PICK l \in Links : link' = [link EXCEPT ![l] = new]
    BY <1>2 DEF VerificationLink
  <2>4. \A x \in Links : link'[x].state = "open" => user[link'[x].user] # "none"
    BY <2>1, <2>3 DEF AInv, Shapes, NothingBeforeRegistration
  <2>5. Shapes' /\ OnlyLiveHaveKeys'
    BY <2>1, <2>2, <2>3 DEF AInv, Shapes, OnlyLiveHaveKeys
  <2> QED
    BY <2>1, <2>4, <2>5, QuietStepsKeep DEF AInv, NothingBeforeRegistration, OpenSession
<1> QED
  BY <1>1, <1>2

LEMMA StepsKeep == AInv /\ [AccountNext]_accountVars => AInv'
<1> SUFFICES ASSUME AInv, [AccountNext]_accountVars PROVE AInv'
  OBVIOUS
<1>1. ASSUME NEW r \in Calls, RequestLost(r) PROVE AInv'
  <2>1. Idle \in InFlight /\ Idle.at = "idle"
    BY DEF Idle, InFlight
  <2> QED
    BY <1>1, <2>1, CallStepsKeep DEF RequestLost, Answer, userVars, password, lockout, AInv, Shapes
<1>2. CASE UNCHANGED accountVars
  BY <1>2 DEF accountVars, userVars, password, lockout, AInv, Shapes, NothingBeforeRegistration,
     OnlyLiveHaveKeys, SessionsAccountedFor, OldSessionsEnd, OpenSession
<1> QED
  BY <1>1, <1>2, RegisterKeeps, LoginKeeps, ResetKeeps, SetPasswordKeeps, EnrolmentKeeps, EraseKeeps,
     SessionStepsKeep, LinkStepsKeep, UserStepsKeep DEF AccountNext

LEMMA AccountsHold == AccountSpec => []AInv
  BY AccountInitHolds, StepsKeep, PTL DEF AccountSpec

\* A session outlives a change of its user's password only if that change was made from
\* it or it began while the change was under way; the next change ends that one too.
THEOREM OldSessionsAreEnded == AccountSpec => []OldSessionsEnd
<1>1. AInv => OldSessionsEnd
  BY DEF AInv
<1> QED
  BY <1>1, AccountsHold, PTL

LEMMA ErasedStaysErased ==
    ASSUME AInv, [AccountNext]_accountVars, NEW u \in Users, user[u] = "erased"
    PROVE  user'[u] = "erased"
<1>1. ASSUME NEW r \in Calls, Register(r) PROVE user'[u] = "erased"
  BY <1>1 DEF Register, RegisterLookup, RegisterInsert, userVars, AInv, Shapes
<1>2. ASSUME NEW r \in Calls, EraseSubject(r) PROVE user'[u] = "erased"
  BY <1>2 DEF EraseSubject, EraseWrite, EraseCommit, userVars, AInv, Shapes
<1>3. CASE UNCHANGED user
  BY <1>3
<1>4. ASSUME NEW r \in Calls, Login(r) \/ BeginPasswordReset(r) \/ SetPassword(r)
                                \/ ConfirmTOTPEnrolment(r) \/ RequestLost(r)
      PROVE  UNCHANGED user
  BY <1>4 DEF Login, LoginLoad, FailedPassword, SecondFactor, Rehash, IssueSession, LoginSuccess,
     BeginPasswordReset, ResetBegin, ResetLink, SetPassword, ChangeLoad, ResetLoad, SetWrite,
     SetCommit, ConfirmTOTPEnrolment, EnrolLoad, EnrolConfirm, RequestLost, userVars
<1>5. ASSUME NEW s \in Sessions, RotateSession(s) \/ RevokeSession(s) \/ SessionLapses(s)
      PROVE  UNCHANGED user
  BY <1>5 DEF RotateSession, RevokeSession, SessionLapses, Ended, userVars
<1>6. ASSUME NEW l \in Links, VerificationComplete(l) \/ LinkLapses(l)
      PROVE  UNCHANGED user
  BY <1>6 DEF VerificationComplete, LinkLapses, userVars
<1>7. ASSUME NEW v \in Users, LockLapses(v) \/ VerificationLink(v) \/ EnrolBegin(v)
      PROVE  UNCHANGED user
  BY <1>7 DEF LockLapses, VerificationLink, EnrolBegin, userVars
<1> QED
  BY <1>1, <1>2, <1>3, <1>4, <1>5, <1>6, <1>7 DEF AccountNext, accountVars, userVars

\* A call is past its check to set a password: a link or a session led it there.
Writing == {"resetting", "changing", "setting"}

\* Nobody becomes a writer of an erased row, and to set its password a writer is spent.
LEMMA WritersRunOut ==
    ASSUME AInv, [AccountNext]_accountVars, NEW u \in Users, user[u] = "erased"
    PROVE  /\ \A c \in Calls : rq'[c].at \in Writing /\ rq'[c].user = u
                => rq[c].at \in Writing /\ rq[c].user = u
           /\ changes'[u] # changes[u] =>
                \E c \in Calls : /\ rq[c].at \in Writing /\ rq[c].user = u
                                  /\ rq'[c].at \notin Writing
<1> DEFINE Goal == /\ \A c \in Calls : rq'[c].at \in Writing /\ rq'[c].user = u
                        => rq[c].at \in Writing /\ rq[c].user = u
                   /\ changes'[u] # changes[u] =>
                        \E c \in Calls : /\ rq[c].at \in Writing /\ rq[c].user = u
                                          /\ rq'[c].at \notin Writing
<1>0. ASSUME NEW r \in Calls, NEW q, rq' = [rq EXCEPT ![r] = q], changes'[u] = changes[u],
             q.at \in Writing /\ q.user = u => rq[r].at \in Writing /\ rq[r].user = u
      PROVE  Goal
  BY <1>0 DEF AInv, Shapes
<1>1. ASSUME NEW r \in Calls, Register(r) PROVE Goal
  <2>1. PICK q \in {[at |-> "register"], Idle} : rq' = [rq EXCEPT ![r] = q]
    BY <1>1 DEF Register, RegisterLookup, RegisterInsert, Answer
  <2>2. changes'[u] = changes[u]
    BY <1>1 DEF Register, RegisterLookup, RegisterInsert, userVars, password, AInv, Shapes
  <2> QED
    BY <1>0, <2>1, <2>2 DEF Idle, Writing
<1>2. ASSUME NEW r \in Calls, Login(r) PROVE Goal
  <2>1. changes'[u] = changes[u]
    BY <1>2 DEF Login, LoginLoad, FailedPassword, SecondFactor, Rehash, IssueSession, LoginSuccess,
       userVars, password
  <2>2. CASE LoginLoad(r)
    <3>1. PICK v \in Users, p \in 1 .. MaxPasswords :
             rq' = [rq EXCEPT ![r] =
                IF p = hash[v]
                THEN [at |-> IF factor[v].on THEN "matched" ELSE "passed", user |-> v,
                      rehash |-> IF dated[v] THEN p ELSE 0]
                ELSE [at |-> "wrong", user |-> v, failed |-> failed[v]]]
      BY <2>2 DEF LoginLoad
    <3> DEFINE q == IF p = hash[v]
                    THEN [at |-> IF factor[v].on THEN "matched" ELSE "passed", user |-> v,
                          rehash |-> IF dated[v] THEN p ELSE 0]
                    ELSE [at |-> "wrong", user |-> v, failed |-> failed[v]]
    <3>2. q.at \in {"matched", "passed", "wrong"} /\ rq' = [rq EXCEPT ![r] = q]
      BY <3>1
    <3> HIDE DEF q
    <3> QED
      BY <1>0, <2>1, <3>2 DEF Writing
  <2>3. CASE FailedPassword(r) \/ LoginSuccess(r)
    BY <1>0, <2>1, <2>3 DEF FailedPassword, LoginSuccess, Answer, Idle, Writing
  <2>4. CASE SecondFactor(r) \/ Rehash(r)
    <3>1. rq[r] \in [at : {"matched", "passed", "partial"}, user : Users, rehash : Nat]
      BY <2>4, CallsInFlight DEF SecondFactor, Rehash, AInv
    <3>2. PICK q : rq' = [rq EXCEPT ![r] = q] /\ q.at \in {"passed", "partial", "idle"}
      <4>1. CASE Rehash(r)
        <5> DEFINE q == [rq[r] EXCEPT !.rehash = 0]
        <5>1. q.at = "passed" /\ rq' = [rq EXCEPT ![r] = q]
          BY <3>1, <4>1 DEF Rehash
        <5> HIDE DEF q
        <5> QED
          BY <5>1
      <4>2. CASE SecondFactor(r)
        <5>1. PICK at \in {"passed", "partial", "idle"} :
                 rq' = IF at = "idle" THEN [rq EXCEPT ![r] = Idle] ELSE [rq EXCEPT ![r].at = at]
          BY <4>2 DEF SecondFactor, Answer
        <5> DEFINE q == IF at = "idle" THEN Idle ELSE [rq[r] EXCEPT !.at = at]
        <5>2. q.at \in {"passed", "partial", "idle"} /\ rq' = [rq EXCEPT ![r] = q]
          BY <3>1, <5>1 DEF Idle
        <5> HIDE DEF q
        <5> QED
          BY <5>2
      <4> QED
        BY <2>4, <4>1, <4>2
    <3> QED
      BY <1>0, <2>1, <3>2 DEF Writing
  <2>5. CASE IssueSession(r)
    <3>1. PICK s \in Sessions :
             rq' = [c \in Calls |->
                CASE c = r /\ rq[r].at = "passed" -> [at |-> "issued", user |-> rq[r].user]
                  [] c = r /\ rq[r].at = "partial" -> Idle
                  [] c # r /\ rq[c].at = "setting" /\ rq[c].user = rq[r].user ->
                        [rq[c] EXCEPT !.missed = @ \cup {s}]
                  [] OTHER -> rq[c]]
      BY <2>5 DEF IssueSession
    <3>2. rq'[r] \in {[at |-> "issued", user |-> rq[r].user], Idle}
      BY <2>5, <3>1 DEF IssueSession
    <3>3. rq'[r].at \notin Writing
      BY <3>2 DEF Idle, Writing
    <3>4. ASSUME NEW c \in Calls, c # r
          PROVE  \/ rq'[c] = rq[c]
                 \/ rq[c].at = "setting" /\ rq'[c] = [rq[c] EXCEPT !.missed = @ \cup {s}]
      BY <3>1, <3>4
    <3>5. ASSUME NEW c \in Calls, rq[c].at = "setting",
                 rq'[c] = [rq[c] EXCEPT !.missed = @ \cup {s}]
          PROVE  rq'[c].user = rq[c].user
      BY <3>5, CallsInFlight DEF AInv
    <3> QED
      BY <2>1, <3>3, <3>4, <3>5 DEF Writing
  <2> QED
    BY <1>2, <2>2, <2>3, <2>4, <2>5 DEF Login
<1>3. ASSUME NEW r \in Calls, BeginPasswordReset(r) \/ ConfirmTOTPEnrolment(r)
                                \/ EraseSubject(r) \/ RequestLost(r)
      PROVE  Goal
  <2>1. PICK q : rq' = [rq EXCEPT ![r] = q] /\ q.at \in {"idle", "linking", "enrolling", "erasing"}
    BY <1>3 DEF BeginPasswordReset, ResetBegin, ResetLink, ConfirmTOTPEnrolment, EnrolLoad,
       EnrolConfirm, EraseSubject, EraseWrite, EraseCommit, RequestLost, Answer, Idle
  <2>2. changes'[u] = changes[u]
    BY <1>3 DEF BeginPasswordReset, ResetBegin, ResetLink, ConfirmTOTPEnrolment, EnrolLoad,
       EnrolConfirm, EraseSubject, EraseWrite, EraseCommit, RequestLost, userVars, password
  <2> QED
    BY <1>0, <2>1, <2>2 DEF Writing
<1>4. ASSUME NEW r \in Calls, SetPassword(r) PROVE Goal
  <2>1. CASE ChangeLoad(r)
    <3>1. PICK s \in Sessions : SignedIn(s) /\ rq' = [rq EXCEPT ![r] =
             [at |-> "changing", user |-> session[s].user, kept |-> {s}, links |-> {}]]
      BY <2>1 DEF ChangeLoad
    <3>2. session[s].user # u
      BY <3>1 DEF SignedIn, Resolves, Live
    <3>3. UNCHANGED changes
      BY <2>1 DEF ChangeLoad, userVars, password
    <3> QED
      BY <1>0, <3>1, <3>2, <3>3
  <2>2. ASSUME NEW l \in Links, ResetLoad(r, l) PROVE Goal
    <3>1. link[l].user # u
      BY <2>2 DEF ResetLoad, Resettable
    <3>2. UNCHANGED changes
      BY <2>2 DEF ResetLoad, userVars, password
    <3> QED
      BY <1>0, <2>2, <3>1, <3>2 DEF ResetLoad
  <2>3. CASE SetWrite(r)
    <3>1. UNCHANGED changes /\ rq[r].at \in Writing
      BY <2>3 DEF SetWrite, userVars, password, Writing
    <3> QED
      BY <1>0, <2>3, <3>1 DEF SetWrite
  <2>4. CASE SetCommit(r)
    <3>1. /\ rq[r].at \in Writing /\ rq' = [rq EXCEPT ![r] = Idle]
          /\ changes'[u] # changes[u] => rq[r].user = u
      BY <2>4 DEF SetCommit, Answer, Writing, AInv, Shapes
    <3> QED
      BY <3>1 DEF Idle, Writing, AInv, Shapes
  <2> QED
    BY <1>4, <2>1, <2>2, <2>3, <2>4 DEF SetPassword
<1>5. ASSUME NEW s \in Sessions, RotateSession(s) \/ RevokeSession(s) \/ SessionLapses(s)
      PROVE  UNCHANGED <<changes, rq>>
  BY <1>5 DEF RotateSession, RevokeSession, SessionLapses, Ended, userVars, password
<1>6. ASSUME NEW l \in Links, VerificationComplete(l) \/ LinkLapses(l)
      PROVE  UNCHANGED <<changes, rq>>
  BY <1>6 DEF VerificationComplete, LinkLapses, userVars, password
<1>7. ASSUME NEW v \in Users, LockLapses(v) \/ VerificationLink(v) \/ EnrolBegin(v)
      PROVE  UNCHANGED <<changes, rq>>
  BY <1>7 DEF LockLapses, VerificationLink, EnrolBegin, userVars, password
<1>8. CASE UNCHANGED accountVars
  BY <1>8 DEF accountVars, userVars, password
<1> QED
  BY <1>1, <1>2, <1>3, <1>4, <1>5, <1>6, <1>7, <1>8 DEF AccountNext

\* An erasure is final, whatever was in flight when it came: the row stays erased, its
\* key does not come back, and only calls that were past their checks still set its
\* password, each once.
THEOREM ErasuresAreFinal == AccountSpec => ErasureIsFinal
<1>1. AInv /\ AInv' /\ [AccountNext]_accountVars =>
        \A u \in Users : user[u] = "erased" =>
          /\ user'[u] = "erased" /\ ~ key'[u]
          /\ Writers(u)' \subseteq Writers(u)
          /\ changes'[u] # changes[u] => Writers(u)' # Writers(u)
  <2> SUFFICES ASSUME AInv, AInv', [AccountNext]_accountVars, NEW u \in Users, user[u] = "erased"
               PROVE  /\ user'[u] = "erased" /\ ~ key'[u]
                      /\ Writers(u)' \subseteq Writers(u)
                      /\ changes'[u] # changes[u] => Writers(u)' # Writers(u)
    OBVIOUS
  <2>1. user'[u] = "erased"
    BY ErasedStaysErased
  <2>2. ~ key'[u]
    BY <2>1, Zenon DEF AInv, OnlyLiveHaveKeys
  <2>3. Writers(u)' \subseteq Writers(u) /\ (changes'[u] # changes[u] => Writers(u)' # Writers(u))
    BY WritersRunOut DEF Writers, Writing
  <2> QED
    BY <2>1, <2>2, <2>3
<1> QED
  BY <1>1, AccountsHold, PTL DEF AccountSpec, ErasureIsFinal

-----------------------------------------------------------------------------
(***************************************************************************)
(* What holds of Delivery for any requests, allowance and crashes.         *)
(*                                                                         *)
(* A request has its ticket or its refusal, never both.  A file is on its  *)
(* way from here, or was sent, only if its ticket is spent, so a ticket    *)
(* that is open has served nothing; and the outcome of a request with the  *)
(* licence at hand is owed from the step that causes it until it is        *)
(* written, unless the file is fetched from storage.                       *)
(***************************************************************************)

Events == [request : Requests, outcome : Outcomes, linked : BOOLEAN]

Types ==
  /\ presigns \in BOOLEAN /\ used \in Nat /\ faults \in Nat
  /\ grant \in [Requests -> {"none", "open", "consumed", "cleared"}]
  /\ refused \subseteq Requests /\ serving \subseteq Requests
  /\ sent \in [Requests -> Nat]
  /\ owed \in [Requests -> Outcomes \cup {"none"}]
  /\ events \subseteq Events

\* A refused request has no ticket, and nothing is served without a spent one.
TicketSpent(r) == presigns \/ grant[r] \in {"consumed", "cleared"}

ServedBySpent ==
  \A r \in Requests :
    /\ r \in refused => grant[r] = "none"
    /\ r \in serving => ~presigns /\ sent[r] = 0
    /\ ~presigns => sent[r] <= 1
    /\ r \in serving \/ sent[r] > 0 => grant[r] # "none" /\ TicketSpent(r)

TicketsCounted == Cardinality(IssuedTickets) = used /\ used <= Limit

\* What is owed and what is written say "denied" of the refused requests only, and the
\* refusal of one that has the licence at hand can be written.
OutcomesFit ==
  /\ \A r \in Requests \ Strangers :
       /\ owed[r] # "none" => (owed[r] = "denied" <=> r \in refused)
       /\ owed[r] # "denied_entitlement"
  /\ \A e \in events : e.request \notin Strangers => (e.outcome = "denied" <=> e.request \in refused)

OwedOrWritten ==
  faults = 0 =>
    \A r \in Requests \ Strangers : r \in refused \/ (~presigns /\ sent[r] > 0) =>
      owed[r] # "none" \/ \E e \in events : e.request = r

\* A request without an answer has been served nothing and owes nothing.
NothingBefore ==
  \A r \in Requests : grant[r] = "none" /\ r \notin refused =>
    owed[r] = "none" /\ \A e \in events : e.request # r

DInv ==
  Types /\ ServedBySpent /\ TicketsCounted /\ OutcomesFit /\ OwedOrWritten /\ NothingBefore

LEMMA DeliveryInitHolds == DeliveryInit => DInv
<1> SUFFICES ASSUME DeliveryInit PROVE DInv
  OBVIOUS
<1>1. Types /\ ServedBySpent /\ OutcomesFit /\ OwedOrWritten /\ NothingBefore
  BY DEF DeliveryInit, Types, ServedBySpent, OutcomesFit, OwedOrWritten, NothingBefore
<1>2. IssuedTickets = {}
  BY DEF DeliveryInit, IssuedTickets
<1>3. TicketsCounted
  BY <1>2, FS_EmptySet, DeliveryAssumption DEF DeliveryInit, TicketsCounted
<1> QED
  BY <1>1, <1>3 DEF DInv

LEMMA IssueTicketKeeps ==
  ASSUME DInv, NEW r \in Requests, IssueTicket(r) PROVE DInv'
<1>0. /\ grant[r] = "none" /\ r \notin refused
      /\ UNCHANGED <<presigns, serving, sent, events, faults>>
  BY DEF IssueTicket
<1>1. CASE Issue(r)
  <2>0. /\ used < Limit /\ used' = used + 1 /\ UNCHANGED refused
        /\ grant' = [grant EXCEPT ![r] = "open"]
    BY <1>1 DEF Issue, Entitled
  <2>1. \/ presigns /\ owed' = [owed EXCEPT ![r] = "served"]
        \/ ~presigns /\ owed' = owed
    BY <1>1 DEF Issue
  <2>2. Types'
    BY <1>0, <2>0, <2>1 DEF DInv, Types, Outcomes
  <2>3. ServedBySpent'
    BY <1>0, <2>0, <2>1 DEF DInv, Types, ServedBySpent, TicketSpent
  <2>4. IssuedTickets' = IssuedTickets \cup {r} /\ r \notin IssuedTickets
    BY <1>0, <2>0 DEF DInv, Types, IssuedTickets
  <2>5. IsFiniteSet(IssuedTickets) /\ IssuedTickets \subseteq Requests
    BY DeliveryAssumption, FS_Subset DEF IssuedTickets
  <2>6. TicketsCounted'
    <3>1. Cardinality(IssuedTickets \cup {r}) = Cardinality(IssuedTickets) + 1
      BY <2>4, <2>5, FS_AddElement
    <3>2. used + 1 <= Limit
      BY <2>0, DeliveryAssumption DEF DInv, Types
    <3> QED
      BY <2>0, <2>4, <3>1, <3>2 DEF DInv, TicketsCounted
  <2>7. OutcomesFit' /\ OwedOrWritten' /\ NothingBefore'
    BY <1>0, <2>0, <2>1 DEF DInv, Types, OutcomesFit, OwedOrWritten, NothingBefore
  <2> QED
    BY <2>2, <2>3, <2>6, <2>7 DEF DInv
<1>2. CASE Refuse(r)
  <2>0. /\ refused' = refused \cup {r}
        /\ owed' = [owed EXCEPT ![r] = IF r \in Strangers THEN "denied_entitlement" ELSE "denied"]
        /\ UNCHANGED <<grant, used>>
    BY <1>2 DEF Refuse
  <2>1. Types' /\ ServedBySpent'
    BY <1>0, <2>0 DEF DInv, Types, ServedBySpent, TicketSpent, Outcomes
  <2>2. IssuedTickets' = IssuedTickets
    BY <2>0 DEF IssuedTickets
  <2>3. TicketsCounted'
    BY <2>0, <2>2 DEF DInv, TicketsCounted
  <2>4. OutcomesFit' /\ OwedOrWritten' /\ NothingBefore'
    BY <1>0, <2>0 DEF DInv, Types, OutcomesFit, OwedOrWritten, NothingBefore
  <2> QED
    BY <2>1, <2>3, <2>4 DEF DInv
<1> QED
  BY <1>1, <1>2 DEF IssueTicket

\* Steps after the ticket keep the set of requests that have one.
LEMMA CountKept ==
  ASSUME DInv, used' = used, IssuedTickets' = IssuedTickets PROVE TicketsCounted'
  BY DEF DInv, TicketsCounted

LEMMA RedeemKeeps ==
  ASSUME DInv, NEW r \in Requests, Redeem(r) PROVE DInv'
<1>0. /\ ~presigns /\ grant[r] = "open" /\ grant' = [grant EXCEPT ![r] = "consumed"]
      /\ serving' = serving \cup {r}
      /\ UNCHANGED <<presigns, used, refused, sent, owed, events, faults>>
  BY DEF Redeem, Redeemable
<1>1. sent[r] = 0
  BY <1>0 DEF DInv, Types, ServedBySpent, TicketSpent
<1>2. Types' /\ ServedBySpent'
  BY <1>0, <1>1 DEF DInv, Types, ServedBySpent, TicketSpent
<1>3. IssuedTickets' = IssuedTickets
  BY <1>0 DEF DInv, Types, IssuedTickets
<1>4. OutcomesFit' /\ OwedOrWritten' /\ NothingBefore'
  BY <1>0 DEF DInv, Types, OutcomesFit, OwedOrWritten, NothingBefore
<1> QED
  BY <1>0, <1>2, <1>3, <1>4, CountKept DEF DInv

LEMMA StreamEndsKeeps ==
  ASSUME DInv, NEW r \in Requests, StreamEnds(r) PROVE DInv'
<1>0. PICK outcome \in {"served", "aborted", "error"} :
        /\ r \in serving /\ serving' = serving \ {r}
        /\ owed' = [owed EXCEPT ![r] = outcome]
        /\ sent' = [sent EXCEPT ![r] = IF outcome = "error" THEN @ ELSE @ + 1]
        /\ UNCHANGED <<presigns, used, grant, refused, events, faults>>
  BY DEF StreamEnds, tickets
<1>1. /\ grant[r] # "none" /\ r \notin refused /\ sent[r] = 0 /\ TicketSpent(r)
      /\ sent'[r] \in {0, 1} /\ owed'[r] = outcome
      /\ \A q \in Requests \ {r} : sent'[q] = sent[q] /\ owed'[q] = owed[q]
  BY <1>0 DEF DInv, Types, ServedBySpent
<1>2. Types'
  BY <1>0, <1>1 DEF DInv, Types, Outcomes
<1>3. ServedBySpent'
  BY <1>0, <1>1 DEF DInv, Types, ServedBySpent, TicketSpent
<1>4. IssuedTickets' = IssuedTickets
  BY <1>0 DEF IssuedTickets
<1>5. OutcomesFit' /\ OwedOrWritten' /\ NothingBefore'
  BY <1>0, <1>1 DEF DInv, Types, OutcomesFit, OwedOrWritten, NothingBefore
<1> QED
  BY <1>0, <1>2, <1>3, <1>4, <1>5, CountKept DEF DInv

LEMMA FetchKeeps ==
  ASSUME DInv, NEW r \in Requests, Fetch(r) PROVE DInv'
<1>0. /\ presigns /\ grant[r] = "open" /\ sent' = [sent EXCEPT ![r] = @ + 1]
      /\ UNCHANGED <<presigns, used, grant, refused, serving, owed, events, faults>>
  BY DEF Fetch, Fetchable, tickets
<1>1. Types' /\ ServedBySpent'
  BY <1>0 DEF DInv, Types, ServedBySpent, TicketSpent
<1>2. IssuedTickets' = IssuedTickets
  BY <1>0 DEF IssuedTickets
<1>3. OutcomesFit' /\ OwedOrWritten' /\ NothingBefore'
  BY <1>0 DEF DInv, Types, OutcomesFit, OwedOrWritten, NothingBefore
<1> QED
  BY <1>0, <1>1, <1>2, <1>3, CountKept DEF DInv

LEMMA RecordKeeps ==
  ASSUME DInv, NEW r \in Requests, RecordOutside(r) PROVE DInv'
<1> DEFINE e == [request |-> r, outcome |-> owed[r], linked |-> grant[r] = "consumed"]
<1>0. /\ owed[r] # "none" /\ owed' = [owed EXCEPT ![r] = "none"]
      /\ UNCHANGED <<presigns, used, grant, refused, serving, sent, faults>>
  BY DEF RecordOutside, tickets
<1>1. e \in Events /\ e.request = r /\ e.outcome = owed[r]
  BY <1>0 DEF DInv, Types, Events
<1>2. events' = events \cup {e} \/ (r \in Strangers /\ events' = events)
  BY <1>0 DEF RecordOutside, Written, DInv, OutcomesFit
<1> HIDE DEF e
<1>3. Types' /\ ServedBySpent'
  BY <1>0, <1>1, <1>2 DEF DInv, Types, ServedBySpent, TicketSpent
<1>4. IssuedTickets' = IssuedTickets
  BY <1>0 DEF IssuedTickets
<1>5. OutcomesFit' /\ OwedOrWritten' /\ NothingBefore'
  BY <1>0, <1>1, <1>2 DEF DInv, Types, OutcomesFit, OwedOrWritten, NothingBefore
<1> QED
  BY <1>0, <1>3, <1>4, <1>5, CountKept DEF DInv

LEMMA RecordDroppedKeeps ==
  ASSUME DInv, NEW r \in Requests, RecordDropped(r) PROVE DInv'
<1>0. /\ presigns /\ owed[r] = "served" /\ owed' = [owed EXCEPT ![r] = "none"]
      /\ UNCHANGED <<presigns, used, grant, refused, serving, sent, events, faults>>
  BY DEF RecordDropped, tickets
<1>1. Types' /\ ServedBySpent'
  BY <1>0 DEF DInv, Types, ServedBySpent, TicketSpent
<1>2. IssuedTickets' = IssuedTickets
  BY <1>0 DEF IssuedTickets
<1>3. OutcomesFit' /\ OwedOrWritten' /\ NothingBefore'
  BY <1>0 DEF DInv, Types, OutcomesFit, OwedOrWritten, NothingBefore
<1> QED
  BY <1>0, <1>1, <1>2, <1>3, CountKept DEF DInv

LEMMA RecordLostKeeps ==
  ASSUME DInv, NEW r \in Requests, RecordLost(r) PROVE DInv'
<1>0. /\ owed' = [owed EXCEPT ![r] = "none"] /\ faults' = faults + 1
      /\ UNCHANGED <<presigns, used, grant, refused, serving, sent, events>>
  BY DEF RecordLost, tickets
<1>1. Types' /\ ServedBySpent'
  BY <1>0 DEF DInv, Types, ServedBySpent, TicketSpent
<1>2. IssuedTickets' = IssuedTickets
  BY <1>0 DEF IssuedTickets
<1>3. OutcomesFit' /\ OwedOrWritten' /\ NothingBefore'
  BY <1>0 DEF DInv, Types, OutcomesFit, OwedOrWritten, NothingBefore
<1> QED
  BY <1>0, <1>1, <1>2, <1>3, CountKept DEF DInv

LEMMA ExpireGrantsKeeps ==
  ASSUME DInv, ExpireGrants PROVE DInv'
<1>0. UNCHANGED <<presigns, used, refused, serving, sent, owed, events, faults>>
  BY DEF ExpireGrants, evidence
<1>1. /\ grant' \in [Requests -> {"none", "open", "consumed", "cleared"}]
      /\ \A r \in Requests :
           grant'[r] = grant[r] \/ (grant[r] # "none" /\ grant'[r] = "cleared")
  BY DEF ExpireGrants, Clearable, DInv, Types
<1>2. Types' /\ ServedBySpent'
  BY <1>0, <1>1 DEF DInv, Types, ServedBySpent, TicketSpent
<1>3. IssuedTickets' = IssuedTickets
  BY <1>1 DEF IssuedTickets
<1>4. OutcomesFit' /\ OwedOrWritten' /\ NothingBefore'
  BY <1>0, <1>1 DEF DInv, Types, OutcomesFit, OwedOrWritten, NothingBefore
<1> QED
  BY <1>0, <1>2, <1>3, <1>4, CountKept DEF DInv

\* What the invariant reads.
read == <<presigns, used, grant, refused, serving, sent, owed, events, faults>>

LEMMA OthersKeep ==
  ASSUME DInv, UNCHANGED read PROVE DInv'
  BY DEF read, DInv, Types, ServedBySpent, TicketSpent, TicketsCounted, IssuedTickets, OutcomesFit,
     OwedOrWritten, NothingBefore

LEMMA Inductive ==
  ASSUME DInv, [DeliveryNext]_deliveryVars PROVE DInv'
<1>1. CASE UNCHANGED deliveryVars
  BY <1>1, OthersKeep DEF deliveryVars, tickets, evidence, read
<1>2. ASSUME NEW r \in Requests, GrowOlder(r) PROVE DInv'
  BY <1>2, OthersKeep DEF GrowOlder, evidence, read
<1>3. CASE AccessExpires \/ RefundCheck \/ RefundEnds
  BY <1>3, OthersKeep DEF AccessExpires, RefundCheck, RefundEnds, tickets, evidence, read
<1> QED
  BY <1>1, <1>2, <1>3, IssueTicketKeeps, RedeemKeeps, StreamEndsKeeps, FetchKeeps, RecordKeeps,
     RecordDroppedKeeps, RecordLostKeeps, ExpireGrantsKeeps DEF DeliveryNext

\* No more tickets are made than the licence allows, and a file that is served here leaves
\* at most once per ticket, however requests, redemptions, fetches, crashes and sweeps
\* interleave (IssueTicket, Redeem).  Nothing of the kind is said of presigned URLs.
THEOREM TicketsKeepTheAllowance == DeliverySpec => []ServedWithinAllowance
<1>1. DInv => ServedWithinAllowance
  <2> SUFFICES ASSUME DInv PROVE ServedWithinAllowance
    OBVIOUS
  <2>1. ASSUME NEW r \in Requests
        PROVE  /\ ~presigns => (r \in serving => sent[r] = 0) /\ sent[r] <= 1
               /\ r \in serving \/ sent[r] > 0 => r \in IssuedTickets
    BY DEF DInv, ServedBySpent, IssuedTickets
  <2> QED
    BY <2>1 DEF DInv, TicketsCounted, ServedWithinAllowance
<1> QED
  BY <1>1, DeliveryInitHolds, Inductive, PTL DEF DeliverySpec

\* What this process refused with the licence at hand, or sent itself, is in
\* download_events when its request is over, unless the process stopped or the insert
\* failed (recordOutside, after the transaction or the stream has ended).
THEOREM DownloadsAreEvidenced == DeliverySpec => []EverythingIsEvidenced
<1>1. DInv => EverythingIsEvidenced
  <2> SUFFICES ASSUME DInv, faults = 0, NEW r \in Requests \ Strangers,
                      r \in refused \/ (~presigns /\ sent[r] > 0), owed[r] = "none"
               PROVE  \E e \in events : e.request = r /\ (e.outcome = "denied" <=> r \in refused)
    BY DEF EverythingIsEvidenced
  <2>1. PICK e \in events : e.request = r
    BY DEF DInv, OwedOrWritten
  <2> QED
    BY <2>1 DEF DInv, OutcomesFit
<1> QED
  BY <1>1, DeliveryInitHolds, Inductive, PTL DEF DeliverySpec

Ages == age \in [Requests -> {"fresh", "lapsed", "old"}]

LEMMA AgesHold == DeliverySpec => []Ages
<1>1. DeliveryInit => Ages
  BY DEF DeliveryInit, Ages
<1>2. Ages /\ [DeliveryNext]_deliveryVars => Ages'
  BY DEF Ages, DeliveryNext, deliveryVars, tickets, evidence, IssueTicket, Redeem, StreamEnds, Fetch,
     RecordOutside, RecordDropped, RecordLost, GrowOlder, AccessExpires, ExpireGrants, RefundCheck, RefundEnds
<1> QED
  BY <1>1, <1>2, PTL DEF DeliverySpec

\* A ticket that IssueTicket has made, and whose answer is still to be given.
OnItsWay == {r \in IssuedTickets : age[r] = "fresh" /\ owed[r] # "none"}

\* Redemptions, fetches, evidence and the clock take files out of reach, and bring one
\* into reach only when the answer to its ticket is given.
LEMMA ReachShrinks ==
  ASSUME DInv, Ages, DeliveryNext, licence = "refunded"
  PROVE  /\ IssuedTickets' = IssuedTickets
         /\ InReach' \subseteq InReach \cup OnItsWay
         /\ \A r \in Requests : sent'[r] # sent[r] => r \in InReach
<1> USE DEF InReach, Fetchable, Redeemable, OnItsWay, IssuedTickets
<1>1. ASSUME NEW r \in Requests, IssueTicket(r)
      PROVE  /\ UNCHANGED <<presigns, grant, age, serving, sent>> /\ grant[r] = "none"
             /\ \A q \in Requests : q # r => owed'[q] = owed[q]
  BY <1>1 DEF IssueTicket, Issue, Refuse, Entitled, DInv, Types
<1>2. ASSUME NEW r \in Requests, Redeem(r)
      PROVE  /\ ~presigns /\ grant[r] = "open" /\ age[r] = "fresh"
             /\ grant' = [grant EXCEPT ![r] = "consumed"] /\ serving' = serving \cup {r}
             /\ UNCHANGED <<presigns, age, sent, owed>>
  BY <1>2 DEF Redeem
<1>3. ASSUME NEW r \in Requests, StreamEnds(r)
      PROVE  /\ ~presigns /\ r \in serving /\ serving' \subseteq serving
             /\ \A q \in Requests : q # r => sent'[q] = sent[q]
             /\ UNCHANGED <<presigns, grant, age>>
  BY <1>3 DEF StreamEnds, tickets, DInv, Types, ServedBySpent
<1>4. ASSUME NEW r \in Requests, Fetch(r)
      PROVE  /\ r \in InReach /\ \A q \in Requests : q # r => sent'[q] = sent[q]
             /\ UNCHANGED <<presigns, grant, age, serving, owed>>
  BY <1>4 DEF Fetch, tickets, DInv, Types
<1>5. ASSUME NEW r \in Requests, RecordOutside(r) \/ RecordDropped(r) \/ RecordLost(r)
      PROVE  /\ owed[r] # "none" /\ \A q \in Requests : q # r => owed'[q] = owed[q]
             /\ UNCHANGED <<presigns, grant, age, serving, sent>>
  BY <1>5 DEF RecordOutside, RecordDropped, RecordLost, tickets, DInv, Types
<1>6. ASSUME NEW r \in Requests, GrowOlder(r)
      PROVE  /\ UNCHANGED <<presigns, grant, serving, sent, owed>>
             /\ \A q \in Requests : age'[q] = "fresh" => age[q] = "fresh"
  BY <1>6 DEF GrowOlder, evidence, Ages
<1>7. ExpireGrants => /\ UNCHANGED <<presigns, age, serving, sent, owed>>
                      /\ \A q \in Requests : grant'[q] = grant[q] \/ (grant[q] # "none" /\ grant'[q] = "cleared")
  BY DEF ExpireGrants, Clearable, evidence, DInv, Types
<1>8. AccessExpires \/ RefundCheck \/ RefundEnds => UNCHANGED <<presigns, grant, age, serving, sent, owed>>
  BY DEF AccessExpires, RefundCheck, RefundEnds, tickets, evidence
<1> DEFINE Goal == /\ IssuedTickets' = IssuedTickets
                   /\ InReach' \subseteq InReach \cup OnItsWay
                   /\ \A r \in Requests : sent'[r] # sent[r] => r \in InReach
<1>9. ASSUME NEW r \in Requests, IssueTicket(r) PROVE Goal
  BY <1>1, <1>9
<1>10. ASSUME NEW r \in Requests, Redeem(r) PROVE Goal
  BY <1>2, <1>10 DEF DInv, Types
<1>11. ASSUME NEW r \in Requests, StreamEnds(r) PROVE Goal
  BY <1>3, <1>11
<1>12. ASSUME NEW r \in Requests, Fetch(r) PROVE Goal
  BY <1>4, <1>12
<1>13. ASSUME NEW r \in Requests, RecordOutside(r) \/ RecordDropped(r) \/ RecordLost(r) PROVE Goal
  BY <1>5, <1>13
<1>14. ASSUME NEW r \in Requests, GrowOlder(r) PROVE Goal
  BY <1>6, <1>14
<1>15. ExpireGrants => Goal
  BY <1>7
<1>16. AccessExpires \/ RefundCheck \/ RefundEnds => Goal
  BY <1>8
<1> QED
  BY <1>9, <1>10, <1>11, <1>12, <1>13, <1>14, <1>15, <1>16 DEF DeliveryNext

\* A refund lets nothing new into reach: no ticket is made after it, and a file that
\* leaves was in reach at the refund or was on its way out of IssueTicket (IssueTicket
\* reads licenses.status under the row's lock; Redeem and storage do not read it).
THEOREM RefundsBoundAccess == DeliverySpec => RefundBoundsAccess
<1>1. DInv /\ Ages /\ [DeliveryNext]_deliveryVars =>
        [licence = "refunded" =>
           /\ IssuedTickets' = IssuedTickets
           /\ InReach' \subseteq InReach \cup {r \in IssuedTickets : age[r] = "fresh" /\ owed[r] # "none"}
           /\ \A r \in Requests : sent'[r] # sent[r] => r \in InReach]_deliveryVars
  BY ReachShrinks DEF OnItsWay
<1> QED
  BY <1>1, DeliveryInitHolds, Inductive, AgesHold, PTL DEF DeliverySpec, RefundBoundsAccess

-----------------------------------------------------------------------------
(***************************************************************************)
(* What holds of Limiter for any keys, goroutines, rule and clock.         *)
(*                                                                         *)
(* The limit rests on the arrival time: at every moment that a call may    *)
(* yet be decided by, it is ahead of any earlier moment by the cost of all *)
(* that was let through since (Ahead), so a call that conforms overdraws   *)
(* no window (WindowsKept).  A sweep takes away an arrival time only once  *)
(* it is behind all those moments, or it overtakes a caller.               *)
(***************************************************************************)

\* What a caller may have asked.
Questions == {NoCall} \cup [key : {{k} : k \in Keys}, units : Charges, now : Nat]

LimiterShapes ==
    /\ clock \in Nat /\ clock <= MaxTime
    /\ arrival \in [Keys -> Int]
    /\ asked \in [Callers -> Questions]
    /\ \A c \in Callers : asked[c].now <= clock
    /\ charged \in [Keys -> [0 .. MaxTime -> Nat]]
    /\ DOMAIN told = Keys

\* The moments that a call may yet be decided by.
MayCome(k, n) == n \in Nat /\ (clock <= n \/ \E c \in Callers : asked[c].key = {k} /\ asked[c].now = n)

\* The arrival time is ahead of any moment by the cost of what was let through since.
Ahead(k) ==
    \A n : MayCome(k, n) =>
        \A first \in 0 .. n : first + Cost(UnitsWithin(k, first, MaxTime)) <= From(k, n)

WindowsKept(k) ==
    \A first \in 0 .. MaxTime : \A last \in first .. MaxTime :
        Cost(UnitsWithin(k, first, last)) <= Period + (last - first)

\* What a refused caller was told is enough for the arrival time as it is.
TellsEnough(k) ==
    told[k] # Nobody =>
        /\ told[k].until \in Nat /\ told[k].units \in Charges
        /\ arrival[k] + Cost(told[k].units) - Period <= told[k].until

GInv ==
    /\ LimiterShapes
    /\ \A k \in Keys : (k \notin overtaken => Ahead(k) /\ WindowsKept(k)) /\ TellsEnough(k)

\* A call costs at most the period.
LEMMA Emission ==
    /\ Interval \in Nat
    /\ \A a \in Nat, b \in Nat : Cost(a) \in Nat /\ Cost(a + b) = Cost(a) + Cost(b)
    /\ \A u \in Charges : u \in Nat /\ Cost(u) <= Period
<1>1. Interval \in Nat
  BY LimiterBounds DEF Interval
<1>2. \A a \in Nat, b \in Nat, i \in Nat : a * i \in Nat /\ (a + b) * i = a * i + b * i
  OBVIOUS
<1>3. \A a \in Nat, b \in Nat : Cost(a) \in Nat /\ Cost(a + b) = Cost(a) + Cost(b)
  BY <1>1, <1>2 DEF Cost
<1>4. ASSUME NEW u \in Charges PROVE u \in Nat /\ Cost(u) <= Period
  <2>1. CASE Burst = 0
    <3>1. u = 1 /\ Interval = Period
      BY <2>1, LimiterBounds DEF Interval
    <3> QED
      BY <3>1, LimiterBounds DEF Cost
  <2>2. CASE Burst # 0
    <3>1. u \in Nat /\ u <= Burst /\ Interval = Period \div Burst /\ Burst \in Nat \ {0} /\ Period \in Nat
      BY <2>2, LimiterBounds DEF Interval
    <3>2. \A p \in Nat, b \in Nat \ {0} : b * (p \div b) <= p
      OBVIOUS
    <3>3. \A i \in Nat, b \in Nat : u <= b => u * i <= b * i
      BY <3>1
    <3> QED
      BY <1>1, <3>1, <3>2, <3>3 DEF Cost
  <2> QED
    BY <2>1, <2>2
<1> QED
  BY <1>1, <1>3, <1>4

LEMMA RetryIsEnough ==
    ASSUME NEW delay \in Nat, NEW s \in RetryAfter(delay)
    PROVE  s \in Nat /\ delay <= s * Second
<1>1. Second \in Nat \ {0}
  BY LimiterBounds
<1>2. \A n \in Nat : n \div Second \in Nat /\ n < (n \div Second) * Second + Second
  BY <1>1
<1>3. CASE s = delay \div Second + 1
  BY <1>1, <1>2, <1>3
<1>4. CASE s = (delay + Second - 1) \div Second
  BY <1>1, <1>2, <1>4
<1> QED
  BY <1>3, <1>4 DEF RetryAfter

LEMMA CostGrows ==
    ASSUME NEW a \in Nat, NEW b \in Nat, a <= b
    PROVE  Cost(a) <= Cost(b)
<1>1. b - a \in Nat /\ b = a + (b - a)
  OBVIOUS
<1>2. Cost(a) \in Nat /\ Cost(b - a) \in Nat /\ Cost(a + (b - a)) = Cost(a) + Cost(b - a)
  BY <1>1, Emission
<1> QED
  BY <1>1, <1>2

\* A stretch of the clock, and what was charged in it.
LEMMA Stretch ==
    ASSUME NEW f \in [0 .. MaxTime -> Nat], NEW first \in Nat, NEW last \in 0 .. MaxTime
    PROVE  /\ IsFiniteSet(first .. last) /\ first .. last \subseteq 0 .. MaxTime
           /\ \A t \in first .. last : f[t] \in Nat /\ f[t] \in Int
           /\ SumFunctionOnSet(f, first .. last) \in Nat
<1>1. first .. last \subseteq 0 .. MaxTime
  BY LimiterBounds
<1>2. IsFiniteSet(first .. last)
  <2> first \in Int /\ last \in Int
    OBVIOUS
  <2> QED
    BY FS_Interval
<1>3. \A t \in first .. last : f[t] \in Nat /\ f[t] \in Int
  BY <1>1
<1> QED
  BY <1>1, <1>2, <1>3, SumNat

LEMMA StretchGrows ==
    ASSUME NEW f \in [0 .. MaxTime -> Nat], NEW first \in Nat, NEW last \in 0 .. MaxTime
    PROVE  SumFunctionOnSet(f, first .. last) <= SumFunctionOnSet(f, first .. MaxTime)
<1> MaxTime \in 0 .. MaxTime
  BY LimiterBounds
<1>1. first .. last \in SUBSET (first .. MaxTime)
  BY LimiterBounds
<1>2. /\ IsFiniteSet(first .. MaxTime) /\ \A t \in first .. MaxTime : f[t] \in Nat /\ f[t] \in Int
      /\ SumFunctionOnSet(f, first .. last) \in Nat /\ SumFunctionOnSet(f, first .. MaxTime) \in Nat
  BY Stretch
<1>3. PICK R : R = (first .. MaxTime) \ (first .. last)
  OBVIOUS
<1>4. IsFiniteSet(R) /\ \A t \in R : f[t] \in Nat
  BY <1>2, <1>3, FS_Subset
<1>5. SumFunctionOnSet(f, R) \in Nat
  BY <1>4, SumNat
<1>6. SumFunctionOnSet(f, first .. MaxTime) = SumFunctionOnSet(f, first .. last) + SumFunctionOnSet(f, R)
  BY <1>1, <1>2, <1>3, SumSplit, ZenonT(30)
<1> QED
  BY <1>2, <1>5, <1>6

\* One more charge.
OneMore(f, g, t, u) ==
    /\ f \in [0 .. MaxTime -> Nat] /\ t \in 0 .. MaxTime /\ u \in Nat
    /\ g[t] = f[t] + u /\ \A i \in 0 .. MaxTime : i # t => g[i] = f[i]

LEMMA StretchCharged ==
    ASSUME NEW f, NEW g, NEW t, NEW u, OneMore(f, g, t, u),
           NEW first \in Nat, NEW last \in 0 .. MaxTime
    PROVE  /\ t \in first .. last =>
                  SumFunctionOnSet(g, first .. last) = SumFunctionOnSet(f, first .. last) + u
           /\ t \notin first .. last => SumFunctionOnSet(g, first .. last) = SumFunctionOnSet(f, first .. last)
<1> DEFINE S == first .. last
<1>1. /\ IsFiniteSet(S) /\ S \subseteq 0 .. MaxTime
      /\ \A i \in S : f[i] \in Nat /\ f[i] \in Int
      /\ SumFunctionOnSet(f, S) \in Nat
  BY Stretch DEF OneMore
<1> HIDE DEF S
<1>2. f[t] \in Nat /\ g[t] \in Int /\ g[t] = f[t] + u /\ u \in Nat
  BY DEF OneMore
<1>3. CASE t \in S
  <2>1. \A i \in S : f[i] \in Int
    BY <1>1
  <2>2. \A i \in S \ {t} : g[i] = f[i]
    BY <1>1 DEF OneMore
  <2>3. SumFunctionOnSet(g, S) = SumFunctionOnSet(f, S) + g[t] - f[t]
    <3>1. IsFiniteSet(S) /\ g[t] \in Int
      BY <1>1, <1>2
    <3> QED
      BY <1>3, <2>1, <2>2, <3>1, SumUpdateAll
  <2> QED
    BY <1>1, <1>2, <1>3, <2>3 DEF S
<1>4. CASE t \notin S
  <2>1. \A i \in S : g[i] = f[i]
    BY <1>1, <1>4 DEF OneMore
  <2> QED
    BY <1>1, <1>4, <2>1, SumSame DEF S
<1> QED
  BY <1>3, <1>4 DEF S

LEMMA LimiterBegins == LimiterInit => GInv
<1> SUFFICES ASSUME LimiterInit PROVE GInv
  OBVIOUS
<1>1. LimiterShapes
  <2>1. charged \in [Keys -> [0 .. MaxTime -> Nat]] /\ arrival \in [Keys -> Int]
    BY DEF LimiterInit, NoArrival
  <2>2. clock \in Nat /\ clock <= MaxTime /\ DOMAIN told = Keys
    BY LimiterBounds DEF LimiterInit
  <2>3. asked \in [Callers -> Questions] /\ \A c \in Callers : asked[c].now <= clock
    BY DEF LimiterInit, Questions, NoCall
  <2> QED
    BY <2>1, <2>2, <2>3 DEF LimiterShapes
<1>2. ASSUME NEW k \in Keys PROVE Ahead(k) /\ WindowsKept(k) /\ TellsEnough(k)
  <2>1. ASSUME NEW first \in Nat, NEW last \in 0 .. MaxTime PROVE UnitsWithin(k, first, last) = 0
    <3>1. charged[k] \in [0 .. MaxTime -> Nat] /\ \A t \in 0 .. MaxTime : charged[k][t] = 0
      BY DEF LimiterInit
    <3>2. IsFiniteSet(first .. last) /\ first .. last \subseteq 0 .. MaxTime
      BY <3>1, Stretch
    <3>3. \A t \in first .. last : charged[k][t] = 0
      BY <3>1, <3>2
    <3> QED
      BY <3>2, <3>3, SumZero DEF UnitsWithin
  <2>2. Cost(0) = 0
    BY Emission DEF Cost
  <2>3. Ahead(k)
    <3> SUFFICES ASSUME NEW n \in Nat, NEW first \in 0 .. n
                 PROVE  first + Cost(UnitsWithin(k, first, MaxTime)) <= From(k, n)
      BY DEF Ahead, MayCome
    <3>1. UnitsWithin(k, first, MaxTime) = 0
      BY <2>1, LimiterBounds
    <3>2. From(k, n) = n
      BY DEF From, LimiterInit, NoArrival
    <3> QED
      BY <2>2, <3>1, <3>2
  <2>4. WindowsKept(k)
    <3> SUFFICES ASSUME NEW first \in 0 .. MaxTime, NEW last \in first .. MaxTime
                 PROVE  Cost(UnitsWithin(k, first, last)) <= Period + (last - first)
      BY DEF WindowsKept
    <3>1. UnitsWithin(k, first, last) = 0
      BY <2>1, LimiterBounds
    <3> QED
      BY <2>2, <3>1, LimiterBounds
  <2>5. TellsEnough(k)
    BY DEF TellsEnough, LimiterInit
  <2> QED
    BY <2>3, <2>4, <2>5
<1> QED
  BY <1>1, <1>2 DEF GInv

LEMMA AskKeeps ==
    ASSUME GInv, NEW c \in Callers, NEW k \in Keys, NEW units \in Charges, Ask(c, k, units)
    PROVE  GInv'
<1>1. UNCHANGED <<clock, arrival, charged, told, overtaken>>
  BY DEF Ask
<1>2. asked' = [asked EXCEPT ![c] = [key |-> {k}, units |-> units, now |-> clock]]
  BY DEF Ask
<1>3. LimiterShapes'
  <2>1. [key |-> {k}, units |-> units, now |-> clock] \in Questions
    BY DEF Questions, GInv, LimiterShapes
  <2> QED
    BY <1>1, <1>2, <2>1 DEF GInv, LimiterShapes
<1>4. ASSUME NEW l, NEW n, MayCome(l, n)' PROVE MayCome(l, n)
  <2>1. clock \in Nat /\ n \in Nat /\ clock' = clock
    BY <1>1, <1>4 DEF MayCome, GInv, LimiterShapes
  <2>2. ASSUME NEW d \in Callers, asked'[d].key = {l}, asked'[d].now = n PROVE MayCome(l, n)
    <3>1. CASE d = c
      <4>1. asked'[d].now = clock
        BY <1>2, <3>1 DEF GInv, LimiterShapes
      <4> QED
        BY <2>1, <2>2, <4>1 DEF MayCome
    <3>2. CASE d # c
      <4>1. asked'[d] = asked[d]
        BY <1>2, <3>2 DEF GInv, LimiterShapes
      <4> QED
        BY <2>1, <2>2, <4>1 DEF MayCome
    <3> QED
      BY <3>1, <3>2
  <2> QED
    BY <1>4, <2>1, <2>2 DEF MayCome
<1>5. \A l \in Keys : Ahead(l) => Ahead(l)'
  BY <1>1, <1>4 DEF Ahead, UnitsWithin, From
<1>6. \A l \in Keys : (WindowsKept(l) => WindowsKept(l)') /\ (TellsEnough(l) => TellsEnough(l)')
  BY <1>1 DEF WindowsKept, TellsEnough, UnitsWithin
<1> QED
  BY <1>1, <1>3, <1>5, <1>6 DEF GInv

LEMMA ClockTicksKeeps ==
    ASSUME GInv, ClockTicks
    PROVE  GInv'
<1>1. UNCHANGED <<arrival, asked, charged, told, overtaken>> /\ clock' = clock + 1 /\ clock < MaxTime
  BY DEF ClockTicks
<1>2. LimiterShapes'
  <2>1. clock' \in Nat /\ clock' <= MaxTime
    BY <1>1, LimiterBounds DEF GInv, LimiterShapes
  <2>2. \A c \in Callers : asked[c].now \in Nat
    BY DEF GInv, LimiterShapes, Questions, NoCall
  <2> QED
    BY <1>1, <2>1, <2>2 DEF GInv, LimiterShapes
<1>3. \A l, n : MayCome(l, n)' => MayCome(l, n)
  BY <1>1 DEF MayCome, GInv, LimiterShapes
<1>4. \A l \in Keys : Ahead(l) => Ahead(l)'
  BY <1>1, <1>3 DEF Ahead, UnitsWithin, From
<1>5. \A l \in Keys : (WindowsKept(l) => WindowsKept(l)') /\ (TellsEnough(l) => TellsEnough(l)')
  BY <1>1 DEF WindowsKept, TellsEnough, UnitsWithin
<1> QED
  BY <1>1, <1>2, <1>4, <1>5 DEF GInv

\* A sweep removes an arrival time that is as good as none to all who may come, but to a
\* caller it overtakes.
LEMMA SweepKeeps ==
    ASSUME GInv, Sweep
    PROVE  GInv'
<1>1. UNCHANGED <<clock, asked, charged, told>>
  BY DEF Sweep
<1>2. PICK now \in 0 .. clock :
          /\ arrival' = [k \in Keys |-> IF arrival[k] < now THEN NoArrival ELSE arrival[k]]
          /\ overtaken' = overtaken \cup
                {k \in Keys : \E c \in Callers : asked[c].key = {k} /\ arrival[k] \in asked[c].now .. now - 1}
  BY DEF Sweep
<1>3. now \in Nat /\ clock \in Nat /\ now <= clock
  BY DEF GInv, LimiterShapes
<1>4. LimiterShapes'
  BY <1>1, <1>2 DEF GInv, LimiterShapes, NoArrival
<1>5. ASSUME NEW k \in Keys PROVE (k \notin overtaken' => Ahead(k)' /\ WindowsKept(k)') /\ TellsEnough(k)'
  <2>1. arrival[k] \in Int /\ arrival'[k] = IF arrival[k] < now THEN NoArrival ELSE arrival[k]
    BY <1>2 DEF GInv, LimiterShapes
  <2>2. ASSUME k \notin overtaken' PROVE Ahead(k)' /\ WindowsKept(k)'
    <3>1. k \notin overtaken /\ \A c \in Callers : asked[c].key = {k} => arrival[k] \notin asked[c].now .. now - 1
      BY <1>2, <2>2
    <3>2. Ahead(k) /\ WindowsKept(k)
      BY <3>1 DEF GInv
    <3>3. ASSUME NEW n, MayCome(k, n) PROVE From(k, n)' = From(k, n)
      <4>1. n \in Nat /\ (arrival[k] < now => arrival[k] < n)
        <5>1. n \in Nat
          BY <3>3 DEF MayCome
        <5>2. CASE clock <= n
          BY <1>3, <2>1, <5>1, <5>2
        <5>3. CASE \E c \in Callers : asked[c].key = {k} /\ asked[c].now = n
          <6>1. arrival[k] \notin n .. now - 1
            BY <3>1, <5>3
          <6> QED
            BY <1>3, <2>1, <5>1, <6>1
        <5> QED
          BY <3>3, <5>1, <5>2, <5>3 DEF MayCome
      <4>2. -1 < n
        BY <4>1
      <4> QED
        BY <2>1, <4>1, <4>2 DEF From, NoArrival
    <3>4. \A n : MayCome(k, n)' <=> MayCome(k, n)
      BY <1>1 DEF MayCome
    <3> QED
      BY <1>1, <3>2, <3>3, <3>4 DEF Ahead, WindowsKept, UnitsWithin
  <2>3. TellsEnough(k)'
    <3> SUFFICES ASSUME told[k] # Nobody
                 PROVE  /\ told[k].until \in Nat /\ told[k].units \in Charges
                        /\ arrival'[k] + Cost(told[k].units) - Period <= told[k].until
      BY <1>1 DEF TellsEnough
    <3>1. /\ told[k].until \in Nat /\ told[k].units \in Charges
          /\ arrival[k] + Cost(told[k].units) - Period <= told[k].until
      BY DEF GInv, TellsEnough
    <3>2. Cost(told[k].units) \in Nat /\ Cost(told[k].units) <= Period /\ Period \in Nat
      BY <3>1, Emission, LimiterBounds
    <3> QED
      BY <2>1, <3>1, <3>2 DEF NoArrival
  <2> QED
    BY <2>2, <2>3
<1> QED
  BY <1>4, <1>5 DEF GInv

\* A refusal leaves all but the caller and what it is told as it was.
LEMMA RefusalKeeps ==
    ASSUME GInv, NEW c \in Callers, NEW k \in Keys, Decide(c, k),
           AllowAt(k, asked[c].now, asked[c].units) > asked[c].now
    PROVE  GInv'
<1>1. PICK now, u, x : now = asked[c].now /\ u = asked[c].units /\ x = From(k, now)
  OBVIOUS
<1>2. /\ now \in Nat /\ now <= clock /\ u \in Charges /\ clock \in Nat
      /\ arrival[k] \in Int /\ x \in Int /\ arrival[k] <= x
  <2>1. asked[c] \in Questions /\ asked[c].key = {k} /\ asked[c].key # {} /\ asked[c].now <= clock
    BY DEF Decide, GInv, LimiterShapes
  <2>2. now \in Nat /\ u \in Charges
    BY <1>1, <2>1 DEF Questions, NoCall
  <2>3. arrival[k] \in Int /\ clock \in Nat
    BY DEF GInv, LimiterShapes
  <2> QED
    BY <1>1, <2>1, <2>2, <2>3 DEF From
<1>3. Cost(u) \in Nat /\ Period \in Nat /\ x + Cost(u) - Period > now
  <2>1. Cost(u) \in Nat /\ Period \in Nat
    BY <1>2, Emission, LimiterBounds
  <2> QED
    BY <1>1, <2>1 DEF AllowAt
<1>4. UNCHANGED <<clock, arrival, charged, overtaken>> /\ asked' = [asked EXCEPT ![c] = NoCall]
  BY DEF Decide
<1>5. PICK s \in RetryAfter(x + Cost(u) - Period - now) :
          told' = [told EXCEPT ![k] = [until |-> clock + s * Second, units |-> u]]
  <2>1. \E s \in RetryAfter(AllowAt(k, asked[c].now, asked[c].units) - asked[c].now) :
            told' = [told EXCEPT ![k] = [until |-> clock + s * Second, units |-> asked[c].units]]
    BY DEF Decide
  <2>2. AllowAt(k, asked[c].now, asked[c].units) = x + Cost(u) - Period
    BY <1>1 DEF AllowAt
  <2>3. AllowAt(k, asked[c].now, asked[c].units) - asked[c].now = x + Cost(u) - Period - now
    BY <1>1, <1>2, <1>3, <2>2
  <2>4. PICK s : /\ s \in RetryAfter(AllowAt(k, asked[c].now, asked[c].units) - asked[c].now)
                 /\ told' = [told EXCEPT ![k] = [until |-> clock + s * Second, units |-> asked[c].units]]
    BY <2>1
  <2>5. s \in RetryAfter(x + Cost(u) - Period - now)
    BY <2>3, <2>4
  <2>6. told' = [told EXCEPT ![k] = [until |-> clock + s * Second, units |-> u]]
    BY <1>1, <2>4
  <2> QED
    BY <2>5, <2>6
<1>6. s * Second \in Nat /\ x + Cost(u) - Period - now <= s * Second
  <2>1. x + Cost(u) - Period - now \in Nat
    BY <1>2, <1>3
  <2>2. s \in Nat /\ x + Cost(u) - Period - now <= s * Second
    BY <1>5, <2>1, RetryIsEnough
  <2> QED
    BY <2>2, LimiterBounds
<1>7. LimiterShapes'
  <2>1. asked' \in [Callers -> Questions] /\ \A d \in Callers : asked'[d].now <= clock
    BY <1>2, <1>4 DEF GInv, LimiterShapes, Questions, NoCall
  <2>2. DOMAIN told' = Keys
    BY <1>5 DEF GInv, LimiterShapes
  <2> QED
    BY <1>4, <2>1, <2>2 DEF GInv, LimiterShapes
<1>8. ASSUME NEW l, NEW n, MayCome(l, n)' PROVE MayCome(l, n)
  <2>1. \A d \in Callers : asked'[d].key = {l} => d # c /\ asked'[d] = asked[d]
    BY <1>4 DEF NoCall, GInv, LimiterShapes
  <2> QED
    BY <1>4, <1>8, <2>1 DEF MayCome
<1>9. ASSUME NEW l \in Keys PROVE TellsEnough(l)'
  <2>1. CASE l = k
    <3>1. told'[l] = [until |-> clock + s * Second, units |-> u]
      BY <1>5, <2>1 DEF GInv, LimiterShapes
    <3>2. told'[l].until = clock + s * Second /\ told'[l].units = u
      BY <3>1
    <3>3. clock + s * Second \in Nat /\ arrival'[l] + Cost(u) - Period <= clock + s * Second
      BY <1>2, <1>3, <1>4, <1>6, <2>1
    <3> QED
      BY <1>2, <3>2, <3>3 DEF TellsEnough
  <2>2. CASE l # k
    <3>1. told'[l] = told[l] /\ arrival'[l] = arrival[l]
      BY <1>4, <1>5, <2>2 DEF GInv, LimiterShapes
    <3> QED
      BY <3>1 DEF TellsEnough, GInv
  <2> QED
    BY <2>1, <2>2
<1>10. \A l \in Keys : (Ahead(l) => Ahead(l)') /\ (WindowsKept(l) => WindowsKept(l)')
  BY <1>4, <1>8 DEF Ahead, WindowsKept, UnitsWithin, From
<1> QED
  BY <1>4, <1>7, <1>9, <1>10 DEF GInv

\* A call let through moves the arrival time by its cost, and no window is overdrawn.
LEMMA PassKeeps ==
    ASSUME GInv, NEW c \in Callers, NEW k \in Keys, Decide(c, k),
           ~ (AllowAt(k, asked[c].now, asked[c].units) > asked[c].now)
    PROVE  GInv'
<1>1. PICK now, u, x : now = asked[c].now /\ u = asked[c].units /\ x = From(k, now)
  OBVIOUS
<1>2. /\ now \in Nat /\ now <= clock /\ u \in Charges /\ clock \in Nat /\ clock <= MaxTime
      /\ arrival[k] \in Int /\ x \in Int /\ arrival[k] <= x /\ now <= x
      /\ now \in 0 .. MaxTime /\ MaxTime \in Nat
  <2>1. asked[c] \in Questions /\ asked[c].key = {k} /\ asked[c].key # {} /\ asked[c].now <= clock
    BY DEF Decide, GInv, LimiterShapes
  <2>2. now \in Nat /\ u \in Charges
    BY <1>1, <2>1 DEF Questions, NoCall
  <2>3. arrival[k] \in Int /\ clock \in Nat /\ clock <= MaxTime /\ MaxTime \in Nat
    BY LimiterBounds DEF GInv, LimiterShapes
  <2>4. x \in Int /\ arrival[k] <= x /\ now <= x
    BY <1>1, <2>2, <2>3 DEF From
  <2> QED
    BY <1>1, <2>1, <2>2, <2>3, <2>4
<1>3. u \in Nat /\ Cost(u) \in Nat /\ Period \in Nat /\ x + Cost(u) - Period <= now
  <2>1. u \in Nat /\ Cost(u) \in Nat /\ Period \in Nat
    BY <1>2, Emission, LimiterBounds
  <2> QED
    BY <1>1, <1>2, <2>1 DEF AllowAt
<1>4. /\ UNCHANGED <<clock, overtaken>> /\ asked' = [asked EXCEPT ![c] = NoCall]
      /\ arrival' = [arrival EXCEPT ![k] = x + Cost(u)]
      /\ charged' = [charged EXCEPT ![k][now] = @ + u]
      /\ told' = [told EXCEPT ![k] = Nobody]
  BY <1>1 DEF Decide
<1>5. PICK f, g : f = charged[k] /\ g = charged'[k]
  OBVIOUS
<1>6. /\ f \in [0 .. MaxTime -> Nat] /\ g = [f EXCEPT ![now] = f[now] + u]
      /\ \A l \in Keys : l # k => charged'[l] = charged[l]
  BY <1>4, <1>5 DEF GInv, LimiterShapes
<1>7. /\ g[now] = f[now] + u /\ \A i \in 0 .. MaxTime : i # now => g[i] = f[i]
      /\ g \in [0 .. MaxTime -> Nat]
  BY <1>2, <1>3, <1>6
<1>8. LimiterShapes'
  <2>1. asked' \in [Callers -> Questions] /\ \A d \in Callers : asked'[d].now <= clock
    BY <1>2, <1>4 DEF GInv, LimiterShapes, Questions, NoCall
  <2>2. DOMAIN told' = Keys /\ arrival' \in [Keys -> Int]
    BY <1>2, <1>3, <1>4, SMTT(20) DEF GInv, LimiterShapes
  <2>3. charged' \in [Keys -> [0 .. MaxTime -> Nat]]
    <3>1. charged' = [charged EXCEPT ![k] = g]
      BY <1>4, <1>5, <1>6 DEF GInv, LimiterShapes
    <3>2. charged \in [Keys -> [0 .. MaxTime -> Nat]]
      BY DEF GInv, LimiterShapes
    <3> QED
      BY <1>7, <3>1, <3>2
  <2> QED
    BY <1>4, <2>1, <2>2, <2>3 DEF GInv, LimiterShapes
<1>9. ASSUME NEW l, NEW n, MayCome(l, n)' PROVE MayCome(l, n)
  <2>1. \A d \in Callers : asked'[d].key = {l} => d # c /\ asked'[d] = asked[d]
    BY <1>4 DEF NoCall, GInv, LimiterShapes
  <2> QED
    BY <1>4, <1>9, <2>1 DEF MayCome
<1>10. ASSUME NEW l \in Keys, l # k PROVE (Ahead(l) => Ahead(l)') /\ (WindowsKept(l) => WindowsKept(l)') /\ (TellsEnough(l) => TellsEnough(l)')
  <2>1. arrival'[l] = arrival[l] /\ charged'[l] = charged[l] /\ told'[l] = told[l]
    BY <1>4, <1>6, <1>10 DEF GInv, LimiterShapes
  <2> QED
    BY <1>4, <1>9, <2>1 DEF Ahead, WindowsKept, TellsEnough, UnitsWithin, From
<1>11. TellsEnough(k)'
  <2>1. told'[k] = Nobody
    BY <1>4 DEF GInv, LimiterShapes
  <2> QED
    BY <2>1 DEF TellsEnough
<1>12. arrival'[k] = x + Cost(u)
  BY <1>4 DEF GInv, LimiterShapes
\* Charged from a moment on, before and after.
<1>13. ASSUME NEW first \in Nat, NEW last \in 0 .. MaxTime
       PROVE  /\ UnitsWithin(k, first, last) \in Nat
              /\ now \in first .. last => UnitsWithin(k, first, last)' = UnitsWithin(k, first, last) + u
              /\ now \notin first .. last => UnitsWithin(k, first, last)' = UnitsWithin(k, first, last)
  <2>1. UnitsWithin(k, first, last) = SumFunctionOnSet(f, first .. last)
        /\ UnitsWithin(k, first, last)' = SumFunctionOnSet(g, first .. last)
    BY <1>5 DEF UnitsWithin
  <2>2. SumFunctionOnSet(f, first .. last) \in Nat
    BY <1>6, Stretch
  <2>3. /\ now \in first .. last => SumFunctionOnSet(g, first .. last) = SumFunctionOnSet(f, first .. last) + u
        /\ now \notin first .. last => SumFunctionOnSet(g, first .. last) = SumFunctionOnSet(f, first .. last)
    <3>1. OneMore(f, g, now, u)
      BY <1>2, <1>3, <1>6, <1>7 DEF OneMore
    <3> QED
      BY <3>1, StretchCharged
  <2> QED
    BY <2>1, <2>2, <2>3
<1>14. ASSUME k \notin overtaken PROVE Ahead(k)' /\ WindowsKept(k)'
  <2>1. Ahead(k) /\ WindowsKept(k)
    BY <1>14 DEF GInv
  <2>2. ASSUME NEW first \in 0 .. now PROVE first + Cost(UnitsWithin(k, first, MaxTime)) <= x
    <3>1. MayCome(k, now)
      BY <1>1, <1>2 DEF MayCome, Decide
    <3> QED
      BY <1>1, <2>1, <3>1 DEF Ahead
  <2>3. Ahead(k)'
    <3> SUFFICES ASSUME NEW n, MayCome(k, n)', NEW first \in 0 .. n
                 PROVE  first + Cost(UnitsWithin(k, first, MaxTime)') <= From(k, n)'
      BY DEF Ahead, Cost, Interval
    <3>1. n \in Nat /\ first \in Nat /\ first <= n /\ MaxTime \in 0 .. MaxTime
      BY <1>2 DEF MayCome
    <3>2. MayCome(k, n)
      BY <1>9
    <3>3. first + Cost(UnitsWithin(k, first, MaxTime)) <= From(k, n)
      BY <2>1, <3>2 DEF Ahead
    <3>4. From(k, n)' >= x + Cost(u) /\ From(k, n)' >= From(k, n)
      BY <1>2, <1>3, <1>12, <3>1 DEF From
    <3>5. /\ From(k, n) \in Int /\ From(k, n)' \in Int /\ UnitsWithin(k, first, MaxTime) \in Nat
          /\ Cost(UnitsWithin(k, first, MaxTime)) \in Nat
          /\ Cost(UnitsWithin(k, first, MaxTime) + u) = Cost(UnitsWithin(k, first, MaxTime)) + Cost(u)
      <4>1. From(k, n) \in Int /\ From(k, n)' \in Int
        BY <1>2, <1>3, <1>12, <3>1 DEF From
      <4>2. UnitsWithin(k, first, MaxTime) \in Nat
        BY <3>1, <1>13
      <4> QED
        BY <1>3, <4>1, <4>2, Emission
    <3>6. CASE first <= now
      <4>1. first + Cost(UnitsWithin(k, first, MaxTime)) <= x
        BY <2>2, <3>1, <3>6, <1>2
      <4>2. UnitsWithin(k, first, MaxTime)' = UnitsWithin(k, first, MaxTime) + u
        BY <1>2, <1>13, <3>1, <3>6
      <4> QED
        BY <1>2, <1>3, <3>1, <3>4, <3>5, <4>1, <4>2
    <3>7. CASE ~ (first <= now)
      <4>1. UnitsWithin(k, first, MaxTime)' = UnitsWithin(k, first, MaxTime)
        BY <1>2, <1>13, <3>1, <3>7
      <4> QED
        BY <3>1, <3>3, <3>4, <3>5, <4>1
    <3> QED
      BY <3>6, <3>7
  <2>4. WindowsKept(k)'
    <3> SUFFICES ASSUME NEW first \in 0 .. MaxTime, NEW last \in first .. MaxTime
                 PROVE  Cost(UnitsWithin(k, first, last)') <= Period + (last - first)
      BY DEF WindowsKept, Cost, Interval
    <3>1. first \in Nat /\ last \in 0 .. MaxTime /\ MaxTime \in 0 .. MaxTime /\ last \in Nat
      BY <1>2
    <3>2. UnitsWithin(k, first, last) \in Nat /\ UnitsWithin(k, first, MaxTime) \in Nat
      BY <1>13, <3>1
    <3>3. CASE now \in first .. last
      <4>1. first + Cost(UnitsWithin(k, first, MaxTime)) <= x
        BY <1>2, <2>2, <3>1, <3>3
      <4>2. UnitsWithin(k, first, last) <= UnitsWithin(k, first, MaxTime)
        BY <1>5, <1>6, <3>1, StretchGrows DEF UnitsWithin
      <4>3. /\ Cost(UnitsWithin(k, first, last)) <= Cost(UnitsWithin(k, first, MaxTime))
            /\ Cost(UnitsWithin(k, first, last)) \in Nat /\ Cost(UnitsWithin(k, first, MaxTime)) \in Nat
            /\ Cost(UnitsWithin(k, first, last) + u) = Cost(UnitsWithin(k, first, last)) + Cost(u)
        BY <1>3, <3>2, <4>2, CostGrows, Emission
      <4>4. UnitsWithin(k, first, last)' = UnitsWithin(k, first, last) + u
        BY <1>13, <3>1, <3>3
      <4> QED
        BY <1>2, <1>3, <3>1, <3>3, <4>1, <4>3, <4>4
    <3>4. CASE now \notin first .. last
      <4>1. UnitsWithin(k, first, last)' = UnitsWithin(k, first, last)
        BY <1>13, <3>1, <3>4
      <4> QED
        BY <2>1, <4>1 DEF WindowsKept
    <3> QED
      BY <3>3, <3>4
  <2> QED
    BY <2>3, <2>4
<1> QED
  <2>1. ASSUME NEW l \in Keys PROVE (l \notin overtaken' => Ahead(l)' /\ WindowsKept(l)') /\ TellsEnough(l)'
    BY <1>4, <1>10, <1>11, <1>14 DEF GInv
  <2> QED
    BY <1>8, <2>1 DEF GInv

LEMMA LimiterSteps == GInv /\ [LimiterNext]_limiterVars => GInv'
<1> SUFFICES ASSUME GInv, [LimiterNext]_limiterVars PROVE GInv'
  OBVIOUS
<1>1. ASSUME NEW c \in Callers, NEW k \in Keys, Decide(c, k) PROVE GInv'
  BY <1>1, RefusalKeeps, PassKeeps
<1>2. ASSUME NEW c \in Callers, NEW k \in Keys, NEW units \in Charges, Ask(c, k, units) PROVE GInv'
  BY <1>2, AskKeeps
<1>3. CASE Sweep
  BY <1>3, SweepKeeps
<1>4. CASE ClockTicks
  BY <1>4, ClockTicksKeeps
<1>5. CASE UNCHANGED limiterVars
  BY <1>5 DEF limiterVars, GInv, LimiterShapes, Ahead, WindowsKept, TellsEnough, MayCome, UnitsWithin, From
<1> QED
  BY <1>1, <1>2, <1>3, <1>4, <1>5 DEF LimiterNext

\* The limit as the caller sees it follows.
LEMMA LimitFollows == GInv => LimitIsKept
<1> SUFFICES ASSUME GInv PROVE LimitIsKept
  OBVIOUS
<1>1. clock \in Nat /\ clock <= MaxTime /\ MaxTime \in Nat /\ arrival \in [Keys -> Int]
  BY LimiterBounds DEF GInv, LimiterShapes
<1>2. ASSUME NEW k \in Keys \ overtaken, NEW first \in 0 .. clock, NEW last \in first .. clock
      PROVE  Cost(UnitsWithin(k, first, last)) <= Period + (last - first)
  <2>1. WindowsKept(k) /\ first \in 0 .. MaxTime /\ last \in first .. MaxTime
    BY <1>1 DEF GInv
  <2> QED
    BY <2>1 DEF WindowsKept
<1>3. ASSUME NEW k \in Keys, told[k] # Nobody, clock >= told[k].until
      PROVE  AllowAt(k, clock, told[k].units) <= clock
  <2>1. /\ told[k].until \in Nat /\ told[k].units \in Charges
        /\ arrival[k] + Cost(told[k].units) - Period <= told[k].until
    BY <1>3 DEF GInv, TellsEnough
  <2>2. Cost(told[k].units) \in Nat /\ Cost(told[k].units) <= Period /\ Period \in Nat
    BY <2>1, Emission, LimiterBounds
  <2>3. arrival[k] \in Int
    BY <1>1
  <2> QED
    BY <1>1, <1>3, <2>1, <2>2, <2>3 DEF AllowAt, From
<1> QED
  BY <1>2, <1>3 DEF LimitIsKept, WaitingHelps

(***************************************************************************)
(* Of the calls that come between two moments, AllowN lets through no more *)
(* than the burst and what is emitted meanwhile, however goroutines and    *)
(* sweeps interleave, unless a sweep removed the key between a call's look *)
(* at the clock and its lock; and a Retry-After is never too short.        *)
(***************************************************************************)
THEOREM LimitIsAlwaysKept == LimiterSpec => []LimitIsKept
<1>1. LimiterInit => GInv
  BY LimiterBegins
<1>2. GInv /\ [LimiterNext]_limiterVars => GInv'
  BY LimiterSteps
<1>3. GInv => LimitIsKept
  BY LimitFollows
<1> QED
  BY <1>1, <1>2, <1>3, PTL DEF LimiterSpec

=============================================================================
