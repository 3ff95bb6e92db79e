------------------------------ MODULE Accounts ------------------------------
(***************************************************************************)
(* Accounts, credentials and sessions (internal/modules/identity).         *)
(*                                                                         *)
(* All users of this model claim one e-mail address, so at most one of     *)
(* their rows may be live at a time; after an erasure the address is free. *)
(* A request is one call of the service.  It is split where the code reads *)
(* without a lock, calls the key-derivation function, or starts another    *)
(* transaction, and between what a statement sees and the commit that      *)
(* makes its writes seen; what it has read is in its record.               *)
(*                                                                         *)
(* Passwords are numbered per row in the order they were set.  Time is     *)
(* abstracted: a lock-out, a session or a link may lapse at any moment.    *)
(* Roles, attempts, consents and email_verified_at are read by no guard    *)
(* here and are left out.                                                  *)
(***************************************************************************)
EXTENDS Naturals, FiniteSets, Functions

CONSTANTS
    Users,            \* rows of users, all of one address
    Registered,       \* those already there, their hash of older parameters
    Sessions,         \* rows of sessions
    Links,            \* rows of credential_tokens
    Codes,            \* rows of recovery_codes
    Calls,            \* calls in flight
    LoginMaxAttempts, \* SecurityConfig.LoginMaxAttempts
    MaxPasswords,     \* bound: passwords ever set, on all rows together
    MaxSecrets        \* bound: enrolments ever begun on a row

ASSUME AccountBounds ==
    /\ Registered \subseteq Users /\ Cardinality(Registered) <= 1
    /\ LoginMaxAttempts \in Nat
    /\ MaxPasswords \in Nat \ {0}
    /\ MaxSecrets \in Nat

VARIABLES
    user,     \* users.status with erased_at
    key,      \* subject_keys.wrapped_dek is there
    hash,     \* which password users.password_hash is of
    dated,    \* it was made with other Argon2id parameters
    factor,   \* totp_secret_ciphertext and totp_enabled_at
    failed,   \* failed_login_count
    locked,   \* locked_until lies ahead
    session,  \* rows of sessions
    link,     \* rows of credential_tokens
    code,     \* rows of recovery_codes
    rq,       \* the calls in flight and what they have read
    changes,  \* history: how often a row's password was set
    spared    \* history: the sessions the latest of these left alone

password == <<hash, dated, changes, spared>>
lockout == <<failed, locked>>
userVars == <<user, key, password, lockout, factor>>
accountVars == <<userVars, session, link, code, rq>>

Idle == [at |-> "idle"]
None == [state |-> "none"]
Spent == [state |-> "spent"] \* a link or a code that no guard accepts again

\* What a call in flight has locked: the row of its user, and links.
OnRow == {"setting", "erasing"}
OnLinks == {"linking", "resetting", "setting", "erasing"}

AccountInit ==
    /\ user = [u \in Users |-> IF u \in Registered THEN "active" ELSE "none"]
    /\ key = [u \in Users |-> u \in Registered]
    /\ hash = [u \in Users |-> IF u \in Registered THEN 1 ELSE 0]
    /\ dated = [u \in Users |-> u \in Registered]
    /\ factor = [u \in Users |-> [secret |-> 0, on |-> FALSE]]
    /\ failed = [u \in Users |-> 0]
    /\ locked = [u \in Users |-> FALSE]
    /\ session = [s \in Sessions |-> None]
    /\ link = [l \in Links |-> None]
    /\ code = [c \in Codes |-> None]
    /\ rq = [r \in Calls |-> Idle]
    /\ changes = hash
    /\ spared = [u \in Users |-> {}]

\* One more password may be set.
WithinPasswords ==
    SumFunction(changes) + Cardinality({r \in Calls : rq[r].at = "setting"}) < MaxPasswords

\* A row that a transaction has updated is locked until it ends: another update waits,
\* a read or an insert of a row that refers to it does not.
RowFree(u) == \A r \in Calls : rq[r].at \in OnRow => rq[r].user # u
LinkFree(l) == \A r \in Calls : rq[r].at \in OnLinks => l \notin rq[r].links
SessionFree(s) == \A r \in Calls : rq[r].at \in OnRow => s \notin rq[r].seen

Live(u) == user[u] = "active"
OpenSession(s) == session[s].state = "open"
Answer(r) == rq' = [rq EXCEPT ![r] = Idle]

\* ResolveSession: the session is open and its user is neither erased nor inactive.
\* Roles are read afresh; the idle window it slides is part of SessionLapses.
Resolves(s) == OpenSession(s) /\ Live(session[s].user)

\* requireAuth: a full session is needed for everything but the second factor.
SignedIn(s) == Resolves(s) /\ session[s].level = "full"

----------------------------------------------------------------------------
(* Registration. *)

\* IssueSubjectKey, SubjectKey, Shred: a subject's personal data can be read while its
\* key is there.
KeyIssued(u) == key' = [key EXCEPT ![u] = TRUE]
HasKey(u) == key[u]
Shredded(u) == key' = [key EXCEPT ![u] = FALSE]

\* The lookup sees committed live rows only.
RegisterLookup(r) ==
    /\ rq[r] = Idle
    /\ ~ \E u \in Users : Live(u)
    /\ rq' = [rq EXCEPT ![r] = [at |-> "register"]]
    /\ UNCHANGED <<userVars, session, link, code>>

\* users_email_index_uq: one row of an address that is not erased.
AddressFree == ~ \E u \in Users : Live(u)

\* Key, row, role and consents in one transaction; a second row of the address
\* violates the index and everything rolls back.  The index waits for whoever has the
\* row of the address.
RegisterInsert(r) ==
    /\ rq[r].at = "register"
    /\ \A u \in Users : Live(u) => RowFree(u)
    /\ \/ /\ AddressFree
          /\ UNCHANGED <<dated, spared>>
          /\ \E u \in Users :
                /\ user[u] = "none" /\ WithinPasswords
                /\ user' = [user EXCEPT ![u] = "active"]
                /\ KeyIssued(u)
                /\ hash' = [hash EXCEPT ![u] = 1]
                /\ changes' = [changes EXCEPT ![u] = 1]
       \/ ~ AddressFree /\ UNCHANGED <<user, key, password>>
    /\ Answer(r)
    /\ UNCHANGED <<factor, lockout, session, link, code>>

\* Mutant of SignedInto: only the spared sessions would be revoked.
SignedIntoInverted(u, kept) ==
    {s \in Sessions : OpenSession(s) /\ session[s].user = u /\ s \in kept}

\* The sessions RevokeAllSessions, or a change of password from the one in kept, updates:
\* those its statement sees.
SignedInto(u, kept) ==
    {s \in Sessions : OpenSession(s) /\ session[s].user = u /\ s \notin kept}

\* They end with the commit.
SignOut(seen) == session' = [s \in Sessions |-> IF s \in seen THEN None ELSE session[s]]

----------------------------------------------------------------------------
(* Sign-in. *)

\* The row is read without a lock.  The password offered is one of those ever set.
LoginLoad(r) ==
    /\ rq[r] = Idle
    /\ \E u \in Users, p \in 1 .. MaxPasswords :
          /\ Live(u) /\ ~ locked[u]
          /\ p <= changes[u]
          /\ rq' = [rq EXCEPT ![r] =
                IF p = hash[u]
                THEN [at |-> IF factor[u].on THEN "matched" ELSE "passed", user |-> u,
                      rehash |-> IF dated[u] THEN p ELSE 0]
                ELSE [at |-> "wrong", user |-> u, failed |-> failed[u]]]
    /\ UNCHANGED <<userVars, session, link, code>>

\* onFailedPassword counts from what was read (past the threshold the count tells
\* nothing apart, and is kept there); a lock-out already there stays.
FailedPassword(r) ==
    /\ rq[r].at = "wrong"
    /\ RowFree(rq[r].user)
    /\ LET u == rq[r].user
           next == IF rq[r].failed < LoginMaxAttempts THEN rq[r].failed + 1 ELSE LoginMaxAttempts
       IN  /\ failed' = [failed EXCEPT ![u] = next]
           /\ locked' = [locked EXCEPT ![u] =
                            @ \/ (LoginMaxAttempts > 0 /\ next >= LoginMaxAttempts)]
    /\ Answer(r)
    /\ UNCHANGED <<user, key, password, factor, session, link, code>>

\* consumeRecoveryCode: UPDATE ... WHERE used_at IS NULL, in a transaction of its own; it
\* waits for an erasure that deletes the row.
Unused(c, u) == code[c].state = "unused" /\ code[c].user = u
Consumable(c, u) ==
    Unused(c, u) /\ \A r \in Calls : rq[r].at = "erasing" => rq[r].user # u

\* The second factor, if it was on: a code of the authenticator, a recovery code,
\* neither, or a wrong one.
SecondFactor(r) ==
    /\ rq[r].at = "matched"
    /\ \/ /\ \E at \in {"passed", "partial"} : rq' = [rq EXCEPT ![r].at = at]
          /\ UNCHANGED code
       \/ Answer(r) /\ UNCHANGED code
       \/ /\ \E c \in Codes :
                /\ Consumable(c, rq[r].user)
                /\ code' = [code EXCEPT ![c] = Spent]
          /\ rq' = [rq EXCEPT ![r].at = "passed"]
    /\ UNCHANGED <<userVars, session, link>>

\* The hash is renewed from the password offered, whatever was set meanwhile.
Rehash(r) ==
    /\ rq[r].at = "passed" /\ rq[r].rehash # 0
    /\ RowFree(rq[r].user)
    /\ hash' = [hash EXCEPT ![rq[r].user] = rq[r].rehash]
    /\ dated' = [dated EXCEPT ![rq[r].user] = FALSE]
    /\ rq' = [rq EXCEPT ![r].rehash = 0]
    /\ UNCHANGED <<user, key, changes, spared, lockout, factor, session, link, code>>

\* issueSession inserts whatever has become of the row meanwhile, and waits for nobody:
\* a statement that has looked already does not see the session.  (A row that a call
\* means to keep is not there twice.)
IssueSession(r) ==
    /\ rq[r].at = "partial" \/ (rq[r].at = "passed" /\ rq[r].rehash = 0)
    /\ \E s \in Sessions :
          /\ session[s] = None
          /\ \A c \in Calls : rq[c].at \in {"changing", "setting"} => s \notin rq[c].kept
          /\ session' = [session EXCEPT ![s] =
                [state |-> "open", user |-> rq[r].user,
                 level |-> IF rq[r].at = "passed" THEN "full" ELSE "pending_mfa",
                 issued |-> changes[rq[r].user]]]
          /\ rq' = [c \in Calls |->
                CASE c = r /\ rq[r].at = "passed" -> [at |-> "issued", user |-> rq[r].user]
                  [] c = r /\ rq[r].at = "partial" -> Idle
                  [] c # r /\ rq[c].at = "setting" /\ rq[c].user = rq[r].user ->
                        [rq[c] EXCEPT !.missed = @ \cup {s}]
                  [] OTHER -> rq[c]]
    /\ UNCHANGED <<userVars, link, code>>

\* identity_login_success.
LoginSuccess(r) ==
    /\ rq[r].at = "issued"
    /\ RowFree(rq[r].user)
    /\ failed' = [failed EXCEPT ![rq[r].user] = 0]
    /\ locked' = [locked EXCEPT ![rq[r].user] = FALSE]
    /\ Answer(r)
    /\ UNCHANGED <<user, key, password, factor, session, link, code>>

----------------------------------------------------------------------------
(* Sessions. *)

\* RotateSession, once the second factor is given.
RotateSession(s) ==
    /\ OpenSession(s) /\ SessionFree(s)
    /\ session[s].level = "pending_mfa"
    /\ session' = [session EXCEPT ![s].level = "full"]
    /\ UNCHANGED <<userVars, link, code, rq>>

Ended(s) ==
    /\ OpenSession(s) /\ SessionFree(s)
    /\ session' = [session EXCEPT ![s] = None]
    /\ UNCHANGED <<userVars, link, code, rq>>

\* The user signs out.
RevokeSession(s) == Ended(s)

\* The session leaves its idle or its absolute window: nothing tells such a row from one
\* that was revoked, or from none.  One that a call is about to revoke lapses after it.
SessionLapses(s) == Ended(s)

LockLapses(u) ==
    /\ locked[u]
    /\ locked' = [locked EXCEPT ![u] = FALSE]
    /\ UNCHANGED <<user, key, password, factor, failed, session, link, code, rq>>

----------------------------------------------------------------------------
(* Passwords and links. *)

\* BeginPasswordReset: the outstanding links it sees are consumed, those another call has
\* once that call is done with them ...
ResetBegin(r) ==
    /\ rq[r] = Idle
    /\ \E u \in Users :
          LET seen == {l \in Links : link[l].state = "open" /\ link[l].user = u
                                       /\ link[l].purpose = "reset"}
              free == {l \in seen : LinkFree(l)}
          IN  /\ Live(u)
              /\ rq' = [rq EXCEPT ![r] =
                    [at |-> "linking", user |-> u, links |-> free, awaited |-> seen \ free]]
    /\ UNCHANGED <<userVars, session, link, code>>

\* ... and the new one appears with the commit.
ResetLink(r) ==
    /\ rq[r].at = "linking"
    /\ \A l \in rq[r].awaited : LinkFree(l)
    /\ \E l \in Links :
          /\ link[l] = None
          /\ link' = [x \in Links |->
                CASE x = l -> [state |-> "open", user |-> rq[r].user, purpose |-> "reset"]
                  [] x \in rq[r].links \cup rq[r].awaited -> Spent
                  [] OTHER -> link[x]]
    /\ Answer(r)
    /\ UNCHANGED <<userVars, session, code>>

\* FOR UPDATE OF t, or the UPDATE itself, waits for whoever has the link.
Usable(l, purpose) ==
    /\ link[l].state = "open"
    /\ link[l].purpose = purpose
    /\ LinkFree(l)

\* Mutant of Resettable: it is not asked whether the user is erased.
ResettableAlways(l) == Usable(l, "reset")

\* A reset asks for a user who is not erased, and does not lock that row.
Resettable(l) == Usable(l, "reset") /\ user[link[l].user] # "erased"

\* CompletePasswordReset: the link is locked, its user only read.
ResetLoad(r, l) ==
    /\ rq[r] = Idle
    /\ Resettable(l)
    /\ rq' = [rq EXCEPT ![r] =
          [at |-> "resetting", user |-> link[l].user, kept |-> {}, links |-> {l}]]
    /\ UNCHANGED <<userVars, session, link, code>>

\* A link leaves its window.
LinkLapses(l) ==
    /\ link[l].state = "open" /\ LinkFree(l)
    /\ link' = [link EXCEPT ![l] = Spent]
    /\ UNCHANGED <<userVars, session, code, rq>>

\* ChangePassword, from a signed-in session: the current password is compared with a
\* hash that is read without a lock.
ChangeLoad(r) ==
    /\ rq[r] = Idle
    /\ \E s \in Sessions :
          /\ SignedIn(s)
          /\ rq' = [rq EXCEPT ![r] =
                [at |-> "changing", user |-> session[s].user, kept |-> {s}, links |-> {}]]
    /\ UNCHANGED <<userVars, session, link, code>>

\* Either then updates the row by its id, once it gets it, whatever it has become; then
\* the sessions it sees.  The record of the audit log, behind the log's lock, and the
\* commit come later.
SetWrite(r) ==
    /\ rq[r].at \in {"resetting", "changing"}
    /\ RowFree(rq[r].user)
    /\ WithinPasswords
    /\ rq' = [rq EXCEPT ![r] =
          [at |-> "setting", user |-> @.user, kept |-> @.kept, links |-> @.links,
           seen |-> SignedInto(@.user, @.kept), missed |-> {}]]
    /\ UNCHANGED <<userVars, session, link, code>>

\* The commit: the password is replaced, the sessions seen end, the link is spent, and a
\* reset lifts the lock-out.
SetCommit(r) ==
    /\ rq[r].at = "setting"
    /\ LET u == rq[r].user
           reset == rq[r].links # {}
       IN  /\ changes' = [changes EXCEPT ![u] = @ + 1]
           /\ hash' = [hash EXCEPT ![u] = changes'[u]]
           /\ dated' = [dated EXCEPT ![u] = FALSE]
           /\ spared' = [spared EXCEPT ![u] = rq[r].kept \cup rq[r].missed]
           /\ SignOut(rq[r].seen)
           /\ link' = [l \in Links |-> IF l \in rq[r].links THEN Spent ELSE link[l]]
           /\ failed' = [failed EXCEPT ![u] = IF reset THEN 0 ELSE @]
           /\ locked' = [locked EXCEPT ![u] = @ /\ ~ reset]
    /\ Answer(r)
    /\ UNCHANGED <<user, key, factor, code>>

\* BeginEmailVerification: earlier links stay good.
VerificationLink(u) ==
    /\ Live(u)
    /\ \E l \in Links :
          /\ link[l] = None
          /\ link' = [link EXCEPT ![l] = [state |-> "open", user |-> u, purpose |-> "verify"]]
    /\ UNCHANGED <<userVars, session, code, rq>>

VerificationComplete(l) ==
    /\ Usable(l, "verify") /\ RowFree(link[l].user)
    /\ link' = [link EXCEPT ![l] = Spent]
    /\ UNCHANGED <<user, key, password, factor, lockout, session, code, rq>>

----------------------------------------------------------------------------
(* Two-factor enrolment. *)

\* The secret is sealed under the subject's key, so a shredded subject has none.
EnrolBegin(u) ==
    /\ HasKey(u) /\ RowFree(u)
    /\ factor[u].secret < MaxSecrets
    /\ factor' = [factor EXCEPT ![u] = [secret |-> @.secret + 1, on |-> FALSE]]
    /\ UNCHANGED <<user, key, password, lockout, session, link, code, rq>>

\* ConfirmTOTPEnrolment reads the secret without a lock ...
EnrolLoad(r) ==
    /\ rq[r] = Idle
    /\ \E u \in Users :
          /\ HasKey(u) /\ factor[u].secret > 0
          /\ rq' = [rq EXCEPT ![r] = [at |-> "enrolling", user |-> u]]
    /\ UNCHANGED <<userVars, session, link, code>>

\* ... switches two-factor on, and replaces the recovery codes.
EnrolConfirm(r) ==
    /\ rq[r].at = "enrolling"
    /\ RowFree(rq[r].user)
    /\ LET u == rq[r].user
       IN  /\ factor' = [factor EXCEPT ![u].on = TRUE]
           /\ \E new \in {c \in Codes : code[c] = None} :
                 code' = [c \in Codes |->
                    CASE c = new -> [state |-> "unused", user |-> u]
                      [] Unused(c, u) -> Spent
                      [] OTHER -> code[c]]
    /\ Answer(r)
    /\ UNCHANGED <<user, key, password, lockout, session, link>>

----------------------------------------------------------------------------
(* Erasure. *)

\* One transaction.  It waits for the row and for the links others have (of two that
\* wait for each other, the one the database ends is RequestLost or begins again), and
\* then has the row, the sessions and the links its statements see ...
EraseWrite(r) ==
    /\ rq[r] = Idle
    /\ \E u \in Users :
          LET open == {l \in Links : link[l].state = "open" /\ link[l].user = u}
          IN  /\ Live(u) /\ RowFree(u)
              /\ \A l \in open : LinkFree(l)
              /\ rq' = [rq EXCEPT ![r] =
                    [at |-> "erasing", user |-> u, links |-> open, seen |-> SignedInto(u, {})]]
    /\ UNCHANGED <<userVars, session, link, code>>

\* ... which end with the commit; a session or a link that came meanwhile stays.
EraseCommit(r) ==
    /\ rq[r].at = "erasing"
    /\ LET u == rq[r].user
       IN  /\ Shredded(u)
           /\ user' = [user EXCEPT ![u] = "erased"]
           /\ factor' = [factor EXCEPT ![u].secret = 0]
           /\ SignOut(rq[r].seen)
           /\ code' = [c \in Codes |-> IF Unused(c, u) THEN Spent ELSE code[c]]
           /\ link' = [l \in Links |-> IF l \in rq[r].links THEN Spent ELSE link[l]]
    /\ Answer(r)
    /\ UNCHANGED <<password, lockout>>

\* A request whose connection is lost rolls back what it has not committed.
RequestLost(r) ==
    /\ rq[r] # Idle
    /\ Answer(r)
    /\ UNCHANGED <<userVars, session, link, code>>

Register(r) == RegisterLookup(r) \/ RegisterInsert(r)

Login(r) ==
    \/ LoginLoad(r) \/ FailedPassword(r) \/ SecondFactor(r)
    \/ Rehash(r) \/ IssueSession(r) \/ LoginSuccess(r)

BeginPasswordReset(r) == ResetBegin(r) \/ ResetLink(r)

\* ChangePassword and CompletePasswordReset.
SetPassword(r) ==
    ChangeLoad(r) \/ (\E l \in Links : ResetLoad(r, l)) \/ SetWrite(r) \/ SetCommit(r)

ConfirmTOTPEnrolment(r) == EnrolLoad(r) \/ EnrolConfirm(r)

EraseSubject(r) == EraseWrite(r) \/ EraseCommit(r)

AccountNext ==
    \/ \E r \in Calls :
          \/ Register(r) \/ Login(r)
          \/ BeginPasswordReset(r) \/ SetPassword(r)
          \/ ConfirmTOTPEnrolment(r) \/ EraseSubject(r)
          \/ RequestLost(r)
    \/ \E s \in Sessions : RotateSession(s) \/ RevokeSession(s) \/ SessionLapses(s)
    \/ \E l \in Links : VerificationComplete(l) \/ LinkLapses(l)
    \/ \E u \in Users : LockLapses(u) \/ VerificationLink(u) \/ EnrolBegin(u)

AccountSpec == AccountInit /\ [][AccountNext]_accountVars

----------------------------------------------------------------------------
(* Properties. *)

AccountTypeOK ==
    /\ user \in [Users -> {"none", "active", "erased"}]
    /\ key \in [Users -> BOOLEAN]
    /\ hash \in [Users -> 0 .. MaxPasswords]
    /\ dated \in [Users -> BOOLEAN]
    /\ factor \in [Users -> [secret : 0 .. MaxSecrets, on : BOOLEAN]]
    /\ failed \in [Users -> 0 .. LoginMaxAttempts]
    /\ locked \in [Users -> BOOLEAN]
    /\ session \in [Sessions -> {None} \cup
          [state : {"open"}, user : Users, level : {"full", "pending_mfa"}, issued : 1 .. MaxPasswords]]
    /\ link \in [Links -> {None, Spent} \cup
          [state : {"open"}, user : Users, purpose : {"reset", "verify"}]]
    /\ code \in [Codes -> {None, Spent} \cup [state : {"unused"}, user : Users]]
    /\ changes \in [Users -> 0 .. MaxPasswords]
    /\ spared \in [Users -> SUBSET Sessions]

\* A session that is older than its user's password is one the latest change spared, or
\* one that began while that change was under way: of two changes made at the same time
\* from two sessions, neither leaves the other's session open, and the sessions that
\* slipped past one change do not slip past the next.
OldSessionsEnd ==
    \A s \in Sessions :
        OpenSession(s) /\ session[s].issued < changes[session[s].user]
            => s \in spared[session[s].user]

\* The claim of the API ("Completing it revokes every existing session.",
\* docs/api/openapi.yaml:397; credentials.go:100): when a reset is done its user is
\* signed in nowhere.  A sign-in between the statement that revokes and the commit is.
ResetRevokesEverySession ==
    [][\A r \in Calls :
          rq[r].at = "setting" /\ rq[r].links # {} /\ changes'[rq[r].user] # changes[rq[r].user]
             => \A s \in Sessions : ~ (OpenSession(s)' /\ session'[s].user = rq[r].user)]_accountVars

\* The calls past the check that may still set the password of u.
Writers(u) == {r \in Calls : rq[r].at \in {"resetting", "changing", "setting"} /\ rq[r].user = u}

\* An erased row is never live again and its key never comes back.  Nobody begins to set
\* its password: whatever links and sessions slipped past the erasure, only the calls
\* that were past their checks when it was committed still write, each once.
ErasureIsFinal ==
    [][\A u \in Users : user[u] = "erased" =>
          /\ user'[u] = "erased" /\ ~ key'[u]
          /\ Writers(u)' \subseteq Writers(u)
          /\ changes'[u] # changes[u] => Writers(u)' # Writers(u)]_accountVars

=============================================================================
