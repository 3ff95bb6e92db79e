------------------------------ MODULE Payouts -------------------------------
(***************************************************************************)
(* A seller and its payout destinations (internal/modules/seller).         *)
(*                                                                         *)
(* A validation is one transaction that locks its own row, then the        *)
(* seller's other rows one after the other; two of them may wait for each  *)
(* other, and the victim the database picks is run again by InTx.  The     *)
(* notice an addition queues is in module Notices.                         *)
(***************************************************************************)
EXTENDS Naturals, Relation

CONSTANTS
    Destinations, \* rows of seller_payout_accounts, all of one seller
    Validations,  \* calls of RecordValidation
    MaxTxRetry    \* DB.maxRetry

ASSUME PayoutBounds == MaxTxRetry \in Nat

VARIABLES
    seller,      \* sellers.status with kyc_status, "none" before Onboard
    destination, \* validation_status, "none" or "disabled"
    isDefault,   \* is_default
    active,      \* the destinations whose active_from has passed
    rv           \* the validations in flight

payoutVars == <<seller, destination, isDefault, active, rv>>

NoValidation == [at |-> "idle", row |-> {}, locks |-> {}, todo |-> {}, tries |-> 0]

PayoutInit ==
    /\ seller = "none"
    /\ destination = [a \in Destinations |-> "none"]
    /\ isDefault = [a \in Destinations |-> FALSE]
    /\ active = {}
    /\ rv = [v \in Validations |-> NoValidation]

InUse(a) == destination[a] \notin {"none", "disabled"}
Unclaimed(a) == \A v \in Validations : a \notin rv[v].locks

----------------------------------------------------------------------------
(* The seller. *)

\* Onboard; sellers.user_id is unique.
Onboard ==
    /\ seller = "none"
    /\ seller' = "pending"
    /\ UNCHANGED <<destination, isDefault, active, rv>>

\* SubmitKYC, once there is a PAN and a document; submitted again, it changes nothing.
SubmitKYC ==
    /\ seller = "pending"
    /\ seller' = "submitted"
    /\ UNCHANGED <<destination, isDefault, active, rv>>

\* The review, activation and suspension are decided outside this code.
SellerDecided ==
    /\ \/ seller = "submitted" /\ seller' \in {"pending", "active"}
       \/ seller = "active" /\ seller' = "suspended"
       \/ seller = "suspended" /\ seller' = "active"
    /\ UNCHANGED <<destination, isDefault, active, rv>>

----------------------------------------------------------------------------
(* Destinations. *)

AddPayoutAccount(a) ==
    /\ seller \notin {"none", "suspended"}
    /\ destination[a] = "none"
    /\ destination' = [destination EXCEPT ![a] = "pending"]
    /\ UNCHANGED <<seller, isDefault, active, rv>>

DisablePayoutAccount(a) ==
    /\ InUse(a) /\ Unclaimed(a)
    /\ destination' = [destination EXCEPT ![a] = "disabled"]
    /\ isDefault' = [isDefault EXCEPT ![a] = FALSE]
    /\ UNCHANGED <<seller, active, rv>>

\* 48 hours after the addition; nothing else reads the clock.
QuarantineEnds(a) ==
    /\ destination[a] # "none" /\ a \notin active
    /\ active' = active \cup {a}
    /\ UNCHANGED <<seller, destination, isDefault, rv>>

\* RecordValidation, when the name does not match: one statement, and the default stays.
ValidationFails(a) ==
    /\ InUse(a) /\ Unclaimed(a)
    /\ destination' = [destination EXCEPT ![a] = "failed"]
    /\ UNCHANGED <<seller, isDefault, active, rv>>

\* It matches: the row is updated, and so locked until the commit ...
ValidationBegins(v, a) ==
    /\ rv[v].at = "idle" \/ (rv[v].at = "again" /\ rv[v].row = {a})
    /\ InUse(a) /\ Unclaimed(a)
    /\ rv' = [rv EXCEPT ![v].at = "locked", ![v].row = {a}, ![v].locks = {a}]
    /\ UNCHANGED <<seller, destination, isDefault, active>>

\* ... unless it was disabled before it was run again (ErrNotFound).
ValidationRefused(v) ==
    /\ rv[v].at = "again"
    /\ \A a \in rv[v].row : ~ InUse(a)
    /\ rv' = [rv EXCEPT ![v] = [NoValidation EXCEPT !.at = "done"]]
    /\ UNCHANGED <<seller, destination, isDefault, active>>

\* Mutant of Others: only what is the default now is gone through.
OthersDefault(v) == {b \in Destinations : isDefault[b]} \ rv[v].row

\* The rows the second statement goes through: the others in use when it starts ...
Others(v) == {b \in Destinations : InUse(b)} \ rv[v].row

ValidationClears(v) ==
    /\ rv[v].at = "locked"
    /\ rv' = [rv EXCEPT ![v].at = "clearing", ![v].todo = Others(v)]
    /\ UNCHANGED <<seller, destination, isDefault, active>>

\* ... locked one by one; one that was disabled meanwhile is passed over.
ValidationLocks(v, b) ==
    /\ rv[v].at = "clearing"
    /\ b \in rv[v].todo /\ Unclaimed(b)
    /\ rv' = [rv EXCEPT ![v].todo = @ \ {b}, ![v].locks = IF InUse(b) THEN @ \cup {b} ELSE @]
    /\ UNCHANGED <<seller, destination, isDefault, active>>

\* This destination is the default when it commits.
ValidationCommits(v) ==
    /\ rv[v].at = "clearing" /\ rv[v].todo = {}
    /\ destination' = [a \in Destinations |-> IF a \in rv[v].row THEN "validated" ELSE destination[a]]
    /\ isDefault' = [a \in Destinations |->
                        IF a \in rv[v].locks THEN a \in rv[v].row ELSE isDefault[a]]
    /\ rv' = [rv EXCEPT ![v] = [NoValidation EXCEPT !.at = "done"]]
    /\ UNCHANGED <<seller, active>>

\* v waits for a row that w has locked.
WaitsFor == [v, w \in Validations |-> rv[v].todo \cap rv[w].locks # {}]

InCircle(v) == TransitiveClosure(WaitsFor, Validations)[v, v]

\* InTx runs the victim again, while it may.
VictimOf(v) ==
    IF rv[v].tries < MaxTxRetry
    THEN [NoValidation EXCEPT !.at = "again", !.row = rv[v].row, !.tries = rv[v].tries + 1]
    ELSE [NoValidation EXCEPT !.at = "done"]

\* The database rolls back one of a circle.
Deadlocked(v) ==
    /\ InCircle(v)
    /\ rv' = [rv EXCEPT ![v] = VictimOf(v)]
    /\ UNCHANGED <<seller, destination, isDefault, active>>

ValidationStep(v) ==
    \/ ValidationRefused(v) \/ ValidationClears(v) \/ ValidationCommits(v) \/ Deadlocked(v)
    \/ \E a \in rv[v].todo : ValidationLocks(v, a)

PayoutNext ==
    \/ Onboard \/ SubmitKYC \/ SellerDecided
    \/ \E a \in Destinations :
          AddPayoutAccount(a) \/ DisablePayoutAccount(a) \/ QuarantineEnds(a) \/ ValidationFails(a)
    \/ \E v \in Validations :
          ValidationStep(v) \/ \E a \in Destinations : ValidationBegins(v, a)

PayoutSpec == PayoutInit /\ [][PayoutNext]_payoutVars

----------------------------------------------------------------------------
(* Properties. *)

PayoutTypeOK ==
    /\ seller \in {"none", "pending", "submitted", "active", "suspended"}
    /\ destination \in [Destinations -> {"none", "pending", "failed", "validated", "disabled"}]
    /\ isDefault \in [Destinations -> BOOLEAN]
    /\ active \subseteq Destinations
    /\ rv \in [Validations ->
          [at : {"idle", "locked", "clearing", "again", "done"}, row : SUBSET Destinations,
           locks : SUBSET Destinations, todo : SUBSET Destinations, tries : 0 .. MaxTxRetry]]

\* Where the seller's money goes.
Receives(a) == isDefault[a] /\ destination[a] = "validated" /\ a \in active

\* payout.go:97: "The previous default is NOT disabled here. It keeps receiving settlement
\* until the new destination leaves quarantine".  A validated destination that receives
\* money is replaced by one that receives it, or by none because it was removed itself.
PreviousKeepsReceiving ==
    [][\A a \in Destinations :
          Receives(a) /\ destination'[a] = "validated" => \E b \in Destinations : Receives(b)']_payoutVars

OneDefault ==
    \A a, b \in Destinations : isDefault[a] /\ isDefault[b] => a = b /\ InUse(a)

\* No step leaves two defaults, or a removed one: no commit ever runs into
\* seller_payout_accounts_default_uq; and validations that wait for each other's rows all
\* come to an end.
ValidationsSettle ==
    /\ [][OneDefault']_payoutVars
    /\ \A v \in Validations : rv[v].at = "locked" ~> rv[v].at = "done"

=============================================================================
