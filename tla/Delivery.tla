------------------------------ MODULE Delivery ------------------------------
(***************************************************************************)
(* Downloads under one licence: tickets against the allowance, their       *)
(* redemption, the evidence written about them, the sweep that clears old  *)
(* tickets, and the refund that reads the evidence.                        *)
(*                                                                         *)
(* IssueTicket is one transaction under the licence's row lock, Redeem one *)
(* guarded update; what download_events says is written after them, in     *)
(* statements of their own.  With storage that can presign a URL, the file *)
(* never passes through here: its event is written before the answer, and  *)
(* whoever has the URL fetches the file while the URL lives, as often as   *)
(* they like.  Otherwise the ticket is redeemed here, and its event refers *)
(* to it.                                                                  *)
(* Time is the age of a ticket: "fresh" for the ten minutes it may be used,*)
(* then "lapsed", and "old" once the sweep's 24 hours have passed as well. *)
(***************************************************************************)
EXTENDS Naturals, FiniteSets

CONSTANTS
  Requests,   \* download requests, each for one ticket
  Strangers,  \* those that name another buyer's licence or no file of this one
  Limit,      \* licenses.download_limit
  MaxFetches, \* bound on how often one presigned URL is used
  MaxFaults   \* bound on crashes before the evidence is written

ASSUME DeliveryAssumption ==
  /\ IsFiniteSet(Requests) /\ Strangers \subseteq Requests
  /\ Limit \in Nat \ {0} /\ MaxFetches \in Nat /\ MaxFaults \in Nat

VARIABLES
  presigns, \* the storage adapter presigns URLs: fixed when the process starts
  licence,  \* licenses.status: "active" or "refunded"
  lapsed,   \* access_expires_at has passed
  used,     \* download_count
  grant,    \* each request's download_grants row: "none", "open", "consumed", "cleared"
  age,      \* of that row
  refused,  \* requests that were denied
  serving,  \* redeemed tickets whose file is being sent
  sent,     \* how often a request's file left, in full or in part
  owed,     \* the outcome that is still to be written, or "none"
  events,   \* download_events, with the ticket they refer to if linked
  refund,   \* Refund: "idle", or "checked" once it has counted downloads
  faults

tickets  == <<lapsed, used, grant, age, refused>>
evidence == <<serving, sent, owed, events>>
deliveryVars     == <<presigns, licence, tickets, evidence, refund, faults>>

Outcomes == {"served", "aborted", "error", "denied", "denied_entitlement"}

DeliveryTypeOK ==
  /\ presigns \in BOOLEAN
  /\ licence \in {"active", "refunded"} /\ lapsed \in BOOLEAN
  /\ used \in 0 .. Limit
  /\ grant \in [Requests -> {"none", "open", "consumed", "cleared"}]
  /\ age \in [Requests -> {"fresh", "lapsed", "old"}]
  /\ refused \subseteq Requests /\ serving \subseteq Requests
  /\ sent \in [Requests -> Nat]
  /\ owed \in [Requests -> Outcomes \cup {"none"}]
  /\ events \subseteq [request : Requests, outcome : Outcomes, linked : BOOLEAN]
  /\ refund \in {"idle", "checked"}
  /\ faults \in 0 .. MaxFaults

DeliveryInit ==
  /\ presigns \in BOOLEAN
  /\ licence = "active" /\ lapsed = FALSE
  /\ used = 0
  /\ grant = [r \in Requests |-> "none"]
  /\ age = [r \in Requests |-> "fresh"]
  /\ refused = {} /\ serving = {}
  /\ sent = [r \in Requests |-> 0]
  /\ owed = [r \in Requests |-> "none"]
  /\ events = {}
  /\ refund = "idle"
  /\ faults = 0

-----------------------------------------------------------------------------
(* IssueTicket *)

\* Mutant of Entitled: ownership and allowance are enough.
EntitledByAllowance == used < Limit

\* One locked read of a licence that is the buyer's decides.
Entitled == licence = "active" /\ ~lapsed /\ used < Limit

\* The allowance is spent when the ticket is made.  RecordDirectDelivery takes a file
\* that is fetched elsewhere for served.
Issue(r) ==
  /\ r \notin Strangers /\ Entitled
  /\ grant' = [grant EXCEPT ![r] = "open"]
  /\ used' = used + 1
  /\ IF presigns THEN owed' = [owed EXCEPT ![r] = "served"] ELSE UNCHANGED owed
  /\ UNCHANGED refused

\* The transaction rolls back, and the refusal is to be written after it.
Refuse(r) ==
  /\ r \in Strangers \/ ~Entitled
  /\ refused' = refused \cup {r}
  /\ owed' = [owed EXCEPT ![r] = IF r \in Strangers THEN "denied_entitlement" ELSE "denied"]
  /\ UNCHANGED <<grant, used>>

IssueTicket(r) ==
  /\ grant[r] = "none" /\ r \notin refused
  /\ Issue(r) \/ Refuse(r)
  /\ UNCHANGED <<presigns, licence, lapsed, age, serving, sent, events, refund, faults>>

-----------------------------------------------------------------------------
(* The file: redeemed here, or fetched from storage *)

\* Mutant of Redeemable: a spent ticket is good until it lapses.
RedeemableAgain(r) == grant[r] \in {"open", "consumed"} /\ age[r] = "fresh"

\* Mutant of Redeemable: an unspent ticket never lapses.
RedeemableForever(r) == grant[r] = "open"

\* The guarded update; the licence is not looked at again.
Redeemable(r) == grant[r] = "open" /\ age[r] = "fresh"

Redeem(r) ==
  /\ ~presigns
  /\ Redeemable(r) /\ r \notin serving
  /\ grant' = [grant EXCEPT ![r] = "consumed"]
  /\ serving' = serving \cup {r}
  /\ UNCHANGED <<presigns, licence, lapsed, used, age, refused, sent, owed, events, refund, faults>>

\* The object is missing; or it is sent, until the end or until the buyer goes away.
StreamEnds(r) ==
  /\ r \in serving
  /\ serving' = serving \ {r}
  /\ \E outcome \in {"served", "aborted", "error"} :
       /\ owed' = [owed EXCEPT ![r] = outcome]
       /\ sent' = [sent EXCEPT ![r] = IF outcome = "error" THEN @ ELSE @ + 1]
  /\ UNCHANGED <<presigns, licence, tickets, events, refund, faults>>

\* The URL has been handed out, after its event, and storage honours it till it expires.
Fetchable(r) == presigns /\ grant[r] = "open" /\ age[r] = "fresh" /\ owed[r] = "none"

Fetch(r) ==
  /\ Fetchable(r) /\ sent[r] < MaxFetches
  /\ sent' = [sent EXCEPT ![r] = @ + 1]
  /\ UNCHANGED <<presigns, licence, tickets, serving, owed, events, refund, faults>>

-----------------------------------------------------------------------------
(* Evidence *)

\* Mutant of Written: the event is written with the request's own context, which
\* ends when the buyer goes away.
WrittenWhileConnected(outcome) == outcome \notin {"aborted", "denied_entitlement"}

\* recordOutside detaches from the request; a denial without a licence has no row to
\* refer to.
Written(outcome) == outcome # "denied_entitlement"

\* An event of a redeemed ticket refers to its row.
RecordOutside(r) ==
  /\ owed[r] # "none"
  /\ events' = IF Written(owed[r])
                 THEN events \cup {[request |-> r, outcome |-> owed[r],
                                    linked |-> grant[r] = "consumed"]}
                 ELSE events
  /\ owed' = [owed EXCEPT ![r] = "none"]
  /\ UNCHANGED <<presigns, licence, tickets, serving, sent, refund, faults>>

\* The look-up of a presigned ticket's row still runs in the request's own context: the
\* buyer goes away, or the deadline passes, and it returns without a word.
RecordDropped(r) ==
  /\ presigns /\ owed[r] = "served"
  /\ owed' = [owed EXCEPT ![r] = "none"]
  /\ UNCHANGED <<presigns, licence, tickets, serving, sent, events, refund, faults>>

\* The process stops, or the insert fails, which nobody looks at.
RecordLost(r) ==
  /\ owed[r] # "none"
  /\ faults < MaxFaults /\ faults' = faults + 1
  /\ owed' = [owed EXCEPT ![r] = "none"]
  /\ UNCHANGED <<presigns, licence, tickets, serving, sent, events, refund>>

-----------------------------------------------------------------------------
(* The clock and the sweep *)

AccessExpires ==
  /\ ~lapsed /\ lapsed' = TRUE
  /\ UNCHANGED <<presigns, licence, used, grant, age, refused, evidence, refund, faults>>

\* A request ends within the server's write timeout, long before its ticket is old.
GrowOlder(r) ==
  /\ grant[r] \in {"open", "consumed"}
  /\ \/ age[r] = "fresh"  /\ age' = [age EXCEPT ![r] = "lapsed"]
     \/ age[r] = "lapsed" /\ r \notin serving /\ owed[r] = "none"
        /\ age' = [age EXCEPT ![r] = "old"]
  /\ UNCHANGED <<presigns, licence, lapsed, used, grant, refused, evidence, refund, faults>>

Clearable == {r \in Requests : grant[r] \in {"open", "consumed"} /\ age[r] = "old"}

\* Rows that download_events refers to: ON DELETE SET NULL would update an event,
\* and the append-only trigger raises.
Pinned == {e.request : e \in {f \in events : f.linked}}

\* One DELETE; a raise takes all of it back.
ExpireGrants ==
  /\ Clearable # {} /\ Clearable \cap Pinned = {}
  /\ grant' = [r \in Requests |-> IF r \in Clearable THEN "cleared" ELSE grant[r]]
  /\ UNCHANGED <<presigns, licence, lapsed, used, age, refused, evidence, refund, faults>>

-----------------------------------------------------------------------------
(* Refund, of an item sold with "no_refund_after_download" *)

\* checkRefundEligibility, under the item's lock but not the licence's.
RefundCheck ==
  /\ refund = "idle" /\ licence = "active"
  /\ \A e \in events : e.outcome # "served"
  /\ refund' = "checked"
  /\ UNCHANGED <<presigns, licence, tickets, evidence, faults>>

\* The provider refuses and the transaction rolls back; or it commits.
RefundEnds ==
  /\ refund = "checked"
  /\ refund' = "idle"
  /\ licence' \in {"active", "refunded"}
  /\ UNCHANGED <<presigns, tickets, evidence, faults>>

-----------------------------------------------------------------------------
DeliveryNext ==
  \/ \E r \in Requests :
       \/ IssueTicket(r) \/ Redeem(r) \/ StreamEnds(r) \/ Fetch(r)
       \/ RecordOutside(r) \/ RecordDropped(r) \/ RecordLost(r) \/ GrowOlder(r)
  \/ AccessExpires \/ ExpireGrants
  \/ RefundCheck \/ RefundEnds

DeliverySpec == DeliveryInit /\ [][DeliveryNext]_deliveryVars

\* Tickets age, responses end, and the sweep is a scheduled task.
DeliveryFairSpec ==
  /\ DeliverySpec
  /\ \A r \in Requests :
       /\ WF_deliveryVars(StreamEnds(r)) /\ WF_deliveryVars(RecordOutside(r))
       /\ WF_deliveryVars(GrowOlder(r))
  /\ WF_deliveryVars(ExpireGrants)

-----------------------------------------------------------------------------
(* Properties *)

IssuedTickets == {r \in Requests : grant[r] # "none"}

\* Tickets are counted against the allowance however requests race and tickets are
\* redeemed, and a sweep gives nothing back; a file leaves only with a ticket, and at
\* most once per ticket where it is served here.
ServedWithinAllowance ==
  /\ \A r \in Requests :
       /\ ~presigns => (r \in serving => sent[r] = 0) /\ sent[r] <= 1
       /\ r \in serving \/ sent[r] > 0 => r \in IssuedTickets
  /\ Cardinality(IssuedTickets) = used
  /\ used <= Limit

\* delivery.go:9-11: "it is single-use".  A presigned URL is honoured by storage until it
\* expires, as often as it is presented.
LinksAreSingleUse == \A r \in Requests : sent[r] <= 1

\* What this process sent, or refused with the licence at hand, is in download_events
\* once its request is over, also when the buyer went away in the middle or the
\* transaction rolled back, unless the process stopped or the insert failed.
EverythingIsEvidenced ==
  faults = 0 =>
    \A r \in Requests \ Strangers :
      (r \in refused \/ (~presigns /\ sent[r] > 0)) /\ owed[r] = "none" =>
        \E e \in events : e.request = r /\ (e.outcome = "denied" <=> r \in refused)

\* delivery.go:466-467, "a client disconnect still leaves evidence: download_events is the
\* primary exhibit in a chargeback".  As the code is, a disconnect after a ticket for
\* presigned storage was made and counted leaves none.
DisconnectLeavesEvidence ==
  faults = 0 =>
    \A r \in IssuedTickets : presigns /\ owed[r] = "none" => \E e \in events : e.request = r

\* A file that can leave now.
InReach == serving \cup {r \in Requests : Fetchable(r) \/ (~presigns /\ Redeemable(r))}

\* Redemption does not look at the licence, and storage knows none: tickets that are out
\* at a refund are good after it.  But it is the end for good once they have lapsed.
RefundEndsAccess == licence = "refunded" ~> [](InReach = {})

\* And until then a refund lets nothing new into reach: no ticket is made, whichever of
\* the two asked first, and what leaves was in reach or on its way out of IssueTicket.
RefundBoundsAccess ==
  [][licence = "refunded" =>
       /\ IssuedTickets' = IssuedTickets
       /\ InReach' \subseteq InReach \cup {r \in IssuedTickets : age[r] = "fresh" /\ owed[r] # "none"}
       /\ \A r \in Requests : sent'[r] # sent[r] => r \in InReach]_deliveryVars

\* Stated by delivery.go:472, "ExpireGrants clears consumed and expired grants".
ExpiredGrantsAreCleared ==
  \A r \in Requests :
    (grant[r] \in {"open", "consumed"} /\ age[r] = "old") ~> grant[r] = "cleared"
=============================================================================
