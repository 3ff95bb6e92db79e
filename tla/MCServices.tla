----------------------------- MODULE MCServices -----------------------------
(***************************************************************************)
(* Instances of the components that share no state with others, for TLC:   *)
(* sums over the ledger, payout destinations and the notices about them,   *)
(* the registers, the arithmetic of a line, migrations, the tags of        *)
(* products, and downloads.  A behaviour of this module is one of one      *)
(* component; the others stay as they began.                               *)
(***************************************************************************)
EXTENDS Rollup, Payouts, Notices, Registers, Pricing, Migrate, Listings, Delivery, TLC

CONSTANTS x1, x2, c1, c2, c3, p1, p2, p3, b2, d1, d2

\* A rollup of two statements.
OneByOne == <<{x1}, {x2}>>

\* A line with both documents; two lines, one whose seller has no GSTIN and one without a
\* commission, that take them the other way round; and an order without documents.
Documents == (c1 :> <<"INV", "COM">>) @@ (c2 :> <<"COM", "INV">>) @@ (c3 :> <<>>)

\* Two replicas of one build, and one of a build with an edited file.
Builds ==
    LET build == <<<<1, "a">>, <<2, "b">>, <<3, "c">>>>
    IN  (p1 :> build) @@ (p2 :> build) @@ (p3 :> <<<<1, "a">>, <<2, "edited">>>>)

\* One synonym; lists in which the locks of two calls, and those of synonyms, form a
\* circle.
Synonyms == ("art" :> "art") @@ ("arts" :> "art") @@ ("brush" :> "brush") @@ ("spam" :> "spam")

Listed == {<<"art", "arts">>, <<"arts", "brush">>, <<"brush", "art">>, <<"spam">>}

VARIABLE part

\* A component that does not run begins in one of its initial states.
Init ==
    /\ part \in {"rollup", "payouts", "mail", "notices", "registers", "pricing", "migrate",
                "listings", "delivery"}
    /\ RollupInit /\ PayoutInit /\ NoticeInit /\ RegisterInit /\ PricingInit /\ MigrateInit
    /\ ListingInit /\ DeliveryInit
    /\ part # "rollup" => account = [n \in Seqs |-> x1]
    /\ part # "pricing" => input = CHOOSE i \in Inputs : TRUE
    /\ part # "delivery" => presigns

\* Two drains share what one addition queues; two additions are announced by one drain.
OneAddition == addedIn'[b2] = 0 /\ second' = 1
OneDrain    == drain'[d2] = drain[d2]

Next ==
    /\ UNCHANGED part
    /\ \/ part = "rollup" /\ RollupNext /\ UNCHANGED <<payoutVars, noticeVars, registerVars>>
          /\ UNCHANGED <<pricingVars, migrateVars, listingVars, deliveryVars>>
       \/ part = "payouts" /\ PayoutNext /\ UNCHANGED <<rollupVars, noticeVars, registerVars>>
          /\ UNCHANGED <<pricingVars, migrateVars, listingVars, deliveryVars>>
       \/ part = "mail" /\ NoticeNext /\ OneAddition /\ UNCHANGED <<rollupVars, payoutVars, registerVars>>
          /\ UNCHANGED <<pricingVars, migrateVars, listingVars, deliveryVars>>
       \/ part = "notices" /\ NoticeNext /\ OneDrain /\ UNCHANGED <<rollupVars, payoutVars, registerVars>>
          /\ UNCHANGED <<pricingVars, migrateVars, listingVars, deliveryVars>>
       \/ part = "registers" /\ RegisterNext /\ UNCHANGED <<rollupVars, payoutVars, noticeVars>>
          /\ UNCHANGED <<pricingVars, migrateVars, listingVars, deliveryVars>>
       \/ part = "pricing" /\ PricingNext /\ UNCHANGED <<rollupVars, payoutVars, noticeVars>>
          /\ UNCHANGED <<registerVars, migrateVars, listingVars, deliveryVars>>
       \/ part = "migrate" /\ MigrateNext /\ UNCHANGED <<rollupVars, payoutVars, noticeVars>>
          /\ UNCHANGED <<registerVars, pricingVars, listingVars, deliveryVars>>
       \/ part = "listings" /\ ListingNext /\ UNCHANGED <<rollupVars, payoutVars, noticeVars>>
          /\ UNCHANGED <<registerVars, pricingVars, migrateVars, deliveryVars>>
       \/ part = "delivery" /\ DeliveryNext /\ UNCHANGED <<rollupVars, payoutVars, noticeVars>>
          /\ UNCHANGED <<registerVars, pricingVars, migrateVars, listingVars>>

vars ==
    <<part, rollupVars, payoutVars, noticeVars, registerVars, pricingVars, migrateVars, listingVars,
      deliveryVars>>

Spec == Init /\ [][Next]_vars

\* A validation runs on, and PostgreSQL grants its locks and finds a circle.  The worker
\* polls the jobs and drains the mails.  Tickets age, responses end, evidence is written.
FairSpec ==
    /\ Spec
    /\ \A v \in Validations :
          WF_payoutVars(part = "payouts" /\ (ValidationStep(v) \/ \E a \in Destinations : ValidationBegins(v, a)))
    /\ \A a \in Additions : WF_noticeVars(part \in {"mail", "notices"} /\ NoticeStep(a))
    /\ WF_noticeVars(part \in {"mail", "notices"} /\ DrainStep(d1) /\ MailOnly)
    /\ WF_noticeVars(part = "mail" /\ DrainStep(d2) /\ MailOnly)
    /\ \A r \in Requests :
          /\ WF_deliveryVars(part = "delivery" /\ StreamEnds(r))
          /\ WF_deliveryVars(part = "delivery" /\ RecordOutside(r))
          /\ WF_deliveryVars(part = "delivery" /\ GrowOlder(r))

TypeOK ==
    /\ RollupTypeOK /\ PayoutTypeOK /\ NoticeTypeOK
    /\ RegisterTypeOK /\ PricingTypeOK /\ MigrateTypeOK
    /\ ListingTypeOK /\ DeliveryTypeOK
=============================================================================
