------------------------------ MODULE MCStore ------------------------------
(***************************************************************************)
(* Instances of Checkout and Outbox for TLC.  The two share no state: a    *)
(* behaviour of this module is one of either, and the other stays as it    *)
(* began.                                                                  *)
(***************************************************************************)
EXTENDS Checkout, Outbox, TLC

CONSTANTS r1, r2, r3, k1, v1, v2, v3, o1, o2, t1, t2

\* r1 and r2 are one request sent twice with its lines the other way round; r3
\* reuses their key for another cart.
TwiceAndReused == (r1 :> k1) @@ (r2 :> k1) @@ (r3 :> k1)
Crossed == (r1 :> <<v1, v2>>) @@ (r2 :> <<v2, v1>>) @@ (r3 :> <<v3>>)
LastCopy == v2 :> 1

\* Two messages of one order, announced by different mails, and one of another order.
TwoOrders    == <<o1, o1, o2>>
PaidThenSent == <<t1, t2, t1>>

VARIABLE part

Init ==
    /\ part \in {"checkout", "outbox"}
    /\ CheckoutInit /\ OutboxInit

Next ==
    \/ part = "checkout" /\ CheckoutNext /\ UNCHANGED <<part, outboxVars>>
    \/ part = "outbox" /\ OutboxNext /\ UNCHANGED <<part, checkoutVars>>

Spec == Init /\ [][Next]_<<part, checkoutVars, outboxVars>>

\* A request runs on, PostgreSQL finds a cycle of waiting requests and grants a row
\* lock in the order it was asked for.  The dispatcher polls for ever, locks age, and a
\* handler answers one way or the other: nothing says that it ever succeeds.
FairSpec ==
    /\ Spec
    /\ \A r \in Requests :
          /\ WF_checkoutVars(part = "checkout" /\ (Begin(r) \/ Place(r)))
          /\ SF_checkoutVars(part = "checkout" /\ (ReadLine(r) \/ RefuseLine(r)))
    /\ \A w \in Workers : WF_outboxVars(part = "outbox" /\ WorkerStep(w))
    /\ WF_checkoutVars(part = "checkout" /\ \E r \in Requests : Deadlocked(r))
    /\ WF_outboxVars(part = "outbox" /\ \E n \in Ids : OrphanExpires(n))

TypeOK == CheckoutTypeOK /\ OutboxTypeOK
=============================================================================
