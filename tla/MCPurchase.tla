----------------------------- MODULE MCPurchase -----------------------------
(***************************************************************************)
(* Instances of Purchase for TLC: two attempts on one order beside a       *)
(* second order of the same total, or one attempt on each of two orders.   *)
(***************************************************************************)
EXTENDS Purchase, TLC

CONSTANTS o1, o2, p1, p2

OneOrder  == [p \in Payments |-> o1]
TwoOrders == p1 :> o1 @@ p2 :> o2

\* Browsers bring the attempts of o1 to o1, and one of them to o2 as well.
Crossed == {<<o1, p1>>, <<o1, p2>>, <<o2, p1>>}

\* Every browser brings an attempt to its own order.
Own == {<<OrderOf[p], p>> : p \in Payments}

\* Equal totals; every attempt is for that amount, or all but p2.
Equal    == [o \in Orders |-> 100]
InFull   == [p \in Payments |-> 100]
P2Short  == [p \in Payments |-> IF p = p2 THEN 90 ELSE 100]

\* All orders are for one variant, unlimited for their number or an edition of one.
OneVariant   == [o \in Orders |-> "v"]
Unlimited    == [v \in {"v"} |-> Cardinality(Orders) + 1]
EditionOfOne == [v \in {"v"} |-> 1]

\* Requests are interchangeable.
Requests == Permutations(Callbacks) \cup Permutations(Hooks)
=============================================================================
