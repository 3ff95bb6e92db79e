---------------------------- MODULE MCSettlement ----------------------------
(***************************************************************************)
(* Instances of Settlement for TLC: one seller or one per item, and items  *)
(* whose amounts make a proportional share round, an offset outlive a      *)
(* settlement or two settlements take the same amount of one offset.       *)
(***************************************************************************)
EXTENDS Settlement, TLC

CONSTANTS o1, o2, i1, i2, i3, s1, s2, d1

OneSeller == [i \in Items |-> s1]
\* i1 of a seller of its own.
TwoSellers == [i \in Items |-> IF i = i1 THEN s1 ELSE s2]
OneOrder  == [i \in Items |-> o1]
\* i1 on an order of its own, the others together.
TwoOrders == [i \in Items |-> IF i = i1 THEN o1 ELSE o2]

NetThree    == [i \in Items |-> 3]
NetUneven   == [i \in Items |-> IF i = i1 THEN 3 ELSE 1]
FeeOne      == [i \in Items |-> 1]
NoReserve   == [i \in Items |-> 0]
ReserveOne  == [i \in Items |-> 1]
FullRefunds == [i \in Items |-> {Total(i)}]
AnyOfFirst  == [i \in Items |-> IF i = i1 THEN {1, Total(i) - 1, Total(i)} ELSE {Total(i)}]
NoRefunds   == [i \in Items |-> {}]
FirstItem   == [i \in Items |-> IF i = i1 THEN {Total(i)} ELSE {}]
DisputeOnO1 == [d \in Disputes |-> o1]

\* Requests, replicas and webhooks are interchangeable.
Symmetric == Permutations(Refunders) \cup Permutations(Workers) \cup Permutations(Hooks)
=============================================================================
