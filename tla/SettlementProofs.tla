-------------------------- MODULE SettlementProofs --------------------------
(***************************************************************************)
(* What holds of Settlement for any orders, items, sellers, amounts,       *)
(* disputes, requests, workers and faults.                                 *)
(*                                                                         *)
(* Typed is the type invariant with what requests and webhooks carry.      *)
(* Every step is a quiet one, which moves no money, or a refund's write,   *)
(* the commit of a release or a lost dispute; what those three do to the   *)
(* rows and to the accounts is said once, in WriteFacts, ReleaseFacts and  *)
(* LossFacts.  ReleasesHold says that a release has its transfer to itself *)
(* from its first read to its commit.  Each account is then compared with  *)
(* the sum of its rows: ClearingIs, ReceivableIs and PayableIs; RefundsInv *)
(* and LossesInv say what rests on the item's lock and on the              *)
(* acknowledgement of a webhook.                                           *)
(***************************************************************************)
EXTENDS Settlement, Sums, SequenceTheorems, TLAPS

-----------------------------------------------------------------------------
(* Arithmetic *)

\* Of naturals.
LEMMA Quotient ==
    ASSUME NEW x \in Nat, NEW y \in Nat \ {0}
    PROVE  x \div y \in Nat
  OBVIOUS

\* scaleToRefund never leaves the naturals.
LEMMA ScaledIsNat ==
    ASSUME NEW c \in Nat, NEW a \in Nat, NEW t \in Nat \ {0}
    PROVE  Scaled(c, a, t) \in Nat
<1>1. c * a \in Nat
  OBVIOUS
<1> DEFINE p == c * a
<1>2. 2 * c * a = 2 * p
  OBVIOUS
<1> HIDE DEF p
<1>3. p \in Nat
  BY <1>1 DEF p
<1>4. 2 * p + t \in Nat /\ 2 * t \in Nat \ {0}
  BY <1>3
<1>5. (2 * p + t) \div (2 * t) \in Nat
  BY <1>4, Quotient
<1> QED
  BY <1>2, <1>5 DEF Scaled

\* A set written out as a sequence: every member at one place.
LEMMA SetAsSequence ==
    ASSUME NEW S, IsFiniteSet(S)
    PROVE  /\ SetToSeq(S) \in Seq(S)
           /\ Len(SetToSeq(S)) = Cardinality(S) /\ Cardinality(S) \in Nat
           /\ \A x \in S : \E k \in 1 .. Len(SetToSeq(S)) : SetToSeq(S)[k] = x
           /\ \A j, k \in 1 .. Len(SetToSeq(S)) : SetToSeq(S)[j] = SetToSeq(S)[k] => j = k
<1> DEFINE n == Cardinality(S)
           q == SetToSeq(S)
<1>1. n \in Nat /\ \E f \in [1 .. n -> S] : IsInjective(f)
  BY FS_CardinalityType DEF ExistsBijection, Bijection, Injection
<1>2. q \in [1 .. n -> S] /\ IsInjective(q)
  BY <1>1 DEF SetToSeq
<1>3. q \in Injection(1 .. n, S)
  BY <1>2 DEF Injection
<1>4. IsFiniteSet(1 .. n) /\ Cardinality(1 .. n) = n
  <2>1. 1 \in Int /\ n \in Int
    BY <1>1
  <2>2. IsFiniteSet(1 .. n) /\ Cardinality(1 .. n) = IF 1 > n THEN 0 ELSE n - 1 + 1
    BY <2>1, FS_Interval
  <2> QED
    BY <2>2, <1>1
<1>5. q \in Surjection(1 .. n, S)
  BY <1>3, <1>4, FS_Injection
<1> HIDE DEF n, q
<1>6. q \in Seq(S) /\ Len(q) = n /\ DOMAIN q = 1 .. n
  BY <1>1, <1>2
<1> QED
  BY <1>1, <1>2, <1>5, <1>6 DEF IsInjective, Surjection, n, q

-----------------------------------------------------------------------------
(* Types *)

Requests  == {IdleRequest}
               \cup [at : {"loaded", "asked"}, i : Items, amount : Nat \ {0},
                     status : Statuses, total : Nat]
Handlings == {IdleHook}
               \cup [at : {"read", "done"}, e : Events, status : Statuses, away : SUBSET Items]

\* The type invariant, with what is in flight and rows that are never netted too far.
Typed ==
  /\ TypeOK
  /\ rq \in [Refunders -> Requests]
  /\ dh \in [Hooks -> Handlings]
  /\ \A h \in Hooks : dh[h] # IdleHook =>
       dh[h].away \subseteq ItemsOf(DisputedOrder[dh[h].e[2]])
  /\ IsFiniteSet(refunds)
  /\ \A n \in DOMAIN offsets : offsets[n].applied <= offsets[n].amount

\* Totals and shares are naturals, by the assumptions on the items' amounts.
LEMMA Amounting ==
    ASSUME NEW i \in Items, NEW amount \in Nat
    PROVE  /\ SellerShare(i, amount) \in Nat /\ RecoveredShare(i, amount) \in Nat
           /\ Total(i) \in Nat \ {0} /\ Net[i] \in Nat /\ SellerOf[i] \in Sellers
           /\ OrderOf[i] \in Orders /\ Available(i) \in Nat /\ Withheld[i] \in Nat
<1>1. /\ Net[i] \in Nat \ {0} /\ Fee[i] \in Nat /\ Withheld[i] \in Nat /\ Withheld[i] <= Net[i]
      /\ SellerOf[i] \in Sellers /\ OrderOf[i] \in Orders
  BY ItemsAssumption
<1>2. Total(i) \in Nat \ {0} /\ Available(i) \in Nat
  BY <1>1 DEF Total, Available
<1> QED
  BY <1>1, <1>2, ScaledIsNat DEF SellerShare, RecoveredShare

\* What a settlement takes of the seller's offsets.
LEMMA TakesFacts ==
    ASSUME Typed, NEW i \in Items, NEW seen \in Nat
    PROVE  LET D == OffsetsOf(SellerOf[i], seen) IN
           /\ IsFiniteSet(DOMAIN offsets) /\ D \in SUBSET DOMAIN offsets /\ IsFiniteSet(D)
           /\ Taken(i, seen) \in SUBSET D /\ IsFiniteSet(Taken(i, seen)) /\ Booked(i, seen) \in SUBSET Taken(i, seen)
           /\ Takes(i, seen) \in [D -> Nat]
           /\ \A n \in D : Takes(i, seen)[n] <= Outstanding[n]
           /\ \A n \in D \ Taken(i, seen) : Takes(i, seen)[n] = 0
           /\ Sum(Takes(i, seen), Taken(i, seen)) \in Nat /\ Sum(Takes(i, seen), Taken(i, seen)) <= Available(i)
           /\ Sum(Takes(i, seen), Taken(i, seen)) < Available(i) =>
                \A n \in D : Takes(i, seen)[n] = Outstanding[n]
<1> DEFINE s == SellerOf[i]
           D == OffsetsOf(s, seen)
           a == Available(i)
           N == Len(offsets)
           t == Takes(i, seen)
<1>1. N \in Nat /\ DOMAIN offsets = 1 .. N /\ IsFiniteSet(1 .. N)
  <2>1. N \in Nat /\ DOMAIN offsets = 1 .. N
    BY DEF Typed, TypeOK
  <2>2. 1 \in Int /\ N \in Int
    BY <2>1
  <2> QED
    BY <2>1, <2>2, FS_Interval
<1>2. D \in SUBSET (1 .. N) /\ IsFiniteSet(D)
  BY <1>1, FS_Subset DEF OffsetsOf
<1>3. a \in Nat
  <2>1. 0 \in Nat
    OBVIOUS
  <2> QED
    BY <2>1, Amounting
<1>4. \A n \in D : Outstanding[n] \in Nat
  <2>1. \A n \in 1 .. N : /\ offsets[n].amount \in Nat /\ offsets[n].applied \in Nat
                          /\ offsets[n].applied <= offsets[n].amount
    <3>1. offsets \in Seq(Offsets) /\ \A n \in DOMAIN offsets : offsets[n].applied <= offsets[n].amount
      BY DEF Typed, TypeOK
    <3>2. \A n \in 1 .. N : offsets[n] \in Offsets
      BY <3>1
    <3> QED
      BY <1>1, <3>1, <3>2 DEF Offsets
  <2> QED
    BY <1>1, <1>2, <2>1 DEF Outstanding
<1> DEFINE B == [n \in D |-> {m \in D : m < n}]
<1>5. /\ \A n \in D : t[n] = Min({Outstanding[n],
                                 Max({a - SumFunctionOnSet(Outstanding, B[n]), 0})})
      /\ \A n \in D : B[n] \in SUBSET D /\ \A m \in D : m \in B[n] <=> m < n
  <2>1. \A n \in D : t[n] = Min({Outstanding[n],
                     Max({a - SumFunctionOnSet(Outstanding, {m \in D : m < n}), 0})})
    <3>1. \A n \in D : OffsetsOf(s, n - 1) = {m \in D : m < n}
      BY <1>1 DEF OffsetsOf
    <3>2. \A n \in D : t[n] = Take(n, s, a)
      BY DEF Takes
    <3> QED
      BY <3>1, <3>2 DEF Take, Sum
  <2>2. \A n \in D : B[n] = {m \in D : m < n}
    OBVIOUS
  <2> QED
    BY <2>1, <2>2
<1>6. DOMAIN t = D /\ t = [n \in D |-> t[n]]
  BY DEF Takes
<1> HIDE DEF D, a, N, t, B
<1>7. /\ \A n \in D : t[n] \in Nat /\ t[n] <= Outstanding[n]
      /\ SumFunctionOnSet(t, D) \in Nat /\ SumFunctionOnSet(t, D) <= a
      /\ SumFunctionOnSet(t, D) < a => \A n \in D : t[n] = Outstanding[n]
  <2>1. TakenOldestFirst(N, D, a, Outstanding, t, B)
    BY <1>1, <1>2, <1>3, <1>4, <1>5 DEF TakenOldestFirst
  <2> QED
    BY <2>1, Greedy
<1> DEFINE K == {n \in D : t[n] > 0}
<1>8. K \in SUBSET D /\ IsFiniteSet(K) /\ IsFiniteSet(D \ K) /\ \A n \in D \ K : t[n] = 0
  BY <1>2, <1>7, FS_Subset
<1>9. SumFunctionOnSet(t, D) = SumFunctionOnSet(t, K)
  <2>1. \A n \in D : t[n] \in Int
    BY <1>7
  <2> HIDE DEF K
  <2>2. SumFunctionOnSet(t, D) = SumFunctionOnSet(t, K) + SumFunctionOnSet(t, D \ K)
    BY <1>2, <1>8, <2>1, SumSplit
  <2>3. SumFunctionOnSet(t, D \ K) = 0
    BY <1>8, SumZero
  <2>4. SumFunctionOnSet(t, K) \in Int
    BY <1>8, <2>1, SumInt
  <2> QED
    BY <2>2, <2>3, <2>4
<1>10. Taken(i, seen) = K /\ Booked(i, seen) \in SUBSET Taken(i, seen)
  BY DEF Taken, Booked, D, t
<1>11. t \in [D -> Nat]
  BY <1>6, <1>7
<1> HIDE DEF K
<1> QED
  BY <1>1, <1>2, <1>7, <1>8, <1>9, <1>10, <1>11 DEF Sum, D, a, t

\* Every captured order is typed.
LEMMA TypedInit == Init => Typed
<1> SUFFICES ASSUME Init PROVE Typed
  OBVIOUS
<1> USE DEF Init
<1>1. \A o \in Orders : GrandTotals[o] \in Int
  <2>1. ASSUME NEW o \in Orders PROVE GrandTotal(o) \in Int
    <3>1. IsFiniteSet(ItemsOf(o)) /\ ItemsOf(o) \in SUBSET Items
      BY FiniteAssumption, FS_Subset DEF ItemsOf
    <3>2. \A i \in Items : Totals[i] \in Int
      BY ItemsAssumption DEF Totals, Total
    <3> QED
      BY <3>1, <3>2, SumInt DEF GrandTotal, Sum
  <2> QED
    BY <2>1 DEF GrandTotals
<1>2. clearing \in Int
  BY <1>1, FiniteAssumption, SumInt DEF Sum
<1>3. payable \in [Sellers -> Int]
  <2>1. ASSUME NEW s \in Sellers PROVE Sum(Net, {i \in Items : SellerOf[i] = s}) \in Int
    <3> DEFINE S == {i \in Items : SellerOf[i] = s}
    <3>1. IsFiniteSet(S) /\ \A i \in S : Net[i] \in Int
      BY FiniteAssumption, ItemsAssumption, FS_Subset
    <3> HIDE DEF S
    <3>2. Sum(Net, S) \in Int
      BY <3>1, SumInt DEF Sum
    <3> QED
      BY <3>2 DEF S
  <2> QED
    BY <2>1
<1>4. IsFiniteSet(refunds)
  BY FS_EmptySet
<1>5. rq \in [Refunders -> Requests] /\ dh \in [Hooks -> Handlings]
  BY DEF Requests, Handlings
<1>6. offsets \in Seq(Offsets) /\ DOMAIN offsets = {}
  OBVIOUS
<1>7. faults \in 0 .. MaxFaults
  BY FaultsAssumption
<1>8. /\ status \in [Orders -> Statuses] /\ refundedTotal \in [Orders -> Nat]
      /\ refunded \in [Items -> Nat] /\ due \in [Items -> Nat]
      /\ transfer \in [Items -> {"on_hold", "processed", "cancelled"}]
      /\ refunds \subseteq Items \X Nat
  BY DEF Statuses
<1>9. /\ chargeback \in [Disputes -> {"none", "evidence_required", "won", "lost"}]
      /\ reserve \in [Sellers -> Nat] /\ receivable \in Int /\ paid \in [Items -> Nat]
  OBVIOUS
<1>12. replayed \in BOOLEAN /\ account \in [Sellers -> BOOLEAN]
  <2>1. replayed \in BOOLEAN
    BY Zenon
  <2>2. account \in [Sellers -> BOOLEAN]
    BY Zenon
  <2> QED
    BY <2>1, <2>2
<1>10. /\ prefunds \subseteq Items \X Nat
       /\ case \in [Disputes -> {"none", "open", "won", "lost"}]
       /\ acked \subseteq Events /\ sw \in [Workers -> SUBSET Items]
       /\ rel \in [Workers -> {NoRelease} \cup [at : {"begun"}, i : Items, seen : Nat]]
  OBVIOUS
<1>11. TypeOK
  BY <1>2, <1>3, <1>6, <1>7, <1>8, <1>9, <1>10, <1>12, SMTT(20) DEF TypeOK
<1> QED
  BY <1>4, <1>5, <1>6, <1>11 DEF Typed

\* The rows and the journal; the rest is what requests, sweeps and webhooks know.
money == <<refundedTotal, refunded, transfer, refunds, offsets, ledger>>

\* Steps that move no money.
QuietStep ==
  \/ \E i \in Items : HoldElapses(i)
  \/ \E s \in Sellers : OnAccountStatus(s)
  \/ \E d \in Disputes : NetworkDisputes(d)
  \/ \E r \in Refunders, i \in Items : \E amount \in Amounts[i] : RefundLoad(r, i, amount)
  \/ \E r \in Refunders : RefundAsk(r) \/ RefundAbort(r)
  \/ \E w \in Workers : Scan(w) \/ ReleaseAbort(w)
  \/ \E w \in Workers, i \in Items : ReleaseBegin(w, i)
  \/ \E o \in Orders : CompleteOrder(o)
  \/ \E h \in Hooks, e \in Events : DisputeRead(h, e)
  \/ \E h \in Hooks : DisputeCreated(h) \/ DisputeWon(h) \/ DisputeAck(h) \/ DisputeCrash(h)

\* A quiet step leaves the rows of money and the ledger as they are.
LEMMA QuietFrame == QuietStep => UNCHANGED money
  BY DEF QuietStep, HoldElapses, OnAccountStatus, NetworkDisputes, RefundLoad, RefundAsk,
         RefundAbort, Scan, ReleaseBegin, ReleaseAbort, CompleteOrder, DisputeRead, DisputeCreated, DisputeWon,
         DisputeAck, DisputeCrash, money, rows, ledger

\* Every step is quiet, or one of the three that write accounts.
LEMMA Steps ==
    ASSUME [Next]_vars
    PROVE  \/ QuietStep
           \/ \E r \in Refunders : RefundWrite(r)
           \/ \E w \in Workers : ReleaseCommit(w)
           \/ \E h \in Hooks : DisputeLost(h)
           \/ UNCHANGED vars
  BY DEF Next, RefundStep, SweepStep, DisputeStep, QuietStep

\* What a request in flight carries.
LEMMA TypedRq ==
    ASSUME Typed, NEW r \in Refunders, rq[r].at \in {"loaded", "asked"}
    PROVE  /\ rq[r].i \in Items /\ rq[r].amount \in Nat \ {0}
           /\ rq[r].status \in Statuses /\ rq[r].total \in Nat
  BY DEF Typed, Requests, IdleRequest

\* What a webhook in flight carries.
LEMMA TypedDh ==
    ASSUME Typed, NEW h \in Hooks, dh[h].at \in {"read", "done"}
    PROVE  /\ dh[h].e \in Events /\ dh[h].status \in Statuses
           /\ dh[h].away \subseteq ItemsOf(DisputedOrder[dh[h].e[2]])
           /\ dh[h].away \subseteq Items
           /\ dh[h].e[2] \in Disputes /\ DisputedOrder[dh[h].e[2]] \in Orders
<1>1. dh[h] \in Handlings /\ dh[h] # IdleHook
  BY DEF Typed, IdleHook
<1>2. dh[h].e \in Events /\ dh[h].status \in Statuses /\ dh[h].away \subseteq Items
  BY <1>1 DEF Handlings
<1>3. dh[h].e[2] \in Disputes
  BY <1>2 DEF Events
<1> QED
  BY <1>1, <1>2, <1>3, DisputesAssumption DEF Typed

\* Quiet steps keep the types.
LEMMA TypedQuiet ==
    ASSUME Typed, QuietStep
    PROVE  Typed'
<1>1. UNCHANGED money
  BY QuietFrame
<1>2. /\ refundedTotal' \in [Orders -> Nat] /\ refunded' \in [Items -> Nat]
      /\ transfer' \in [Items -> {"on_hold", "processed", "cancelled"}]
      /\ refunds' \subseteq Items \X Nat /\ offsets' \in Seq(Offsets)
      /\ payable' \in [Sellers -> Int] /\ reserve' \in [Sellers -> Nat]
      /\ receivable' \in Int /\ clearing' \in Int /\ paid' \in [Items -> Nat]
      /\ replayed' \in BOOLEAN /\ IsFiniteSet(refunds')
      /\ \A n \in DOMAIN offsets' : offsets'[n].applied <= offsets'[n].amount
  BY <1>1 DEF Typed, TypeOK, money, ledger
<1> SUFFICES
      /\ status' \in [Orders -> Statuses]
      /\ due' \in [Items -> Nat]
      /\ chargeback' \in [Disputes -> {"none", "evidence_required", "won", "lost"}]
      /\ account' \in [Sellers -> BOOLEAN]
      /\ prefunds' \subseteq Items \X Nat
      /\ case' \in [Disputes -> {"none", "open", "won", "lost"}]
      /\ acked' \subseteq Events
      /\ sw' \in [Workers -> SUBSET Items]
      /\ rel' \in [Workers -> {NoRelease} \cup [at : {"begun"}, i : Items, seen : Nat]]
      /\ faults' \in 0 .. MaxFaults
      /\ rq' \in [Refunders -> Requests]
      /\ dh' \in [Hooks -> Handlings]
      /\ \A h \in Hooks : dh'[h] # IdleHook =>
           dh'[h].away \subseteq ItemsOf(DisputedOrder[dh'[h].e[2]])
  BY <1>2 DEF Typed, TypeOK
<1> USE DEF Typed, TypeOK
<1>3. CASE \E i \in Items : HoldElapses(i)
  <2>1. due' \in [Items -> Nat]
    <3>1. due \in [Items -> Nat]
      OBVIOUS
    <3>2. \A j \in Items : due[j] + 1 \in Nat
      BY <3>1
    <3> QED
      BY <1>3, <3>1, <3>2 DEF HoldElapses
  <2> QED
    BY <1>3, <2>1 DEF HoldElapses, outside, handlers
<1>4. CASE \E s \in Sellers : OnAccountStatus(s)
  BY <1>4 DEF OnAccountStatus, rows, handlers
<1>5. CASE \E d \in Disputes : NetworkDisputes(d)
  <2>1. case' \in [Disputes -> {"none", "open", "won", "lost"}]
    <3>1. case \in [Disputes -> {"none", "open", "won", "lost"}]
      OBVIOUS
    <3> QED
      BY <1>5, <3>1 DEF NetworkDisputes
  <2> QED
    BY <1>5, <2>1 DEF NetworkDisputes, rows, handlers
<1>6. ASSUME NEW r \in Refunders, NEW i \in Items, NEW amount \in Amounts[i],
             RefundLoad(r, i, amount)
      PROVE  rq' \in [Refunders -> Requests]
  <2>1. amount \in Nat \ {0} /\ OrderOf[i] \in Orders
    BY ItemsAssumption
  <2> QED
    BY <1>6, <2>1 DEF RefundLoad, Requests
<1>7. CASE \E r \in Refunders, i \in Items : \E amount \in Amounts[i] : RefundLoad(r, i, amount)
  BY <1>6, <1>7, ZenonT(30) DEF RefundLoad, rows, outside
<1>8. ASSUME NEW r \in Refunders, RefundAsk(r)
      PROVE  rq' \in [Refunders -> Requests] /\ prefunds' \subseteq Items \X Nat
  <2>1. rq[r].at = "loaded" /\ rq[r] \in Requests
    BY <1>8 DEF RefundAsk
  <2>2. rq[r].i \in Items /\ rq[r].amount \in Nat
    BY <2>1, TypedRq
  <2> DEFINE Live == [at : {"loaded", "asked"}, i : Items, amount : Nat \ {0},
                      status : Statuses, total : Nat]
  <2>3. rq[r] \in Live
    BY <2>1 DEF Requests, IdleRequest
  <2>4. [rq[r] EXCEPT !.at = "asked"] \in Live
    BY <2>3
  <2>5. [rq[r] EXCEPT !.at = "asked"] \in Requests /\ IdleRequest \in Requests
    BY <2>4 DEF Requests
  <2>6. rq' = [rq EXCEPT ![r] = [rq[r] EXCEPT !.at = "asked"]] \/ rq' = [rq EXCEPT ![r] = IdleRequest]
    BY <1>8 DEF RefundAsk
  <2>7. rq' \in [Refunders -> Requests]
    BY <2>5, <2>6
  <2> QED
    BY <1>8, <2>2, <2>7 DEF RefundAsk
<1>9. CASE \E r \in Refunders : RefundAsk(r)
  BY <1>8, <1>9 DEF RefundAsk, rows
<1>10. CASE \E r \in Refunders : RefundAbort(r)
  <2>1. IdleRequest \in Requests
    BY DEF Requests
  <2>2. faults' \in 0 .. MaxFaults
    BY <1>10, FaultsAssumption DEF RefundAbort
  <2> QED
    BY <1>10, <2>1, <2>2 DEF RefundAbort, rows, outside
<1>11. CASE \E w \in Workers : Scan(w)
  BY <1>11 DEF Scan, Candidates, Scanned, Waiting, rows, outside
<1>20. CASE \E w \in Workers, i \in Items : ReleaseBegin(w, i)
  <2>1. Len(offsets) \in Nat
    OBVIOUS
  <2> QED
    BY <1>20, <2>1 DEF ReleaseBegin, rows, outside
<1>21. CASE \E w \in Workers : ReleaseAbort(w)
  BY <1>21, FaultsAssumption DEF ReleaseAbort, rows, outside
<1>12. CASE \E o \in Orders : CompleteOrder(o)
  BY <1>12 DEF CompleteOrder, outside, handlers, Statuses
<1>13. ASSUME NEW h \in Hooks, NEW e \in Events, DisputeRead(h, e)
       PROVE  /\ dh' \in [Hooks -> Handlings]
              /\ \A g \in Hooks : dh'[g] # IdleHook =>
                   dh'[g].away \subseteq ItemsOf(DisputedOrder[dh'[g].e[2]])
  <2> DEFINE new == [at |-> "read", e |-> e, status |-> status[DisputedOrder[e[2]]],
                     away |-> {i \in ItemsOf(DisputedOrder[e[2]]) : transfer[i] = "processed"}]
  <2>1. e[2] \in Disputes /\ DisputedOrder[e[2]] \in Orders
    BY DisputesAssumption DEF Events
  <2>2. new \in Handlings /\ new.away \subseteq ItemsOf(DisputedOrder[new.e[2]])
    BY <2>1 DEF Handlings, ItemsOf
  <2>3. dh' = [dh EXCEPT ![h] = new]
    BY <1>13 DEF DisputeRead
  <2> HIDE DEF new
  <2> QED
    BY <2>2, <2>3
<1>14. CASE \E h \in Hooks, e \in Events : DisputeRead(h, e)
  BY <1>13, <1>14, ZenonT(30) DEF DisputeRead, rows, outside
<1>15. ASSUME NEW h \in Hooks, dh[h].at \in {"read", "done"},
              dh' = [dh EXCEPT ![h] = IdleHook] \/ dh' = [dh EXCEPT ![h].at = "done"]
       PROVE  /\ dh' \in [Hooks -> Handlings]
              /\ \A g \in Hooks : dh'[g] # IdleHook =>
                   dh'[g].away \subseteq ItemsOf(DisputedOrder[dh'[g].e[2]])
  <2>1. dh[h] \in Handlings /\ dh[h] # IdleHook
    BY <1>15 DEF IdleHook
  <2>2. /\ [dh[h] EXCEPT !.at = "done"] \in Handlings /\ IdleHook \in Handlings
        /\ [dh[h] EXCEPT !.at = "done"].away = dh[h].away
        /\ [dh[h] EXCEPT !.at = "done"].e = dh[h].e
    BY <2>1 DEF Handlings
  <2> QED
    BY <1>15, <2>1, <2>2, ZenonT(30)
<1>16. ASSUME NEW h \in Hooks, DisputeCreated(h) \/ DisputeWon(h) \/ DisputeAck(h) \/ DisputeCrash(h)
       PROVE  /\ dh[h].at \in {"read", "done"}
              /\ dh' = [dh EXCEPT ![h] = IdleHook] \/ dh' = [dh EXCEPT ![h].at = "done"]
  BY <1>16 DEF DisputeCreated, DisputeWon, DisputeAck, DisputeCrash, Handled
<1>17. ASSUME NEW h \in Hooks, DisputeCreated(h) \/ DisputeWon(h)
       PROVE  /\ status' \in [Orders -> Statuses]
              /\ due' \in [Items -> Nat]
              /\ chargeback' \in [Disputes -> {"none", "evidence_required", "won", "lost"}]
              /\ UNCHANGED <<outside, rq, sw, rel, faults>>
  <2>1. dh[h].e[2] \in Disputes /\ DisputedOrder[dh[h].e[2]] \in Orders
    BY <1>17, TypedDh DEF DisputeCreated, DisputeWon
  <2>2. ASSUME NEW from, NEW to \in Statuses, MoveIfThere(DisputedOrder[dh[h].e[2]], from, to)
        PROVE  status' \in [Orders -> Statuses]
    BY <2>1, <2>2 DEF MoveIfThere
  <2>3. "disputed" \in Statuses /\ "fulfilled" \in Statuses
    BY DEF Statuses
  <2>4. CASE DisputeCreated(h)
    <3>1. due' \in [Items -> Nat]
      <4>1. due' = due \/ due' = [i \in Items |-> IF /\ i \in ItemsOf(DisputedOrder[dh[h].e[2]])
                                                    /\ transfer[i] = "on_hold"
                                                 THEN 0 ELSE due[i]]
        BY <2>4 DEF DisputeCreated
      <4>2. due \in [Items -> Nat]
        OBVIOUS
      <4> QED
        BY <4>1, <4>2
    <3>2. chargeback' \in [Disputes -> {"none", "evidence_required", "won", "lost"}]
      <4>1. \/ chargeback' = chargeback
            \/ chargeback' = [chargeback EXCEPT ![dh[h].e[2]] = IF @ = "none" THEN "evidence_required" ELSE @]
        BY <2>4 DEF DisputeCreated
      <4>2. chargeback \in [Disputes -> {"none", "evidence_required", "won", "lost"}]
        OBVIOUS
      <4>3. \A f \in [Disputes -> {"none", "evidence_required", "won", "lost"}], d \in Disputes :
              [f EXCEPT ![d] = IF @ = "none" THEN "evidence_required" ELSE @]
                \in [Disputes -> {"none", "evidence_required", "won", "lost"}]
        OBVIOUS
      <4> QED
        BY <2>1, <4>1, <4>2, <4>3
    <3>3. status' \in [Orders -> Statuses]
      BY <2>4, <2>2, <2>3 DEF DisputeCreated
    <3> QED
      BY <2>4, <3>1, <3>2, <3>3 DEF DisputeCreated
  <2>5. CASE DisputeWon(h)
    <3>1. chargeback' \in [Disputes -> {"none", "evidence_required", "won", "lost"}]
      BY <2>5, <2>1 DEF DisputeWon, Decide
    <3>2. status' \in [Orders -> Statuses]
      BY <2>5, <2>2, <2>3 DEF DisputeWon
    <3> QED
      BY <2>5, <3>1, <3>2 DEF DisputeWon
  <2> QED
    BY <1>17, <2>4, <2>5
<1>18. CASE \E h \in Hooks : DisputeCreated(h) \/ DisputeWon(h)
  BY <1>15, <1>16, <1>17, <1>18 DEF outside
<1>19. CASE \E h \in Hooks : DisputeAck(h) \/ DisputeCrash(h)
  <2>1. ASSUME NEW h \in Hooks, DisputeAck(h) PROVE acked' \subseteq Events
    BY <2>1, TypedDh DEF DisputeAck, Handled
  <2>2. ASSUME NEW h \in Hooks, DisputeCrash(h) PROVE faults' \in 0 .. MaxFaults
    BY <2>2, FaultsAssumption DEF DisputeCrash
  <2> QED
    BY <1>15, <1>16, <1>19, <2>1, <2>2 DEF DisputeAck, DisputeCrash, rows, outside
<1> QED
  BY <1>3, <1>4, <1>5, <1>7, <1>9, <1>10, <1>11, <1>12, <1>14, <1>18, <1>19,
     <1>20, <1>21 DEF QuietStep

-----------------------------------------------------------------------------
(* The three steps that move money *)

\* A refund that commits.
Commits(r) ==
  LET i == rq[r].i
      amount == rq[r].amount
  IN
  /\ <<i, amount>> \notin refunds
  /\ refunds' = refunds \cup {<<i, amount>>}
  /\ refunded' = [refunded EXCEPT ![i] = @ + amount]
  /\ ReverseShare(i, amount)

\* A refund's write either commits, for the item it had locked, or changes no row.
LEMMA WriteFacts ==
    ASSUME Typed, NEW r \in Refunders, RefundWrite(r)
    PROVE  /\ rq[r].at = "asked" /\ rq' = [rq EXCEPT ![r] = IdleRequest]
           /\ rq[r].i \in Items /\ rq[r].amount \in Nat \ {0}
           /\ UNCHANGED <<keys, reserve, paid, replayed, due, chargeback, account, prefunds,
                          case, acked, dh, sw, rel, faults>>
           /\ status' \in [Orders -> Statuses] /\ refundedTotal' \in [Orders -> Nat]
           /\ \/ UNCHANGED <<refunds, refunded, transfer, offsets, payable, receivable, clearing>>
              \/ Commits(r)
<1>1. rq[r].at = "asked" /\ rq' = [rq EXCEPT ![r] = IdleRequest]
  BY DEF RefundWrite
<1>2. /\ rq[r].i \in Items /\ rq[r].amount \in Nat \ {0}
      /\ rq[r].status \in Statuses /\ rq[r].total \in Nat
  BY <1>1, TypedRq
<1>3. UNCHANGED <<keys, reserve, paid, replayed, due, chargeback, account, prefunds,
                  case, acked, dh, sw, rel, faults>>
  BY DEF RefundWrite, outside
<1>4. \/ UNCHANGED <<refunds, refunded, refundedTotal, status, transfer, offsets, payable,
                     receivable, clearing>>
      \/ /\ Commits(r)
         /\ refundedTotal' = [refundedTotal EXCEPT ![OrderOf[rq[r].i]] = rq[r].total + rq[r].amount]
         /\ \E to \in {"refunded", "partially_refunded"} :
              status' = [status EXCEPT ![OrderOf[rq[r].i]] = to]
  BY DEF RefundWrite, Commits
<1>5. status' \in [Orders -> Statuses] /\ refundedTotal' \in [Orders -> Nat]
  <2>1. status \in [Orders -> Statuses] /\ refundedTotal \in [Orders -> Nat]
    BY DEF Typed, TypeOK
  <2> QED
    BY <2>1, <1>2, <1>4 DEF Statuses
<1> QED
  BY <1>1, <1>2, <1>3, <1>4, <1>5

\* A refund's write keeps the types: a share is a natural, a new offset is open.
LEMMA TypedWrite ==
    ASSUME Typed, NEW r \in Refunders, RefundWrite(r)
    PROVE  Typed'
<1> DEFINE i == rq[r].i
           amount == rq[r].amount
<1>1. /\ i \in Items /\ amount \in Nat \ {0} /\ rq' = [rq EXCEPT ![r] = IdleRequest]
      /\ UNCHANGED <<keys, reserve, paid, replayed, due, chargeback, account, prefunds,
                     case, acked, dh, sw, rel, faults>>
      /\ status' \in [Orders -> Statuses] /\ refundedTotal' \in [Orders -> Nat]
  BY WriteFacts
<1>2. rq' \in [Refunders -> Requests]
  BY <1>1 DEF Typed, Requests
<1>3. CASE UNCHANGED <<refunds, refunded, transfer, offsets, payable, receivable, clearing>>
  BY <1>1, <1>2, <1>3 DEF Typed, TypeOK
<1>4. CASE Commits(r)
  <2> DEFINE share == SellerShare(i, amount)
             row == [item |-> i, dispute |-> "refund", amount |-> RecoveredShare(i, amount),
                     applied |-> 0]
  <2>1. share \in Nat /\ RecoveredShare(i, amount) \in Nat /\ SellerOf[i] \in Sellers
    BY <1>1, Amounting
  <2>2. row \in Offsets
    BY <1>1, <2>1 DEF Offsets
  <2>3. /\ refunds' = refunds \cup {<<i, amount>>}
        /\ refunded' = [refunded EXCEPT ![i] = @ + amount]
        /\ clearing' = clearing - amount
        /\ receivable' = receivable \/ receivable' = receivable + share
        /\ offsets' = offsets \/ offsets' = Append(offsets, row)
        /\ payable' = payable \/ payable' = [payable EXCEPT ![SellerOf[i]] = @ - share]
        /\ transfer' = transfer \/ transfer' = [transfer EXCEPT ![i] = "cancelled"]
    BY <1>4 DEF Commits, ReverseShare
  <2> HIDE DEF i, amount, share, row
  <2>4. refunds' \subseteq Items \X Nat /\ IsFiniteSet(refunds')
    <3>1. IsFiniteSet(refunds) /\ refunds \subseteq Items \X Nat
      BY DEF Typed, TypeOK
    <3>2. <<i, amount>> \in Items \X Nat
      BY <1>1
    <3>3. IsFiniteSet(refunds \cup {<<i, amount>>})
      BY <3>1, FS_AddElement
    <3> QED
      BY <3>1, <3>2, <3>3, <2>3
  <2>5. refunded' \in [Items -> Nat]
    <3>1. refunded \in [Items -> Nat] /\ refunded[i] + amount \in Nat
      BY <1>1 DEF Typed, TypeOK
    <3> QED
      BY <3>1, <2>3
  <2>8. clearing' \in Int /\ receivable' \in Int
    BY <1>1, <2>1, <2>3, SMTT(20) DEF Typed, TypeOK
  <2>9. transfer' \in [Items -> {"on_hold", "processed", "cancelled"}]
    BY <2>3 DEF Typed, TypeOK
  <2>6. payable' \in [Sellers -> Int]
    BY <1>1, <2>1, <2>3, SMTT(20) DEF Typed, TypeOK
  <2>7. /\ offsets' \in Seq(Offsets)
        /\ \A n \in DOMAIN offsets' : offsets'[n].applied <= offsets'[n].amount
    <3>1. offsets \in Seq(Offsets) /\ \A n \in DOMAIN offsets : offsets[n].applied <= offsets[n].amount
      BY DEF Typed, TypeOK
    <3>2. row.applied <= row.amount
      BY <2>1 DEF row
    <3>3. CASE offsets' = Append(offsets, row)
      <4>1. /\ offsets' \in Seq(Offsets) /\ Len(offsets') = Len(offsets) + 1
            /\ DOMAIN offsets = 1 .. Len(offsets) /\ DOMAIN offsets' = 1 .. Len(offsets')
            /\ \A n \in 1 .. Len(offsets) : offsets'[n] = offsets[n]
            /\ offsets'[Len(offsets) + 1] = row
        BY <3>1, <3>3, <2>2, AppendProperties
      <4> QED
        BY <3>1, <3>2, <4>1
    <3> QED
      BY <2>3, <3>1, <3>3
  <2> QED
    BY <1>1, <1>2, <2>4, <2>5, <2>6, <2>7, <2>8, <2>9 DEF Typed, TypeOK
<1> QED
  BY <1>3, <1>4, WriteFacts

\* A release commits for the item that its worker had locked, and the offsets it had read.
LEMMA ReleaseFacts ==
    ASSUME Typed, NEW w \in Workers, ReleaseCommit(w)
    PROVE  /\ UNCHANGED <<status, refundedTotal, refunded, due, refunds, chargeback,
                          account, prefunds, case, acked, rq, sw, dh, faults>>
           /\ rel[w].at = "begun" /\ rel[w].i \in Items /\ rel[w].seen \in Nat
           /\ rel' = [rel EXCEPT ![w] = NoRelease]
           /\ Release(rel[w].i, rel[w].seen)
<1>1. rel[w] \in [at : {"begun"}, i : Items, seen : Nat]
  BY DEF ReleaseCommit, Typed, TypeOK
<1> QED
  BY <1>1 DEF ReleaseCommit, outside

\* The rows of a settlement's offsets after it.
LEMMA ReleasedOffsets ==
    ASSUME Typed, NEW i \in Items, NEW seen \in Nat, Release(i, seen)
    PROVE  /\ DOMAIN offsets' = DOMAIN offsets /\ offsets' \in Seq(Offsets)
           /\ \A n \in DOMAIN offsets :
                /\ offsets'[n].item = offsets[n].item /\ offsets'[n].amount = offsets[n].amount
                /\ offsets'[n].applied = offsets[n].applied
                                          + (IF n \in Taken(i, seen) THEN Takes(i, seen)[n] ELSE 0)
                /\ offsets'[n].applied <= offsets'[n].amount
<1> DEFINE T == Takes(i, seen)
           K == Taken(i, seen)
<1>1. /\ offsets \in Seq(Offsets) /\ DOMAIN offsets = 1 .. Len(offsets) /\ Len(offsets) \in Nat
      /\ \A n \in DOMAIN offsets : offsets[n].applied <= offsets[n].amount
  BY DEF Typed, TypeOK
<1>2. \A n \in DOMAIN offsets : offsets[n] \in Offsets
  BY <1>1
<1>3. \A n \in K : n \in DOMAIN offsets /\ T[n] \in Nat /\ T[n] <= Outstanding[n]
  BY TakesFacts
<1>4. offsets' = [n \in DOMAIN offsets |->
                   IF n \in K THEN [offsets[n] EXCEPT !.applied = @ + T[n]] ELSE offsets[n]]
  BY DEF Release
<1> HIDE DEF T, K
<1>5. ASSUME NEW n \in DOMAIN offsets
      PROVE  /\ offsets'[n] \in Offsets
             /\ offsets'[n].item = offsets[n].item /\ offsets'[n].amount = offsets[n].amount
             /\ offsets'[n].applied = offsets[n].applied + (IF n \in K THEN T[n] ELSE 0)
             /\ offsets'[n].applied <= offsets'[n].amount
  <2>1. /\ offsets[n] \in Offsets /\ offsets[n].amount \in Nat /\ offsets[n].applied \in Nat
        /\ offsets[n].applied <= offsets[n].amount
    BY <1>1, <1>2 DEF Offsets
  <2>2. CASE n \in K
    <3>1. T[n] \in Nat /\ T[n] <= offsets[n].amount - offsets[n].applied
      BY <1>3, <2>2 DEF Outstanding
    <3>2. offsets'[n] = [offsets[n] EXCEPT !.applied = offsets[n].applied + T[n]]
      BY <1>4, <2>2
    <3>3. offsets[n].applied + T[n] \in Nat /\ offsets[n].applied + T[n] <= offsets[n].amount
      BY <2>1, <3>1
    <3> QED
      BY <2>1, <2>2, <3>2, <3>3 DEF Offsets
  <2>3. CASE n \notin K
    BY <1>4, <2>1, <2>3 DEF Offsets
  <2> QED
    BY <2>2, <2>3
<1>6. DOMAIN offsets' = DOMAIN offsets
  BY <1>4
<1>7. offsets' \in Seq(Offsets)
  BY <1>1, <1>4, <1>5
<1> QED
  BY <1>5, <1>6, <1>7 DEF T, K

\* A release keeps the types: no offset gives more than it has.
LEMMA TypedRelease ==
    ASSUME Typed, NEW w \in Workers, ReleaseCommit(w)
    PROVE  Typed'
<1> DEFINE i == rel[w].i
           seen == rel[w].seen
<1>1. /\ UNCHANGED <<status, refundedTotal, refunded, due, refunds, chargeback,
                     account, prefunds, case, acked, rq, sw, dh, faults>>
      /\ i \in Items /\ seen \in Nat /\ Release(i, seen)
      /\ rel' = [rel EXCEPT ![w] = NoRelease]
  BY ReleaseFacts
<1>2. rel' \in [Workers -> {NoRelease} \cup [at : {"begun"}, i : Items, seen : Nat]]
  BY <1>1 DEF Typed, TypeOK
<1> HIDE DEF i, seen
<1> DEFINE s == SellerOf[i]
           booked == Sum(Takes(i, seen), Booked(i, seen))
           total == Sum(Takes(i, seen), Taken(i, seen))
           net == Available(i) - total
<1>3. /\ s \in Sellers /\ Available(i) \in Nat /\ Withheld[i] \in Nat
  <2>1. 0 \in Nat
    OBVIOUS
  <2> QED
    BY <1>1, <2>1, Amounting
<1>4. total \in Nat /\ net \in Nat
  BY <1>1, <1>3, TakesFacts
<1>5. booked \in Int
  <2>1. IsFiniteSet(Booked(i, seen)) /\ \A n \in Booked(i, seen) : Takes(i, seen)[n] \in Int
    BY <1>1, TakesFacts, FS_Subset
  <2> QED
    BY <2>1, SumInt DEF Sum
<1>6. /\ reserve' = [reserve EXCEPT ![s] = @ + Withheld[i]]
      /\ payable' = [payable EXCEPT ![s] = @ - Withheld[i] - booked - net]
      /\ receivable' = receivable - booked
      /\ clearing' = clearing - net
      /\ paid' = [paid EXCEPT ![i] = @ + net]
      /\ transfer' = [transfer EXCEPT ![i] = "processed"]
  BY <1>1 DEF Release
<1>7. replayed' \in BOOLEAN
  BY <1>1 DEF Release, Typed, TypeOK
<1> HIDE DEF s, booked, total, net
<1>8. /\ receivable' \in Int /\ clearing' \in Int
      /\ transfer' \in [Items -> {"on_hold", "processed", "cancelled"}]
  <2>1. /\ receivable \in Int /\ clearing \in Int
        /\ transfer \in [Items -> {"on_hold", "processed", "cancelled"}]
    BY DEF Typed, TypeOK
  <2>2. receivable' \in Int /\ clearing' \in Int
    BY <2>1, <1>4, <1>5, <1>6
  <2> QED
    BY <2>1, <2>2, <1>6
<1>10. reserve' \in [Sellers -> Nat]
  <2>1. reserve \in [Sellers -> Nat] /\ reserve[s] + Withheld[i] \in Nat
    BY <1>3 DEF Typed, TypeOK
  <2> QED
    BY <2>1, <1>6
<1>11. paid' \in [Items -> Nat]
  <2>1. paid \in [Items -> Nat] /\ paid[i] + net \in Nat
    BY <1>1, <1>4 DEF Typed, TypeOK
  <2> QED
    BY <2>1, <1>6
<1>12. payable' \in [Sellers -> Int]
  <2>1. payable \in [Sellers -> Int] /\ payable[s] - Withheld[i] - booked - net \in Int
    BY <1>3, <1>4, <1>5, SMTT(20) DEF Typed, TypeOK
  <2> QED
    BY <2>1, <1>6
<1>9. /\ offsets' \in Seq(Offsets)
      /\ \A n \in DOMAIN offsets' : offsets'[n].applied <= offsets'[n].amount
  BY <1>1, ReleasedOffsets
<1> QED
  BY <1>1, <1>2, <1>7, <1>8, <1>9, <1>10, <1>11, <1>12 DEF Typed, TypeOK

\* The settlement_offsets row of a lost dispute.
LossRow(i, d) == [item |-> i, dispute |-> d, amount |-> Net[i], applied |-> 0]

\* What a lost dispute appends: one row for each item that had been paid out.
LEMMA LossOffsets ==
    ASSUME Typed, NEW d \in Disputes, NEW away \in SUBSET Items, PostChargebackLoss(d, away)
    PROVE  LET N == Len(offsets)
               M == Len(offsets')
           IN
           /\ N \in Nat /\ M \in Nat /\ N <= M
           /\ DOMAIN offsets = 1 .. N /\ DOMAIN offsets' = 1 .. M
           /\ offsets' \in Seq(Offsets)
           /\ \A n \in 1 .. N : offsets'[n] = offsets[n]
           /\ \A n \in N + 1 .. M : \E i \in away : offsets'[n] = LossRow(i, d)
           /\ \A i \in away : \E n \in N + 1 .. M : offsets'[n] = LossRow(i, d)
           /\ \A n, m \in N + 1 .. M : offsets'[n] = offsets'[m] => n = m
<1> DEFINE S == {LossRow(i, d) : i \in away}
           q == SetToSeq(S)
           N == Len(offsets)
           k == Len(q)
<1>1. IsFiniteSet(away)
  BY FiniteAssumption, FS_Subset
<1>2. IsFiniteSet(S)
  <2> DEFINE b == [i \in away |-> LossRow(i, d)]
  <2>1. b \in Surjection(away, S)
    BY DEF Surjection
  <2> QED
    BY <1>1, <2>1, FS_Surjection
<1>3. S \subseteq Offsets
  <2>1. \A i \in away : Net[i] \in Nat
    BY ItemsAssumption
  <2> QED
    BY <2>1 DEF LossRow, Offsets
<1>4. offsets \in Seq(Offsets) /\ N \in Nat /\ DOMAIN offsets = 1 .. N
  BY DEF Typed, TypeOK
<1>5. offsets' = offsets \o q
  BY DEF PostChargebackLoss, LossRow
<1>6. \A x \in S : \E i \in away : x = LossRow(i, d)
  OBVIOUS
<1>7. \A i \in away : LossRow(i, d) \in S
  OBVIOUS
<1> HIDE DEF S
<1>8. /\ q \in Seq(S) /\ k \in Nat /\ DOMAIN q = 1 .. k
      /\ \A x \in S : \E j \in 1 .. k : q[j] = x
      /\ \A j, l \in 1 .. k : q[j] = q[l] => j = l
  BY <1>2, SetAsSequence
<1>9. q \in Seq(Offsets) /\ \A j \in 1 .. k : q[j] \in S
  BY <1>3, <1>8
<1> HIDE DEF q, N, k
<1>10. /\ offsets' \in Seq(Offsets) /\ Len(offsets') = N + k /\ DOMAIN offsets' = 1 .. N + k
       /\ \A n \in 1 .. N + k : offsets'[n] = IF n <= N THEN offsets[n] ELSE q[n - N]
  BY <1>4, <1>5, <1>8, <1>9, ConcatProperties DEF N, k
<1>11. \A n \in 1 .. N : offsets'[n] = offsets[n]
  BY <1>4, <1>8, <1>10
<1>12. \A n \in N + 1 .. N + k : n - N \in 1 .. k /\ offsets'[n] = q[n - N]
  BY <1>4, <1>8, <1>10
<1>13. \A n \in N + 1 .. N + k : \E i \in away : offsets'[n] = LossRow(i, d)
  BY <1>6, <1>9, <1>12
<1>14. ASSUME NEW i \in away
       PROVE  \E n \in N + 1 .. N + k : offsets'[n] = LossRow(i, d)
  <2>1. PICK j \in 1 .. k : q[j] = LossRow(i, d)
    BY <1>7, <1>8
  <2>2. N + j \in N + 1 .. N + k /\ (N + j) - N = j
    BY <1>4, <1>8
  <2> QED
    BY <1>12, <2>1, <2>2
<1>15. ASSUME NEW n \in N + 1 .. N + k, NEW m \in N + 1 .. N + k, offsets'[n] = offsets'[m]
       PROVE  n = m
  <2>1. n - N = m - N
    BY <1>8, <1>12, <1>15
  <2> QED
    BY <1>4, <1>8, <2>1
<1> QED
  BY <1>4, <1>8, <1>10, <1>11, <1>13, <1>14, <1>15 DEF N

\* A lost dispute books its loss and touches only items of its order.
LEMMA LossFacts ==
    ASSUME Typed, NEW h \in Hooks, DisputeLost(h)
    PROVE  LET d == dh[h].e[2]
               away == dh[h].away
           IN
           /\ d \in Disputes /\ DisputedOrder[d] \in Orders /\ away \in SUBSET Items
           /\ away \subseteq ItemsOf(DisputedOrder[d])
           /\ dh[h].at = "read" /\ dh[h].e = <<"lost", d>> /\ dh' = [dh EXCEPT ![h].at = "done"]
           /\ PostChargebackLoss(d, away)
           /\ UNCHANGED <<refundedTotal, refunded, due, refunds, account, prefunds, case, acked,
                          rq, sw, rel, faults, reserve, paid>>
           /\ status' \in [Orders -> Statuses]
           /\ chargeback' \in [Disputes -> {"none", "evidence_required", "won", "lost"}]
<1> DEFINE d == dh[h].e[2]
           away == dh[h].away
<1>1. dh[h].at = "read" /\ dh[h].e[1] = "lost" /\ dh' = [dh EXCEPT ![h].at = "done"]
  BY DEF DisputeLost
<1>2. /\ d \in Disputes /\ DisputedOrder[d] \in Orders /\ away \in SUBSET Items
      /\ away \subseteq ItemsOf(DisputedOrder[d]) /\ dh[h].e \in Events
  BY <1>1, TypedDh
<1>3. dh[h].e = <<"lost", d>>
  BY <1>1, <1>2 DEF Events
<1>4. PostChargebackLoss(d, away)
  BY DEF DisputeLost
<1>5. UNCHANGED <<refundedTotal, refunded, due, refunds, account, prefunds, case, acked,
                  rq, sw, rel, faults, reserve, paid>>
  BY DEF DisputeLost, PostChargebackLoss, outside
<1>6. status' \in [Orders -> Statuses]
  <2>1. MoveIfThere(DisputedOrder[d], "disputed", "chargeback_lost")
    BY DEF DisputeLost
  <2> QED
    BY <1>2, <2>1 DEF MoveIfThere, Statuses, Typed, TypeOK
<1>7. chargeback' \in [Disputes -> {"none", "evidence_required", "won", "lost"}]
  <2>1. Decide(d, "lost")
    BY DEF DisputeLost
  <2> QED
    BY <1>2, <2>1 DEF Decide, Typed, TypeOK
<1> QED
  BY <1>1, <1>2, <1>3, <1>4, <1>5, <1>6, <1>7

\* Sums of nets are integers.
LEMMA NetSums ==
    ASSUME NEW S \in SUBSET Items
    PROVE  IsFiniteSet(S) /\ (\A i \in S : Net[i] \in Int) /\ Sum(Net, S) \in Int
<1>1. IsFiniteSet(S) /\ \A i \in S : Net[i] \in Int
  BY FiniteAssumption, ItemsAssumption, FS_Subset
<1> QED
  BY <1>1, SumInt DEF Sum

\* What an order was sold for is a natural.
LEMMA OrderSums ==
    ASSUME NEW o \in Orders
    PROVE  GrandTotal(o) \in Nat /\ GrandTotals[o] = GrandTotal(o)
<1>1. IsFiniteSet(ItemsOf(o)) /\ ItemsOf(o) \in SUBSET Items
  BY FiniteAssumption, FS_Subset DEF ItemsOf
<1>2. \A i \in Items : Totals[i] \in Nat
  BY ItemsAssumption DEF Totals, Total
<1> QED
  BY <1>1, <1>2, SumNat DEF GrandTotal, GrandTotals, Sum

\* A lost dispute keeps the types: what it appends are open offsets.
LEMMA TypedLoss ==
    ASSUME Typed, NEW h \in Hooks, DisputeLost(h)
    PROVE  Typed'
<1> DEFINE d == dh[h].e[2]
           away == dh[h].away
           o == DisputedOrder[d]
<1>1. /\ d \in Disputes /\ o \in Orders /\ away \in SUBSET Items
      /\ dh[h].at = "read" /\ dh' = [dh EXCEPT ![h].at = "done"]
      /\ PostChargebackLoss(d, away)
      /\ UNCHANGED <<refundedTotal, refunded, due, refunds, account, prefunds, case, acked,
                     rq, sw, rel, faults, reserve, paid>>
      /\ status' \in [Orders -> Statuses]
      /\ chargeback' \in [Disputes -> {"none", "evidence_required", "won", "lost"}]
  BY LossFacts
<1> HIDE DEF d, away
<1>2. /\ dh' \in [Hooks -> Handlings]
      /\ \A g \in Hooks : dh'[g] # IdleHook =>
           dh'[g].away \subseteq ItemsOf(DisputedOrder[dh'[g].e[2]])
  <2>1. dh \in [Hooks -> Handlings] /\ dh[h] # IdleHook
    BY <1>1 DEF Typed, IdleHook
  <2>2. /\ [dh[h] EXCEPT !.at = "done"] \in Handlings
        /\ [dh[h] EXCEPT !.at = "done"].away = dh[h].away
        /\ [dh[h] EXCEPT !.at = "done"].e = dh[h].e
    BY <2>1 DEF Handlings
  <2> QED
    BY <1>1, <2>1, <2>2 DEF Typed
<1>3. /\ receivable' = receivable \/ receivable' = receivable + Sum(Net, away)
      /\ \/ payable' = payable
         \/ payable' = [s \in Sellers |-> payable[s]
                          - Sum(Net, {i \in ItemsOf(o) \ away : SellerOf[i] = s})]
      /\ clearing' = clearing \/ clearing' = clearing - GrandTotal(o)
      /\ transfer' = [i \in Items |-> IF i \in ItemsOf(o) \ away THEN "cancelled" ELSE transfer[i]]
  BY <1>1 DEF PostChargebackLoss
<1>4. replayed' \in BOOLEAN
  BY <1>1 DEF PostChargebackLoss, Typed, TypeOK
<1>5. receivable' \in Int /\ clearing' \in Int
  <2>1. Sum(Net, away) \in Int /\ GrandTotal(o) \in Int
    BY <1>1, NetSums, OrderSums
  <2> QED
    BY <1>3, <2>1 DEF Typed, TypeOK
<1>6. payable' \in [Sellers -> Int]
  <2>1. ASSUME NEW s \in Sellers
        PROVE  payable[s] - Sum(Net, {i \in ItemsOf(o) \ away : SellerOf[i] = s}) \in Int
    <3> DEFINE S == {i \in ItemsOf(o) \ away : SellerOf[i] = s}
    <3>1. S \in SUBSET Items
      BY DEF ItemsOf
    <3> HIDE DEF S
    <3>2. Sum(Net, S) \in Int /\ payable[s] \in Int
      BY <3>1, NetSums DEF Typed, TypeOK
    <3>3. payable[s] - Sum(Net, S) \in Int
      BY <3>2
    <3> QED
      BY <3>3 DEF S
  <2>2. payable \in [Sellers -> Int]
    BY DEF Typed, TypeOK
  <2> QED
    BY <1>3, <2>1, <2>2
<1>7. transfer' \in [Items -> {"on_hold", "processed", "cancelled"}]
  BY <1>3 DEF Typed, TypeOK
<1>8. /\ offsets' \in Seq(Offsets)
      /\ \A n \in DOMAIN offsets' : offsets'[n].applied <= offsets'[n].amount
  <2> DEFINE N == Len(offsets)
             M == Len(offsets')
  <2>1. /\ N \in Nat /\ M \in Nat /\ N <= M /\ offsets' \in Seq(Offsets)
        /\ DOMAIN offsets = 1 .. N /\ DOMAIN offsets' = 1 .. M
        /\ \A n \in 1 .. N : offsets'[n] = offsets[n]
        /\ \A n \in N + 1 .. M : \E i \in away : offsets'[n] = LossRow(i, d)
    BY <1>1, LossOffsets
  <2> HIDE DEF N, M
  <2>2. \A i \in away : LossRow(i, d).applied = 0 /\ LossRow(i, d).amount \in Nat
    BY <1>1, ItemsAssumption DEF LossRow
  <2>3. \A n \in N + 1 .. M : offsets'[n].applied <= offsets'[n].amount
    BY <2>1, <2>2
  <2>4. \A n \in 1 .. N : offsets'[n].applied <= offsets'[n].amount
    BY <2>1 DEF Typed
  <2> QED
    BY <2>1, <2>3, <2>4
<1> QED
  BY <1>1, <1>2, <1>4, <1>5, <1>6, <1>7, <1>8 DEF Typed, TypeOK

\* The type invariant is inductive.
LEMMA TypedStep == Typed /\ [Next]_vars => Typed'
<1> SUFFICES ASSUME Typed, [Next]_vars PROVE Typed'
  OBVIOUS
<1>1. CASE UNCHANGED vars
  BY <1>1 DEF Typed, TypeOK, vars, rows, ledger, outside, handlers
<1> QED
  BY <1>1, Steps, TypedQuiet, TypedWrite, TypedRelease, TypedLoss

\* Rows, accounts and what the provider says stay of their types, whatever refunds,
\* releases and disputes do to one another: the statuses and money_minor columns of
\* orders, payment_transfers, refunds and settlement_offsets take no other value.
THEOREM SettlementTyped == Spec => []TypeOK
<1>1. Typed => TypeOK
  BY DEF Typed
<1> QED
  BY <1>1, TypedInit, TypedStep, PTL DEF Spec

-----------------------------------------------------------------------------
(* The lock of a release *)

\* From its first read to its commit a release has the transfer to itself: it is still
\* on hold, and no refund and no other release has it.
ReleasesHold ==
  \A w \in Workers : rel[w].at = "begun" =>
    /\ transfer[rel[w].i] = "on_hold"
    /\ \A r \in Refunders : ~(rq[r].at = "asked" /\ rq[r].i = rel[w].i)
    /\ \A v \in Workers : Releasing(v, rel[w].i) => v = w

\* Nothing is being released when the orders are captured.
LEMMA ReleasesInit == Init => ReleasesHold
  BY DEF Init, ReleasesHold, NoRelease

\* A worker that had not begun a release, or drops it, has none to speak of.
LEMMA ReleasesFewer ==
    ASSUME Typed, ReleasesHold,
           \A w \in Workers : rel'[w].at = "begun" =>
             /\ rel'[w] = rel[w]
             /\ transfer'[rel[w].i] = transfer[rel[w].i]
             /\ \A r \in Refunders : rq'[r].at = "asked" /\ rq'[r].i = rel[w].i =>
                                       rq[r].at = "asked" /\ rq[r].i = rel[w].i
    PROVE  ReleasesHold'
  BY DEF ReleasesHold, Releasing

\* Quiet steps: the lock is taken only when it is free.
LEMMA ReleasesQuiet ==
    ASSUME Typed, ReleasesHold, QuietStep
    PROVE  ReleasesHold'
<1>0. UNCHANGED transfer /\ rel \in [Workers -> {NoRelease} \cup [at : {"begun"}, i : Items, seen : Nat]]
  BY QuietFrame DEF money, Typed, TypeOK
<1>1. ASSUME NEW w \in Workers, NEW i \in Items, ReleaseBegin(w, i) PROVE ReleasesHold'
  <2>1. /\ rq' = rq /\ ~Locked(i)
        /\ \/ rel' = rel
           \/ /\ transfer[i] = "on_hold"
              /\ rel' = [rel EXCEPT ![w] = [at |-> "begun", i |-> i, seen |-> Len(offsets)]]
    BY <1>1 DEF ReleaseBegin, StillHeld
  <2>2. CASE rel' = rel
    BY <1>0, <2>1, <2>2, ReleasesFewer
  <2>3. CASE rel' # rel
    <3>1. /\ transfer[i] = "on_hold" /\ rel'[w].at = "begun" /\ rel'[w].i = i
          /\ \A v \in Workers \ {w} : rel'[v] = rel[v]
      BY <1>0, <2>1, <2>3
    <3>2. /\ \A r \in Refunders : ~(rq[r].at = "asked" /\ rq[r].i = i)
          /\ \A v \in Workers : ~(rel[v].at = "begun" /\ rel[v].i = i)
      BY <2>1 DEF Locked, Releasing
    <3> QED
      BY <1>0, <2>1, <3>1, <3>2 DEF ReleasesHold, Releasing
  <2> QED
    BY <2>2, <2>3
<1>2. ASSUME NEW w \in Workers, ReleaseAbort(w) PROVE ReleasesHold'
  <2>1. rq' = rq /\ rel' = [rel EXCEPT ![w] = NoRelease]
    BY <1>2 DEF ReleaseAbort
  <2>2. \A v \in Workers : rel'[v].at = "begun" => rel'[v] = rel[v]
    BY <1>0, <2>1 DEF NoRelease
  <2> QED
    BY <1>0, <2>1, <2>2, ReleasesFewer
<1>3. ASSUME NEW r \in Refunders, RefundAsk(r) PROVE ReleasesHold'
  <2>1. /\ rel' = rel /\ ~Locked(rq[r].i) /\ rq[r] \in Requests /\ rq[r].at = "loaded"
        /\ rq' = [rq EXCEPT ![r].at = "asked"] \/ rq' = [rq EXCEPT ![r] = IdleRequest]
    BY <1>3 DEF RefundAsk, Typed
  <2>2. /\ \A q \in Refunders \ {r} : rq'[q] = rq[q]
        /\ rq'[r].at = "asked" => rq'[r].i = rq[r].i
    BY <2>1 DEF Typed, Requests, IdleRequest
  <2>3. \A w \in Workers : ~(rel[w].at = "begun" /\ rel[w].i = rq[r].i)
    BY <2>1 DEF Locked, Releasing
  <2>4. ASSUME NEW w \in Workers, rel[w].at = "begun", NEW q \in Refunders,
               rq'[q].at = "asked", rq'[q].i = rel[w].i
        PROVE  rq[q].at = "asked" /\ rq[q].i = rel[w].i
    BY <2>2, <2>3, <2>4
  <2> QED
    BY <1>0, <2>1, <2>4, ReleasesFewer
<1>4. ASSUME NEW r \in Refunders, rel' = rel, rq'[r].at # "asked",
             \A q \in Refunders \ {r} : rq'[q] = rq[q]
      PROVE  ReleasesHold'
  BY <1>0, <1>4, ReleasesFewer
<1>5. CASE \E r \in Refunders : RefundAbort(r)
  <2> PICK r \in Refunders : RefundAbort(r)
    BY <1>5
  <2> QED
    BY <1>4 DEF RefundAbort, Typed, IdleRequest
<1>6. CASE \E r \in Refunders, i \in Items : \E amount \in Amounts[i] : RefundLoad(r, i, amount)
  <2> PICK r \in Refunders, i \in Items : \E amount \in Amounts[i] : RefundLoad(r, i, amount)
    BY <1>6
  <2> QED
    BY <1>4 DEF RefundLoad, Typed
<1>7. ASSUME UNCHANGED <<rq, rel>> PROVE ReleasesHold'
  BY <1>0, <1>7, ReleasesFewer
<1>8. \/ \E w \in Workers, i \in Items : ReleaseBegin(w, i)
      \/ \E w \in Workers : ReleaseAbort(w)
      \/ \E r \in Refunders : RefundAsk(r) \/ RefundAbort(r)
      \/ \E r \in Refunders, i \in Items : \E amount \in Amounts[i] : RefundLoad(r, i, amount)
      \/ UNCHANGED <<rq, rel>>
  BY DEF QuietStep, HoldElapses, OnAccountStatus, NetworkDisputes, Scan, CompleteOrder,
         DisputeRead, DisputeCreated, DisputeWon, DisputeAck, DisputeCrash, handlers
<1> QED
  BY <1>1, <1>2, <1>3, <1>5, <1>6, <1>7, <1>8

\* The three that move money touch no transfer that another has locked.
LEMMA ReleasesStep == Typed /\ ReleasesHold /\ [Next]_vars => ReleasesHold'
<1> SUFFICES ASSUME Typed, ReleasesHold, [Next]_vars PROVE ReleasesHold'
  OBVIOUS
<1>0. /\ rel \in [Workers -> {NoRelease} \cup [at : {"begun"}, i : Items, seen : Nat]]
      /\ \A w \in Workers : rel[w].at = "begun" => rel[w].i \in Items
  BY DEF Typed, TypeOK, NoRelease
<1>1. CASE UNCHANGED vars
  BY <1>1, ReleasesFewer DEF vars, rows, handlers
<1>2. CASE \E r \in Refunders : RefundWrite(r)
  <2> PICK r \in Refunders : RefundWrite(r)
    BY <1>2
  <2>1. /\ rel' = rel /\ rq[r].at = "asked" /\ rq' = [rq EXCEPT ![r] = IdleRequest]
        /\ transfer' = transfer \/ transfer' = [transfer EXCEPT ![rq[r].i] = "cancelled"]
    BY WriteFacts DEF Commits, ReverseShare
  <2>2. \A w \in Workers : rel[w].at = "begun" => rel[w].i # rq[r].i
    BY <2>1 DEF ReleasesHold
  <2>3. \A w \in Workers : rel[w].at = "begun" => transfer'[rel[w].i] = transfer[rel[w].i]
    BY <1>0, <2>1, <2>2 DEF Typed, TypeOK
  <2>4. \A q \in Refunders : rq'[q].at = "asked" => rq'[q] = rq[q]
    BY <2>1 DEF Typed, IdleRequest
  <2> QED
    BY <2>1, <2>3, <2>4, ReleasesFewer
<1>3. CASE \E v \in Workers : ReleaseCommit(v)
  <2> PICK v \in Workers : ReleaseCommit(v)
    BY <1>3
  <2>1. /\ rq' = rq /\ rel[v].at = "begun" /\ rel' = [rel EXCEPT ![v] = NoRelease]
        /\ transfer' = [transfer EXCEPT ![rel[v].i] = "processed"]
    BY ReleaseFacts DEF Release
  <2>2. \A w \in Workers : rel'[w].at = "begun" => w # v /\ rel'[w] = rel[w]
    BY <1>0, <2>1 DEF NoRelease
  <2>3. \A w \in Workers \ {v} : rel[w].at = "begun" => rel[w].i # rel[v].i
    BY <2>1 DEF ReleasesHold, Releasing
  <2>4. \A w \in Workers \ {v} : rel[w].at = "begun" => transfer'[rel[w].i] = transfer[rel[w].i]
    BY <1>0, <2>1, <2>3 DEF Typed, TypeOK
  <2> QED
    BY <2>1, <2>2, <2>4, ReleasesFewer
<1>4. CASE \E h \in Hooks : DisputeLost(h)
  <2> PICK h \in Hooks : DisputeLost(h)
    BY <1>4
  <2> DEFINE o == DisputedOrder[dh[h].e[2]]
  <2>1. /\ rq' = rq /\ rel' = rel
        /\ \A i \in ItemsOf(o) : ~Locked(i)
    BY DEF DisputeLost
  <2>2. \A i \in Items : i \notin ItemsOf(o) => transfer'[i] = transfer[i]
    BY LossFacts DEF PostChargebackLoss
  <2>3. \A w \in Workers : rel[w].at = "begun" => rel[w].i \notin ItemsOf(o)
    BY <2>1 DEF Locked, Releasing
  <2> QED
    BY <1>0, <2>1, <2>2, <2>3, ReleasesFewer
<1> QED
  BY <1>1, <1>2, <1>3, <1>4, ReleasesQuiet, Steps

-----------------------------------------------------------------------------
(* Refunds add up *)

\* A request that has asked the provider holds the item's row alone, so what it was
\* told of the item's refunds is still true when it writes.
AskedIsCovered ==
  \A r \in Refunders : rq[r].at = "asked" =>
    /\ Covered(rq[r].i, rq[r].amount)
    /\ <<rq[r].i, rq[r].amount>> \in prefunds
    /\ \A q \in Refunders : rq[q].at = "asked" /\ rq[q].i = rq[r].i => q = r

\* The inductive invariant behind RefundsAddUp.
RefundsInv == Typed /\ RefundsAddUp /\ AskedIsCovered

\* The refund rows of an item come to a natural, and a row more adds its amount.
LEMMA RefundSums ==
    ASSUME NEW S, IsFiniteSet(S), S \subseteq Items \X Nat
    PROVE  /\ RefundAmount(S) \in Int
           /\ \A x \in (Items \X Nat) \ S : RefundAmount(S \cup {x}) = RefundAmount(S) + x[2]
<1> DEFINE A(T) == [x \in T |-> x[2]]
<1>1. \A x \in Items \X Nat : x[2] \in Int
  OBVIOUS
<1>2. RefundAmount(S) \in Int
  <2>1. \A x \in S : A(S)[x] \in Int
    BY <1>1
  <2> QED
    BY <2>1, SumInt DEF RefundAmount, Sum
<1>3. ASSUME NEW x \in (Items \X Nat) \ S
      PROVE  RefundAmount(S \cup {x}) = RefundAmount(S) + x[2]
  <2> DEFINE T == S \cup {x}
             g == A(T)
             f == A(S)
  <2>1. /\ \A y \in S : g[y] \in Int
        /\ g[x] \in Int /\ g[x] = x[2] /\ x \notin S
    BY <1>1
  <2>2. \A y \in S : f[y] = g[y]
    OBVIOUS
  <2>3. RefundAmount(T) = SumFunctionOnSet(g, T) /\ RefundAmount(S) = SumFunctionOnSet(f, S)
    BY DEF RefundAmount, Sum
  <2> HIDE DEF f, g
  <2>4. SumFunctionOnSet(g, S \cup {x}) = SumFunctionOnSet(g, S) + g[x]
    BY <2>1, SumAdd
  <2>5. SumFunctionOnSet(f, S) = SumFunctionOnSet(g, S)
    BY <2>1, <2>2, SumSame
  <2> QED
    BY <2>1, <2>3, <2>4, <2>5
<1> QED
  BY <1>2, <1>3

\* Nothing is refunded when the orders are captured.
LEMMA RefundsInit == Init => RefundsInv
<1> SUFFICES ASSUME Init PROVE RefundsInv
  OBVIOUS
<1>1. \A i : {x \in refunds : x[1] = i} = {}
  BY DEF Init
<1>2. RefundAmount({}) = 0
  BY SumEmpty DEF RefundAmount, Sum
<1>3. RefundsAddUp
  <2>1. \A i \in Items : refunded[i] = 0 /\ Total(i) \in Nat
    BY ItemsAssumption DEF Init, Total
  <2> QED
    BY <1>1, <1>2, <2>1 DEF RefundsAddUp, Init
<1>4. AskedIsCovered
  BY DEF Init, AskedIsCovered, IdleRequest
<1> QED
  BY <1>3, <1>4, TypedInit DEF RefundsInv

\* Only a request that finds the item unlocked is told anything.
LEMMA AskedQuiet ==
    ASSUME RefundsInv, QuietStep
    PROVE  AskedIsCovered' /\ prefunds \subseteq prefunds'
<1> USE DEF RefundsInv
<1>0. UNCHANGED refunded
  BY QuietFrame DEF money
<1>1. ASSUME NEW r \in Refunders, RefundAsk(r)
      PROVE  AskedIsCovered' /\ prefunds \subseteq prefunds'
  <2> DEFINE i == rq[r].i
             amount == rq[r].amount
  <2>1. rq[r].at = "loaded" /\ ~Locked(i) /\ rq \in [Refunders -> Requests]
    BY <1>1 DEF RefundAsk, Typed
  <2>2. CASE Covered(i, amount) /\ ProviderRefunds(i, amount)
    <3>1. prefunds' = prefunds \cup {<<i, amount>>} /\ rq' = [rq EXCEPT ![r].at = "asked"]
      BY <1>1, <2>2 DEF RefundAsk
    <3>2. rq'[r].at = "asked" /\ rq'[r].i = i /\ rq'[r].amount = amount
      <4>1. rq[r] # IdleRequest /\ rq[r] \in Requests
        BY <2>1 DEF IdleRequest
      <4> QED
        BY <4>1, <3>1, <2>1 DEF Requests
    <3>3. \A q \in Refunders \ {r} : rq'[q] = rq[q]
      BY <3>1, <2>1
    <3>4. Covered(i, amount)'
      BY <2>2, <1>0, <3>2 DEF Covered
    <3>5. \A q \in Refunders \ {r} : rq[q].at = "asked" => rq[q].i # i
      BY <2>1 DEF Locked
    <3>6. ASSUME NEW q \in Refunders \ {r}, rq'[q].at = "asked"
          PROVE  /\ Covered(rq[q].i, rq[q].amount)'
                 /\ <<rq'[q].i, rq'[q].amount>> \in prefunds'
                 /\ \A u \in Refunders : rq'[u].at = "asked" /\ rq'[u].i = rq'[q].i => u = q
      BY <1>0, <3>1, <3>2, <3>3, <3>5, <3>6 DEF AskedIsCovered, Covered
    <3>7. /\ Covered(rq[r].i, rq[r].amount)'
          /\ <<rq'[r].i, rq'[r].amount>> \in prefunds'
          /\ \A u \in Refunders : rq'[u].at = "asked" /\ rq'[u].i = rq'[r].i => u = r
      BY <1>0, <3>1, <3>2, <3>3, <3>4, <3>5 DEF Covered
    <3> QED
      BY <3>1, <3>6, <3>7 DEF AskedIsCovered
  <2>3. CASE ~(Covered(i, amount) /\ ProviderRefunds(i, amount))
    <3>1. prefunds' = prefunds /\ rq' = [rq EXCEPT ![r] = IdleRequest]
      BY <1>1, <2>3 DEF RefundAsk
    <3> QED
      BY <1>0, <2>1, <3>1 DEF AskedIsCovered, Covered, IdleRequest
  <2> QED
    BY <2>2, <2>3
<1>2. ASSUME NEW r \in Refunders, RefundAbort(r)
      PROVE  AskedIsCovered' /\ prefunds \subseteq prefunds'
  BY <1>0, <1>2 DEF RefundAbort, outside, AskedIsCovered, Covered, IdleRequest, Typed
<1>3. ASSUME NEW r \in Refunders, NEW i \in Items, NEW amount \in Amounts[i],
             RefundLoad(r, i, amount)
      PROVE  AskedIsCovered' /\ prefunds \subseteq prefunds'
  <2>1. /\ prefunds' = prefunds /\ rq'[r].at = "loaded"
        /\ \A q \in Refunders \ {r} : rq'[q] = rq[q]
    BY <1>3 DEF RefundLoad, outside, Typed
  <2> QED
    BY <1>0, <2>1 DEF AskedIsCovered, Covered
<1>4. ASSUME UNCHANGED <<rq, prefunds>> PROVE AskedIsCovered' /\ prefunds \subseteq prefunds'
  BY <1>0, <1>4, SMTT(20) DEF AskedIsCovered, Covered
<1>5. \/ \E r \in Refunders : RefundAsk(r) \/ RefundAbort(r)
      \/ \E r \in Refunders, i \in Items : \E amount \in Amounts[i] : RefundLoad(r, i, amount)
      \/ UNCHANGED <<rq, prefunds>>
  BY DEF QuietStep, HoldElapses, OnAccountStatus, NetworkDisputes, Scan, ReleaseBegin, ReleaseAbort,
         CompleteOrder, DisputeRead, DisputeCreated, DisputeWon, DisputeAck, DisputeCrash, outside, handlers
<1> QED
  BY <1>1, <1>2, <1>3, <1>4, <1>5

\* A write by the one request that holds the item keeps the sums equal.
LEMMA RefundsWritten ==
    ASSUME RefundsInv, NEW r \in Refunders, RefundWrite(r)
    PROVE  RefundsAddUp' /\ AskedIsCovered'
<1> USE DEF RefundsInv
<1> DEFINE i == rq[r].i
           amount == rq[r].amount
<1>1. /\ rq[r].at = "asked" /\ rq' = [rq EXCEPT ![r] = IdleRequest] /\ prefunds' = prefunds
      /\ i \in Items /\ amount \in Nat \ {0}
      /\ UNCHANGED <<refunds, refunded>> \/ Commits(r)
  BY WriteFacts
<1>2. /\ Covered(i, amount) /\ <<i, amount>> \in prefunds
      /\ \A q \in Refunders : rq[q].at = "asked" /\ rq[q].i = i => q = r
  BY <1>1 DEF AskedIsCovered
<1>3. /\ rq'[r].at = "idle"
      /\ \A q \in Refunders \ {r} : rq'[q] = rq[q]
  BY <1>1 DEF Typed, IdleRequest
<1>4. CASE UNCHANGED <<refunds, refunded>>
  <2>1. RefundsAddUp'
    BY <1>1, <1>4 DEF RefundsAddUp
  <2>2. \A q \in Refunders : rq'[q].at = "asked" => rq[q].at = "asked" /\ rq'[q] = rq[q]
    BY <1>3
  <2>3. AskedIsCovered'
    BY <1>1, <1>4, <2>2 DEF AskedIsCovered, Covered
  <2> QED
    BY <2>1, <2>3
<1>5. CASE Commits(r)
  <2>1. /\ <<i, amount>> \notin refunds /\ refunds' = refunds \cup {<<i, amount>>}
        /\ refunded' = [refunded EXCEPT ![i] = @ + amount]
        /\ refunded \in [Items -> Nat] /\ refunds \subseteq Items \X Nat
        /\ IsFiniteSet(refunds)
    BY <1>5 DEF Commits, Typed, TypeOK
  <2> DEFINE Of(S, j) == {x \in S : x[1] = j}
             new == <<i, amount>>
  <2>2. Of(refunds', i) = Of(refunds, i) \cup {new} /\ new \notin Of(refunds, i)
    BY <2>1
  <2>3. \A j \in Items \ {i} : Of(refunds', j) = Of(refunds, j)
    BY <2>1
  <2>4. /\ IsFiniteSet(Of(refunds, i)) /\ Of(refunds, i) \subseteq Items \X Nat
        /\ new \in Items \X Nat /\ new[2] = amount
    BY <2>1, <1>1, FS_Subset
  <2>5. refunded[i] = RefundAmount(Of(refunds, i))
    BY <1>1 DEF RefundsAddUp
  <2>6. refunded'[i] = refunded[i] + amount
    BY <1>1, <2>1
  <2>8. \A j \in Items \ {i} : refunded'[j] = refunded[j]
    BY <1>1, <2>1
  <2>9. \A j \in Items : refunded[j] = RefundAmount(Of(refunds, j)) /\ refunded[j] <= Total(j)
    BY DEF RefundsAddUp
  <2> HIDE DEF new, Of
  <2>10. RefundAmount(Of(refunds', i)) = RefundAmount(Of(refunds, i)) + amount
    BY <2>2, <2>4, RefundSums
  <2>11. ASSUME NEW j \in Items
         PROVE  refunded'[j] = RefundAmount(Of(refunds', j)) /\ refunded'[j] <= Total(j)
    <3>1. CASE j = i
      BY <3>1, <2>5, <2>6, <2>10, <1>2 DEF Covered
    <3>2. CASE j # i
      BY <3>2, <2>3, <2>8, <2>9
    <3> QED
      BY <3>1, <3>2
  <2>12. refunds' \subseteq prefunds'
    BY <2>1, <1>1, <1>2 DEF RefundsAddUp
  <2>13. RefundsAddUp'
    BY <2>11, <2>12 DEF RefundsAddUp, Of
  <2>14. ASSUME NEW q \in Refunders, rq'[q].at = "asked"
         PROVE  /\ Covered(rq[q].i, rq[q].amount)'
                /\ <<rq'[q].i, rq'[q].amount>> \in prefunds'
                /\ \A u \in Refunders : rq'[u].at = "asked" /\ rq'[u].i = rq'[q].i => u = q
    <3>1. q # r /\ rq'[q] = rq[q] /\ rq[q].at = "asked"
      BY <1>3, <2>14
    <3>2. rq[q].i \in Items /\ rq[q].i # i
      BY <3>1, <1>2, TypedRq
    <3>3. refunded'[rq[q].i] = refunded[rq[q].i]
      BY <3>2, <2>8
    <3> QED
      BY <3>1, <3>3, <1>1, <1>3 DEF AskedIsCovered, Covered
  <2> QED
    BY <2>13, <2>14 DEF AskedIsCovered
<1> QED
  BY <1>1, <1>4, <1>5

\* RefundsInv is inductive.
LEMMA RefundsStep == RefundsInv /\ [Next]_vars => RefundsInv'
<1> SUFFICES ASSUME RefundsInv, [Next]_vars PROVE RefundsInv'
  OBVIOUS
<1>1. Typed'
  BY TypedStep DEF RefundsInv
<1>2. CASE QuietStep
  <2>1. AskedIsCovered' /\ prefunds \subseteq prefunds'
    BY <1>2, AskedQuiet
  <2>2. UNCHANGED <<refunds, refunded>>
    BY <1>2, QuietFrame DEF money
  <2>3. RefundsAddUp'
    BY <2>1, <2>2 DEF RefundsInv, RefundsAddUp
  <2> QED
    BY <1>1, <2>1, <2>3 DEF RefundsInv
<1>3. CASE \E r \in Refunders : RefundWrite(r)
  BY <1>1, <1>3, RefundsWritten DEF RefundsInv
<1>4. ASSUME UNCHANGED <<refunds, refunded, rq, prefunds>> PROVE RefundsInv'
  BY <1>1, <1>4 DEF RefundsInv, RefundsAddUp, AskedIsCovered, Covered
<1>5. CASE \E w \in Workers : ReleaseCommit(w)
  BY <1>4, <1>5, ReleaseFacts DEF RefundsInv
<1>6. CASE \E h \in Hooks : DisputeLost(h)
  BY <1>4, <1>6, LossFacts DEF RefundsInv
<1>7. CASE UNCHANGED vars
  BY <1>4, <1>7 DEF vars, rows, outside, handlers
<1> QED
  BY <1>2, <1>3, <1>5, <1>6, <1>7, Steps

\* Racing, retried and refused refunds of an item: the item's total is what its refund
\* rows say, never more than was paid for it, and every row is money the provider gave
\* back (refund.go:93-100 checks under the item's lock what refund.go:165 writes).
THEOREM RefundsAlwaysAddUp == Spec => []RefundsAddUp
<1>1. RefundsInv => RefundsAddUp
  BY DEF RefundsInv
<1> QED
  BY <1>1, RefundsInit, RefundsStep, PTL DEF Spec

-----------------------------------------------------------------------------
(* Lost disputes *)

\* The loss is in the journal, and each line's transfer is cancelled or owed for.
Recovered(d) ==
  /\ <<"chargeback", d>> \in keys
  /\ \A i \in ItemsOf(DisputedOrder[d]) :
       transfer[i] = "cancelled" \/ \E n \in DOMAIN offsets : offsets[n].item = i

\* What is about to be acknowledged is recovered already.
LossesInv ==
  /\ Typed /\ ReleasesHold
  /\ \A d \in Disputes :
       \/ <<"lost", d>> \in acked
       \/ \E h \in Hooks : dh[h].at = "done" /\ dh[h].e = <<"lost", d>>
       => Recovered(d)

\* What is recovered stays recovered: offsets keep their item, cancelled transfers stay cancelled.
LEMMA StaysRecovered ==
    ASSUME Typed, ReleasesHold, [Next]_vars, NEW d \in Disputes, Recovered(d)
    PROVE  Recovered(d)'
<1>0. \A i \in ItemsOf(DisputedOrder[d]) : i \in Items
  BY DEF ItemsOf
<1>1. ASSUME UNCHANGED <<keys, transfer, offsets>> PROVE Recovered(d)'
  BY <1>1 DEF Recovered
<1>2. CASE QuietStep
  BY <1>1, <1>2, QuietFrame DEF money, ledger
<1>3. CASE UNCHANGED vars
  BY <1>1, <1>3 DEF vars, rows, ledger
<1>4. ASSUME keys \subseteq keys',
             \A i \in Items : transfer[i] = "cancelled" => transfer'[i] = "cancelled",
             \A n \in DOMAIN offsets : n \in DOMAIN offsets' /\ offsets'[n].item = offsets[n].item
      PROVE  Recovered(d)'
  BY <1>0, <1>4 DEF Recovered
<1>5. CASE \E r \in Refunders : RefundWrite(r)
  <2> PICK r \in Refunders : RefundWrite(r)
    BY <1>5
  <2>1. CASE UNCHANGED <<refunds, refunded, transfer, offsets, payable, receivable, clearing>>
    BY <1>1, <2>1, WriteFacts
  <2>2. CASE Commits(r)
    <3>1. \A i \in Items : transfer[i] = "cancelled" => transfer'[i] = "cancelled"
      BY <2>2, WriteFacts DEF Commits, ReverseShare, Typed, TypeOK
    <3>2. \A n \in DOMAIN offsets : n \in DOMAIN offsets' /\ offsets'[n] = offsets[n]
      <4>1. offsets \in Seq(Offsets)
        BY DEF Typed, TypeOK
      <4> DEFINE row == [item |-> rq[r].i, dispute |-> "refund",
                         amount |-> RecoveredShare(rq[r].i, rq[r].amount), applied |-> 0]
      <4>2. offsets' = offsets \/ offsets' = Append(offsets, row)
        BY <2>2 DEF Commits, ReverseShare
      <4> HIDE DEF row
      <4> QED
        BY <4>1, <4>2
    <3>3. keys' = keys
      BY WriteFacts
    <3> QED
      BY <1>4, <3>1, <3>2, <3>3
  <2> QED
    BY <2>1, <2>2, WriteFacts
<1>6. CASE \E w \in Workers : ReleaseCommit(w)
  <2> PICK w \in Workers : ReleaseCommit(w)
    BY <1>6
  <2> DEFINE i == rel[w].i
             seen == rel[w].seen
  <2>1. /\ i \in Items /\ seen \in Nat /\ Release(i, seen)
        /\ transfer[i] = "on_hold"
    BY ReleaseFacts DEF ReleasesHold
  <2> HIDE DEF i, seen
  <2>2. \A j \in Items : transfer[j] = "cancelled" => transfer'[j] = "cancelled"
    <3>1. transfer' = [transfer EXCEPT ![i] = "processed"]
      BY <2>1 DEF Release
    <3>2. transfer \in [Items -> {"on_hold", "processed", "cancelled"}]
      BY DEF Typed, TypeOK
    <3> QED
      BY <2>1, <3>1, <3>2
  <2>3. keys \subseteq keys'
    BY <2>1 DEF Release
  <2> QED
    <3>1. \A n \in DOMAIN offsets : n \in DOMAIN offsets' /\ offsets'[n].item = offsets[n].item
      BY <2>1, ReleasedOffsets
    <3> QED
      BY <1>4, <2>2, <2>3, <3>1
<1>7. CASE \E h \in Hooks : DisputeLost(h)
  <2> PICK h \in Hooks : DisputeLost(h)
    BY <1>7
  <2> DEFINE c == dh[h].e[2]
             away == dh[h].away
  <2>1. c \in Disputes /\ away \in SUBSET Items /\ PostChargebackLoss(c, away)
    BY LossFacts
  <2>2. keys \subseteq keys' /\ \A i \in Items : transfer[i] = "cancelled" => transfer'[i] = "cancelled"
    BY <2>1 DEF PostChargebackLoss
  <2>3. \A n \in DOMAIN offsets : n \in DOMAIN offsets' /\ offsets'[n] = offsets[n]
    <3> HIDE DEF c, away
    <3>1. /\ Len(offsets) \in Nat /\ Len(offsets') \in Nat /\ Len(offsets) <= Len(offsets')
          /\ DOMAIN offsets = 1 .. Len(offsets) /\ DOMAIN offsets' = 1 .. Len(offsets')
          /\ \A n \in 1 .. Len(offsets) : offsets'[n] = offsets[n]
      BY <2>1, LossOffsets
    <3> QED
      BY <3>1
  <2> QED
    BY <1>4, <2>2, <2>3
<1> QED
  BY <1>2, <1>3, <1>5, <1>6, <1>7, Steps

\* The handler of a loss leaves every line of the order recovered.
LEMMA LossIsRecovered ==
    ASSUME Typed, NEW h \in Hooks, DisputeLost(h)
    PROVE  Recovered(dh[h].e[2])'
<1> DEFINE d == dh[h].e[2]
           away == dh[h].away
<1>1. d \in Disputes /\ away \in SUBSET Items /\ PostChargebackLoss(d, away)
  BY LossFacts
<1> HIDE DEF d, away
<1>2. <<"chargeback", d>> \in keys'
  BY <1>1 DEF PostChargebackLoss
<1>3. ASSUME NEW i \in ItemsOf(DisputedOrder[d]), i \notin away PROVE transfer'[i] = "cancelled"
  BY <1>1, <1>3 DEF PostChargebackLoss, ItemsOf
<1>4. ASSUME NEW i \in away PROVE \E n \in DOMAIN offsets' : offsets'[n].item = i
  <2>1. PICK n \in Len(offsets) + 1 .. Len(offsets') : offsets'[n] = LossRow(i, d)
    BY <1>1, LossOffsets
  <2>2. n \in DOMAIN offsets'
    BY <1>1, LossOffsets
  <2> QED
    BY <2>1, <2>2 DEF LossRow
<1>5. /\ <<"chargeback", d>> \in keys'
      /\ \A i \in ItemsOf(DisputedOrder[d]) :
           transfer'[i] = "cancelled" \/ \E n \in DOMAIN offsets' : offsets'[n].item = i
  BY <1>2, <1>3, <1>4
<1>6. d' = d
  <2>1. dh[h] \in Handlings /\ dh[h] # IdleHook /\ dh' = [dh EXCEPT ![h].at = "done"]
        /\ dh \in [Hooks -> Handlings]
    BY LossFacts DEF Typed, IdleHook
  <2> QED
    BY <2>1 DEF d, Handlings
<1> QED
  BY <1>5, <1>6 DEF Recovered, d

\* Nothing is disputed when the orders are captured.
LEMMA LossesInit == Init => LossesInv
  BY TypedInit, ReleasesInit DEF Init, LossesInv, IdleHook

\* LossesInv is inductive.
LEMMA LossesStep == LossesInv /\ [Next]_vars => LossesInv'
<1> SUFFICES ASSUME LossesInv, [Next]_vars PROVE LossesInv'
  OBVIOUS
<1> USE DEF LossesInv
<1>1. Typed' /\ ReleasesHold'
  BY TypedStep, ReleasesStep
<1> SUFFICES ASSUME NEW d \in Disputes,
                    \/ <<"lost", d>> \in acked'
                    \/ \E h \in Hooks : dh'[h].at = "done" /\ dh'[h].e = <<"lost", d>>
             PROVE  Recovered(d)'
  BY <1>1
<1>2. ASSUME UNCHANGED <<acked, dh>> PROVE Recovered(d)'
  BY <1>2, StaysRecovered
<1>3. CASE UNCHANGED vars
  BY <1>2, <1>3 DEF vars, outside, handlers
<1>4. CASE \E r \in Refunders : RefundWrite(r)
  BY <1>2, <1>4, WriteFacts
<1>5. CASE \E w \in Workers : ReleaseCommit(w)
  BY <1>2, <1>5, ReleaseFacts
<1>6. CASE \E h \in Hooks : DisputeLost(h)
  <2> PICK h \in Hooks : DisputeLost(h)
    BY <1>6
  <2>1. acked' = acked /\ dh' = [dh EXCEPT ![h].at = "done"] /\ dh[h].e = <<"lost", dh[h].e[2]>>
    BY LossFacts
  <2>2. CASE d = dh[h].e[2]
    <3>1. Recovered(dh[h].e[2])'
      BY LossIsRecovered
    <3>2. dh'[h].e = dh[h].e
      <4>1. dh[h] \in Handlings /\ dh[h] # IdleHook /\ dh \in [Hooks -> Handlings]
        BY LossFacts DEF Typed, IdleHook
      <4> QED
        BY <2>1, <4>1 DEF Handlings
    <3> QED
      BY <2>2, <3>1, <3>2
  <2>3. CASE d # dh[h].e[2]
    <3>1. \A g \in Hooks : dh'[g].at = "done" /\ dh'[g].e = <<"lost", d>> =>
                            dh[g].at = "done" /\ dh[g].e = <<"lost", d>>
      <4>1. dh[h] \in Handlings /\ dh[h] # IdleHook /\ dh \in [Hooks -> Handlings]
        BY LossFacts DEF Typed, IdleHook
      <4>2. dh'[h].e = dh[h].e /\ dh[h].e # <<"lost", d>>
        BY <2>1, <2>3, <4>1 DEF Handlings
      <4> QED
        BY <2>1, <4>1, <4>2
    <3> QED
      BY <2>1, <3>1, StaysRecovered
  <2> QED
    BY <2>2, <2>3
<1>7. CASE QuietStep
  <2>1. ASSUME NEW h \in Hooks, DisputeAck(h) PROVE Recovered(d)'
    <3>1. dh[h].at = "done" /\ acked' = acked \cup {dh[h].e} /\ dh' = [dh EXCEPT ![h] = IdleHook]
      BY <2>1 DEF DisputeAck, Handled
    <3> QED
      BY <3>1, StaysRecovered DEF Typed, IdleHook
  <2>2. ASSUME NEW h \in Hooks, DisputeCreated(h) \/ DisputeWon(h) PROVE Recovered(d)'
    <3>1. /\ dh[h].at = "read" /\ dh[h].e[1] # "lost" /\ acked' = acked
          /\ dh' = [dh EXCEPT ![h] = IdleHook] \/ dh' = [dh EXCEPT ![h].at = "done"]
      BY <2>2 DEF DisputeCreated, DisputeWon, outside
    <3>2. dh[h] \in Handlings /\ dh[h] # IdleHook /\ dh \in [Hooks -> Handlings]
      BY <3>1 DEF Typed, IdleHook
    <3>3. dh'[h].at = "done" => dh'[h].e = dh[h].e
      BY <3>1, <3>2 DEF Handlings, IdleHook
    <3>4. dh'[h].at = "done" => dh'[h].e # <<"lost", d>>
      BY <3>1, <3>3
    <3>5. \A g \in Hooks \ {h} : dh'[g] = dh[g]
      BY <3>1, <3>2
    <3> QED
      BY <3>1, <3>4, <3>5, StaysRecovered
  <2>3. ASSUME NEW h \in Hooks, DisputeCrash(h) PROVE Recovered(d)'
    <3>1. acked' = acked /\ dh' = [dh EXCEPT ![h] = IdleHook]
      BY <2>3 DEF DisputeCrash, outside
    <3> QED
      BY <3>1, StaysRecovered DEF Typed, IdleHook
  <2>4. ASSUME NEW h \in Hooks, NEW e \in Events, DisputeRead(h, e) PROVE Recovered(d)'
    <3>1. acked' = acked /\ dh'[h].at = "read" /\ \A g \in Hooks \ {h} : dh'[g] = dh[g]
      BY <2>4 DEF DisputeRead, outside, Typed
    <3> QED
      BY <3>1, StaysRecovered
  <2>5. \/ \E h \in Hooks : DisputeAck(h) \/ DisputeCreated(h) \/ DisputeWon(h) \/ DisputeCrash(h)
        \/ \E h \in Hooks, e \in Events : DisputeRead(h, e)
        \/ UNCHANGED <<acked, dh>>
    BY <1>7 DEF QuietStep, HoldElapses, OnAccountStatus, NetworkDisputes, Scan, ReleaseBegin,
                ReleaseAbort, CompleteOrder, RefundLoad, RefundAsk, RefundAbort, outside, handlers
  <2> QED
    BY <1>2, <2>1, <2>2, <2>3, <2>4, <2>5
<1> QED
  BY <1>3, <1>4, <1>5, <1>6, <1>7, Steps

\* Whatever a lost dispute overlaps (refunds, releases, repeated and crashed webhooks),
\* once it is acknowledged the loss is in the journal and each line of the order is
\* cancelled or owed by its seller (postChargebackLoss, webhook.go:460-577).
THEOREM AcknowledgedLossesAreBooked == Spec => []AcknowledgedLossIsBooked
<1>1. LossesInv => AcknowledgedLossIsBooked
  BY DEF LossesInv, AcknowledgedLossIsBooked, Recovered
<1> QED
  BY <1>1, LossesInit, LossesStep, PTL DEF Spec

-----------------------------------------------------------------------------
(* The clearing account *)

\* What each lost dispute took, by its key in the journal.
LostTotals == [d \in Disputes |->
                IF <<"chargeback", d>> \in keys THEN GrandTotal(DisputedOrder[d]) ELSE 0]

\* ClearingIsExplained, with its local definition named.
ClearingIs == clearing = Sum(GrandTotals, Orders) - RefundAmount(refunds) - Sum(paid, Items)
                         - Sum(LostTotals, Disputes)

\* The three sums that explain the account are integers.
LEMMA ClearingInts ==
    ASSUME Typed
    PROVE  /\ Sum(GrandTotals, Orders) \in Int /\ RefundAmount(refunds) \in Int
           /\ Sum(paid, Items) \in Int /\ Sum(LostTotals, Disputes) \in Int
           /\ clearing \in Int
           /\ \A d \in Disputes : LostTotals[d] \in Int
<1>1. \A o \in Orders : GrandTotals[o] \in Int
  BY OrderSums
<1>2. \A d \in Disputes : LostTotals[d] \in Int
  <2>1. \A d \in Disputes : GrandTotal(DisputedOrder[d]) \in Int
    BY OrderSums, DisputesAssumption
  <2> QED
    BY <2>1 DEF LostTotals
<1>3. /\ \A i \in Items : paid[i] \in Int
      /\ refunds \subseteq Items \X Nat /\ IsFiniteSet(refunds) /\ clearing \in Int
  BY DEF Typed, TypeOK
<1>4. Sum(GrandTotals, Orders) \in Int
  BY <1>1, FiniteAssumption, SumInt DEF Sum
<1>5. Sum(paid, Items) \in Int
  BY <1>3, FiniteAssumption, SumInt DEF Sum
<1>6. Sum(LostTotals, Disputes) \in Int
  BY <1>2, FiniteAssumption, SumInt DEF Sum
<1>7. RefundAmount(refunds) \in Int
  BY <1>3, RefundSums
<1> QED
  BY <1>2, <1>3, <1>4, <1>5, <1>6, <1>7

\* Everything captured is in the account at first.
LEMMA ClearingInit == Init => ClearingIs
<1> SUFFICES ASSUME Init PROVE ClearingIs
  OBVIOUS
<1>1. Sum(paid, Items) = 0
  <2>1. \A i \in Items : paid[i] = 0
    BY DEF Init
  <2> QED
    BY <2>1, FiniteAssumption, SumZero DEF Sum
<1>2. Sum(LostTotals, Disputes) = 0
  <2>1. \A d \in Disputes : LostTotals[d] = 0
    BY DEF Init, LostTotals
  <2> QED
    BY <2>1, FiniteAssumption, SumZero DEF Sum
<1>3. RefundAmount(refunds) = 0
  BY SumEmpty DEF Init, RefundAmount, Sum
<1>4. clearing = Sum(GrandTotals, Orders) /\ clearing \in Int
  BY TypedInit, ClearingInts DEF Init
<1> QED
  BY <1>1, <1>2, <1>3, <1>4 DEF ClearingIs

\* Each entry to the account has its row: a refund, a payout, or the key of a loss.
LEMMA ClearingStep == Typed /\ ClearingIs /\ [Next]_vars => ClearingIs'
<1> SUFFICES ASSUME Typed, ClearingIs, [Next]_vars PROVE ClearingIs'
  OBVIOUS
<1>0. Typed'
  BY TypedStep
<1>1. ASSUME UNCHANGED <<clearing, refunds, paid, keys>> PROVE ClearingIs'
  BY <1>1 DEF ClearingIs, LostTotals
<1>2. CASE UNCHANGED vars
  BY <1>1, <1>2 DEF vars, rows, ledger
<1>3. CASE QuietStep
  BY <1>1, <1>3, QuietFrame DEF money, ledger
<1>4. CASE \E r \in Refunders : RefundWrite(r)
  <2> PICK r \in Refunders : RefundWrite(r)
    BY <1>4
  <2> DEFINE x == <<rq[r].i, rq[r].amount>>
  <2>1. CASE UNCHANGED <<refunds, refunded, transfer, offsets, payable, receivable, clearing>>
    BY <1>1, <2>1, WriteFacts
  <2>2. CASE Commits(r)
    <3>1. /\ x \notin refunds /\ refunds' = refunds \cup {x} /\ clearing' = clearing - rq[r].amount
          /\ rq[r].i \in Items /\ rq[r].amount \in Nat
      BY <2>2, WriteFacts DEF Commits, ReverseShare
    <3>2. x \in (Items \X Nat) \ refunds /\ x[2] = rq[r].amount
      BY <3>1
    <3>3. IsFiniteSet(refunds) /\ refunds \subseteq Items \X Nat
      BY DEF Typed, TypeOK
    <3> HIDE DEF x
    <3>4. RefundAmount(refunds') = RefundAmount(refunds) + rq[r].amount
      BY <3>1, <3>2, <3>3, RefundSums
    <3>5. UNCHANGED <<paid, keys>>
      BY WriteFacts
    <3>6. Sum(paid', Items) = Sum(paid, Items) /\ Sum(LostTotals', Disputes) = Sum(LostTotals, Disputes)
      BY <3>5 DEF LostTotals
    <3>7. ClearingIs' <=> clearing' = Sum(GrandTotals, Orders) - RefundAmount(refunds')
                                      - Sum(paid', Items) - Sum(LostTotals', Disputes)
      BY DEF ClearingIs
    <3> QED
      BY <3>1, <3>4, <3>6, <3>7, ClearingInts DEF ClearingIs
  <2> QED
    BY <2>1, <2>2, WriteFacts
<1>5. CASE \E w \in Workers : ReleaseCommit(w)
  <2> PICK w \in Workers : ReleaseCommit(w)
    BY <1>5
  <2> DEFINE i == rel[w].i
             seen == rel[w].seen
  <2>1. /\ i \in Items /\ seen \in Nat /\ Release(i, seen)
        /\ UNCHANGED refunds
    BY ReleaseFacts
  <2> HIDE DEF i, seen
  <2> DEFINE net == Available(i) - Sum(Takes(i, seen), Taken(i, seen))
  <2>2. /\ clearing' = clearing - net /\ paid' = [paid EXCEPT ![i] = @ + net]
        /\ keys' = keys \cup {Key(n, Takes(i, seen)[n]) : n \in Taken(i, seen)}
    BY <2>1 DEF Release
  <2>3. net \in Int
    <3>1. 0 \in Nat
      OBVIOUS
    <3>2. Available(i) \in Nat /\ Sum(Takes(i, seen), Taken(i, seen)) \in Nat
      BY <2>1, <3>1, Amounting, TakesFacts
    <3> QED
      BY <3>2
  <2> HIDE DEF net
  <2>4. LostTotals' = LostTotals
    <3>1. \A n, a : Key(n, a)[1] = "offset"
      BY DEF Key
    <3>2. \A d : <<"chargeback", d>>[1] = "chargeback"
      OBVIOUS
    <3>3. \A d : <<"chargeback", d>> \in keys' <=> <<"chargeback", d>> \in keys
      BY <2>2, <3>1, <3>2
    <3> QED
      BY <3>3 DEF LostTotals
  <2>5. Sum(paid', Items) = Sum(paid, Items) + net
    <3>1. /\ \A j \in Items : paid[j] \in Int
          /\ paid'[i] = paid[i] + net /\ paid'[i] \in Int
          /\ \A j \in Items \ {i} : paid'[j] = paid[j]
      BY <2>1, <2>2, <2>3 DEF Typed, TypeOK
    <3>2. Sum(paid', Items) = Sum(paid, Items) + paid'[i] - paid[i]
      BY <2>1, <3>1, FiniteAssumption, SumUpdate DEF Sum
    <3> QED
      BY <2>1, <3>1, <3>2, <2>3, ClearingInts
  <2>6. refunds' = refunds
    BY ReleaseFacts
  <2>7. ClearingIs' <=> clearing' = Sum(GrandTotals, Orders) - RefundAmount(refunds')
                                    - Sum(paid', Items) - Sum(LostTotals', Disputes)
    BY DEF ClearingIs
  <2> QED
    BY <2>2, <2>3, <2>4, <2>5, <2>6, <2>7, ClearingInts DEF ClearingIs
<1>6. CASE \E h \in Hooks : DisputeLost(h)
  <2> PICK h \in Hooks : DisputeLost(h)
    BY <1>6
  <2> DEFINE d == dh[h].e[2]
             away == dh[h].away
             o == DisputedOrder[d]
  <2>1. d \in Disputes /\ o \in Orders /\ PostChargebackLoss(d, away) /\ UNCHANGED <<refunds, paid>>
    BY LossFacts
  <2> HIDE DEF d, away
  <2>2. keys' = keys \cup {<<"chargeback", d>>}
    BY <2>1 DEF PostChargebackLoss
  <2>3. CASE LossBooked(d)
    <3>1. keys' = keys /\ clearing' = clearing
      BY <2>1, <2>2, <2>3 DEF PostChargebackLoss, LossBooked
    <3> QED
      BY <1>1, <2>1, <3>1
  <2>4. CASE ~LossBooked(d)
    <3>1. clearing' = clearing - GrandTotal(o)
      BY <2>1, <2>4 DEF PostChargebackLoss
    <3>2. /\ LostTotals[d] = 0 /\ LostTotals'[d] = GrandTotal(o)
          /\ \A c \in Disputes \ {d} : LostTotals'[c] = LostTotals[c]
      <4>1. <<"chargeback", d>> \notin keys
        BY <2>4 DEF LossBooked
      <4>2. \A c : c # d => <<"chargeback", c>> # <<"chargeback", d>>
        OBVIOUS
      <4> QED
        BY <2>1, <2>2, <4>1, <4>2 DEF LostTotals
    <3>3. GrandTotal(o) \in Int
      BY <2>1, OrderSums
    <3>4. Sum(LostTotals', Disputes) = Sum(LostTotals, Disputes) + GrandTotal(o)
      <4>1. (\A c \in Disputes : LostTotals[c] \in Int) /\ Sum(LostTotals, Disputes) \in Int
        BY ClearingInts
      <4>2. Sum(LostTotals', Disputes) = Sum(LostTotals, Disputes) + LostTotals'[d] - LostTotals[d]
        BY <2>1, <3>2, <3>3, <4>1, FiniteAssumption, SumUpdate DEF Sum
      <4> QED
        BY <3>2, <3>3, <4>1, <4>2
    <3>5. ClearingIs' <=> clearing' = Sum(GrandTotals, Orders) - RefundAmount(refunds')
                                      - Sum(paid', Items) - Sum(LostTotals', Disputes)
      BY DEF ClearingIs
    <3> QED
      BY <2>1, <3>1, <3>3, <3>4, <3>5, ClearingInts DEF ClearingIs
  <2> QED
    BY <2>3, <2>4
<1> QED
  BY <1>2, <1>3, <1>4, <1>5, <1>6, Steps

\* Through refunds, releases, netting and repeated losses, the clearing account is what
\* was captured less the refund rows, what settlements paid and each lost dispute once.
THEOREM ClearingAlwaysExplained == Spec => []ClearingIsExplained
<1>1. ClearingIs => ClearingIsExplained
  BY DEF ClearingIs, ClearingIsExplained, LostTotals
<1> QED
  BY <1>1, TypedInit, TypedStep, ClearingInit, ClearingStep, PTL DEF Spec

-----------------------------------------------------------------------------
(* The offset account *)

\* Its first part, which is inductive together with Typed.
ReceivableIs == ~replayed => receivable = Sum(Outstanding, DOMAIN offsets)

\* No row is netted too far, and rows are found by their place.
LEMMA OutstandingNat ==
    ASSUME Typed
    PROVE  /\ IsFiniteSet(DOMAIN offsets) /\ DOMAIN Outstanding = DOMAIN offsets
           /\ \A n \in DOMAIN offsets : Outstanding[n] \in Nat
           /\ Sum(Outstanding, DOMAIN offsets) \in Int /\ receivable \in Int
<1>1. Len(offsets) \in Nat /\ DOMAIN offsets = 1 .. Len(offsets) /\ offsets \in Seq(Offsets)
  BY DEF Typed, TypeOK
<1>2. IsFiniteSet(DOMAIN offsets)
  <2>1. 1 \in Int /\ Len(offsets) \in Int
    BY <1>1
  <2> QED
    BY <1>1, <2>1, FS_Interval
<1>3. \A n \in DOMAIN offsets : Outstanding[n] \in Nat
  <2>1. \A n \in DOMAIN offsets : offsets[n] \in Offsets /\ offsets[n].applied <= offsets[n].amount
    BY <1>1 DEF Typed
  <2> QED
    BY <2>1 DEF Outstanding, Offsets
<1>4. \A n \in DOMAIN offsets : Outstanding[n] \in Int
  BY <1>3
<1>5. Sum(Outstanding, DOMAIN offsets) \in Int
  BY <1>2, <1>4, SumInt DEF Sum
<1> QED
  BY <1>2, <1>3, <1>5 DEF Outstanding, Typed, TypeOK

\* A row appended: the sum grows by what it is for.
LEMMA OutstandingAppended ==
    ASSUME Typed, NEW row \in Offsets, row.applied = 0, offsets' = Append(offsets, row)
    PROVE  Sum(Outstanding', DOMAIN offsets') = Sum(Outstanding, DOMAIN offsets) + row.amount
<1> DEFINE N == Len(offsets)
           D == DOMAIN offsets
           f == Outstanding'
           g == Outstanding
<1>1. /\ offsets \in Seq(Offsets) /\ N \in Nat /\ D = 1 .. N
  BY DEF Typed, TypeOK
<1>2. /\ offsets' \in Seq(Offsets) /\ Len(offsets') = N + 1
      /\ \A n \in 1 .. N : offsets'[n] = offsets[n]
      /\ offsets'[N + 1] = row
  BY <1>1, AppendProperties
<1>3. DOMAIN offsets' = D \cup {N + 1} /\ N + 1 \notin D
  BY <1>1, <1>2
<1>4. /\ \A n \in D : f[n] = g[n]
      /\ f[N + 1] = row.amount /\ row.amount \in Int
  BY <1>1, <1>2, <1>3 DEF Outstanding, Offsets
<1>5. IsFiniteSet(D) /\ \A n \in D : g[n] \in Int
  BY OutstandingNat
<1>6. \A n \in D : f[n] \in Int
  BY <1>4, <1>5
<1> HIDE DEF D, f, g, N
<1> DEFINE m == N + 1
<1>7. SumFunctionOnSet(f, D \cup {m}) = SumFunctionOnSet(f, D) + f[m]
  <2>1. m \notin D /\ f[m] \in Int
    BY <1>3, <1>4
  <2> HIDE DEF m
  <2> QED
    BY <2>1, <1>5, <1>6, SumAdd
<1>8. SumFunctionOnSet(f, D) = SumFunctionOnSet(g, D)
  BY <1>4, <1>5, SumSame
<1> QED
  BY <1>3, <1>4, <1>7, <1>8 DEF Sum, D, f, g

\* A settlement: the sum shrinks by what is taken.
LEMMA OutstandingReleased ==
    ASSUME Typed, NEW i \in Items, NEW seen \in Nat, Release(i, seen)
    PROVE  Sum(Outstanding', DOMAIN offsets')
             = Sum(Outstanding, DOMAIN offsets) - Sum(Takes(i, seen), Taken(i, seen))
<1> DEFINE D == DOMAIN offsets
           K == Taken(i, seen)
           T == Takes(i, seen)
           f == Outstanding'
           g == Outstanding
           u == [n \in D |-> IF n \in K THEN T[n] ELSE 0]
<1>1. /\ IsFiniteSet(D) /\ K \in SUBSET D /\ IsFiniteSet(K) /\ \A n \in K : T[n] \in Int
  BY TakesFacts
<1>2. \A n \in D : g[n] \in Int
  BY OutstandingNat
<1>3. \A n \in D : f[n] \in Int /\ u[n] \in Int /\ g[n] = f[n] + u[n]
  <2>1. /\ DOMAIN offsets' = D
        /\ \A n \in D : /\ offsets[n] \in Offsets
                        /\ offsets'[n].amount = offsets[n].amount
                        /\ offsets'[n].applied = offsets[n].applied + u[n]
    <3>1. /\ DOMAIN offsets' = D
          /\ \A n \in D : /\ offsets'[n].amount = offsets[n].amount
                          /\ offsets'[n].applied = offsets[n].applied + (IF n \in K THEN T[n] ELSE 0)
      BY ReleasedOffsets
    <3>2. \A n \in D : offsets[n] \in Offsets
      BY DEF Typed, TypeOK
    <3>3. \A n \in D : u[n] = IF n \in K THEN T[n] ELSE 0
      OBVIOUS
    <3> QED
      BY <3>1, <3>2, <3>3
  <2>2. \A n \in D : offsets[n].amount \in Int /\ offsets[n].applied \in Int
    BY <2>1 DEF Offsets
  <2>3. \A n \in D : u[n] \in Int
    BY <1>1
  <2> HIDE DEF u
  <2> QED
    BY <2>1, <2>2, <2>3 DEF Outstanding
<1>4. \A n \in D : u[n] = IF n \in K THEN T[n] ELSE 0
  OBVIOUS
<1>5. DOMAIN offsets' = D
  BY ReleasedOffsets
<1> HIDE DEF D, K, T, f, g, u
<1>6. SumFunctionOnSet(g, D) = SumFunctionOnSet(f, D) + SumFunctionOnSet(u, D)
  BY <1>1, <1>3, SumPlus
<1>7. SumFunctionOnSet(u, D) = SumFunctionOnSet(T, K)
  BY <1>1, <1>4, SumWithin
<1>8. SumFunctionOnSet(f, D) \in Int /\ SumFunctionOnSet(T, K) \in Int
  BY <1>1, <1>3, SumInt
<1>9. SumFunctionOnSet(f, D) = SumFunctionOnSet(g, D) - SumFunctionOnSet(T, K)
  BY <1>6, <1>7, <1>8
<1> QED
  BY <1>5, <1>9 DEF Sum, D, K, T, f, g

\* A lost dispute: the sum grows by the net of what had been paid out.
LEMMA OutstandingLost ==
    ASSUME Typed, Typed', NEW d \in Disputes, NEW away \in SUBSET Items, PostChargebackLoss(d, away)
    PROVE  Sum(Outstanding', DOMAIN offsets') = Sum(Outstanding, DOMAIN offsets) + Sum(Net, away)
<1> DEFINE N == Len(offsets)
           M == Len(offsets')
           D == DOMAIN offsets
           E == DOMAIN offsets'
           R == N + 1 .. M
           f == Outstanding'
           g == Outstanding
           b == [n \in R |-> offsets'[n].item]
<1>1. /\ N \in Nat /\ M \in Nat /\ N <= M
      /\ D = 1 .. N /\ E = 1 .. M
      /\ \A n \in 1 .. N : offsets'[n] = offsets[n]
      /\ \A n \in R : \E i \in away : offsets'[n] = LossRow(i, d)
      /\ \A i \in away : \E n \in R : offsets'[n] = LossRow(i, d)
      /\ \A n, m \in R : offsets'[n] = offsets'[m] => n = m
  BY LossOffsets
<1>2. IsFiniteSet(E) /\ (\A n \in E : f[n] \in Int) /\ DOMAIN f = E
  <2>1. /\ IsFiniteSet(DOMAIN offsets')
        /\ \A n \in DOMAIN offsets' : (Outstanding')[n] \in Nat
        /\ DOMAIN Outstanding' = DOMAIN offsets'
    <3>1. Len(offsets') \in Nat /\ DOMAIN offsets' = 1 .. Len(offsets')
      BY <1>1
    <3>2. IsFiniteSet(DOMAIN offsets')
      <4>1. 1 \in Int /\ M \in Int
        BY <1>1
      <4> QED
        BY <3>1, <4>1, FS_Interval
    <3>3. offsets' \in Seq(Offsets) /\ \A n \in DOMAIN offsets' : offsets'[n].applied <= offsets'[n].amount
      BY DEF Typed, TypeOK
    <3>4. \A n \in DOMAIN offsets' : offsets'[n] \in Offsets
      BY <3>1, <3>3
    <3>5. \A n \in DOMAIN offsets' : (Outstanding')[n] \in Nat
      BY <3>3, <3>4 DEF Outstanding, Offsets
    <3> QED
      BY <3>2, <3>5 DEF Outstanding
  <2> QED
    BY <2>1
<1>3. R = E \ D /\ D \in SUBSET E /\ R \in SUBSET E
  BY <1>1
<1>4. \A n \in D : f[n] = g[n] /\ g[n] \in Int
  <2>1. \A n \in D : f[n] = g[n]
    BY <1>1 DEF Outstanding
  <2> QED
    BY <2>1, <1>2, <1>3
<1>5. ASSUME NEW n \in R
      PROVE  b[n] \in away /\ f[n] = Net[b[n]] /\ offsets'[n] = LossRow(b[n], d)
  <2>1. PICK i \in away : offsets'[n] = LossRow(i, d)
    BY <1>1
  <2>2. b[n] = i /\ offsets'[n].amount = Net[i] /\ offsets'[n].applied = 0
    BY <2>1 DEF LossRow
  <2>3. Net[i] \in Nat
    BY ItemsAssumption
  <2>4. n \in DOMAIN offsets'
    BY <1>3
  <2>5. f[n] = offsets'[n].amount - offsets'[n].applied
    BY <2>4 DEF Outstanding
  <2> QED
    BY <2>1, <2>2, <2>3, <2>5
<1>6. ASSUME NEW i \in away PROVE \E n \in R : b[n] = i
  <2>1. PICK n \in R : offsets'[n] = LossRow(i, d)
    BY <1>1
  <2> QED
    BY <2>1 DEF LossRow
<1>7. \A n \in R : \A m \in R : b[n] = b[m] => n = m
  BY <1>1, <1>5
<1>8. {b[n] : n \in R} = away
  BY <1>5, <1>6
<1> HIDE DEF b, f, g, D, E, R, N, M
<1>9. IsFiniteSet(D) /\ IsFiniteSet(R) /\ \A n \in R : f[n] \in Int
  BY <1>2, <1>3, FS_Subset
<1>10. SumFunctionOnSet(f, E) = SumFunctionOnSet(f, D) + SumFunctionOnSet(f, R)
  BY <1>2, <1>3, SumSplit
<1>11. SumFunctionOnSet(f, D) = SumFunctionOnSet(g, D)
  BY <1>4, <1>9, SumSame
<1>12. SumFunctionOnSet(f, R) = SumFunctionOnSet(Net, {b[n] : n \in R})
  BY <1>5, <1>7, <1>9, SumRename
<1> QED
  BY <1>8, <1>10, <1>11, <1>12 DEF Sum, D, E, f, g

\* Nobody owes anything at first.
LEMMA ReceivableInit == Init => ReceivableIs
  BY SumEmpty DEF Init, ReceivableIs, Sum

\* Each entry to the account has its rows, until a posting is replayed.
LEMMA ReceivableStep == Typed /\ ReceivableIs /\ [Next]_vars => ReceivableIs'
<1> SUFFICES ASSUME Typed, ReceivableIs, [Next]_vars, ~replayed'
             PROVE  receivable' = Sum(Outstanding', DOMAIN offsets')
  BY DEF ReceivableIs
<1>0. Typed'
  BY TypedStep
<1>1. ASSUME UNCHANGED <<receivable, offsets, replayed>>
      PROVE  receivable' = Sum(Outstanding', DOMAIN offsets')
  BY <1>1 DEF ReceivableIs, Outstanding
<1>2. CASE UNCHANGED vars
  BY <1>1, <1>2 DEF vars, rows, ledger
<1>3. CASE QuietStep
  BY <1>1, <1>3, QuietFrame DEF money, ledger
<1>4. CASE \E r \in Refunders : RefundWrite(r)
  <2> PICK r \in Refunders : RefundWrite(r)
    BY <1>4
  <2> DEFINE i == rq[r].i
             amount == rq[r].amount
             share == SellerShare(i, amount)
             row == [item |-> i, dispute |-> "refund", amount |-> RecoveredShare(i, amount),
                     applied |-> 0]
  <2>0. replayed' = replayed /\ i \in Items /\ amount \in Nat
    BY WriteFacts
  <2>1. CASE UNCHANGED <<refunds, refunded, transfer, offsets, payable, receivable, clearing>>
    BY <1>1, <2>0, <2>1
  <2>2. CASE Commits(r)
    <3>1. \/ UNCHANGED <<receivable, offsets>>
          \/ /\ receivable' = receivable + share
             /\ offsets' = IF share = 0 THEN offsets ELSE Append(offsets, row)
      BY <2>2 DEF Commits, ReverseShare
    <3>2. share \in Nat /\ RecoveredShare(i, amount) = share /\ receivable \in Int
      BY <2>0, Amounting DEF RecoveredShare, Typed, TypeOK
    <3>3. CASE UNCHANGED <<receivable, offsets>>
      BY <1>1, <2>0, <3>3
    <3>4. CASE receivable' = receivable + share /\ share = 0 /\ offsets' = offsets
      BY <1>1, <2>0, <3>2, <3>4
    <3>5. CASE receivable' = receivable + share /\ offsets' = Append(offsets, row)
      <4>1. row \in Offsets /\ row.applied = 0 /\ row.amount = share
        BY <2>0, <3>2 DEF Offsets
      <4> HIDE DEF row, share
      <4>2. Sum(Outstanding', DOMAIN offsets') = Sum(Outstanding, DOMAIN offsets) + share
        BY <3>5, <4>1, OutstandingAppended
      <4> QED
        BY <2>0, <3>5, <4>2 DEF ReceivableIs
    <3> QED
      BY <3>1, <3>3, <3>4, <3>5
  <2> QED
    BY <2>1, <2>2, WriteFacts
<1>5. CASE \E w \in Workers : ReleaseCommit(w)
  <2> PICK w \in Workers : ReleaseCommit(w)
    BY <1>5
  <2> DEFINE i == rel[w].i
             seen == rel[w].seen
  <2>1. /\ i \in Items /\ seen \in Nat /\ Release(i, seen)
        /\ UNCHANGED refunds
    BY ReleaseFacts
  <2> HIDE DEF i, seen
  <2>2. /\ receivable' = receivable - Sum(Takes(i, seen), Booked(i, seen))
        /\ replayed' = (replayed \/ Booked(i, seen) # Taken(i, seen))
    BY <2>1 DEF Release
  <2>3. ~replayed /\ Booked(i, seen) = Taken(i, seen)
    BY <2>2
  <2> QED
    BY <2>1, <2>2, <2>3, OutstandingReleased DEF ReceivableIs
<1>6. CASE \E h \in Hooks : DisputeLost(h)
  <2> PICK h \in Hooks : DisputeLost(h)
    BY <1>6
  <2> DEFINE d == dh[h].e[2]
             away == dh[h].away
  <2>1. d \in Disputes /\ away \in SUBSET Items /\ PostChargebackLoss(d, away)
    BY LossFacts
  <2> HIDE DEF d, away
  <2>2. ~replayed /\ ~LossBooked(d)
    BY <2>1 DEF PostChargebackLoss
  <2>3. receivable' = receivable + Sum(Net, away)
    BY <2>1, <2>2 DEF PostChargebackLoss
  <2>4. Sum(Outstanding', DOMAIN offsets') = Sum(Outstanding, DOMAIN offsets) + Sum(Net, away)
    BY <1>0, <2>1, OutstandingLost
  <2> QED
    BY <2>2, <2>3, <2>4 DEF ReceivableIs
<1> QED
  BY <1>2, <1>3, <1>4, <1>5, <1>6, Steps

\* Until a posting is answered by the journal while its rows are written again, the
\* offset account holds what the settlement_offsets rows say is still to be recovered,
\* and no row is ever netted for more than it is for (applyOffsets, settlement.go:258-348).
THEOREM ReceivableAlwaysMatches == Spec => []ReceivableMatchesOffsets
<1>1. Typed /\ ReceivableIs => ReceivableMatchesOffsets
  <2>1. Typed => \A n \in DOMAIN offsets : Outstanding[n] >= 0
    <3> SUFFICES ASSUME Typed, NEW n \in DOMAIN offsets PROVE Outstanding[n] >= 0
      OBVIOUS
    <3>1. Outstanding[n] \in Nat
      BY OutstandingNat
    <3> QED
      BY <3>1
  <2> QED
    BY <2>1 DEF ReceivableIs, ReceivableMatchesOffsets
<1> QED
  BY <1>1, TypedInit, TypedStep, ReceivableInit, ReceivableStep, PTL DEF Spec

-----------------------------------------------------------------------------
(* What a settlement pays *)

\* A settlement that pays its seller anything empties every offset of the seller that was
\* there when it read them, whatever their number and amounts and whatever other
\* releases took from them before it commits (applyOffsets, settlement.go:258-348).
THEOREM OffsetsAlwaysFirst == Spec => OffsetsFirst
<1> DEFINE Cleared == \A w \in Workers, i \in Items :
                        Releasing(w, i) /\ paid'[i] > paid[i] =>
                          \A n \in OffsetsOf(SellerOf[i], rel[w].seen) :
                            offsets'[n].applied = offsets'[n].amount
<1>1. Typed /\ ReleasesHold /\ [Next]_vars => [Cleared]_vars
  <2> SUFFICES ASSUME Typed, ReleasesHold, [Next]_vars, NEW w \in Workers, NEW i \in Items,
                      Releasing(w, i), paid'[i] > paid[i],
                      NEW n \in OffsetsOf(SellerOf[i], rel[w].seen)
               PROVE  offsets'[n].applied = offsets'[n].amount
    OBVIOUS
  <2>0. paid \in [Items -> Nat]
    BY DEF Typed, TypeOK
  <2>1. ASSUME UNCHANGED paid PROVE FALSE
    BY <2>0, <2>1
  <2>2. ~QuietStep /\ ~UNCHANGED vars
    BY <2>1, QuietFrame DEF money, ledger, vars
  <2>3. ~ \E r \in Refunders : RefundWrite(r)
    BY <2>1, WriteFacts
  <2>4. ~ \E h \in Hooks : DisputeLost(h)
    BY <2>1, LossFacts
  <2>5. PICK v \in Workers : ReleaseCommit(v)
    BY <2>2, <2>3, <2>4, Steps
  <2> DEFINE j == rel[v].i
             seen == rel[v].seen
  <2>6. j \in Items /\ seen \in Nat /\ Release(j, seen) /\ rel[v].at = "begun"
    BY <2>5, ReleaseFacts
  <2>7. j = i => v = w
    BY <2>6 DEF ReleasesHold, Releasing
  <2> HIDE DEF j, seen
  <2> DEFINE net == Available(j) - Sum(Takes(j, seen), Taken(j, seen))
  <2>8. paid' = [paid EXCEPT ![j] = @ + net]
    BY <2>6 DEF Release
  <2>9. Available(j) \in Nat /\ Sum(Takes(j, seen), Taken(j, seen)) \in Nat
    <3>1. 0 \in Nat
      OBVIOUS
    <3> QED
      BY <2>6, <3>1, Amounting, TakesFacts
  <2>10. i = j /\ Sum(Takes(j, seen), Taken(j, seen)) < Available(j)
    BY <2>0, <2>6, <2>8, <2>9
  <2>11. n \in OffsetsOf(SellerOf[j], seen)
    BY <2>7, <2>10 DEF seen
  <2>12. /\ n \in DOMAIN offsets /\ offsets'[n].amount = offsets[n].amount
         /\ offsets'[n].applied = offsets[n].applied
                                    + (IF n \in Taken(j, seen) THEN Takes(j, seen)[n] ELSE 0)
    <3>1. n \in DOMAIN offsets
      BY <2>11 DEF OffsetsOf
    <3> QED
      BY <2>6, <3>1, ReleasedOffsets
  <2>13. Takes(j, seen)[n] = Outstanding[n] /\ (n \notin Taken(j, seen) => Takes(j, seen)[n] = 0)
    BY <2>6, <2>10, <2>11, TakesFacts
  <2>14. offsets[n].amount \in Nat /\ offsets[n].applied \in Nat
    <3>1. offsets[n] \in Offsets
      BY <2>12 DEF Typed, TypeOK
    <3> QED
      BY <3>1 DEF Offsets
  <2> QED
    BY <2>12, <2>13, <2>14 DEF Outstanding
<1> QED
  BY <1>1, TypedInit, TypedStep, ReleasesInit, ReleasesStep, PTL DEF Spec, OffsetsFirst

-----------------------------------------------------------------------------
(* The payable accounts *)

ItemsOfSeller(s) == {i \in Items : SellerOf[i] = s}

\* A transfer that is still on hold is whole: a refund of its item would have
\* cancelled it.
HeldIsWhole == \A i \in Items : transfer[i] = "on_hold" => \A x \in refunds : x[1] # i

\* No loss was booked.
NoLoss == \A d \in Disputes : <<"chargeback", d>> \notin keys

\* Accounts that hold what the sellers' items are owed.
Balances(p, f) == \A s \in Sellers : p[s] = Sum(f, ItemsOfSeller(s))

\* PayableMatchesTransfers, in those terms.
PayableIs == ~replayed /\ NoLoss => Balances(payable, Owed)

\* RefundedShare and Owed of given rows.
RowsOf(R, i)  == {x \in R : x[1] = i}
ShareIn(R, i) == Sum([x \in RowsOf(R, i) |-> SellerShare(x[1], x[2])], RowsOf(R, i))
OwedIn(R, t)  == [i \in Items |-> CASE t[i] = "on_hold"   -> Net[i]
                                    [] t[i] = "cancelled" -> Net[i] - ShareIn(R, i)
                                    [] t[i] = "processed" -> 0]

\* Owed is the function of the rows, in this state and in the next one.
LEMMA OwedIs == Owed = OwedIn(refunds, transfer) /\ Owed' = OwedIn(refunds', transfer')
BY DEF Owed, OwedIn, RefundedShare, ShareIn, RowsOf

\* What refunds rows are when the invariant Typed holds.
RefundRows(R)  == IsFiniteSet(R) /\ R \subseteq Items \X Nat
Transfers(t)   == t \in [Items -> {"on_hold", "processed", "cancelled"}]

\* The shares of an item's refunds, none without refunds.
LEMMA ShareSums ==
    ASSUME NEW R, RefundRows(R), NEW i \in Items
    PROVE  /\ ShareIn(R, i) \in Int
           /\ (\A x \in R : x[1] # i) => ShareIn(R, i) = 0
<1> DEFINE S == RowsOf(R, i)
           g == [x \in S |-> SellerShare(x[1], x[2])]
<1>1. IsFiniteSet(S) /\ \A x \in S : x[1] = i /\ x[2] \in Nat
  BY FS_Subset DEF RefundRows, RowsOf
<1>2. \A x \in S : g[x] \in Int
  <2>1. \A x \in S : SellerShare(x[1], x[2]) \in Nat
    BY <1>1, Amounting
  <2> QED
    BY <2>1
<1>3. ShareIn(R, i) = SumFunctionOnSet(g, S)
  BY DEF ShareIn, Sum
<1>4. (\A x \in R : x[1] # i) => S = {}
  BY DEF RowsOf
<1> HIDE DEF S, g
<1>5. ShareIn(R, i) \in Int
  BY <1>1, <1>2, <1>3, SumInt
<1>6. S = {} => ShareIn(R, i) = 0
  BY <1>3, SumEmpty
<1> QED
  BY <1>4, <1>5, <1>6

\* A refund row more adds its own share to its item and nothing to any other.
LEMMA ShareGrows ==
    ASSUME NEW R, RefundRows(R), NEW i \in Items, NEW a \in Nat, <<i, a>> \notin R
    PROVE  /\ ShareIn(R \cup {<<i, a>>}, i) = ShareIn(R, i) + SellerShare(i, a)
           /\ \A j \in Items \ {i} : ShareIn(R \cup {<<i, a>>}, j) = ShareIn(R, j)
<1> DEFINE x == <<i, a>>
           S == RowsOf(R, i)
           T == RowsOf(R \cup {x}, i)
           f == [y \in S |-> SellerShare(y[1], y[2])]
           g == [y \in T |-> SellerShare(y[1], y[2])]
<1>1. T = S \cup {x} /\ x \notin S
  BY DEF RowsOf
<1>2. IsFiniteSet(S) /\ \A y \in S : y[1] \in Items /\ y[2] \in Nat
  BY FS_Subset DEF RefundRows, RowsOf
<1>3. \A y \in S : SellerShare(y[1], y[2]) \in Nat
  BY <1>2, Amounting
<1>4. SellerShare(i, a) \in Nat
  BY Amounting
<1>5. \A y \in S : f[y] \in Int /\ g[y] \in Int /\ f[y] = g[y]
  BY <1>1, <1>3
<1>6. g[x] = SellerShare(i, a) /\ g[x] \in Int
  BY <1>1, <1>4
<1>7. ShareIn(R, i) = SumFunctionOnSet(f, S) /\ ShareIn(R \cup {x}, i) = SumFunctionOnSet(g, T)
  BY DEF ShareIn, Sum
<1>8. ASSUME NEW j \in Items \ {i} PROVE ShareIn(R \cup {x}, j) = ShareIn(R, j)
  <2>1. RowsOf(R \cup {x}, j) = RowsOf(R, j)
    BY DEF RowsOf
  <2> HIDE DEF x
  <2> QED
    BY <2>1 DEF ShareIn
<1> HIDE DEF f, g, S, T, x
<1>9. SumFunctionOnSet(g, S \cup {x}) = SumFunctionOnSet(g, S) + g[x]
  <2>1. \A y \in S : g[y] \in Int
    BY <1>5
  <2> QED
    BY <1>1, <1>2, <1>6, <2>1, SumAdd
<1>10. SumFunctionOnSet(f, S) = SumFunctionOnSet(g, S)
  BY <1>2, <1>5, SumSame
<1>11. ShareIn(R \cup {x}, i) = ShareIn(R, i) + SellerShare(i, a)
  BY <1>1, <1>6, <1>7, <1>9, <1>10
<1> QED
  BY <1>8, <1>11 DEF x

\* What is owed is an integer.
LEMMA OwedInts ==
    ASSUME NEW R, RefundRows(R), NEW t, Transfers(t)
    PROVE  \A j \in Items : OwedIn(R, t)[j] \in Int
<1> SUFFICES ASSUME NEW j \in Items PROVE OwedIn(R, t)[j] \in Int
  OBVIOUS
<1>1. Net[j] \in Int /\ t[j] \in {"on_hold", "processed", "cancelled"}
  BY ItemsAssumption DEF Transfers
<1>2. ShareIn(R, j) \in Int
  BY ShareSums
<1> QED
  BY <1>1, <1>2 DEF OwedIn

\* One item owed less, and its seller's account debited by as much.
Debited(f, g, p, q, i, c) ==
  /\ i \in Items /\ c \in Int
  /\ \A j \in Items : f[j] \in Int
  /\ g[i] = f[i] - c
  /\ \A j \in Items \ {i} : g[j] = f[j]
  /\ p \in [Sellers -> Int]
  /\ q = [p EXCEPT ![SellerOf[i]] = @ - c]

LEMMA PayableMoves ==
    ASSUME NEW f, NEW g, NEW p, NEW q, NEW i, NEW c, Debited(f, g, p, q, i, c), Balances(p, f)
    PROVE  Balances(q, g)
<1>0. /\ i \in Items /\ c \in Int /\ \A j \in Items : f[j] \in Int
      /\ g[i] = f[i] - c /\ \A j \in Items \ {i} : g[j] = f[j]
      /\ p \in [Sellers -> Int] /\ q = [p EXCEPT ![SellerOf[i]] = @ - c]
  BY DEF Debited
<1> SUFFICES ASSUME NEW s \in Sellers PROVE q[s] = Sum(g, ItemsOfSeller(s))
  BY DEF Balances
<1> DEFINE S == ItemsOfSeller(s)
<1>1. IsFiniteSet(S) /\ S \in SUBSET Items /\ (i \in S <=> s = SellerOf[i])
  BY <1>0, FiniteAssumption, FS_Subset DEF ItemsOfSeller
<1>2. p[s] = SumFunctionOnSet(f, S) /\ p[s] \in Int
  BY <1>0 DEF Sum, Balances
<1> HIDE DEF S
<1>3. CASE s = SellerOf[i]
  <2>1. i \in S /\ f[i] \in Int /\ g[i] \in Int /\ g[i] = f[i] - c
    BY <1>0, <1>1, <1>3
  <2>2. SumFunctionOnSet(g, S) = SumFunctionOnSet(f, S) + g[i] - f[i]
    <3>1. /\ \A y \in S : f[y] \in Int
          /\ \A y \in S \ {i} : g[y] = f[y]
      BY <1>0, <1>1
    <3> QED
      BY <1>1, <2>1, <3>1, SumUpdate
  <2>3. q[s] = p[s] - c
    BY <1>0, <1>3
  <2>4. SumFunctionOnSet(f, S) \in Int
    BY <1>2
  <2>5. q[s] = SumFunctionOnSet(g, S)
    BY <1>0, <1>2, <2>1, <2>2, <2>3, <2>4
  <2> QED
    BY <2>5 DEF S, Sum
<1>4. CASE s # SellerOf[i]
  <2>1. \A j \in S : f[j] \in Int /\ g[j] = f[j]
    BY <1>0, <1>1, <1>4
  <2>2. SumFunctionOnSet(g, S) = SumFunctionOnSet(f, S)
    BY <1>1, <2>1, SumSame
  <2>3. q[s] = p[s]
    BY <1>0, <1>4
  <2>4. q[s] = SumFunctionOnSet(g, S)
    BY <1>2, <2>2, <2>3
  <2> QED
    BY <2>4 DEF S, Sum
<1> QED
  BY <1>3, <1>4

\* Items that are owed as before leave the accounts as they are.
LEMMA PayableStays ==
    ASSUME NEW f, NEW g, NEW p, Balances(p, f),
           \A j \in Items : f[j] \in Int, \A j \in Items : g[j] = f[j]
    PROVE  Balances(p, g)
<1> SUFFICES ASSUME NEW s \in Sellers PROVE p[s] = Sum(g, ItemsOfSeller(s))
  BY DEF Balances
<1>1. IsFiniteSet(ItemsOfSeller(s)) /\ ItemsOfSeller(s) \subseteq Items
  BY FiniteAssumption, FS_Subset DEF ItemsOfSeller
<1>2. \A j \in ItemsOfSeller(s) : f[j] \in Int /\ g[j] = f[j]
  BY <1>1
<1>3. SumFunctionOnSet(g, ItemsOfSeller(s)) = SumFunctionOnSet(f, ItemsOfSeller(s))
  BY <1>1, <1>2, SumSame
<1> QED
  BY <1>3 DEF Sum, Balances

\* A refund cancels a transfer that is held, and nothing puts it on hold again.
LEMMA HeldStep == Typed /\ HeldIsWhole /\ [Next]_vars => HeldIsWhole'
<1> SUFFICES ASSUME Typed, HeldIsWhole, [Next]_vars PROVE HeldIsWhole'
  OBVIOUS
<1>1. ASSUME UNCHANGED refunds,
             \A i \in Items : transfer'[i] = "on_hold" => transfer[i] = "on_hold"
      PROVE  HeldIsWhole'
  BY <1>1 DEF HeldIsWhole
<1>2. CASE UNCHANGED vars
  BY <1>1, <1>2 DEF vars, rows
<1>3. CASE QuietStep
  BY <1>1, <1>3, QuietFrame DEF money
<1>4. CASE \E r \in Refunders : RefundWrite(r)
  <2> PICK r \in Refunders : RefundWrite(r)
    BY <1>4
  <2> DEFINE i == rq[r].i
             amount == rq[r].amount
  <2>1. CASE UNCHANGED <<refunds, refunded, transfer, offsets, payable, receivable, clearing>>
    BY <1>1, <2>1
  <2>2. CASE Commits(r)
    <3>1. /\ i \in Items /\ refunds' = refunds \cup {<<i, amount>>}
          /\ \/ transfer[i] = "processed" /\ transfer' = transfer
             \/ transfer' = [transfer EXCEPT ![i] = "cancelled"]
      BY <2>2, WriteFacts DEF Commits, ReverseShare
    <3>2. transfer'[i] # "on_hold" /\ \A j \in Items \ {i} : transfer'[j] = transfer[j]
      BY <3>1 DEF Typed, TypeOK
    <3>3. \A x \in refunds' : x \in refunds \/ x[1] = i
      BY <3>1
    <3> QED
      BY <3>2, <3>3 DEF HeldIsWhole
  <2> QED
    BY <2>1, <2>2, WriteFacts
<1>5. CASE \E w \in Workers : ReleaseCommit(w)
  <2> PICK w \in Workers : ReleaseCommit(w)
    BY <1>5
  <2> DEFINE i == rel[w].i
             seen == rel[w].seen
  <2>1. /\ i \in Items /\ seen \in Nat /\ Release(i, seen)
        /\ UNCHANGED refunds
    BY ReleaseFacts
  <2> HIDE DEF i, seen
  <2>2. transfer' = [transfer EXCEPT ![i] = "processed"]
    BY <2>1 DEF Release
  <2> QED
    BY <1>1, <2>1, <2>2 DEF Typed, TypeOK
<1>6. CASE \E h \in Hooks : DisputeLost(h)
  <2> PICK h \in Hooks : DisputeLost(h)
    BY <1>6
  <2>1. UNCHANGED refunds /\ PostChargebackLoss(dh[h].e[2], dh[h].away)
    BY LossFacts
  <2> QED
    BY <1>1, <2>1 DEF PostChargebackLoss
<1> QED
  BY <1>2, <1>3, <1>4, <1>5, <1>6, Steps

\* Every item is held and owed whole at first.
LEMMA PayableInit == Init => HeldIsWhole /\ PayableIs
<1> SUFFICES ASSUME Init PROVE PayableIs
  BY DEF Init, HeldIsWhole
<1>1. \A i \in Items : Owed[i] = Net[i] /\ Net[i] \in Int
  BY ItemsAssumption DEF Init, Owed
<1>2. Balances(payable, Net)
  BY DEF Init, Balances, ItemsOfSeller
<1>3. Balances(payable, Owed)
  BY <1>1, <1>2, PayableStays
<1> QED
  BY <1>3 DEF PayableIs

\* A refund's write: the share leaves the account of an item that was not paid out yet.
LEMMA PayableWritten ==
    ASSUME NEW R, RefundRows(R), NEW t, Transfers(t), NEW p \in [Sellers -> Int],
           NEW u, NEW q, NEW i \in Items, NEW a \in Nat, <<i, a>> \notin R,
           t[i] = "on_hold" => \A x \in R : x[1] # i,
           \/ t[i] = "processed" /\ u = t /\ q = p
           \/ /\ t[i] # "processed" /\ u = [t EXCEPT ![i] = "cancelled"]
              /\ q = [p EXCEPT ![SellerOf[i]] = @ - SellerShare(i, a)],
           Balances(p, OwedIn(R, t))
    PROVE  Balances(q, OwedIn(R \cup {<<i, a>>}, u))
<1> DEFINE f == OwedIn(R, t)
           g == OwedIn(R \cup {<<i, a>>}, u)
<1>1. SellerShare(i, a) \in Nat
  BY Amounting
<1>2. \A j \in Items : f[j] \in Int
  BY OwedInts
<1>3. \A j \in Items \ {i} : g[j] = f[j]
  <2>1. \A j \in Items \ {i} : u[j] = t[j]
    BY DEF Transfers
  <2>2. \A j \in Items \ {i} : ShareIn(R \cup {<<i, a>>}, j) = ShareIn(R, j)
    BY ShareGrows
  <2> SUFFICES ASSUME NEW j \in Items \ {i} PROVE g[j] = f[j]
    OBVIOUS
  <2>3. u[j] = t[j] /\ ShareIn(R \cup {<<i, a>>}, j) = ShareIn(R, j)
    BY <2>1, <2>2
  <2>4. t[j] \in {"on_hold", "processed", "cancelled"}
    BY DEF Transfers
  <2>5. f[j] = g[j]
    <3>1. CASE t[j] = "on_hold"
      BY <2>3, <3>1 DEF OwedIn
    <3>2. CASE t[j] = "cancelled"
      BY <2>3, <3>2 DEF OwedIn
    <3>3. CASE t[j] = "processed"
      BY <2>3, <3>3 DEF OwedIn
    <3> QED
      BY <2>4, <3>1, <3>2, <3>3
  <2> QED
    BY <2>5
<1>4. CASE t[i] = "processed" /\ u = t /\ q = p
  <2>1. g[i] = 0 /\ f[i] = 0
    BY <1>4 DEF OwedIn
  <2>2. \A j \in Items : g[j] = f[j]
    BY <1>3, <2>1
  <2> HIDE DEF f, g
  <2>3. Balances(p, f)
    BY DEF f
  <2>4. Balances(p, g)
    BY <1>2, <2>2, <2>3, PayableStays
  <2> QED
    BY <1>4, <2>4 DEF g
<1>5. CASE /\ t[i] # "processed" /\ u = [t EXCEPT ![i] = "cancelled"]
           /\ q = [p EXCEPT ![SellerOf[i]] = @ - SellerShare(i, a)]
  <2>1. ShareIn(R, i) \in Int /\ Net[i] \in Int /\ (t[i] = "on_hold" => ShareIn(R, i) = 0)
    BY ShareSums, ItemsAssumption
  <2>2. u[i] = "cancelled" /\ t[i] \in {"on_hold", "cancelled"}
    BY <1>5 DEF Transfers
  <2>3. g[i] = Net[i] - ShareIn(R \cup {<<i, a>>}, i)
    BY <2>2 DEF OwedIn
  <2>4. f[i] = Net[i] - ShareIn(R, i)
    BY <2>1, <2>2 DEF OwedIn
  <2>5. ShareIn(R \cup {<<i, a>>}, i) = ShareIn(R, i) + SellerShare(i, a)
    BY ShareGrows
  <2> HIDE DEF f, g
  <2>6. g[i] = f[i] - SellerShare(i, a)
    BY <1>1, <2>1, <2>3, <2>4, <2>5
  <2>7. Debited(f, g, p, q, i, SellerShare(i, a))
    BY <1>1, <1>2, <1>3, <1>5, <2>6 DEF Debited
  <2>8. Balances(p, f)
    BY DEF f
  <2>9. Balances(q, g)
    BY <2>7, <2>8, PayableMoves
  <2> QED
    BY <2>9 DEF g
<1> QED
  BY <1>4, <1>5

\* A release: the whole net of the item leaves the account, as reserve, as what the
\* offsets take and as what is paid.
LEMMA PayableReleased ==
    ASSUME Typed, NEW i \in Items, NEW seen \in Nat, transfer[i] = "on_hold", Release(i, seen),
           Booked(i, seen) = Taken(i, seen), Balances(payable, OwedIn(refunds, transfer))
    PROVE  Balances(payable', OwedIn(refunds, transfer'))
<1> DEFINE taken == Sum(Takes(i, seen), Taken(i, seen))
           f == OwedIn(refunds, transfer)
           g == OwedIn(refunds, transfer')
<1>1. /\ transfer' = [transfer EXCEPT ![i] = "processed"]
      /\ payable' = [payable EXCEPT ![SellerOf[i]] = @ - Withheld[i] - taken - (Available(i) - taken)]
  BY DEF Release
<1>2. Net[i] \in Int /\ Withheld[i] \in Int /\ taken \in Int /\ Available(i) = Net[i] - Withheld[i]
  BY TakesFacts, ItemsAssumption DEF Available
<1>3. payable \in [Sellers -> Int] /\ SellerOf[i] \in Sellers
  BY ItemsAssumption DEF Typed, TypeOK
<1>4. \A j \in Items : f[j] \in Int
  <2>1. RefundRows(refunds) /\ Transfers(transfer)
    BY DEF RefundRows, Transfers, Typed, TypeOK
  <2> QED
    BY <2>1, OwedInts
<1>5. \A j \in Items \ {i} : g[j] = f[j]
  BY <1>1 DEF OwedIn, Typed, TypeOK
<1>6. transfer'[i] = "processed"
  BY <1>1 DEF Typed, TypeOK
<1>7. f[i] = Net[i] /\ g[i] = 0
  BY <1>6 DEF OwedIn
<1>8. Balances(payable, f)
  OBVIOUS
<1> HIDE DEF taken, f, g
<1>9. payable' = [payable EXCEPT ![SellerOf[i]] = @ - Net[i]]
  <2>1. payable[SellerOf[i]] - Withheld[i] - taken - (Available(i) - taken)
          = payable[SellerOf[i]] - Net[i]
    BY <1>2, <1>3
  <2> QED
    BY <1>1, <2>1
<1>10. g[i] = f[i] - Net[i]
  BY <1>2, <1>7
<1>11. Debited(f, g, payable, payable', i, Net[i])
  BY <1>2, <1>3, <1>4, <1>5, <1>9, <1>10 DEF Debited
<1>12. Balances(payable', g)
  BY <1>8, <1>11, PayableMoves
<1> QED
  BY <1>12 DEF g

\* Each entry to the accounts has its transfer, until a loss is booked or a posting replayed.
LEMMA PayableStep == Typed /\ ReleasesHold /\ HeldIsWhole /\ PayableIs /\ [Next]_vars => PayableIs'
<1> SUFFICES ASSUME Typed, ReleasesHold, HeldIsWhole, PayableIs, [Next]_vars, ~replayed', NoLoss'
             PROVE  Balances(payable', OwedIn(refunds', transfer'))
  <2>1. Balances(payable, Owed)' <=> Balances(payable', OwedIn(refunds', transfer'))
    BY OwedIs DEF Balances
  <2> QED
    BY <2>1 DEF PayableIs
<1> DEFINE Before == Balances(payable, OwedIn(refunds, transfer))
           Now == Balances(payable', OwedIn(refunds', transfer'))
<1>0. /\ RefundRows(refunds) /\ Transfers(transfer) /\ payable \in [Sellers -> Int]
      /\ ~replayed /\ NoLoss => Before
  BY OwedIs DEF RefundRows, Transfers, Typed, TypeOK, PayableIs
<1>1. ASSUME UNCHANGED <<payable, transfer, refunds, replayed, keys>> PROVE Now
  BY <1>0, <1>1 DEF NoLoss
<1>2. CASE UNCHANGED vars
  BY <1>1, <1>2 DEF vars, rows, ledger
<1>3. CASE QuietStep
  BY <1>1, <1>3, QuietFrame DEF money, ledger
<1>4. CASE \E r \in Refunders : RefundWrite(r)
  <2> PICK r \in Refunders : RefundWrite(r)
    BY <1>4
  <2>1. UNCHANGED <<replayed, keys>>
    BY WriteFacts
  <2>2. CASE UNCHANGED <<refunds, refunded, transfer, offsets, payable, receivable, clearing>>
    BY <1>1, <2>1, <2>2
  <2>3. CASE Commits(r)
    <3>1. Before
      BY <1>0, <2>1 DEF NoLoss
    <3>2. PICK i \in Items, a \in Nat : i = rq[r].i /\ a = rq[r].amount
      BY <2>3, WriteFacts
    <3>3. /\ <<i, a>> \notin refunds /\ refunds' = refunds \cup {<<i, a>>}
          /\ \/ transfer[i] = "processed" /\ transfer' = transfer /\ payable' = payable
             \/ /\ transfer[i] # "processed" /\ transfer' = [transfer EXCEPT ![i] = "cancelled"]
                /\ payable' = [payable EXCEPT ![SellerOf[i]] = @ - SellerShare(i, a)]
      BY <2>3, <3>2 DEF Commits, ReverseShare
    <3>4. transfer[i] = "on_hold" => \A x \in refunds : x[1] # i
      BY DEF HeldIsWhole
    <3> QED
      BY <1>0, <3>1, <3>3, <3>4, PayableWritten
  <2> QED
    BY <2>2, <2>3, WriteFacts
<1>5. CASE \E w \in Workers : ReleaseCommit(w)
  <2> PICK w \in Workers : ReleaseCommit(w)
    BY <1>5
  <2> DEFINE i == rel[w].i
             seen == rel[w].seen
  <2>1. /\ i \in Items /\ seen \in Nat /\ Release(i, seen)
        /\ UNCHANGED refunds /\ transfer[i] = "on_hold"
    BY ReleaseFacts DEF ReleasesHold
  <2> HIDE DEF i, seen
  <2>2. /\ replayed' = (replayed \/ Booked(i, seen) # Taken(i, seen)) /\ keys \subseteq keys'
    BY <2>1 DEF Release
  <2>3. ~replayed /\ Booked(i, seen) = Taken(i, seen) /\ NoLoss
    BY <2>2 DEF NoLoss
  <2>4. Before
    BY <1>0, <2>3
  <2> QED
    BY <2>1, <2>2, <2>3, <2>4, PayableReleased
<1>6. CASE \E h \in Hooks : DisputeLost(h)
  <2> PICK h \in Hooks : DisputeLost(h)
    BY <1>6
  <2>1. dh[h].e[2] \in Disputes /\ PostChargebackLoss(dh[h].e[2], dh[h].away)
    BY LossFacts
  <2>2. <<"chargeback", dh[h].e[2]>> \in keys'
    BY <2>1 DEF PostChargebackLoss
  <2> QED
    BY <2>1, <2>2 DEF NoLoss
<1> QED
  BY <1>2, <1>3, <1>4, <1>5, <1>6, Steps

\* Until a loss is booked or a posting replayed, what the ledger owes each seller is what
\* the transfers say, however refunds and releases interleave (releaseOne, settlement.go:143,
\* decides again under the lock what the scan had read).
THEOREM PayableAlwaysMatches == Spec => []PayableMatchesTransfers
<1>1. PayableIs => PayableMatchesTransfers
  BY DEF PayableIs, Balances, PayableMatchesTransfers, NoLoss, ItemsOfSeller
<1> QED
  BY <1>1, TypedInit, TypedStep, ReleasesInit, ReleasesStep, PayableInit, HeldStep, PayableStep, PTL DEF Spec
=============================================================================
