----------------------------- MODULE Settlement -----------------------------
(***************************************************************************)
(* After the sale: refunds, the release of held settlements and card       *)
(* chargebacks, all moving the same items and the same ledger accounts.    *)
(*                                                                         *)
(* Three kinds of actor run against one another.  A refund request reads   *)
(* the order without a lock, locks the item and its transfer, asks the     *)
(* provider inside the still open transaction, and then writes.  A worker  *)
(* scans for due transfers in a read-only transaction of its own and       *)
(* releases them one transaction at a time: it locks the transfer and      *)
(* reads the seller's offsets, and commits later.  A dispute webhook reads *)
(* the order without a lock and then writes.  Each of those steps is an    *)
(* action.                                                                 *)
(*                                                                         *)
(* Ledger accounts that only the platform owns (commission, taxes, losses, *)
(* rounding) take the difference of every entry and are left out: payable, *)
(* reserve, receivable and clearing say where the money is.                *)
(***************************************************************************)
EXTENDS Integers, Sequences, FiniteSets, Functions, FiniteSetsExt, SequencesExt

CONSTANTS
  Orders, Items, Sellers,
  OrderOf,         \* the order of an item
  SellerOf,        \* the seller of an item
  Net,             \* the seller's share of an item, what its transfer is for
  Fee,             \* the rest of what the buyer paid for it
  Withheld,        \* the rolling reserve taken from the item's settlement
  Amounts,         \* amounts a refund of the item may ask for
  Disputes,        \* network disputes
  DisputedOrder,   \* the order whose payment a dispute is about
  Suspendable,     \* sellers whose account the provider may suspend
  ScanLimit,       \* the LIMIT of the scan for due transfers
  Refunders, Workers, Hooks,  \* concurrent requests, worker replicas, webhooks
  MaxFaults        \* bound on crashes, deadlock victims and lost answers

ASSUME FiniteAssumption ==
  IsFiniteSet(Orders) /\ IsFiniteSet(Items) /\ IsFiniteSet(Disputes)
ASSUME ItemsAssumption ==
  /\ OrderOf \in [Items -> Orders]
  /\ SellerOf \in [Items -> Sellers]
  /\ Net \in [Items -> Nat \ {0}]
  /\ Fee \in [Items -> Nat]
  /\ Withheld \in [Items -> Nat]
  /\ \A i \in Items : Withheld[i] <= Net[i]
  /\ Amounts \in [Items -> SUBSET (Nat \ {0})]
ASSUME FaultsAssumption == MaxFaults \in Nat
ASSUME ScanLimitAssumption == ScanLimit \in Nat \ {0}
ASSUME DisputesAssumption == DisputedOrder \in [Disputes -> Orders]

VARIABLES
  status,       \* orders.status
  refundedTotal,\* orders.refunded_total_minor
  refunded,     \* order_items.refunded_minor
  transfer,     \* payment_transfers.status, "on_hold" standing for pending too
  due,          \* how many holds have elapsed since the item's did, with it, while it
                \* waited; 0 before hold_until: the greater, the earlier hold_until
  refunds,      \* refunds rows; provider_refund_id follows from item and amount
  offsets,      \* settlement_offsets, oldest first
  chargeback,   \* chargebacks.status, "none" if absent
  keys,         \* journal keys that a later call may present again
  payable, reserve,     \* balance of the seller's accounts
  receivable, clearing, \* balance of the platform's offset and clearing accounts
  paid,         \* what each settle:<item> entry paid out
  replayed,     \* history: a posting found its key in the journal, and its rows were written
  account,      \* sellers.provider_account_status is activated
  prefunds,     \* refunds the provider has made, by idempotency key
  case,         \* the provider's own view of each dispute
  acked,        \* dispute events whose webhook row is processed
  rq, sw, dh,   \* refund requests, sweeps' batches, dispute handlers
  rel,          \* what each worker is releasing, and the offsets it has read
  faults

ledger   == <<keys, payable, reserve, receivable, clearing, paid, replayed>>
rows     == <<status, refundedTotal, refunded, transfer, due, refunds, offsets, chargeback>>
outside  == <<account, prefunds, case, acked>>
handlers == <<rq, sw, dh, rel>>
vars     == <<rows, ledger, outside, handlers, faults>>

-----------------------------------------------------------------------------
(* Values *)

Statuses == {"fulfilled", "completed", "partially_refunded", "refunded",
             "disputed", "chargeback_lost"}

\* order_transitions_allowed among those statuses and refund_pending.
Transitions ==
  {<<"fulfilled", "completed">>, <<"fulfilled", "disputed">>,
   <<"completed", "disputed">>, <<"partially_refunded", "disputed">>,
   <<"fulfilled", "refund_pending">>, <<"completed", "refund_pending">>,
   <<"partially_refunded", "refund_pending">>,
   <<"refund_pending", "refunded">>, <<"refund_pending", "partially_refunded">>,
   <<"disputed", "chargeback_lost">>, <<"disputed", "fulfilled">>}

Total(i)     == Net[i] + Fee[i]
ItemsOf(o)   == {i \in Items : OrderOf[i] = o}
Sum(f, S)    == SumFunctionOnSet(f, S)
Totals       == [i \in Items |-> Total(i)]
GrandTotal(o) == Sum(Totals, ItemsOf(o))
GrandTotals  == [o \in Orders |-> GrandTotal(o)]

\* scaleToRefund: component * amount / total, half up, exact for a full refund.
Scaled(component, amount, total) ==
  IF amount = total THEN component
  ELSE (2 * component * amount + total) \div (2 * total)

SellerShare(i, amount) == Scaled(Net[i], amount, Total(i))

Outstanding == [n \in DOMAIN offsets |-> offsets[n].amount - offsets[n].applied]

\* What the rows of refunds come to.
RefundAmount(S) == Sum([x \in S |-> x[2]], S)

IdleRequest == [at |-> "idle"]
IdleHook    == [at |-> "idle"]
NoRelease   == [at |-> "none"]
Events      == {"created", "won", "lost"} \X Disputes

Offsets == [item : Items, dispute : Disputes \cup {"refund"}, amount : Nat, applied : Nat]

TypeOK ==
  /\ status \in [Orders -> Statuses]
  /\ refundedTotal \in [Orders -> Nat]
  /\ refunded \in [Items -> Nat]
  /\ transfer \in [Items -> {"on_hold", "processed", "cancelled"}]
  /\ due \in [Items -> Nat]
  /\ refunds \subseteq Items \X Nat
  /\ offsets \in Seq(Offsets)
  /\ chargeback \in [Disputes -> {"none", "evidence_required", "won", "lost"}]
  /\ payable \in [Sellers -> Int]
  /\ reserve \in [Sellers -> Nat]
  /\ receivable \in Int /\ clearing \in Int
  /\ paid \in [Items -> Nat]
  /\ replayed \in BOOLEAN
  /\ account \in [Sellers -> BOOLEAN]
  /\ prefunds \subseteq Items \X Nat
  /\ case \in [Disputes -> {"none", "open", "won", "lost"}]
  /\ acked \subseteq Events
  /\ sw \in [Workers -> SUBSET Items]
  /\ rel \in [Workers -> {NoRelease} \cup [at : {"begun"}, i : Items, seen : Nat]]
  /\ faults \in 0 .. MaxFaults

\* Every order has been captured: postCaptureLedger and recordTransfers ran.
Init ==
  /\ status = [o \in Orders |-> "fulfilled"]
  /\ refundedTotal = [o \in Orders |-> 0]
  /\ refunded = [i \in Items |-> 0]
  /\ transfer = [i \in Items |-> "on_hold"]
  /\ due = [i \in Items |-> 0]
  /\ refunds = {}
  /\ offsets = <<>>
  /\ chargeback = [d \in Disputes |-> "none"]
  /\ keys = {}
  /\ payable = [s \in Sellers |-> Sum(Net, {i \in Items : SellerOf[i] = s})]
  /\ reserve = [s \in Sellers |-> 0]
  /\ receivable = 0
  /\ clearing = Sum(GrandTotals, Orders)
  /\ paid = [i \in Items |-> 0]
  /\ replayed = FALSE
  /\ account = [s \in Sellers |-> TRUE]
  /\ prefunds = {}
  /\ case = [d \in Disputes |-> "none"]
  /\ acked = {}
  /\ rq = [r \in Refunders |-> IdleRequest]
  /\ sw = [w \in Workers |-> {}]
  /\ rel = [w \in Workers |-> NoRelease]
  /\ dh = [h \in Hooks |-> IdleHook]
  /\ faults = 0

\* The worker is releasing the item.
Releasing(w, i) == rel[w].at = "begun" /\ rel[w].i = i

\* A refund, or a release, that has locked the item's transfer and has yet to commit.
Locked(i) ==
  \/ \E r \in Refunders : rq[r].at = "asked" /\ rq[r].i = i
  \/ \E w \in Workers : Releasing(w, i)

\* Transfers that are due and still on hold.
Waiting == {i \in Items : transfer[i] = "on_hold" /\ due[i] > 0}

\* UPDATE orders SET status = to WHERE status = from matches the row, and the
\* state-machine trigger lets it through.
Matches(o, from)  == status[o] = from
Allowed(from, to) == <<from, to>> \in Transitions

-----------------------------------------------------------------------------
(* Time, sellers and the network *)

HoldElapses(i) ==
  /\ transfer[i] = "on_hold" /\ due[i] = 0
  /\ due' = [j \in Items |-> IF j = i \/ j \in Waiting THEN due[j] + 1 ELSE due[j]]
  /\ UNCHANGED <<status, refundedTotal, refunded, transfer, refunds, offsets, chargeback,
                 ledger, outside, handlers, faults>>

\* onAccountStatus.
OnAccountStatus(s) ==
  /\ s \in Suspendable
  /\ account' = [account EXCEPT ![s] = ~@]
  /\ UNCHANGED <<rows, ledger, prefunds, case, acked, handlers, faults>>

\* The network opens a dispute on the payment, and decides it.
NetworkDisputes(d) ==
  /\ \/ case[d] = "none" /\ case' = [case EXCEPT ![d] = "open"]
     \/ case[d] = "open" /\ \E v \in {"won", "lost"} : case' = [case EXCEPT ![d] = v]
  /\ UNCHANGED <<rows, ledger, account, prefunds, acked, handlers, faults>>

-----------------------------------------------------------------------------
(* Refund *)

Refundable == {"fulfilled", "completed", "partially_refunded", "disputed"}

\* LoadOrder: status and refunded total are read here and written back later.
RefundLoad(r, i, amount) ==
  LET o == OrderOf[i] IN
  /\ rq[r] = IdleRequest
  /\ amount \in Amounts[i]
  /\ status[o] \in Refundable
  /\ rq' = [rq EXCEPT ![r] = [at |-> "loaded", i |-> i, amount |-> amount,
                              status |-> status[o], total |-> refundedTotal[o]]]
  /\ UNCHANGED <<rows, ledger, outside, sw, dh, rel, faults>>

\* Mutant of Covered: the check uses the line as paid, not what is left of it.
CoveredOnce(i, amount) == amount <= Total(i)

\* "That would refund more than was paid for this item": read FOR UPDATE.
Covered(i, amount) == refunded[i] + amount <= Total(i)

\* The provider refuses to give back more than it captured; a key it has seen is
\* answered with the refund it made then.
ProviderRefunds(i, amount) ==
  LET made == {x \in prefunds : OrderOf[x[1]] = OrderOf[i]}
  IN <<i, amount>> \in prefunds \/ RefundAmount(made) + amount <= GrandTotal(OrderOf[i])

RefundAsk(r) ==
  LET i == rq[r].i
      amount == rq[r].amount
      ok == Covered(i, amount) /\ ProviderRefunds(i, amount)
  IN
  /\ rq[r].at = "loaded"
  /\ ~Locked(i)
  /\ IF ok
     THEN /\ prefunds' = prefunds \cup {<<i, amount>>}
          /\ rq' = [rq EXCEPT ![r].at = "asked"]
     ELSE /\ rq' = [rq EXCEPT ![r] = IdleRequest]
          /\ UNCHANGED prefunds
  /\ UNCHANGED <<rows, ledger, account, case, acked, sw, dh, rel, faults>>

\* Mutant of RecoveredShare: a partial refund recovers the whole share.
RecoveredWhole(i, amount) == Net[i]

\* The amount of the settlement_offsets row, scaled once more as the entry was.
RecoveredShare(i, amount) == SellerShare(i, amount)

\* postRefundLedger's seller line and what Refund does with the transfer: a share
\* already paid out becomes a receivable and an offset, one still held is taken
\* from payable and its transfer is cancelled.
ReverseShare(i, amount) ==
  LET share == SellerShare(i, amount) IN
  /\ clearing' = clearing - amount
  /\ IF transfer[i] = "processed"
     THEN /\ receivable' = receivable + share
          /\ offsets' = IF share = 0 THEN offsets
                        ELSE Append(offsets, [item |-> i, dispute |-> "refund",
                                              amount |-> RecoveredShare(i, amount),
                                              applied |-> 0])
          /\ UNCHANGED <<payable, transfer>>
     ELSE /\ payable' = [payable EXCEPT ![SellerOf[i]] = @ - share]
          /\ transfer' = [transfer EXCEPT ![i] = "cancelled"]
          /\ UNCHANGED <<receivable, offsets>>

\* The order statement writes back the total it had read, plus the amount.
RefundWrite(r) ==
  LET i == rq[r].i
      o == OrderOf[i]
      amount == rq[r].amount
      total == rq[r].total + amount
      target == IF total >= GrandTotal(o) THEN "refunded" ELSE "partially_refunded"
      commits == /\ <<i, amount>> \notin refunds  \* refunds_provider_uq
                 /\ Matches(o, rq[r].status)
                 /\ Allowed(rq[r].status, "refund_pending")
  IN
  /\ rq[r].at = "asked"
  /\ rq' = [rq EXCEPT ![r] = IdleRequest]
  /\ IF commits
     THEN /\ refunds' = refunds \cup {<<i, amount>>}
          /\ refunded' = [refunded EXCEPT ![i] = @ + amount]
          /\ refundedTotal' = [refundedTotal EXCEPT ![o] = total]
          /\ status' = [status EXCEPT ![o] = target]
          /\ ReverseShare(i, amount)
     ELSE UNCHANGED <<refunds, refunded, refundedTotal, status, clearing,
                      receivable, offsets, payable, transfer>>
  /\ UNCHANGED <<due, chargeback, keys, reserve, paid, replayed, outside, sw, dh, rel, faults>>

\* The request dies, or is the victim of a deadlock and rolls back.
RefundAbort(r) ==
  /\ rq[r].at = "asked"
  /\ faults < MaxFaults
  /\ faults' = faults + 1
  /\ rq' = [rq EXCEPT ![r] = IdleRequest]
  /\ UNCHANGED <<rows, ledger, outside, sw, dh, rel>>

-----------------------------------------------------------------------------
(* ReleaseDueSettlements and CompleteProtectedOrders *)

\* Mutant of HoldStatuses: a partial refund holds the rest of the order.
HoldStatusesPartial == {"disputed", "chargeback_lost", "refunded", "partially_refunded"}

HoldStatuses == {"disputed", "chargeback_lost", "refunded"}

\* A reason to defer the item's settlement.
HeldBack(i) == status[OrderOf[i]] \in HoldStatuses \/ ~account[SellerOf[i]]

\* ORDER BY hold_until LIMIT: the transfers that have been due longest, and are still
\* on hold.
Scanned == {i \in Waiting : Cardinality({j \in Waiting : due[j] > due[i]}) < ScanLimit}

\* The reasons to hold are looked at after the limit.
Candidates == {i \in Scanned : ~HeldBack(i)}

\* The scan is a read-only transaction of its own: the reasons to hold a transfer
\* are judged here, and the batch is released afterwards.
Scan(w) ==
  /\ sw[w] = {} /\ rel[w] = NoRelease /\ Candidates # {}
  /\ sw' = [sw EXCEPT ![w] = Candidates]
  /\ UNCHANGED <<rows, ledger, outside, rq, dh, rel, faults>>

\* Mutant of StillHeld: releaseOne trusts the scan.
StillHeldAtScan(i) == TRUE

\* releaseOne reads the transfer's status again, under a lock.
StillHeld(i) == transfer[i] = "on_hold"

\* applyOffsets: the seller's open offsets, oldest first, up to what is available.  The
\* query sees the rows that were there when it began; a row that another release had
\* locked is read again, as that release left it.
OffsetsOf(s, seen) == {n \in DOMAIN offsets : n <= seen /\ SellerOf[offsets[n].item] = s}

\* Mutant of Take: one offset per settlement.
TakeOldest(n, s, available) ==
  IF \E m \in DOMAIN offsets : m < n /\ SellerOf[offsets[m].item] = s /\ Outstanding[m] > 0
  THEN 0
  ELSE Min({Outstanding[n], available})

Take(n, s, available) ==
  LET before == Sum(Outstanding, OffsetsOf(s, n - 1))
  IN Min({Outstanding[n], Max({available - before, 0})})

\* What each offset of the seller gives to the settlement of an item; what the
\* settlement takes is keyed by the offset and the amount.
Available(i) == Net[i] - Withheld[i]
Takes(i, seen) ==
  [n \in OffsetsOf(SellerOf[i], seen) |-> Take(n, SellerOf[i], Available(i))]
Taken(i, seen) == {n \in OffsetsOf(SellerOf[i], seen) : Takes(i, seen)[n] > 0}
Key(n, amount) == <<"offset", n, amount>>
Booked(i, seen) == {n \in Taken(i, seen) : Key(n, Takes(i, seen)[n]) \notin keys}

Release(i, seen) ==
  LET s == SellerOf[i]
      T == Takes(i, seen)
      taken == Taken(i, seen)
      booked == Sum(T, Booked(i, seen))
      net == Available(i) - Sum(T, taken)
  IN
  /\ offsets' = [n \in DOMAIN offsets |->
                   IF n \in taken THEN [offsets[n] EXCEPT !.applied = @ + T[n]]
                   ELSE offsets[n]]
  /\ keys' = keys \cup {Key(n, T[n]) : n \in taken}
  /\ replayed' = (replayed \/ Booked(i, seen) # taken)
  /\ reserve' = [reserve EXCEPT ![s] = @ + Withheld[i]]
  /\ payable' = [payable EXCEPT ![s] = @ - Withheld[i] - booked - net]
  /\ receivable' = receivable - booked
  /\ clearing' = clearing - net
  /\ paid' = [paid EXCEPT ![i] = @ + net]
  /\ transfer' = [transfer EXCEPT ![i] = "processed"]

\* releaseOne up to the query of applyOffsets: the transfer is locked and read again,
\* and the offsets that exist are seen.  Until the commit others may add to them.
ReleaseBegin(w, i) ==
  /\ i \in sw[w] /\ rel[w] = NoRelease
  /\ ~Locked(i)
  /\ sw' = [sw EXCEPT ![w] = @ \ {i}]
  /\ rel' = IF StillHeld(i)
            THEN [rel EXCEPT ![w] = [at |-> "begun", i |-> i, seen |-> Len(offsets)]]
            ELSE rel
  /\ UNCHANGED <<rows, ledger, outside, rq, dh, faults>>

\* The rest of releaseOne, to its commit.
ReleaseCommit(w) ==
  /\ rel[w] # NoRelease
  /\ Release(rel[w].i, rel[w].seen)
  /\ rel' = [rel EXCEPT ![w] = NoRelease]
  /\ UNCHANGED <<status, refundedTotal, refunded, due, refunds, chargeback,
                 outside, rq, sw, dh, faults>>

\* The provider refuses, or the worker dies: the transfer stays on hold.
ReleaseAbort(w) ==
  /\ rel[w] # NoRelease
  /\ faults < MaxFaults
  /\ faults' = faults + 1
  /\ rel' = [rel EXCEPT ![w] = NoRelease]
  /\ UNCHANGED <<rows, ledger, outside, rq, sw, dh>>

\* The protection window of the order has elapsed.
CompleteOrder(o) ==
  /\ status[o] = "fulfilled"
  /\ \A d \in Disputes : DisputedOrder[d] = o => chargeback[d] \in {"none", "won"}
  /\ status' = [status EXCEPT ![o] = "completed"]
  /\ UNCHANGED <<refundedTotal, refunded, transfer, due, refunds, offsets, chargeback,
                 ledger, outside, handlers, faults>>

-----------------------------------------------------------------------------
(* onDispute *)

\* What the provider says of a dispute it sends until it is acknowledged, in any
\* order.
Deliverable(e) ==
  /\ e \notin acked
  /\ IF e[1] = "created" THEN case[e[2]] # "none" ELSE case[e[2]] = e[1]

\* webhook_claim, and the first unlocked read of the handler's transaction: the
\* order's status, and for a loss the status of each transfer.
DisputeRead(h, e) ==
  LET o == DisputedOrder[e[2]] IN
  /\ dh[h] = IdleHook
  /\ Deliverable(e)
  /\ dh' = [dh EXCEPT ![h] = [at |-> "read", e |-> e, status |-> status[o],
                              away |-> {i \in ItemsOf(o) : transfer[i] = "processed"}]]
  /\ UNCHANGED <<rows, ledger, outside, rq, sw, rel, faults>>

\* A transition whose concurrent failure is ignored.
MoveIfThere(o, from, to) ==
  status' = [status EXCEPT ![o] = IF Matches(o, from) /\ Allowed(from, to) THEN to ELSE @]

\* The move raises when the row is there and the table has no such transition.
Raises(o, from, to) == from # to /\ Matches(o, from) /\ ~Allowed(from, to)

DisputeCreated(h) ==
  LET d == dh[h].e[2]
      o == DisputedOrder[d]
      seen == dh[h].status
  IN
  /\ dh[h].at = "read" /\ dh[h].e[1] = "created"
  /\ \A i \in ItemsOf(o) : ~Locked(i)
  /\ IF Raises(o, seen, "disputed")
     THEN /\ dh' = [dh EXCEPT ![h] = IdleHook]
          /\ UNCHANGED <<chargeback, status, due>>
     ELSE /\ dh' = [dh EXCEPT ![h].at = "done"]
          /\ chargeback' = [chargeback EXCEPT ![d] = IF @ = "none" THEN "evidence_required" ELSE @]
          /\ MoveIfThere(o, seen, "disputed")
          /\ due' = [i \in Items |-> IF i \in ItemsOf(o) /\ transfer[i] = "on_hold" THEN 0 ELSE due[i]]
  /\ UNCHANGED <<refundedTotal, refunded, transfer, refunds, offsets,
                 ledger, outside, rq, sw, rel, faults>>

\* UPDATE chargebacks: nothing happens when the row is not there yet.
Decide(d, v) ==
  chargeback' = [chargeback EXCEPT ![d] = IF @ = "none" THEN @ ELSE v]

DisputeWon(h) ==
  LET d == dh[h].e[2] IN
  /\ dh[h].at = "read" /\ dh[h].e[1] = "won"
  /\ Decide(d, "won")
  /\ MoveIfThere(DisputedOrder[d], "disputed", "fulfilled")
  /\ dh' = [dh EXCEPT ![h].at = "done"]
  /\ UNCHANGED <<refundedTotal, refunded, transfer, due, refunds, offsets,
                 ledger, outside, rq, sw, rel, faults>>

\* Mutant of LossBooked: the entry has no idempotency key.
LossNeverBooked(d) == FALSE

\* Post finds the key of the loss in the journal and replays.
LossBooked(d) == <<"chargeback", d>> \in keys

\* postChargebackLoss: the whole net of every line, by the transfer statuses read
\* before; the entry is keyed by the dispute, the rows are written every time.
PostChargebackLoss(d, away) ==
  LET o == DisputedOrder[d]
      held == ItemsOf(o) \ away
      HeldOf(s) == {i \in held : SellerOf[i] = s}
      Offset(i) == [item |-> i, dispute |-> d, amount |-> Net[i], applied |-> 0]
  IN
  /\ offsets' = offsets \o SetToSeq({Offset(i) : i \in away})
  /\ transfer' = [i \in Items |-> IF i \in held THEN "cancelled" ELSE transfer[i]]
  /\ keys' = keys \cup {<<"chargeback", d>>}
  /\ IF LossBooked(d)
     THEN UNCHANGED <<receivable, payable, clearing>>
     ELSE /\ receivable' = receivable + Sum(Net, away)
          /\ payable' = [s \in Sellers |-> payable[s] - Sum(Net, HeldOf(s))]
          /\ clearing' = clearing - GrandTotal(o)
  /\ replayed' = (replayed \/ LossBooked(d))
  /\ UNCHANGED <<reserve, paid>>

DisputeLost(h) ==
  LET d == dh[h].e[2]
      o == DisputedOrder[d]
  IN
  /\ dh[h].at = "read" /\ dh[h].e[1] = "lost"
  /\ \A i \in ItemsOf(o) : ~Locked(i)
  /\ Decide(d, "lost")
  /\ PostChargebackLoss(d, dh[h].away)
  /\ MoveIfThere(o, "disputed", "chargeback_lost")
  /\ dh' = [dh EXCEPT ![h].at = "done"]
  /\ UNCHANGED <<refundedTotal, refunded, due, refunds, outside, rq, sw, rel, faults>>

\* Mutant of Handled: the event is acknowledged on receipt.
HandledOnReceipt(h) == dh[h] # IdleHook

\* onDispute returned without an error.
Handled(h) == dh[h].at = "done"

\* The bookkeeping after applyWebhook: process_status = 'processed'.
DisputeAck(h) ==
  /\ Handled(h)
  /\ acked' = acked \cup {dh[h].e}
  /\ dh' = [dh EXCEPT ![h] = IdleHook]
  /\ UNCHANGED <<rows, ledger, account, prefunds, case, rq, sw, rel, faults>>

\* The process dies between its transactions.
DisputeCrash(h) ==
  /\ dh[h].at = "done"
  /\ faults < MaxFaults
  /\ faults' = faults + 1
  /\ dh' = [dh EXCEPT ![h] = IdleHook]
  /\ UNCHANGED <<rows, ledger, outside, rq, sw, rel>>

-----------------------------------------------------------------------------
RefundStep(r)  == RefundAsk(r) \/ RefundWrite(r)
SweepStep(w)   == Scan(w) \/ (\E i \in Items : ReleaseBegin(w, i)) \/ ReleaseCommit(w)
DisputeStep(h) == DisputeCreated(h) \/ DisputeWon(h) \/ DisputeLost(h) \/ DisputeAck(h)

Next ==
  \/ \E i \in Items : HoldElapses(i)
  \/ \E s \in Sellers : OnAccountStatus(s)
  \/ \E d \in Disputes : NetworkDisputes(d)
  \/ \E r \in Refunders, i \in Items : \E amount \in Amounts[i] : RefundLoad(r, i, amount)
  \/ \E r \in Refunders : RefundStep(r) \/ RefundAbort(r)
  \/ \E w \in Workers : SweepStep(w) \/ ReleaseAbort(w)
  \/ \E o \in Orders : CompleteOrder(o)
  \/ \E h \in Hooks, e \in Events : DisputeRead(h, e)
  \/ \E h \in Hooks : DisputeStep(h) \/ DisputeCrash(h)

Spec == Init /\ [][Next]_vars

\* Holds elapse, the sweep is a scheduled task, a refund request runs on.  A row lock
\* is granted in the order it was asked for, so a release that waits for one gets it
\* although refund requests keep coming.  Nothing is assumed of the network.
FairSpec ==
  /\ Spec
  /\ \A i \in Items : WF_vars(HoldElapses(i))
  /\ \A w \in Workers : WF_vars(Scan(w)) /\ WF_vars(ReleaseCommit(w))
  /\ \A w \in Workers, i \in Items : SF_vars(ReleaseBegin(w, i))
  /\ \A r \in Refunders : WF_vars(RefundStep(r))

-----------------------------------------------------------------------------
(* Properties *)

\* Two refunds of one item race, are retried after a crash and are refused by the
\* order: what the item says was refunded is what its rows say, never more than was
\* paid for it, and every row is money the provider really gave back.
RefundsAddUp ==
  /\ \A i \in Items : /\ refunded[i] = RefundAmount({x \in refunds : x[1] = i})
                      /\ refunded[i] <= Total(i)
  /\ refunds \subseteq prefunds

\* settlement.go:193-194: netting "is how a post-settlement refund is recovered".  The
\* offset account holds exactly what sellers have still to give back: what refunds,
\* releases and chargebacks post to it follows the settlement_offsets rows, until a
\* posting is answered by the journal while its rows are written again.
ReceivableMatchesOffsets ==
  /\ ~replayed => receivable = Sum(Outstanding, DOMAIN offsets)
  /\ \A n \in DOMAIN offsets : Outstanding[n] >= 0

\* A settlement that pays a seller something leaves open none of the offsets that were
\* there when applyOffsets read them, whatever other releases took from them between
\* that query and the commit.
OffsetsFirst ==
  [][\A w \in Workers, i \in Items :
       Releasing(w, i) /\ paid'[i] > paid[i] =>
         \A n \in OffsetsOf(SellerOf[i], rel[w].seen) :
           offsets'[n].applied = offsets'[n].amount
    ]_vars

\* settlement.go:193: "Outstanding offsets are netted before anything leaves": a
\* settlement that pays a seller something leaves none of the seller's offsets open.
NothingLeavesBeforeOffsets ==
  [][\A i \in Items :
       paid'[i] > paid[i] =>
         \A n \in DOMAIN offsets' :
           SellerOf[offsets'[n].item] = SellerOf[i] => offsets'[n].applied = offsets'[n].amount
    ]_<<paid, offsets>>

\* Clearing is explained by the rows: what was captured, less what was refunded,
\* what was paid out and what lost chargebacks took, each once.
ClearingIsExplained ==
  LET Lost == [d \in Disputes |->
                 IF <<"chargeback", d>> \in keys THEN GrandTotal(DisputedOrder[d]) ELSE 0]
  IN clearing = Sum(GrandTotals, Orders) - RefundAmount(refunds) - Sum(paid, Items)
                - Sum(Lost, Disputes)

\* Without chargebacks, and until a posting is replayed, the payable account is what
\* the transfers say: the whole net of a held item, what refunds left of a cancelled
\* one, nothing of a released one.
RefundedShare(i) ==
  LET S == {x \in refunds : x[1] = i} IN Sum([x \in S |-> SellerShare(x[1], x[2])], S)

Owed == [i \in Items |-> CASE transfer[i] = "on_hold"   -> Net[i]
                            [] transfer[i] = "cancelled" -> Net[i] - RefundedShare(i)
                            [] transfer[i] = "processed" -> 0]

PayableMatchesTransfers ==
  ~replayed /\ (\A d \in Disputes : <<"chargeback", d>> \notin keys) =>
    \A s \in Sellers : payable[s] = Sum(Owed, {i \in Items : SellerOf[i] = s})

\* A lost dispute that was acknowledged has been recovered: each line's transfer is
\* cancelled or the seller owes it, and the loss is in the journal.
AcknowledgedLossIsBooked ==
  \A d \in Disputes : <<"lost", d>> \in acked =>
    /\ <<"chargeback", d>> \in keys
    /\ \A i \in ItemsOf(DisputedOrder[d]) :
         transfer[i] = "cancelled" \/ \E n \in DOMAIN offsets : offsets[n].item = i

\* As many other transfers as a scan takes are due and held back.
Crowded(i) ==
  Cardinality({j \in Waiting \ {i} : HeldBack(j)}) >= ScanLimit

\* The order is not disputed and the seller not suspended.
Free(i) == status[OrderOf[i]] # "disputed" /\ account[SellerOf[i]]

\* A held share does not wait for ever: it is released or cancelled, unless the order
\* becomes disputed, the seller is suspended, or transfers that are held back fill
\* the scan again and again.
HeldSharesMove ==
  \A i \in Items :
    (transfer[i] = "on_hold" /\ Free(i)) ~> (transfer[i] # "on_hold" \/ ~Free(i) \/ Crowded(i))

\* docs/adr/0011-settlement-holds-not-wallets.md:38: "a hold
\* expires".  The same, whatever becomes of other transfers.
HoldsExpire ==
  \A i \in Items :
    (transfer[i] = "on_hold" /\ Free(i)) ~> (transfer[i] # "on_hold" \/ ~Free(i))

\* 0006_orders_payments.sql:109: disputed -> refunded, "Settled by refunding the
\* buyer."  A request that found the order disputed and had its refund from the
\* provider, and is not cut short, ends with the refund's row.
DisputedRefundIsRecorded ==
  [][\A r \in Refunders :
       rq[r].at = "asked" /\ rq[r].status = "disputed" /\ rq'[r] = IdleRequest
         /\ faults' = faults => <<rq[r].i, rq[r].amount>> \in refunds'
    ]_vars
=============================================================================
