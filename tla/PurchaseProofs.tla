--------------------------- MODULE PurchaseProofs ---------------------------
(***************************************************************************)
(* What holds of Purchase for any sets of orders, payment attempts and     *)
(* requests, and for any bound on faults.                                  *)
(*                                                                         *)
(* The safety properties are not inductive: that a capture commits once    *)
(* per order rests on what each waiting request has read.  IInv adds to    *)
(* the rows what a request in flight may rely on: a capture it was told of *)
(* has happened, and an order that was decided cannot start to wait again. *)
(***************************************************************************)
EXTENDS Purchase, TLAPS

\* The rows, and the provider's record, agree on which orders were sold.
RowsAgree ==
  /\ \A o \in Orders : status[o] # "paid"
  /\ \A o \in Orders : o \in licensed <=> status[o] = "fulfilled"
  /\ \A o \in Orders : runs[o] = IF o \in licensed THEN 1 ELSE 0
  /\ \A o \in licensed : \E x \in posted : x[1] = o
  /\ \A x \in posted : x[1] \in licensed
  /\ \A x \in posted : pay[x[2]] = "captured" /\ Matches(x[1], x[2])
  /\ \A x \in posted : OrderOf[x[2]] = x[1] \/ x \in Presented
  /\ \A x, y \in posted : x[1] = y[1] => x = y
  /\ payrows \subseteq posted
  /\ \A x \in posted : \E y \in payrows : y[2] = x[2]
  /\ \A x, y \in payrows : x[2] = y[2] => x = y

\* What a callback remembers is true of the provider's record and of its amount, and
\* a browser brought its order and its attempt together.
CbHolds(c) ==
  /\ cb[c].at # "idle" /\ cb[c].rec = "captured" => pay[cb[c].p] = "captured"
  /\ cb[c].at # "idle" /\ cb[c].rec = "authorized" =>
       pay[cb[c].p] \in {"authorized", "captured"}
  /\ cb[c].at # "idle" => <<cb[c].o, cb[c].p>> \in Presented
  /\ cb[c].at = "loaded" => Matches(cb[c].o, cb[c].p)

\* What a webhook request remembers is.
HkHolds(h) ==
  /\ hk[h].at # "idle" => pay[hk[h].e[2]] = hk[h].e[1]
  /\ hk[h].at = "loaded" /\ hk[h].e[1] = "captured" =>
       Matches(OrderOf[hk[h].e[2]], hk[h].e[2])

\* What a request has read and will act on is still true when it writes.
ReadsHold == (\A c \in Callbacks : CbHolds(c)) /\ (\A h \in Hooks : HkHolds(h))

\* Nothing is left to decide for the order of attempt p.
Decided(p) == p \in diffs \/ status[OrderOf[p]] # "awaiting_payment"

\* A capture that was handled, or acknowledged, stays decided: an order whose buyer
\* has paid has its intent, and an order with an intent never starts to wait again.
CapturesStayDecided ==
  /\ \A o \in Orders : status[o] = "draft" => intent[o] = "none"
  /\ \A p \in Payments : pay[p] # "none" => intent[OrderOf[p]] # "none"
  /\ \A h \in Hooks :
       hk[h].at = "done" /\ hk[h].e[1] = "captured" => Decided(hk[h].e[2])
  /\ \A p \in Payments : hooklog[<<"captured", p>>] = "processed" =>
       Decided(p) /\ pay[p] = "captured"

IInv == TypeOK /\ RowsAgree /\ ReadsHold /\ CapturesStayDecided

-----------------------------------------------------------------------------
(* Requests in flight *)

\* A callback that is past "idle" has a payment and the status it was told.
LEMMA CallbackInFlight ==
  ASSUME TypeOK, NEW c \in Callbacks, cb[c].at # "idle"
  PROVE  /\ cb[c] \in [at : {"reconciled", "loaded"}, o : Orders, p : Payments, rec : PayStatuses]
         /\ cb[c].o \in Orders
         /\ cb[c].p \in Payments
BY DEF TypeOK, CallbackStates, NoCallback

\* A webhook request that is past "idle" has an event of a payment.
LEMMA HookInFlight ==
  ASSUME TypeOK, NEW h \in Hooks, hk[h].at # "idle"
  PROVE  /\ hk[h] \in [at : {"claimed", "loaded", "done", "erred"}, e : Events]
         /\ hk[h].e \in Events
         /\ hk[h].e[1] \in {"captured", "failed"}
         /\ hk[h].e[2] \in Payments
         /\ hk[h].e = <<hk[h].e[1], hk[h].e[2]>>
         /\ OrderOf[hk[h].e[2]] \in Orders
<1>1. hk[h] \in [at : {"claimed", "loaded", "done", "erred"}, e : Events]
  BY DEF TypeOK, HookStates, NoHook
<1> QED
  BY <1>1, OrderOfAssumption DEF Events

-----------------------------------------------------------------------------
(* Type correctness *)

\* What a callback and a webhook may write to the shared rows keeps their types.
LEMMA CaptureTyping ==
  ASSUME TypeOK, NEW o \in Orders, NEW p \in Payments, TryCapture(o, p)
  PROVE  /\ status' \in [Orders -> OrderStatuses]
         /\ intent' \in [Orders -> {"none", "created", "succeeded", "failed"}]
         /\ payrows' \subseteq Orders \X Payments
         /\ posted' \subseteq Orders \X Payments
         /\ licensed' \subseteq Orders
         /\ runs' \in [Orders -> Nat]
         /\ diffs' \subseteq {q \in Payments : ~Matches(OrderOf[q], q)}
<1>1. CASE Captures(o)
  <2>1. RecordCapture(o, p)
    BY <1>1 DEF TryCapture
  <2>2. /\ payrows' \subseteq Orders \X Payments
        /\ posted' \subseteq Orders \X Payments
        /\ licensed' \subseteq Orders
        /\ diffs' = diffs
    BY <2>1 DEF RecordCapture, InsertPayment, PostCaptureLedger, IssueLicenses, TypeOK
  <2>3. /\ status' \in [Orders -> OrderStatuses]
        /\ intent' \in [Orders -> {"none", "created", "succeeded", "failed"}]
        /\ runs' \in [Orders -> Nat]
    BY <2>1, SMT DEF RecordCapture, SettleIntent, UpdateTurnover, OrderStatuses, TypeOK
  <2> QED
    BY <2>2, <2>3 DEF TypeOK
<1>2. CASE ~Captures(o)
  BY <1>2 DEF TypeOK, TryCapture, store
<1> QED
  BY <1>1, <1>2

\* Every step keeps every variable, and what a request remembers, in its type.
LEMMA TypeStep == TypeOK /\ [Next]_vars => TypeOK'
<1> SUFFICES ASSUME TypeOK, [Next]_vars PROVE TypeOK'
  OBVIOUS
<1> USE DEF store, handlers
<1>1. ASSUME NEW o \in Orders, CloseWindow(o) PROVE TypeOK'
  BY <1>1 DEF CloseWindow, TypeOK
<1>2. ASSUME NEW o \in Orders, BeginPayment(o) PROVE TypeOK'
  BY <1>2 DEF BeginPayment, TypeOK, OrderStatuses
<1>3. ASSUME NEW o \in Orders, ExpireStaleOrder(o) PROVE TypeOK'
  BY <1>3 DEF ExpireStaleOrder, TypeOK, OrderStatuses
<1>4. ASSUME NEW p \in Payments, BuyerPays(p) PROVE TypeOK'
  BY <1>4 DEF BuyerPays, TypeOK, PayStatuses
<1>5. ASSUME NEW p \in Payments, ProviderCaptures(p) PROVE TypeOK'
  BY <1>5 DEF ProviderCaptures, TypeOK, PayStatuses
<1>6. ASSUME NEW c \in Callbacks, NEW o \in Orders, NEW p \in Payments, CallbackReconcile(c, o, p)
      PROVE TypeOK'
  BY <1>6 DEF CallbackReconcile, TypeOK, CallbackStates
<1>7. ASSUME NEW c \in Callbacks, CallbackLoad(c) PROVE TypeOK'
  <2>1. cb[c] \in [at : {"reconciled", "loaded"}, o : Orders, p : Payments, rec : PayStatuses]
    BY <1>7, CallbackInFlight DEF CallbackLoad
  <2>2. cb' \in [Callbacks -> CallbackStates]
    BY <1>7, <2>1 DEF CallbackLoad, TypeOK, CallbackStates, NoCallback
  <2> QED
    BY <1>7, <2>2 DEF CallbackLoad, TypeOK
<1>8. ASSUME NEW c \in Callbacks, CallbackCapture(c) PROVE TypeOK'
  <2>1. cb[c] \in [at : {"reconciled", "loaded"}, o : Orders, p : Payments, rec : PayStatuses]
    BY <1>8, CallbackInFlight DEF CallbackCapture
  <2>2. [cb[c] EXCEPT !.rec = "captured"] \in CallbackStates
    BY <2>1 DEF CallbackStates, PayStatuses
  <2>3. cb' \in [Callbacks -> CallbackStates]
    BY <1>8, <2>2 DEF CallbackCapture, TypeOK
  <2>4. pay' \in [Payments -> PayStatuses]
    BY <1>8 DEF CallbackCapture, TypeOK, PayStatuses
  <2> QED
    BY <1>8, <2>3, <2>4 DEF CallbackCapture, TypeOK
<1>9. ASSUME NEW c \in Callbacks, CallbackCommit(c) PROVE TypeOK'
  <2>1. cb[c].o \in Orders /\ cb[c].p \in Payments
    BY <1>9, CallbackInFlight DEF CallbackCommit, ReadyToRecord
  <2>2. cb' \in [Callbacks -> CallbackStates]
    BY <1>9 DEF CallbackCommit, TypeOK, CallbackStates
  <2> QED
    BY <1>9, <2>1, <2>2, CaptureTyping DEF CallbackCommit, TypeOK
<1>10. ASSUME NEW c \in Callbacks, CallbackFault(c) PROVE TypeOK'
  BY <1>10, MaxFaultsAssumption DEF CallbackFault, TypeOK, CallbackStates
<1>11. ASSUME NEW h \in Hooks, NEW e \in Events, HookClaim(h, e) PROVE TypeOK'
  BY <1>11 DEF HookClaim, TypeOK, HookStates
<1>12. ASSUME NEW h \in Hooks, HookLoad(h) PROVE TypeOK'
  <2>1. hk[h] \in [at : {"claimed", "loaded", "done", "erred"}, e : Events]
    BY <1>12, HookInFlight DEF HookLoad
  <2>2. hk' \in [Hooks -> HookStates]
    BY <1>12, <2>1 DEF HookLoad, TypeOK, HookStates
  <2>3. diffs' \subseteq {p \in Payments : ~Matches(OrderOf[p], p)}
    BY <1>12, <2>1 DEF HookLoad, TypeOK, Mismatch, Events
  <2> QED
    BY <1>12, <2>2, <2>3 DEF HookLoad, TypeOK
<1>13. ASSUME NEW h \in Hooks, HookCapture(h) PROVE TypeOK'
  <2>1. /\ hk[h] \in [at : {"claimed", "loaded", "done", "erred"}, e : Events]
        /\ hk[h].e[2] \in Payments
        /\ OrderOf[hk[h].e[2]] \in Orders
    BY <1>13, HookInFlight DEF HookCapture
  <2>2. hk' \in [Hooks -> HookStates]
    BY <1>13, <2>1 DEF HookCapture, TypeOK, HookStates
  <2> QED
    BY <1>13, <2>1, <2>2, CaptureTyping DEF HookCapture, TypeOK
<1>14. ASSUME NEW h \in Hooks, HookPaymentFailed(h) PROVE TypeOK'
  <2>1. hk[h] \in [at : {"claimed", "loaded", "done", "erred"}, e : Events]
    BY <1>14, HookInFlight DEF HookPaymentFailed
  <2>2. hk' \in [Hooks -> HookStates]
    BY <1>14, <2>1 DEF HookPaymentFailed, TypeOK, HookStates
  <2>3. /\ status' \in [Orders -> OrderStatuses]
        /\ intent' \in [Orders -> {"none", "created", "succeeded", "failed"}]
    BY <1>14 DEF HookPaymentFailed, TypeOK, OrderStatuses
  <2> QED
    BY <1>14, <2>2, <2>3 DEF HookPaymentFailed, TypeOK
<1>15. ASSUME NEW h \in Hooks, HookBook(h) PROVE TypeOK'
  BY <1>15 DEF HookBook, Outcome, TypeOK, HookStates
<1>16. ASSUME NEW h \in Hooks, HookError(h) PROVE TypeOK'
  <2>1. hk[h] \in [at : {"claimed", "loaded", "done", "erred"}, e : Events]
    BY <1>16, HookInFlight DEF HookError
  <2>2. hk' \in [Hooks -> HookStates]
    BY <1>16, <2>1 DEF HookError, TypeOK, HookStates
  <2> QED
    BY <1>16, <2>2, MaxFaultsAssumption DEF HookError, TypeOK
<1>17. ASSUME NEW h \in Hooks, HookCrash(h) PROVE TypeOK'
  BY <1>17, MaxFaultsAssumption DEF HookCrash, TypeOK, HookStates
<1>18. CASE UNCHANGED vars
  BY <1>18 DEF vars, TypeOK
<1> QED
  BY <1>1, <1>2, <1>3, <1>4, <1>5, <1>6, <1>7, <1>8, <1>9, <1>10, <1>11, <1>12,
     <1>13, <1>14, <1>15, <1>16, <1>17, <1>18 DEF Next, HookStep

LEMMA TypeInit == Init => TypeOK
BY MaxFaultsAssumption DEF Init, TypeOK, OrderStatuses, PayStatuses, CallbackStates,
   HookStates


-----------------------------------------------------------------------------
(* The rows *)

\* recordCapture behind its guarded transition: nothing is posted yet for an order
\* that still waits, so the posting it adds is the order's first.  The attempt may
\* have a payment row already, which then stays the only one.
LEMMA CaptureKeepsRows ==
  ASSUME TypeOK, RowsAgree, UNCHANGED pay,
         NEW o \in Orders, NEW p \in Payments, pay[p] = "captured", Matches(o, p),
         OrderOf[p] = o \/ <<o, p>> \in Presented,
         TryCapture(o, p)
  PROVE  RowsAgree'
<1>1. CASE ~Captures(o)
  BY <1>1 DEF TryCapture, store, RowsAgree
<1>2. CASE Captures(o)
  <2>1. RecordCapture(o, p)
    BY <1>2 DEF TryCapture
  <2>2. o \notin licensed /\ \A x \in posted : x[1] # o
    BY <1>2 DEF Captures, CanMove, RowsAgree
  <2>3. \A x \in Orders : status'[x] = IF x = o THEN "fulfilled" ELSE status[x]
    BY <2>1 DEF RecordCapture, TypeOK
  <2>4. \A x \in Orders : runs'[x] = IF x \in licensed' THEN 1 ELSE 0
    BY <2>1, <2>2 DEF RecordCapture, IssueLicenses, UpdateTurnover, TypeOK, RowsAgree
  <2>5. posted' = posted \cup {<<o, p>>} /\ licensed' = licensed \cup {o}
    BY <2>1 DEF RecordCapture, PostCaptureLedger, IssueLicenses
  <2>6. /\ payrows' \subseteq posted'
        /\ \A x \in posted' : \E y \in payrows' : y[2] = x[2]
        /\ \A x, y \in payrows' : x[2] = y[2] => x = y
    <3>1. CASE \E x \in payrows : x[2] = p
      <4>1. payrows' = payrows
        BY <2>1, <3>1 DEF RecordCapture, InsertPayment
      <4> QED
        BY <2>5, <3>1, <4>1 DEF RowsAgree
    <3>2. CASE ~\E x \in payrows : x[2] = p
      <4>1. payrows' = payrows \cup {<<o, p>>}
        BY <2>1, <3>2 DEF RecordCapture, InsertPayment
      <4> QED
        BY <2>5, <3>2, <4>1 DEF RowsAgree
    <3> QED
      BY <3>1, <3>2
  <2>7. /\ \A x \in posted' : x[1] \in licensed'
        /\ \A x, y \in posted' : x[1] = y[1] => x = y
        /\ \A x \in posted' : pay'[x[2]] = "captured" /\ Matches(x[1], x[2])
        /\ \A x \in posted' : OrderOf[x[2]] = x[1] \/ x \in Presented
        /\ \A x \in licensed' : \E y \in posted' : y[1] = x
    BY <2>2, <2>5 DEF RowsAgree
  <2>8. \A x \in Orders : status'[x] # "paid" /\ (x \in licensed' <=> status'[x] = "fulfilled")
    BY <2>3, <2>5 DEF RowsAgree
  <2> QED
    BY <2>4, <2>6, <2>7, <2>8 DEF RowsAgree, Matches
<1> QED
  BY <1>1, <1>2

\* A step that leaves the licences alone and takes no order into or out of
\* "fulfilled" keeps the rows in agreement, as long as no capture is undone.
LEMMA OtherStepsKeepRows ==
  ASSUME TypeOK, RowsAgree,
         UNCHANGED <<payrows, posted, licensed, runs>>,
         \A o \in Orders : status'[o] = status[o]
           \/ (status[o] # "fulfilled" /\ status'[o] \notin {"fulfilled", "paid"}),
         \A p \in Payments : pay[p] = "captured" => pay'[p] = "captured"
  PROVE  RowsAgree'
BY DEF RowsAgree, TypeOK

\* No step of any actor makes the rows disagree.
LEMMA RowsStep == IInv /\ [Next]_vars => RowsAgree'
<1> SUFFICES ASSUME IInv, [Next]_vars PROVE RowsAgree'
  OBVIOUS
<1> USE DEF IInv, store, handlers
<1>1. ASSUME NEW o \in Orders, CloseWindow(o) \/ BeginPayment(o) \/ ExpireStaleOrder(o)
      PROVE RowsAgree'
  <2>1. UNCHANGED <<payrows, posted, licensed, runs, pay>>
    BY <1>1 DEF CloseWindow, BeginPayment, ExpireStaleOrder
  <2>2. status' = status \/ status' = [status EXCEPT ![o] = "awaiting_payment"]
          \/ status' = [status EXCEPT ![o] = "expired"]
    BY <1>1 DEF CloseWindow, BeginPayment, ExpireStaleOrder
  <2>3. status' = status \/ status[o] # "fulfilled"
    BY <1>1 DEF CloseWindow, BeginPayment, ExpireStaleOrder, Expirable
  <2> QED
    BY <2>1, <2>2, <2>3, OtherStepsKeepRows DEF TypeOK
<1>2. ASSUME NEW p \in Payments, BuyerPays(p) \/ ProviderCaptures(p) PROVE RowsAgree'
  <2>1. UNCHANGED store
    BY <1>2 DEF BuyerPays, ProviderCaptures
  <2>2. \A q \in Payments : pay[q] = "captured" => pay'[q] = "captured"
    BY <1>2 DEF BuyerPays, ProviderCaptures, TypeOK
  <2> QED
    BY <2>1, <2>2, OtherStepsKeepRows
<1>3. ASSUME NEW c \in Callbacks, CallbackCapture(c) PROVE RowsAgree'
  <2>1. \A q \in Payments : pay[q] = "captured" => pay'[q] = "captured"
    BY <1>3 DEF CallbackCapture, TypeOK
  <2> QED
    BY <1>3, <2>1, OtherStepsKeepRows DEF CallbackCapture
<1>4. ASSUME NEW c \in Callbacks, CallbackCommit(c) PROVE RowsAgree'
  <2>1. /\ cb[c].o \in Orders /\ cb[c].p \in Payments
        /\ pay[cb[c].p] = "captured" /\ Matches(cb[c].o, cb[c].p)
        /\ <<cb[c].o, cb[c].p>> \in Presented
    BY <1>4, CallbackInFlight DEF CallbackCommit, ReadyToRecord, ReadsHold, CbHolds
  <2> QED
    BY <1>4, <2>1, CaptureKeepsRows DEF CallbackCommit
<1>5. ASSUME NEW c \in Callbacks,
             \/ \E o \in Orders, p \in Payments : CallbackReconcile(c, o, p)
             \/ CallbackLoad(c) \/ CallbackFault(c)
      PROVE RowsAgree'
  BY <1>5, OtherStepsKeepRows DEF CallbackReconcile, CallbackLoad, CallbackFault
<1>6. ASSUME NEW h \in Hooks, HookCapture(h) PROVE RowsAgree'
  <2>1. /\ hk[h].e[2] \in Payments
        /\ OrderOf[hk[h].e[2]] \in Orders
        /\ pay[hk[h].e[2]] = "captured"
        /\ Matches(OrderOf[hk[h].e[2]], hk[h].e[2])
    BY <1>6, HookInFlight DEF HookCapture, ReadsHold, HkHolds
  <2> QED
    BY <1>6, <2>1, CaptureKeepsRows DEF HookCapture
<1>7. ASSUME NEW h \in Hooks, HookPaymentFailed(h) PROVE RowsAgree'
  <2>1. OrderOf[hk[h].e[2]] \in Orders
    BY <1>7, HookInFlight DEF HookPaymentFailed
  <2>2. \A o \in Orders : status'[o] = status[o]
          \/ (status[o] # "fulfilled" /\ status'[o] = "payment_failed")
    BY <1>7, <2>1 DEF HookPaymentFailed, CanMove, TypeOK
  <2> QED
    BY <1>7, <2>2, OtherStepsKeepRows DEF HookPaymentFailed
<1>8. ASSUME NEW h \in Hooks,
             \/ \E e \in Events : HookClaim(h, e)
             \/ HookLoad(h) \/ HookBook(h) \/ HookError(h) \/ HookCrash(h)
      PROVE RowsAgree'
  BY <1>8, OtherStepsKeepRows DEF HookClaim, HookLoad, HookBook, HookError, HookCrash
<1>9. CASE UNCHANGED vars
  BY <1>9, OtherStepsKeepRows, SMTT(20) DEF vars
<1> QED
  BY <1>1, <1>2, <1>3, <1>4, <1>5, <1>6, <1>7, <1>8, <1>9 DEF Next, HookStep

-----------------------------------------------------------------------------
(* What requests have read *)

\* The provider's record of an attempt is final once it says captured or failed,
\* and an authorised one can only be captured.
PayMoves(before, after) ==
  \A p \in Payments :
    /\ before[p] \in {"captured", "failed"} => after[p] = before[p]
    /\ before[p] = "authorized" => after[p] \in {"authorized", "captured"}

LEMMA PayOnlyMovesOn == IInv /\ [Next]_vars => PayMoves(pay, pay')
<1> SUFFICES ASSUME IInv, [Next]_vars PROVE PayMoves(pay, pay')
  OBVIOUS
<1> USE DEF PayMoves
<1>1. CASE UNCHANGED pay
  BY <1>1
<1>2. ASSUME NEW q \in Payments, BuyerPays(q) \/ ProviderCaptures(q)
      PROVE PayMoves(pay, pay')
  BY <1>2 DEF BuyerPays, ProviderCaptures, IInv, TypeOK
<1>3. ASSUME NEW c \in Callbacks, CallbackCapture(c) PROVE PayMoves(pay, pay')
  <2>1. cb[c].p \in Payments /\ pay[cb[c].p] \in {"authorized", "captured"}
    BY <1>3, CallbackInFlight DEF CallbackCapture, IInv, ReadsHold, CbHolds
  <2> QED
    BY <1>3, <2>1 DEF CallbackCapture, IInv, TypeOK
<1> QED
  BY <1>1, <1>2, <1>3 DEF Next, HookStep, vars, CloseWindow, BeginPayment, ExpireStaleOrder,
     CallbackReconcile, CallbackLoad, CallbackCommit, CallbackFault, HookClaim, HookLoad,
     HookCapture, HookPaymentFailed, HookBook, HookError, HookCrash

\* A request that does not move keeps what it remembers.
LEMMA StillRequestsHold ==
  ASSUME IInv, [Next]_vars
  PROVE  /\ \A c \in Callbacks : cb'[c] = cb[c] => CbHolds(c)'
         /\ \A h \in Hooks : hk'[h] = hk[h] => HkHolds(h)'
<1>1. PayMoves(pay, pay')
  BY PayOnlyMovesOn
<1>2. ASSUME NEW c \in Callbacks, cb'[c] = cb[c] PROVE CbHolds(c)'
  <2>1. cb[c].at # "idle" => cb[c].p \in Payments
    BY CallbackInFlight DEF IInv
  <2>2. CbHolds(c)
    BY DEF IInv, ReadsHold
  <2>3. cb[c].at = "loaded" => cb[c].at # "idle"
    OBVIOUS
  <2> QED
    BY <1>1, <1>2, <2>1, <2>2, <2>3 DEF CbHolds, PayMoves
<1>3. ASSUME NEW h \in Hooks, hk'[h] = hk[h] PROVE HkHolds(h)'
  <2>1. hk[h].at # "idle" => hk[h].e[2] \in Payments /\ hk[h].e[1] \in {"captured", "failed"}
    BY HookInFlight DEF IInv
  <2>2. HkHolds(h)
    BY DEF IInv, ReadsHold
  <2> QED
    BY <1>1, <1>3, <2>1, <2>2 DEF HkHolds, PayMoves
<1> QED
  BY <1>2, <1>3

\* What any request has read stays true until it acts on it.
LEMMA ReadsStep == IInv /\ [Next]_vars => ReadsHold'
<1> SUFFICES ASSUME IInv, [Next]_vars
             PROVE  /\ \A c \in Callbacks : CbHolds(c)'
                    /\ \A h \in Hooks : HkHolds(h)'
  BY SMTT(20) DEF ReadsHold
<1>1. ASSUME NEW c \in Callbacks, cb'[c] # cb[c] PROVE CbHolds(c)'
  <2>1. ASSUME NEW o \in Orders, NEW p \in Payments, CallbackReconcile(c, o, p) PROVE CbHolds(c)'
    BY <2>1 DEF CallbackReconcile, CbHolds, IInv, TypeOK
  <2>2. CASE CallbackLoad(c)
    <3>1. cb[c] \in [at : {"reconciled", "loaded"}, o : Orders, p : Payments, rec : PayStatuses]
      BY <2>2, CallbackInFlight DEF CallbackLoad, IInv
    <3>2. pay' = pay /\ cb'[c] = IF Confirmable(cb[c].o, cb[c].p, cb[c].rec)
                                 THEN [cb[c] EXCEPT !.at = "loaded"] ELSE NoCallback
      BY <2>2 DEF CallbackLoad, IInv, TypeOK
    <3>3. CbHolds(c) /\ cb[c].at # "idle"
      BY <2>2 DEF CallbackLoad, IInv, ReadsHold
    <3> QED
      BY <3>1, <3>2, <3>3 DEF CbHolds, Confirmable, NoCallback
  <2>3. CASE CallbackCapture(c)
    <3>1. cb[c] \in [at : {"reconciled", "loaded"}, o : Orders, p : Payments, rec : PayStatuses]
      BY <2>3, CallbackInFlight DEF CallbackCapture, IInv
    <3>2. cb'[c] = [cb[c] EXCEPT !.rec = "captured"] /\ pay'[cb[c].p] = "captured"
      BY <2>3, <3>1 DEF CallbackCapture, IInv, TypeOK
    <3>3. CbHolds(c) /\ cb[c].at = "loaded"
      BY <2>3 DEF CallbackCapture, IInv, ReadsHold
    <3> QED
      BY <3>1, <3>2, <3>3 DEF CbHolds
  <2>4. CASE CallbackCommit(c) \/ CallbackFault(c)
    BY <2>4 DEF CallbackCommit, CallbackFault, NoCallback, CbHolds, IInv, TypeOK
  <2>5. \A x \in Callbacks :
          \/ \E o \in Orders, p \in Payments : CallbackReconcile(x, o, p)
          \/ CallbackLoad(x) \/ CallbackCapture(x) \/ CallbackCommit(x) \/ CallbackFault(x)
          => cb'[c] = cb[c] \/ x = c
    BY DEF CallbackReconcile, CallbackLoad, CallbackCapture, CallbackCommit, CallbackFault,
       IInv, TypeOK
  <2> QED
    BY <1>1, <2>1, <2>2, <2>3, <2>4, <2>5 DEF Next, HookStep, vars, handlers, CloseWindow,
       BeginPayment, ExpireStaleOrder, BuyerPays, ProviderCaptures, HookClaim, HookLoad,
       HookCapture, HookPaymentFailed, HookBook, HookError, HookCrash
<1>2. ASSUME NEW h \in Hooks, hk'[h] # hk[h] PROVE HkHolds(h)'
  <2>1. ASSUME NEW e \in Events, HookClaim(h, e) PROVE HkHolds(h)'
    BY <2>1 DEF HookClaim, Deliverable, HkHolds, IInv, TypeOK
  <2>2. CASE HookLoad(h)
    <3>1. hk[h] \in [at : {"claimed", "loaded", "done", "erred"}, e : Events]
      BY <2>2, HookInFlight DEF HookLoad, IInv
    <3>2. pay' = pay /\ hk'[h] = [hk[h] EXCEPT
            !.at = IF Actionable(hk[h].e) /\ ~Mismatch(hk[h].e) THEN "loaded" ELSE "done"]
      BY <2>2 DEF HookLoad, IInv, TypeOK
    <3>3. HkHolds(h) /\ hk[h].at # "idle"
      BY <2>2 DEF HookLoad, IInv, ReadsHold
    <3> QED
      BY <3>1, <3>2, <3>3 DEF HkHolds, Mismatch
  <2>3. CASE HookCapture(h) \/ HookPaymentFailed(h) \/ HookError(h)
    <3>1. hk[h] \in [at : {"claimed", "loaded", "done", "erred"}, e : Events]
      BY <2>3, HookInFlight DEF HookCapture, HookPaymentFailed, HookError, IInv
    <3>2. pay' = pay /\ \E s \in {"done", "erred"} : hk'[h] = [hk[h] EXCEPT !.at = s]
      BY <2>3 DEF HookCapture, HookPaymentFailed, HookError, IInv, TypeOK
    <3>3. HkHolds(h) /\ hk[h].at # "idle"
      BY <2>3 DEF HookCapture, HookPaymentFailed, HookError, IInv, ReadsHold
    <3> QED
      BY <3>1, <3>2, <3>3 DEF HkHolds
  <2>4. CASE HookBook(h) \/ HookCrash(h)
    BY <2>4 DEF HookBook, HookCrash, NoHook, HkHolds, IInv, TypeOK
  <2>5. \A x \in Hooks :
          \/ \E e \in Events : HookClaim(x, e)
          \/ HookStep(x) \/ HookError(x) \/ HookCrash(x)
          => hk'[h] = hk[h] \/ x = h
    BY DEF HookClaim, HookStep, HookLoad, HookCapture, HookPaymentFailed, HookBook, HookError,
       HookCrash, IInv, TypeOK
  <2> QED
    BY <1>2, <2>1, <2>2, <2>3, <2>4, <2>5 DEF Next, HookStep, vars, handlers, CloseWindow,
       BeginPayment, ExpireStaleOrder, BuyerPays, ProviderCaptures, CallbackReconcile,
       CallbackLoad, CallbackCapture, CallbackCommit, CallbackFault
<1> QED
  BY <1>1, <1>2, StillRequestsHold

-----------------------------------------------------------------------------
(* Decisions *)

\* An order begins to wait for its payment only by BeginPayment, which an order that
\* already has an intent cannot repeat; and no intent or difference is taken back.
LEMMA WaitingBegins ==
  ASSUME IInv, [Next]_vars
  PROVE  /\ diffs \subseteq diffs'
         /\ \A o \in Orders :
              /\ status[o] # "awaiting_payment" /\ status'[o] = "awaiting_payment"
                   => intent[o] = "none"
              /\ intent[o] # "none" => intent'[o] # "none"
              /\ status'[o] = "draft" => status[o] = "draft" /\ intent'[o] = intent[o]
<1> DEFINE Goal ==
      /\ diffs \subseteq diffs'
      /\ \A o \in Orders :
           /\ status[o] # "awaiting_payment" /\ status'[o] = "awaiting_payment"
                => intent[o] = "none"
           /\ intent[o] # "none" => intent'[o] # "none"
           /\ status'[o] = "draft" => status[o] = "draft" /\ intent'[o] = intent[o]
<1> SUFFICES Goal
  OBVIOUS
<1>1. CASE UNCHANGED <<status, intent, diffs>>
  BY <1>1
<1>2. ASSUME NEW o \in Orders, BeginPayment(o) \/ ExpireStaleOrder(o) PROVE Goal
  BY <1>2 DEF BeginPayment, IntentIsNew, ExpireStaleOrder, IInv, TypeOK
<1>3. ASSUME NEW h \in Hooks, HookLoad(h) PROVE Goal
  BY <1>3 DEF HookLoad
<1>4. ASSUME NEW h \in Hooks, HookPaymentFailed(h) PROVE Goal
  BY <1>4 DEF HookPaymentFailed, IInv, TypeOK
<1>5. ASSUME NEW o \in Orders, NEW p \in Payments, TryCapture(o, p) PROVE Goal
  BY <1>5 DEF TryCapture, RecordCapture, SettleIntent, store, IInv, TypeOK
<1>6. ASSUME NEW c \in Callbacks, CallbackCommit(c) PROVE Goal
  <2>1. cb[c].o \in Orders /\ cb[c].p \in Payments
    BY <1>6, CallbackInFlight DEF CallbackCommit, ReadyToRecord, IInv
  <2> QED
    BY <1>5, <1>6, <2>1 DEF CallbackCommit
<1>7. ASSUME NEW h \in Hooks, HookCapture(h) PROVE Goal
  <2>1. hk[h].e[2] \in Payments /\ OrderOf[hk[h].e[2]] \in Orders
    BY <1>7, HookInFlight DEF HookCapture, IInv
  <2> QED
    BY <1>5, <1>7, <2>1 DEF HookCapture
<1> QED
  BY <1>1, <1>2, <1>3, <1>4, <1>6, <1>7 DEF Next, HookStep, vars, store, CloseWindow,
     BuyerPays, ProviderCaptures, CallbackReconcile, CallbackLoad, CallbackCapture,
     CallbackFault, HookClaim, HookBook, HookError, HookCrash

\* A decision about a captured attempt is never undone.
LEMMA DecisionsStand ==
  ASSUME IInv, [Next]_vars, NEW p \in Payments, pay[p] = "captured", Decided(p)
  PROVE  Decided(p)' /\ pay'[p] = "captured"
<1>1. OrderOf[p] \in Orders /\ intent[OrderOf[p]] # "none"
  BY OrderOfAssumption DEF IInv, CapturesStayDecided
<1>2. pay'[p] = "captured"
  BY PayOnlyMovesOn DEF PayMoves
<1> QED
  BY <1>1, <1>2, WaitingBegins DEF Decided

\* Only a buyer who was sent to the provider's page pays.
LEMMA PaidOrdersHaveIntents ==
  ASSUME IInv, [Next]_vars
  PROVE  /\ \A o \in Orders : status'[o] = "draft" => intent'[o] = "none"
         /\ \A p \in Payments : pay'[p] # "none" => intent'[OrderOf[p]] # "none"
<1>1. \A o \in Orders : status'[o] = "draft" => intent'[o] = "none"
  BY WaitingBegins DEF IInv, CapturesStayDecided
<1>2. ASSUME NEW p \in Payments, pay'[p] # "none" PROVE intent'[OrderOf[p]] # "none"
  <2>1. OrderOf[p] \in Orders
    BY OrderOfAssumption
  <2>2. CASE pay[p] # "none"
    BY <2>1, <2>2, WaitingBegins, SMTT(20) DEF IInv, CapturesStayDecided
  <2>3. CASE pay[p] = "none"
    <3>1. ASSUME NEW q \in Payments, BuyerPays(q) PROVE intent'[OrderOf[p]] # "none"
      BY <3>1, <2>3, <1>2 DEF BuyerPays, store, IInv, TypeOK
    <3>2. ASSUME NEW q \in Payments, ProviderCaptures(q) PROVE FALSE
      BY <3>2, <2>3, <1>2 DEF ProviderCaptures, IInv, TypeOK
    <3>3. ASSUME NEW c \in Callbacks, CallbackCapture(c) PROVE FALSE
      <4>1. cb[c].p # p
        BY <3>3, <2>3 DEF CallbackCapture, IInv, ReadsHold, CbHolds
      <4> QED
        BY <3>3, <4>1, <2>3, <1>2 DEF CallbackCapture, IInv, TypeOK
    <3> QED
      BY <3>1, <3>2, <3>3, <2>3, <1>2 DEF Next, HookStep, vars, CloseWindow, BeginPayment,
         ExpireStaleOrder, CallbackReconcile, CallbackLoad, CallbackCommit, CallbackFault,
         HookClaim, HookLoad, HookCapture, HookPaymentFailed, HookBook, HookError, HookCrash
  <2> QED
    BY <2>2, <2>3
<1> QED
  BY <1>1, <1>2

\* A webhook request reports success only for a decision: the order did not wait when
\* it was read, or a difference was recorded, or the capture was written.
LEMMA DoneIsDecided ==
  ASSUME IInv, [Next]_vars, NEW h \in Hooks,
         hk'[h].at = "done", hk'[h].e[1] = "captured"
  PROVE  Decided(hk[h].e[2])'
<1>1. CASE hk'[h] = hk[h]
  <2>1. hk[h].e[2] \in Payments /\ pay[hk[h].e[2]] = "captured" /\ Decided(hk[h].e[2])
    BY <1>1, HookInFlight DEF IInv, ReadsHold, HkHolds, CapturesStayDecided
  <2> QED
    BY <1>1, <2>1, DecisionsStand
<1>2. CASE HookLoad(h)
  <2>1. hk[h] \in [at : {"claimed", "loaded", "done", "erred"}, e : Events]
    BY <1>2, HookInFlight DEF HookLoad, IInv
  <2>2. hk'[h] = [hk[h] EXCEPT
          !.at = IF Actionable(hk[h].e) /\ ~Mismatch(hk[h].e) THEN "loaded" ELSE "done"]
    BY <1>2 DEF HookLoad, IInv, TypeOK
  <2>3. ~Actionable(hk[h].e) \/ Mismatch(hk[h].e)
    BY <2>1, <2>2
  <2>4. hk'[h].e = hk[h].e
    BY <2>1, <2>2
  <2>5. status' = status
    BY <1>2 DEF HookLoad
  <2>6. CASE ~Actionable(hk[h].e)
    BY <2>4, <2>5, <2>6 DEF Actionable, Decided
  <2>7. CASE Actionable(hk[h].e) /\ Mismatch(hk[h].e)
    BY <1>2, <2>4, <2>7 DEF HookLoad, Decided
  <2> QED
    BY <2>3, <2>6, <2>7
<1>3. CASE HookCapture(h)
  <2>1. hk[h] \in [at : {"claimed", "loaded", "done", "erred"}, e : Events]
    BY <1>3, HookInFlight DEF HookCapture, IInv
  <2>2. OrderOf[hk[h].e[2]] \in Orders
    BY <1>3, HookInFlight DEF HookCapture, IInv
  <2>3. hk'[h] = [hk[h] EXCEPT
          !.at = IF Captures(OrderOf[hk[h].e[2]]) THEN "done" ELSE "erred"]
    BY <1>3 DEF HookCapture, IInv, TypeOK
  <2>4. Captures(OrderOf[hk[h].e[2]]) /\ hk'[h].e = hk[h].e
    BY <2>1, <2>3
  <2>5. status'[OrderOf[hk[h].e[2]]] = "fulfilled"
    BY <1>3, <2>2, <2>4 DEF HookCapture, TryCapture, RecordCapture, IInv, TypeOK
  <2> QED
    BY <2>4, <2>5 DEF Decided
<1>4. CASE HookPaymentFailed(h)
  <2>1. hk[h] \in [at : {"claimed", "loaded", "done", "erred"}, e : Events]
    BY <1>4, HookInFlight DEF HookPaymentFailed, IInv
  <2>2. \E s \in {"done", "erred"} : hk'[h] = [hk[h] EXCEPT !.at = s]
    BY <1>4 DEF HookPaymentFailed, IInv, TypeOK
  <2> QED
    BY <1>4, <2>1, <2>2 DEF HookPaymentFailed
<1>5. CASE (\E e \in Events : HookClaim(h, e)) \/ HookBook(h) \/ HookError(h) \/ HookCrash(h)
  <2>1. HookError(h) => hk[h] \in [at : {"claimed", "loaded", "done", "erred"}, e : Events]
    BY HookInFlight DEF HookError, IInv
  <2> QED
    BY <1>5, <2>1 DEF HookClaim, HookBook, HookError, HookCrash, NoHook, IInv, TypeOK
<1>6. \A x \in Hooks :
        \/ \E e \in Events : HookClaim(x, e)
        \/ HookStep(x) \/ HookError(x) \/ HookCrash(x)
        => hk'[h] = hk[h] \/ x = h
  BY DEF HookClaim, HookStep, HookLoad, HookCapture, HookPaymentFailed, HookBook, HookError,
     HookCrash, IInv, TypeOK
<1> QED
  BY <1>1, <1>2, <1>3, <1>4, <1>5, <1>6 DEF Next, HookStep, vars, handlers, CloseWindow,
     BeginPayment, ExpireStaleOrder, BuyerPays, ProviderCaptures, CallbackReconcile,
     CallbackLoad, CallbackCapture, CallbackCommit, CallbackFault

\* A capture event is marked processed only by a request that is done with it.
LEMMA ProcessedIsDecided ==
  ASSUME IInv, [Next]_vars, NEW p \in Payments, hooklog'[<<"captured", p>>] = "processed"
  PROVE  Decided(p)' /\ pay'[p] = "captured"
<1> DEFINE e == <<"captured", p>>
<1>1. e \in Events
  BY DEF Events
<1>2. CASE hooklog[e] = "processed"
  BY <1>2, DecisionsStand DEF IInv, CapturesStayDecided
<1>3. CASE hooklog[e] # "processed"
  <2>1. PICK h \in Hooks : HookBook(h)
    <3>1. ASSUME NEW h \in Hooks, NEW x \in Events, HookClaim(h, x) PROVE FALSE
      BY <3>1, <1>1, <1>3 DEF HookClaim, IInv, TypeOK
    <3> QED
      BY <3>1, <1>3 DEF Next, HookStep, vars, CloseWindow, BeginPayment, ExpireStaleOrder,
         BuyerPays, ProviderCaptures, CallbackReconcile, CallbackLoad, CallbackCapture,
         CallbackCommit, CallbackFault, HookLoad, HookCapture, HookPaymentFailed,
         HookError, HookCrash
  <2>2. hk[h].e = e /\ hk[h].at = "done"
    BY <2>1, <1>1, <1>3 DEF HookBook, Outcome, IInv, TypeOK
  <2>3. pay[p] = "captured" /\ Decided(p)
    BY <2>2 DEF IInv, ReadsHold, HkHolds, CapturesStayDecided
  <2> QED
    BY <2>3, DecisionsStand, SMTT(20)
<1> QED
  BY <1>2, <1>3

LEMMA DecidedStep == IInv /\ [Next]_vars => CapturesStayDecided'
<1> SUFFICES ASSUME IInv, [Next]_vars PROVE CapturesStayDecided'
  OBVIOUS
<1>1. \A h \in Hooks :
        hk'[h].at = "done" /\ hk'[h].e[1] = "captured" => Decided(hk[h].e[2])'
  BY DoneIsDecided
<1>2. \A p \in Payments : hooklog'[<<"captured", p>>] = "processed" =>
        Decided(p)' /\ pay'[p] = "captured"
  BY ProcessedIsDecided
<1> QED
  BY <1>1, <1>2, PaidOrdersHaveIntents DEF CapturesStayDecided, Decided

-----------------------------------------------------------------------------
(* Theorems *)

LEMMA InvInit == Init => IInv
<1> SUFFICES ASSUME Init PROVE IInv
  OBVIOUS
<1>1. RowsAgree
  BY DEF Init, RowsAgree
<1>2. ReadsHold
  BY DEF Init, ReadsHold, CbHolds, HkHolds, NoCallback, NoHook
<1>3. CapturesStayDecided
  <2>1. \A p \in Payments : <<"captured", p>> \in Events
    BY DEF Events
  <2> QED
    BY <2>1 DEF Init, CapturesStayDecided, NoHook
<1> QED
  BY <1>1, <1>2, <1>3, TypeInit DEF IInv

LEMMA InvStep == IInv /\ [Next]_vars => IInv'
BY TypeStep, RowsStep, ReadsStep, DecidedStep DEF IInv

\* The inductive invariant behind the safety theorems below.
THEOREM InvariantHolds == Spec => []IInv
BY InvInit, InvStep, PTL DEF Spec

\* The types declared for the rows, the webhook log and the requests in flight hold
\* in every reachable state.
THEOREM TypeCorrect == Spec => []TypeOK
BY InvariantHolds, PTL DEF IInv

\* recordCapture commits once per order, whichever of the callbacks and webhooks that
\* race for it gets there first, however many attempts the buyer made and whichever
\* attempts browsers bring to the callback.
THEOREM CapturesOnce == Spec => []OneCapturePerOrder
<1>1. IInv => OneCapturePerOrder
  BY DEF IInv, RowsAgree, OneCapturePerOrder
<1> QED
  BY <1>1, InvariantHolds, PTL

\* An order is fulfilled, licensed and posted together, against captured money of the
\* order's own amount, which is another order's only if a browser brought it.
THEOREM EntitlementIsPaid == Spec => []EntitlementMatchesMoney
<1>1. IInv => EntitlementMatchesMoney
  BY DEF IInv, RowsAgree, EntitlementMatchesMoney, TypeOK
<1> QED
  BY <1>1, InvariantHolds, PTL

\* HandleWebhook acknowledges a capture only when its order no longer waits for it or
\* a reconciliation difference was recorded, through errors and crashes.
THEOREM AcknowledgementsAreDecisions == Spec => []AcknowledgedCaptureIsDecided
<1>1. IInv => AcknowledgedCaptureIsDecided
  BY DEF IInv, CapturesStayDecided, Decided, AcknowledgedCaptureIsDecided
<1> QED
  BY <1>1, InvariantHolds, PTL

\* No handler moves an order out of fulfilled or expired.
LEMMA FinalStep ==
  ASSUME IInv, [Next]_vars, NEW o \in Orders, status[o] \in {"fulfilled", "expired"}
  PROVE  status'[o] = status[o]
<1>1. CASE UNCHANGED status
  BY <1>1
<1>2. ASSUME NEW x \in Orders, BeginPayment(x) \/ ExpireStaleOrder(x)
      PROVE status'[o] = status[o]
  BY <1>2 DEF BeginPayment, ExpireStaleOrder, Expirable, IInv, TypeOK
<1>3. ASSUME NEW h \in Hooks, HookPaymentFailed(h) PROVE status'[o] = status[o]
  BY <1>3 DEF HookPaymentFailed, CanMove, IInv, TypeOK
<1>4. ASSUME NEW x \in Orders, NEW p \in Payments, TryCapture(x, p) PROVE status'[o] = status[o]
  BY <1>4 DEF TryCapture, RecordCapture, Captures, CanMove, store, IInv, TypeOK
<1>5. ASSUME NEW c \in Callbacks, CallbackCommit(c) PROVE status'[o] = status[o]
  <2>1. cb[c].o \in Orders /\ cb[c].p \in Payments
    BY <1>5, CallbackInFlight DEF CallbackCommit, ReadyToRecord, IInv
  <2> QED
    BY <1>4, <1>5, <2>1 DEF CallbackCommit
<1>6. ASSUME NEW h \in Hooks, HookCapture(h) PROVE status'[o] = status[o]
  <2>1. hk[h].e[2] \in Payments /\ OrderOf[hk[h].e[2]] \in Orders
    BY <1>6, HookInFlight DEF HookCapture, IInv
  <2> QED
    BY <1>4, <1>6, <2>1 DEF HookCapture
<1> QED
  BY <1>1, <1>2, <1>3, <1>5, <1>6 DEF Next, HookStep, vars, store, CloseWindow, BuyerPays,
     ProviderCaptures, CallbackReconcile, CallbackLoad, CallbackCapture, CallbackFault,
     HookClaim, HookLoad, HookBook, HookError, HookCrash

\* A late failure event, a late capture or the expiry sweep never moves an order that
\* was fulfilled or has expired.
THEOREM FinalStatusesNeverMove == Spec => FinalStatusesStay
<1>1. IInv /\ [Next]_vars =>
        [\A o \in Orders : status[o] \in {"fulfilled", "expired"} => status'[o] = status[o]]_status
  BY FinalStep
<1> QED
  BY <1>1, InvariantHolds, PTL DEF Spec, FinalStatusesStay

-----------------------------------------------------------------------------
(* Refinement *)

charged == {p \in Payments : pay[p] = "captured"}
closed  == {o \in Orders : status[o] = "expired"}
saleVars == <<charged, posted, closed>>

\* A capture that commits is the abstract sale.
LEMMA CaptureSells ==
  ASSUME IInv, UNCHANGED pay, NEW o \in Orders, NEW p \in Payments,
         pay[p] = "captured", Matches(o, p), TryCapture(o, p)
  PROVE  [Abstract!Next]_saleVars
<1>1. UNCHANGED charged
  BY DEF charged
<1>2. CASE ~Captures(o)
  BY <1>1, <1>2 DEF TryCapture, store, saleVars, closed
<1>3. CASE Captures(o)
  <2>1. posted' = posted \cup {<<o, p>>} /\ status' = [status EXCEPT ![o] = "fulfilled"]
    BY <1>3 DEF TryCapture, RecordCapture, PostCaptureLedger
  <2>2. status[o] = "awaiting_payment"
    BY <1>3 DEF Captures, CanMove
  <2>3. UNCHANGED closed
    BY <2>1, <2>2, <1>1 DEF closed, IInv, TypeOK
  <2>4. o \notin closed /\ \A x \in posted : x[1] # o
    BY <2>2, <1>1 DEF closed, IInv, RowsAgree
  <2>5. Abstract!Sell(o, p)
    BY <2>1, <2>3, <2>4, <1>1 DEF Abstract!Sell, Abstract!Unsold, Matches, charged, closed
  <2> QED
    BY <2>5 DEF Abstract!Next
<1> QED
  BY <1>2, <1>3

\* Every step of a handler, of the sweep or of the provider sells, charges, closes, or
\* leaves the abstract sale alone.
LEMMA SaleStep == IInv /\ [Next]_vars => [Abstract!Next]_saleVars
<1> SUFFICES ASSUME IInv, [Next]_vars PROVE [Abstract!Next]_saleVars
  OBVIOUS
<1>1. ASSUME UNCHANGED <<status, posted>>, NEW p \in Payments,
             UNCHANGED pay \/ pay' = [pay EXCEPT ![p] = "captured"]
      PROVE [Abstract!Next]_saleVars
  <2>1. UNCHANGED closed
    BY <1>1 DEF closed
  <2>2. UNCHANGED charged \/ charged' = charged \cup {p}
    BY <1>1 DEF charged, IInv, TypeOK
  <2> QED
    BY <1>1, <2>1, <2>2 DEF Abstract!Next, Abstract!Charge, saleVars, charged, closed
<1>2. ASSUME UNCHANGED <<status, posted, pay>> PROVE [Abstract!Next]_saleVars
  BY <1>2 DEF saleVars, charged, closed
<1>3. ASSUME NEW o \in Orders, BeginPayment(o) PROVE [Abstract!Next]_saleVars
  <2>1. UNCHANGED closed
    BY <1>3 DEF BeginPayment, closed, IInv, TypeOK
  <2> QED
    BY <1>3, <2>1 DEF BeginPayment, saleVars, charged
<1>4. ASSUME NEW o \in Orders, ExpireStaleOrder(o) PROVE [Abstract!Next]_saleVars
  <2>1. closed' = closed \cup {o}
    BY <1>4 DEF ExpireStaleOrder, closed, IInv, TypeOK
  <2>2. \A x \in posted : x[1] # o
    BY <1>4 DEF ExpireStaleOrder, Expirable, IInv, RowsAgree
  <2>3. UNCHANGED <<charged, posted>>
    BY <1>4 DEF ExpireStaleOrder, charged
  <2>4. Abstract!Close(o)
    BY <2>1, <2>2, <2>3 DEF Abstract!Close, Abstract!Unsold, charged, closed
  <2> QED
    BY <2>4 DEF Abstract!Next
<1>5. ASSUME NEW p \in Payments, BuyerPays(p) PROVE [Abstract!Next]_saleVars
  <2>1. PICK s \in {"authorized", "captured", "failed"} : pay' = [pay EXCEPT ![p] = s]
    BY <1>5 DEF BuyerPays
  <2>2. CASE s = "captured"
    BY <1>1, <1>5, <2>1, <2>2 DEF BuyerPays, store
  <2>3. CASE s # "captured"
    BY <1>5, <2>1, <2>3 DEF BuyerPays, store, saleVars, charged, closed, IInv, TypeOK
  <2> QED
    BY <2>2, <2>3
<1>6. ASSUME NEW p \in Payments, ProviderCaptures(p) PROVE [Abstract!Next]_saleVars
  BY <1>1, <1>6 DEF ProviderCaptures, store
<1>7. ASSUME NEW c \in Callbacks, CallbackCapture(c) PROVE [Abstract!Next]_saleVars
  <2>1. cb[c].p \in Payments
    BY <1>7, CallbackInFlight DEF CallbackCapture, IInv
  <2> QED
    BY <1>1, <1>7, <2>1 DEF CallbackCapture, store
<1>8. ASSUME NEW c \in Callbacks, CallbackCommit(c) PROVE [Abstract!Next]_saleVars
  <2>1. /\ cb[c].o \in Orders /\ cb[c].p \in Payments
        /\ pay[cb[c].p] = "captured" /\ Matches(cb[c].o, cb[c].p)
    BY <1>8, CallbackInFlight DEF CallbackCommit, ReadyToRecord, IInv, ReadsHold, CbHolds
  <2> QED
    BY <1>8, <2>1, CaptureSells DEF CallbackCommit
<1>9. ASSUME NEW h \in Hooks, HookCapture(h) PROVE [Abstract!Next]_saleVars
  <2>1. /\ hk[h].e[2] \in Payments /\ OrderOf[hk[h].e[2]] \in Orders
        /\ pay[hk[h].e[2]] = "captured" /\ Matches(OrderOf[hk[h].e[2]], hk[h].e[2])
    BY <1>9, HookInFlight DEF HookCapture, IInv, ReadsHold, HkHolds
  <2> QED
    BY <1>9, <2>1, CaptureSells DEF HookCapture
<1>10. ASSUME NEW h \in Hooks, HookPaymentFailed(h) PROVE [Abstract!Next]_saleVars
  <2>1. UNCHANGED closed
    BY <1>10 DEF HookPaymentFailed, CanMove, closed, IInv, TypeOK
  <2> QED
    BY <1>10, <2>1 DEF HookPaymentFailed, saleVars, charged
<1> QED
  BY <1>2, <1>3, <1>4, <1>5, <1>6, <1>7, <1>8, <1>9, <1>10 DEF Next, HookStep, vars, store,
     CloseWindow, CallbackReconcile, CallbackLoad, CallbackFault, HookClaim, HookLoad,
     HookBook, HookError, HookCrash

\* The purchase path implements the abstract sale: whatever requests race, fail or are
\* repeated, an order is sold at most once, for money taken of its own amount, and never
\* once expired.
THEOREM PurchaseImplementsSale == Spec => ImplementsSale
<1>1. Init => Abstract!Init
  BY DEF Init, Abstract!Init
<1>2. IInv /\ [Next]_vars => [Abstract!Next]_<<charged, posted, closed>>
  BY SaleStep DEF saleVars
<1> QED
  BY <1>1, <1>2, InvariantHolds, PTL DEF Spec, ImplementsSale, Abstract!Spec, charged, closed
=============================================================================
