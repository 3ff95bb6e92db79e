------------------------------ MODULE Purchase ------------------------------
(***************************************************************************)
(* From checkout to entitlement: BeginPayment, the browser callback        *)
(* (ConfirmPayment), the provider's webhooks (HandleWebhook) and the       *)
(* worker's expire_stale_orders, all moving the same order.                *)
(*                                                                         *)
(* The two confirmation paths share recordCapture, which writes the        *)
(* payment row, the journal entry, the licence, the append-only turnover   *)
(* rows and the new status in one READ COMMITTED transaction.  The order   *)
(* is read without a lock before that transaction writes, and the provider *)
(* is asked before that, so a handler is modelled as the steps             *)
(* "ask the provider", "read the order", "write": others act in between.   *)
(* All the lines of an order are handled alike, so an order is one line.   *)
(*                                                                         *)
(* The callback names its order in the URL and the payment in the body;    *)
(* the two are compared by amount only, so an order may be confirmed with  *)
(* an attempt that was made for another (Presented).  The webhook finds    *)
(* the order through the attempt's intent.                                 *)
(***************************************************************************)
EXTENDS Naturals, FiniteSets

CONSTANTS
  Orders,       \* orders placed by checkout
  Payments,     \* payment attempts at the provider, each made for one order
  OrderOf,      \* the order a payment attempt was made for
  AmountOf,     \* the amount the provider took an attempt for
  TotalOf,      \* the order's grand total
  Presented,    \* the pairs of order and attempt that browsers bring to the callback
  VariantOf,    \* the product variant an order is for
  MaxSales,     \* product_variants.max_sales
  Callbacks,    \* concurrent ConfirmPayment requests
  Hooks,        \* concurrent webhook requests
  MaxFaults     \* bound on crashes and provider outages

ASSUME OrderOfAssumption == OrderOf \in [Payments -> Orders]
ASSUME PresentedAssumption == Presented \subseteq Orders \X Payments
ASSUME VariantsAssumption == \A o \in Orders : MaxSales[VariantOf[o]] \in Nat \ {0}
ASSUME MaxFaultsAssumption == MaxFaults \in Nat

VARIABLES
  status,      \* orders.status
  windowOpen,  \* orders.expires_at has not passed
  intent,      \* payment_intents.status of the order's intent, "none" if absent
  payrows,     \* payments: the rows, as pairs of order and attempt
  posted,      \* journal entries with key capture:<order>:<payment>, as pairs
  licensed,    \* orders with a licence row
  runs,        \* per order, committed runs of recordCapture: what it appends
               \* without a unique key (turnover deltas, sales_count, order.paid)
  diffs,       \* reconciliation_differences, by attempt
  pay,         \* the provider's own record of each attempt
  hooklog,     \* provider_webhook_events.process_status, "absent" if no row
  cb,          \* each callback request: where it is, what it was given and read
  hk,          \* each webhook request: where it is, its event
  faults       \* faults so far

store    == <<status, intent, payrows, posted, licensed, runs, diffs>>
handlers == <<cb, hk>>
vars     == <<status, windowOpen, intent, payrows, posted, licensed, runs,
              diffs, pay, hooklog, cb, hk, faults>>

-----------------------------------------------------------------------------
(* Values *)

\* The statuses an order passes through on its way to an entitlement.
OrderStatuses ==
  {"draft", "awaiting_payment", "payment_failed", "paid", "fulfilled", "expired"}

\* order_transitions_allowed, restricted to those statuses.
OrderTransitions ==
  {<<"draft", "awaiting_payment">>, <<"draft", "expired">>,
   <<"awaiting_payment", "paid">>, <<"awaiting_payment", "payment_failed">>,
   <<"awaiting_payment", "expired">>, <<"payment_failed", "awaiting_payment">>,
   <<"paid", "fulfilled">>}

PayStatuses == {"none", "authorized", "captured", "failed"}

\* A webhook event: the provider's id for "payment p was captured / failed".
Events == {"captured", "failed"} \X Payments

IdleCb(c) == cb[c].at = "idle"
IdleHk(h) == hk[h].at = "idle"

NoCallback == [at |-> "idle"]
NoHook     == [at |-> "idle"]

CallbackStates ==
  {NoCallback} \cup
    [at : {"reconciled", "loaded"}, o : Orders, p : Payments, rec : PayStatuses]

\* The provider took attempt p for the total of order o.
Matches(o, p) == AmountOf[p] = TotalOf[o]

HookStates ==
  {NoHook} \cup [at : {"claimed", "loaded", "done", "erred"}, e : Events]

TypeOK ==
  /\ status \in [Orders -> OrderStatuses]
  /\ windowOpen \in [Orders -> BOOLEAN]
  /\ intent \in [Orders -> {"none", "created", "succeeded", "failed"}]
  /\ payrows \subseteq Orders \X Payments
  /\ posted \subseteq Orders \X Payments
  /\ licensed \subseteq Orders
  /\ runs \in [Orders -> Nat]
  /\ diffs \subseteq {p \in Payments : ~Matches(OrderOf[p], p)}
  /\ pay \in [Payments -> PayStatuses]
  /\ hooklog \in [Events -> {"absent", "received", "processed", "failed"}]
  /\ cb \in [Callbacks -> CallbackStates]
  /\ hk \in [Hooks -> HookStates]
  /\ faults \in 0 .. MaxFaults

Init ==
  /\ status = [o \in Orders |-> "draft"]
  /\ windowOpen = [o \in Orders |-> TRUE]
  /\ intent = [o \in Orders |-> "none"]
  /\ payrows = {}
  /\ posted = {}
  /\ licensed = {}
  /\ runs = [o \in Orders |-> 0]
  /\ diffs = {}
  /\ pay = [p \in Payments |-> "none"]
  /\ hooklog = [e \in Events |-> "absent"]
  /\ cb = [c \in Callbacks |-> NoCallback]
  /\ hk = [h \in Hooks |-> NoHook]
  /\ faults = 0

-----------------------------------------------------------------------------
(* The outside world: time, the buyer and the provider *)

\* now() passes the order's expires_at.
CloseWindow(o) ==
  /\ windowOpen[o]
  /\ windowOpen' = [windowOpen EXCEPT ![o] = FALSE]
  /\ UNCHANGED <<store, pay, hooklog, handlers, faults>>

\* The buyer pays on the provider's page, which the order's handoff opened.  The
\* provider lets an attempt be made whatever our order has become meanwhile.
BuyerPays(p) ==
  /\ intent[OrderOf[p]] # "none"
  /\ pay[p] = "none"
  /\ \E s \in {"authorized", "captured", "failed"} : pay' = [pay EXCEPT ![p] = s]
  /\ UNCHANGED <<store, windowOpen, hooklog, handlers, faults>>

\* payment_capture = 1: the provider captures an authorised attempt by itself.
ProviderCaptures(p) ==
  /\ pay[p] = "authorized"
  /\ pay' = [pay EXCEPT ![p] = "captured"]
  /\ UNCHANGED <<store, windowOpen, hooklog, handlers, faults>>

-----------------------------------------------------------------------------
(* Writes shared by the handlers *)

\* Mutant of CanMove: the transition overwrites whatever status is there.
CanMoveUnguarded(o, from, to) == TRUE

\* UPDATE orders SET status = to WHERE id = o AND status = from, under the
\* trigger that raises for a transition outside order_transitions_allowed.
CanMove(o, from, to) == status[o] = from /\ <<from, to>> \in OrderTransitions

\* sales_count = sales_count + 1 passes product_variants_within_max_sales.  Checkout
\* looked at sales_count too, when none of these orders had been paid.
InStock(o) ==
  Cardinality({x \in licensed : VariantOf[x] = VariantOf[o]}) < MaxSales[VariantOf[o]]

\* The two places where recordCapture may fail on what it finds.
Captures(o) == CanMove(o, "awaiting_payment", "paid") /\ InStock(o)

\* The journal entry, keyed capture:<order>:<payment>.
PostCaptureLedger(o, p) == posted' = posted \cup {<<o, p>>}

\* INSERT ... ON CONFLICT (provider, provider_payment_id) DO NOTHING: the row keeps
\* the order it was first inserted for.
InsertPayment(o, p) ==
  payrows' = IF \E x \in payrows : x[2] = p THEN payrows ELSE payrows \cup {<<o, p>>}

\* UPDATE payment_intents WHERE order_id = o AND provider_intent_id = the attempt's:
\* no row when the attempt was made for another order, and the count is not looked at.
SettleIntent(o, p) ==
  intent' = [intent EXCEPT ![o] = IF OrderOf[p] = o THEN "succeeded" ELSE @]

\* The licence row, one per order item.
IssueLicenses(o) == licensed' = licensed \cup {o}

\* What is appended with no unique key: a repetition would count twice.
UpdateTurnover(o) == runs' = [runs EXCEPT ![o] = @ + 1]

\* recordCapture once nothing stops it; the status goes through paid to fulfilled.
RecordCapture(o, p) ==
  /\ InsertPayment(o, p)
  /\ SettleIntent(o, p)
  /\ PostCaptureLedger(o, p)
  /\ status' = [status EXCEPT ![o] = "fulfilled"]
  /\ IssueLicenses(o)
  /\ UpdateTurnover(o)
  /\ UNCHANGED diffs

\* recordCapture as its callers see it: it commits, or errConcurrentTransition or
\* the constraint rolls everything back.
TryCapture(o, p) ==
  IF Captures(o)
  THEN RecordCapture(o, p)
  ELSE UNCHANGED store

-----------------------------------------------------------------------------
(* BeginPayment and the expiry sweep *)

\* payment_intents_provider_uq: CreatePayment carries the key payment:<order>, so
\* the provider answers a second call with the same id, which cannot be inserted.
IntentIsNew(o) == intent[o] = "none"

BeginPayment(o) ==
  /\ status[o] \in {"draft", "payment_failed"}
  /\ IntentIsNew(o)
  /\ CanMove(o, status[o], "awaiting_payment")
  /\ intent' = [intent EXCEPT ![o] = "created"]
  /\ status' = [status EXCEPT ![o] = "awaiting_payment"]
  /\ UNCHANGED <<payrows, posted, licensed, runs, diffs,
                 windowOpen, pay, hooklog, handlers, faults>>

\* Mutant of Expirable: the sweep looks at the clock only.
ExpirableByTime(o) == ~windowOpen[o]

\* The sweep selects its rows FOR UPDATE SKIP LOCKED, so the status it read is the
\* status it overwrites.
Expirable(o) == status[o] \in {"draft", "awaiting_payment"} /\ ~windowOpen[o]

ExpireStaleOrder(o) ==
  /\ Expirable(o)
  /\ status' = [status EXCEPT ![o] = "expired"]
  /\ UNCHANGED <<intent, payrows, posted, licensed, runs, diffs,
                 windowOpen, pay, hooklog, handlers, faults>>

-----------------------------------------------------------------------------
(* ConfirmPayment: the browser's callback *)

\* VerifyPayment and ReconcilePayment, before the transaction.  The signature covers
\* the intent and the payment of the body, not the order of the URL.
CallbackReconcile(c, o, p) ==
  /\ IdleCb(c)
  /\ <<o, p>> \in Presented
  /\ pay[p] # "none"
  /\ cb' = [cb EXCEPT ![c] = [at |-> "reconciled", o |-> o, p |-> p, rec |-> pay[p]]]
  /\ UNCHANGED <<store, windowOpen, pay, hooklog, hk, faults>>

\* The checks on the order as loaded: it awaits payment, the amount is the total
\* and the provider has captured or can capture.
Confirmable(o, p, rec) ==
  /\ status[o] = "awaiting_payment"
  /\ Matches(o, p)
  /\ rec \in {"captured", "authorized"}

\* LoadOrder and the early returns: replay, not awaiting payment, wrong amount,
\* payment not completed.
CallbackLoad(c) ==
  /\ cb[c].at = "reconciled"
  /\ cb' = [cb EXCEPT ![c] = IF Confirmable(@.o, @.p, @.rec)
                             THEN [@ EXCEPT !.at = "loaded"] ELSE NoCallback]
  /\ UNCHANGED <<store, windowOpen, pay, hooklog, hk, faults>>

\* CapturePayment at the provider, inside our still uncommitted transaction.
CallbackCapture(c) ==
  /\ cb[c].at = "loaded"
  /\ cb[c].rec = "authorized"
  /\ pay' = [pay EXCEPT ![cb[c].p] = "captured"]
  /\ cb' = [cb EXCEPT ![c].rec = "captured"]
  /\ UNCHANGED <<store, windowOpen, hooklog, hk, faults>>

\* Mutant of ReadyToRecord: an authorisation is taken for a capture.
ReadyToRecordAuthorised(c) == cb[c].at = "loaded"

\* What recordCapture is given: the provider's record says captured.
ReadyToRecord(c) == cb[c].at = "loaded" /\ cb[c].rec = "captured"

CallbackCommit(c) ==
  /\ ReadyToRecord(c)
  /\ TryCapture(cb[c].o, cb[c].p)
  /\ cb' = [cb EXCEPT ![c] = NoCallback]
  /\ UNCHANGED <<windowOpen, pay, hooklog, hk, faults>>

\* The request dies, or the provider does not answer: the transaction rolls back.
\* What CallbackCapture did at the provider stays done.
CallbackFault(c) ==
  /\ ~IdleCb(c)
  /\ faults < MaxFaults
  /\ faults' = faults + 1
  /\ cb' = [cb EXCEPT ![c] = NoCallback]
  /\ UNCHANGED <<store, windowOpen, pay, hooklog, hk>>

-----------------------------------------------------------------------------
(* HandleWebhook *)

\* The provider sends an event once it is true, and again while it is not
\* acknowledged; a delivery of a processed event is answered as a duplicate and
\* changes nothing.
Deliverable(e) == pay[e[2]] = e[1] /\ hooklog[e] # "processed"

\* webhook_claim: the row is inserted as received, or found received or failed
\* and tried again.
HookClaim(h, e) ==
  /\ IdleHk(h)
  /\ Deliverable(e)
  /\ hooklog' = [hooklog EXCEPT ![e] = IF @ = "absent" THEN "received" ELSE @]
  /\ hk' = [hk EXCEPT ![h] = [at |-> "claimed", e |-> e]]
  /\ UNCHANGED <<store, windowOpen, pay, cb, faults>>

\* The reads of onPaymentCaptured and onPaymentFailed: only an order that awaits
\* payment is acted on, for every other status the handler returns nil.
Actionable(e) == status[OrderOf[e[2]]] = "awaiting_payment"

\* The amount the provider reports is not the order's total.
Mismatch(e) == e[1] = "captured" /\ ~Matches(OrderOf[e[2]], e[2])

\* ReconcilePayment and LoadOrder, with the early returns; a captured attempt of
\* the wrong amount is recorded as a difference and is then done.
HookLoad(h) ==
  LET e == hk[h].e IN
  /\ hk[h].at = "claimed"
  /\ hk' = [hk EXCEPT ![h].at = IF Actionable(e) /\ ~Mismatch(e) THEN "loaded" ELSE "done"]
  /\ diffs' = IF Actionable(e) /\ Mismatch(e) THEN diffs \cup {e[2]} ELSE diffs
  /\ UNCHANGED <<status, intent, payrows, posted, licensed, runs,
                 windowOpen, pay, hooklog, cb, faults>>

\* The write of onPaymentCaptured.
HookCapture(h) ==
  LET p == hk[h].e[2] IN
  /\ hk[h].at = "loaded"
  /\ hk[h].e[1] = "captured"
  /\ hk' = [hk EXCEPT ![h].at = IF Captures(OrderOf[p]) THEN "done" ELSE "erred"]
  /\ TryCapture(OrderOf[p], p)
  /\ UNCHANGED <<windowOpen, pay, hooklog, cb, faults>>

\* The write of onPaymentFailed.
HookPaymentFailed(h) ==
  LET o == OrderOf[hk[h].e[2]] IN
  /\ hk[h].at = "loaded"
  /\ hk[h].e[1] = "failed"
  /\ IF CanMove(o, "awaiting_payment", "payment_failed")
     THEN /\ status' = [status EXCEPT ![o] = "payment_failed"]
          /\ intent' = [intent EXCEPT ![o] = "failed"]
          /\ hk' = [hk EXCEPT ![h].at = "done"]
     ELSE /\ hk' = [hk EXCEPT ![h].at = "erred"]
          /\ UNCHANGED <<status, intent>>
  /\ UNCHANGED <<payrows, posted, licensed, runs, diffs,
                 windowOpen, pay, hooklog, cb, faults>>

\* ReconcilePayment or the transaction fails: applyWebhook returns an error.
HookError(h) ==
  /\ hk[h].at \in {"claimed", "loaded"}
  /\ faults < MaxFaults
  /\ faults' = faults + 1
  /\ hk' = [hk EXCEPT ![h].at = "erred"]
  /\ UNCHANGED <<store, windowOpen, pay, hooklog, cb>>

\* Mutant of Outcome: a failed apply is acknowledged.
OutcomeIgnoringErrors(h) == "processed"

\* The bookkeeping after applyWebhook, unconditional on what the row says by now.
Outcome(h) == IF hk[h].at = "done" THEN "processed" ELSE "failed"

HookBook(h) ==
  /\ hk[h].at \in {"done", "erred"}
  /\ hooklog' = [hooklog EXCEPT ![hk[h].e] = Outcome(h)]
  /\ hk' = [hk EXCEPT ![h] = NoHook]
  /\ UNCHANGED <<store, windowOpen, pay, cb, faults>>

\* The process dies between two of its transactions.
HookCrash(h) ==
  /\ ~IdleHk(h)
  /\ faults < MaxFaults
  /\ faults' = faults + 1
  /\ hk' = [hk EXCEPT ![h] = NoHook]
  /\ UNCHANGED <<store, windowOpen, pay, hooklog, cb>>

-----------------------------------------------------------------------------
HookStep(h) == HookLoad(h) \/ HookCapture(h) \/ HookPaymentFailed(h) \/ HookBook(h)

Next ==
  \/ \E o \in Orders : CloseWindow(o) \/ BeginPayment(o) \/ ExpireStaleOrder(o)
  \/ \E p \in Payments : BuyerPays(p) \/ ProviderCaptures(p)
  \/ \E c \in Callbacks, o \in Orders, p \in Payments : CallbackReconcile(c, o, p)
  \/ \E c \in Callbacks :
       CallbackLoad(c) \/ CallbackCapture(c) \/ CallbackCommit(c) \/ CallbackFault(c)
  \/ \E h \in Hooks, e \in Events : HookClaim(h, e)
  \/ \E h \in Hooks :
       HookStep(h) \/ HookError(h) \/ HookCrash(h)

Spec == Init /\ [][Next]_vars

\* A webhook request that started runs on, and the provider repeats an event until
\* it is acknowledged.  Nothing is assumed of the browser, of the buyer, of time or
\* of the sweep: the webhook alone must suffice.
FairSpec ==
  /\ Spec
  /\ \A h \in Hooks : WF_vars(HookStep(h))
  /\ \A e \in Events : SF_vars(\E h \in Hooks : HookClaim(h, e))

-----------------------------------------------------------------------------
(* Properties *)

\* However the callback, repeated webhooks and a second attempt on the same order
\* race, recordCapture commits once per order: one capture posting, and nothing it
\* appends without a unique key is appended twice.  Each attempt it recorded has one
\* payment row, which stands with the first of the orders it was posted for.
OneCapturePerOrder ==
  /\ \A o \in Orders : runs[o] = IF o \in licensed THEN 1 ELSE 0
  /\ \A x, y \in posted : x[1] = y[1] => x = y
  /\ \A x, y \in payrows : x[2] = y[2] => x = y
  /\ payrows \subseteq posted
  /\ \A x \in posted : \E y \in payrows : y[2] = x[2]

\* Entitlement and money agree (the checks of handlers_verify.go): an order is
\* fulfilled and licensed exactly when a capture is posted for it, and a posting
\* stands for money the provider holds, of the order's own amount.  It is money of
\* another order's attempt only where a browser brought the two together.
EntitlementMatchesMoney ==
  /\ \A o \in Orders : o \in licensed <=> status[o] = "fulfilled"
  /\ licensed = {x[1] : x \in posted}
  /\ \A x \in posted : pay[x[2]] = "captured" /\ Matches(x[1], x[2])
  /\ \A x \in posted : OrderOf[x[2]] = x[1] \/ x \in Presented

\* What the self-check no_duplicate_capture_for_a_payment says (handlers_verify.go:123):
\* "a provider payment must be captured into the ledger exactly once".
PaymentCapturedOnce == \A x, y \in posted : x[2] = y[2] => x = y

\* A capture event is acknowledged only when there is nothing left to decide for
\* its order: whatever errors, crashes and overlapping deliveries came before, the
\* order no longer waits for its payment, or a difference was recorded.
AcknowledgedCaptureIsDecided ==
  \A p \in Payments :
    hooklog[<<"captured", p>>] = "processed" =>
      p \in diffs \/ status[OrderOf[p]] # "awaiting_payment"

\* A late failure event, a late capture or the sweep never moves an order that was
\* fulfilled or has expired.
FinalStatusesStay ==
  [][\A o \in Orders : status[o] \in {"fulfilled", "expired"} => status'[o] = status[o]]_status

\* The webhook path alone resolves a capture: an order that awaits payment while the
\* provider holds its money does not wait for ever, with no help from the browser
\* (webhook.go:182: "the authoritative confirmation path", which "makes an order paid
\* even if the buyer closed the tab").
CaptureIsResolved ==
  \A p \in Payments :
    (pay[p] = "captured" /\ status[OrderOf[p]] = "awaiting_payment")
      ~> (p \in diffs \/ status[OrderOf[p]] # "awaiting_payment")

\* The purchase path implements the abstract sale.
Abstract == INSTANCE Sale WITH
  charged <- {p \in Payments : pay[p] = "captured"},
  sold    <- posted,
  closed  <- {o \in Orders : status[o] = "expired"}

\* Every step of the handlers is a step of the abstract sale or leaves it alone.
ImplementsSale == Abstract!Spec
=============================================================================
