------------------------------ MODULE Gateway -------------------------------
(***************************************************************************)
(* Calls of a payment provider (internal/modules/payments) and the         *)
(* provider they reach (internal/testsupport/gatewaysim, which the tests   *)
(* and the development set-up run against).                                *)
(*                                                                         *)
(* A call is one method of an adapter: it is refused by the adapter, or    *)
(* sent, and sent again after a transport error or an answer 429 or 5xx.   *)
(* An attempt the client has stopped waiting for goes on at the provider,  *)
(* where the look at the stored answers, the handler and the storing of    *)
(* its answer are three steps.  All calls are about one payment, its first *)
(* transfer and one linked account; amounts are of one currency.           *)
(***************************************************************************)
EXTENDS Naturals, Sequences, Functions

CONSTANTS
    ProviderCalls, \* calls, each with an idempotency key of its own
    Amount,        \* the amount of every order
    MaxRetries,    \* RequestOptions.MaxRetries
    MaxRows,       \* bound: orders and transfers at the provider
    MaxNetFaults,  \* bound: attempts abandoned, answers lost or unreadable, outages
    MaxRepeats     \* bound: calls made again by their caller

ASSUME GatewayBounds ==
    /\ Amount \in Nat \ {0} /\ MaxRetries \in Nat
    /\ MaxRows \in Nat /\ MaxNetFaults \in Nat /\ MaxRepeats \in Nat

VARIABLES
    adapter,    \* "route", "bridge" or "mor"
    provider,   \* what the provider has stored
    answered,   \* the calls whose idempotency key has a stored answer
    call,       \* the calls and what their callers were told
    wire,       \* the attempts at the provider or on their way to it
    effects,    \* history: how often a call took effect
    overlapped, \* history: calls with two attempts between look-up and storing
    straggled,  \* history: calls sent again while an attempt was on the wire
    netFaults, callRepeats

gatewayHistory == <<effects, overlapped, straggled>>
gatewayVars ==
    <<adapter, provider, answered, call, wire, gatewayHistory, netFaults, callRepeats>>

NewCall == [at |-> "new", n |-> 0, left |-> MaxRetries, answer |-> "none"]

\* What the methods ask for.  A split is what an order gives to the linked account.
CreatePayments   == [is : {"order"}, split : {0, 1, Amount + 1}]
CapturePayments  == [is : {"capture"}]
Transfers        == [is : {"transfer"}, amount : {1, Amount}, hold : BOOLEAN]
Refunds          == [is : {"refund"}, amount : {1, Amount}, all : BOOLEAN]
Reversals        == [is : {"reverse"}, amount : {1, Amount}]
Settlements      == [is : {"hold", "release"}]
LinkedAccounts   == [is : {"account"}]
Beneficiaries    == [is : {"validate"}]
Reconciliations  == [is : {"fetch"}]

Wanted == CreatePayments \cup CapturePayments \cup Transfers \cup Refunds \cup Reversals
              \cup Settlements \cup LinkedAccounts \cup Beneficiaries \cup Reconciliations

NoProvider ==
    [account |-> "none", orders |-> <<>>, payment |-> [status |-> "none", refunded |-> 0],
     transfers |-> <<>>]

GatewayInit ==
    /\ adapter \in {"route", "bridge", "mor"}
    /\ provider \in {NoProvider,
          [NoProvider EXCEPT !.account = "activated",
                             !.orders = <<1>>,
                             !.payment.status = "captured",
                             !.transfers = <<[amount |-> 1, onHold |-> TRUE, reversed |-> 0]>>]}
    /\ answered = {}
    /\ call = [c \in ProviderCalls |-> NewCall]
    /\ wire = {}
    /\ effects = [c \in ProviderCalls |-> 0]
    /\ overlapped = {} /\ straggled = {}
    /\ netFaults = 0 /\ callRepeats = 0

----------------------------------------------------------------------------
(* The adapters. *)

NeedsRoute(q) ==
    q.is \in {"transfer", "hold", "release", "reverse"} \/ (q.is = "order" /\ q.split > 0)

\* The splits of an order exceed its amount.
OverSplit(q) == q.is = "order" /\ q.split > Amount

\* A merchant of record validates no beneficiary.
NotSupported(q) == (NeedsRoute(q) /\ adapter # "route") \/ (q.is = "validate" /\ adapter = "mor")

\* Answered by the adapter.
Refused(q) == NotSupported(q) \/ OverSplit(q)

\* A merchant of record has no linked accounts: the adapter makes one up.
MadeUp(q) == q.is = "account" /\ adapter = "mor"

\* What is sent: a merchant of record is asked for a payment instead of its capture, and
\* transfers are reversed with a refund only where there are any.
Sent(q) ==
    IF q.is = "capture" /\ adapter = "mor" THEN [is |-> "fetch"]
    ELSE IF q.is = "refund" THEN [q EXCEPT !.all = @ /\ adapter = "route"]
    ELSE q

Keyed(q) == q.is \notin {"hold", "release", "fetch"}

----------------------------------------------------------------------------
(* The client. *)

\* client.do puts an attempt on the wire, under the key of its call.
Send(c, q, left) ==
    LET n == call[c].n + 1
    IN  /\ call' = [call EXCEPT ![c] = [at |-> "waiting", n |-> n, left |-> left,
                                        answer |-> "none", q |-> q]]
        /\ wire' = wire \cup {[call |-> c, n |-> n, at |-> "sent"]}
        /\ straggled' = straggled \cup {m.call : m \in {a \in wire : a.call = c}}

\* A method is called.
CallProvider(c, q) ==
    /\ call[c].at = "new"
    /\ IF Refused(q) \/ MadeUp(q)
       THEN /\ call' = [call EXCEPT ![c].at = "ended",
                                    ![c].answer = IF MadeUp(q) THEN "made up" ELSE "refused"]
            /\ UNCHANGED <<wire, straggled>>
       ELSE Send(c, Sent(q), MaxRetries)
    /\ UNCHANGED <<adapter, provider, answered, effects, overlapped, netFaults, callRepeats>>

\* After the back-off.
Retry(c) ==
    /\ call[c].at = "backoff"
    /\ Send(c, call[c].q, call[c].left)
    /\ UNCHANGED <<adapter, provider, answered, effects, overlapped, netFaults, callRepeats>>

\* The caller's context ends first.
Cancelled(c) ==
    /\ call[c].at = "backoff"
    /\ call' = [call EXCEPT ![c].at = "ended", ![c].answer = "error"]
    /\ UNCHANGED <<adapter, provider, answered, wire, gatewayHistory, netFaults, callRepeats>>

\* The caller makes a call that failed again, with its key.
CallAgain(c) ==
    /\ call[c].at = "ended" /\ call[c].answer \in {"unavailable", "error"}
    /\ callRepeats < MaxRepeats /\ callRepeats' = callRepeats + 1
    /\ Send(c, call[c].q, MaxRetries)
    /\ UNCHANGED <<adapter, provider, answered, effects, overlapped, netFaults>>

\* An answer, or none: what is worth another attempt, and what the caller is told.
Told(c, answer) ==
    IF answer # "unavailable"
    THEN [call EXCEPT ![c].at = "ended", ![c].answer = answer]
    ELSE IF call[c].left = 0
    THEN [call EXCEPT ![c].at = "ended", ![c].answer = "unavailable"]
    ELSE [call EXCEPT ![c].at = "backoff", ![c].left = @ - 1]

\* A time-out or a broken connection: the attempt has not arrived, or goes on.
Abandon(m) ==
    /\ m.n = call[m.call].n /\ call[m.call].at = "waiting"
    /\ netFaults < MaxNetFaults /\ netFaults' = netFaults + 1
    /\ call' = Told(m.call, "unavailable")
    /\ UNCHANGED wire \/ (m.at = "sent" /\ wire' = wire \ {m})
    /\ UNCHANGED <<adapter, provider, answered, gatewayHistory, callRepeats>>

----------------------------------------------------------------------------
(* The provider. *)

\* An attempt is over, and its call hears of it if it still waits.
Reply(m, answer) ==
    /\ wire' = wire \ {m}
    /\ call' = IF m.n = call[m.call].n /\ call[m.call].at = "waiting"
               THEN Told(m.call, answer) ELSE call

AtProvider(m) == m.at \in {"missed", "handled"}

\* Mutant of Stored: the key is not sent with the attempt.
StoredNever(m) == FALSE

\* The key has an answer.
Stored(m) == Keyed(call[m.call].q) /\ m.call \in answered

LookUp(m) ==
    /\ m.at = "sent"
    /\ IF Stored(m)
       THEN Reply(m, "ok") /\ UNCHANGED overlapped
       ELSE /\ wire' = (wire \ {m}) \cup {[m EXCEPT !.at = "missed"]}
            /\ overlapped' = overlapped \cup {a.call : a \in {b \in wire : b.call = m.call /\ AtProvider(b)}}
            /\ UNCHANGED call
    /\ UNCHANGED <<adapter, provider, answered, effects, straggled, netFaults, callRepeats>>

Allocated(transfers) == FoldFunction(LAMBDA t, sum : t.amount + sum, 0, transfers)

\* 404
Unknown(q) ==
    \/ q.is \in {"capture", "transfer", "refund", "fetch"} /\ provider.payment.status = "none"
    \/ q.is \in {"reverse", "hold", "release"} /\ provider.transfers = <<>>

\* What a handler leaves, in a set; the set is empty when it answers 400.
CreateOrder(q) ==
    {p \in {[provider EXCEPT !.orders = Append(@, q.split)]} :
        q.split > 0 => provider.account # "none"}

CapturePayment ==
    {p \in {[provider EXCEPT !.payment.status = "captured"]} :
        provider.payment.status \in {"authorized", "captured"}}

CreateTransfer(q) ==
    {p \in {[provider EXCEPT !.transfers =
                Append(@, [amount |-> q.amount, onHold |-> q.hold, reversed |-> 0])]} :
        provider.account = "activated" /\ Allocated(p.transfers) <= Amount}

Refunded(payment, amount) ==
    [status |-> IF payment.refunded + amount = Amount THEN "refunded" ELSE payment.status,
     refunded |-> payment.refunded + amount]

Reversed(t) == [t EXCEPT !.reversed = t.amount]

RefundPayment(q) ==
    {p \in {[provider EXCEPT
                !.payment = Refunded(@, q.amount),
                !.transfers = IF q.all THEN [i \in DOMAIN @ |-> Reversed(@[i])] ELSE @]} :
        provider.payment.status \in {"captured", "refunded"} /\ p.payment.refunded <= Amount}

ReverseTransfer(q) ==
    {p \in {[provider EXCEPT !.transfers[1].reversed = @ + q.amount]} :
        p.transfers[1].reversed <= p.transfers[1].amount}

PatchTransfer(q) == {[provider EXCEPT !.transfers[1].onHold = q.is = "hold"]}

CreateAccount == {[provider EXCEPT !.account = "created"]}

\* An account is validated, or a payment is read.
ReadOnly == {provider}

Handled(q) ==
    CASE q.is = "order"    -> CreateOrder(q)
      [] q.is = "capture"  -> CapturePayment
      [] q.is = "transfer" -> CreateTransfer(q)
      [] q.is = "refund"   -> RefundPayment(q)
      [] q.is = "reverse"  -> ReverseTransfer(q)
      [] q.is \in {"hold", "release"}   -> PatchTransfer(q)
      [] q.is = "account"  -> CreateAccount
      [] q.is \in {"fetch", "validate"} -> ReadOnly

WithinRows(p) == Len(p.orders) <= MaxRows /\ Len(p.transfers) <= MaxRows

\* The handler, under the provider's lock.
HandleCall(m) ==
    LET q == call[m.call].q IN
    /\ m.at = "missed"
    /\ IF ~ Unknown(q) /\ Handled(q) # {}
       THEN /\ provider' \in Handled(q)
            /\ WithinRows(provider')
            /\ effects' = [effects EXCEPT ![m.call] = @ + 1]
            /\ wire' = (wire \ {m}) \cup {[m EXCEPT !.at = "handled"]}
            /\ UNCHANGED call
       ELSE /\ Reply(m, IF Unknown(q) THEN "not found" ELSE "rejected")
            /\ UNCHANGED <<provider, effects>>
    /\ UNCHANGED <<adapter, answered, overlapped, straggled, netFaults, callRepeats>>

\* What the handler wrote is stored and sent, to a client that may not make sense of it.
StoreAnswer(m) ==
    /\ m.at = "handled"
    /\ answered' = IF Keyed(call[m.call].q) THEN answered \cup {m.call} ELSE answered
    /\ \/ Reply(m, "ok") /\ UNCHANGED netFaults
       \/ Reply(m, "error") /\ netFaults < MaxNetFaults /\ netFaults' = netFaults + 1
    /\ UNCHANGED <<adapter, provider, gatewayHistory, callRepeats>>

\* 429 or 5xx instead of the handler: nothing is stored.
Outage(m) ==
    /\ m.at = "missed"
    /\ netFaults < MaxNetFaults /\ netFaults' = netFaults + 1
    /\ Reply(m, "unavailable")
    /\ UNCHANGED <<adapter, provider, answered, gatewayHistory, callRepeats>>

\* The customer pays an order, for the first time: what an order splits is on hold.
Pay ==
    /\ provider.payment.status = "none"
    /\ \E i \in DOMAIN provider.orders, status \in {"authorized", "captured", "failed"} :
          provider' = [provider EXCEPT
              !.payment.status = status,
              !.transfers = IF status = "captured" /\ provider.orders[i] > 0
                            THEN <<[amount |-> provider.orders[i], onHold |-> TRUE, reversed |-> 0]>>
                            ELSE @]
    /\ UNCHANGED <<adapter, answered, call, wire, gatewayHistory, netFaults, callRepeats>>

\* The provider reviews the linked account.
Activate ==
    /\ provider.account # "none"
    /\ \E status \in {"activated", "suspended"} : provider' = [provider EXCEPT !.account = status]
    /\ UNCHANGED <<adapter, answered, call, wire, gatewayHistory, netFaults, callRepeats>>

GatewayNext ==
    \/ \E c \in ProviderCalls :
          \/ \E q \in Wanted : CallProvider(c, q)
          \/ Retry(c) \/ Cancelled(c) \/ CallAgain(c)
    \/ \E m \in wire :
          Abandon(m) \/ LookUp(m) \/ HandleCall(m) \/ StoreAnswer(m) \/ Outage(m)
    \/ Pay \/ Activate

GatewaySpec == GatewayInit /\ [][GatewayNext]_gatewayVars

----------------------------------------------------------------------------
(* Properties. *)

GatewayTypeOK ==
    /\ provider.account \in {"none", "created", "activated", "suspended"}
    /\ provider.payment.refunded \in 0 .. Amount
    /\ Allocated(provider.transfers) <= Amount
    /\ \A i \in DOMAIN provider.transfers :
          provider.transfers[i].reversed <= provider.transfers[i].amount
    /\ answered \subseteq ProviderCalls
    /\ \A m \in wire : m.call \in ProviderCalls /\ m.n <= call[m.call].n

\* However often a call is sent, by the client or by its caller, it takes effect at most
\* once, unless two of its attempts were past the look-up at the same time; a caller that
\* is told "ok" had it done; and one that is told that the provider rejected the call or
\* does not know its object (mapProviderError: "No money has been taken") may believe it,
\* unless an attempt was still under way when the call was sent again.
RetriesTakeEffectOnce ==
    \A c \in ProviderCalls :
        /\ effects[c] > 1 /\ Keyed(call[c].q) => c \in overlapped
        /\ call[c].answer = "ok" => effects[c] > 0
        /\ call[c].answer \in {"rejected", "not found"} /\ effects[c] > 0 => c \in straggled
=============================================================================
