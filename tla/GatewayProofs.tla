--------------------------- MODULE GatewayProofs ----------------------------
(***************************************************************************)
(* What holds of Gateway for any calls, retries, faults and bounds.        *)
(*                                                                         *)
(* A key protects a call by what is known between the look-up and the      *)
(* storing: as long as one attempt of a call is past its look-up, a missed *)
(* look-up means that the call has done nothing yet, and what it has done  *)
(* is stored or about to be.  A call that has no key takes effect again,   *)
(* but it cannot be rejected after it did: its object stays.               *)
(***************************************************************************)
EXTENDS Gateway, TLAPS

Kinds == {"order", "capture", "transfer", "refund", "reverse",
          "hold", "release", "account", "validate", "fetch"}

Rows == [amount : Nat, onHold : BOOLEAN, reversed : Nat]

Payments == [status : {"none", "authorized", "captured", "failed", "refunded"}, refunded : Nat]

Provided ==
    [account : {"none", "created", "activated", "suspended"}, orders : Seq(Nat),
     payment : Payments, transfers : Seq(Rows)]

Answers == {"none", "ok", "error", "unavailable", "rejected", "not found"}

\* The attempts; a call that was never sent, and one that was.
Attempts == [call : ProviderCalls, n : Nat, at : {"sent", "missed", "handled"}]
NeverSent == [at : {"new", "ended"}, n : Nat, left : Nat, answer : {"none", "made up", "refused"}]
SentCalls == [at : {"waiting", "backoff", "ended"}, n : Nat, left : Nat, answer : Answers, q : Wanted]
Unsent(c) == call[c].at = "new" \/ call[c].answer \in {"made up", "refused"}

LEMMA QueryTypes ==
    ASSUME NEW q \in Wanted
    PROVE  /\ q.is \in Kinds
           /\ q.is = "order" => q.split \in Nat
           /\ q.is \in {"transfer", "refund", "reverse"} => q.amount \in Nat
           /\ q.is = "transfer" => q.hold \in BOOLEAN
<1>0. Amount \in Nat
  BY GatewayBounds
<1>1. CASE q \in CreatePayments
  BY <1>0, <1>1 DEF CreatePayments, Kinds
<1>2. CASE q \in CapturePayments
  BY <1>2 DEF CapturePayments, Kinds
<1>3. CASE q \in Transfers
  BY <1>0, <1>3 DEF Transfers, Kinds
<1>4. CASE q \in Refunds
  BY <1>0, <1>4 DEF Refunds, Kinds
<1>5. CASE q \in Reversals
  BY <1>0, <1>5 DEF Reversals, Kinds
<1>6. CASE q \in Settlements \cup LinkedAccounts \cup Beneficiaries \cup Reconciliations
  BY <1>6 DEF Settlements, LinkedAccounts, Beneficiaries, Reconciliations, Kinds
<1> QED
  BY <1>1, <1>2, <1>3, <1>4, <1>5, <1>6 DEF Wanted

\* An adapter asks the provider for what a method may ask for.
LEMMA SentIsWanted == ASSUME NEW q \in Wanted PROVE Sent(q) \in Wanted
<1>1. CASE q.is = "capture" /\ adapter = "mor"
  BY <1>1 DEF Sent, Wanted, Reconciliations
<1>2. CASE q.is = "refund"
  <2>1. q \in Refunds
    BY <1>2 DEF Wanted, CreatePayments, CapturePayments, Transfers, Reversals, Settlements,
       LinkedAccounts, Beneficiaries, Reconciliations
  <2>2. [q EXCEPT !.all = @ /\ adapter = "route"] \in Refunds
    BY <2>1 DEF Refunds
  <2> QED
    BY <1>2, <2>2 DEF Sent, Wanted
<1> QED
  BY <1>1, <1>2 DEF Sent

\* The objects a call may ask for stay where they are.
Grows(p) ==
    /\ p \in Provided
    /\ provider.payment.status # "none" => p.payment.status # "none"
    /\ provider.transfers # <<>> => p.transfers # <<>>

\* Updates of the rows of transfers.
LEMMA FirstRow ==
    ASSUME NEW s \in Seq(Rows), Len(s) # 0, NEW n \in Nat, NEW b \in BOOLEAN
    PROVE  /\ [s EXCEPT ![1].reversed = @ + n] \in Seq(Rows)
           /\ Len([s EXCEPT ![1].reversed = @ + n]) = Len(s)
           /\ [s EXCEPT ![1].onHold = b] \in Seq(Rows)
           /\ Len([s EXCEPT ![1].onHold = b]) = Len(s)
<1>1. s[1] \in Rows /\ 1 \in DOMAIN s
  OBVIOUS
<1>2. ASSUME NEW x \in Rows
      PROVE  [x EXCEPT !.reversed = @ + n] \in Rows /\ [x EXCEPT !.onHold = b] \in Rows
  BY DEF Rows
<1>3. ASSUME NEW x \in Rows PROVE [s EXCEPT ![1] = x] \in Seq(Rows) /\ Len([s EXCEPT ![1] = x]) = Len(s)
  BY <1>1
<1>4. [s EXCEPT ![1].reversed = @ + n] = [s EXCEPT ![1] = [s[1] EXCEPT !.reversed = @ + n]]
  BY Zenon
<1>5. [s EXCEPT ![1].onHold = b] = [s EXCEPT ![1] = [s[1] EXCEPT !.onHold = b]]
  BY Zenon
<1> QED
  BY <1>1, <1>2, <1>3, <1>4, <1>5

LEMMA EveryRow ==
    ASSUME NEW s \in Seq(Rows)
    PROVE  /\ [i \in DOMAIN s |-> Reversed(s[i])] \in Seq(Rows)
           /\ Len([i \in DOMAIN s |-> Reversed(s[i])]) = Len(s)
<1>1. ASSUME NEW x \in Rows PROVE Reversed(x) \in Rows
  BY DEF Reversed, Rows
<1>2. DOMAIN s = 1 .. Len(s) /\ Len(s) \in Nat
  OBVIOUS
<1> QED
  BY <1>1, <1>2

LEMMA HandlersGrow ==
    ASSUME provider \in Provided, NEW q \in Wanted, ~ Unknown(q), NEW p \in Handled(q)
    PROVE  Grows(p)
<1>1. CASE q.is = "order"
  <2>1. p = [provider EXCEPT !.orders = Append(@, q.split)]
    BY <1>1 DEF Handled, CreateOrder
  <2>2. Append(provider.orders, q.split) \in Seq(Nat)
    BY <1>1, QueryTypes DEF Provided
  <2> QED
    BY <2>1, <2>2 DEF Grows, Provided
<1>2. CASE q.is = "capture"
  <2>1. p = [provider EXCEPT !.payment.status = "captured"]
    BY <1>2 DEF Handled, CapturePayment
  <2> QED
    BY <2>1 DEF Grows, Provided, Payments
<1>3. CASE q.is = "transfer"
  <2> DEFINE row == [amount |-> q.amount, onHold |-> q.hold, reversed |-> 0]
  <2>1. p = [provider EXCEPT !.transfers = Append(@, row)]
    BY <1>3 DEF Handled, CreateTransfer
  <2>2. row \in Rows
    BY <1>3, QueryTypes DEF Rows
  <2> HIDE DEF row
  <2>3. Append(provider.transfers, row) \in Seq(Rows) /\ Append(provider.transfers, row) # <<>>
    BY <2>2 DEF Provided
  <2> QED
    BY <2>1, <2>3 DEF Grows, Provided
<1>4. CASE q.is = "refund"
  <2> DEFINE pay  == Refunded(provider.payment, q.amount)
             rows == IF q.all THEN [i \in DOMAIN provider.transfers |-> Reversed(provider.transfers[i])]
                     ELSE provider.transfers
  <2>1. p = [provider EXCEPT !.payment = pay, !.transfers = rows]
    BY <1>4 DEF Handled, RefundPayment, Provided
  <2>2. provider.payment.status # "none" /\ provider.payment \in Payments
    BY <1>4 DEF Unknown, Provided
  <2>3. pay \in Payments /\ pay.status # "none"
    BY <1>4, <2>2, QueryTypes DEF Refunded, Payments
  <2>4. rows \in Seq(Rows) /\ Len(rows) = Len(provider.transfers)
    BY EveryRow DEF Provided
  <2> HIDE DEF pay, rows
  <2>5. provider.transfers # <<>> => rows # <<>>
    BY <2>4 DEF Provided
  <2> QED
    BY <2>1, <2>3, <2>4, <2>5 DEF Grows, Provided
<1>5. CASE q.is = "reverse"
  <2>0. provider.transfers \in Seq(Rows) /\ Len(provider.transfers) \in Nat \ {0} /\ q.amount \in Nat
    BY <1>5, QueryTypes DEF Unknown, Provided
  <2>1. p = [provider EXCEPT !.transfers[1].reversed = @ + q.amount]
    BY <1>5 DEF Handled, ReverseTransfer
  <2>2. p.transfers = [provider.transfers EXCEPT ![1].reversed = @ + q.amount]
    BY <2>1 DEF Provided
  <2>3. p.transfers \in Seq(Rows) /\ Len(p.transfers) = Len(provider.transfers)
    BY <2>0, <2>2, FirstRow, ZenonT(30)
  <2> QED
    BY <2>0, <2>1, <2>3 DEF Grows, Provided
<1>6. CASE q.is \in {"hold", "release"}
  <2>0. provider.transfers \in Seq(Rows) /\ Len(provider.transfers) \in Nat \ {0}
    BY <1>6 DEF Unknown, Provided
  <2>1. p = [provider EXCEPT !.transfers[1].onHold = q.is = "hold"]
    BY <1>6 DEF Handled, PatchTransfer
  <2>2. p.transfers = [provider.transfers EXCEPT ![1].onHold = q.is = "hold"]
    BY <2>1 DEF Provided
  <2>3. p.transfers \in Seq(Rows) /\ Len(p.transfers) = Len(provider.transfers)
    BY <2>0, <2>2, FirstRow
  <2> QED
    BY <2>0, <2>1, <2>3 DEF Grows, Provided
<1>7. CASE q.is = "account"
  <2>1. p = [provider EXCEPT !.account = "created"]
    BY <1>7 DEF Handled, CreateAccount
  <2> QED
    BY <2>1 DEF Grows, Provided
<1>8. CASE q.is \in {"fetch", "validate"}
  BY <1>8 DEF Handled, ReadOnly, Grows
<1> QED
  BY <1>1, <1>2, <1>3, <1>4, <1>5, <1>6, <1>7, <1>8, QueryTypes DEF Kinds

LEMMA PaymentGrows == ASSUME provider \in Provided, Pay PROVE Grows(provider')
<1>1. PICK i \in DOMAIN provider.orders, status \in {"authorized", "captured", "failed"} :
         provider' = [provider EXCEPT
              !.payment.status = status,
              !.transfers = IF status = "captured" /\ provider.orders[i] > 0
                            THEN <<[amount |-> provider.orders[i], onHold |-> TRUE, reversed |-> 0]>>
                            ELSE @]
  BY DEF Pay
<1>2. provider.orders[i] \in Nat
  BY DEF Provided
<1> DEFINE row == [amount |-> provider.orders[i], onHold |-> TRUE, reversed |-> 0]
<1>3. row \in Rows
  BY <1>2 DEF Rows
<1>4. provider'.transfers = <<row>> \/ provider'.transfers = provider.transfers
  BY <1>1 DEF Provided
<1> HIDE DEF row
<1>5. <<row>> \in Seq(Rows) /\ <<row>> # <<>>
  BY <1>3
<1>6. provider'.transfers \in Seq(Rows) /\ (provider.transfers # <<>> => provider'.transfers # <<>>)
  BY <1>4, <1>5 DEF Provided
<1>7. provider'.payment \in Payments /\ provider'.payment.status # "none"
  BY <1>1 DEF Provided, Payments
<1> QED
  BY <1>1, <1>6, <1>7 DEF Grows, Provided

----------------------------------------------------------------------------
(* The invariant. *)

GTypes ==
    /\ provider \in Provided /\ wire \subseteq Attempts
    /\ call \in [ProviderCalls -> NeverSent \cup SentCalls]
    /\ effects \in [ProviderCalls -> Nat]
    /\ answered \subseteq ProviderCalls /\ overlapped \subseteq ProviderCalls
    /\ straggled \subseteq ProviderCalls

Untouched ==
    \A c \in ProviderCalls : Unsent(c) =>
        call[c] \in NeverSent /\ effects[c] = 0 /\ \A m \in wire : m.call # c

SentShapes ==
    \A c \in ProviderCalls : ~ Unsent(c) =>
        /\ call[c] \in SentCalls
        /\ call[c].at \in {"waiting", "backoff"} => call[c].answer = "none"

CallShapes == Untouched /\ SentShapes

\* What the two histories say of the wire.
OneAtATime ==
    /\ \A a, b \in wire : a.call = b.call /\ a.call \notin straggled => a = b
    /\ \A a, b \in wire :
          a.call = b.call /\ a.call \notin overlapped /\ AtProvider(a) /\ AtProvider(b) => a = b
    /\ overlapped \subseteq straggled

\* A call that did something has its answer stored, or is about to.
EffectsAreStored ==
    /\ \A c \in ProviderCalls : ~ Unsent(c) /\ Keyed(call[c].q) =>
          /\ effects[c] > 0 => c \in answered \/ \E m \in wire : m.call = c /\ m.at = "handled"
          /\ c \notin overlapped => effects[c] <= 1
    /\ \A m \in wire :
          /\ m.at = "handled" => effects[m.call] > 0
          /\ m.at = "missed" /\ Keyed(call[m.call].q) /\ m.call \notin overlapped
                => effects[m.call] = 0
    /\ \A c \in answered : effects[c] > 0

\* What a call without a key has found once is still there.
ObjectsStay ==
    \A c \in ProviderCalls : ~ Unsent(c) /\ effects[c] > 0 =>
        /\ call[c].q.is = "fetch" => provider.payment.status # "none"
        /\ call[c].q.is \in {"hold", "release"} => provider.transfers # <<>>

AnswersAreTrue ==
    \A c \in ProviderCalls :
        /\ call[c].answer = "ok" => effects[c] > 0
        /\ call[c].answer \in {"rejected", "not found"} /\ c \notin straggled =>
              effects[c] = 0 /\ \A m \in wire : m.call # c

GInv ==
    GTypes /\ CallShapes /\ OneAtATime /\ EffectsAreStored /\ ObjectsStay /\ AnswersAreTrue

LEMMA InitHolds == GatewayInit => GInv
<1> SUFFICES ASSUME GatewayInit PROVE GInv
  OBVIOUS
<1>1. NoProvider \in Provided
  BY DEF NoProvider, Provided, Payments
<1>2. provider \in Provided
  <2> DEFINE row == [amount |-> 1, onHold |-> TRUE, reversed |-> 0]
             pay == [NoProvider.payment EXCEPT !.status = "captured"]
  <2>1. <<row>> \in Seq(Rows) /\ <<1>> \in Seq(Nat)
    BY DEF Rows
  <2>2. pay \in Payments
    BY DEF NoProvider, Payments
  <2> HIDE DEF row
  <2>3. [NoProvider EXCEPT !.account = "activated", !.orders = <<1>>,
                           !.payment.status = "captured", !.transfers = <<row>>] \in Provided
    BY <1>1, <2>1, <2>2 DEF Provided
  <2> QED
    BY <1>1, <2>3 DEF GatewayInit, row
<1>3. NewCall \in NeverSent /\ NewCall.at = "new" /\ NewCall.answer = "none"
  BY GatewayBounds DEF NewCall, NeverSent
<1>4. GTypes /\ CallShapes
  BY <1>2, <1>3 DEF GatewayInit, GTypes, CallShapes, Untouched, SentShapes, Unsent
<1>5. \A c \in ProviderCalls : Unsent(c) /\ call[c].answer = "none"
  BY <1>3 DEF GatewayInit, Unsent
<1>6. OneAtATime /\ EffectsAreStored /\ ObjectsStay /\ AnswersAreTrue
  BY <1>5 DEF GatewayInit, OneAtATime, EffectsAreStored, ObjectsStay, AnswersAreTrue
<1> QED
  BY <1>4, <1>6 DEF GInv

----------------------------------------------------------------------------
(* Steps. *)

\* Of all calls, only c hears something.
Heard(c, answer) ==
    /\ call' \in [ProviderCalls -> NeverSent \cup SentCalls]
    /\ \A d \in ProviderCalls : d # c => call'[d] = call[d]
    /\ \/ call'[c] = call[c]
       \/ /\ call'[c] \in SentCalls /\ call'[c].q = call[c].q
          /\ call'[c].answer \in {"none", "unavailable", answer}
          /\ call'[c].at \in {"waiting", "backoff"} => call'[c].answer = "none"

LEMMA ToldIsHeard ==
    ASSUME GInv, NEW c \in ProviderCalls, ~ Unsent(c), call[c].at = "waiting",
           NEW answer \in Answers \ {"none"}, call' = Told(c, answer)
    PROVE  Heard(c, answer)
<1>1. call[c] \in SentCalls /\ call[c].answer = "none" /\ call[c].left \in Nat
  BY DEF GInv, CallShapes, Untouched, SentShapes, SentCalls
<1>2. CASE call' = [call EXCEPT ![c].at = "ended", ![c].answer = answer]
  <2> DEFINE new == [call[c] EXCEPT !.at = "ended", !.answer = answer]
  <2>1. new \in SentCalls /\ new.q = call[c].q /\ new.answer = answer /\ new.at = "ended"
    BY <1>1 DEF SentCalls, Answers
  <2>2. call' = [call EXCEPT ![c] = new]
    BY <1>2
  <2> HIDE DEF new
  <2> QED
    BY <2>1, <2>2 DEF Heard, GInv, GTypes
<1>3. CASE call' = [call EXCEPT ![c].at = "ended", ![c].answer = "unavailable"]
  <2> DEFINE new == [call[c] EXCEPT !.at = "ended", !.answer = "unavailable"]
  <2>1. new \in SentCalls /\ new.q = call[c].q /\ new.answer = "unavailable" /\ new.at = "ended"
    BY <1>1 DEF SentCalls, Answers
  <2>2. call' = [call EXCEPT ![c] = new]
    BY <1>3
  <2> HIDE DEF new
  <2> QED
    BY <2>1, <2>2 DEF Heard, GInv, GTypes
<1>4. CASE call[c].left # 0 /\ call' = [call EXCEPT ![c].at = "backoff", ![c].left = @ - 1]
  <2> DEFINE new == [call[c] EXCEPT !.at = "backoff", !.left = @ - 1]
  <2>0. call[c].left - 1 \in Nat
    BY <1>1, <1>4
  <2>1. new \in SentCalls /\ new.q = call[c].q /\ new.answer = "none"
    BY <1>1, <2>0 DEF SentCalls, Answers
  <2>2. call' = [call EXCEPT ![c] = new]
    BY <1>4
  <2> HIDE DEF new
  <2> QED
    BY <2>1, <2>2 DEF Heard, GInv, GTypes
<1> QED
  BY <1>2, <1>3, <1>4 DEF Told

LEMMA ReplyIsHeard ==
    ASSUME GInv, NEW m \in wire, NEW answer \in Answers \ {"none"}, Reply(m, answer)
    PROVE  wire' = wire \ {m} /\ Heard(m.call, answer)
<1>1. m.call \in ProviderCalls /\ ~ Unsent(m.call)
  BY DEF GInv, GTypes, CallShapes, Untouched, SentShapes, Attempts
<1>2. CASE call[m.call].at = "waiting" /\ call' = Told(m.call, answer)
  BY <1>1, <1>2, ToldIsHeard DEF Reply
<1>3. CASE call' = call
  BY <1>3 DEF Reply, Heard, GInv, GTypes
<1> QED
  BY <1>2, <1>3 DEF Reply

\* Steps after which an attempt may be over and its call may know more, but the provider
\* has done nothing.
LEMMA HearingKeeps ==
    ASSUME GInv, NEW m \in wire, NEW answer \in Answers \ {"none"}, Heard(m.call, answer),
           wire' = wire \/ wire' = wire \ {m},
           UNCHANGED <<provider, effects, overlapped, straggled>>,
           answered' = answered \/ (answered' = answered \cup {m.call} /\ effects[m.call] > 0),
           m.at = "handled" /\ wire' # wire /\ Keyed(call[m.call].q) => m.call \in answered',
           answer = "ok" => effects[m.call] > 0,
           answer \in {"rejected", "not found"} =>
              wire' = wire \ {m} /\ (effects[m.call] > 0 => m.call \in straggled)
    PROVE  GInv'
<1> DEFINE c == m.call
<1>0. c \in ProviderCalls /\ ~ Unsent(c) /\ call[c] \in SentCalls
  BY DEF GInv, GTypes, CallShapes, Untouched, SentShapes, Attempts
<1>1. wire' \subseteq wire /\ answered \subseteq answered' /\ answered' \subseteq ProviderCalls
  BY <1>0 DEF GInv, GTypes
<1>2. /\ \A d \in ProviderCalls :
            /\ call'[d].at = "new" \/ call'[d].answer \in {"made up", "refused"} <=> Unsent(d)
            /\ d # c => call'[d] = call[d]
      /\ \A d \in ProviderCalls : ~ Unsent(d) => call'[d].q = call[d].q
  BY <1>0, ZenonT(30) DEF Heard, Unsent, SentCalls, Answers
<1>3. GTypes'
  <2>1. GTypes /\ call' \in [ProviderCalls -> NeverSent \cup SentCalls]
    BY DEF GInv, Heard
  <2>2. wire' \subseteq Attempts
    BY <1>1, <2>1 DEF GTypes
  <2>3. UNCHANGED <<provider, effects, overlapped, straggled>>
    OBVIOUS
  <2> QED
    BY ONLY <1>1, <2>1, <2>2, <2>3 DEF GTypes
<1>4. CallShapes'
  <2>1. call'[c] \in SentCalls /\ (call'[c].at \in {"waiting", "backoff"} => call'[c].answer = "none")
    BY <1>0 DEF Heard, GInv, CallShapes, Untouched, SentShapes
  <2> QED
    <3>1. ASSUME NEW d \in ProviderCalls, d # c, Unsent(d)
          PROVE  call'[d] \in NeverSent /\ effects[d] = 0 /\ \A b \in wire' : b.call # d
      BY <1>1, <1>2, <3>1 DEF GInv, CallShapes, Untouched, SentShapes
    <3>2. ASSUME NEW d \in ProviderCalls, d # c, ~ Unsent(d)
          PROVE  call'[d] \in SentCalls /\ (call'[d].at \in {"waiting", "backoff"} => call'[d].answer = "none")
      BY <1>2, <3>2 DEF GInv, CallShapes, Untouched, SentShapes
    <3>3. Untouched'
      BY <1>0, <1>2, <3>1 DEF Untouched, Unsent
    <3>4. SentShapes'
      BY <1>0, <1>2, <2>1, <3>2 DEF SentShapes, Unsent
    <3> QED
      BY <3>3, <3>4 DEF CallShapes
<1>5. OneAtATime'
  BY <1>1 DEF GInv, OneAtATime, AtProvider
<1>6. EffectsAreStored'
  <2>1. ASSUME NEW d \in ProviderCalls, ~ Unsent(d), Keyed(call[d].q), effects[d] > 0
        PROVE  d \in answered' \/ \E b \in wire' : b.call = d /\ b.at = "handled"
    <3>1. d \in answered \/ \E b \in wire : b.call = d /\ b.at = "handled"
      BY <2>1 DEF GInv, EffectsAreStored
    <3>2. CASE d \in answered
      BY <1>1, <3>2
    <3>3. CASE \E b \in wire : b.call = d /\ b.at = "handled"
      BY <1>1, <2>1, <3>3
    <3> QED
      BY <3>1, <3>2, <3>3
  <2>2. \A d \in answered' : effects[d] > 0
    BY ZenonT(30) DEF GInv, EffectsAreStored
  <2>3. \A b \in wire : b \in wire /\ b.call \in ProviderCalls /\ ~ Unsent(b.call)
    BY DEF GInv, GTypes, CallShapes, Untouched, SentShapes, Attempts
  <2> QED
    <3>1. ASSUME NEW d \in ProviderCalls, ~ Unsent(d), Keyed(call[d].q)
          PROVE  /\ effects[d] > 0 => d \in answered' \/ \E b \in wire' : b.call = d /\ b.at = "handled"
                 /\ d \notin overlapped => effects[d] <= 1
      BY <2>1, <3>1 DEF GInv, EffectsAreStored
    <3>2. ASSUME NEW b \in wire'
          PROVE  /\ b.at = "handled" => effects[b.call] > 0
                 /\ b.at = "missed" /\ Keyed(call[b.call].q) /\ b.call \notin overlapped
                       => effects[b.call] = 0
      BY <1>1 DEF GInv, EffectsAreStored
    <3>3. \A d \in ProviderCalls : call'[d].at = "new" \/ call'[d].answer \in {"made up", "refused"}
             \/ (~ Unsent(d) /\ call'[d].q = call[d].q)
      BY <1>2
    <3>4. \A b \in wire' : call'[b.call].q = call[b.call].q
      BY <1>1, <1>2, <2>3
    <3> QED
      BY <2>2, <3>1, <3>2, <3>3, <3>4 DEF EffectsAreStored, Keyed, Unsent
<1>7. ObjectsStay'
  BY <1>2 DEF GInv, ObjectsStay, Unsent
<1>8. AnswersAreTrue'
  <2>1. ASSUME NEW d \in ProviderCalls, d # c
        PROVE  /\ call'[d].answer = "ok" => effects[d] > 0
               /\ call'[d].answer \in {"rejected", "not found"} /\ d \notin straggled =>
                     effects[d] = 0 /\ \A b \in wire' : b.call # d
    BY <1>1, <1>2, <2>1 DEF GInv, AnswersAreTrue
  <2>2. call'[c].answer = "ok" => effects[c] > 0
    BY <1>0 DEF GInv, AnswersAreTrue, Heard
  <2> DEFINE Rejected == call'[c].answer \in {"rejected", "not found"} /\ c \notin straggled
             Nothing  == effects[c] = 0 /\ \A b \in wire' : b.call # c
  <2>3. ASSUME call'[c] = call[c], Rejected PROVE Nothing
    BY <1>0, <1>1, <2>3 DEF GInv, AnswersAreTrue
  <2>4. ASSUME Rejected, call'[c].answer = answer PROVE Nothing
    <3>1. effects[c] = 0
      <4>1. effects[c] \in Nat
        BY <1>0 DEF GInv, GTypes
      <4>2. ~ effects[c] > 0
        BY <2>4
      <4> QED
        BY ONLY <4>1, <4>2
    <3>2. \A b \in wire' : b.call # c
      BY <2>4 DEF GInv, OneAtATime
    <3> QED
      BY <3>1, <3>2
  <2>5. Rejected => Nothing
    BY <2>3, <2>4 DEF Heard
  <2> QED
    BY <1>0, <2>1, <2>2, <2>5 DEF AnswersAreTrue
<1> QED
  BY <1>3, <1>4, <1>5, <1>6, <1>7, <1>8 DEF GInv

LEMMA AbandonKeeps == ASSUME GInv, NEW m \in wire, Abandon(m) PROVE GInv'
<1>1. m.call \in ProviderCalls /\ ~ Unsent(m.call)
  BY DEF GInv, GTypes, CallShapes, Untouched, SentShapes, Attempts
<1>2. Heard(m.call, "unavailable")
  BY <1>1, ToldIsHeard DEF Abandon, Answers
<1>3. wire' = wire \/ (m.at = "sent" /\ wire' = wire \ {m})
  BY DEF Abandon
<1>4. UNCHANGED <<provider, answered, effects, overlapped, straggled>>
  BY DEF Abandon, gatewayHistory
<1> QED
  BY <1>2, <1>3, <1>4, HearingKeeps DEF Answers

LEMMA OutageKeeps == ASSUME GInv, NEW m \in wire, Outage(m) PROVE GInv'
<1>1. wire' = wire \ {m} /\ Heard(m.call, "unavailable") /\ m.at = "missed"
  BY ReplyIsHeard DEF Outage, Answers
<1>2. UNCHANGED <<provider, answered, effects, overlapped, straggled>>
  BY DEF Outage, gatewayHistory
<1> QED
  BY <1>1, <1>2, HearingKeeps DEF Answers

LEMMA StoreAnswerKeeps == ASSUME GInv, NEW m \in wire, StoreAnswer(m) PROVE GInv'
<1>1. PICK answer \in {"ok", "error"} : Reply(m, answer)
  BY DEF StoreAnswer
<1>2. wire' = wire \ {m} /\ Heard(m.call, answer) /\ effects[m.call] > 0
  BY <1>1, ReplyIsHeard DEF StoreAnswer, Answers, GInv, EffectsAreStored
<1>3. /\ answered' = answered \/ (answered' = answered \cup {m.call} /\ effects[m.call] > 0)
      /\ Keyed(call[m.call].q) => m.call \in answered'
  BY <1>2 DEF StoreAnswer
<1>4. UNCHANGED <<provider, effects, overlapped, straggled>>
  BY DEF StoreAnswer, gatewayHistory
<1> QED
  BY <1>1, <1>2, <1>3, <1>4, HearingKeeps DEF Answers

\* An attempt that stays on the wire, one step further.
LEMMA AttemptMoves ==
    ASSUME GInv, NEW m \in wire, NEW at \in {"missed", "handled"},
           wire' = (wire \ {m}) \cup {[m EXCEPT !.at = at]}
    PROVE  /\ wire' \subseteq Attempts
           /\ \A b \in wire' : b \in wire \/ (b.call = m.call /\ b.at = at)
           /\ \A b \in wire' : \E a \in wire : a.call = b.call
           /\ \A a \in wire : a # m => a \in wire'
           /\ \E b \in wire' : b.call = m.call /\ b.at = at
<1>1. m \in Attempts
  BY DEF GInv, GTypes
<1>2. [m EXCEPT !.at = at] \in Attempts /\ [m EXCEPT !.at = at].call = m.call
      /\ [m EXCEPT !.at = at].at = at
  BY <1>1 DEF Attempts
<1> QED
  BY <1>2 DEF GInv, GTypes

LEMMA MissKeeps ==
    ASSUME GInv, NEW m \in wire, m.at = "sent", ~ Stored(m),
           wire' = (wire \ {m}) \cup {[m EXCEPT !.at = "missed"]},
           overlapped' = overlapped \cup {a.call : a \in {b \in wire : b.call = m.call /\ AtProvider(b)}},
           UNCHANGED <<call, provider, answered, effects, straggled>>
    PROVE  GInv'
<1> DEFINE new == [m EXCEPT !.at = "missed"]
<1>0. /\ new \in Attempts /\ new.call = m.call /\ new.at = "missed"
      /\ m.call \in ProviderCalls /\ ~ Unsent(m.call)
  BY DEF GInv, GTypes, Attempts, CallShapes, Untouched, SentShapes
<1>1. wire' = (wire \ {m}) \cup {new}
  OBVIOUS
<1> HIDE DEF new
<1>2. /\ overlapped \subseteq overlapped' /\ overlapped' \subseteq overlapped \cup {m.call}
      /\ m.call \notin overlapped' => \A b \in wire : b.call = m.call => ~ AtProvider(b)
  OBVIOUS
<1>3. overlapped' \subseteq straggled
  BY <1>2 DEF GInv, OneAtATime, AtProvider
<1>4. GTypes'
  BY <1>0, <1>1, <1>2 DEF GInv, GTypes
<1>5. CallShapes'
  <2>1. Untouched'
    BY <1>0, <1>1, ZenonT(30) DEF GInv, CallShapes, Untouched, Unsent
  <2>2. SentShapes'
    BY DEF GInv, CallShapes, SentShapes, Unsent
  <2> QED
    BY <2>1, <2>2 DEF CallShapes
<1>6. OneAtATime'
  BY <1>0, <1>1, <1>2, <1>3 DEF GInv, OneAtATime, AtProvider
<1>7. EffectsAreStored'
  <2>1. m.call \notin overlapped' /\ Keyed(call[m.call].q) => effects[m.call] = 0
    BY <1>0, <1>2 DEF GInv, GTypes, EffectsAreStored, Stored, AtProvider
  <2> QED
    BY <1>0, <1>1, <1>2, <2>1, ZenonT(30) DEF GInv, EffectsAreStored, Unsent, Keyed
<1>8. ObjectsStay'
  BY DEF GInv, ObjectsStay, Unsent
<1>9. AnswersAreTrue'
  BY <1>0, <1>1, ZenonT(30) DEF GInv, AnswersAreTrue
<1> QED
  BY <1>4, <1>5, <1>6, <1>7, <1>8, <1>9 DEF GInv

LEMMA LookUpKeeps == ASSUME GInv, NEW m \in wire, LookUp(m) PROVE GInv'
<1>0. m.at = "sent" /\ UNCHANGED <<provider, answered, effects, straggled>>
  BY DEF LookUp
<1>1. CASE Stored(m)
  <2>1. wire' = wire \ {m} /\ Heard(m.call, "ok") /\ overlapped' = overlapped
    BY <1>1, ReplyIsHeard DEF LookUp, Answers
  <2>2. effects[m.call] > 0
    BY <1>1 DEF Stored, GInv, EffectsAreStored
  <2> QED
    BY <1>0, <2>1, <2>2, HearingKeeps DEF Answers
<1>2. CASE ~ Stored(m)
  BY <1>0, <1>2, MissKeeps DEF LookUp
<1> QED
  BY <1>1, <1>2

LEMMA HandledKeeps ==
    ASSUME GInv, NEW m \in wire, m.at = "missed",
           ~ Unknown(call[m.call].q), provider' \in Handled(call[m.call].q),
           effects' = [effects EXCEPT ![m.call] = @ + 1],
           wire' = (wire \ {m}) \cup {[m EXCEPT !.at = "handled"]},
           UNCHANGED <<call, answered, overlapped, straggled>>
    PROVE  GInv'
<1> DEFINE new == [m EXCEPT !.at = "handled"]
           c   == m.call
           q   == call[c].q
<1>0. /\ new \in Attempts /\ new.call = c /\ new.at = "handled"
      /\ c \in ProviderCalls /\ ~ Unsent(c) /\ q \in Wanted
  BY DEF GInv, GTypes, Attempts, CallShapes, Untouched, SentShapes, SentCalls
<1>1. wire' = (wire \ {m}) \cup {new}
  OBVIOUS
<1> HIDE DEF new
<1>2. Grows(provider')
  BY <1>0, HandlersGrow DEF GInv, GTypes
<1>3. /\ effects' \in [ProviderCalls -> Nat]
      /\ \A d \in ProviderCalls : effects'[d] = IF d = c THEN effects[d] + 1 ELSE effects[d]
      /\ \A d \in ProviderCalls : effects[d] \in Nat
  BY <1>0 DEF GInv, GTypes
<1>4. GTypes'
  BY <1>0, <1>1, <1>2, <1>3 DEF GInv, GTypes, Grows
<1>5. CallShapes'
  <2>1. Untouched'
    BY <1>0, <1>1, <1>3 DEF GInv, CallShapes, Untouched, Unsent
  <2>2. SentShapes'
    BY DEF GInv, CallShapes, SentShapes, Unsent
  <2> QED
    BY <2>1, <2>2 DEF CallShapes
<1>6. OneAtATime'
  BY <1>0, <1>1 DEF GInv, OneAtATime, AtProvider
<1>7. EffectsAreStored'
  <2>1. ASSUME NEW d \in ProviderCalls, ~ Unsent(d), Keyed(call[d].q)
        PROVE  /\ effects'[d] > 0 => d \in answered \/ \E b \in wire' : b.call = d /\ b.at = "handled"
               /\ d \notin overlapped => effects'[d] <= 1
    BY <1>0, <1>1, <1>3, <2>1 DEF GInv, EffectsAreStored
  <2>2. ASSUME NEW b \in wire'
        PROVE  /\ b.at = "handled" => effects'[b.call] > 0
               /\ b.at = "missed" /\ Keyed(call[b.call].q) /\ b.call \notin overlapped
                     => effects'[b.call] = 0
    BY <1>0, <1>1, <1>3 DEF GInv, EffectsAreStored, OneAtATime, AtProvider, GTypes, Attempts
  <2>3. \A d \in answered : effects'[d] > 0
    BY <1>3 DEF GInv, GTypes, EffectsAreStored
  <2> QED
    BY <2>1, <2>2, <2>3 DEF EffectsAreStored, Keyed, Unsent
<1>8. ObjectsStay'
  BY <1>0, <1>2, <1>3 DEF GInv, ObjectsStay, Unsent, Grows, Unknown
<1>9. AnswersAreTrue'
  <2>1. ASSUME NEW d \in ProviderCalls, call[d].answer = "ok" PROVE effects'[d] > 0
    <3>1. effects[d] > 0 /\ effects[d] \in Nat
      BY <1>3, <2>1 DEF GInv, AnswersAreTrue
    <3> QED
      BY <1>3, <3>1
  <2>2. ASSUME NEW d \in ProviderCalls, call[d].answer \in {"rejected", "not found"}, d \notin straggled
        PROVE  effects'[d] = 0 /\ \A b \in wire' : b.call # d
    <3>1. effects[d] = 0 /\ \A b \in wire : b.call # d
      BY <2>2 DEF GInv, AnswersAreTrue
    <3>2. d # c
      BY <3>1
    <3>3. \A b \in wire' : b \in wire \/ b.call = c
      BY <1>0, <1>1
    <3> QED
      BY <1>3, <3>1, <3>2, <3>3
  <2> QED
    BY <2>1, <2>2 DEF AnswersAreTrue
<1> QED
  BY <1>4, <1>5, <1>6, <1>7, <1>8, <1>9 DEF GInv

\* A call that took effect is not told that it was rejected.
LEMMA RejectionsAreTrue ==
    ASSUME GInv, NEW m \in wire, m.at = "missed", effects[m.call] > 0,
           Unknown(call[m.call].q) \/ Handled(call[m.call].q) = {}
    PROVE  m.call \in straggled
<1> DEFINE c == m.call
           q == call[c].q
<1>0. c \in ProviderCalls /\ ~ Unsent(c) /\ q \in Wanted
  BY DEF GInv, GTypes, Attempts, CallShapes, Untouched, SentShapes, SentCalls
<1>1. CASE Keyed(q)
  BY <1>0, <1>1 DEF GInv, EffectsAreStored, OneAtATime
<1>2. CASE q.is = "fetch"
  BY <1>0, <1>2 DEF GInv, ObjectsStay, Unknown, Handled, ReadOnly
<1>3. CASE q.is \in {"hold", "release"}
  BY <1>0, <1>3 DEF GInv, ObjectsStay, Unknown, Handled, PatchTransfer
<1> QED
  BY <1>1, <1>2, <1>3 DEF Keyed

LEMMA HandleCallKeeps == ASSUME GInv, NEW m \in wire, HandleCall(m) PROVE GInv'
<1> DEFINE q == call[m.call].q
<1>0. m.at = "missed" /\ UNCHANGED <<answered, overlapped, straggled>>
  BY DEF HandleCall
<1>1. CASE ~ Unknown(q) /\ Handled(q) # {}
  BY <1>0, <1>1, HandledKeeps DEF HandleCall
<1>2. CASE Unknown(q) \/ Handled(q) = {}
  <2>1. UNCHANGED <<provider, effects>>
    BY <1>2 DEF HandleCall
  <2>2. PICK answer \in {"not found", "rejected"} : Reply(m, answer)
    BY <1>2 DEF HandleCall
  <2>3. wire' = wire \ {m} /\ Heard(m.call, answer)
    BY <2>2, ReplyIsHeard DEF Answers
  <2>4. effects[m.call] > 0 => m.call \in straggled
    BY <1>0, <1>2, RejectionsAreTrue
  <2> QED
    BY <1>0, <2>1, <2>3, <2>4, HearingKeeps DEF Answers
<1> QED
  BY <1>1, <1>2

LEMMA SendKeeps ==
    ASSUME GInv, NEW c \in ProviderCalls, NEW q \in Wanted, NEW left \in Nat, Send(c, q, left),
           Unsent(c) \/ (~ Unsent(c) /\ q = call[c].q),
           UNCHANGED <<provider, answered, effects, overlapped>>
    PROVE  GInv'
<1> DEFINE n   == call[c].n + 1
           new == [at |-> "waiting", n |-> n, left |-> left, answer |-> "none", q |-> q]
           att == [call |-> c, n |-> n, at |-> "sent"]
<1>0. call[c].n \in Nat
  <2>1. CASE Unsent(c)
    <3>1. call[c] \in NeverSent
      BY <2>1 DEF GInv, CallShapes, Untouched
    <3> QED
      BY ONLY <3>1 DEF NeverSent
  <2>2. CASE ~ Unsent(c)
    BY <2>2 DEF GInv, CallShapes, SentShapes, SentCalls
  <2> QED
    BY <2>1, <2>2
<1>1. /\ new \in SentCalls /\ new.at = "waiting" /\ new.answer = "none" /\ new.q = q
      /\ att \in Attempts /\ att.call = c /\ att.at = "sent"
  BY <1>0 DEF SentCalls, Answers, Attempts
<1>2. /\ call' = [call EXCEPT ![c] = new] /\ wire' = wire \cup {att}
      /\ straggled' = straggled \cup {m.call : m \in {a \in wire : a.call = c}}
  BY DEF Send
<1> HIDE DEF n, new, att
<1>3. \A d \in ProviderCalls : call'[d] = IF d = c THEN new ELSE call[d]
  BY <1>2 DEF GInv, GTypes
<1>4. /\ straggled \subseteq straggled' /\ straggled' \subseteq straggled \cup {c}
      /\ c \notin straggled' => \A b \in wire : b.call # c
  BY <1>2
<1>5. GTypes'
  BY <1>1, <1>2, <1>4 DEF GInv, GTypes
<1>6. CallShapes'
  <2>1. Untouched'
    BY <1>1, <1>2, <1>3, ZenonT(30) DEF GInv, CallShapes, Untouched, Unsent
  <2>2. SentShapes'
    BY <1>1, <1>3 DEF GInv, CallShapes, SentShapes, Unsent
  <2> QED
    BY <2>1, <2>2 DEF CallShapes
<1>7. OneAtATime'
  BY <1>1, <1>2, <1>4 DEF GInv, OneAtATime, AtProvider
<1>8. \A d \in ProviderCalls : effects[d] > 0 =>
         ~ Unsent(d) /\ call'[d].q = call[d].q
  BY <1>1, <1>3 DEF GInv, GTypes, CallShapes, Untouched
<1>9. EffectsAreStored'
  <2>1. ASSUME NEW d \in ProviderCalls, Keyed(call'[d].q)
        PROVE  /\ effects[d] > 0 => d \in answered \/ \E b \in wire' : b.call = d /\ b.at = "handled"
               /\ d \notin overlapped => effects[d] <= 1
    <3>1. CASE effects[d] > 0
      BY <1>2, <1>8, <2>1, <3>1 DEF GInv, EffectsAreStored, Keyed
    <3>2. CASE ~ effects[d] > 0
      BY <3>2 DEF GInv, GTypes
    <3> QED
      BY <3>1, <3>2
  <2>2. ASSUME NEW b \in wire'
        PROVE  /\ b.at = "handled" => effects[b.call] > 0
               /\ b.at = "missed" /\ Keyed(call'[b.call].q) /\ b.call \notin overlapped
                     => effects[b.call] = 0
    <3>1. CASE b = att
      BY <1>1, <3>1
    <3>2. CASE b \in wire
      <4>1. b.call \in ProviderCalls /\ effects[b.call] \in Nat
        BY <3>2 DEF GInv, GTypes, Attempts
      <4> QED
        BY <1>8, <3>2, <4>1 DEF GInv, EffectsAreStored
    <3> QED
      BY <1>2, <3>1, <3>2
  <2>3. \A d \in answered : effects[d] > 0
    BY DEF GInv, EffectsAreStored
  <2> QED
    BY <2>1, <2>2, <2>3 DEF EffectsAreStored, Keyed
<1>10. ObjectsStay'
  BY <1>8 DEF GInv, ObjectsStay
<1>11. AnswersAreTrue'
  BY <1>1, <1>2, <1>3, <1>4, ZenonT(30) DEF GInv, AnswersAreTrue
<1> QED
  BY <1>5, <1>6, <1>7, <1>9, <1>10, <1>11 DEF GInv

\* A call that waits, or ended without an answer, was sent.
LEMMA WasSent ==
    ASSUME GInv, NEW c \in ProviderCalls,
           call[c].at \in {"waiting", "backoff"} \/ call[c].answer \in {"unavailable", "error"}
    PROVE  ~ Unsent(c) /\ call[c] \in SentCalls /\ call[c].q \in Wanted /\ call[c].left \in Nat
  BY DEF GInv, CallShapes, Untouched, SentShapes, Unsent, NeverSent, SentCalls

\* A call ends, and what it is told says nothing of the provider.
LEMMA EndKeeps ==
    ASSUME GInv, NEW c \in ProviderCalls, NEW new, call' = [call EXCEPT ![c] = new],
           UNCHANGED <<provider, wire, answered, effects, overlapped, straggled>>,
           \/ /\ call[c].at = "new" /\ new \in NeverSent /\ new.answer \in {"made up", "refused"}
           \/ /\ ~ Unsent(c) /\ new \in SentCalls /\ new.q = call[c].q
              /\ new.at = "ended" /\ new.answer = "error"
    PROVE  GInv'
<1>1. \A d \in ProviderCalls : call'[d] = IF d = c THEN new ELSE call[d]
  BY DEF GInv, GTypes
<1>2. \A d \in ProviderCalls : (Unsent(d)' <=> Unsent(d)) /\ (~ Unsent(d) => call'[d].q = call[d].q)
  BY <1>1 DEF Unsent
<1>3. GTypes'
  BY DEF GInv, GTypes
<1>4. CallShapes'
  <2>1. Untouched'
    BY <1>1 DEF GInv, CallShapes, Untouched, Unsent
  <2>2. SentShapes'
    BY <1>1 DEF GInv, CallShapes, SentShapes, Unsent
  <2> QED
    BY <2>1, <2>2 DEF CallShapes
<1>5. OneAtATime'
  BY DEF GInv, OneAtATime, AtProvider
<1>6. EffectsAreStored'
  <2>1. \A m \in wire : call'[m.call].q = call[m.call].q
    BY <1>2 DEF GInv, GTypes, CallShapes, Untouched, Attempts
  <2> QED
    BY <1>2, <2>1 DEF GInv, EffectsAreStored, Keyed, Unsent
<1>7. ObjectsStay'
  BY <1>2 DEF GInv, ObjectsStay, Unsent
<1>8. AnswersAreTrue'
  BY <1>1, ZenonT(30) DEF GInv, AnswersAreTrue
<1> QED
  BY <1>3, <1>4, <1>5, <1>6, <1>7, <1>8 DEF GInv

LEMMA CallProviderKeeps ==
    ASSUME GInv, NEW c \in ProviderCalls, NEW q \in Wanted, CallProvider(c, q) PROVE GInv'
<1>0. call[c].at = "new" /\ Unsent(c) /\ UNCHANGED <<provider, answered, effects, overlapped>>
  BY DEF CallProvider, Unsent
<1>1. CASE Refused(q) \/ MadeUp(q)
  <2>1. PICK answer \in {"made up", "refused"} :
           call' = [call EXCEPT ![c].at = "ended", ![c].answer = answer]
    BY <1>1 DEF CallProvider
  <2> DEFINE new == [call[c] EXCEPT !.at = "ended", !.answer = answer]
  <2>2. call' = [call EXCEPT ![c] = new] /\ UNCHANGED <<wire, straggled>>
    BY <1>1, <2>1 DEF CallProvider
  <2>3. call[c] \in NeverSent
    BY <1>0 DEF GInv, CallShapes, Untouched
  <2>4. new \in NeverSent /\ new.answer \in {"made up", "refused"}
    BY <2>3 DEF NeverSent
  <2> HIDE DEF new
  <2> QED
    BY <1>0, <2>2, <2>4, EndKeeps
<1>2. CASE ~ (Refused(q) \/ MadeUp(q))
  <2>1. Send(c, Sent(q), MaxRetries) /\ Sent(q) \in Wanted /\ MaxRetries \in Nat
    BY <1>2, SentIsWanted, GatewayBounds DEF CallProvider
  <2> QED
    BY <1>0, <2>1, SendKeeps
<1> QED
  BY <1>1, <1>2

LEMMA RetryKeeps == ASSUME GInv, NEW c \in ProviderCalls, Retry(c) PROVE GInv'
  BY WasSent, SendKeeps DEF Retry

LEMMA CallAgainKeeps == ASSUME GInv, NEW c \in ProviderCalls, CallAgain(c) PROVE GInv'
<1>1. MaxRetries \in Nat
  BY GatewayBounds
<1> QED
  BY <1>1, WasSent, SendKeeps DEF CallAgain

LEMMA CancelledKeeps == ASSUME GInv, NEW c \in ProviderCalls, Cancelled(c) PROVE GInv'
<1> DEFINE new == [call[c] EXCEPT !.at = "ended", !.answer = "error"]
<1>1. ~ Unsent(c) /\ call[c] \in SentCalls
  BY WasSent DEF Cancelled
<1>2. new \in SentCalls /\ new.q = call[c].q /\ new.at = "ended" /\ new.answer = "error"
  BY <1>1 DEF SentCalls, Answers
<1>3. call' = [call EXCEPT ![c] = new] /\ UNCHANGED <<provider, wire, answered, effects, overlapped, straggled>>
  BY DEF Cancelled, gatewayHistory
<1> HIDE DEF new
<1> QED
  BY <1>1, <1>2, <1>3, EndKeeps

\* What happens at the provider by itself.
LEMMA ProviderKeeps ==
    ASSUME GInv, Grows(provider'),
           UNCHANGED <<wire, call, answered, effects, overlapped, straggled>>
    PROVE  GInv'
<1>1. GTypes' /\ OneAtATime' /\ AnswersAreTrue'
  BY DEF GInv, GTypes, Grows, OneAtATime, AtProvider, AnswersAreTrue
<1>2. CallShapes'
  BY DEF GInv, CallShapes, Untouched, SentShapes, Unsent
<1>3. EffectsAreStored' /\ ObjectsStay'
  BY DEF GInv, EffectsAreStored, ObjectsStay, Unsent, Keyed, Grows
<1> QED
  BY <1>1, <1>2, <1>3 DEF GInv

LEMMA ReviewGrows == ASSUME provider \in Provided, Activate PROVE Grows(provider')
<1>1. PICK status \in {"activated", "suspended"} : provider' = [provider EXCEPT !.account = status]
  BY DEF Activate
<1> QED
  BY <1>1 DEF Grows, Provided

LEMMA Inductive == ASSUME GInv, [GatewayNext]_gatewayVars PROVE GInv'
<1>0. provider \in Provided
  BY DEF GInv, GTypes
<1>1. CASE UNCHANGED gatewayVars
  <2>1. Grows(provider')
    BY <1>0, <1>1 DEF gatewayVars, Grows
  <2> QED
    BY <1>1, <2>1, ProviderKeeps DEF gatewayVars, gatewayHistory
<1>2. CASE Pay
  <2>1. UNCHANGED <<wire, call, answered, effects, overlapped, straggled>>
    BY <1>2 DEF Pay, gatewayHistory
  <2> QED
    BY <1>0, <1>2, <2>1, PaymentGrows, ProviderKeeps
<1>3. CASE Activate
  <2>1. UNCHANGED <<wire, call, answered, effects, overlapped, straggled>>
    BY <1>3 DEF Activate, gatewayHistory
  <2> QED
    BY <1>0, <1>3, <2>1, ReviewGrows, ProviderKeeps
<1> QED
  BY <1>1, <1>2, <1>3, CallProviderKeeps, RetryKeeps, CancelledKeeps, CallAgainKeeps,
     AbandonKeeps, LookUpKeeps, HandleCallKeeps, StoreAnswerKeeps, OutageKeeps DEF GatewayNext

\* However often the client and its callers send a call with its key, it takes effect once,
\* "ok" is true, and a rejection is true, but for attempts that overlap (client.do, the
\* Idempotency-Key, mapProviderError).
THEOREM RetriesAreHarmless == GatewaySpec => []RetriesTakeEffectOnce
<1>1. GInv => RetriesTakeEffectOnce
  <2> SUFFICES ASSUME GInv, NEW c \in ProviderCalls
               PROVE  /\ effects[c] > 1 /\ Keyed(call[c].q) => c \in overlapped
                      /\ call[c].answer = "ok" => effects[c] > 0
                      /\ call[c].answer \in {"rejected", "not found"} /\ effects[c] > 0
                            => c \in straggled
    BY DEF RetriesTakeEffectOnce
  <2>1. effects[c] \in Nat /\ (Unsent(c) => effects[c] = 0)
    BY DEF GInv, GTypes, CallShapes, Untouched
  <2>2. effects[c] > 1 /\ Keyed(call[c].q) => c \in overlapped
    BY <2>1 DEF GInv, EffectsAreStored
  <2>3. call[c].answer \in {"rejected", "not found"} /\ c \notin straggled => effects[c] = 0
    BY DEF GInv, AnswersAreTrue
  <2>4. effects[c] = 0 => ~ effects[c] > 0
    OBVIOUS
  <2>5. call[c].answer = "ok" => effects[c] > 0
    BY DEF GInv, AnswersAreTrue
  <2> QED
    BY <2>2, <2>3, <2>4, <2>5
<1> QED
  BY <1>1, InitHolds, Inductive, PTL DEF GatewaySpec
=============================================================================
