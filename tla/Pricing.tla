------------------------------ MODULE Pricing -------------------------------
(***************************************************************************)
(* The arithmetic of one line: its breakdown (internal/modules/tax), the   *)
(* entries its capture and its refunds post (internal/modules/orders), and *)
(* the rounding they rest on (internal/platform/money).                    *)
(*                                                                         *)
(* Amounts are in minor units of one currency.  A line of an entry is its  *)
(* account and its signed amount, a debit positive; lines of amount 0 are  *)
(* left out by the code.  Rates are those of DefaultPolicy; products stay  *)
(* below the 128 bits of mulDivRem, and amounts below 2^63.                *)
(***************************************************************************)
EXTENDS Integers, Functions

CONSTANTS
    Prices,      \* list prices
    Commissions, \* contracted rates, in basis points
    Bearers,     \* Policy.PSPFeeBearer: "platform" as the program sets it, or "seller"
    MaxParts     \* bound: refunds of the line

ASSUME PricingBounds ==
    /\ Prices \subseteq Nat /\ Bearers \subseteq {"platform", "seller"}
    /\ MaxParts \in Nat

\* A commission is a share of the price in basis points.
ASSUME CommissionBounds == \A c \in Commissions : c \in Nat /\ c <= 10000

\* DefaultPolicy: rates in basis points.
Policy ==
    [GSTBps |-> 1800, CommissionGSTBps |-> 1800, TCSBps |-> 100, TDSBps |-> 10,
     TDSNoPANBps |-> 500, PSPFeeBps |-> 200, PSPFeeGSTBps |-> 1800]

Inputs ==
    [price : Prices, commission : Commissions, bearer : Bearers,
     registered : BOOLEAN,                        \* the seller, for GST
     buyer : {"its state", "other state", "abroad"},
     income : {"no pan", "within threshold", "taxed"},
     home : BOOLEAN]                              \* the seller, in the platform's state

VARIABLES
    input,    \* what the line is priced from
    status,   \* "quoted", "refused", "paid" or "unpayable"
    balance,  \* the ledger's accounts
    refunded, \* order_items.refunded_minor
    given,    \* history: what the refunds took back of each component
    parts,    \* how many refunds there were
    paidOut   \* the transfer is processed

pricingVars == <<input, status, balance, refunded, given, parts, paidOut>>

Components == {"net", "commission", "commissionGST", "tcs", "tds"}
BookAccounts ==
    Components \cup {"clearing", "expense", "input credit", "receivable", "absorbed"}

PricingInit ==
    /\ input \in Inputs
    /\ status = "new"
    /\ balance = [a \in BookAccounts |-> 0]
    /\ refunded = 0 /\ parts = 0
    /\ given = [c \in Components \cup {"fee"} |-> 0]
    /\ paidOut = FALSE

----------------------------------------------------------------------------
(* internal/platform/money, for amounts that are not negative. *)

HalfUp(n, den) == (2 * n + den) \div (2 * den)
Bps(amount, rate) == HalfUp(amount * rate, 10000)

----------------------------------------------------------------------------
(* internal/modules/tax. *)

Classify(i) ==
    IF ~ i.registered THEN "exempt"
    ELSE CASE i.buyer = "abroad" -> "export"
           [] i.buyer = "its state" -> "intra"
           [] OTHER -> "inter"

\* A tax of which the two states' shares are rounded each for itself.
Levied(i, rate) ==
    IF Classify(i) = "intra" THEN 2 * Bps(i.price, rate \div 2) ELSE Bps(i.price, rate)

TaxTotal(i) == IF Classify(i) \in {"intra", "inter"} THEN Levied(i, Policy.GSTBps) ELSE 0
BuyerTotal(i) == i.price + TaxTotal(i)
Commission(i) == Bps(i.price, i.commission)
CommissionGST(i) == Bps(Commission(i), Policy.CommissionGSTBps)
TCS(i) == IF i.registered THEN Levied(i, Policy.TCSBps) ELSE 0
TDSRate(i) ==
    CASE i.income = "no pan" -> Policy.TDSNoPANBps
      [] i.income = "within threshold" -> 0
      [] OTHER -> Policy.TDSBps
TDS(i) == Bps(i.price, TDSRate(i))
PSPFee(total) == Bps(total, Policy.PSPFeeBps)
PSPFeeGST(fee) == Bps(fee, Policy.PSPFeeGSTBps)

\* What the seller bears of the provider's fee.
Borne(i) ==
    IF i.bearer = "seller" THEN PSPFee(BuyerTotal(i)) + PSPFeeGST(PSPFee(BuyerTotal(i))) ELSE 0

SellerNet(i) ==
    BuyerTotal(i) - Commission(i) - CommissionGST(i) - TCS(i) - TDS(i) - Borne(i)

Bill(i) ==
    [net |-> SellerNet(i), commission |-> Commission(i), commissionGST |-> CommissionGST(i),
     tcs |-> TCS(i), tds |-> TDS(i)]

Total == BuyerTotal(input)

SumOf(lines) == FoldFunction(+, 0, lines)

\* Breakdown.Verify: the parts are what the buyer pays, and none is negative.
Verify(i) ==
    /\ SumOf(Bill(i)) + Borne(i) = BuyerTotal(i)
    /\ \A c \in Components : Bill(i)[c] >= 0

\* Compute, called for each line of a checkout.
Quote ==
    /\ status = "new"
    /\ status' = IF Verify(input) THEN "quoted" ELSE "refused"
    /\ UNCHANGED <<input, balance, refunded, given, parts, paidOut>>

----------------------------------------------------------------------------
(* internal/modules/orders, and Entry.Validate of the ledger. *)

\* Two lines, none of them 0, debits equal to credits: "clearing" is in every entry.
Valid(lines) == lines["clearing"] # 0 /\ SumOf(lines) = 0

Posted(lines, book) ==
    [a \in BookAccounts |-> book[a] + IF a \in DOMAIN lines THEN lines[a] ELSE 0]

CaptureEntry ==
    [a \in Components \cup {"clearing"} |-> IF a = "clearing" THEN Total ELSE - Bill(input)[a]]

FeeEntry(fee, tax) ==
    [a \in {"clearing", "expense", "input credit"} |->
        CASE a = "clearing" -> - (fee + tax) [] a = "expense" -> fee [] OTHER -> tax]

\* splitCommissionGST: the larger half is the central one's.
CommissionSplit(gst, home) ==
    IF home THEN <<gst - gst \div 2, gst \div 2, 0>> ELSE <<0, 0, gst>>

\* invoices_tax_split_exclusive and invoices_total_matches, for the commission's invoice.
Drawn(i) ==
    LET s == CommissionSplit(CommissionGST(i), i.home) IN
    /\ s[3] = 0 \/ (s[1] = 0 /\ s[2] = 0)
    /\ s[1] + s[2] + s[3] = CommissionGST(i)

\* The fee, as the provider reports it or by the blended rate.
Fee(reported) == IF reported THEN 0 ELSE PSPFee(Total)

\* recordCapture: both entries and the invoices, or nothing at all.
Capture ==
    /\ status = "quoted"
    /\ \E reported \in BOOLEAN :
          LET fee == FeeEntry(Fee(reported), PSPFeeGST(Fee(reported))) IN
          IF Valid(CaptureEntry) /\ Drawn(input)
          THEN /\ status' = "paid"
               /\ balance' = Posted(fee, Posted(CaptureEntry, balance))
          ELSE status' = "unpayable" /\ UNCHANGED balance
    /\ UNCHANGED <<input, refunded, given, parts, paidOut>>

\* Settlement; what it posts is in module Settlement.
PayOut ==
    /\ status = "paid" /\ ~ paidOut
    /\ paidOut' = TRUE
    /\ UNCHANGED <<input, status, balance, refunded, given, parts>>

\* Mutant of Share: rounded up.
ShareUp(component, amount) ==
    IF amount = Total THEN component ELSE (component * amount + Total - 1) \div Total

\* scaleToRefund.
Share(component, amount) ==
    IF amount = Total THEN component ELSE HalfUp(component * amount, Total)

Shares(amount) == [c \in Components |-> Share(Bill(input)[c], amount)]

\* postRefundLedger: the residue is absorbed, on whichever side it falls.
RefundEntry(amount) ==
    LET seller == IF paidOut THEN "receivable" ELSE "net" IN
    [a \in (Components \ {"net"}) \cup {seller, "absorbed", "clearing"} |->
        CASE a = "clearing" -> - amount
          [] a = seller -> Shares(amount)["net"]
          [] a = "absorbed" -> amount - SumOf(Shares(amount))
          [] OTHER -> Shares(amount)[a]]

\* retainedProcessingFee, where the provider has not reported its fee.
Retained(amount) == Share(PSPFee(Total), amount)

\* Amounts worth trying: the least, a third, a half and all that is left.
Amounts == {1, (Total - refunded) \div 3, (Total - refunded) \div 2, Total - refunded} \ {0}

RefundPart(amount) ==
    /\ status = "paid" /\ parts < MaxParts
    /\ refunded + amount <= Total
    /\ Valid(RefundEntry(amount))
    /\ balance' = Posted(RefundEntry(amount), balance)
    /\ refunded' = refunded + amount
    /\ given' = [c \in DOMAIN given |->
                    given[c] + IF c = "fee" THEN Retained(amount) ELSE Shares(amount)[c]]
    /\ parts' = parts + 1
    /\ UNCHANGED <<input, status, paidOut>>

PricingNext == Quote \/ Capture \/ PayOut \/ \E amount \in Amounts : RefundPart(amount)

PricingSpec == PricingInit /\ [][PricingNext]_pricingVars

----------------------------------------------------------------------------
(* Properties. *)

PricingTypeOK ==
    /\ input \in Inputs
    /\ status \in {"new", "quoted", "refused", "paid", "unpayable"}
    /\ refunded \in 0 .. Total /\ parts \in 0 .. MaxParts

Near(a, b, distance) == a - b <= distance /\ b - a <= distance

\* However a line is refunded in parts, before or after the seller was paid, what is taken
\* back of the seller's share, of each levy and of the fee is its proportion to within
\* half a unit per part, a single full refund takes back exactly what the capture booked,
\* and the platform absorbs two units per part at most; the books stay balanced.
RefundPartsAddUp ==
    LET whole == [c \in DOMAIN given |-> IF c = "fee" THEN PSPFee(Total) ELSE Bill(input)[c]] IN
    /\ \A c \in DOMAIN given : Near(2 * given[c] * Total, 2 * whole[c] * refunded, parts * Total)
    /\ parts = 1 /\ refunded = Total => given = whole
    /\ Near(balance["absorbed"], 0, 2 * parts)
    /\ SumOf(balance) = 0

=============================================================================
