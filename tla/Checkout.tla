------------------------------ MODULE Checkout ------------------------------
(***************************************************************************)
(* Checkout: concurrent requests turn carts into draft orders.             *)
(*                                                                         *)
(* One request is one READ COMMITTED transaction that InTx runs again      *)
(* after a deadlock or a lost race for an idempotency key.  It looks its   *)
(* key up, locks and reads the variants of its cart one by one in the      *)
(* client's order, takes an order number from a sequence that no rollback  *)
(* gives back, and inserts the order and its key.  The audit record before *)
(* that insert holds the chain's advisory lock until the commit, so the    *)
(* writes of a request are one step.  Captures raise a variant's           *)
(* sales_count under the same row lock.                                    *)
(***************************************************************************)
EXTENDS Naturals, Sequences, FiniteSets, Functions

CONSTANTS
  Requests,   \* checkout requests
  Keys,       \* idempotency keys, each of one buyer
  NoKey,      \* a request that carries none
  KeyOf,      \* the key a request carries, or NoKey
  CartOf,     \* the variants it asks for, in the client's order
  Variants,   \* product variants
  MaxSales,   \* max_sales of the variants that are limited editions
  MaxRetry,   \* db.go: 5
  MaxFaults   \* bound on lost answers and crashes

None == 0
Free == "free"

ASSUME CheckoutAssumption ==
  /\ Free \notin Requests
  /\ NoKey \notin Keys
  /\ KeyOf \in [Requests -> Keys \cup {NoKey}]
  /\ CartOf \in [Requests -> Seq(Variants) \ {<<>>}]
  /\ DOMAIN MaxSales \subseteq Variants
  /\ MaxSales \in [DOMAIN MaxSales -> Nat \ {0}]
  /\ MaxRetry \in Nat /\ MaxFaults \in Nat

Limited == DOMAIN MaxSales

VARIABLES
  pc,      \* a request: "begun", "reading", "numbered", "ended"
  at,      \* the line it reads or will read next
  number,  \* the order number it has taken, or None
  tries,   \* how often InTx has run it again
  answer,  \* what its client was told
  lock,    \* who holds a variant's row lock, or Free
  sales,   \* product_variants.sales_count of the limited editions
  orders,  \* the orders placed
  keys,    \* idempotency_keys: the order made under a key, or None
  purged,  \* (history) orders whose key was purged
  seq,     \* order_number_seq
  faults

requests == <<pc, at, number, tries, answer>>
tables   == <<sales, orders, keys, purged>>
checkoutVars     == <<requests, lock, tables, seq, faults>>

Placed == [is : {"order"}, order : Nat \ {None}]
Told(what) == [is |-> what, order |-> None]
Answers == Placed \cup {Told(w) : w \in {"nothing", "refused", "conflict", "error"}}

Open == {"reading", "numbered"}

CheckoutTypeOK ==
  /\ pc \in [Requests -> Open \cup {"begun", "ended"}]
  /\ at \in [Requests -> Nat \ {0}]
  /\ number \in [Requests -> Nat]
  /\ tries \in [Requests -> 0 .. MaxRetry]
  /\ answer \in [Requests -> Answers]
  /\ lock \in [Variants -> Requests \cup {Free}]
  /\ sales \in [Limited -> Nat]
  /\ orders \in Seq([number : Nat \ {None}, key : Keys \cup {NoKey}, cart : Seq(Variants)])
  /\ keys \in [Keys -> 0 .. Len(orders)]
  /\ purged \subseteq DOMAIN orders
  /\ seq \in Nat /\ faults \in 0 .. MaxFaults

CheckoutInit ==
  /\ pc = [r \in Requests |-> "begun"]
  /\ at = [r \in Requests |-> 1]
  /\ number = [r \in Requests |-> None]
  /\ tries = [r \in Requests |-> 0]
  /\ answer = [r \in Requests |-> Told("nothing")]
  /\ lock = [v \in Variants |-> Free]
  /\ sales = [v \in Limited |-> 0]
  /\ orders = <<>>
  /\ keys = [k \in Keys |-> None]
  /\ purged = {}
  /\ seq = 0 /\ faults = 0

-----------------------------------------------------------------------------
(* The transaction's ends *)

\* Mutant of Released: an error path that forgets to roll back.
ReleasedByCommit(r) ==
  [v \in Variants |->
     IF lock[v] = r /\ pc[r] = "numbered" THEN Free ELSE lock[v]]

Released(r) == [v \in Variants |-> IF lock[v] = r THEN Free ELSE lock[v]]

\* runOnce commits or rolls back, and the client is told.
End(r, what) ==
  /\ pc' = [pc EXCEPT ![r] = "ended"]
  /\ answer' = [answer EXCEPT ![r] = what]
  /\ lock' = Released(r)
  /\ at' = [at EXCEPT ![r] = 1]
  /\ number' = [number EXCEPT ![r] = None]
  /\ tries' = [tries EXCEPT ![r] = 0]

MayRetry(r) == tries[r] < MaxRetry

\* InTx after a retryable error.
RunAgain(r) ==
  IF MayRetry(r)
  THEN /\ pc' = [pc EXCEPT ![r] = "begun"]
       /\ at' = [at EXCEPT ![r] = 1]
       /\ number' = [number EXCEPT ![r] = None]
       /\ tries' = [tries EXCEPT ![r] = @ + 1]
       /\ lock' = Released(r)
       /\ UNCHANGED answer
  ELSE End(r, Told("error"))

-----------------------------------------------------------------------------
(* The steps of a request *)

Cart(r) == Range(CartOf[r])

\* checkoutFingerprint sorts the lines.
SameRequest(r, o) ==
  Len(orders[o].cart) = Len(CartOf[r]) /\ Range(orders[o].cart) = Cart(r)

\* replayCheckout
Begin(r) ==
  LET known == IF KeyOf[r] = NoKey THEN None ELSE keys[KeyOf[r]] IN
  /\ pc[r] = "begun"
  /\ IF known = None
     THEN /\ pc' = [pc EXCEPT ![r] = "reading"]
          /\ UNCHANGED <<at, number, tries, answer, lock>>
     ELSE End(r, IF SameRequest(r, known)
                 THEN [is |-> "order", order |-> known] ELSE Told("conflict"))
  /\ UNCHANGED <<tables, seq, faults>>

\* Mutant of Lockable: the variant is read without FOR UPDATE.
LockableAlways(r, v) == TRUE

Lockable(r, v) == lock[v] \in {Free, r}

InStock(v) == v \in Limited => sales[v] < MaxSales[v]

Repeated(r) == \E i \in 1 .. at[r] - 1 : CartOf[r][i] = CartOf[r][at[r]]

NextNumber == seq + 1

\* readCatalogue reads one line, and after the last one nextOrderNumber takes a
\* number, which waits for nobody.
ReadLine(r) ==
  LET v == CartOf[r][at[r]] IN
  /\ pc[r] = "reading"
  /\ Lockable(r, v)
  /\ ~Repeated(r) /\ InStock(v)
  /\ lock' = [lock EXCEPT ![v] = r]
  /\ IF at[r] = Len(CartOf[r])
     THEN /\ pc' = [pc EXCEPT ![r] = "numbered"]
          /\ number' = [number EXCEPT ![r] = NextNumber]
          /\ seq' = seq + 1
          /\ UNCHANGED at
     ELSE /\ at' = [at EXCEPT ![r] = @ + 1]
          /\ UNCHANGED <<pc, number, seq>>
  /\ UNCHANGED <<tries, answer, tables, faults>>

\* The line is repeated or sold out, or its product, variant or seller is off sale.
RefuseLine(r) ==
  /\ pc[r] = "reading"
  /\ Repeated(r) \/ Lockable(r, CartOf[r][at[r]])
  /\ End(r, Told("refused"))
  /\ UNCHANGED <<tables, seq, faults>>

\* Mutant of Claimed: no unique index on the keys.
NeverClaimed(r) == FALSE

Claimed(r) == KeyOf[r] # NoKey /\ keys[KeyOf[r]] # None

\* The order, its items, its event, its audit record and its key.
Insert(r) ==
  /\ orders' = Append(orders, [number |-> number[r], key |-> KeyOf[r], cart |-> CartOf[r]])
  /\ keys' = [k \in Keys |-> IF k = KeyOf[r] THEN Len(orders) + 1 ELSE keys[k]]
  /\ UNCHANGED <<sales, purged>>

Place(r) ==
  /\ pc[r] = "numbered"
  /\ IF Claimed(r)
     THEN RunAgain(r) /\ UNCHANGED tables
     ELSE Insert(r) /\ End(r, [is |-> "order", order |-> Len(orders) + 1])
  /\ UNCHANGED <<seq, faults>>

\* The lines do not share a currency.
RefuseCart(r) ==
  /\ pc[r] = "numbered"
  /\ End(r, Told("refused"))
  /\ UNCHANGED <<tables, seq, faults>>

\* PostgreSQL aborts one request of a cycle that waits for itself.
WaitsFor(r) ==
  IF pc[r] = "reading" /\ ~Repeated(r) /\ ~Lockable(r, CartOf[r][at[r]])
  THEN {lock[CartOf[r][at[r]]]} ELSE {}

Deadlocked(r) ==
  /\ \E cycle \in SUBSET Requests :
       /\ r \in cycle
       /\ \A q \in cycle : WaitsFor(q) # {} /\ WaitsFor(q) \subseteq cycle
  /\ RunAgain(r)
  /\ UNCHANGED <<tables, seq, faults>>

\* The process dies, or the connection does, before or in the commit.
Fault(r) ==
  /\ pc[r] \in Open
  /\ faults < MaxFaults
  /\ faults' = faults + 1
  /\ End(r, Told("error"))
  /\ \/ UNCHANGED tables
     \/ pc[r] = "numbered" /\ ~Claimed(r) /\ Insert(r)
  /\ UNCHANGED seq

\* The client sends the request again.
Resubmit(r) ==
  /\ pc[r] = "ended" /\ answer[r] = Told("error")
  /\ pc' = [pc EXCEPT ![r] = "begun"]
  /\ answer' = [answer EXCEPT ![r] = Told("nothing")]
  /\ UNCHANGED <<at, number, tries, lock, tables, seq, faults>>

-----------------------------------------------------------------------------
(* Others *)

\* recordCapture sells a copy of a limited edition an order was placed for.
Sell(v) ==
  /\ lock[v] = Free
  /\ InStock(v)
  /\ sales[v] < Cardinality({o \in DOMAIN orders : v \in Range(orders[o].cart)})
  /\ sales' = [sales EXCEPT ![v] = @ + 1]
  /\ UNCHANGED <<requests, lock, orders, keys, purged, seq, faults>>

\* purge_expired_idempotency_keys
PurgeKey(k) ==
  /\ keys[k] # None
  /\ keys' = [keys EXCEPT ![k] = None]
  /\ purged' = purged \cup {keys[k]}
  /\ UNCHANGED <<requests, lock, sales, orders, seq, faults>>

CheckoutNext ==
  \/ \E r \in Requests :
       \/ Begin(r) \/ ReadLine(r) \/ RefuseLine(r)
       \/ Place(r) \/ RefuseCart(r)
       \/ Deadlocked(r) \/ Fault(r) \/ Resubmit(r)
  \/ \E v \in Limited : Sell(v)
  \/ \E k \in Keys : PurgeKey(k)

CheckoutSpec == CheckoutInit /\ [][CheckoutNext]_checkoutVars

-----------------------------------------------------------------------------
(* Properties *)

\* However often and however concurrently a request is sent, an idempotency key makes
\* one order until the key is purged, a client that is given an order is given one of
\* its own key and contents, and one that is told that its key was reused is told so of
\* other contents (claimIdempotency, replayCheckout).
OneOrderPerKey ==
  /\ \A i, j \in DOMAIN orders \ purged :
       orders[i].key = orders[j].key /\ orders[i].key # NoKey => i = j
  /\ \A r \in Requests :
       /\ answer[r].is = "order" =>
            LET o == orders[answer[r].order] IN
            o.key = KeyOf[r] /\ Range(o.cart) = Cart(r)
       /\ answer[r].is = "conflict" =>
            \E i \in DOMAIN orders :
              /\ orders[i].key = KeyOf[r]
              /\ Range(orders[i].cart) # Cart(r) \/ Len(orders[i].cart) # Len(CartOf[r])

\* An order is placed only while each variant in it still has a copy for sale,
\* whatever was sold since its line was read (readCatalogue, FOR UPDATE).
PlacedWhileInStock ==
  [][\A o \in DOMAIN orders' \ DOMAIN orders :
       \A v \in Range(orders'[o].cart) : InStock(v)]_checkoutVars

\* Every request for several variants that is being served is answered, although carts
\* are locked in the client's order and requests may wait for one another in a cycle
\* (InTx).
EveryRequestEnds ==
  \A r \in {q \in Requests : Len(CartOf[q]) > 1} : pc[r] \in Open ~> pc[r] = "ended"
=============================================================================
