----------------------------- MODULE StoreProofs ------------------------------
EXTENDS Checkout, Outbox, TLAPS

-----------------------------------------------------------------------------
(***************************************************************************)
(* What holds of Checkout for any carts, keys, editions, retries and       *)
(* faults.                                                                 *)
(*                                                                         *)
(* That an order is placed only of what is for sale rests on the row locks *)
(* a request has taken line by line: while it holds them, nobody sells a   *)
(* copy.  That a key makes one order rests on the key's row naming the     *)
(* order made under it until the row is purged.                            *)
(***************************************************************************)

OrderRows == [number : Nat, key : Keys \cup {NoKey}, cart : Seq(Variants)]

\* The part of the type invariant the proofs need.
CheckoutShapes ==
  /\ pc \in [Requests -> Open \cup {"begun", "ended"}]
  /\ at \in [Requests -> Nat \ {0}]
  /\ number \in [Requests -> Nat]
  /\ answer \in [Requests -> Answers]
  /\ lock \in [Variants -> Requests \cup {Free}]
  /\ sales \in [Limited -> Nat]
  /\ seq \in Nat
  /\ orders \in Seq(OrderRows)
  /\ keys \in [Keys -> Nat]
  /\ purged \subseteq DOMAIN orders

\* The lines a request has read.
LinesRead(r) == 1 .. (IF pc[r] = "numbered" THEN Len(CartOf[r]) ELSE at[r] - 1)

\* A request holds the locks of the lines it has read, and they are still for sale.
LocksHold ==
  \A r \in Requests :
    /\ at[r] <= Len(CartOf[r])
    /\ pc[r] \in {"begun", "ended"} => at[r] = 1
    /\ \A i \in LinesRead(r) : lock[CartOf[r][i]] = r /\ InStock(CartOf[r][i])

\* A key's row and the order made under it name each other until the row is purged.
KeysAgree ==
  /\ \A k \in Keys : keys[k] # None => keys[k] \in DOMAIN orders /\ orders[keys[k]].key = k
  /\ \A i \in DOMAIN orders \ purged : orders[i].key # NoKey => keys[orders[i].key] = i

\* An answer that a client of r may be given.
AnswerHolds(r, what) ==
  /\ what.is = "order" =>
       /\ what.order \in DOMAIN orders
       /\ orders[what.order].key = KeyOf[r]
       /\ Range(orders[what.order].cart) = Cart(r)
  /\ what.is = "conflict" =>
       \E i \in DOMAIN orders :
         /\ orders[i].key = KeyOf[r]
         /\ Range(orders[i].cart) # Cart(r) \/ Len(orders[i].cart) # Len(CartOf[r])

\* What clients were told of the orders there are.
AnswersHold == \A r \in Requests : AnswerHolds(r, answer[r])

CInv == CheckoutShapes /\ LocksHold /\ KeysAgree /\ AnswersHold

LEMMA Carts ==
  ASSUME NEW r \in Requests
  PROVE  /\ CartOf[r] \in Seq(Variants) /\ Len(CartOf[r]) \in Nat \ {0}
         /\ \A i \in 1 .. Len(CartOf[r]) : CartOf[r][i] \in Variants
         /\ DOMAIN CartOf[r] = 1 .. Len(CartOf[r])
         /\ KeyOf[r] \in Keys \cup {NoKey} /\ r # Free
  BY CheckoutAssumption

LEMMA CheckoutInitHolds == CheckoutInit => CInv
<1> SUFFICES ASSUME CheckoutInit PROVE CInv
  OBVIOUS
<1>1. CheckoutShapes
  BY DEF CheckoutInit, CheckoutShapes, Open, Answers, Told, None, OrderRows
<1>2. LocksHold
  BY Carts DEF CheckoutInit, LocksHold, LinesRead
<1>3. KeysAgree
  BY DEF CheckoutInit, KeysAgree
<1>4. AnswersHold
  BY DEF CheckoutInit, AnswersHold, AnswerHolds, Told
<1> QED
  BY <1>1, <1>2, <1>3, <1>4 DEF CInv

\* A request that ends its transaction releases its own locks and nobody else's.
LEMMA ReleaseKeepsLocks ==
  ASSUME CheckoutShapes, LocksHold, NEW r \in Requests, NEW x \in {"begun", "ended"},
         pc' = [pc EXCEPT ![r] = x], at' = [at EXCEPT ![r] = 1], lock' = Released(r),
         UNCHANGED sales
  PROVE  LocksHold'
<1> SUFFICES ASSUME NEW q \in Requests
             PROVE  /\ at'[q] <= Len(CartOf[q])
                    /\ pc'[q] \in {"begun", "ended"} => at'[q] = 1
                    /\ \A i \in LinesRead(q)' : lock'[CartOf[q][i]] = q /\ InStock(CartOf[q][i])'
  BY DEF LocksHold
<1>1. CASE q = r
  BY <1>1, Carts DEF CheckoutShapes, LinesRead
<1>2. CASE q # r
  <2>1. at'[q] = at[q] /\ pc'[q] = pc[q] /\ LinesRead(q)' = LinesRead(q)
    BY <1>2 DEF CheckoutShapes, LinesRead
  <2>2. \A i \in LinesRead(q) : CartOf[q][i] \in Variants
    BY Carts DEF LinesRead, LocksHold, CheckoutShapes
  <2>3. \A i \in LinesRead(q) : lock'[CartOf[q][i]] = q /\ InStock(CartOf[q][i])'
    BY <1>2, <2>2 DEF LocksHold, Released, InStock
  <2> QED
    BY <2>1, <2>3 DEF LocksHold
<1> QED
  BY <1>1, <1>2

\* What End leaves of the shapes.
LEMMA EndKeeps ==
  ASSUME CheckoutShapes, LocksHold, NEW r \in Requests, NEW what \in Answers, End(r, what), UNCHANGED sales
  PROVE  /\ LocksHold'
         /\ pc' \in [Requests -> Open \cup {"begun", "ended"}]
         /\ at' \in [Requests -> Nat \ {0}]
         /\ number' \in [Requests -> Nat]
         /\ answer' \in [Requests -> Answers]
         /\ lock' \in [Variants -> Requests \cup {Free}]
         /\ answer' = [answer EXCEPT ![r] = what]
<1>1. LocksHold'
  BY ReleaseKeepsLocks DEF End
<1> QED
  BY <1>1 DEF End, CheckoutShapes, Released, None

LEMMA RunAgainKeeps ==
  ASSUME CheckoutShapes, LocksHold, NEW r \in Requests, RunAgain(r), UNCHANGED sales
  PROVE  /\ LocksHold'
         /\ pc' \in [Requests -> Open \cup {"begun", "ended"}]
         /\ at' \in [Requests -> Nat \ {0}]
         /\ number' \in [Requests -> Nat]
         /\ answer' \in [Requests -> Answers]
         /\ lock' \in [Variants -> Requests \cup {Free}]
         /\ answer' = answer \/ answer' = [answer EXCEPT ![r] = Told("error")]
<1>1. CASE MayRetry(r)
  <2>1. LocksHold'
    BY <1>1, ReleaseKeepsLocks DEF RunAgain
  <2>2. answer' = answer
    BY <1>1 DEF RunAgain
  <2>3. pc' = [pc EXCEPT ![r] = "begun"] /\ at' = [at EXCEPT ![r] = 1]
        /\ number' = [number EXCEPT ![r] = None] /\ lock' = Released(r)
    BY <1>1 DEF RunAgain
  <2>4. /\ pc' \in [Requests -> Open \cup {"begun", "ended"}]
        /\ at' \in [Requests -> Nat \ {0}]
        /\ number' \in [Requests -> Nat]
        /\ lock' \in [Variants -> Requests \cup {Free}]
    BY <2>3 DEF CheckoutShapes, Released, None
  <2> QED
    BY <2>1, <2>2, <2>4 DEF CheckoutShapes
<1>2. CASE ~ MayRetry(r)
  <2>1. Told("error") \in Answers
    BY DEF Answers, Told
  <2> QED
    BY <1>2, <2>1, EndKeeps DEF RunAgain
<1> QED
  BY <1>1, <1>2

\* An order placed under a key that has none.
LEMMA InsertKeeps ==
  ASSUME CheckoutShapes, KeysAgree, NEW r \in Requests, ~ Claimed(r), Insert(r)
  PROVE  /\ orders' \in Seq(OrderRows) /\ keys' \in [Keys -> Nat] /\ purged' \subseteq DOMAIN orders'
         /\ KeysAgree'
         /\ Len(orders') = Len(orders) + 1
         /\ \A i \in DOMAIN orders : i \in DOMAIN orders' /\ orders'[i] = orders[i]
         /\ orders'[Len(orders) + 1].key = KeyOf[r]
         /\ orders'[Len(orders) + 1].cart = CartOf[r]
<1> DEFINE new == [number |-> number[r], key |-> KeyOf[r], cart |-> CartOf[r]]
<1>1. new \in OrderRows /\ new.key = KeyOf[r] /\ new.cart = CartOf[r]
  BY Carts DEF CheckoutShapes, OrderRows
<1>2. orders' = Append(orders, new) /\ purged' = purged
      /\ keys' = [k \in Keys |-> IF k = KeyOf[r] THEN Len(orders) + 1 ELSE keys[k]]
  BY DEF Insert
<1> HIDE DEF new
<1>3. /\ orders' \in Seq(OrderRows) /\ Len(orders') = Len(orders) + 1
      /\ Len(orders) \in Nat /\ DOMAIN orders = 1 .. Len(orders) /\ DOMAIN orders' = 1 .. Len(orders) + 1
      /\ \A i \in DOMAIN orders : orders'[i] = orders[i]
      /\ orders'[Len(orders) + 1] = new
  BY <1>1, <1>2 DEF CheckoutShapes
<1>4. keys' \in [Keys -> Nat] /\ purged' \subseteq DOMAIN orders'
  BY <1>2, <1>3 DEF CheckoutShapes
<1>5. KeysAgree'
  <2>1. \A k \in Keys : keys'[k] # None => keys'[k] \in DOMAIN orders' /\ orders'[keys'[k]].key = k
    BY <1>1, <1>2, <1>3 DEF KeysAgree
  <2>2. ASSUME NEW i \in DOMAIN orders' \ purged', orders'[i].key # NoKey
        PROVE  keys'[orders'[i].key] = i
    <3>1. CASE i = Len(orders) + 1
      BY <1>1, <1>2, <1>3, <2>2, <3>1, Carts
    <3>2. CASE i # Len(orders) + 1
      <4>1. i \in DOMAIN orders \ purged /\ orders'[i] = orders[i]
        BY <1>2, <1>3, <3>2
      <4>2. orders[i].key \in Keys /\ keys[orders[i].key] = i /\ i # None
        <5>1. orders[i] \in OrderRows /\ i \in Nat \ {0}
          BY <1>3, <4>1 DEF CheckoutShapes
        <5> QED
          BY <2>2, <4>1, <5>1 DEF KeysAgree, OrderRows, None
      <4>3. orders[i].key # KeyOf[r]
        BY <2>2, <4>1, <4>2 DEF Claimed
      <4> QED
        BY <1>2, <4>1, <4>2, <4>3
    <3> QED
      BY <3>1, <3>2
  <2> QED
    BY <2>1, <2>2 DEF KeysAgree
<1> QED
  BY <1>1, <1>3, <1>4, <1>5

\* An answer stays right while orders are only added.
LEMMA AnswersStayRight ==
  ASSUME \A i \in DOMAIN orders : i \in DOMAIN orders' /\ orders'[i] = orders[i],
         NEW r \in Requests, NEW what, AnswerHolds(r, what)
  PROVE  AnswerHolds(r, what)'
  BY DEF AnswerHolds, Cart

LEMMA AnswersKeep ==
  ASSUME CheckoutShapes, AnswersHold, NEW r \in Requests, NEW what, AnswerHolds(r, what)',
         answer' = [answer EXCEPT ![r] = what] \/ answer' = answer,
         \A i \in DOMAIN orders : i \in DOMAIN orders' /\ orders'[i] = orders[i]
  PROVE  AnswersHold'
<1> SUFFICES ASSUME NEW q \in Requests PROVE AnswerHolds(q, answer[q])'
  BY DEF AnswersHold
<1>1. AnswerHolds(q, answer[q])
  BY DEF AnswersHold
<1>2. CASE answer'[q] = answer[q]
  BY <1>1, <1>2, AnswersStayRight DEF AnswerHolds, Cart
<1>3. CASE answer'[q] # answer[q]
  <2>1. q = r /\ answer'[q] = what
    BY <1>3 DEF CheckoutShapes
  <2> QED
    BY <2>1 DEF AnswerHolds, Cart
<1> QED
  BY <1>2, <1>3

\* A word alone is an answer to anybody.
LEMMA WordsHold ==
  ASSUME NEW r \in Requests, NEW w \in {"nothing", "refused", "error"}
  PROVE  Told(w) \in Answers /\ AnswerHolds(r, Told(w)) /\ AnswerHolds(r, Told(w))'
  BY DEF Told, Answers, AnswerHolds

\* A transaction that ends without writing.
LEMMA RefusalKeeps ==
  ASSUME CInv, NEW r \in Requests, NEW what \in Answers, AnswerHolds(r, what), End(r, what),
         UNCHANGED tables, seq' \in Nat
  PROVE  CInv'
<1>1. UNCHANGED <<sales, orders, keys, purged>>
  BY DEF tables
<1>2. CheckoutShapes' /\ LocksHold' /\ answer' = [answer EXCEPT ![r] = what]
  BY <1>1, EndKeeps DEF CInv, CheckoutShapes
<1>3. AnswersHold'
  BY <1>1, <1>2, AnswersStayRight, AnswersKeep DEF CInv
<1>4. KeysAgree'
  BY <1>1 DEF CInv, KeysAgree
<1> QED
  BY <1>2, <1>3, <1>4 DEF CInv

LEMMA RetryKeeps ==
  ASSUME CInv, NEW r \in Requests, RunAgain(r), UNCHANGED <<tables, seq>>
  PROVE  CInv'
<1>1. UNCHANGED <<sales, orders, keys, purged, seq>>
  BY DEF tables
<1>2. /\ CheckoutShapes' /\ LocksHold'
      /\ answer' = answer \/ answer' = [answer EXCEPT ![r] = Told("error")]
  BY <1>1, RunAgainKeeps DEF CInv, CheckoutShapes
<1>3. AnswersHold'
  BY <1>1, <1>2, WordsHold, AnswersKeep DEF CInv
<1>4. KeysAgree'
  BY <1>1 DEF CInv, KeysAgree
<1> QED
  BY <1>2, <1>3, <1>4 DEF CInv

\* A transaction that commits an order.
LEMMA OrderKeeps ==
  ASSUME CInv, NEW r \in Requests, NEW what \in Answers, ~ Claimed(r), Insert(r), End(r, what),
         UNCHANGED seq,
         what = Told("error") \/ what = [is |-> "order", order |-> Len(orders) + 1]
  PROVE  CInv'
<1>1. UNCHANGED sales
  BY DEF Insert
<1>2. /\ orders' \in Seq(OrderRows) /\ keys' \in [Keys -> Nat] /\ purged' \subseteq DOMAIN orders'
      /\ KeysAgree'
      /\ Len(orders') = Len(orders) + 1
      /\ \A i \in DOMAIN orders : i \in DOMAIN orders' /\ orders'[i] = orders[i]
      /\ orders'[Len(orders) + 1].key = KeyOf[r]
      /\ orders'[Len(orders) + 1].cart = CartOf[r]
  BY InsertKeeps DEF CInv
<1>3. CheckoutShapes' /\ LocksHold' /\ answer' = [answer EXCEPT ![r] = what]
  BY <1>1, <1>2, EndKeeps DEF CInv, CheckoutShapes
<1>4. AnswerHolds(r, what)'
  <2>1. CASE what = Told("error")
    BY <2>1, WordsHold
  <2>2. CASE what = [is |-> "order", order |-> Len(orders) + 1]
    <3>1. Len(orders) + 1 \in DOMAIN orders'
      BY <1>2 DEF CInv, CheckoutShapes
    <3> QED
      BY <1>2, <2>2, <3>1 DEF AnswerHolds, Cart
  <2> QED
    BY <2>1, <2>2
<1>5. AnswersHold'
  BY <1>2, <1>3, <1>4, AnswersKeep DEF CInv
<1> QED
  BY <1>2, <1>3, <1>5 DEF CInv

\* Steps that touch neither orders nor keys nor answers.
LEMMA RowsStay ==
  ASSUME CInv, UNCHANGED <<orders, keys, purged, answer>>, CheckoutShapes', LocksHold'
  PROVE  CInv'
  BY DEF CInv, KeysAgree, AnswersHold, AnswerHolds, Cart

LEMMA BeginKeeps ==
  ASSUME CInv, NEW r \in Requests, Begin(r)
  PROVE  CInv'
<1> DEFINE known == IF KeyOf[r] = NoKey THEN None ELSE keys[KeyOf[r]]
<1>1. UNCHANGED <<sales, orders, keys, purged, seq>> /\ pc[r] = "begun"
  BY DEF Begin, tables
<1>2. CASE known = None
  <2>1. pc' = [pc EXCEPT ![r] = "reading"] /\ UNCHANGED <<at, number, answer, lock>>
    BY <1>2 DEF Begin
  <2>2. CheckoutShapes'
    BY <1>1, <2>1 DEF CInv, CheckoutShapes, Open
  <2>3. LocksHold'
    BY <1>1, <2>1 DEF CInv, CheckoutShapes, LocksHold, LinesRead, InStock
  <2> QED
    BY <1>1, <2>1, <2>2, <2>3, RowsStay
<1>3. CASE known # None
  <2>1. known \in DOMAIN orders /\ orders[known].key = KeyOf[r] /\ known \in Nat \ {None}
    BY <1>3, Carts DEF CInv, KeysAgree, CheckoutShapes, None
  <2>2. CASE SameRequest(r, known)
    <3>1. [is |-> "order", order |-> known] \in Answers
      BY <2>1 DEF Answers, Placed
    <3>2. AnswerHolds(r, [is |-> "order", order |-> known])
      BY <2>1, <2>2 DEF AnswerHolds, SameRequest
    <3> QED
      BY <1>1, <1>3, <2>2, <3>1, <3>2, RefusalKeeps DEF Begin, tables, CInv, CheckoutShapes
  <2>3. CASE ~ SameRequest(r, known)
    <3>1. Told("conflict") \in Answers
      BY DEF Answers, Told
    <3>2. AnswerHolds(r, Told("conflict"))
      BY <2>1, <2>3 DEF AnswerHolds, SameRequest, Told
    <3> QED
      BY <1>1, <1>3, <2>3, <3>1, <3>2, RefusalKeeps DEF Begin, tables, CInv, CheckoutShapes
  <2> QED
    BY <2>2, <2>3
<1> QED
  BY <1>2, <1>3

LEMMA ReadLineKeeps ==
  ASSUME CInv, NEW r \in Requests, ReadLine(r)
  PROVE  CInv'
<1> DEFINE v == CartOf[r][at[r]]
<1>1. /\ pc[r] = "reading" /\ lock[v] \in {Free, r} /\ InStock(v)
      /\ lock' = [lock EXCEPT ![v] = r]
      /\ UNCHANGED <<answer, sales, orders, keys, purged>>
  BY DEF ReadLine, Lockable, tables
<1>2. at[r] \in 1 .. Len(CartOf[r]) /\ v \in Variants
  BY Carts DEF CInv, LocksHold, CheckoutShapes
<1>3. \/ /\ at[r] = Len(CartOf[r]) /\ pc' = [pc EXCEPT ![r] = "numbered"]
         /\ number' = [number EXCEPT ![r] = seq + 1] /\ seq' = seq + 1 /\ UNCHANGED at
      \/ /\ at[r] # Len(CartOf[r]) /\ at' = [at EXCEPT ![r] = @ + 1]
         /\ UNCHANGED <<pc, number, seq>>
  BY DEF ReadLine, NextNumber
<1> HIDE DEF v
<1>4. CheckoutShapes'
  <2>1. lock' \in [Variants -> Requests \cup {Free}]
    BY <1>1, <1>2 DEF CInv, CheckoutShapes
  <2>2. /\ pc' \in [Requests -> Open \cup {"begun", "ended"}] /\ at' \in [Requests -> Nat \ {0}]
        /\ number' \in [Requests -> Nat] /\ seq' \in Nat
    <3>1. CASE at[r] = Len(CartOf[r]) /\ pc' = [pc EXCEPT ![r] = "numbered"]
               /\ number' = [number EXCEPT ![r] = seq + 1] /\ seq' = seq + 1 /\ UNCHANGED at
      BY <3>1 DEF CInv, CheckoutShapes, Open
    <3>2. CASE at' = [at EXCEPT ![r] = @ + 1] /\ UNCHANGED <<pc, number, seq>>
      BY <3>2 DEF CInv, CheckoutShapes
    <3> QED
      BY <1>3, <3>1, <3>2
  <2> QED
    BY <1>1, <2>1, <2>2 DEF CInv, CheckoutShapes
<1>5. LocksHold'
  <2> SUFFICES ASSUME NEW q \in Requests
               PROVE  /\ at'[q] <= Len(CartOf[q])
                      /\ pc'[q] \in {"begun", "ended"} => at'[q] = 1
                      /\ \A i \in LinesRead(q)' : lock'[CartOf[q][i]] = q /\ InStock(CartOf[q][i])'
    BY DEF LocksHold
  <2>1. CASE q # r
    <3>1. pc'[q] = pc[q] /\ at'[q] = at[q] /\ LinesRead(q)' = LinesRead(q)
      BY <1>3, <2>1 DEF CInv, CheckoutShapes, LinesRead
    <3>2. \A i \in LinesRead(q) : CartOf[q][i] \in Variants
      BY Carts DEF LinesRead, CInv, LocksHold, CheckoutShapes
    <3>3. \A i \in LinesRead(q) : lock'[CartOf[q][i]] = q /\ InStock(CartOf[q][i])'
      BY <1>1, <1>2, <2>1, <3>2, Carts DEF CInv, CheckoutShapes, LocksHold, InStock
    <3> QED
      BY <3>1, <3>3 DEF CInv, LocksHold
  <2>2. CASE q = r
    <3>1. at'[r] <= Len(CartOf[r]) /\ pc'[r] \notin {"begun", "ended"}
      BY <1>1, <1>2, <1>3, Carts DEF CInv, CheckoutShapes
    <3>2. LinesRead(r)' = 1 .. at[r] /\ LinesRead(r) = 1 .. at[r] - 1
      <4>1. LinesRead(r) = 1 .. at[r] - 1
        BY <1>1 DEF LinesRead
      <4>2. CASE at[r] = Len(CartOf[r]) /\ pc' = [pc EXCEPT ![r] = "numbered"]
        BY <4>1, <4>2 DEF CInv, CheckoutShapes, LinesRead
      <4>3. CASE at' = [at EXCEPT ![r] = @ + 1] /\ UNCHANGED pc
        BY <1>1, <1>2, <4>1, <4>3 DEF CInv, CheckoutShapes, LinesRead
      <4> QED
        BY <1>3, <4>1, <4>2, <4>3
    <3>3. ASSUME NEW i \in 1 .. at[r]
          PROVE  lock'[CartOf[r][i]] = r /\ InStock(CartOf[r][i])'
      <4>1. CartOf[r][i] \in Variants
        BY <1>2, Carts
      <4>2. CASE i = at[r]
        BY <1>1, <1>2, <4>2 DEF CInv, CheckoutShapes, InStock, v
      <4>3. CASE i # at[r]
        <5>1. i \in LinesRead(r)
          <6>1. at[r] \in Nat /\ i \in 1 .. at[r] - 1
            BY <1>2, <4>3, Carts
          <6> QED
            BY <3>2, <6>1
        <5> QED
          BY <1>1, <4>1, <5>1 DEF CInv, CheckoutShapes, LocksHold, InStock
      <4> QED
        BY <4>2, <4>3
    <3> QED
      BY <2>2, <3>1, <3>2, <3>3
  <2> QED
    BY <2>1, <2>2
<1> QED
  BY <1>1, <1>4, <1>5, RowsStay

LEMMA PlaceKeeps ==
  ASSUME CInv, NEW r \in Requests, Place(r) \/ Fault(r)
  PROVE  CInv'
<1>1. CASE Place(r) /\ Claimed(r)
  BY <1>1, RetryKeeps DEF Place
<1>2. CASE Place(r) /\ ~ Claimed(r)
  <2>1. [is |-> "order", order |-> Len(orders) + 1] \in Answers
    BY DEF CInv, CheckoutShapes, Answers, Placed, None
  <2> QED
    BY <1>2, <2>1, OrderKeeps DEF Place
<1>3. CASE Fault(r)
  <2>1. End(r, Told("error")) /\ UNCHANGED seq
    BY <1>3 DEF Fault
  <2>2. CASE UNCHANGED tables
    BY <2>1, <2>2, WordsHold, RefusalKeeps DEF CInv, CheckoutShapes
  <2>3. CASE ~ Claimed(r) /\ Insert(r)
    BY <2>1, <2>3, WordsHold, OrderKeeps
  <2> QED
    BY <1>3, <2>2, <2>3 DEF Fault
<1> QED
  BY <1>1, <1>2, <1>3

LEMMA RefuseKeeps ==
  ASSUME CInv, NEW r \in Requests, RefuseLine(r) \/ RefuseCart(r)
  PROVE  CInv'
  BY WordsHold, RefusalKeeps DEF RefuseLine, RefuseCart, CInv, CheckoutShapes

LEMMA ResubmitKeeps ==
  ASSUME CInv, NEW r \in Requests, Resubmit(r)
  PROVE  CInv'
<1>1. /\ pc[r] = "ended" /\ pc' = [pc EXCEPT ![r] = "begun"]
      /\ answer' = [answer EXCEPT ![r] = Told("nothing")]
      /\ UNCHANGED <<at, number, lock, sales, orders, keys, purged, seq>>
  BY DEF Resubmit, tables
<1>2. CheckoutShapes'
  BY <1>1, WordsHold DEF CInv, CheckoutShapes
<1>3. LocksHold'
  BY <1>1 DEF CInv, CheckoutShapes, LocksHold, LinesRead, InStock
<1>4. AnswersHold'
  BY <1>1, WordsHold, AnswersKeep DEF CInv
<1>5. KeysAgree'
  BY <1>1 DEF CInv, KeysAgree
<1> QED
  BY <1>2, <1>3, <1>4, <1>5 DEF CInv

\* Nobody sells a copy of what a request has locked.
LEMMA SellKeeps ==
  ASSUME CInv, NEW v \in Limited, Sell(v)
  PROVE  CInv'
<1>1. /\ lock[v] = Free /\ sales' = [sales EXCEPT ![v] = @ + 1]
      /\ UNCHANGED <<pc, at, number, answer, lock, orders, keys, purged, seq>>
  BY DEF Sell, requests
<1>2. CheckoutShapes'
  BY <1>1 DEF CInv, CheckoutShapes
<1>3. LocksHold'
  BY <1>1, Carts DEF CInv, CheckoutShapes, LocksHold, LinesRead, InStock
<1> QED
  BY <1>1, <1>2, <1>3, RowsStay

LEMMA PurgeKeeps ==
  ASSUME CInv, NEW k \in Keys, PurgeKey(k)
  PROVE  CInv'
<1>1. /\ keys[k] # None /\ keys' = [keys EXCEPT ![k] = None] /\ purged' = purged \cup {keys[k]}
      /\ UNCHANGED <<pc, at, number, answer, lock, sales, orders, seq>>
  BY DEF PurgeKey, requests
<1>2. CheckoutShapes'
  BY <1>1 DEF CInv, CheckoutShapes, KeysAgree, None
<1>3. LocksHold'
  BY <1>1 DEF CInv, LocksHold, LinesRead, InStock
<1>4. KeysAgree'
  BY <1>1 DEF CInv, CheckoutShapes, KeysAgree
<1>5. AnswersHold'
  BY <1>1 DEF CInv, AnswersHold, AnswerHolds, Cart
<1> QED
  BY <1>2, <1>3, <1>4, <1>5 DEF CInv

LEMMA StepsKeep == CInv /\ [CheckoutNext]_checkoutVars => CInv'
<1> SUFFICES ASSUME CInv, [CheckoutNext]_checkoutVars PROVE CInv'
  OBVIOUS
<1>1. CASE UNCHANGED checkoutVars
  BY <1>1 DEF checkoutVars, requests, tables, CInv, CheckoutShapes, LocksHold, LinesRead, InStock,
     KeysAgree, AnswersHold, AnswerHolds, Cart
<1>2. ASSUME NEW r \in Requests, Deadlocked(r) PROVE CInv'
  BY <1>2, RetryKeeps DEF Deadlocked
<1> QED
  BY <1>1, <1>2, BeginKeeps, ReadLineKeeps, PlaceKeeps, RefuseKeeps, ResubmitKeeps, SellKeeps,
     PurgeKeeps DEF CheckoutNext

LEMMA CheckoutHolds == CheckoutSpec => []CInv
  BY CheckoutInitHolds, StepsKeep, PTL DEF CheckoutSpec

\* An idempotency key makes one order until it is purged, and clients are told the truth
\* about it, however requests race for it, are repeated, aborted or retried.
THEOREM KeysMakeOneOrder == CheckoutSpec => []OneOrderPerKey
<1>1. CInv => OneOrderPerKey
  BY DEF CInv, KeysAgree, AnswersHold, AnswerHolds, OneOrderPerKey
<1> QED
  BY <1>1, CheckoutHolds, PTL

\* Whoever adds an order has read all its lines.
LEMMA OrdersAreAdded ==
  ASSUME CInv, [CheckoutNext]_checkoutVars, NEW o \in DOMAIN orders' \ DOMAIN orders
  PROVE  \E r \in Requests : pc[r] = "numbered" /\ orders'[o].cart = CartOf[r]
<1>1. ASSUME NEW r \in Requests, Place(r) \/ Fault(r)
      PROVE  pc[r] = "numbered" /\ orders'[o].cart = CartOf[r]
  <2>1. orders' # orders
    OBVIOUS
  <2>2. pc[r] = "numbered" /\ Insert(r)
    BY <1>1, <2>1 DEF Place, Fault, tables
  <2>3. orders' = Append(orders, [number |-> number[r], key |-> KeyOf[r], cart |-> CartOf[r]])
    BY <2>2 DEF Insert
  <2>4. orders \in Seq(OrderRows)
    BY DEF CInv, CheckoutShapes
  <2> DEFINE new == [number |-> number[r], key |-> KeyOf[r], cart |-> CartOf[r]]
  <2>5. new.cart = CartOf[r] /\ orders' = Append(orders, new)
    BY <2>3
  <2> HIDE DEF new
  <2>6. o = Len(orders) + 1
    BY <2>4, <2>5
  <2>7. orders'[o] = new
    BY <2>4, <2>5, <2>6
  <2> QED
    BY <2>2, <2>5, <2>7
<1>2. CASE UNCHANGED orders
  BY <1>2
<1> QED
  BY <1>1, <1>2 DEF CheckoutNext, checkoutVars, tables, Begin, ReadLine, RefuseLine, RefuseCart,
     Deadlocked, Resubmit, Sell, PurgeKey

\* An order is placed only of variants that still have a copy for sale, whatever was
\* sold since its lines were read.
THEOREM OrdersAreInStock == CheckoutSpec => PlacedWhileInStock
<1>1. CInv /\ [CheckoutNext]_checkoutVars =>
        \A o \in DOMAIN orders' \ DOMAIN orders :
          \A v \in Range(orders'[o].cart) : InStock(v)
  <2> SUFFICES ASSUME CInv, [CheckoutNext]_checkoutVars, NEW o \in DOMAIN orders' \ DOMAIN orders,
                      NEW v \in Range(orders'[o].cart)
               PROVE  InStock(v)
    OBVIOUS
  <2>1. PICK r \in Requests : pc[r] = "numbered" /\ orders'[o].cart = CartOf[r]
    BY OrdersAreAdded
  <2>2. PICK i \in 1 .. Len(CartOf[r]) : v = CartOf[r][i]
    BY <2>1, Carts DEF Range
  <2> QED
    BY <2>1, <2>2 DEF CInv, LocksHold, LinesRead
<1> QED
  BY <1>1, CheckoutHolds, PTL DEF CheckoutSpec, PlacedWhileInStock

-----------------------------------------------------------------------------
(***************************************************************************)
(* What holds of Outbox for any numbers of messages, keys, replicas and    *)
(* attempts, and for any crashes, overrun locks and replays.               *)
(*                                                                         *)
(* That acknowledged messages are delivered needs only what a replica has  *)
(* at hand.  That keys are delivered in order rests on what a claim saw of *)
(* older messages staying true, and that an order gets one mail of a kind  *)
(* on a claimed message being in one replica's hands.                      *)
(***************************************************************************)

\* The part of the type invariant the proofs need.
OutboxShapes ==
  /\ next \in Nat \ {0}
  /\ state \in [Ids -> {"none", "open", "in", "gone"}]
  /\ dispatched \subseteq Ids /\ failed \subseteq Ids /\ delivered \subseteq Ids
  /\ lockedAt \in [Ids -> {"free", "held", "stale"}]
  /\ attempts \in [Ids -> Nat]
  /\ wk \in [Workers -> WorkStates]
  /\ mails \in [OrderingKeys \X Templates -> Nat]
  /\ overran \in BOOLEAN
  /\ replays \in Nat /\ crashes \in Nat

\* Ids are given out in their order, and only a row is claimed.
IdsInOrder ==
  /\ \A n \in Ids : state[n] = "none" <=> n >= next
  /\ \A w \in Workers, n \in Ids : Holds(w, n) => state[n] = "in"

HandledIsDelivered ==
  /\ \A w \in Workers : wk[w].at = "handled" => wk[w].n \in delivered
  /\ AcknowledgedIsDelivered

DInv == OutboxShapes /\ IdsInOrder /\ HandledIsDelivered

\* A replica's work, by what it is at.
LEMMA Work ==
  ASSUME OutboxShapes, NEW w \in Workers
  PROVE  /\ wk[w].at \in {"between", "handling", "handled"}
         /\ wk[w].batch \in SUBSET (Ids \X Nat)
         /\ wk[w].at # "between" => /\ wk[w] \in [batch : SUBSET (Ids \X Nat), at : {"handling", "handled"},
                                                   n : Ids, attempt : Nat, seen : BOOLEAN]
                                    /\ wk[w].n \in Ids
  BY DEF OutboxShapes, WorkStates

LEMMA MailOfMessage ==
  ASSUME NEW n \in Ids PROVE Mail(n) \in OrderingKeys \X Templates
  BY OutboxAssumption DEF Mail, Ids

-----------------------------------------------------------------------------
(* What each step of a replica does to its work *)

LEMMA ClaimTakes ==
  ASSUME OutboxShapes, NEW w \in Workers, Claim(w)
  PROVE  \E batch \in SUBSET Ids :
           /\ \A n \in batch : Claimable(n)
           /\ lockedAt' = [n \in Ids |-> IF n \in batch THEN "held" ELSE lockedAt[n]]
           /\ wk'[w] \in WorkStates
           /\ wk' = [wk EXCEPT ![w] = wk'[w]]
           /\ wk[w] = NoWork
           /\ wk'[w].at = "between"
           /\ wk'[w].batch = {<<n, attempts[n] + 1>> : n \in batch}
<1>1. PICK batch \in SUBSET {n \in Ids : Claimable(n)} :
        /\ lockedAt' = [n \in Ids |-> IF n \in batch THEN "held" ELSE lockedAt[n]]
        /\ wk' = [wk EXCEPT ![w] = [batch |-> {<<n, attempts[n] + 1>> : n \in batch}, at |-> "between"]]
  BY DEF Claim
<1>2. {<<n, attempts[n] + 1>> : n \in batch} \in SUBSET (Ids \X Nat)
  BY DEF OutboxShapes
<1> DEFINE new == [batch |-> {<<n, attempts[n] + 1>> : n \in batch}, at |-> "between"]
<1>3. new \in WorkStates /\ new.at = "between" /\ new.batch = {<<n, attempts[n] + 1>> : n \in batch}
  BY <1>2 DEF WorkStates
<1>4. wk' = [wk EXCEPT ![w] = new] /\ wk'[w] = new
  BY <1>1 DEF OutboxShapes
<1>5. wk[w] = NoWork
  BY DEF Claim
<1> HIDE DEF new
<1> QED
  BY <1>1, <1>3, <1>4, <1>5

LEMMA HandleTakes ==
  ASSUME OutboxShapes, NEW w \in Workers, Handle(w)
  PROVE  \E x \in wk[w].batch :
           /\ x \in Ids \X Nat
           /\ wk' = [wk EXCEPT ![w] = wk'[w]]
           /\ wk'[w] \in WorkStates
           /\ wk'[w].batch = wk[w].batch \ {x} /\ wk'[w].at = "handling"
           /\ wk'[w].n = x[1] /\ wk'[w].seen = Queued(x[1])
<1>1. PICK x \in wk[w].batch :
        wk' = [wk EXCEPT ![w] = [batch |-> wk[w].batch \ {x}, at |-> "handling",
                                 n |-> x[1], attempt |-> x[2], seen |-> Queued(x[1])]]
  BY DEF Handle, OutboxShapes
<1>2. x \in Ids \X Nat /\ x[1] \in Ids /\ x[2] \in Nat /\ wk[w].batch \ {x} \in SUBSET (Ids \X Nat)
  BY Work
<1>3. Queued(x[1]) \in BOOLEAN
  BY DEF Queued
<1> DEFINE new == [batch |-> wk[w].batch \ {x}, at |-> "handling",
                   n |-> x[1], attempt |-> x[2], seen |-> Queued(x[1])]
<1>4. new \in WorkStates
  BY <1>2, <1>3 DEF WorkStates
<1>5. new.batch = wk[w].batch \ {x} /\ new.at = "handling" /\ new.n = x[1] /\ new.seen = Queued(x[1])
  OBVIOUS
<1>6. wk' = [wk EXCEPT ![w] = new] /\ wk'[w] = new
  BY <1>1 DEF OutboxShapes
<1> HIDE DEF new
<1> QED
  BY <1>2, <1>4, <1>5, <1>6

LEMMA HandlerLeaves ==
  ASSUME OutboxShapes, NEW w \in Workers, HandlerSucceeds(w)
  PROVE  /\ wk' = [wk EXCEPT ![w] = wk'[w]] /\ wk'[w] \in WorkStates
         /\ wk'[w].batch = wk[w].batch /\ wk'[w].at = "handled" /\ wk'[w].n = wk[w].n
<1>1. wk[w] \in [batch : SUBSET (Ids \X Nat), at : {"handling", "handled"},
                 n : Ids, attempt : Nat, seen : BOOLEAN]
  BY Work DEF HandlerSucceeds
<1> DEFINE new == [wk[w] EXCEPT !.at = "handled"]
<1>2. new \in WorkStates /\ new.batch = wk[w].batch /\ new.at = "handled" /\ new.n = wk[w].n
  BY <1>1 DEF WorkStates
<1>3. wk' = [wk EXCEPT ![w] = new] /\ wk'[w] = new
  BY DEF HandlerSucceeds, OutboxShapes
<1> HIDE DEF new
<1> QED
  BY <1>2, <1>3

LEMMA BatchGoesOn ==
  ASSUME OutboxShapes, NEW w \in Workers, Ack(w) \/ Nack(w)
  PROVE  /\ wk' = [wk EXCEPT ![w] = wk'[w]] /\ wk'[w] \in WorkStates
         /\ wk'[w].batch = wk[w].batch /\ wk'[w].at = "between"
<1> DEFINE new == [batch |-> wk[w].batch, at |-> "between"]
<1>1. new \in WorkStates /\ new.batch = wk[w].batch /\ new.at = "between"
  BY Work DEF WorkStates
<1>2. wk' = [wk EXCEPT ![w] = new] /\ wk'[w] = new
  BY DEF Ack, Nack, OutboxShapes
<1> HIDE DEF new
<1> QED
  BY <1>1, <1>2

LEMMA CrashLeaves ==
  ASSUME OutboxShapes, NEW w \in Workers, Crash(w)
  PROVE  /\ wk' = [wk EXCEPT ![w] = wk'[w]] /\ wk'[w] \in WorkStates
         /\ wk'[w].batch = {} /\ wk'[w].at = "between"
<1>1. NoWork \in WorkStates /\ NoWork.batch = {} /\ NoWork.at = "between"
  BY DEF NoWork, WorkStates
<1>2. wk' = [wk EXCEPT ![w] = NoWork] /\ wk'[w] = NoWork
  BY DEF Crash, OutboxShapes
<1> QED
  BY <1>1, <1>2

\* What is in a replica's hands after a step was there before, or was claimed by it.
LEMMA HandsOf ==
  ASSUME OutboxShapes, NEW w \in Workers, WorkerStep(w) \/ Crash(w), NEW v \in Workers, NEW n \in Ids,
         Holds(v, n)'
  PROVE  Holds(v, n) \/ (v = w /\ Claim(w) /\ Claimable(n))
<1>1. CASE v # w
  <2>1. wk'[v] = wk[v]
    BY <1>1, ClaimTakes, HandleTakes, HandlerLeaves, BatchGoesOn, CrashLeaves DEF WorkerStep, OutboxShapes
  <2> QED
    BY <2>1 DEF Holds
<1>2. CASE v = w
  <2>1. CASE Claim(w)
    <3>1. PICK batch \in SUBSET Ids :
             /\ \A m \in batch : Claimable(m)
             /\ wk'[w].at = "between" /\ wk'[w].batch = {<<m, attempts[m] + 1>> : m \in batch}
      BY <2>1, ClaimTakes
    <3>2. n \in batch
      BY <1>2, <3>1 DEF Holds
    <3> QED
      BY <1>2, <2>1, <3>1, <3>2
  <2>2. CASE Handle(w)
    <3>1. PICK x \in wk[w].batch : wk'[w].batch = wk[w].batch \ {x} /\ wk'[w].n = x[1]
      BY <2>2, HandleTakes
    <3> QED
      BY <1>2, <3>1 DEF Holds
  <2>3. CASE HandlerSucceeds(w)
    BY <1>2, <2>3, HandlerLeaves DEF Holds, HandlerSucceeds
  <2>4. CASE Ack(w) \/ Nack(w)
    BY <1>2, <2>4, BatchGoesOn DEF Holds
  <2>5. CASE Crash(w)
    BY <1>2, <2>5, CrashLeaves DEF Holds
  <2> QED
    BY <2>1, <2>2, <2>3, <2>4, <2>5 DEF WorkerStep
<1> QED
  BY <1>1, <1>2
-----------------------------------------------------------------------------
(* Nothing is acknowledged undelivered *)

LEMMA OutboxInitHolds == OutboxInit => DInv
<1> SUFFICES ASSUME OutboxInit PROVE DInv
  OBVIOUS
<1>0. NoWork \in WorkStates
  BY DEF NoWork, WorkStates
<1>1. OutboxShapes
  <2>1. mails \in [OrderingKeys \X Templates -> Nat]
    <3> DEFINE S == OrderingKeys \X Templates
    <3>1. mails = [m \in S |-> 0]
      BY DEF OutboxInit
    <3> HIDE DEF S
    <3>2. mails \in [S -> Nat]
      BY <3>1
    <3> QED
      BY <3>2 DEF S
  <2>2. /\ state \in [Ids -> {"none", "open", "in", "gone"}]
        /\ lockedAt \in [Ids -> {"free", "held", "stale"}]
        /\ attempts \in [Ids -> Nat]
        /\ wk \in [Workers -> WorkStates]
    <3>1. /\ state = [n \in Ids |-> "none"] /\ lockedAt = [n \in Ids |-> "free"]
          /\ attempts = [n \in Ids |-> 0] /\ wk = [w \in Workers |-> NoWork]
      BY DEF OutboxInit
    <3> QED
      BY <1>0, <3>1
  <2>3. /\ next = 1 /\ dispatched = {} /\ failed = {} /\ delivered = {}
        /\ replays = 0 /\ crashes = 0
    BY DEF OutboxInit
  <2>4. overran \in BOOLEAN
    BY Zenon DEF OutboxInit
  <2>5. /\ next \in Nat \ {0} /\ replays \in Nat /\ crashes \in Nat
        /\ dispatched \subseteq Ids /\ failed \subseteq Ids /\ delivered \subseteq Ids
    BY <2>3
  <2> QED
    BY <2>1, <2>2, <2>4, <2>5, Zenon DEF OutboxShapes
<1>2. IdsInOrder
  BY OutboxAssumption DEF OutboxInit, IdsInOrder, Holds, NoWork, Ids
<1>3. HandledIsDelivered
  BY DEF OutboxInit, HandledIsDelivered, AcknowledgedIsDelivered, NoWork
<1> QED
  BY <1>1, <1>2, <1>3 DEF DInv

LEMMA ShapesKeep ==
  ASSUME DInv, [OutboxNext]_outboxVars PROVE OutboxShapes'
<1>1. CASE Publish
  BY <1>1 DEF Publish, marks, DInv, OutboxShapes, Ids
<1>2. ASSUME NEW n \in Ids, Finish(n) \/ Replay(n) \/ OrphanExpires(n) PROVE OutboxShapes'
  BY <1>2 DEF Finish, Replay, OrphanExpires, queue, marks, DInv, OutboxShapes
<1>3. ASSUME NEW w \in Workers, NEW n \in Ids, SlowExpires(w, n) PROVE OutboxShapes'
  BY <1>3 DEF SlowExpires, queue, DInv, OutboxShapes
<1>4. ASSUME NEW w \in Workers, WorkerStep(w) \/ Crash(w) PROVE OutboxShapes'
  <2>1. wk' \in [Workers -> WorkStates]
    BY <1>4, ClaimTakes, HandleTakes, HandlerLeaves, BatchGoesOn, CrashLeaves DEF WorkerStep, DInv, OutboxShapes
  <2>2. wk[w].at # "between" => wk[w].n \in Ids
    BY Work DEF DInv
  <2>3. CASE Claim(w)
    BY <2>1, <2>3 DEF Claim, queue, DInv, OutboxShapes
  <2>4. CASE Handle(w) \/ Crash(w)
    BY <2>1, <2>4 DEF Handle, Crash, queue, marks, DInv, OutboxShapes
  <2>5. CASE HandlerSucceeds(w)
    <3>1. wk[w].n \in Ids /\ Mail(wk[w].n) \in OrderingKeys \X Templates
      BY <2>2, <2>5, MailOfMessage DEF HandlerSucceeds
    <3>2. mails' \in [OrderingKeys \X Templates -> Nat]
      BY <2>5, <3>1 DEF HandlerSucceeds, DInv, OutboxShapes
    <3> QED
      BY <2>1, <2>5, <3>1, <3>2 DEF HandlerSucceeds, queue, marks, DInv, OutboxShapes
  <2>6. CASE Ack(w)
    BY <2>1, <2>2, <2>6 DEF Ack, Acknowledgeable, queue, DInv, OutboxShapes
  <2>7. CASE Nack(w)
    BY <2>1, <2>2, <2>7 DEF Nack, queue, DInv, OutboxShapes
  <2> QED
    BY <1>4, <2>3, <2>4, <2>5, <2>6, <2>7 DEF WorkerStep
<1>5. CASE UNCHANGED outboxVars
  BY <1>5 DEF outboxVars, queue, marks, DInv, OutboxShapes
<1> QED
  BY <1>1, <1>2, <1>3, <1>4, <1>5 DEF OutboxNext

LEMMA IdsStayInOrder ==
  ASSUME DInv, [OutboxNext]_outboxVars PROVE IdsInOrder'
<1>1. CASE Publish
  BY <1>1 DEF Publish, DInv, OutboxShapes, IdsInOrder, Holds, Ids
<1>2. ASSUME NEW n \in Ids, Finish(n) PROVE IdsInOrder'
  <2>1. /\ state[n] = "open" /\ UNCHANGED <<next, wk>>
        /\ state' = [state EXCEPT ![n] = "in"] \/ state' = [state EXCEPT ![n] = "gone"]
    BY <1>2 DEF Finish
  <2>2. \A k \in Ids : state'[k] = "none" <=> k >= next'
    BY <2>1 DEF DInv, OutboxShapes, IdsInOrder
  <2>3. \A w \in Workers, k \in Ids : Holds(w, k)' => Holds(w, k) /\ k # n
    BY <2>1 DEF Holds, DInv, IdsInOrder
  <2> QED
    BY <2>1, <2>2, <2>3 DEF DInv, OutboxShapes, IdsInOrder
<1>3. CASE UNCHANGED <<queue, wk>>
  BY <1>3 DEF queue, DInv, IdsInOrder, Holds
<1>4. ASSUME NEW w \in Workers, WorkerStep(w) \/ Crash(w) PROVE IdsInOrder'
  <2>1. UNCHANGED queue
    BY <1>4 DEF WorkerStep, Claim, Handle, HandlerSucceeds, Ack, Nack, Crash
  <2>2. \A v \in Workers, n \in Ids : Holds(v, n)' => state[n] = "in"
    BY <1>4, HandsOf DEF DInv, IdsInOrder, Claimable, Pending
  <2> QED
    BY <2>1, <2>2 DEF queue, DInv, IdsInOrder
<1> QED
  BY <1>1, <1>2, <1>3, <1>4 DEF OutboxNext, outboxVars, Replay, OrphanExpires, SlowExpires

LEMMA HandledStaysDelivered ==
  ASSUME DInv, [OutboxNext]_outboxVars PROVE HandledIsDelivered'
<1>1. CASE UNCHANGED <<wk, dispatched, delivered>>
  BY <1>1 DEF DInv, HandledIsDelivered, AcknowledgedIsDelivered
<1>2. ASSUME NEW w \in Workers, Claim(w) \/ Handle(w) \/ Nack(w) \/ Crash(w) PROVE HandledIsDelivered'
  <2>1. UNCHANGED <<dispatched, delivered>>
    BY <1>2 DEF Claim, Handle, Nack, Crash, marks
  <2>2. wk' = [wk EXCEPT ![w] = wk'[w]] /\ wk'[w].at # "handled"
    BY <1>2, ClaimTakes, HandleTakes, BatchGoesOn, CrashLeaves DEF DInv
  <2> QED
    BY <2>1, <2>2 DEF DInv, OutboxShapes, HandledIsDelivered, AcknowledgedIsDelivered
<1>3. ASSUME NEW w \in Workers, HandlerSucceeds(w) PROVE HandledIsDelivered'
  <2>1. UNCHANGED dispatched /\ delivered' = delivered \cup {wk[w].n}
    BY <1>3 DEF HandlerSucceeds, marks
  <2>2. wk' = [wk EXCEPT ![w] = wk'[w]] /\ wk'[w].n = wk[w].n
    BY <1>3, HandlerLeaves DEF DInv
  <2> QED
    BY <2>1, <2>2 DEF DInv, OutboxShapes, HandledIsDelivered, AcknowledgedIsDelivered
<1>4. ASSUME NEW w \in Workers, Ack(w) PROVE HandledIsDelivered'
  <2>1. dispatched' = dispatched \cup {wk[w].n} /\ UNCHANGED delivered /\ wk[w].at = "handled"
    BY <1>4 DEF Ack, Acknowledgeable
  <2>2. wk' = [wk EXCEPT ![w] = wk'[w]] /\ wk'[w].at # "handled"
    BY <1>4, BatchGoesOn DEF DInv
  <2> QED
    BY <2>1, <2>2 DEF DInv, OutboxShapes, HandledIsDelivered, AcknowledgedIsDelivered
<1> QED
  BY <1>1, <1>2, <1>3, <1>4 DEF OutboxNext, outboxVars, marks, queue, WorkerStep, Publish, Finish,
     Replay, OrphanExpires, SlowExpires

LEMMA DeliveryHolds == OutboxSpec => []DInv
<1>1. DInv /\ [OutboxNext]_outboxVars => DInv'
  BY ShapesKeep, IdsStayInOrder, HandledStaysDelivered DEF DInv
<1> QED
  BY <1>1, OutboxInitHolds, PTL DEF OutboxSpec

\* A message leaves the queue only once its handler has succeeded, through any crashes,
\* replays and overrun locks (process acknowledges after its handlers return).
THEOREM AcknowledgedAreDelivered == OutboxSpec => []AcknowledgedIsDelivered
<1>1. DInv => AcknowledgedIsDelivered
  BY DEF DInv, HandledIsDelivered
<1> QED
  BY <1>1, DeliveryHolds, PTL

-----------------------------------------------------------------------------
(* Keys are delivered in order *)

\* What committed before a claimed message and is older is over.
ClaimsHold ==
  replays = 0 =>
    \A w \in Workers : \A p \in KeyOrder \ overtaken :
      Holds(w, p[2]) /\ state[p[1]] = "in" => p[1] \in delivered \cup failed

LEMMA ClaimsStayTrue ==
  ASSUME DInv, ClaimsHold, [OutboxNext]_outboxVars PROVE ClaimsHold'
<1> SUFFICES ASSUME replays' = 0, NEW v \in Workers, NEW m \in Ids, NEW n \in Ids, <<m, n>> \in KeyOrder,
                    <<m, n>> \notin overtaken', Holds(v, n)', state'[m] = "in"
             PROVE  m \in delivered' \cup failed'
  BY DEF ClaimsHold, KeyOrder
<1>1. ASSUME NEW k \in Ids, Replay(k) PROVE FALSE
  BY <1>1 DEF Replay, DInv, OutboxShapes
<1>2. delivered \subseteq delivered' /\ failed \subseteq failed' /\ UNCHANGED replays
  BY <1>1 DEF OutboxNext, outboxVars, queue, marks, WorkerStep, Claim, Handle, HandlerSucceeds,
     Ack, Nack, Crash, Publish, Finish, OrphanExpires, SlowExpires
<1>3. <<m, n>> \notin overtaken
  BY Zenon DEF OutboxNext, outboxVars, WorkerStep, Claim, Handle, HandlerSucceeds,
     Ack, Nack, Crash, Publish, Finish, Replay, OrphanExpires, SlowExpires
<1>4. CASE Holds(v, n)
  <2>1. state[n] = "in"
    BY <1>4 DEF DInv, IdsInOrder
  <2>2. state[m] = "in"
    <3>1. ASSUME NEW k \in Ids, Finish(k) PROVE state[m] = "in"
      <4>1. CASE k = m /\ state' = [state EXCEPT ![k] = "in"]
        <5>1. overtaken' = overtaken \cup {p \in KeyOrder : p[1] = m /\ state[p[2]] = "in"}
          BY <3>1, <4>1 DEF Finish, DInv, OutboxShapes
        <5> QED
          BY <2>1, <5>1
      <4> QED
        BY <3>1, <4>1 DEF Finish, DInv, OutboxShapes
    <3>2. Publish => state[m] = "in"
      BY DEF Publish, DInv, OutboxShapes, IdsInOrder, Ids
    <3> QED
      BY <3>1, <3>2 DEF OutboxNext, outboxVars, queue, WorkerStep, Claim, Handle, HandlerSucceeds,
         Ack, Nack, Crash, Replay, OrphanExpires, SlowExpires
  <2> QED
    BY <1>2, <1>3, <1>4, <2>2 DEF ClaimsHold
<1>5. CASE ~ Holds(v, n)
  <2>1. ASSUME NEW w \in Workers, WorkerStep(w) \/ Crash(w) PROVE m \in delivered' \cup failed'
    <3>1. Claim(w) /\ Claimable(n)
      BY <1>5, <2>1, HandsOf DEF DInv
    <3>2. state[m] = "in" /\ ~ Pending(m)
      BY <3>1 DEF Claim, queue, Claimable, Unblocked, KeyOrder, Ids
    <3> QED
      BY <1>2, <3>2 DEF Pending, DInv, HandledIsDelivered, AcknowledgedIsDelivered
  <2>2. CASE UNCHANGED wk
    BY <1>5, <2>2 DEF Holds
  <2> QED
    BY <2>1, <2>2 DEF OutboxNext, outboxVars, Publish, Finish, Replay, OrphanExpires, SlowExpires
<1> QED
  BY <1>4, <1>5

\* While no dead letter was replayed, a message is first delivered when every older one
\* of its key that committed before it has been delivered or has failed for good, in
\* whatever order transactions commit (claim, "no OLDER undispatched message").
THEOREM KeysInOrder == OutboxSpec => KeyOrderUntilReplay
<1>1. OutboxInit => ClaimsHold
  BY DEF OutboxInit, ClaimsHold, Holds, NoWork
<1>2. DInv /\ ClaimsHold /\ [OutboxNext]_outboxVars => ClaimsHold'
  BY ClaimsStayTrue
<1>3. DInv /\ ClaimsHold /\ [OutboxNext]_outboxVars =>
        [replays = 0 =>
           \A n \in delivered' \ delivered : \A p \in KeyOrder \ overtaken :
             p[2] = n /\ state[p[1]] = "in" => p[1] \in delivered \cup failed]_delivered
  <2> SUFFICES ASSUME DInv, ClaimsHold, [OutboxNext]_outboxVars, replays = 0,
                      NEW n \in delivered' \ delivered, NEW p \in KeyOrder \ overtaken,
                      p[2] = n, state[p[1]] = "in"
               PROVE  p[1] \in delivered \cup failed
    OBVIOUS
  <2>1. PICK w \in Workers : HandlerSucceeds(w) /\ n = wk[w].n
    BY DEF OutboxNext, outboxVars, queue, marks, WorkerStep, Claim, Handle, HandlerSucceeds,
       Ack, Nack, Crash, Publish, Finish, Replay, OrphanExpires, SlowExpires
  <2>2. n \in Ids /\ Holds(w, n)
    BY <2>1, Work DEF Holds, HandlerSucceeds, DInv
  <2> QED
    BY <2>2 DEF ClaimsHold
<1> QED
  BY <1>1, <1>2, <1>3, DeliveryHolds, PTL DEF OutboxSpec, KeyOrderUntilReplay
-----------------------------------------------------------------------------
(* One mail of a kind *)

\* A replica has each message once.
EachOnce(w) ==
  /\ \A x, y \in wk[w].batch : x[1] = y[1] => x = y
  /\ wk[w].at # "between" => \A x \in wk[w].batch : x[1] # wk[w].n

\* Until a lock is overrun, what a replica holds is locked, and no other one holds it.
HandsApart ==
  ~ overran =>
    /\ \A w \in Workers, n \in Ids : Holds(w, n) => lockedAt[n] = "held"
    /\ \A v, w \in Workers, n \in Ids : Holds(v, n) /\ Holds(w, n) => v = w
    /\ \A w \in Workers : EachOnce(w)

\* What a handler's snapshot saw is still so.
SnapshotsHold ==
  ~ overran =>
    \A w \in Workers : wk[w].at = "handling" => (wk[w].seen <=> Queued(wk[w].n))

MInv == HandsApart /\ SnapshotsHold /\ OneMailUntilOverrun

\* Each message announces a mail of its own.
OwnMails == \A m, n \in Ids : Mail(m) = Mail(n) => m = n

LEMMA EachStaysOnce ==
  ASSUME OutboxShapes, NEW w \in Workers, WorkerStep(w) \/ Crash(w), \A v \in Workers : EachOnce(v)
  PROVE  \A v \in Workers : EachOnce(v)'
<1> SUFFICES ASSUME NEW v \in Workers PROVE EachOnce(v)'
  OBVIOUS
<1>0. EachOnce(v)
  OBVIOUS
<1>1. CASE v # w
  <2>1. wk'[v] = wk[v]
    BY <1>1, ClaimTakes, HandleTakes, HandlerLeaves, BatchGoesOn, CrashLeaves DEF WorkerStep, OutboxShapes
  <2> QED
    BY <1>0, <2>1 DEF EachOnce
<1>2. CASE v = w
  <2>1. CASE Claim(w)
    <3>1. PICK batch \in SUBSET Ids :
             wk'[w].at = "between" /\ wk'[w].batch = {<<m, attempts[m] + 1>> : m \in batch}
      BY <2>1, ClaimTakes
    <3> QED
      BY <1>2, <3>1 DEF EachOnce
  <2>2. CASE Handle(w)
    <3>1. PICK x \in wk[w].batch : wk'[w].batch = wk[w].batch \ {x} /\ wk'[w].n = x[1]
      BY <2>2, HandleTakes
    <3> QED
      BY <1>0, <1>2, <3>1 DEF EachOnce
  <2>3. CASE HandlerSucceeds(w)
    BY <1>0, <1>2, <2>3, HandlerLeaves DEF EachOnce, HandlerSucceeds
  <2>4. CASE Ack(w) \/ Nack(w)
    BY <1>0, <1>2, <2>4, BatchGoesOn DEF EachOnce
  <2>5. CASE Crash(w)
    BY <1>2, <2>5, CrashLeaves DEF EachOnce
  <2> QED
    BY <2>1, <2>2, <2>3, <2>4, <2>5 DEF WorkerStep
<1> QED
  BY <1>1, <1>2

\* A replica that acknowledges or reschedules a message lets go of it.
LEMMA LetsGo ==
  ASSUME OutboxShapes, NEW w \in Workers, Ack(w) \/ Nack(w), EachOnce(w), NEW n \in Ids, n = wk[w].n
  PROVE  ~ Holds(w, n)'
  BY BatchGoesOn DEF Ack, Nack, Acknowledgeable, Holds, EachOnce

LEMMA HandsStayApart ==
  ASSUME DInv, HandsApart, [OutboxNext]_outboxVars PROVE HandsApart'
<1> SUFFICES ASSUME ~ overran'
             PROVE  /\ \A w \in Workers, n \in Ids : Holds(w, n)' => lockedAt'[n] = "held"
                    /\ \A v, w \in Workers, n \in Ids : Holds(v, n)' /\ Holds(w, n)' => v = w
                    /\ \A w \in Workers : EachOnce(w)'
  BY DEF HandsApart
<1>1. ASSUME NEW w \in Workers, NEW n \in Ids, SlowExpires(w, n) PROVE FALSE
  BY <1>1 DEF SlowExpires
<1>2. ~ overran
  BY <1>1, Zenon DEF OutboxNext, outboxVars, marks, WorkerStep, Claim, Handle, HandlerSucceeds, Ack, Nack,
     Crash, Publish, Finish, Replay, OrphanExpires
<1>3. /\ \A w \in Workers, n \in Ids : Holds(w, n) => lockedAt[n] = "held"
      /\ \A v, w \in Workers, n \in Ids : Holds(v, n) /\ Holds(w, n) => v = w
      /\ \A w \in Workers : EachOnce(w)
  BY <1>2 DEF HandsApart
<1>4. CASE UNCHANGED <<wk, lockedAt>>
  BY <1>3, <1>4 DEF Holds, EachOnce
<1>5. ASSUME NEW k \in Ids, OrphanExpires(k)
      PROVE  /\ \A w \in Workers, n \in Ids : Holds(w, n)' => lockedAt'[n] = "held"
             /\ \A v, w \in Workers, n \in Ids : Holds(v, n)' /\ Holds(w, n)' => v = w
             /\ \A w \in Workers : EachOnce(w)'
  <2>1. UNCHANGED wk /\ lockedAt' = [lockedAt EXCEPT ![k] = "stale"]
        /\ \A w \in Workers : ~ Holds(w, k)
    BY <1>5 DEF OrphanExpires
  <2> QED
    BY <1>3, <2>1 DEF Holds, EachOnce, DInv, OutboxShapes
<1>6. ASSUME NEW w \in Workers, WorkerStep(w) \/ Crash(w)
      PROVE  /\ \A v \in Workers, n \in Ids : Holds(v, n)' => lockedAt'[n] = "held"
             /\ \A u, v \in Workers, n \in Ids : Holds(u, n)' /\ Holds(v, n)' => u = v
             /\ \A v \in Workers : EachOnce(v)'
  <2>1. \A v \in Workers : EachOnce(v)'
    BY <1>3, <1>6, EachStaysOnce DEF DInv
  <2>2. \A v \in Workers, n \in Ids :
           Holds(v, n)' => Holds(v, n) \/ (v = w /\ Claim(w) /\ Claimable(n))
    BY <1>6, HandsOf DEF DInv
  <2>3. \A u, v \in Workers, n \in Ids : Holds(u, n)' /\ Holds(v, n)' => u = v
    BY <1>3, <2>2 DEF Claimable
  <2>4. ASSUME NEW v \in Workers, NEW n \in Ids, Holds(v, n)' PROVE lockedAt'[n] = "held"
    <3>1. CASE Claim(w)
      <4>1. PICK batch \in SUBSET Ids :
               /\ lockedAt' = [m \in Ids |-> IF m \in batch THEN "held" ELSE lockedAt[m]]
               /\ wk' = [wk EXCEPT ![w] = wk'[w]]
               /\ wk'[w].at = "between" /\ wk'[w].batch = {<<m, attempts[m] + 1>> : m \in batch}
        BY <3>1, ClaimTakes DEF DInv
      <4>2. CASE v = w
        <5>1. n \in batch
          BY <2>4, <4>1, <4>2 DEF Holds
        <5> QED
          BY <4>1, <5>1
      <4>3. CASE v # w
        BY <1>3, <2>2, <2>4, <4>1, <4>3
      <4> QED
        BY <4>2, <4>3
    <3>2. CASE Ack(w) \/ Nack(w)
      <4>1. lockedAt' = [lockedAt EXCEPT ![wk[w].n] = "free"] /\ ~ Claim(w)
        BY <3>2 DEF Ack, Nack, Acknowledgeable, Claim, NoWork
      <4>2. Holds(v, n)
        BY <2>2, <2>4, <4>1
      <4>3. n # wk[w].n
        <5>1. CASE v = w
          BY <1>3, <2>4, <3>2, <5>1, LetsGo DEF DInv
        <5>2. CASE v # w
          <6>1. Holds(w, wk[w].n)
            BY <3>2 DEF Ack, Nack, Acknowledgeable, Holds
          <6> QED
            BY <1>3, <4>2, <5>2, <6>1
        <5> QED
          BY <5>1, <5>2
      <4> QED
        BY <1>3, <4>1, <4>2, <4>3 DEF DInv, OutboxShapes
    <3>3. CASE Handle(w) \/ HandlerSucceeds(w) \/ Crash(w)
      <4>1. UNCHANGED lockedAt /\ ~ Claim(w)
        BY <3>3 DEF Handle, HandlerSucceeds, Crash, marks, Claim, NoWork
      <4> QED
        BY <1>3, <2>2, <2>4, <4>1
    <3> QED
      BY <1>6, <3>1, <3>2, <3>3 DEF WorkerStep
  <2> QED
    BY <2>1, <2>3, <2>4
<1> QED
  BY <1>1, <1>4, <1>5, <1>6 DEF OutboxNext, outboxVars, marks, Publish, Finish, Replay

LEMMA MailsStayRight ==
  ASSUME OwnMails, DInv, MInv, [OutboxNext]_outboxVars, ~ overran'
  PROVE  SnapshotsHold' /\ OneMailUntilOverrun'
<1>1. ~ overran
  BY Zenon DEF OutboxNext, outboxVars, marks, WorkerStep, Claim, Handle, HandlerSucceeds, Ack, Nack,
     Crash, Publish, Finish, Replay, OrphanExpires, SlowExpires
<1>2. /\ \A v, w \in Workers, n \in Ids : Holds(v, n) /\ Holds(w, n) => v = w
      /\ \A w \in Workers : wk[w].at = "handling" => (wk[w].seen <=> Queued(wk[w].n))
      /\ \A m \in OrderingKeys \X Templates :
            mails[m] = IF \E n \in delivered : Mail(n) = m THEN 1 ELSE 0
  BY <1>1 DEF MInv, HandsApart, SnapshotsHold, OneMailUntilOverrun
<1>3. CASE UNCHANGED <<wk, mails, delivered>>
  BY <1>2, <1>3 DEF SnapshotsHold, OneMailUntilOverrun, Queued
<1>4. ASSUME NEW w \in Workers, Claim(w) \/ Handle(w) \/ Ack(w) \/ Nack(w) \/ Crash(w)
      PROVE  SnapshotsHold' /\ OneMailUntilOverrun'
  <2>1. UNCHANGED <<mails, delivered>>
    BY <1>4 DEF Claim, Handle, Ack, Nack, Crash
  <2>2. wk' = [wk EXCEPT ![w] = wk'[w]]
    BY <1>4, ClaimTakes, HandleTakes, BatchGoesOn, CrashLeaves DEF DInv
  <2>3. wk'[w].at = "handling" => (wk'[w].seen <=> Queued(wk'[w].n))
    BY <1>4, ClaimTakes, HandleTakes, BatchGoesOn, CrashLeaves DEF DInv
  <2>4. \A v \in Workers : wk'[v].at = "handling" => (wk'[v].seen <=> Queued(wk[v].n)')
    BY <1>2, <2>1, <2>2, <2>3 DEF DInv, OutboxShapes, Queued
  <2> QED
    BY <1>2, <2>1, <2>4 DEF SnapshotsHold, OneMailUntilOverrun
<1>5. ASSUME NEW w \in Workers, HandlerSucceeds(w)
      PROVE  SnapshotsHold' /\ OneMailUntilOverrun'
  <2> DEFINE n == wk[w].n
  <2>1. /\ wk[w].at = "handling" /\ n \in Ids /\ Mail(n) \in OrderingKeys \X Templates
        /\ delivered' = delivered \cup {n}
        /\ mails' = IF wk[w].seen THEN mails ELSE [mails EXCEPT ![Mail(n)] = @ + 1]
    BY <1>5, Work, MailOfMessage DEF HandlerSucceeds, DInv
  <2>2. wk' = [wk EXCEPT ![w] = wk'[w]] /\ wk'[w].at = "handled"
    BY <1>5, HandlerLeaves DEF DInv
  <2>3. wk[w].seen <=> Queued(n)
    BY <1>2, <2>1
  <2>4. \A k \in delivered : k \in Ids
    BY DEF DInv, OutboxShapes
  <2> HIDE DEF n
  <2>5. \A m \in OrderingKeys \X Templates : m # Mail(n) => mails'[m] = mails[m]
    BY <2>1 DEF DInv, OutboxShapes
  <2>6. mails[Mail(n)] = IF n \in delivered THEN 1 ELSE 0
    BY <1>2, <2>1, <2>4 DEF OwnMails
  <2>7. mails'[Mail(n)] = 1
    <3>1. CASE n \in delivered
      <4>1. mails[Mail(n)] = 1
        BY <2>6, <3>1
      <4>2. wk[w].seen
        BY <2>3, <4>1 DEF Queued
      <4> QED
        BY <2>1, <4>1, <4>2
    <3>2. CASE n \notin delivered
      <4>1. mails[Mail(n)] = 0
        BY <2>6, <3>2
      <4>2. ~ wk[w].seen
        BY <2>3, <4>1 DEF Queued
      <4>3. mails' = [mails EXCEPT ![Mail(n)] = mails[Mail(n)] + 1]
        BY <2>1, <4>2
      <4> QED
        BY <2>1, <4>1, <4>3 DEF DInv, OutboxShapes
    <3> QED
      BY <3>1, <3>2
  <2>8. OneMailUntilOverrun'
    <3> SUFFICES ASSUME NEW m \in OrderingKeys \X Templates
                 PROVE  mails'[m] = IF \E k \in delivered' : Mail(k) = m THEN 1 ELSE 0
      BY DEF OneMailUntilOverrun
    <3>1. CASE m = Mail(n)
      BY <2>1, <2>7, <3>1
    <3>2. CASE m # Mail(n)
      BY <1>2, <2>1, <2>5, <3>2
    <3> QED
      BY <3>1, <3>2
  <2>9. SnapshotsHold'
    <3> SUFFICES ASSUME NEW v \in Workers, wk'[v].at = "handling"
                 PROVE  wk'[v].seen <=> Queued(wk[v].n)'
      BY DEF SnapshotsHold
    <3>1. v # w /\ wk'[v] = wk[v]
      BY <2>2 DEF DInv, OutboxShapes
    <3>2. wk[v].n \in Ids /\ Holds(v, wk[v].n) /\ Holds(w, n)
      BY <2>1, <3>1, Work DEF Holds, DInv, n
    <3>3. wk[v].n # n
      BY <1>2, <2>1, <3>1, <3>2
    <3>4. Mail(wk[v].n) # Mail(n) /\ Mail(wk[v].n) \in OrderingKeys \X Templates
      BY <2>1, <3>2, <3>3, MailOfMessage DEF OwnMails
    <3>5. mails'[Mail(wk[v].n)] = mails[Mail(wk[v].n)]
      BY <2>5, <3>4
    <3>6. wk[v].seen <=> Queued(wk[v].n)
      BY <1>2, <3>1
    <3> QED
      BY <3>1, <3>5, <3>6 DEF Queued
  <2> QED
    BY <2>8, <2>9
<1> QED
  BY <1>3, <1>4, <1>5 DEF OutboxNext, outboxVars, WorkerStep, Publish, Finish, Replay, OrphanExpires,
     SlowExpires

\* As long as no batch outlives its lock, an order has one mail of each kind that was
\* announced to it, if no two messages announce the same mail (queueOrderMail).
THEOREM OneMailEach == ASSUME OwnMails PROVE OutboxSpec => []OneMailUntilOverrun
<1>1. OutboxInit => MInv
  <2> SUFFICES ASSUME OutboxInit PROVE MInv
    OBVIOUS
  <2>1. HandsApart /\ SnapshotsHold
    BY DEF OutboxInit, HandsApart, SnapshotsHold, EachOnce, Holds, NoWork
  <2>2. OneMailUntilOverrun
    BY DEF OutboxInit, OneMailUntilOverrun
  <2> QED
    BY <2>1, <2>2 DEF MInv
<1>2. DInv /\ MInv /\ [OutboxNext]_outboxVars => MInv'
  <2> SUFFICES ASSUME DInv, MInv, [OutboxNext]_outboxVars PROVE MInv'
    OBVIOUS
  <2>1. HandsApart'
    BY HandsStayApart DEF MInv
  <2>2. CASE overran'
    BY <2>1, <2>2, Zenon DEF MInv, SnapshotsHold, OneMailUntilOverrun
  <2>3. CASE ~ overran'
    BY <2>1, <2>3, MailsStayRight DEF MInv
  <2> QED
    BY <2>2, <2>3
<1>3. MInv => OneMailUntilOverrun
  BY DEF MInv
<1> QED
  BY <1>1, <1>2, <1>3, DeliveryHolds, PTL DEF OutboxSpec
-----------------------------------------------------------------------------
(* The outbox is a work queue *)

\* Only a committed message is worked on or ended, once until a lock is overrun, and
\* what a replica holds until then has not ended.
EndsOnce ==
  /\ dispatched \cup failed \cup delivered \subseteq {n \in Ids : state[n] = "in"}
  /\ ~ overran => dispatched \cap failed = {}
  /\ ~ overran => \A w \in Workers, n \in Ids : Holds(w, n) => Pending(n)

\* What a replica still holds after it has ended a message is another message.
LEMMA OthersAreHeld ==
  ASSUME DInv, HandsApart, ~ overran, NEW w \in Workers, Ack(w) \/ Nack(w),
         NEW v \in Workers, NEW n \in Ids, Holds(v, n)'
  PROVE  Holds(v, n) /\ n # wk[w].n
<1>1. Holds(v, n)
  <2>1. ~ Claim(w)
    BY DEF Ack, Nack, Acknowledgeable, Claim, NoWork
  <2> QED
    BY <2>1, HandsOf DEF WorkerStep, DInv
<1>2. Holds(w, wk[w].n) /\ wk[w].n \in Ids
  BY Work DEF Ack, Nack, Acknowledgeable, Holds, DInv
<1>3. EachOnce(w) /\ (Holds(v, n) /\ Holds(w, n) => v = w)
  BY DEF HandsApart
<1>4. CASE v = w
  BY <1>1, <1>3, <1>4, LetsGo DEF DInv
<1>5. CASE v # w
  BY <1>1, <1>2, <1>3, <1>5
<1> QED
  BY <1>4, <1>5

\* The message at a replica's hand, when it is worked on or ended.
LEMMA AtHand ==
  ASSUME DInv, EndsOnce, NEW w \in Workers, wk[w].at # "between"
  PROVE  /\ wk[w].n \in Ids /\ Holds(w, wk[w].n) /\ state[wk[w].n] = "in"
         /\ ~ overran => wk[w].n \notin dispatched /\ wk[w].n \notin failed
<1>1. wk[w].n \in Ids /\ Holds(w, wk[w].n)
  BY Work DEF Holds, DInv
<1> QED
  BY <1>1 DEF DInv, IdsInOrder, EndsOnce, Pending

LEMMA CommittedStays ==
  ASSUME DInv, [OutboxNext]_outboxVars, NEW n \in Ids, state[n] = "in" PROVE state'[n] = "in"
<1>1. CASE UNCHANGED state
  BY <1>1
<1>2. CASE Publish
  BY <1>2 DEF Publish, DInv, OutboxShapes, IdsInOrder, Ids
<1>3. ASSUME NEW k \in Ids, Finish(k) PROVE state'[n] = "in"
  BY <1>3 DEF Finish, DInv, OutboxShapes
<1> QED
  BY <1>1, <1>2, <1>3 DEF OutboxNext, outboxVars, queue, WorkerStep, Claim, Handle, HandlerSucceeds,
     Ack, Nack, Crash, Replay, OrphanExpires, SlowExpires

LEMMA EndsStayOnce ==
  ASSUME DInv, HandsApart, EndsOnce, [OutboxNext]_outboxVars PROVE EndsOnce'
<1> DEFINE In  == dispatched \cup failed \cup delivered \subseteq {n \in Ids : state[n] = "in"}
           Two == dispatched \cap failed = {}
           Held == \A w \in Workers, n \in Ids : Holds(w, n) => Pending(n)
<1>0. \A n \in Ids : state[n] = "in" => state'[n] = "in"
  BY CommittedStays
<1>1. ~ overran' => ~ overran
  BY Zenon DEF OutboxNext, outboxVars, marks, WorkerStep, Claim, Handle, HandlerSucceeds, Ack, Nack,
     Crash, Publish, Finish, Replay, OrphanExpires, SlowExpires
<1>2. ASSUME UNCHANGED <<wk, dispatched, failed, delivered>> PROVE EndsOnce'
  <2>1. In' /\ (~ overran' => Two')
    BY <1>0, <1>1, <1>2 DEF EndsOnce
  <2>2. ASSUME ~ overran', NEW v \in Workers, NEW n \in Ids, Holds(v, n)' PROVE Pending(n)'
    <3>1. Holds(v, n)
      BY <1>2, <2>2 DEF Holds
    <3> QED
      BY <1>0, <1>1, <1>2, <2>2, <3>1 DEF EndsOnce, Pending
  <2> QED
    BY <2>1, <2>2 DEF EndsOnce
<1>3. ASSUME NEW k \in Ids, Replay(k) PROVE EndsOnce'
  <2>1. UNCHANGED <<state, wk, dispatched, delivered, overran>> /\ failed' = failed \ {k}
    BY <1>3 DEF Replay, queue
  <2> QED
    BY <2>1 DEF EndsOnce, Holds, Pending
<1>4. ASSUME NEW w \in Workers, Claim(w) \/ Handle(w) \/ HandlerSucceeds(w) \/ Crash(w) PROVE EndsOnce'
  <2>1. /\ UNCHANGED <<state, dispatched, failed, overran>>
        /\ delivered' = delivered \/ (wk[w].at # "between" /\ delivered' = delivered \cup {wk[w].n})
    BY <1>4 DEF Claim, Handle, HandlerSucceeds, Crash, queue, marks
  <2>2. In'
    BY <2>1, AtHand DEF EndsOnce
  <2>3. ASSUME ~ overran', NEW v \in Workers, NEW n \in Ids, Holds(v, n)' PROVE Pending(n)'
    <3>1. Holds(v, n) \/ Claimable(n)
      BY <1>4, <2>3, HandsOf DEF WorkerStep, DInv
    <3>2. Pending(n)
      BY <1>1, <2>3, <3>1 DEF EndsOnce, Claimable
    <3> QED
      BY <2>1, <3>2 DEF Pending
  <2> QED
    BY <2>1, <2>2, <2>3 DEF EndsOnce
<1>5. ASSUME NEW w \in Workers, Ack(w) \/ Nack(w) PROVE EndsOnce'
  <2> DEFINE n == wk[w].n
  <2>1. wk[w].at # "between"
    BY <1>5 DEF Ack, Nack, Acknowledgeable
  <2>2. /\ UNCHANGED <<state, delivered, overran>>
        /\ \/ UNCHANGED failed /\ dispatched' = dispatched \cup {n}
           \/ UNCHANGED dispatched /\ (failed' = failed \cup {n} \/ UNCHANGED failed)
    BY <1>5 DEF Ack, Nack, queue
  <2>3. n \in Ids /\ state[n] = "in" /\ (~ overran => n \notin dispatched /\ n \notin failed)
    BY <2>1, AtHand
  <2>4. In' /\ (~ overran' => Two')
    BY <2>2, <2>3 DEF EndsOnce
  <2>5. ASSUME ~ overran', NEW v \in Workers, NEW m \in Ids, Holds(v, m)' PROVE Pending(m)'
    <3>1. Holds(v, m) /\ m # n
      BY <1>1, <1>5, <2>5, OthersAreHeld
    <3>2. Pending(m)
      BY <1>1, <2>5, <3>1 DEF EndsOnce
    <3> QED
      BY <2>2, <3>1, <3>2 DEF Pending
  <2> QED
    BY <2>4, <2>5 DEF EndsOnce
<1> QED
  BY <1>2, <1>3, <1>4, <1>5 DEF OutboxNext, outboxVars, marks, WorkerStep, Publish, Finish, OrphanExpires,
     SlowExpires

QInv == HandsApart /\ EndsOnce

dispatchVars == <<MessageStatus, delivered, overtaken, replays > 0, overran>>

\* How a message stands, by its row.
LEMMA Standing ==
  /\ DOMAIN MessageStatus = Ids
  /\ \A n \in Ids :
       /\ MessageStatus[n] = "absent" <=> state[n] # "in"
       /\ MessageStatus[n] = "settled" <=> state[n] = "in" /\ n \in dispatched
       /\ MessageStatus[n] = "dropped" <=> state[n] = "in" /\ n \notin dispatched /\ n \in failed
       /\ MessageStatus[n] = "open" <=> state[n] = "in" /\ n \notin dispatched /\ n \notin failed
BY DEF MessageStatus

LEMMA SameStanding ==
  ASSUME UNCHANGED <<dispatched, failed>>, \A n \in Ids : state'[n] = "in" <=> state[n] = "in"
  PROVE  UNCHANGED MessageStatus
BY Zenon DEF MessageStatus

\* A step that ends or brings back one message, by the columns it writes.
LEMMA NewStanding ==
  ASSUME NEW n \in Ids, NEW s \in {"open", "settled", "dropped"},
         \A m \in Ids : m # n => /\ (state'[m] = "in" <=> state[m] = "in")
                                 /\ (m \in dispatched' <=> m \in dispatched)
                                 /\ (m \in failed' <=> m \in failed),
         state'[n] = "in",
         s = "settled" <=> n \in dispatched',
         s = "dropped" <=> n \notin dispatched' /\ n \in failed'
  PROVE  MessageStatus' = [MessageStatus EXCEPT ![n] = s]
<1> DEFINE f == [MessageStatus EXCEPT ![n] = s]
<1>1. DOMAIN MessageStatus = Ids /\ DOMAIN MessageStatus' = Ids /\ DOMAIN f = Ids
  BY DEF MessageStatus
<1>2. ASSUME NEW m \in Ids PROVE MessageStatus'[m] = f[m]
  <2>1. CASE m = n
    BY <2>1 DEF MessageStatus
  <2>2. CASE m # n
    BY <2>2 DEF MessageStatus
  <2> QED
    BY <2>1, <2>2
<1>3. MessageStatus' = [m \in Ids |-> MessageStatus'[m]] /\ f = [m \in Ids |-> f[m]]
  BY <1>1 DEF MessageStatus
<1> QED
  BY <1>2, <1>3

\* Handling a message is the work of the queue, in the order of its key.
LEMMA HandlingWorks ==
  ASSUME DInv, ClaimsHold, QInv, NEW w \in Workers, HandlerSucceeds(w)
  PROVE  [Promised!Next]_dispatchVars
<1> DEFINE n == wk[w].n
<1>1. /\ wk[w].at # "between" /\ delivered' = delivered \cup {n}
      /\ UNCHANGED <<state, dispatched, failed, overran, overtaken, replays>>
  BY DEF HandlerSucceeds, queue, marks
<1>2. /\ n \in Ids /\ Holds(w, n) /\ state[n] = "in"
      /\ ~ overran => n \notin dispatched /\ n \notin failed
  BY <1>1, AtHand DEF QInv
<1>3. UNCHANGED <<MessageStatus, overtaken, replays > 0, overran>>
  BY <1>1, SameStanding
<1> HIDE DEF n
<1>4. Promised!MayTouch(n)
  BY <1>2, Standing DEF Promised!MayTouch
<1>5. replays > 0 \/ Promised!InTurn(n)
  <2> SUFFICES ASSUME ~ (replays > 0), NEW m \in Ids, <<m, n>> \in KeyOrder \ overtaken,
                      MessageStatus[m] # "absent"
               PROVE  m \in delivered \/ MessageStatus[m] = "dropped"
    BY DEF Promised!InTurn
  <2>1. replays = 0
    BY DEF DInv, OutboxShapes
  <2>3. state[m] = "in"
    BY Standing
  <2>4. m \in delivered \cup failed
    BY <1>2, <2>1, <2>3 DEF ClaimsHold
  <2>5. m \in dispatched => m \in delivered
    BY DEF DInv, HandledIsDelivered, AcknowledgedIsDelivered
  <2> QED
    BY <2>3, <2>4, <2>5, Standing
<1>6. Promised!Work(n)
  BY <1>1, <1>3, <1>4, <1>5 DEF Promised!Work
<1> QED
  BY <1>2, <1>6 DEF Promised!Next

\* Every other step of the outbox puts, ends, returns or disturbs a task, or leaves the
\* queue as it is.
LEMMA QueueStep == DInv /\ ClaimsHold /\ QInv /\ [OutboxNext]_outboxVars => [Promised!Next]_dispatchVars
<1> SUFFICES ASSUME DInv, ClaimsHold, QInv, [OutboxNext]_outboxVars PROVE [Promised!Next]_dispatchVars
  OBVIOUS
<1>1. ASSUME UNCHANGED <<state, dispatched, failed, delivered, overtaken, replays, overran>>
      PROVE  [Promised!Next]_dispatchVars
  BY <1>1, SameStanding DEF dispatchVars
<1>2. CASE Publish
  <2>1. state' = [state EXCEPT ![next] = "open"] /\ next \in Ids
        /\ UNCHANGED <<dispatched, failed, delivered, overtaken, replays, overran>>
    BY <1>2 DEF Publish, marks, DInv, OutboxShapes, Ids
  <2>2. state[next] = "none"
    BY <2>1 DEF DInv, IdsInOrder, OutboxShapes, Ids
  <2>3. \A n \in Ids : state'[n] = "in" <=> state[n] = "in"
    BY <2>1, <2>2 DEF DInv, OutboxShapes
  <2> QED
    BY <2>1, <2>3, SameStanding DEF dispatchVars
<1>3. ASSUME NEW n \in Ids, Finish(n) PROVE [Promised!Next]_dispatchVars
  <2>1. /\ state[n] = "open" /\ UNCHANGED <<dispatched, failed, delivered, replays, overran>>
        /\ \/ /\ state' = [state EXCEPT ![n] = "in"]
              /\ overtaken' = overtaken \cup {p \in KeyOrder : p[1] = n /\ state[p[2]] = "in"}
           \/ state' = [state EXCEPT ![n] = "gone"] /\ UNCHANGED overtaken
    BY <1>3 DEF Finish, marks
  <2>2. CASE state' = [state EXCEPT ![n] = "gone"] /\ UNCHANGED overtaken
    <3>1. \A m \in Ids : state'[m] = "in" <=> state[m] = "in"
      BY <2>1, <2>2 DEF DInv, OutboxShapes
    <3> QED
      BY <2>1, <2>2, <3>1, SameStanding DEF dispatchVars
  <2>3. CASE /\ state' = [state EXCEPT ![n] = "in"]
             /\ overtaken' = overtaken \cup {p \in KeyOrder : p[1] = n /\ state[p[2]] = "in"}
    <3>1. state'[n] = "in" /\ \A m \in Ids : m # n => state'[m] = state[m]
      BY <2>3 DEF DInv, OutboxShapes
    <3>2. n \notin dispatched /\ n \notin failed
      BY <2>1 DEF QInv, EndsOnce
    <3>3. MessageStatus' = [MessageStatus EXCEPT ![n] = "open"]
      BY <2>1, <3>1, <3>2, NewStanding
    <3>4. MessageStatus[n] = "absent"
      BY <2>1, Standing
    <3>5. \A p \in KeyOrder : state[p[2]] = "in" <=> MessageStatus[p[2]] # "absent"
      BY Standing DEF KeyOrder
    <3>6. overtaken' = overtaken \cup {p \in KeyOrder : p[1] = n /\ MessageStatus[p[2]] # "absent"}
      BY <2>3, <3>5
    <3>7. Promised!Put(n)
      BY <2>1, <3>3, <3>4, <3>6 DEF Promised!Put
    <3> QED
      BY <3>7 DEF Promised!Next
  <2> QED
    BY <2>1, <2>2, <2>3
<1>4. ASSUME NEW n \in Ids, Replay(n) PROVE [Promised!Next]_dispatchVars
  <2>1. /\ n \in failed /\ failed' = failed \ {n} /\ replays' = replays + 1
        /\ UNCHANGED <<state, dispatched, delivered, overran, overtaken>>
    BY <1>4 DEF Replay, queue
  <2>2. (replays > 0)' = TRUE /\ state[n] = "in"
    BY <2>1 DEF DInv, OutboxShapes, QInv, EndsOnce
  <2>3. CASE n \in dispatched
    <3>1. overran
      BY <2>1, <2>3 DEF QInv, EndsOnce
    <3>2. UNCHANGED MessageStatus
      <4>1. \A m \in Ids : m \notin dispatched => (m \in failed' <=> m \in failed)
        BY <2>1, <2>3
      <4> QED
        BY <2>1, <4>1, Zenon DEF MessageStatus
    <3>3. Promised!Return(n)
      BY <2>1, <2>2, <3>1, <3>2 DEF Promised!Return
    <3> QED
      BY <3>3 DEF Promised!Next
  <2>4. CASE n \notin dispatched
    <3>1. MessageStatus[n] = "dropped"
      BY <2>1, <2>2, <2>4, Standing
    <3>2. MessageStatus' = [MessageStatus EXCEPT ![n] = "open"]
      BY <2>1, <2>2, <2>4, NewStanding
    <3>3. Promised!Return(n)
      BY <2>1, <2>2, <3>1, <3>2 DEF Promised!Return
    <3> QED
      BY <3>3 DEF Promised!Next
  <2> QED
    BY <2>3, <2>4
<1>5. ASSUME NEW w \in Workers, Ack(w) PROVE [Promised!Next]_dispatchVars
  <2> DEFINE n == wk[w].n
  <2>1. /\ wk[w].at = "handled" /\ dispatched' = dispatched \cup {n}
        /\ UNCHANGED <<state, failed, delivered, replays, overran, overtaken>>
    BY <1>5 DEF Ack, Acknowledgeable, queue
  <2>2. /\ n \in Ids /\ state[n] = "in" /\ n \in delivered
        /\ ~ overran => n \notin dispatched /\ n \notin failed
    BY <2>1, AtHand DEF QInv, DInv, HandledIsDelivered
  <2> HIDE DEF n
  <2>3. Promised!MayTouch(n)
    BY <2>2, Standing DEF Promised!MayTouch
  <2>4. MessageStatus' = [MessageStatus EXCEPT ![n] = "settled"]
    BY <2>1, <2>2, NewStanding
  <2>5. Promised!End(n, "settled")
    BY <2>1, <2>2, <2>3, <2>4 DEF Promised!End
  <2> QED
    BY <2>2, <2>5 DEF Promised!Next
<1>6. ASSUME NEW w \in Workers, Nack(w) PROVE [Promised!Next]_dispatchVars
  <2> DEFINE n == wk[w].n
  <2>1. /\ wk[w].at = "handling" /\ (failed' = failed \cup {n} \/ UNCHANGED failed)
        /\ UNCHANGED <<state, dispatched, delivered, replays, overran, overtaken>>
    BY <1>6 DEF Nack, queue
  <2>2. n \in Ids /\ state[n] = "in" /\ (~ overran => n \notin dispatched /\ n \notin failed)
    BY <2>1, AtHand DEF QInv
  <2> HIDE DEF n
  <2>3. CASE UNCHANGED failed
    BY <1>1, <2>1, <2>3
  <2>4. CASE failed' = failed \cup {n} /\ n \in dispatched
    <3>1. \A m \in Ids : m \notin dispatched => (m \in failed' <=> m \in failed)
      BY <2>4
    <3>2. UNCHANGED MessageStatus
      BY <2>1, <3>1, Zenon DEF MessageStatus
    <3> QED
      BY <2>1, <3>2 DEF dispatchVars
  <2>5. CASE failed' = failed \cup {n} /\ n \notin dispatched
    <3>1. Promised!MayTouch(n)
      BY <2>2, Standing DEF Promised!MayTouch
    <3>2. MessageStatus' = [MessageStatus EXCEPT ![n] = "dropped"]
      BY <2>1, <2>2, <2>5, NewStanding
    <3>3. Promised!End(n, "dropped")
      BY <2>1, <3>1, <3>2 DEF Promised!End
    <3> QED
      BY <2>2, <3>3 DEF Promised!Next
  <2> QED
    BY <2>1, <2>3, <2>4, <2>5
<1>7. ASSUME NEW w \in Workers, NEW n \in Ids, SlowExpires(w, n) PROVE [Promised!Next]_dispatchVars
  <2>1. UNCHANGED <<state, dispatched, failed, delivered, replays, overtaken>> /\ overran' = TRUE
    BY <1>7 DEF SlowExpires, queue
  <2>2. Promised!Disturb
    BY <2>1, SameStanding DEF Promised!Disturb
  <2> QED
    BY <2>2 DEF Promised!Next
<1>8. ASSUME NEW w \in Workers, WorkerStep(w) \/ Crash(w) PROVE [Promised!Next]_dispatchVars
  <2>1. CASE Claim(w) \/ Handle(w) \/ Crash(w)
    BY <1>1, <2>1 DEF Claim, Handle, Crash, queue, marks
  <2> QED
    BY <1>5, <1>6, <1>8, <2>1, HandlingWorks DEF WorkerStep
<1> QED
  BY <1>1, <1>2, <1>3, <1>4, <1>7, <1>8 DEF OutboxNext, outboxVars, queue, marks, OrphanExpires

\* The outbox keeps what a work queue promises, whatever replicas crash, are slow or
\* repeat one another, and in whatever order transactions commit (claim, process, ack
\* and nack, which name a message by its id alone).
THEOREM OutboxImplementsQueue == OutboxSpec => DispatchIsWorkQueue
<1>1. OutboxInit => Promised!Init
  <2> SUFFICES ASSUME OutboxInit PROVE Promised!Init
    OBVIOUS
  <2>1. MessageStatus = [n \in Ids |-> "absent"]
    BY DEF OutboxInit, MessageStatus
  <2> QED
    BY <2>1 DEF OutboxInit, Promised!Init
<1>2. OutboxInit => ClaimsHold /\ QInv
  BY DEF OutboxInit, ClaimsHold, QInv, HandsApart, EndsOnce,
     EachOnce, Holds, NoWork
<1>3. DInv /\ ClaimsHold /\ QInv /\ [OutboxNext]_outboxVars => ClaimsHold' /\ QInv'
  BY ClaimsStayTrue, HandsStayApart, EndsStayOnce DEF QInv
<1>4. DInv /\ ClaimsHold /\ QInv /\ [OutboxNext]_outboxVars =>
        [Promised!Next]_<<MessageStatus, delivered, overtaken, replays > 0, overran>>
  BY QueueStep DEF dispatchVars
<1> QED
  BY <1>1, <1>2, <1>3, <1>4, DeliveryHolds, PTL
     DEF OutboxSpec, DispatchIsWorkQueue, Promised!Spec, Promised!queueVars
=============================================================================
