-------------------------------- MODULE Sale --------------------------------
(***************************************************************************)
(* What the purchase path promises, without its handlers: an order is sold *)
(* at most once, for an attempt the provider has charged the order's own   *)
(* total for; an order that has closed is never sold, and a sale is never  *)
(* taken back.  It does not promise that an attempt pays for one order     *)
(* only: the code compares amounts, never the order an attempt was for.    *)
(***************************************************************************)
CONSTANTS Orders, Payments, AmountOf, TotalOf

VARIABLES
  charged,  \* attempts whose money the provider has taken
  sold,     \* pairs of an order and the attempt its entitlement was given for
  closed    \* orders that can no longer be sold

Init == charged = {} /\ sold = {} /\ closed = {}

Unsold(o) == \A x \in sold : x[1] # o

Charge(p) ==
  /\ charged' = charged \cup {p}
  /\ UNCHANGED <<sold, closed>>

Sell(o, p) ==
  /\ p \in charged
  /\ AmountOf[p] = TotalOf[o]
  /\ o \notin closed
  /\ Unsold(o)
  /\ sold' = sold \cup {<<o, p>>}
  /\ UNCHANGED <<charged, closed>>

Close(o) ==
  /\ Unsold(o)
  /\ closed' = closed \cup {o}
  /\ UNCHANGED <<charged, sold>>

Next ==
  \/ \E p \in Payments : Charge(p)
  \/ \E o \in Orders, p \in Payments : Sell(o, p)
  \/ \E o \in Orders : Close(o)

Spec == Init /\ [][Next]_<<charged, sold, closed>>
=============================================================================
