------------------------------- MODULE Outbox -------------------------------
(***************************************************************************)
(* The transactional outbox: Publish inside a domain transaction, and      *)
(* dispatcher replicas that claim, handle, acknowledge, reschedule and     *)
(* dead-letter messages.                                                   *)
(*                                                                         *)
(* A claim is a committed transaction: the handlers run after it, with     *)
(* nothing but locked_at between them and another replica, and ack and nack*)
(* name the message only.  Ids are UUIDv7s, taken before the publishing    *)
(* transaction commits; several publish under an order's key without       *)
(* locking the order, so messages of a key commit in any order.  A         *)
(* publisher whose host's clock is behind looks like one that commits late.*)
(* The handler is queueOrderMail, one statement that inserts a mail unless *)
(* its snapshot has one of that template for that order, which is the key. *)
(* Time is left out: a message in back-off, or whose lock is older than    *)
(* five minutes, may be claimed at any moment.                             *)
(***************************************************************************)
EXTENDS Naturals, FiniteSets

CONSTANTS
  OrderingKeys,         \* ordering keys
  NumMessages,  \* bound on the messages published
  OrderingKey,        \* ordering_key of each message
  Templates,
  TemplateOf,   \* the mail template a message's topic is subscribed with
  Workers,      \* dispatcher replicas
  MaxAttempts,
  MaxTroubles   \* bound on operators' Replay calls, crashes, and locks a slow batch outlives

ASSUME OutboxAssumption ==
  /\ NumMessages \in Nat /\ MaxAttempts \in Nat \ {0}
  /\ MaxTroubles \in Nat
  /\ OrderingKey \in [1 .. NumMessages -> OrderingKeys]
  /\ TemplateOf \in [1 .. NumMessages -> Templates]

VARIABLES
  next,       \* the next id
  state,      \* of an id: "none", "open" (uncommitted), "in" (a row), "gone"
  dispatched, \* rows with dispatched_at
  failed,     \* rows with failed_at
  lockedAt,   \* locked_at: "free", "held" or "stale"
  attempts,
  wk,         \* each replica: its claimed batch and the message at hand
  delivered,  \* messages whose handler succeeded, in the order it first did
  mails,      \* how many notifications rows, by order and template
  overran,    \* history: a batch outlived its lock
  overtaken,  \* history: an id committed behind a later one of its key
  replays, crashes

queue == <<next, state>>
marks == <<dispatched, failed, lockedAt, attempts>>
outboxVars  == <<queue, marks, wk, delivered, mails, overran, overtaken, replays, crashes>>

Ids == 1 .. NumMessages

\* The pairs of messages that share a key, the older first.
KeyOrder == {p \in Ids \X Ids : p[1] < p[2] /\ OrderingKey[p[1]] = OrderingKey[p[2]]}

\* What queueOrderMail tells one mail from another by.
Mail(n) == <<OrderingKey[n], TemplateOf[n]>>

NoWork == [batch |-> {}, at |-> "between"]

\* A replica has a batch of <<id, attempts>> left, and may have one at hand.
WorkStates ==
  [batch : SUBSET (Ids \X Nat), at : {"between"}]
    \cup [batch : SUBSET (Ids \X Nat), at : {"handling", "handled"},
          n : Ids, attempt : Nat, seen : BOOLEAN]

OutboxTypeOK ==
  /\ next \in 1 .. NumMessages + 1
  /\ state \in [Ids -> {"none", "open", "in", "gone"}]
  /\ dispatched \cup failed \cup delivered \subseteq {n \in Ids : state[n] = "in"}
  /\ lockedAt \in [Ids -> {"free", "held", "stale"}]
  /\ attempts \in [Ids -> Nat]
  /\ wk \in [Workers -> WorkStates]
  /\ mails \in [OrderingKeys \X Templates -> Nat]
  /\ overran \in BOOLEAN /\ overtaken \subseteq KeyOrder
  /\ replays \in 0 .. MaxTroubles /\ crashes \in 0 .. MaxTroubles

OutboxInit ==
  /\ next = 1
  /\ state = [n \in Ids |-> "none"]
  /\ dispatched = {} /\ failed = {}
  /\ lockedAt = [n \in Ids |-> "free"]
  /\ attempts = [n \in Ids |-> 0]
  /\ wk = [w \in Workers |-> NoWork]
  /\ delivered = {}
  /\ mails = [m \in OrderingKeys \X Templates |-> 0]
  /\ overran = FALSE /\ overtaken = {}
  /\ replays = 0 /\ crashes = 0

-----------------------------------------------------------------------------
(* Publish *)

Publish ==
  /\ next <= NumMessages
  /\ state' = [state EXCEPT ![next] = "open"]
  /\ next' = next + 1
  /\ UNCHANGED <<marks, wk, delivered, mails, overran, overtaken, replays, crashes>>

\* The domain transaction commits, or rolls back and takes the message with it.
Finish(n) ==
  /\ state[n] = "open"
  /\ \/ /\ state' = [state EXCEPT ![n] = "in"]
        /\ overtaken' = overtaken \cup {p \in KeyOrder : p[1] = n /\ state[p[2]] = "in"}
     \/ state' = [state EXCEPT ![n] = "gone"] /\ UNCHANGED overtaken
  /\ UNCHANGED <<next, marks, wk, delivered, mails, overran, replays, crashes>>

-----------------------------------------------------------------------------
(* claim *)

\* A committed row, neither dispatched nor dead-lettered.
Pending(n) == state[n] = "in" /\ n \notin dispatched /\ n \notin failed

\* Mutant of Unblocked: the guard on older messages is dropped.
UnblockedAlways(n) == TRUE

\* No OLDER undispatched message shares the key.
Unblocked(n) == \A m \in 1 .. n - 1 : OrderingKey[m] = OrderingKey[n] => ~Pending(m)

\* Mutant of Claimable: the claim takes what another replica has locked.
ClaimableLocked(n) == Pending(n) /\ Unblocked(n)

Claimable(n) == Pending(n) /\ lockedAt[n] # "held" /\ Unblocked(n)

\* A batch, up to the limit, of what SKIP LOCKED does not skip.
Claim(w) ==
  /\ wk[w] = NoWork
  /\ \E batch \in SUBSET {n \in Ids : Claimable(n)} :
       /\ batch # {}
       /\ lockedAt' = [n \in Ids |-> IF n \in batch THEN "held" ELSE lockedAt[n]]
       /\ attempts' = [n \in Ids |-> IF n \in batch THEN attempts[n] + 1 ELSE attempts[n]]
       /\ wk' = [wk EXCEPT ![w] = [batch |-> {<<n, attempts[n] + 1>> : n \in batch},
                                   at |-> "between"]]
  /\ UNCHANGED <<queue, dispatched, failed, delivered, mails, overran, overtaken, replays, crashes>>

-----------------------------------------------------------------------------
(* process, for the messages of the batch one after the other *)

\* Mutant of Queued: the insert has no WHERE NOT EXISTS.
NeverQueued(n) == FALSE

\* A notification of the template for the order is there already.
Queued(n) == mails[Mail(n)] > 0

\* The handler's statement takes its snapshot.
Handle(w) ==
  /\ wk[w].at = "between"
  /\ \E x \in wk[w].batch :
       wk' = [wk EXCEPT ![w] = [batch |-> @.batch \ {x}, at |-> "handling",
                                n |-> x[1], attempt |-> x[2], seen |-> Queued(x[1])]]
  /\ UNCHANGED <<queue, marks, delivered, mails, overran, overtaken, replays, crashes>>

\* It commits: INSERT ... WHERE NOT EXISTS, judged on that snapshot.
HandlerSucceeds(w) ==
  LET n == wk[w].n IN
  /\ wk[w].at = "handling"
  /\ delivered' = delivered \cup {n}
  /\ mails' = IF wk[w].seen THEN mails ELSE [mails EXCEPT ![Mail(n)] = @ + 1]
  /\ wk' = [wk EXCEPT ![w].at = "handled"]
  /\ UNCHANGED <<queue, marks, overran, overtaken, replays, crashes>>

\* Mutant of Acknowledgeable: the acknowledgement does not wait for the handler.
AcknowledgeableEarly(w) == wk[w].at # "between"

\* Every handler returned without an error.
Acknowledgeable(w) == wk[w].at = "handled"

Ack(w) ==
  /\ Acknowledgeable(w)
  /\ dispatched' = dispatched \cup {wk[w].n}
  /\ lockedAt' = [lockedAt EXCEPT ![wk[w].n] = "free"]
  /\ wk' = [wk EXCEPT ![w] = [batch |-> @.batch, at |-> "between"]]
  /\ UNCHANGED <<queue, failed, attempts, delivered, mails, overran, overtaken, replays, crashes>>

\* The handler fails: rescheduled, or dead-lettered.
Nack(w) ==
  /\ wk[w].at = "handling"
  /\ failed' = IF wk[w].attempt >= MaxAttempts THEN failed \cup {wk[w].n} ELSE failed
  /\ lockedAt' = [lockedAt EXCEPT ![wk[w].n] = "free"]
  /\ wk' = [wk EXCEPT ![w] = [batch |-> @.batch, at |-> "between"]]
  /\ UNCHANGED <<queue, dispatched, attempts, delivered, mails, overran, overtaken, replays, crashes>>

\* An operator returns a dead letter to the queue.
Replay(n) ==
  /\ n \in failed
  /\ replays + crashes < MaxTroubles
  /\ replays' = replays + 1
  /\ failed' = failed \ {n}
  /\ attempts' = [attempts EXCEPT ![n] = 0]
  /\ UNCHANGED <<queue, dispatched, lockedAt, wk, delivered, mails, overran, overtaken, crashes>>

-----------------------------------------------------------------------------
(* Crashes and locks *)

\* n is in the hands of a live replica.
Holds(w, n) == (\E x \in wk[w].batch : x[1] = n) \/ (wk[w].at # "between" /\ wk[w].n = n)

Crash(w) ==
  /\ wk[w] # NoWork
  /\ replays + crashes < MaxTroubles
  /\ crashes' = crashes + 1
  /\ wk' = [wk EXCEPT ![w] = NoWork]
  /\ UNCHANGED <<queue, marks, delivered, mails, overran, overtaken, replays>>

\* Mutant of Expired: a lock is for ever.
NeverExpired(n) == FALSE

\* Five minutes pass on a lock.
Expired(n) == lockedAt[n] = "held"

\* The lock of a replica that is gone.
OrphanExpires(n) ==
  /\ Expired(n)
  /\ \A w \in Workers : ~Holds(w, n)
  /\ lockedAt' = [lockedAt EXCEPT ![n] = "stale"]
  /\ UNCHANGED <<queue, dispatched, failed, attempts, wk, delivered, mails, overran, overtaken, replays, crashes>>

\* The lock of a replica that is still working on its batch.
SlowExpires(w, n) ==
  /\ Expired(n)
  /\ Holds(w, n)
  /\ replays + crashes < MaxTroubles
  /\ crashes' = crashes + 1
  /\ lockedAt' = [lockedAt EXCEPT ![n] = "stale"]
  /\ overran' = TRUE
  /\ UNCHANGED <<queue, dispatched, failed, attempts, wk, delivered, mails, overtaken, replays>>

-----------------------------------------------------------------------------
WorkerStep(w) == Claim(w) \/ Handle(w) \/ HandlerSucceeds(w) \/ Ack(w) \/ Nack(w)

OutboxNext ==
  \/ Publish
  \/ \E n \in Ids : Finish(n) \/ Replay(n) \/ OrphanExpires(n)
  \/ \E w \in Workers : WorkerStep(w) \/ Crash(w)
  \/ \E w \in Workers, n \in Ids : SlowExpires(w, n)

OutboxSpec == OutboxInit /\ [][OutboxNext]_outboxVars

-----------------------------------------------------------------------------
(* Properties *)

\* A message leaves the queue only when its handler has run to success, whatever
\* replicas crash, overrun their locks or repeat one another.
AcknowledgedIsDelivered == dispatched \subseteq delivered

\* While nothing was replayed, a key is delivered in order: a message is first delivered
\* when each older one of its key that committed before it has been delivered or
\* dead-lettered.
KeyOrderUntilReplay ==
  [][replays = 0 =>
       \A n \in delivered' \ delivered : \A p \in KeyOrder \ overtaken :
         p[2] = n /\ state[p[1]] = "in" => p[1] \in delivered \cup failed]_delivered

\* outbox.go:39-41: messages that share a key "are delivered in insertion order: two
\* updates to the same order cannot be reordered".  As the code is, a message whose
\* transaction commits late is delivered behind a younger one of its order, although
\* it was there before that one was delivered.
InsertionOrder ==
  [][replays = 0 =>
       \A n \in delivered' \ delivered : \A p \in KeyOrder :
         p[2] = n /\ state[p[1]] = "in" => p[1] \in delivered \cup failed]_delivered

\* worker.go:98-99: "a repeated delivery finds the notification already present rather
\* than queueing a second copy".  As long as no batch outlives its lock, an order has
\* one mail of each kind that was announced and no other, although handlers crash after
\* they committed, and replicas and an operator repeat messages.
OneMailUntilOverrun ==
  ~overran =>
    \A m \in OrderingKeys \X Templates :
      mails[m] = IF \E n \in delivered : Mail(n) = m THEN 1 ELSE 0

\* Every message that committed is delivered or ends as a dead letter, through
\* crashes, expired locks and failing handlers: the NumMessages that are published
\* leave an empty queue.
EveryMessageEnds ==
  []<>(\A n \in Ids : state[n] = "in" => n \in delivered \cup failed)

-----------------------------------------------------------------------------
(* The queue it is *)

\* The outbox is a queue of its committed messages, in the order of their ids on a key.
MessageStatus ==
  [n \in Ids |-> IF state[n] # "in" THEN "absent"
                 ELSE IF n \in dispatched THEN "settled"
                 ELSE IF n \in failed THEN "dropped" ELSE "open"]

Promised == INSTANCE WorkQueue WITH
  Tasks <- Ids, Before <- KeyOrder, status <- MessageStatus, worked <- delivered,
  overtaken <- overtaken, returned <- replays > 0, disturbed <- overran

\* Until a batch outlives its lock, a message that was acknowledged or dead-lettered is
\* not handled, acknowledged or dead-lettered again by a replica that is late; the order
\* of a key, but for what committed behind a later id, and the handler before the acknowledgement are kept even then.
DispatchIsWorkQueue == Promised!Spec
=============================================================================
