-------------------------------- MODULE Mail --------------------------------
(***************************************************************************)
(* The queue of transactional mail (internal/platform/mail, Queue.Drain,   *)
(* run by every worker as sendQueuedMail).                                 *)
(*                                                                         *)
(* A drain claims all that is queued in one transaction, which only counts *)
(* the attempt: the rows stay queued, and FOR UPDATE SKIP LOCKED keeps a   *)
(* second drain off them no longer than that transaction lasts.  It then   *)
(* sends them one by one and records each outcome by the row's id alone.   *)
(* Messages are rendered from their row; addresses are not modelled, a     *)
(* mail without a deliverable one is an attempt that fails.                *)
(***************************************************************************)
EXTENDS Naturals, FiniteSets

CONSTANTS
    Mails,        \* rows of notifications, channel 'email'
    Drains,       \* workers that run sendQueuedMail
    MaxSends,     \* Queue.maxAttempts
    MaxMailFaults \* bound: workers lost and outcomes not recorded

ASSUME MailBounds == IsFiniteSet(Drains) /\ MaxSends \in Nat \ {0} /\ MaxMailFaults \in Nat

VARIABLES
    mail,      \* status and attempts of each row
    drain,     \* the batch of each worker, and the row it has just tried
    delivered, \* history: how often the transport took each mail
    repeats,   \* history: the claims of a mail that another worker still holds, and
               \* its deliveries that were not recorded
    mailFaults \* workers lost and outcomes not recorded so far

mailVars == <<mail, drain, delivered, repeats, mailFaults>>

NoBatch == [batch |-> {}, tried |-> {}]

MailInit ==
    /\ mail = [m \in Mails |-> [status |-> "none", attempts |-> 0]]
    /\ drain = [d \in Drains |-> NoBatch]
    /\ delivered = [m \in Mails |-> 0]
    /\ repeats = [m \in Mails |-> 0]
    /\ mailFaults = 0

\* Mutant of Queued: the claim does not look at the status.
QueuedOrNot == {m \in Mails : mail[m].status # "none"}

Queued == {m \in Mails : mail[m].status = "queued"}

\* INSERT INTO notifications, by whoever announces something.
Enqueue(m) ==
    /\ mail[m].status = "none"
    /\ mail' = [mail EXCEPT ![m].status = "queued"]

Held(m) == \E d \in Drains : \E b \in drain[d].batch : b.mail = m

\* mail_claim: the attempt is counted, and returned as counted.
Claim(d) ==
    /\ drain[d] = NoBatch
    /\ Queued # {}
    /\ mail' = [m \in Mails |-> IF m \in Queued THEN [mail[m] EXCEPT !.attempts = @ + 1] ELSE mail[m]]
    /\ drain' = [drain EXCEPT ![d].batch =
                    {[mail |-> m, attempts |-> mail[m].attempts + 1] : m \in Queued}]
    /\ repeats' = [m \in Mails |-> repeats[m] + IF m \in Queued /\ Held(m) THEN 1 ELSE 0]
    /\ UNCHANGED <<delivered, mailFaults>>

\* One message of the batch: resolved, rendered and handed to the transport.
Send(d) ==
    /\ drain[d].tried = {}
    /\ \E b \in drain[d].batch, taken \in BOOLEAN :
          /\ drain' = [drain EXCEPT ![d].tried = {[claim |-> b, taken |-> taken]}]
          /\ delivered' = [delivered EXCEPT ![b.mail] = IF taken THEN @ + 1 ELSE @]
    /\ UNCHANGED <<mail, repeats, mailFaults>>

\* markFailed, from the attempts the claim returned.
AfterFailure(attempts) == IF attempts >= MaxSends THEN "failed" ELSE "queued"

Rest(d, t) == [batch |-> drain[d].batch \ {t.claim}, tried |-> {}]

\* markSent or markFailed: whatever the row says by now.
MarkMail(d) ==
    \E t \in drain[d].tried :
        /\ mail' = [mail EXCEPT ![t.claim.mail].status =
                      IF t.taken THEN "sent" ELSE AfterFailure(t.claim.attempts)]
        /\ drain' = [drain EXCEPT ![d] = Rest(d, t)]
        /\ UNCHANGED <<delivered, repeats, mailFaults>>

\* The outcome that is lost with t: a delivery nobody will know of.
Forgotten(m, t) == IF t.taken /\ t.claim.mail = m THEN 1 ELSE 0

\* The update fails: it is logged, and the drain goes on.
MarkLost(d) ==
    /\ mailFaults < MaxMailFaults
    /\ \E t \in drain[d].tried :
          /\ drain' = [drain EXCEPT ![d] = Rest(d, t)]
          /\ repeats' = [m \in Mails |-> repeats[m] + Forgotten(m, t)]
    /\ mailFaults' = mailFaults + 1
    /\ UNCHANGED <<mail, delivered>>

\* The worker is lost with its batch.
DrainLost(d) ==
    /\ mailFaults < MaxMailFaults
    /\ drain[d] # NoBatch
    /\ drain' = [drain EXCEPT ![d] = NoBatch]
    /\ repeats' = [m \in Mails |->
          repeats[m] + Cardinality({t \in drain[d].tried : Forgotten(m, t) = 1})]
    /\ mailFaults' = mailFaults + 1
    /\ UNCHANGED <<mail, delivered>>

DrainStep(d) == Claim(d) \/ Send(d) \/ MarkMail(d)

MailNext == \E d \in Drains : DrainStep(d) \/ MarkLost(d) \/ DrainLost(d)

----------------------------------------------------------------------------
(* Properties. *)

MailTypeOK ==
    /\ mail \in [Mails -> [status : {"none", "queued", "sent", "failed"}, attempts : Nat]]
    /\ \A d \in Drains : \A t \in drain[d].tried : t.claim \in drain[d].batch
    /\ mailFaults \in 0 .. MaxMailFaults

\* A mail is said to be sent only when the transport took it, and it is delivered again
\* only when a worker claimed it while another still held it, or when a delivery was
\* not recorded: one worker that is not interrupted sends each mail once.
RepeatsAreExplained ==
    \A m \in Mails :
        /\ mail[m].status = "sent" => delivered[m] > 0
        /\ delivered[m] <= 1 + repeats[m]

MailStatus ==
    [m \in Mails |-> IF mail[m].status = "none" THEN "absent"
                    ELSE IF mail[m].status = "sent" THEN "settled"
                    ELSE IF mail[m].status = "failed" THEN "dropped" ELSE "open"]

Promised == INSTANCE WorkQueue WITH
    Tasks <- Mails, Before <- {}, status <- MailStatus,
    worked <- {m \in Mails : delivered[m] > 0}, overtaken <- {}, returned <- FALSE,
    disturbed <- \E m \in Mails : repeats[m] > 0

\* Until a worker claims a mail that another still holds, or a delivery is not recorded,
\* a mail that was sent or given up is not tried or marked again; a mail is marked sent
\* only when the transport took it even then.
MailIsWorkQueue == Promised!Spec

=============================================================================
