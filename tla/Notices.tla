------------------------------ MODULE Notices -------------------------------
(***************************************************************************)
(* How a seller hears of a new payout destination: queuePayoutChangeNotice *)
(* (internal/modules/seller) queues a job with the addition, the job       *)
(* notify_payout_change (internal/worker) queues a mail, and the mail is   *)
(* drained (module Mail).                                                  *)
(*                                                                         *)
(* The job's unique key is the seller and the second of active_from, its   *)
(* payload the addition that queued it.  A worker that overruns its lock   *)
(* is the subject of module Catalogue; here one is lost.                   *)
(***************************************************************************)
EXTENDS Mail

CONSTANTS
    Additions,      \* calls of AddPayoutAccount by one seller
    Seconds,        \* bound: the clock runs through 1 .. Seconds
    MaxNoticeTries, \* jobs.max_attempts
    MaxJobFaults    \* bound: runs of a job that fail or are lost

ASSUME NoticeBounds ==
    /\ Seconds \in Nat \ {0} /\ MaxJobFaults \in Nat
    /\ MaxNoticeTries \in Nat \ {0}

VARIABLES
    second,   \* the clock
    addedIn,  \* the second of each addition, 0 before it
    notice,   \* the job each addition queued, if it queued one
    toldBy,   \* history: the addition whose job stands for each
    about,    \* notifications.variables: the addition a mail is about
    jobFaults \* runs failed or lost so far

noticeVars == <<second, addedIn, notice, toldBy, about, jobFaults, mailVars>>

NoNotice == [state |-> "none", tries |-> 0, locked |-> FALSE]

NoticeInit ==
    /\ second = 1
    /\ addedIn = [a \in Additions |-> 0]
    /\ notice = [a \in Additions |-> NoNotice]
    /\ toldBy = [a \in Additions |-> {}]
    /\ about = [m \in Mails |-> {}]
    /\ jobFaults = 0
    /\ MailInit

Tick ==
    /\ second < Seconds
    /\ second' = second + 1
    /\ UNCHANGED <<addedIn, notice, toldBy, about, jobFaults, mailVars>>

\* The jobs of this second that are neither completed nor failed.
Unfinished == {b \in Additions : addedIn[b] = second /\ notice[b].state \in {"pending", "announced"}}

\* A job of the same second stands for this addition too, whatever its payload
\* (ON CONFLICT (unique_key) ... DO NOTHING).
Add(a) ==
    /\ addedIn[a] = 0
    /\ addedIn' = [addedIn EXCEPT ![a] = second]
    /\ \/ /\ Unfinished = {}
          /\ notice' = [notice EXCEPT ![a] = [NoNotice EXCEPT !.state = "pending"]]
          /\ toldBy' = [toldBy EXCEPT ![a] = {a}]
       \/ \E b \in Unfinished :
             toldBy' = [toldBy EXCEPT ![a] = {b}] /\ UNCHANGED notice
    /\ UNCHANGED <<second, about, jobFaults, mailVars>>

\* claimJobs: the attempt is counted, and compared with nothing.
ClaimNotice(a) ==
    /\ notice[a].state = "pending" /\ ~ notice[a].locked
    /\ notice' = [notice EXCEPT ![a].locked = TRUE, ![a].tries = @ + 1]
    /\ UNCHANGED <<second, addedIn, toldBy, about, jobFaults, mailVars>>

\* jobNotifyPayoutChange: a mail with the payload is queued in a transaction of its own ...
AnnounceChange(a) ==
    /\ notice[a].state = "pending" /\ notice[a].locked
    /\ \E m \in Mails : Enqueue(m) /\ about' = [about EXCEPT ![m] = {a}]
    /\ notice' = [notice EXCEPT ![a].state = "announced"]
    /\ UNCHANGED <<second, addedIn, toldBy, jobFaults, drain, delivered, repeats, mailFaults>>

\* ... and the job completed in another.
CompleteNotice(a) ==
    /\ notice[a].state = "announced"
    /\ notice' = [notice EXCEPT ![a].state = "completed", ![a].locked = FALSE]
    /\ UNCHANGED <<second, addedIn, toldBy, about, jobFaults, mailVars>>

\* Mutant of Exhausted: the next attempt is counted as made.
ExhaustedEarly(a) == notice[a].tries + 1 >= MaxNoticeTries

Exhausted(a) == notice[a].tries >= MaxNoticeTries

\* failJob, after the handler's transaction was rolled back.
NoticeFails(a) ==
    /\ jobFaults < MaxJobFaults
    /\ notice[a].state = "pending" /\ notice[a].locked
    /\ notice' = [notice EXCEPT
          ![a].locked = FALSE,
          ![a].state = IF Exhausted(a) THEN "failed" ELSE "pending"]
    /\ jobFaults' = jobFaults + 1
    /\ UNCHANGED <<second, addedIn, toldBy, about, mailVars>>

\* Bound: the rows of mails suffice for the additions that still need one.
SpareMails ==
    Cardinality({m \in Mails : mail[m].status = "none"})
      > Cardinality({a \in Additions : addedIn[a] = 0 \/ notice[a].state = "pending"})

\* The worker is lost before it completes the job, or does not get to record its end: the
\* lock expires, and the job is claimed again however often it was.
NoticeLost(a) ==
    /\ jobFaults < MaxJobFaults
    /\ notice[a].locked
    /\ notice[a].state = "announced" => SpareMails
    /\ notice' = [notice EXCEPT ![a].locked = FALSE, ![a].state = "pending"]
    /\ jobFaults' = jobFaults + 1
    /\ UNCHANGED <<second, addedIn, toldBy, about, mailVars>>

NoticeStep(a) == ClaimNotice(a) \/ AnnounceChange(a) \/ CompleteNotice(a)

MailOnly == UNCHANGED <<second, addedIn, notice, toldBy, about, jobFaults>>

NoticeNext ==
    \/ Tick
    \/ \E a \in Additions : Add(a) \/ NoticeStep(a) \/ NoticeFails(a) \/ NoticeLost(a)
    \/ MailNext /\ MailOnly

NoticeSpec == NoticeInit /\ [][NoticeNext]_noticeVars

\* The worker polls the jobs, and runs sendQueuedMail every few seconds.  Nothing says
\* that a transport ever takes a mail.
NoticeFairSpec ==
    /\ NoticeSpec
    /\ \A a \in Additions : WF_noticeVars(NoticeStep(a))
    /\ \A d \in Drains : WF_noticeVars(DrainStep(d) /\ MailOnly)

----------------------------------------------------------------------------
(* Properties. *)

NoticeTypeOK ==
    /\ MailTypeOK
    /\ second \in 1 .. Seconds
    /\ addedIn \in [Additions -> 0 .. Seconds]
    /\ notice \in [Additions ->
          [state : {"none", "pending", "announced", "completed", "failed"},
           tries : 0 .. MaxJobFaults + 1, locked : BOOLEAN]]
    /\ toldBy \in [Additions -> SUBSET Additions]
    /\ about \in [Mails -> SUBSET Additions]

\* A destination that is added is announced, whatever becomes of the workers that run
\* its job and drain the queue: a mail with the payload of the job that stands for it is
\* sent, or given up after all its attempts; or that job was tried as often as it may be
\* and failed.
ChangesAreAnnounced ==
    \A a, b \in Additions :
        toldBy[a] = {b} ~>
            \/ \E m \in Mails : about[m] = {b} /\ mail[m].status \in {"sent", "failed"}
            \/ notice[b].state = "failed" /\ notice[b].tries >= MaxNoticeTries

\* The claim of AddPayoutAccount ("if the change commits, the warning is owed",
\* internal/modules/seller/payout.go:126-128): each addition has a job of its own, queued or
\* given up, or a mail that names it.  Of two in one second only the first has.
WarningIsOwed ==
    \A a \in Additions :
        addedIn[a] # 0 => \/ notice[a].state \in {"pending", "failed"}
                         \/ \E m \in Mails : about[m] = {a}

=============================================================================
