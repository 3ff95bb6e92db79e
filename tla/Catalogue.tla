----------------------------- MODULE Catalogue -----------------------------
(***************************************************************************)
(* One product on its way to a buyer: its files are uploaded, queued,      *)
(* scanned by worker replicas and promoted out of quarantine, and the      *)
(* seller takes it on and off sale.                                        *)
(*                                                                         *)
(* A job is claimed in a committed statement and then run: reading and     *)
(* marking the file, the scan, the copy and the record are separate        *)
(* statements or transactions, with nothing but locked_at between them and *)
(* a second replica, and completeJob and failJob name the job only.        *)
(* refreshProductProvenance reads the product's files and writes the       *)
(* product in two statements of one READ COMMITTED transaction.            *)
(* Time is left out: a job in back-off may be claimed at any moment.       *)
(* The scanner is an external service; its database changes between scans. *)
(***************************************************************************)
EXTENDS Naturals, FiniteSets

CONSTANTS
  Assets,       \* upload slots of the product, one file each
  Previews,     \* those finalised as previews
  Marked,       \* files that carry provenance signals
  Verdicts,     \* what a scan of each file may find
  Workers,      \* worker replicas
  MaxAttempts,  \* jobs.max_attempts
  MaxFaults     \* bound on crashes, lost statements, and locks a slow batch outlives

Suspect == {"infected", "suspicious"}
Decided == Suspect \cup {"clean"}

ASSUME CatalogueAssumption ==
  /\ Previews \subseteq Assets /\ Marked \subseteq Assets
  /\ Verdicts \in [Assets -> SUBSET Decided]
  /\ MaxAttempts \in Nat \ {0} /\ MaxFaults \in Nat

VARIABLES
  uploaded,   \* quarantine keys that hold an object
  stored,     \* deliverable keys that hold an object
  scan,       \* product_assets.scan_status, "none" before the row exists
  signalled,  \* rows whose provenance columns are set
  routed,     \* the files products.provenance_score speaks for
  cases,      \* how many moderation_cases rows name the file
  recorded,   \* history: files an analysis was recorded of
  job,        \* the scan_asset job of each file
  wk,         \* each replica: its claimed batch and the job at hand
  onSale,     \* products.status is 'published' (and not 'draft')
  priced,     \* an active variant exists
  sellerOk,   \* the seller is active and verified
  pub,        \* a Publish request: "idle", or "ready" once it has looked
  faults,
  overran,    \* history: a lock was outlived by its holder
  overlapped  \* history: two records read the product's files side by side

files   == <<uploaded, stored, scan, signalled, cases, recorded>>
listing == <<onSale, priced, sellerOk, pub>>
history == <<faults, overran, overlapped>>
vars    == <<files, routed, job, wk, listing, history>>

NoJob   == [attempts |-> 0, locked |-> FALSE, ended |-> {"none"}]
NoBatch == [batch |-> {}, at |-> "between"]

\* A replica has a batch of <<file, attempts>> left, and may have one at hand.
\* tries is the attempt the claim returned, found what the scan said, and sees
\* the other files with signals that the record's transaction read.
WorkStates ==
  [batch : SUBSET (Assets \X Nat), at : {"between"}]
    \cup [batch : SUBSET (Assets \X Nat),
          at : {"mark", "analyse", "unscanned", "copy", "record", "commit", "ok", "err"},
          a : Assets, tries : Nat, found : Decided \cup {"error"}, sees : SUBSET Assets]

TypeOK ==
  /\ uploaded \subseteq Assets /\ stored \subseteq Assets
  /\ recorded \subseteq Assets /\ signalled \subseteq Marked /\ routed \subseteq Marked
  /\ scan \in [Assets -> Decided \cup {"none", "pending", "scanning", "error"}]
  /\ cases \in [Assets -> Nat]
  /\ job \in [Assets -> [attempts : Nat, locked : BOOLEAN,
                         ended : SUBSET {"none", "completed", "failed"}]]
  /\ wk \in [Workers -> WorkStates]
  /\ onSale \in BOOLEAN /\ priced \in BOOLEAN /\ sellerOk \in BOOLEAN
  /\ pub \in {"idle", "ready"}
  /\ faults \in 0 .. MaxFaults /\ overran \in BOOLEAN /\ overlapped \in BOOLEAN

Init ==
  /\ uploaded = {} /\ stored = {} /\ signalled = {} /\ routed = {}
  /\ recorded = {}
  /\ scan = [a \in Assets |-> "none"]
  /\ cases = [a \in Assets |-> 0]
  /\ job = [a \in Assets |-> NoJob]
  /\ wk = [w \in Workers |-> NoBatch]
  /\ onSale = FALSE /\ priced = FALSE /\ sellerOk = TRUE
  /\ pub = "idle"
  /\ faults = 0 /\ overran = FALSE /\ overlapped = FALSE

-----------------------------------------------------------------------------
(* The seller: uploads, prices, publishes *)

\* RequestUpload makes no row; the bytes land under the quarantine key.
Upload(a) ==
  /\ uploaded' = uploaded \cup {a}
  /\ uploaded' # uploaded
  /\ UNCHANGED <<stored, scan, signalled, cases, recorded, routed, job, wk, listing, history>>

\* The row and its job, in one transaction, whether or not the product is on sale.
FinaliseUpload(a) ==
  /\ a \in uploaded /\ scan[a] = "none"
  /\ scan' = [scan EXCEPT ![a] = "pending"]
  /\ job' = [job EXCEPT ![a].ended = {}]
  /\ UNCHANGED <<uploaded, stored, signalled, cases, recorded, routed, wk, listing, history>>

AddVariant ==
  /\ ~priced /\ priced' = TRUE
  /\ UNCHANGED <<files, routed, job, wk, onSale, sellerOk, pub, history>>

\* The platform suspends and reinstates sellers.
SellerStanding ==
  /\ sellerOk' = ~sellerOk
  /\ UNCHANGED <<files, routed, job, wk, onSale, priced, pub, history>>

Deliverables == {a \in Assets \ Previews : scan[a] = "clean"}
Unscanned    == {a \in Assets \ Previews : scan[a] \notin {"none", "clean"}}

\* The preconditions of publication, which Publish looks at in a query of its own
\* and the trigger again.
Publishable == Deliverables # {} /\ Unscanned = {} /\ priced /\ sellerOk

ReadyToPublish ==
  /\ pub = "idle" /\ Publishable
  /\ pub' = "ready"
  /\ UNCHANGED <<files, routed, job, wk, onSale, priced, sellerOk, history>>

\* products_publish_guard.
PublishGuard == Publishable

\* The transaction: an update that the trigger lets through or raises on.
Publish ==
  /\ pub = "ready"
  /\ pub' = "idle"
  /\ onSale' = (onSale \/ PublishGuard)
  /\ UNCHANGED <<files, routed, job, wk, priced, sellerOk, history>>

Unpublish ==
  /\ onSale /\ onSale' = FALSE
  /\ UNCHANGED <<files, routed, job, wk, priced, sellerOk, pub, history>>

-----------------------------------------------------------------------------
(* The job queue *)

Open(a) == job[a].ended = {}

Holds(w, a) ==
  \/ \E next \in wk[w].batch : next[1] = a
  \/ wk[w].at # "between" /\ wk[w].a = a

\* A batch of what is due and not locked.
ClaimJobs(w) ==
  /\ wk[w] = NoBatch
  /\ \E batch \in SUBSET {a \in Assets : Open(a) /\ ~job[a].locked} :
       /\ batch # {}
       /\ job' = [a \in Assets |->
                    IF a \in batch THEN [job[a] EXCEPT !.attempts = @ + 1, !.locked = TRUE]
                                   ELSE job[a]]
       /\ wk' = [wk EXCEPT ![w].batch = {<<a, job[a].attempts + 1>> : a \in batch}]
  /\ UNCHANGED <<files, routed, listing, history>>

\* Mutant of Expired: a locked job is never taken from its holder.
NeverExpired(a) == FALSE

\* locked_at may be of any age.
Expired(a) == job[a].locked

\* Thirty minutes pass: for a lock nobody lives to release, or for one whose
\* holder is still busy with its batch.
LockExpires(a) ==
  /\ Expired(a)
  /\ job' = [job EXCEPT ![a].locked = FALSE]
  /\ IF \E w \in Workers : Holds(w, a)
       THEN faults < MaxFaults /\ faults' = faults + 1 /\ overran' = TRUE
       ELSE UNCHANGED <<faults, overran>>
  /\ UNCHANGED <<files, routed, wk, listing, overlapped>>

Become(w, at) == wk' = [wk EXCEPT ![w].at = at]

\* The handler returns, and with it go its results.
Return(w, at) == wk' = [wk EXCEPT ![w].at = at, ![w].found = "error", ![w].sees = {}]

\* The next job of the batch, by what the ended one leaves: its row is written by
\* id alone, or the write is lost and the lock stays.
EndJob(w, row) ==
  /\ wk' = [wk EXCEPT ![w] = [batch |-> @.batch, at |-> "between"]]
  /\ \/ job' = [job EXCEPT ![wk[w].a] = row] /\ UNCHANGED faults
     \/ faults < MaxFaults /\ faults' = faults + 1 /\ UNCHANGED job
  /\ UNCHANGED <<files, routed, listing, overran, overlapped>>

CompleteJob(w) ==
  /\ wk[w].at = "ok"
  /\ LET r == job[wk[w].a] IN
       EndJob(w, [r EXCEPT !.locked = FALSE, !.ended = @ \cup {"completed"}])

GivesUp(tries) == tries >= MaxAttempts

FailJob(w) ==
  /\ wk[w].at = "err"
  /\ LET r == job[wk[w].a] IN
       EndJob(w, [r EXCEPT !.locked = FALSE,
                           !.ended = IF GivesUp(wk[w].tries) THEN @ \cup {"failed"} ELSE @])

\* The process stops with its batch.
Crash(w) ==
  /\ wk[w] # NoBatch
  /\ faults < MaxFaults /\ faults' = faults + 1
  /\ wk' = [wk EXCEPT ![w] = NoBatch]
  /\ UNCHANGED <<files, routed, job, listing, overran, overlapped>>

-----------------------------------------------------------------------------
(* ScanAsset *)

\* Mutant of Terminal: a decided file is scanned again.
TerminalNever(a) == FALSE

\* Mutant of Terminal: a file that is being scanned is left to whoever scans it.
TerminalScanning(a) == scan[a] \in Decided \cup {"scanning"}

\* Already decided: a duplicated or retried job costs nothing.
Terminal(a) == scan[a] \in Decided

\* The job at hand reads its file.
StartScan(w) ==
  /\ wk[w].at = "between"
  /\ \E next \in wk[w].batch :
       wk' = [wk EXCEPT ![w] =
         [batch |-> @.batch \ {next}, a |-> next[1], tries |-> next[2],
          at |-> IF Terminal(next[1]) THEN "ok" ELSE "mark", found |-> "error", sees |-> {}]]
  /\ UNCHANGED <<files, routed, job, listing, history>>

\* A record in progress holds the row of its file.
RowFree(a) == \A w \in Workers : wk[w].at = "commit" => wk[w].a # a

MarkScanning(w) ==
  /\ wk[w].at = "mark" /\ RowFree(wk[w].a)
  /\ scan' = [scan EXCEPT ![wk[w].a] = IF @ \in {"pending", "error"} THEN "scanning" ELSE @]
  /\ Become(w, "analyse")
  /\ UNCHANGED <<uploaded, stored, signalled, cases, recorded, routed, job, listing, history>>

\* Mutant of AfterScan: the row is written first, the object copied later.
AfterScanRecord(found) == "record"

\* Promoted out of quarantine BEFORE it is marked clean.
AfterScan(found) == IF found = "clean" THEN "copy" ELSE "record"

\* A verdict, an answer that the scan failed, or no answer.
Analyse(w) ==
  /\ wk[w].at = "analyse"
  /\ \/ \E found \in Verdicts[wk[w].a] \cup {"error"} :
          wk' = [wk EXCEPT ![w].found = found, ![w].at = AfterScan(found)]
     \/ Become(w, "unscanned")
  /\ UNCHANGED <<files, routed, job, listing, history>>

\* No answer: 'error' is written, whatever the row says by now.
RecordUnscanned(w) ==
  /\ wk[w].at = "unscanned" /\ RowFree(wk[w].a)
  /\ scan' = [scan EXCEPT ![wk[w].a] = "error"]
  /\ Return(w, "err")
  /\ UNCHANGED <<uploaded, stored, signalled, cases, recorded, routed, job, listing, history>>

CopyObject(w) ==
  /\ wk[w].at = "copy"
  /\ stored' = stored \cup {wk[w].a}
  /\ Become(w, "record")
  /\ UNCHANGED <<uploaded, scan, signalled, cases, recorded, routed, job, listing, history>>

\* Nothing is gathered from an infected file.
Signals(w) == IF wk[w].a \in Marked /\ wk[w].found # "infected" THEN {wk[w].a} ELSE {}

\* recordAnalysis, and the reads of refreshProductProvenance: other records that
\* have not committed are not seen.
ReadFiles(w) ==
  /\ wk[w].at = "record" /\ RowFree(wk[w].a)
  /\ wk' = [wk EXCEPT ![w].at = "commit", ![w].sees = signalled \ {wk[w].a}]
  /\ overlapped' = (overlapped \/ \E v \in Workers : wk[v].at = "commit")
  /\ UNCHANGED <<files, routed, job, listing, faults, overran>>

\* Mutant of Refreshed: the routing is computed from the scanned file alone.
RefreshedAlone(w) == Signals(w) \ Previews

\* The strongest evidence on any one file speaks for the product.
Refreshed(w) == (wk[w].sees \cup Signals(w)) \ Previews

\* The product is updated and the transaction commits, and its worker hears of it
\* or does not.
CommitRecord(w) ==
  LET a == wk[w].a IN
  /\ wk[w].at = "commit"
  /\ scan' = [scan EXCEPT ![a] = wk[w].found]
  /\ signalled' = (signalled \ {a}) \cup Signals(w)
  /\ routed' = Refreshed(w)
  /\ recorded' = recorded \cup {a}
  /\ cases' = [cases EXCEPT ![a] = IF wk[w].found \in Suspect THEN @ + 1 ELSE @]
  /\ \/ Return(w, "ok") /\ UNCHANGED faults
     \/ Return(w, "err") /\ faults < MaxFaults /\ faults' = faults + 1
  /\ UNCHANGED <<uploaded, stored, job, listing, overran, overlapped>>

\* A statement, the copy or the transaction fails, and leaves nothing behind.
StepFails(w) ==
  /\ wk[w].at \in {"mark", "unscanned", "copy", "record", "commit"}
  /\ faults < MaxFaults /\ faults' = faults + 1
  /\ Return(w, "err")
  /\ UNCHANGED <<files, routed, job, listing, overran, overlapped>>

-----------------------------------------------------------------------------
ScanStep(w) ==
  \/ StartScan(w) \/ MarkScanning(w) \/ Analyse(w) \/ RecordUnscanned(w)
  \/ CopyObject(w) \/ ReadFiles(w) \/ CommitRecord(w)

WorkerStep(w) == ScanStep(w) \/ CompleteJob(w) \/ FailJob(w)

SellerStep ==
  \/ \E a \in Assets : Upload(a) \/ FinaliseUpload(a)
  \/ AddVariant \/ ReadyToPublish \/ Publish \/ Unpublish

Next ==
  \/ SellerStep \/ SellerStanding
  \/ \E a \in Assets : LockExpires(a)
  \/ \E w \in Workers : ClaimJobs(w) \/ WorkerStep(w) \/ StepFails(w) \/ Crash(w)

Spec == Init /\ [][Next]_vars

\* Replicas poll and run what they claimed, and an abandoned lock ages.  Nothing is
\* assumed of the seller, and a scan may fail every time.
FairSpec ==
  /\ Spec
  /\ \A w \in Workers : WF_vars(WorkerStep(w))
  /\ WF_vars(\E w \in Workers : ClaimJobs(w))
  /\ \A a \in Assets : WF_vars(LockExpires(a) /\ ~\E w \in Workers : Holds(w, a))

-----------------------------------------------------------------------------
(* Properties *)

\* A row that says clean has an object behind its deliverable key, although copy
\* and record are separate steps that a crash or a second replica may come between
\* (asset.go:276: promoted "BEFORE marking clean").
CleanIsDeliverable == \A a \in Assets : scan[a] = "clean" => a \in stored

\* A product on sale has something to deliver (0005_catalog.sql:273: "the control
\* that stops pay and receive nothing"): no verdict on a file that is on sale is
\* taken back, until a batch outlives its lock.
OnSaleIsDeliverable == (onSale /\ ~overran) => Deliverables # {}

\* A suspect file has one moderation case, and no other file has any, however often
\* its job is retried after a crash or a lost answer, until a batch outlives its
\* lock (asset.go:222: "a duplicated job or a retried one costs a no-op").
SuspectsHaveOneCase ==
  ~overran => \A a \in Assets : cases[a] = IF scan[a] \in Suspect THEN 1 ELSE 0

\* The product's routing speaks for every file it sells that carries a signal,
\* until two replicas record files of it side by side.
RoutingCountsEveryFile == ~overlapped => routed = signalled \ Previews

\* A finalised upload is not forgotten: its job is completed, or given up loudly.
EveryUploadEnds == \A a \in Assets : scan[a] # "none" ~> job[a].ended \cap {"completed", "failed"} # {}

\* The scan jobs are a queue of the finalised files, whose work is to record an analysis.
JobStatus ==
  [a \in Assets |-> IF "none" \in job[a].ended THEN "absent"
                   ELSE IF "completed" \in job[a].ended THEN "settled"
                   ELSE IF "failed" \in job[a].ended THEN "dropped" ELSE "open"]

Promised == INSTANCE WorkQueue WITH
  Tasks <- Assets, Before <- {}, status <- JobStatus, worked <- recorded, overtaken <- {},
  returned <- FALSE, disturbed <- overran

\* Until a batch outlives its lock, a job that has ended is not run or ended again; a job
\* is completed only when an analysis of its file was recorded even then.
ScansAreWorkQueue == Promised!Spec
=============================================================================
