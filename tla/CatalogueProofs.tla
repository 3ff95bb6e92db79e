-------------------------- MODULE CatalogueProofs ---------------------------
(***************************************************************************)
(* What holds of Catalogue for any files, replicas, verdicts, attempts and *)
(* faults.                                                                 *)
(*                                                                         *)
(* The argument is in three parts.  A record that says clean follows its   *)
(* copy in every replica, whoever else works on the file.  Until a batch   *)
(* outlives its lock, a file is held by one replica, which has found it    *)
(* undecided, so nobody takes a verdict back.  And as long as records do   *)
(* not overlap, what a record read of the other files is still so.         *)
(***************************************************************************)
EXTENDS Catalogue, TLAPS

Batches == SUBSET (Assets \X Nat)
Idle == [batch : Batches, at : {"between"}]
Busy == [batch : Batches,
         at : {"mark", "analyse", "unscanned", "copy", "record", "commit", "ok", "err"},
         a : Assets, tries : Nat, found : Decided \cup {"error"}, sees : SUBSET Assets]
Jobs == [attempts : Nat, locked : BOOLEAN, ended : SUBSET {"none", "completed", "failed"}]

Rows ==
  /\ scan \in [Assets -> Decided \cup {"none", "pending", "scanning", "error"}]
  /\ cases \in [Assets -> Nat] /\ job \in [Assets -> Jobs]
  /\ signalled \subseteq Assets /\ overran \in BOOLEAN

Replicas ==
  /\ wk \in [Workers -> Idle \cup Busy]
  /\ \A w \in Workers : wk[w].at = "between" => wk[w] \in Idle
  /\ \A w \in Workers : wk[w].at # "between" => wk[w] \in Busy

\* Copied before it is recorded.
CopiedFirst ==
  \A w \in Workers : wk[w].at \in {"record", "commit"} /\ wk[w].found = "clean" => wk[w].a \in stored

\* A file is held by one replica, once, under its lock.
HeldOnce ==
  ~overran =>
    /\ \A w \in Workers, a \in Assets : Holds(w, a) => job[a].locked
    /\ \A w, v \in Workers, a \in Assets : Holds(w, a) /\ Holds(v, a) => w = v
    /\ \A w \in Workers : \A x, y \in wk[w].batch : x[1] = y[1] => x = y
    /\ \A w \in Workers : wk[w].at # "between" => \A x \in wk[w].batch : x[1] # wk[w].a

Scanning == {"mark", "analyse", "unscanned", "copy", "record", "commit"}

\* The file at hand is undecided.
Undecided ==
  ~overran => \A w \in Workers : wk[w].at \in Scanning => scan[wk[w].a] \notin Decided

\* The record about to be committed knows the other files.
ReadsHold ==
  ~overlapped =>
    /\ \A w, v \in Workers : wk[w].at = "commit" /\ wk[v].at = "commit" => w = v
    /\ \A w \in Workers : wk[w].at = "commit" => wk[w].sees = signalled \ {wk[w].a}
    /\ routed = signalled \ Previews

CInv ==
  /\ Rows /\ Replicas /\ CopiedFirst /\ CleanIsDeliverable
  /\ HeldOnce /\ Undecided /\ SuspectsHaveOneCase /\ OnSaleIsDeliverable /\ ReadsHold

LEMMA InitHolds == Init => CInv
<1> SUFFICES ASSUME Init PROVE CInv
  OBVIOUS
<1>1. NoBatch \in Idle /\ NoBatch.at = "between" /\ NoBatch.batch = {} /\ NoJob \in Jobs
  BY DEF NoBatch, Idle, Batches, NoJob, Jobs
<1>2. Rows /\ Replicas
  BY <1>1 DEF Init, Rows, Replicas
<1>3. CopiedFirst /\ CleanIsDeliverable /\ Undecided
  BY <1>1 DEF Init, CopiedFirst, CleanIsDeliverable, Undecided, Scanning, Decided, Suspect
<1>4. HeldOnce
  BY <1>1 DEF Init, HeldOnce, Holds
<1>5. SuspectsHaveOneCase /\ OnSaleIsDeliverable /\ ReadsHold
  BY <1>1 DEF Init, SuspectsHaveOneCase, OnSaleIsDeliverable, ReadsHold, Suspect
<1> QED
  BY <1>2, <1>3, <1>4, <1>5 DEF CInv

----------------------------------------------------------------------------
(* The seller. *)

LEMMA ListingKeeps ==
  ASSUME CInv, UNCHANGED <<stored, scan, signalled, cases, routed, job, wk, history>>,
         onSale' => onSale \/ Deliverables # {}
  PROVE  CInv'
<1>1. OnSaleIsDeliverable'
  BY DEF CInv, OnSaleIsDeliverable, Deliverables, history
<1>2. Rows' /\ Replicas' /\ CopiedFirst' /\ CleanIsDeliverable' /\ Undecided'
  BY DEF CInv, Rows, Replicas, CopiedFirst, CleanIsDeliverable, Undecided, history
<1>3. HeldOnce' /\ SuspectsHaveOneCase' /\ ReadsHold'
  BY DEF CInv, HeldOnce, Holds, SuspectsHaveOneCase, ReadsHold, history
<1> QED
  BY <1>1, <1>2, <1>3 DEF CInv

\* A file whose row changes among the states that are no verdict.
LEMMA NoVerdict ==
  ASSUME CInv, NEW a \in Assets, scan[a] \notin Decided,
         NEW s \in {"pending", "scanning", "error"}, scan' = [scan EXCEPT ![a] = s],
         UNCHANGED <<stored, cases, onSale, overran>>
  PROVE  CleanIsDeliverable' /\ SuspectsHaveOneCase' /\ OnSaleIsDeliverable'
<1>1. /\ scan'[a] = s /\ s \notin Decided
      /\ \A b \in Assets : b # a => scan'[b] = scan[b]
  BY DEF CInv, Rows, Decided, Suspect
<1>2. CleanIsDeliverable' /\ SuspectsHaveOneCase'
  BY <1>1 DEF CInv, CleanIsDeliverable, SuspectsHaveOneCase, Decided, Suspect
<1>3. Deliverables \subseteq Deliverables'
  BY <1>1 DEF Deliverables, Decided
<1> QED
  BY <1>2, <1>3 DEF CInv, OnSaleIsDeliverable

LEMMA FinaliseKeeps == ASSUME CInv, NEW a \in Assets, FinaliseUpload(a) PROVE CInv'
<1>0. /\ scan[a] = "none" /\ scan' = [scan EXCEPT ![a] = "pending"]
      /\ job' = [job EXCEPT ![a].ended = {}]
      /\ UNCHANGED <<stored, signalled, cases, routed, wk, onSale, overran, overlapped>>
  BY DEF FinaliseUpload, listing, history
<1>1. CleanIsDeliverable' /\ SuspectsHaveOneCase' /\ OnSaleIsDeliverable'
  BY <1>0, NoVerdict DEF Decided, Suspect
<1>2. /\ job' \in [Assets -> Jobs]
      /\ \A b \in Assets : job'[b].locked = job[b].locked
  BY <1>0 DEF CInv, Rows, Jobs
<1>3. Rows' /\ Replicas' /\ CopiedFirst'
  BY <1>0, <1>2 DEF CInv, Rows, Replicas, CopiedFirst
<1>4. HeldOnce'
  BY <1>0, <1>2 DEF CInv, HeldOnce, Holds
<1>5. Undecided'
  BY <1>0 DEF CInv, Rows, Undecided, Decided, Suspect
<1>6. ReadsHold'
  BY <1>0 DEF CInv, ReadsHold
<1> QED
  BY <1>1, <1>3, <1>4, <1>5, <1>6 DEF CInv

----------------------------------------------------------------------------
(* The job queue. *)

\* Steps that leave the files alone and bring nobody to a later step of a scan.
LEMMA QueueKeeps ==
  ASSUME CInv, Rows', Replicas', HeldOnce', overran' = overran \/ overran',
         UNCHANGED <<stored, scan, signalled, cases, routed, onSale, overlapped>>,
         \A v \in Workers : wk'[v] = wk[v] \/ wk'[v].at = "between"
  PROVE  CInv'
<1>1. CopiedFirst' /\ CleanIsDeliverable'
  BY DEF CInv, CopiedFirst, CleanIsDeliverable
<1>2. Undecided'
  BY DEF CInv, Undecided, Scanning
<1>3. SuspectsHaveOneCase' /\ OnSaleIsDeliverable'
  BY DEF CInv, SuspectsHaveOneCase, OnSaleIsDeliverable, Deliverables
<1>4. ReadsHold'
  BY DEF CInv, ReadsHold
<1> QED
  BY <1>1, <1>2, <1>3, <1>4 DEF CInv

LEMMA ClaimJobsKeeps == ASSUME CInv, NEW w \in Workers, ClaimJobs(w) PROVE CInv'
<1>1. PICK batch \in SUBSET {a \in Assets : Open(a) /\ ~job[a].locked} :
        /\ job' = [a \in Assets |->
                     IF a \in batch THEN [job[a] EXCEPT !.attempts = @ + 1, !.locked = TRUE]
                                    ELSE job[a]]
        /\ wk' = [wk EXCEPT ![w].batch = {<<a, job[a].attempts + 1>> : a \in batch}]
  BY DEF ClaimJobs
<1> DEFINE tasks == {<<a, job[a].attempts + 1>> : a \in batch}
           new   == [wk[w] EXCEPT !.batch = tasks]
<1>2. /\ wk[w].at = "between" /\ wk[w].batch = {} /\ wk[w] \in Idle
      /\ UNCHANGED <<stored, scan, signalled, cases, routed, onSale, overran, overlapped>>
  <2>1. wk[w].at = "between" /\ wk[w].batch = {}
    <3>1. wk[w] = NoBatch
      BY DEF ClaimJobs
    <3> QED
      BY ONLY <3>1 DEF NoBatch
  <2>2. UNCHANGED <<stored, scan, signalled, cases, routed, onSale, overran, overlapped>>
    BY DEF ClaimJobs, files, listing, history
  <2> QED
    BY <2>1, <2>2 DEF CInv, Replicas
<1>3. /\ \A a \in Assets : job[a].attempts + 1 \in Nat
      /\ job' \in [Assets -> Jobs]
  <2>1. ASSUME NEW a \in Assets
        PROVE  job[a].attempts + 1 \in Nat /\ job[a] \in Jobs
               /\ [job[a] EXCEPT !.attempts = @ + 1, !.locked = TRUE] \in Jobs
    <3>1. job[a] \in Jobs
      BY DEF CInv, Rows
    <3>2. ASSUME NEW r \in Jobs
          PROVE  r.attempts + 1 \in Nat /\ [r EXCEPT !.attempts = @ + 1, !.locked = TRUE] \in Jobs
      <4>1. r.attempts + 1 \in Nat
        BY DEF Jobs
      <4> QED
        BY <4>1 DEF Jobs
    <3> QED
      BY <3>1, <3>2
  <2> QED
    BY <1>1, <2>1
<1>4. \A a \in Assets : job'[a].locked = (a \in batch \/ job[a].locked)
  BY <1>1 DEF CInv, Rows, Jobs
<1>5. /\ tasks \in Batches
      /\ \A x \in tasks : x[1] \in batch
      /\ \A x, y \in tasks : x[1] = y[1] => x = y
  BY <1>3 DEF Batches
<1>6. new \in Idle /\ new.at = "between" /\ new.batch = tasks
  BY <1>2, <1>5 DEF Idle
<1>7. wk' = [wk EXCEPT ![w] = new]
  BY <1>1
<1> HIDE DEF tasks, new
<1>8. \A v \in Workers : wk'[v] = IF v = w THEN new ELSE wk[v]
  BY <1>7 DEF CInv, Replicas
<1>9. Rows' /\ Replicas'
  BY <1>2, <1>3, <1>6, <1>7, <1>8 DEF CInv, Rows, Replicas
<1>10. HeldOnce'
  <2> SUFFICES ASSUME ~overran PROVE HeldOnce'
    BY <1>2 DEF HeldOnce
  <2>1. \A v \in Workers, a \in Assets : Holds(v, a)' => Holds(v, a) \/ (v = w /\ a \in batch)
    BY <1>5, <1>6, <1>8 DEF Holds
  <2>2. \A v \in Workers, a \in Assets : Holds(v, a) => a \notin batch
    BY DEF CInv, HeldOnce
  <2>3. \A v \in Workers, a \in Assets : Holds(v, a)' => job'[a].locked
    BY <1>4, <2>1 DEF CInv, HeldOnce
  <2>4. \A v, u \in Workers, a \in Assets : Holds(v, a)' /\ Holds(u, a)' => v = u
    BY <2>1, <2>2 DEF CInv, HeldOnce
  <2> QED
    BY <1>5, <1>6, <1>8, <2>3, <2>4 DEF CInv, HeldOnce
<1> QED
  BY <1>2, <1>6, <1>8, <1>9, <1>10, QueueKeeps

LEMMA LockExpiresKeeps == ASSUME CInv, NEW a \in Assets, LockExpires(a) PROVE CInv'
<1>0. /\ job' = [job EXCEPT ![a].locked = FALSE]
      /\ UNCHANGED <<stored, scan, signalled, cases, routed, wk, onSale, overlapped>>
      /\ overran' \/ (overran' = overran /\ \A w \in Workers : ~Holds(w, a))
  BY DEF LockExpires, files, listing
<1>1. /\ job' \in [Assets -> Jobs]
      /\ \A b \in Assets : b # a => job'[b] = job[b]
  BY <1>0, ZenonT(30) DEF CInv, Rows, Jobs
<1>2. overran' \in BOOLEAN
  BY DEF LockExpires, CInv, Rows
<1>3. Rows' /\ Replicas'
  BY <1>0, <1>1, <1>2 DEF CInv, Rows, Replicas
<1>4. HeldOnce'
  BY <1>0, <1>1 DEF CInv, HeldOnce, Holds
<1> QED
  BY <1>0, <1>3, <1>4, QueueKeeps

LEMMA CrashKeeps == ASSUME CInv, NEW w \in Workers, Crash(w) PROVE CInv'
<1>0. /\ wk' = [wk EXCEPT ![w] = NoBatch]
      /\ UNCHANGED <<stored, scan, signalled, cases, routed, job, onSale, overran, overlapped>>
  BY DEF Crash, files, listing
<1>1. NoBatch \in Idle /\ NoBatch.at = "between" /\ NoBatch.batch = {}
  BY DEF NoBatch, Idle, Batches
<1>2. \A v \in Workers : wk'[v] = IF v = w THEN NoBatch ELSE wk[v]
  BY <1>0 DEF CInv, Replicas
<1>3. Rows' /\ Replicas'
  BY <1>0, <1>1, <1>2 DEF CInv, Rows, Replicas
<1>4. \A v \in Workers, a \in Assets : Holds(v, a)' => Holds(v, a)
  BY <1>1, <1>2 DEF Holds
<1>5. HeldOnce'
  BY <1>0, <1>1, <1>2, <1>4 DEF CInv, HeldOnce
<1> QED
  BY <1>0, <1>1, <1>2, <1>3, <1>5, QueueKeeps

LEMMA EndJobKeeps ==
  ASSUME CInv, NEW w \in Workers, wk[w].at # "between", NEW row \in Jobs, EndJob(w, row)
  PROVE  CInv'
<1> DEFINE a   == wk[w].a
           new == [batch |-> wk[w].batch, at |-> "between"]
<1>0. /\ wk' = [wk EXCEPT ![w] = new]
      /\ UNCHANGED <<stored, scan, signalled, cases, routed, onSale, overran, overlapped>>
      /\ job' = [job EXCEPT ![a] = row] \/ job' = job
  BY DEF EndJob, files, listing
<1>1. /\ new \in Idle /\ new.at = "between" /\ new.batch = wk[w].batch
      /\ a \in Assets
  BY DEF CInv, Replicas, Idle, Busy
<1> HIDE DEF new
<1>2. \A v \in Workers : wk'[v] = IF v = w THEN new ELSE wk[v]
  BY <1>0 DEF CInv, Replicas
<1>3. Rows' /\ Replicas'
  BY <1>0, <1>1, <1>2 DEF CInv, Rows, Replicas
<1>4. HeldOnce'
  <2> SUFFICES ASSUME ~overran PROVE HeldOnce'
    BY <1>0 DEF HeldOnce
  <2>1. Holds(w, a) /\ \A x \in wk[w].batch : x[1] # a
    BY DEF Holds, CInv, HeldOnce
  <2>2. \A v \in Workers, b \in Assets : Holds(v, b)' => Holds(v, b) /\ b # a
    BY <1>1, <1>2, <2>1 DEF Holds, CInv, HeldOnce
  <2>3. \A b \in Assets : b # a => job'[b] = job[b]
    BY <1>0, <1>1 DEF CInv, Rows
  <2> QED
    BY <1>0, <1>1, <1>2, <2>2, <2>3 DEF CInv, HeldOnce
<1> QED
  BY <1>0, <1>1, <1>2, <1>3, <1>4, QueueKeeps

LEMMA CompleteJobKeeps == ASSUME CInv, NEW w \in Workers, CompleteJob(w) PROVE CInv'
<1> DEFINE r   == job[wk[w].a]
           row == [r EXCEPT !.locked = FALSE, !.ended = @ \cup {"completed"}]
<1>1. wk[w].at # "between" /\ wk[w].a \in Assets
  BY DEF CompleteJob, CInv, Replicas, Busy
<1>2. r \in Jobs
  BY <1>1 DEF CInv, Rows
<1> HIDE DEF r
<1>3. row \in Jobs
  BY <1>2 DEF Jobs
<1>4. EndJob(w, row)
  BY DEF CompleteJob, r
<1> QED
  BY <1>1, <1>3, <1>4, EndJobKeeps

LEMMA FailJobKeeps == ASSUME CInv, NEW w \in Workers, FailJob(w) PROVE CInv'
<1> DEFINE r   == job[wk[w].a]
           row == [r EXCEPT !.locked = FALSE,
                            !.ended = IF GivesUp(wk[w].tries) THEN @ \cup {"failed"} ELSE @]
<1>1. wk[w].at # "between" /\ wk[w].a \in Assets
  BY DEF FailJob, CInv, Replicas, Busy
<1>2. r \in Jobs
  BY <1>1 DEF CInv, Rows
<1> HIDE DEF r
<1>3. row \in Jobs
  BY <1>2 DEF Jobs
<1>4. EndJob(w, row)
  BY DEF FailJob, r
<1> QED
  BY <1>1, <1>3, <1>4, EndJobKeeps

----------------------------------------------------------------------------
(* The scan. *)

LEMMA StartScanKeeps == ASSUME CInv, NEW w \in Workers, StartScan(w) PROVE CInv'
<1>1. PICK next \in wk[w].batch :
        wk' = [wk EXCEPT ![w] =
          [batch |-> @.batch \ {next}, a |-> next[1], tries |-> next[2],
           at |-> IF Terminal(next[1]) THEN "ok" ELSE "mark", found |-> "error", sees |-> {}]]
  BY DEF StartScan
<1> DEFINE at  == IF Terminal(next[1]) THEN "ok" ELSE "mark"
           new == [batch |-> wk[w].batch \ {next}, a |-> next[1], tries |-> next[2],
                   at |-> at, found |-> "error", sees |-> {}]
<1>2. /\ wk[w].at = "between" /\ wk[w] \in Idle
      /\ UNCHANGED <<stored, scan, signalled, cases, routed, job, onSale, overran, overlapped>>
  BY DEF StartScan, files, listing, history, CInv, Replicas
<1>3. wk[w].batch \in Batches /\ next[1] \in Assets /\ next[2] \in Nat
  BY <1>2 DEF Idle, Batches
<1>4. /\ new \in Busy /\ new.a = next[1] /\ new.batch = wk[w].batch \ {next} /\ new.at = at
      /\ at \in {"ok", "mark"} /\ (at = "mark" => scan[next[1]] \notin Decided)
  BY <1>3 DEF Busy, Batches, Terminal
<1>5. wk' = [wk EXCEPT ![w] = new]
  BY <1>1
<1> HIDE DEF at, new
<1>6. \A v \in Workers : wk'[v] = IF v = w THEN new ELSE wk[v]
  BY <1>5 DEF CInv, Replicas
<1>7. Rows' /\ Replicas'
  BY <1>2, <1>4, <1>5, <1>6 DEF CInv, Rows, Replicas
<1>8. CopiedFirst' /\ CleanIsDeliverable'
  BY <1>2, <1>4, <1>6 DEF CInv, CopiedFirst, CleanIsDeliverable
<1>9. HeldOnce'
  <2> SUFFICES ASSUME ~overran PROVE HeldOnce'
    BY <1>2 DEF HeldOnce
  <2>1. \A v \in Workers, a \in Assets : Holds(v, a)' => Holds(v, a)
    BY <1>4, <1>6 DEF Holds
  <2>2. \A x \in wk[w].batch \ {next} : x[1] # next[1]
    BY DEF CInv, HeldOnce
  <2> QED
    BY <1>2, <1>4, <1>6, <2>1, <2>2 DEF CInv, HeldOnce
<1>10. Undecided'
  BY <1>2, <1>4, <1>6 DEF CInv, Undecided, Scanning
<1>11. SuspectsHaveOneCase' /\ OnSaleIsDeliverable'
  BY <1>2 DEF CInv, SuspectsHaveOneCase, OnSaleIsDeliverable, Deliverables
<1>12. ReadsHold'
  BY <1>2, <1>4, <1>6 DEF CInv, ReadsHold
<1> QED
  BY <1>7, <1>8, <1>9, <1>10, <1>11, <1>12 DEF CInv

\* A step of a scan keeps its batch, its file and everybody's hold.
LEMMA ScanStepHolds ==
  ASSUME CInv, NEW w \in Workers, wk[w].at # "between", NEW new \in Busy,
         new.a = wk[w].a, new.batch = wk[w].batch, wk' = [wk EXCEPT ![w] = new],
         UNCHANGED <<job, overran>>
  PROVE  /\ Replicas' /\ HeldOnce'
         /\ \A v \in Workers : wk'[v] = IF v = w THEN new ELSE wk[v]
<1>1. \A v \in Workers : wk'[v] = IF v = w THEN new ELSE wk[v]
  BY DEF CInv, Replicas
<1>2. new.at # "between"
  BY DEF Busy
<1>3. Replicas'
  BY <1>1, <1>2 DEF CInv, Replicas
<1>4. \A v \in Workers, a \in Assets : Holds(v, a)' <=> Holds(v, a)
  BY <1>1, <1>2 DEF Holds
<1>5. HeldOnce'
  BY <1>1, <1>2, <1>4 DEF CInv, HeldOnce
<1> QED
  BY <1>1, <1>3, <1>5

\* Steps of a scan before its record is committed.
LEMMA ScanStepKeeps ==
  ASSUME CInv, NEW w \in Workers, wk[w].at \in Scanning, NEW new \in Busy,
         new.a = wk[w].a, new.batch = wk[w].batch, wk' = [wk EXCEPT ![w] = new],
         stored \subseteq stored',
         new.at \in {"record", "commit"} /\ new.found = "clean" => new.a \in stored',
         new.at # "commit",
         \/ scan' = scan
         \/ \E s \in {"pending", "scanning", "error"} : scan' = [scan EXCEPT ![wk[w].a] = s],
         scan' # scan => overran \/ scan[wk[w].a] \notin Decided,
         UNCHANGED <<signalled, cases, routed, job, onSale, overran, overlapped>>
  PROVE  CInv'
<1>0. wk[w].a \in Assets /\ wk[w].at # "between"
  BY DEF CInv, Replicas, Busy, Scanning
<1>1. /\ Replicas' /\ HeldOnce'
      /\ \A v \in Workers : wk'[v] = IF v = w THEN new ELSE wk[v]
  BY <1>0, ScanStepHolds
<1>2. /\ scan' \in [Assets -> Decided \cup {"none", "pending", "scanning", "error"}]
      /\ \A b \in Assets : scan'[b] = scan[b] \/ (b = wk[w].a /\ scan'[b] \notin Decided)
  BY <1>0 DEF CInv, Rows, Decided, Suspect
<1>3. Rows'
  BY <1>2 DEF CInv, Rows
<1>4. CopiedFirst'
  BY <1>1 DEF CInv, CopiedFirst
<1>5. CleanIsDeliverable'
  BY <1>2 DEF CInv, CleanIsDeliverable, Decided
<1>6. Undecided'
  BY <1>0, <1>1, <1>2 DEF CInv, Undecided, Replicas, Busy, Scanning
<1>7. ASSUME ~overran PROVE \A b \in Assets : scan'[b] = scan[b] \/ {scan[b], scan'[b]} \cap Decided = {}
  BY <1>2, <1>7
<1>8. SuspectsHaveOneCase'
  BY <1>7 DEF CInv, SuspectsHaveOneCase, Decided
<1>9. OnSaleIsDeliverable'
  BY <1>7 DEF CInv, OnSaleIsDeliverable, Deliverables, Decided
<1>10. ReadsHold'
  BY <1>0, <1>1 DEF CInv, ReadsHold
<1> QED
  BY <1>1, <1>3, <1>4, <1>5, <1>6, <1>8, <1>9, <1>10 DEF CInv

LEMMA MarkScanningKeeps == ASSUME CInv, NEW w \in Workers, MarkScanning(w) PROVE CInv'
<1> DEFINE new == [wk[w] EXCEPT !.at = "analyse"]
<1>1. wk[w].at \in Scanning /\ wk[w] \in Busy
  BY DEF MarkScanning, Scanning, CInv, Replicas
<1>2. new \in Busy /\ new.a = wk[w].a /\ new.batch = wk[w].batch /\ new.at = "analyse"
  BY <1>1 DEF Busy
<1>3. /\ wk' = [wk EXCEPT ![w] = new]
      /\ UNCHANGED <<stored, signalled, cases, routed, job, onSale, overran, overlapped>>
  BY DEF MarkScanning, Become, listing, history
<1> HIDE DEF new
<1>4. wk[w].a \in Assets
  BY <1>1 DEF Busy
<1>5. CASE scan[wk[w].a] \in {"pending", "error"}
  <2>1. scan' = [scan EXCEPT ![wk[w].a] = "scanning"] /\ scan[wk[w].a] \notin Decided
    BY <1>5 DEF MarkScanning, Decided, Suspect
  <2> QED
    BY <1>1, <1>2, <1>3, <2>1, ScanStepKeeps
<1>6. CASE scan[wk[w].a] \notin {"pending", "error"}
  <2>1. scan' = scan
    BY <1>4, <1>6 DEF MarkScanning, CInv, Rows
  <2> QED
    BY <1>1, <1>2, <1>3, <2>1, ScanStepKeeps
<1> QED
  BY <1>5, <1>6

LEMMA AnalyseKeeps == ASSUME CInv, NEW w \in Workers, Analyse(w) PROVE CInv'
<1>1. wk[w].at \in Scanning /\ wk[w] \in Busy /\ wk[w].a \in Assets
  BY DEF Analyse, Scanning, CInv, Replicas, Busy
<1>2. UNCHANGED <<stored, scan, signalled, cases, routed, job, onSale, overran, overlapped>>
  BY DEF Analyse, files, listing, history
<1>3. CASE Become(w, "unscanned")
  <2> DEFINE new == [wk[w] EXCEPT !.at = "unscanned"]
  <2>1. new \in Busy /\ new.a = wk[w].a /\ new.batch = wk[w].batch /\ new.at = "unscanned"
    BY <1>1 DEF Busy
  <2>2. wk' = [wk EXCEPT ![w] = new]
    BY <1>3 DEF Become
  <2> HIDE DEF new
  <2> QED
    BY <1>1, <1>2, <2>1, <2>2, ScanStepKeeps
<1>4. ASSUME NEW found \in Verdicts[wk[w].a] \cup {"error"},
             wk' = [wk EXCEPT ![w].found = found, ![w].at = AfterScan(found)]
      PROVE  CInv'
  <2> DEFINE new == [wk[w] EXCEPT !.found = found, !.at = AfterScan(found)]
  <2>1. found \in Decided \cup {"error"}
    BY <1>1, CatalogueAssumption
  <2>2. AfterScan(found) \in {"copy", "record"} /\ (AfterScan(found) = "record" => found # "clean")
    BY DEF AfterScan
  <2>3. /\ new \in Busy /\ new.a = wk[w].a /\ new.batch = wk[w].batch
        /\ new.at = AfterScan(found) /\ new.found = found
    BY <1>1, <2>1, <2>2 DEF Busy
  <2>4. wk' = [wk EXCEPT ![w] = new]
    BY <1>4
  <2> HIDE DEF new
  <2> QED
    BY <1>1, <1>2, <2>2, <2>3, <2>4, ScanStepKeeps
<1> QED
  BY <1>3, <1>4 DEF Analyse

\* The handler of a scan returns.
LEMMA ReturnMoves ==
  ASSUME CInv, NEW w \in Workers, wk[w].at \in Scanning, NEW at \in {"ok", "err"}, Return(w, at)
  PROVE  \E new \in Busy :
           /\ wk' = [wk EXCEPT ![w] = new]
           /\ new.a = wk[w].a /\ new.batch = wk[w].batch /\ new.at = at
<1> DEFINE new == [wk[w] EXCEPT !.at = at, !.found = "error", !.sees = {}]
<1>1. wk[w] \in Busy
  BY DEF CInv, Replicas, Scanning
<1>2. new \in Busy /\ new.a = wk[w].a /\ new.batch = wk[w].batch /\ new.at = at
  BY <1>1 DEF Busy
<1>3. wk' = [wk EXCEPT ![w] = new]
  BY DEF Return
<1> QED
  BY <1>2, <1>3

LEMMA RecordUnscannedKeeps == ASSUME CInv, NEW w \in Workers, RecordUnscanned(w) PROVE CInv'
<1>1. wk[w].at \in Scanning
  BY DEF RecordUnscanned, Scanning
<1>2. PICK new \in Busy :
        /\ wk' = [wk EXCEPT ![w] = new]
        /\ new.a = wk[w].a /\ new.batch = wk[w].batch /\ new.at = "err"
  BY <1>1, ReturnMoves DEF RecordUnscanned
<1>3. /\ scan' = [scan EXCEPT ![wk[w].a] = "error"]
      /\ UNCHANGED <<stored, signalled, cases, routed, job, onSale, overran, overlapped>>
  BY DEF RecordUnscanned, listing, history
<1>4. overran \/ scan[wk[w].a] \notin Decided
  BY <1>1 DEF CInv, Undecided
<1> QED
  BY <1>1, <1>2, <1>3, <1>4, ScanStepKeeps

LEMMA StepFailsKeeps == ASSUME CInv, NEW w \in Workers, StepFails(w) PROVE CInv'
<1>1. wk[w].at \in Scanning
  BY DEF StepFails, Scanning
<1>2. PICK new \in Busy :
        /\ wk' = [wk EXCEPT ![w] = new]
        /\ new.a = wk[w].a /\ new.batch = wk[w].batch /\ new.at = "err"
  BY <1>1, ReturnMoves DEF StepFails
<1>3. UNCHANGED <<stored, scan, signalled, cases, routed, job, onSale, overran, overlapped>>
  BY DEF StepFails, files, listing
<1> QED
  BY <1>1, <1>2, <1>3, ScanStepKeeps

LEMMA CopyObjectKeeps == ASSUME CInv, NEW w \in Workers, CopyObject(w) PROVE CInv'
<1> DEFINE new == [wk[w] EXCEPT !.at = "record"]
<1>1. wk[w].at \in Scanning /\ wk[w] \in Busy
  BY DEF CopyObject, Scanning, CInv, Replicas
<1>2. new \in Busy /\ new.a = wk[w].a /\ new.batch = wk[w].batch /\ new.at = "record"
  BY <1>1 DEF Busy
<1>3. /\ wk' = [wk EXCEPT ![w] = new] /\ stored' = stored \cup {wk[w].a}
      /\ UNCHANGED <<scan, signalled, cases, routed, job, onSale, overran, overlapped>>
  BY DEF CopyObject, Become, listing, history
<1> HIDE DEF new
<1> QED
  BY <1>1, <1>2, <1>3, ScanStepKeeps

LEMMA ReadFilesKeeps == ASSUME CInv, NEW w \in Workers, ReadFiles(w) PROVE CInv'
<1> DEFINE a   == wk[w].a
           new == [wk[w] EXCEPT !.at = "commit", !.sees = signalled \ {a}]
<1>1. wk[w].at = "record" /\ wk[w] \in Busy /\ signalled \subseteq Assets
  BY DEF ReadFiles, CInv, Replicas, Rows
<1>2. /\ new \in Busy /\ new.a = a /\ new.batch = wk[w].batch /\ new.at = "commit"
      /\ new.found = wk[w].found /\ new.sees = signalled \ {a}
  BY <1>1 DEF Busy
<1>3. /\ wk' = [wk EXCEPT ![w] = new]
      /\ overlapped' = (overlapped \/ \E v \in Workers : wk[v].at = "commit")
      /\ UNCHANGED <<stored, scan, signalled, cases, routed, job, onSale, overran>>
  BY DEF ReadFiles, files, listing
<1> HIDE DEF new
<1>4. /\ Replicas' /\ HeldOnce'
      /\ \A v \in Workers : wk'[v] = IF v = w THEN new ELSE wk[v]
  BY <1>1, <1>2, <1>3, ScanStepHolds
<1>5. Rows' /\ CopiedFirst' /\ CleanIsDeliverable'
  BY <1>1, <1>2, <1>3, <1>4 DEF CInv, Rows, CopiedFirst, CleanIsDeliverable
<1>6. Undecided'
  BY <1>1, <1>2, <1>3, <1>4 DEF CInv, Undecided, Scanning
<1>7. SuspectsHaveOneCase' /\ OnSaleIsDeliverable'
  BY <1>3 DEF CInv, SuspectsHaveOneCase, OnSaleIsDeliverable, Deliverables
<1>8. ReadsHold'
  <2> SUFFICES ASSUME ~overlapped' PROVE ReadsHold'
    BY DEF ReadsHold
  <2>1. ~overlapped /\ \A v \in Workers : wk[v].at # "commit"
    BY <1>3
  <2> QED
    BY <1>2, <1>3, <1>4, <2>1 DEF CInv, ReadsHold
<1> QED
  BY <1>4, <1>5, <1>6, <1>7, <1>8 DEF CInv

LEMMA CommitRecordKeeps == ASSUME CInv, NEW w \in Workers, CommitRecord(w) PROVE CInv'
<1> DEFINE a     == wk[w].a
           found == wk[w].found
<1>0. wk[w].at = "commit" /\ wk[w].at \in Scanning /\ wk[w] \in Busy
  BY DEF CommitRecord, Scanning, CInv, Replicas
<1>1. a \in Assets /\ found \in Decided \cup {"error"}
  BY <1>0 DEF Busy
<1>2. PICK new \in Busy :
        /\ wk' = [wk EXCEPT ![w] = new]
        /\ new.a = a /\ new.batch = wk[w].batch /\ new.at \in {"ok", "err"}
  <2>1. PICK at \in {"ok", "err"} : Return(w, at)
    BY DEF CommitRecord
  <2> QED
    BY <1>0, <2>1, ReturnMoves
<1>3. /\ scan' = [scan EXCEPT ![a] = found]
      /\ signalled' = (signalled \ {a}) \cup Signals(w)
      /\ routed' = (wk[w].sees \cup Signals(w)) \ Previews
      /\ cases' = [cases EXCEPT ![a] = IF found \in Suspect THEN @ + 1 ELSE @]
      /\ UNCHANGED <<stored, job, onSale, overran, overlapped>>
  BY DEF CommitRecord, Refreshed, listing
<1>4. /\ Replicas' /\ HeldOnce'
      /\ \A v \in Workers : wk'[v] = IF v = w THEN new ELSE wk[v]
  BY <1>0, <1>2, <1>3, ScanStepHolds
<1>5. Signals(w) \subseteq {a}
  BY DEF Signals
<1>6. /\ \A b \in Assets : scan'[b] = IF b = a THEN found ELSE scan[b]
      /\ \A b \in Assets : b # a => cases'[b] = cases[b]
      /\ cases'[a] = IF found \in Suspect THEN cases[a] + 1 ELSE cases[a]
      /\ cases[a] \in Nat
  BY <1>1, <1>3 DEF CInv, Rows
<1>7. Rows'
  <2>1. scan' \in [Assets -> Decided \cup {"none", "pending", "scanning", "error"}]
    BY <1>1, <1>3 DEF CInv, Rows
  <2>2. cases' \in [Assets -> Nat]
    BY <1>1, <1>3, <1>6 DEF CInv, Rows
  <2>3. signalled' \subseteq Assets
    BY <1>1, <1>3, <1>5 DEF CInv, Rows
  <2> QED
    BY <1>3, <2>1, <2>2, <2>3 DEF CInv, Rows
<1>8. CopiedFirst'
  BY <1>2, <1>3, <1>4 DEF CInv, CopiedFirst
<1>9. CleanIsDeliverable'
  BY <1>0, <1>3, <1>6 DEF CInv, CleanIsDeliverable, CopiedFirst
<1>10. Undecided'
  <2> SUFFICES ASSUME ~overran, NEW v \in Workers, wk'[v].at \in Scanning
               PROVE  scan'[wk'[v].a] \notin Decided
    BY <1>3 DEF Undecided
  <2>1. v # w /\ wk'[v] = wk[v]
    BY <1>2, <1>4 DEF Scanning
  <2>2. wk[v].a \in Assets /\ wk[v].at # "between"
    BY <2>1 DEF CInv, Replicas, Busy, Scanning
  <2>3. wk[v].a # a
    BY <1>0, <1>1, <2>1, <2>2 DEF CInv, HeldOnce, Holds
  <2> QED
    BY <1>6, <2>1, <2>2, <2>3 DEF CInv, Undecided
<1>11. ~overran => scan[a] \notin Decided
  BY <1>0 DEF CInv, Undecided
<1>12. SuspectsHaveOneCase'
  <2> SUFFICES ASSUME ~overran, NEW b \in Assets
               PROVE  cases'[b] = IF scan'[b] \in Suspect THEN 1 ELSE 0
    BY <1>3 DEF SuspectsHaveOneCase
  <2>1. cases[b] = IF scan[b] \in Suspect THEN 1 ELSE 0
    BY DEF CInv, SuspectsHaveOneCase
  <2>2. CASE b = a
    <3>1. cases[a] = 0
      BY <1>11, <2>1, <2>2 DEF Decided
    <3> QED
      BY <1>6, <2>2, <3>1
  <2>3. CASE b # a
    BY <1>6, <2>1, <2>3
  <2> QED
    BY <2>2, <2>3
<1>13. OnSaleIsDeliverable'
  <2> SUFFICES ASSUME onSale, ~overran PROVE Deliverables' # {}
    BY <1>3 DEF OnSaleIsDeliverable
  <2>1. Deliverables # {}
    BY DEF CInv, OnSaleIsDeliverable
  <2>2. Deliverables \subseteq Deliverables'
    BY <1>6, <1>11 DEF Deliverables, Decided
  <2> QED
    BY <2>1, <2>2
<1>14. ReadsHold'
  <2> SUFFICES ASSUME ~overlapped PROVE ReadsHold'
    BY <1>3 DEF ReadsHold
  <2>1. \A v \in Workers : wk'[v].at # "commit"
    BY <1>0, <1>2, <1>4 DEF CInv, ReadsHold
  <2>2. wk[w].sees = signalled \ {a}
    BY <1>0 DEF CInv, ReadsHold
  <2> QED
    BY <1>3, <2>1, <2>2 DEF ReadsHold
<1> QED
  BY <1>4, <1>7, <1>8, <1>9, <1>10, <1>12, <1>13, <1>14 DEF CInv

----------------------------------------------------------------------------
(* The theorems. *)

LEMMA SellerKeeps == ASSUME CInv, SellerStep \/ SellerStanding PROVE CInv'
<1>1. ASSUME NEW a \in Assets, Upload(a) PROVE CInv'
  BY <1>1, ListingKeeps DEF Upload, listing
<1>2. CASE AddVariant \/ SellerStanding \/ ReadyToPublish \/ Unpublish
  BY <1>2, ListingKeeps DEF AddVariant, SellerStanding, ReadyToPublish, Unpublish, files
<1>3. CASE Publish
  BY <1>3, ListingKeeps DEF Publish, PublishGuard, Publishable, files
<1> QED
  BY <1>1, <1>2, <1>3, FinaliseKeeps DEF SellerStep

LEMMA Inductive == ASSUME CInv, [Next]_vars PROVE CInv'
<1>1. CASE UNCHANGED vars
  BY <1>1, ListingKeeps DEF vars, files, listing
<1> QED
  BY <1>1, SellerKeeps, LockExpiresKeeps, ClaimJobsKeeps, StartScanKeeps, MarkScanningKeeps,
     AnalyseKeeps, RecordUnscannedKeeps, CopyObjectKeeps, ReadFilesKeeps, CommitRecordKeeps,
     CompleteJobKeeps, FailJobKeeps, StepFailsKeeps, CrashKeeps
     DEF Next, WorkerStep, ScanStep

LEMMA InvariantHolds == Spec => []CInv
<1>1. CInv /\ [Next]_vars => CInv'
  BY Inductive
<1> QED
  BY <1>1, InitHolds, PTL DEF Spec

\* A row says clean only of a file that was copied out of quarantine, whatever stops
\* between the copy and the record and whoever else scans it (ScanAsset).
THEOREM CleanFilesAreThere == Spec => []CleanIsDeliverable
<1>1. CInv => CleanIsDeliverable
  BY DEF CInv
<1> QED
  BY <1>1, InvariantHolds, PTL

\* What is on sale can be delivered, until a batch outlives its lock
\* (products_publish_guard, and the verdicts ScanAsset does not take back).
THEOREM SalesCanBeDelivered == Spec => []OnSaleIsDeliverable
<1>1. CInv => OnSaleIsDeliverable
  BY DEF CInv
<1> QED
  BY <1>1, InvariantHolds, PTL

\* A suspect file has one moderation case, until a batch outlives its lock
\* (recordAnalysis, under jobs that are retried).
THEOREM CasesAreOpenedOnce == Spec => []SuspectsHaveOneCase
<1>1. CInv => SuspectsHaveOneCase
  BY DEF CInv
<1> QED
  BY <1>1, InvariantHolds, PTL

\* A product's routing speaks for every file it sells, as long as records of its files
\* do not overlap (refreshProductProvenance).
THEOREM RoutingIsComplete == Spec => []RoutingCountsEveryFile
<1>1. CInv => RoutingCountsEveryFile
  BY DEF CInv, ReadsHold, RoutingCountsEveryFile
<1> QED
  BY <1>1, InvariantHolds, PTL
----------------------------------------------------------------------------
(* The scan jobs are a work queue. *)

\* A job is there when its file is, and what a replica holds is there; a verdict, and a
\* handler that returned well, speak of a recorded analysis.
JobsAreThere ==
  /\ \A a \in Assets : scan[a] = "none" <=> "none" \in job[a].ended
  /\ \A w \in Workers, a \in Assets : Holds(w, a) => "none" \notin job[a].ended

VerdictsAreRecorded ==
  /\ \A a \in Assets : scan[a] \in Decided => a \in recorded
  /\ \A w \in Workers : wk[w].at = "ok" => wk[w].a \in recorded

\* What a replica holds has not ended, until a batch outlives its lock.
HeldAreOpen == ~ overran => \A w \in Workers, a \in Assets : Holds(w, a) => Open(a)

SInv == JobsAreThere /\ VerdictsAreRecorded /\ HeldAreOpen

LEMMA AtHandIsHeld ==
  ASSUME CInv, SInv, NEW w \in Workers, wk[w].at # "between"
  PROVE  /\ wk[w].a \in Assets /\ wk[w] \in Busy /\ Holds(w, wk[w].a)
         /\ scan[wk[w].a] # "none" /\ "none" \notin job[wk[w].a].ended
         /\ ~ overran => Open(wk[w].a)
<1>1. wk[w].a \in Assets /\ wk[w] \in Busy /\ Holds(w, wk[w].a)
  BY DEF CInv, Replicas, Busy, Holds
<1> QED
  BY <1>1 DEF SInv, JobsAreThere, HeldAreOpen

\* Steps that end no job and put none.
LEMMA JobsKeep ==
  ASSUME SInv, \A a \in Assets : job'[a].ended = job[a].ended, overran => overran',
         recorded \subseteq recorded',
         \A a \in Assets : scan'[a] = scan[a] \/ (/\ scan[a] # "none" /\ scan'[a] # "none"
                                                  /\ scan'[a] \in Decided => a \in recorded'),
         \A v \in Workers, a \in Assets : Holds(v, a)' => Holds(v, a) \/ Open(a),
         \A v \in Workers : wk'[v].at = "ok" =>
           wk'[v].a \in recorded' \/ (wk[v].at = "ok" /\ wk'[v].a = wk[v].a)
  PROVE  SInv'
<1>1. \A v \in Workers, a \in Assets : Holds(v, a)' => "none" \notin job'[a].ended
  BY DEF SInv, JobsAreThere, Open
<1>2. JobsAreThere'
  BY <1>1 DEF SInv, JobsAreThere
<1>3. VerdictsAreRecorded'
  BY DEF SInv, VerdictsAreRecorded
<1>4. HeldAreOpen'
  BY DEF SInv, HeldAreOpen, Open
<1> QED
  BY <1>2, <1>3, <1>4 DEF SInv

ScanMove(w) ==
  \/ MarkScanning(w) \/ Analyse(w) \/ RecordUnscanned(w) \/ CopyObject(w)
  \/ ReadFiles(w) \/ CommitRecord(w) \/ StepFails(w)

\* A step of a scan leaves a replica with the same file and the same batch.
LEMMA ScanMoves ==
  ASSUME CInv, NEW w \in Workers, ScanMove(w)
  PROVE  /\ wk[w].at # "between" /\ \A v \in Workers : v # w => wk'[v] = wk[v]
         /\ wk'[w].a = wk[w].a /\ wk'[w].batch = wk[w].batch /\ wk'[w].at # "between"
         /\ wk'[w].at = "ok" => CommitRecord(w)
<1>1. wk[w].at \in Scanning
  BY DEF ScanMove, MarkScanning, Analyse, RecordUnscanned, CopyObject, ReadFiles, CommitRecord,
     StepFails, Scanning
<1>2. wk \in [Workers -> Idle \cup Busy] /\ wk[w] \in Busy /\ wk[w].at # "between"
  BY <1>1 DEF CInv, Replicas, Scanning
<1>3. ASSUME NEW new \in Busy, wk' = [wk EXCEPT ![w] = new]
      PROVE  wk'[w] = new /\ new.at # "between" /\ \A v \in Workers : v # w => wk'[v] = wk[v]
  BY <1>2, <1>3 DEF Busy
<1>4. ASSUME NEW at \in {"analyse", "unscanned", "record"}, Become(w, at)
      PROVE  /\ wk'[w].a = wk[w].a /\ wk'[w].batch = wk[w].batch /\ wk'[w].at = at
             /\ \A v \in Workers : v # w => wk'[v] = wk[v]
  <2> DEFINE new == [wk[w] EXCEPT !.at = at]
  <2>1. new \in Busy /\ new.a = wk[w].a /\ new.batch = wk[w].batch /\ new.at = at
    BY <1>2 DEF Busy
  <2>2. wk' = [wk EXCEPT ![w] = new]
    BY <1>4 DEF Become
  <2> QED
    BY <1>3, <2>1, <2>2
<1>5. ASSUME NEW at \in {"ok", "err"}, Return(w, at)
      PROVE  /\ wk'[w].a = wk[w].a /\ wk'[w].batch = wk[w].batch /\ wk'[w].at = at
             /\ \A v \in Workers : v # w => wk'[v] = wk[v]
  BY <1>1, <1>3, <1>5, ReturnMoves
<1>6. ASSUME NEW found \in Verdicts[wk[w].a] \cup {"error"},
             wk' = [wk EXCEPT ![w].found = found, ![w].at = AfterScan(found)]
      PROVE  /\ wk'[w].a = wk[w].a /\ wk'[w].batch = wk[w].batch /\ wk'[w].at \in {"copy", "record"}
             /\ \A v \in Workers : v # w => wk'[v] = wk[v]
  <2> DEFINE new == [wk[w] EXCEPT !.found = found, !.at = AfterScan(found)]
  <2>1. found \in Decided \cup {"error"} /\ AfterScan(found) \in {"copy", "record"}
    BY <1>2, CatalogueAssumption DEF Busy, AfterScan
  <2>2. new \in Busy /\ new.a = wk[w].a /\ new.batch = wk[w].batch /\ new.at = AfterScan(found)
    BY <1>2, <2>1 DEF Busy
  <2>3. wk' = [wk EXCEPT ![w] = new]
    BY <1>6
  <2> QED
    BY <1>3, <2>1, <2>2, <2>3
<1>7. CASE ReadFiles(w)
  <2> DEFINE new == [wk[w] EXCEPT !.at = "commit", !.sees = signalled \ {wk[w].a}]
  <2>1. new \in Busy /\ new.a = wk[w].a /\ new.batch = wk[w].batch /\ new.at = "commit"
    BY <1>2 DEF Busy, CInv, Rows
  <2>2. wk' = [wk EXCEPT ![w] = new]
    BY <1>7 DEF ReadFiles
  <2> QED
    BY <1>2, <1>3, <2>1, <2>2
<1>8. CASE Analyse(w)
  BY <1>2, <1>4, <1>6, <1>8 DEF Analyse
<1>9. CASE MarkScanning(w) \/ CopyObject(w)
  BY <1>2, <1>4, <1>9 DEF MarkScanning, CopyObject
<1>10. CASE RecordUnscanned(w) \/ CommitRecord(w) \/ StepFails(w)
  BY <1>2, <1>5, <1>10 DEF RecordUnscanned, CommitRecord, StepFails
<1> QED
  BY <1>7, <1>8, <1>9, <1>10 DEF ScanMove

LEMMA ScanMoveKeepsJobs == ASSUME CInv, SInv, NEW w \in Workers, ScanMove(w) PROVE SInv'
<1> DEFINE a == wk[w].a
<1>1. /\ wk[w].at # "between" /\ \A v \in Workers : v # w => wk'[v] = wk[v]
      /\ wk'[w].a = a /\ wk'[w].batch = wk[w].batch /\ wk'[w].at # "between"
      /\ wk'[w].at = "ok" => CommitRecord(w)
  BY ScanMoves
<1>2. a \in Assets /\ wk[w] \in Busy /\ scan[a] # "none"
  BY <1>1, AtHandIsHeld
<1>3. /\ UNCHANGED <<job, overran>>
      /\ recorded' = recorded \/ (CommitRecord(w) /\ recorded' = recorded \cup {a})
      /\ CommitRecord(w) => recorded' = recorded \cup {a}
  BY DEF ScanMove, MarkScanning, Analyse, RecordUnscanned, CopyObject, ReadFiles, CommitRecord,
     StepFails, files, listing, history
<1>4. \/ UNCHANGED scan
      \/ \E s \in {"pending", "scanning", "error"} : scan' = [scan EXCEPT ![a] = s]
      \/ CommitRecord(w) /\ scan' = [scan EXCEPT ![a] = wk[w].found]
  <2>1. CASE MarkScanning(w)
    BY <1>2, <2>1 DEF MarkScanning, CInv, Rows
  <2>2. CASE ~ MarkScanning(w)
    BY <2>2 DEF ScanMove, Analyse, RecordUnscanned, CopyObject, ReadFiles, CommitRecord, StepFails, files
  <2> QED
    BY <2>1, <2>2
<1>5. wk[w].found # "none" /\ scan \in [Assets -> Decided \cup {"none", "pending", "scanning", "error"}]
  BY <1>2 DEF Busy, Decided, Suspect, CInv, Rows
<1> HIDE DEF a
<1>6. ASSUME NEW b \in Assets
      PROVE  scan'[b] = scan[b] \/ (/\ scan[b] # "none" /\ scan'[b] # "none"
                                    /\ scan'[b] \in Decided => b \in recorded')
  BY <1>2, <1>3, <1>4, <1>5 DEF Decided, Suspect
<1>7. \A v \in Workers, b \in Assets : Holds(v, b)' => Holds(v, b)
  BY <1>1 DEF Holds, a
<1>8. \A v \in Workers : wk'[v].at = "ok" =>
        wk'[v].a \in recorded' \/ (wk[v].at = "ok" /\ wk'[v].a = wk[v].a)
  BY <1>1, <1>3
<1> QED
  BY <1>3, <1>6, <1>7, <1>8, JobsKeep

LEMMA FinalisePutsJob == ASSUME CInv, SInv, NEW a \in Assets, FinaliseUpload(a) PROVE SInv'
<1>1. /\ scan[a] = "none" /\ scan' = [scan EXCEPT ![a] = "pending"]
      /\ job' = [job EXCEPT ![a].ended = {}] /\ UNCHANGED <<wk, overran, recorded>>
  BY DEF FinaliseUpload, listing, history
<1>2. \A b \in Assets : /\ scan'[b] = IF b = a THEN "pending" ELSE scan[b]
                        /\ job'[b].ended = IF b = a THEN {} ELSE job[b].ended
  BY <1>1 DEF CInv, Rows, Jobs
<1>3. \A v \in Workers, b \in Assets : Holds(v, b)' <=> Holds(v, b)
  BY <1>1 DEF Holds
<1>4. JobsAreThere'
  BY <1>2, <1>3 DEF SInv, JobsAreThere
<1>5. VerdictsAreRecorded'
  BY <1>1, <1>2 DEF SInv, VerdictsAreRecorded, Decided, Suspect
<1>6. HeldAreOpen'
  BY <1>1, <1>2, <1>3 DEF SInv, HeldAreOpen, Open
<1> QED
  BY <1>4, <1>5, <1>6 DEF SInv

\* How the end of a job changes its row.
LEMMA JobEnds ==
  ASSUME CInv, SInv, NEW w \in Workers, CompleteJob(w) \/ FailJob(w)
  PROVE  /\ wk[w].at # "between" /\ wk' = [wk EXCEPT ![w] = [batch |-> wk[w].batch, at |-> "between"]]
         /\ UNCHANGED <<scan, recorded, overran>>
         /\ \A b \in Assets : b # wk[w].a => job'[b] = job[b]
         /\ \/ job'[wk[w].a].ended = job[wk[w].a].ended
            \/ CompleteJob(w) /\ job'[wk[w].a].ended = job[wk[w].a].ended \cup {"completed"}
            \/ FailJob(w) /\ job'[wk[w].a].ended = job[wk[w].a].ended \cup {"failed"}
<1> DEFINE a == wk[w].a
<1>1. wk[w].at # "between" /\ a \in Assets /\ job \in [Assets -> Jobs]
  BY DEF CompleteJob, FailJob, CInv, Replicas, Busy, Rows
<1>2. /\ wk' = [wk EXCEPT ![w] = [batch |-> wk[w].batch, at |-> "between"]]
      /\ UNCHANGED <<scan, recorded, overran>>
  BY DEF CompleteJob, FailJob, EndJob, files
<1>3. ASSUME NEW row, EndJob(w, row)
      PROVE  job' = job \/ (job'[a] = row /\ \A b \in Assets : b # a => job'[b] = job[b])
  BY <1>1, <1>3 DEF EndJob
<1>4. CASE CompleteJob(w)
  <2> DEFINE r   == job[a]
             row == [r EXCEPT !.locked = FALSE, !.ended = @ \cup {"completed"}]
  <2>1. EndJob(w, row)
    BY <1>4 DEF CompleteJob
  <2>2. row.ended = r.ended \cup {"completed"}
    BY <1>1 DEF Jobs
  <2> HIDE DEF row
  <2> QED
    BY <1>1, <1>2, <1>3, <1>4, <2>1, <2>2
<1>5. CASE FailJob(w)
  <2> DEFINE r   == job[a]
             row == [r EXCEPT !.locked = FALSE,
                              !.ended = IF GivesUp(wk[w].tries) THEN @ \cup {"failed"} ELSE @]
  <2>1. EndJob(w, row)
    BY <1>5 DEF FailJob
  <2>2. row.ended \in {r.ended, r.ended \cup {"failed"}}
    BY <1>1 DEF Jobs
  <2> HIDE DEF row
  <2> QED
    BY <1>1, <1>2, <1>3, <1>5, <2>1, <2>2
<1> QED
  BY <1>4, <1>5

LEMMA EndKeepsJobs == ASSUME CInv, SInv, NEW w \in Workers, CompleteJob(w) \/ FailJob(w) PROVE SInv'
<1> DEFINE a   == wk[w].a
           new == [batch |-> wk[w].batch, at |-> "between"]
<1>1. /\ wk[w].at # "between" /\ wk' = [wk EXCEPT ![w] = new]
      /\ UNCHANGED <<scan, recorded, overran>>
      /\ \A b \in Assets : b # a => job'[b] = job[b]
      /\ \E s \in {"completed", "failed"} : job'[a].ended \in {job[a].ended, job[a].ended \cup {s}}
  BY JobEnds
<1>2. new.at = "between" /\ new.batch = wk[w].batch
  OBVIOUS
<1> HIDE DEF new
<1>3. \A v \in Workers : wk'[v] = IF v = w THEN new ELSE wk[v]
  BY <1>1 DEF CInv, Replicas
<1>4. a \in Assets /\ Holds(w, a)
  BY <1>1, AtHandIsHeld
<1>5. \A v \in Workers, b \in Assets : Holds(v, b)' => Holds(v, b)
  BY <1>2, <1>3 DEF Holds
<1> HIDE DEF a
<1>6. ~ overran => \A v \in Workers, b \in Assets : Holds(v, b)' => b # a
  <2> SUFFICES ASSUME ~ overran, NEW v \in Workers, NEW b \in Assets, Holds(v, b)', b = a PROVE FALSE
    OBVIOUS
  <2>1. v = w
    BY <1>4, <1>5 DEF CInv, HeldOnce
  <2>2. \A x \in wk[w].batch : x[1] # a
    BY <1>1 DEF CInv, HeldOnce, a
  <2> QED
    BY <1>2, <1>3, <2>1, <2>2 DEF Holds
<1>7. JobsAreThere'
  BY <1>1, <1>4, <1>5 DEF SInv, JobsAreThere
<1>8. VerdictsAreRecorded'
  BY <1>1, <1>2, <1>3 DEF SInv, VerdictsAreRecorded
<1>9. HeldAreOpen'
  BY <1>1, <1>5, <1>6 DEF SInv, HeldAreOpen, Open
<1> QED
  BY <1>7, <1>8, <1>9 DEF SInv

LEMMA StartKeepsJobs == ASSUME CInv, SInv, NEW w \in Workers, StartScan(w) PROVE SInv'
<1>1. PICK next \in wk[w].batch :
        wk' = [wk EXCEPT ![w] =
          [batch |-> @.batch \ {next}, a |-> next[1], tries |-> next[2],
           at |-> IF Terminal(next[1]) THEN "ok" ELSE "mark", found |-> "error", sees |-> {}]]
  BY DEF StartScan
<1> DEFINE at  == IF Terminal(next[1]) THEN "ok" ELSE "mark"
           new == [batch |-> wk[w].batch \ {next}, a |-> next[1], tries |-> next[2],
                   at |-> at, found |-> "error", sees |-> {}]
<1>2. UNCHANGED <<scan, recorded, job, overran>> /\ wk[w] \in Idle
  BY DEF StartScan, files, history, CInv, Replicas
<1>3. next[1] \in Assets
  BY <1>2 DEF Idle, Batches
<1>4. /\ new.a = next[1] /\ new.batch \subseteq wk[w].batch /\ new.at # "between"
      /\ new.at = "ok" => scan[next[1]] \in Decided
  BY DEF Terminal
<1>5. wk' = [wk EXCEPT ![w] = new]
  BY <1>1
<1> HIDE DEF new
<1>6. \A v \in Workers : wk'[v] = IF v = w THEN new ELSE wk[v]
  BY <1>5 DEF CInv, Replicas
<1>7. \A v \in Workers, b \in Assets : Holds(v, b)' => Holds(v, b)
  BY <1>4, <1>6 DEF Holds
<1>8. \A v \in Workers : wk'[v].at = "ok" =>
        wk'[v].a \in recorded' \/ (wk[v].at = "ok" /\ wk'[v].a = wk[v].a)
  BY <1>2, <1>3, <1>4, <1>6 DEF SInv, VerdictsAreRecorded
<1> QED
  BY <1>2, <1>7, <1>8, JobsKeep

LEMMA ClaimKeepsJobs == ASSUME CInv, SInv, NEW w \in Workers, ClaimJobs(w) PROVE SInv'
<1>1. PICK batch \in SUBSET {a \in Assets : Open(a) /\ ~job[a].locked} :
        /\ job' = [a \in Assets |->
                     IF a \in batch THEN [job[a] EXCEPT !.attempts = @ + 1, !.locked = TRUE]
                                    ELSE job[a]]
        /\ wk' = [wk EXCEPT ![w].batch = {<<a, job[a].attempts + 1>> : a \in batch}]
  BY DEF ClaimJobs
<1> DEFINE new == [wk[w] EXCEPT !.batch = {<<a, job[a].attempts + 1>> : a \in batch}]
<1>2. UNCHANGED <<scan, recorded, overran>> /\ wk[w].at = "between" /\ wk[w] \in Idle
  <2>1. wk[w] = NoBatch
    BY DEF ClaimJobs
  <2>2. wk[w].at = "between"
    BY ONLY <2>1 DEF NoBatch
  <2> QED
    BY <2>2 DEF ClaimJobs, files, history, CInv, Replicas
<1>3. ASSUME NEW a \in Assets PROVE job'[a].ended = job[a].ended
  <2>1. ASSUME NEW r \in Jobs PROVE [r EXCEPT !.attempts = @ + 1, !.locked = TRUE].ended = r.ended
    BY DEF Jobs
  <2> QED
    BY <1>1, <2>1 DEF CInv, Rows
<1>4. new.at = "between" /\ \A x \in new.batch : x[1] \in batch
  BY <1>2 DEF Idle
<1>5. wk' = [wk EXCEPT ![w] = new]
  BY <1>1
<1> HIDE DEF new
<1>6. \A v \in Workers : wk'[v] = IF v = w THEN new ELSE wk[v]
  BY <1>5 DEF CInv, Replicas
<1>7. \A v \in Workers, b \in Assets : Holds(v, b)' => Holds(v, b) \/ Open(b)
  BY <1>4, <1>6 DEF Holds
<1>8. \A v \in Workers : wk'[v].at = "ok" =>
        wk'[v].a \in recorded' \/ (wk[v].at = "ok" /\ wk'[v].a = wk[v].a)
  BY <1>4, <1>6
<1> QED
  BY <1>2, <1>3, <1>7, <1>8, JobsKeep

LEMMA JobsStayThere == ASSUME CInv, SInv, [Next]_vars PROVE SInv'
<1>1. ASSUME UNCHANGED <<scan, recorded, job, wk, overran>> PROVE SInv'
  <2>1. \A v \in Workers, b \in Assets : Holds(v, b)' => Holds(v, b)
    BY <1>1 DEF Holds
  <2> QED
    BY <1>1, <2>1, JobsKeep
<1>2. CASE SellerStanding \/ SellerStep
  BY <1>1, <1>2, FinalisePutsJob
     DEF SellerStanding, SellerStep, Upload, AddVariant, ReadyToPublish, Publish, Unpublish,
         files, history
<1>3. ASSUME NEW a \in Assets, LockExpires(a) PROVE SInv'
  <2>1. /\ UNCHANGED <<scan, recorded, wk>> /\ job' = [job EXCEPT ![a].locked = FALSE]
        /\ overran' = TRUE \/ UNCHANGED overran
    BY <1>3 DEF LockExpires, files
  <2>2. \A b \in Assets : job'[b].ended = job[b].ended
    BY <2>1 DEF CInv, Rows, Jobs
  <2>3. \A v \in Workers, b \in Assets : Holds(v, b)' => Holds(v, b)
    BY <2>1 DEF Holds
  <2> QED
    BY <2>1, <2>2, <2>3, JobsKeep
<1>4. ASSUME NEW w \in Workers, Crash(w) PROVE SInv'
  <2>1. wk' = [wk EXCEPT ![w] = NoBatch] /\ UNCHANGED <<scan, recorded, job, overran>>
    BY <1>4 DEF Crash, files
  <2>2. \A v \in Workers : wk'[v] = IF v = w THEN NoBatch ELSE wk[v]
    BY <2>1 DEF CInv, Replicas
  <2>3. NoBatch.at = "between" /\ NoBatch.batch = {}
    BY DEF NoBatch
  <2>4. \A v \in Workers, b \in Assets : Holds(v, b)' => Holds(v, b)
    BY <2>2, <2>3 DEF Holds
  <2> QED
    BY <2>1, <2>2, <2>3, <2>4, JobsKeep
<1>5. CASE UNCHANGED vars
  BY <1>1, <1>5 DEF vars, files, history
<1> QED
  BY <1>2, <1>3, <1>4, <1>5, ScanMoveKeepsJobs, EndKeepsJobs, StartKeepsJobs, ClaimKeepsJobs
     DEF Next, WorkerStep, ScanStep, ScanMove

\* How a job stands, by its row.
LEMMA JobStanding ==
  ASSUME CInv, NEW a \in Assets
  PROVE  /\ JobStatus[a] = "absent" <=> "none" \in job[a].ended
         /\ JobStatus[a] = "open" <=> job[a].ended = {}
<1>1. job[a].ended \subseteq {"none", "completed", "failed"}
  BY DEF CInv, Rows, Jobs
<1> QED
  BY <1>1 DEF JobStatus

LEMMA SameJobs ==
  ASSUME \A a \in Assets : job'[a].ended = job[a].ended PROVE UNCHANGED JobStatus
BY Zenon DEF JobStatus

\* A step that changes how one job stands.
LEMMA NewJob ==
  ASSUME NEW a \in Assets, \A b \in Assets : b # a => job'[b].ended = job[b].ended
  PROVE  JobStatus' = [JobStatus EXCEPT ![a] = JobStatus'[a]]
<1> DEFINE f == [JobStatus EXCEPT ![a] = JobStatus'[a]]
<1>1. DOMAIN JobStatus = Assets /\ DOMAIN JobStatus' = Assets /\ DOMAIN f = Assets
  BY DEF JobStatus
<1>2. ASSUME NEW b \in Assets PROVE JobStatus'[b] = f[b]
  <2>1. CASE b = a
    BY <2>1 DEF JobStatus
  <2>2. CASE b # a
    BY <2>2 DEF JobStatus
  <2> QED
    BY <2>1, <2>2
<1>3. JobStatus' = [b \in Assets |-> JobStatus'[b]] /\ f = [b \in Assets |-> f[b]]
  BY <1>1 DEF JobStatus
<1> QED
  BY <1>2, <1>3

LEMMA JobQueueStep ==
  CInv /\ SInv /\ [Next]_vars => [Promised!Next]_<<JobStatus, recorded, {}, FALSE, overran>>
<1> SUFFICES ASSUME CInv, SInv, [Next]_vars
             PROVE  [Promised!Next]_<<JobStatus, recorded, {}, FALSE, overran>>
  OBVIOUS
<1>1. ASSUME UNCHANGED <<recorded, overran>>, \A a \in Assets : job'[a].ended = job[a].ended
      PROVE  [Promised!Next]_<<JobStatus, recorded, {}, FALSE, overran>>
  BY <1>1, SameJobs
<1>2. ASSUME NEW a \in Assets, FinaliseUpload(a)
      PROVE  [Promised!Next]_<<JobStatus, recorded, {}, FALSE, overran>>
  <2>1. /\ scan[a] = "none" /\ job' = [job EXCEPT ![a].ended = {}]
        /\ UNCHANGED <<recorded, overran>>
    BY <1>2 DEF FinaliseUpload, history
  <2>2. job'[a].ended = {} /\ \A b \in Assets : b # a => job'[b].ended = job[b].ended
    BY <2>1 DEF CInv, Rows, Jobs
  <2>3. JobStatus[a] = "absent"
    BY <2>1, JobStanding DEF SInv, JobsAreThere
  <2>4. JobStatus'[a] = "open"
    BY <2>2 DEF JobStatus
  <2>5. Promised!Put(a)
    BY <2>1, <2>2, <2>3, <2>4, NewJob DEF Promised!Put
  <2> QED
    BY <2>5 DEF Promised!Next
<1>3. ASSUME NEW a \in Assets, LockExpires(a)
      PROVE  [Promised!Next]_<<JobStatus, recorded, {}, FALSE, overran>>
  <2>1. /\ job' = [job EXCEPT ![a].locked = FALSE] /\ UNCHANGED recorded
        /\ overran' = TRUE \/ UNCHANGED overran
    BY <1>3 DEF LockExpires, files
  <2>2. UNCHANGED JobStatus
    <3>1. \A b \in Assets : job'[b].ended = job[b].ended
      BY <2>1 DEF CInv, Rows, Jobs
    <3> QED
      BY <3>1, SameJobs
  <2>3. CASE overran' = TRUE
    BY <2>1, <2>2, <2>3 DEF Promised!Next, Promised!Disturb
  <2> QED
    BY <2>1, <2>2, <2>3
<1>4. ASSUME NEW w \in Workers, CommitRecord(w)
      PROVE  [Promised!Next]_<<JobStatus, recorded, {}, FALSE, overran>>
  <2> DEFINE a == wk[w].a
  <2>1. wk[w].at # "between" /\ recorded' = recorded \cup {a} /\ UNCHANGED <<job, overran>>
    BY <1>4 DEF CommitRecord
  <2>2. /\ a \in Assets /\ "none" \notin job[a].ended
        /\ ~ overran => job[a].ended = {}
    BY <2>1, AtHandIsHeld DEF Open
  <2> HIDE DEF a
  <2>3. UNCHANGED JobStatus
    BY <2>1, SameJobs
  <2>4. Promised!Work(a)
    BY <2>1, <2>2, <2>3, JobStanding DEF Promised!Work, Promised!MayTouch, Promised!InTurn
  <2> QED
    BY <2>2, <2>4 DEF Promised!Next
<1>5. ASSUME NEW w \in Workers, CompleteJob(w) \/ FailJob(w)
      PROVE  [Promised!Next]_<<JobStatus, recorded, {}, FALSE, overran>>
  <2> DEFINE a == wk[w].a
             s == JobStatus'[a]
  <2>1. /\ wk[w].at # "between" /\ UNCHANGED <<recorded, overran>>
        /\ \A b \in Assets : b # a => job'[b] = job[b]
        /\ \/ job'[a].ended = job[a].ended
           \/ CompleteJob(w) /\ job'[a].ended = job[a].ended \cup {"completed"}
           \/ job'[a].ended = job[a].ended \cup {"failed"}
    BY <1>5, JobEnds
  <2>2. /\ a \in Assets /\ "none" \notin job[a].ended
        /\ ~ overran => job[a].ended = {}
    BY <2>1, AtHandIsHeld DEF Open
  <2>3. CompleteJob(w) => a \in recorded
    BY DEF CompleteJob, SInv, VerdictsAreRecorded
  <2> HIDE DEF a
  <2>4. Promised!MayTouch(a)
    BY <2>2, JobStanding DEF Promised!MayTouch
  <2>5. JobStatus' = [JobStatus EXCEPT ![a] = s]
    BY <2>1, <2>2, NewJob
  <2>6. s = JobStatus[a] \/ s = "dropped" \/ (s = "settled" /\ a \in recorded)
    BY <2>1, <2>2, <2>3 DEF JobStatus
  <2>7. CASE s = JobStatus[a]
    <3>1. UNCHANGED JobStatus
      BY <2>5, <2>7 DEF JobStatus
    <3> QED
      BY <2>1, <3>1
  <2> HIDE DEF s
  <2>8. CASE s = "dropped" \/ (s = "settled" /\ a \in recorded)
    <3>1. Promised!End(a, s)
      BY <2>1, <2>4, <2>5, <2>8 DEF Promised!End
    <3> QED
      BY <2>2, <2>8, <3>1 DEF Promised!Next
  <2> QED
    BY <2>6, <2>7, <2>8
<1>6. ASSUME NEW w \in Workers, ClaimJobs(w)
      PROVE  [Promised!Next]_<<JobStatus, recorded, {}, FALSE, overran>>
  <2>1. ASSUME NEW a \in Assets PROVE job'[a].ended = job[a].ended
    <3>1. ASSUME NEW r \in Jobs PROVE [r EXCEPT !.attempts = @ + 1, !.locked = TRUE].ended = r.ended
      BY DEF Jobs
    <3> QED
      BY <1>6, <3>1 DEF ClaimJobs, CInv, Rows
  <2> QED
    BY <1>1, <1>6, <2>1 DEF ClaimJobs, files, history
<1>7. ASSUME UNCHANGED <<recorded, job, overran>>
      PROVE  [Promised!Next]_<<JobStatus, recorded, {}, FALSE, overran>>
  BY <1>1, <1>7
<1>8. CASE SellerStanding \/ SellerStep
  BY <1>2, <1>7, <1>8
     DEF SellerStanding, SellerStep, Upload, AddVariant, ReadyToPublish, Publish, Unpublish,
         files, history
<1>9. ASSUME NEW w \in Workers, \/ StartScan(w) \/ MarkScanning(w) \/ Analyse(w) \/ RecordUnscanned(w)
                                \/ CopyObject(w) \/ ReadFiles(w) \/ StepFails(w) \/ Crash(w)
      PROVE  [Promised!Next]_<<JobStatus, recorded, {}, FALSE, overran>>
  BY <1>7, <1>9 DEF StartScan, MarkScanning, Analyse, RecordUnscanned, CopyObject, ReadFiles,
     StepFails, Crash, files, history
<1> QED
  BY <1>3, <1>4, <1>5, <1>6, <1>7, <1>8, <1>9 DEF Next, WorkerStep, ScanStep, vars, files, history

\* The scan jobs keep what a work queue promises, however replicas crash, lose their
\* acknowledgements or outlive their locks (claim and run, completeJob and failJob, which
\* name a job by its id alone).
THEOREM ScansImplementQueue == Spec => ScansAreWorkQueue
<1>1. Init => Promised!Init
  <2> SUFFICES ASSUME Init PROVE Promised!Init
    OBVIOUS
  <2>1. JobStatus = [a \in Assets |-> "absent"]
    BY DEF Init, NoJob, JobStatus
  <2> QED
    BY <2>1 DEF Init, Promised!Init
<1>2. Init => SInv
  BY DEF Init, NoJob, NoBatch, SInv, JobsAreThere, VerdictsAreRecorded, HeldAreOpen, Holds, Decided,
     Suspect
<1>3. CInv /\ SInv /\ [Next]_vars => SInv'
  BY JobsStayThere
<1> QED
  BY <1>1, <1>2, <1>3, InvariantHolds, JobQueueStep, PTL
     DEF Spec, ScansAreWorkQueue, Promised!Spec, Promised!queueVars
=============================================================================
