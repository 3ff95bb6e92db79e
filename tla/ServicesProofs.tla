------------------------------ MODULE ServicesProofs ------------------------------
EXTENDS Migrate, Registers, Rollup, Notices, Listings, Pricing, FiniteSetTheorems, Sums, TLAPS

-----------------------------------------------------------------------------
(***************************************************************************)
(* What holds of Migrate for any replicas, any sets of files, and any      *)
(* failures.                                                               *)
(*                                                                         *)
(* A replica reads what is applied once, under the lock, and then trusts   *)
(* it: while it holds the lock, what is applied is what it read and its    *)
(* own earlier files, whose versions are lower.                            *)
(***************************************************************************)

Files == Nat \X STRING

ReplicaStates ==
    [at : {"waiting", "locked", "applying", "drifted", "failed", "done"},
     found : SUBSET Files, next : Nat \ {0}, hit : BOOLEAN]

ReplicaShapes ==
    /\ migrated \in Seq(Files)
    /\ replica \in [Replicas -> ReplicaStates]
    /\ locked \subseteq Replicas

\* Who migrates holds the lock, and nobody else does.
LockHeld ==
    /\ \A r \in Replicas : replica[r].at \in {"locked", "applying"} <=> r \in locked
    /\ \A p, q \in locked : p = q

\* A replica has not begun its files before it has read what is applied.
BeginsAtFirst == \A r \in Replicas : replica[r].at \in {"waiting", "locked"} => replica[r].next = 1

\* What is applied is what the migrating replica read and its own files so far.
KnowsWhatIsApplied ==
    \A r \in Replicas : replica[r].at = "applying" =>
        /\ replica[r].next <= Len(FilesOf[r]) + 1
        /\ replica[r].found \subseteq ToSet(migrated)
        /\ \A i \in 1 .. replica[r].next - 1 : FilesOf[r][i] \in ToSet(migrated)
        /\ \A x \in ToSet(migrated) :
              x \in replica[r].found \/ \E i \in 1 .. replica[r].next - 1 : x = FilesOf[r][i]

MInv == ReplicaShapes /\ LockHeld /\ BeginsAtFirst /\ KnowsWhatIsApplied /\ MigrationsApplyOnce

LEMMA FilesLoaded ==
    ASSUME NEW r \in Replicas
    PROVE  /\ FilesOf[r] \in Seq(Files) /\ Len(FilesOf[r]) \in Nat
           /\ DOMAIN FilesOf[r] = 1 .. Len(FilesOf[r])
           /\ \A i \in 1 .. Len(FilesOf[r]) : FilesOf[r][i] \in Files
           /\ \A i, j \in 1 .. Len(FilesOf[r]) : i < j => FilesOf[r][i][1] < FilesOf[r][j][1]
  BY MigrateFiles, SMTT(20) DEF Files, Loaded

LEMMA Applied ==
    ASSUME ReplicaShapes
    PROVE  /\ Len(migrated) \in Nat /\ DOMAIN migrated = 1 .. Len(migrated)
           /\ ToSet(migrated) \subseteq Files
           /\ \A x : x \in ToSet(migrated) <=> \E i \in 1 .. Len(migrated) : x = migrated[i]
  BY DEF ReplicaShapes, ToSet

LEMMA MigrationsBegin == MigrateInit => MInv
<1> SUFFICES ASSUME MigrateInit PROVE MInv
  OBVIOUS
<1>1. ReplicaShapes
  BY DEF MigrateInit, ReplicaShapes, NotStarted, ReplicaStates
<1>2. LockHeld /\ BeginsAtFirst /\ KnowsWhatIsApplied
  BY DEF MigrateInit, LockHeld, BeginsAtFirst, KnowsWhatIsApplied, NotStarted
<1>3. MigrationsApplyOnce
  BY DEF MigrateInit, MigrationsApplyOnce, NotStarted
<1> QED
  BY <1>1, <1>2, <1>3 DEF MInv

\* Steps of one replica that apply nothing.
LEMMA ReplicaStepKeeps ==
    ASSUME MInv, UNCHANGED migrated, NEW r \in Replicas,
           NEW new \in ReplicaStates,
           replica' = [replica EXCEPT ![r] = new],
           \/ locked = {} /\ locked' = locked \cup {r}
           \/ locked' = locked \ {r}
           \/ locked' = locked,
           new.at \in {"locked", "applying"} <=> r \in locked',
           new.at \in {"waiting", "locked"} => new.next = 1,
           new.at = "applying" =>
              /\ new.next <= Len(FilesOf[r]) + 1
              /\ new.found \subseteq ToSet(migrated)
              /\ \A i \in 1 .. new.next - 1 : FilesOf[r][i] \in ToSet(migrated)
              /\ \A x \in ToSet(migrated) :
                    x \in new.found \/ \E i \in 1 .. new.next - 1 : x = FilesOf[r][i],
           new.at = "done" => ToSet(FilesOf[r]) \subseteq ToSet(migrated),
           new.at = "failed" => new.hit,
           new.at = "drifted" => \E i \in DOMAIN migrated :
              migrated[i][1] = FilesOf[r][new.next][1] /\ migrated[i] # FilesOf[r][new.next]
    PROVE  MInv'
<1>1. ReplicaShapes'
  BY DEF MInv, ReplicaShapes
<1>2. \A q \in Replicas : replica'[q] = IF q = r THEN new ELSE replica[q]
  BY DEF MInv, ReplicaShapes
<1>3. LockHeld'
  BY <1>2 DEF MInv, ReplicaShapes, LockHeld
<1>4. BeginsAtFirst' /\ KnowsWhatIsApplied'
  BY <1>2 DEF MInv, BeginsAtFirst, KnowsWhatIsApplied
<1>5. MigrationsApplyOnce'
  <2>1. /\ \A i, j \in DOMAIN migrated' : migrated'[i][1] = migrated'[j][1] => i = j
        /\ \A i \in DOMAIN migrated' : \E q \in Replicas : \E n \in DOMAIN FilesOf[q] :
              /\ FilesOf[q][n] = migrated'[i]
              /\ \A m \in 1 .. n - 1 : \E j \in 1 .. i - 1 : migrated'[j] = FilesOf[q][m]
    BY DEF MInv, MigrationsApplyOnce
  <2>2. \A q \in Replicas :
          /\ replica'[q].at = "done" => ToSet(FilesOf[q]) \subseteq ToSet(migrated')
          /\ replica'[q].at = "failed" => replica'[q].hit
          /\ replica'[q].at = "drifted" => \E i \in DOMAIN migrated' :
                migrated'[i][1] = FilesOf[q][replica'[q].next][1]
                     /\ migrated'[i] # FilesOf[q][replica'[q].next]
    BY <1>2 DEF MInv, MigrationsApplyOnce, File
  <2> QED
    BY <2>1, <2>2 DEF MigrationsApplyOnce, File
<1> QED
  BY <1>1, <1>3, <1>4, <1>5 DEF MInv

LEMMA LockKeeps ==
    ASSUME MInv, NEW r \in Replicas, Lock(r) PROVE MInv'
<1> DEFINE new == [replica[r] EXCEPT !.at = "locked"]
<1>1. new \in ReplicaStates /\ new.at = "locked" /\ new.next = replica[r].next
  BY DEF MInv, ReplicaShapes, ReplicaStates
<1>2. replica' = [replica EXCEPT ![r] = new] /\ UNCHANGED migrated
  BY DEF Lock
<1>3. locked = {} /\ locked' = locked \cup {r} /\ replica[r].next = 1
  BY DEF Lock, MayLock, MInv, BeginsAtFirst
<1> HIDE DEF new
<1> QED
  BY <1>1, <1>2, <1>3, ReplicaStepKeeps

LEMMA LoadKeeps ==
    ASSUME MInv, NEW r \in Replicas, LoadApplied(r) PROVE MInv'
<1> DEFINE new == [replica[r] EXCEPT !.at = "applying", !.found = ToSet(migrated)]
<1>1. new \in ReplicaStates /\ new.at = "applying" /\ new.next = replica[r].next
      /\ new.found = ToSet(migrated)
  BY Applied, ZenonT(30) DEF MInv, ReplicaShapes, ReplicaStates
<1>2. replica' = [replica EXCEPT ![r] = new] /\ UNCHANGED <<migrated, locked>>
  BY DEF LoadApplied
<1>3. replica[r].next = 1 /\ r \in locked
  BY DEF LoadApplied, MInv, BeginsAtFirst, LockHeld
<1> HIDE DEF new
<1>4. new.next <= Len(FilesOf[r]) + 1 /\ new.next - 1 = 0 /\ 1 .. 0 = {}
  BY <1>1, <1>3, FilesLoaded
<1> QED
  BY <1>1, <1>2, <1>3, <1>4, ReplicaStepKeeps

LEMMA SkipKeeps ==
    ASSUME MInv, NEW r \in Replicas, Skip(r) PROVE MInv'
<1> DEFINE new == [replica[r] EXCEPT !.next = @ + 1]
<1>0. replica[r] \in ReplicaStates /\ replica[r].at = "applying"
      /\ replica[r].next \in 1 .. Len(FilesOf[r]) /\ File(r) \in replica[r].found
  BY FilesLoaded DEF Skip, MInv, ReplicaShapes, ReplicaStates
<1>1. new \in ReplicaStates /\ new.at = "applying" /\ new.next = replica[r].next + 1
      /\ new.found = replica[r].found
  BY <1>0 DEF ReplicaStates
<1>2. replica' = [replica EXCEPT ![r] = new] /\ UNCHANGED <<migrated, locked>>
  BY DEF Skip
<1>3. r \in locked
  BY <1>0 DEF MInv, LockHeld
<1> HIDE DEF new
<1>4. /\ new.next <= Len(FilesOf[r]) + 1
      /\ new.found \subseteq ToSet(migrated)
      /\ \A i \in 1 .. new.next - 1 : FilesOf[r][i] \in ToSet(migrated)
      /\ \A x \in ToSet(migrated) :
            x \in new.found \/ \E i \in 1 .. new.next - 1 : x = FilesOf[r][i]
  <2>1. \A i \in 1 .. new.next - 1 : i = replica[r].next \/ i \in 1 .. replica[r].next - 1
    BY <1>0, <1>1, FilesLoaded
  <2>2. 1 .. replica[r].next - 1 \subseteq 1 .. new.next - 1
    BY <1>0, <1>1, FilesLoaded
  <2> QED
    BY <1>0, <1>1, <2>1, <2>2, FilesLoaded, SMTT(20) DEF MInv, KnowsWhatIsApplied, File
<1> QED
  BY <1>1, <1>2, <1>3, <1>4, ReplicaStepKeeps

LEMMA DriftKeeps ==
    ASSUME MInv, NEW r \in Replicas, Drift(r) PROVE MInv'
<1> DEFINE new == [replica[r] EXCEPT !.at = "drifted"]
<1>1. new \in ReplicaStates /\ new.at = "drifted" /\ new.next = replica[r].next
  BY DEF MInv, ReplicaShapes, ReplicaStates
<1>2. replica' = [replica EXCEPT ![r] = new] /\ UNCHANGED migrated /\ locked' = locked \ {r}
  BY DEF Drift, Ends
<1>3. \E i \in DOMAIN migrated : migrated[i][1] = File(r)[1] /\ migrated[i] # File(r)
  <2>1. PICK x \in replica[r].found : x[1] = File(r)[1] /\ x # File(r)
    BY DEF Drift, Versions
  <2>2. x \in ToSet(migrated)
    BY <2>1 DEF Drift, MInv, KnowsWhatIsApplied
  <2> QED
    BY <2>1, <2>2, Applied DEF MInv
<1>4. File(r) = FilesOf[r][new.next]
  BY <1>1 DEF File
<1> HIDE DEF new
<1> QED
  BY <1>1, <1>2, <1>3, <1>4, ReplicaStepKeeps

LEMMA UpEndsKeeps ==
    ASSUME MInv, NEW r \in Replicas, UpEnds(r) PROVE MInv'
<1> DEFINE new == [replica[r] EXCEPT !.at = "done"]
<1>1. new \in ReplicaStates /\ new.at = "done"
  BY DEF MInv, ReplicaShapes, ReplicaStates
<1>2. replica' = [replica EXCEPT ![r] = new] /\ UNCHANGED migrated /\ locked' = locked \ {r}
  BY DEF UpEnds, Ends
<1>3. ToSet(FilesOf[r]) \subseteq ToSet(migrated)
  <2>1. replica[r].next \in Nat /\ replica[r].next > Len(FilesOf[r])
    BY DEF UpEnds, MInv, ReplicaShapes, ReplicaStates
  <2>2. 1 .. Len(FilesOf[r]) \subseteq 1 .. replica[r].next - 1
    BY <2>1, FilesLoaded
  <2>3. \A i \in 1 .. Len(FilesOf[r]) : FilesOf[r][i] \in ToSet(migrated)
    BY <2>2 DEF UpEnds, MInv, KnowsWhatIsApplied
  <2>4. ToSet(FilesOf[r]) = {FilesOf[r][i] : i \in 1 .. Len(FilesOf[r])}
    BY FilesLoaded DEF ToSet
  <2> QED
    BY <2>3, <2>4
<1> HIDE DEF new
<1> QED
  BY <1>1, <1>2, <1>3, ReplicaStepKeeps

LEMMA FailKeeps ==
    ASSUME MInv, NEW r \in Replicas, MigrateFails(r) PROVE MInv'
<1>0. r \in locked /\ UNCHANGED migrated /\ locked' = locked \ {r}
  BY DEF MigrateFails
<1>1. CASE replica' = [replica EXCEPT ![r] = NotStarted]
  <2>1. NotStarted \in ReplicaStates /\ NotStarted.at = "waiting" /\ NotStarted.next = 1
    BY DEF NotStarted, ReplicaStates
  <2> QED
    BY <1>0, <1>1, <2>1, ReplicaStepKeeps
<1>2. CASE replica' = [replica EXCEPT ![r].at = "failed", ![r].hit = TRUE]
  <2> DEFINE new == [replica[r] EXCEPT !.at = "failed", !.hit = TRUE]
  <2>1. new \in ReplicaStates /\ new.at = "failed" /\ new.hit
    BY DEF MInv, ReplicaShapes, ReplicaStates
  <2>2. replica' = [replica EXCEPT ![r] = new]
    BY <1>2
  <2> HIDE DEF new
  <2> QED
    BY <1>0, <2>1, <2>2, ReplicaStepKeeps
<1> QED
  BY <1>1, <1>2 DEF MigrateFails

\* The file's version is not applied by anybody else since the replica looked.
LEMMA VersionIsNew ==
    ASSUME MInv, NEW r \in Replicas, ApplyOne(r)
    PROVE  File(r)[1] \notin Versions(ToSet(migrated))
<1>1. replica[r].at = "applying" /\ replica[r].next \in 1 .. Len(FilesOf[r])
      /\ File(r)[1] \notin Versions(replica[r].found)
  BY FilesLoaded DEF ApplyOne, MInv, ReplicaShapes, ReplicaStates
<1> SUFFICES ASSUME NEW x \in ToSet(migrated), x[1] = File(r)[1] PROVE FALSE
  BY DEF Versions
<1>2. x \notin replica[r].found
  BY <1>1 DEF Versions
<1>3. PICK i \in 1 .. replica[r].next - 1 : x = FilesOf[r][i]
  BY <1>1, <1>2 DEF MInv, KnowsWhatIsApplied
<1>4. i \in 1 .. Len(FilesOf[r]) /\ i < replica[r].next
  BY <1>1, <1>3, FilesLoaded
<1>5. FilesOf[r][i][1] < FilesOf[r][replica[r].next][1]
  BY <1>1, <1>4, FilesLoaded
<1>6. FilesOf[r][i][1] \in Nat /\ FilesOf[r][replica[r].next][1] \in Nat
  BY <1>1, <1>4, FilesLoaded DEF Files
<1> QED
  BY <1>3, <1>5, <1>6 DEF File

LEMMA ApplyKeeps ==
    ASSUME MInv, NEW r \in Replicas, ApplyOne(r) PROVE MInv'
<1> DEFINE f == File(r)
           new == [replica[r] EXCEPT !.next = @ + 1]
<1>0. replica[r] \in ReplicaStates /\ replica[r].at = "applying"
      /\ replica[r].next \in 1 .. Len(FilesOf[r])
  BY FilesLoaded DEF ApplyOne, MInv, ReplicaShapes, ReplicaStates
<1>1. new \in ReplicaStates /\ new.at = "applying" /\ new.next = replica[r].next + 1
      /\ new.found = replica[r].found
  BY <1>0 DEF ReplicaStates
<1>2. /\ migrated' = Append(migrated, f) /\ UNCHANGED locked
      /\ replica' = [replica EXCEPT ![r] = new]
  BY VersionIsNew DEF ApplyOne
<1>3. f \in Files /\ f = FilesOf[r][replica[r].next]
  BY <1>0, FilesLoaded DEF File
<1>4. \A x \in ToSet(migrated) : x[1] # f[1]
  BY VersionIsNew DEF Versions
<1> HIDE DEF f, new
<1>5. /\ migrated' \in Seq(Files) /\ Len(migrated) \in Nat
      /\ DOMAIN migrated = 1 .. Len(migrated) /\ DOMAIN migrated' = 1 .. Len(migrated) + 1
      /\ \A i \in DOMAIN migrated : migrated'[i] = migrated[i]
      /\ migrated'[Len(migrated) + 1] = f
  BY <1>2, <1>3 DEF MInv, ReplicaShapes
<1>6. ToSet(migrated') = ToSet(migrated) \cup {f}
  BY <1>5 DEF ToSet
<1>7. \A q \in Replicas : replica'[q] = IF q = r THEN new ELSE replica[q]
  BY <1>2 DEF MInv, ReplicaShapes
<1>8. ReplicaShapes' /\ LockHeld' /\ BeginsAtFirst'
  BY <1>0, <1>1, <1>2, <1>5, <1>7 DEF MInv, ReplicaShapes, LockHeld, BeginsAtFirst
<1>9. KnowsWhatIsApplied'
  <2> SUFFICES ASSUME NEW q \in Replicas, replica'[q].at = "applying"
               PROVE  /\ replica'[q].next <= Len(FilesOf[q]) + 1
                      /\ replica'[q].found \subseteq ToSet(migrated')
                      /\ \A i \in 1 .. replica'[q].next - 1 : FilesOf[q][i] \in ToSet(migrated')
                      /\ \A x \in ToSet(migrated') : x \in replica'[q].found
                            \/ \E i \in 1 .. replica'[q].next - 1 : x = FilesOf[q][i]
    BY DEF KnowsWhatIsApplied
  <2>1. q = r
    <3>1. q \in locked' /\ r \in locked'
      BY <1>1, <1>7, <1>8 DEF LockHeld
    <3> QED
      BY <1>8, <3>1 DEF LockHeld
  <2>2. replica'[q] = new /\ new.next - 1 = replica[r].next
    BY <1>0, <1>1, <1>7, <2>1 DEF ReplicaStates
  <2>3. \A i \in 1 .. replica[r].next : i = replica[r].next \/ i \in 1 .. replica[r].next - 1
    BY <1>0, FilesLoaded
  <2>4. 1 .. replica[r].next - 1 \subseteq 1 .. replica[r].next /\ replica[r].next \in 1 .. replica[r].next
    BY <1>0, FilesLoaded
  <2>5. replica[r].next + 1 <= Len(FilesOf[r]) + 1
    BY <1>0, FilesLoaded
  <2>6. \A i \in 1 .. replica[r].next : FilesOf[r][i] \in ToSet(migrated')
    BY <1>0, <1>3, <1>6, <2>3 DEF MInv, KnowsWhatIsApplied
  <2>7. \A x \in ToSet(migrated') : x \in new.found \/ \E i \in 1 .. replica[r].next : x = FilesOf[r][i]
    BY <1>0, <1>1, <1>3, <1>6, <2>4 DEF MInv, KnowsWhatIsApplied
  <2>8. new.found \subseteq ToSet(migrated')
    BY <1>0, <1>1, <1>6 DEF MInv, KnowsWhatIsApplied
  <2> QED
    BY <1>1, <2>1, <2>2, <2>5, <2>6, <2>7, <2>8
<1>10. MigrationsApplyOnce'
  <2>1. \A i, j \in DOMAIN migrated' : migrated'[i][1] = migrated'[j][1] => i = j
    <3>1. \A i \in DOMAIN migrated : migrated'[i] \in ToSet(migrated)
      BY <1>5 DEF ToSet
    <3>2. \A i \in DOMAIN migrated' : i \in DOMAIN migrated \/ i = Len(migrated) + 1
      BY <1>5
    <3> QED
      BY <1>4, <1>5, <3>1, <3>2 DEF MInv, MigrationsApplyOnce
  <2>2. ASSUME NEW i \in DOMAIN migrated'
        PROVE  \E q \in Replicas : \E n \in DOMAIN FilesOf[q] :
                 /\ FilesOf[q][n] = migrated'[i]
                 /\ \A m \in 1 .. n - 1 : \E j \in 1 .. i - 1 : migrated'[j] = FilesOf[q][m]
    <3>1. CASE i \in DOMAIN migrated
      <4>1. PICK q \in Replicas : \E n \in DOMAIN FilesOf[q] :
               /\ FilesOf[q][n] = migrated[i]
               /\ \A m \in 1 .. n - 1 : \E j \in 1 .. i - 1 : migrated[j] = FilesOf[q][m]
        BY <3>1 DEF MInv, MigrationsApplyOnce
      <4>2. \A j \in 1 .. i - 1 : migrated'[j] = migrated[j]
        BY <1>5, <3>1
      <4> QED
        BY <1>5, <3>1, <4>1, <4>2
    <3>2. CASE i = Len(migrated) + 1
      <4>1. replica[r].next \in DOMAIN FilesOf[r] /\ FilesOf[r][replica[r].next] = migrated'[i]
        BY <1>0, <1>3, <1>5, <3>2, FilesLoaded
      <4>2. \A m \in 1 .. replica[r].next - 1 : FilesOf[r][m] \in ToSet(migrated)
        BY <1>0 DEF MInv, KnowsWhatIsApplied
      <4>3. \A m \in 1 .. replica[r].next - 1 : \E j \in 1 .. Len(migrated) : migrated[j] = FilesOf[r][m]
        BY <4>2, Applied DEF MInv
      <4>4. 1 .. i - 1 = 1 .. Len(migrated)
        BY <1>5, <3>2
      <4>5. \A m \in 1 .. replica[r].next - 1 : \E j \in 1 .. i - 1 : migrated'[j] = FilesOf[r][m]
        BY <1>5, <4>3, <4>4
      <4> QED
        BY <4>1, <4>5
    <3> QED
      BY <1>5, <3>1, <3>2
  <2>3. ASSUME NEW q \in Replicas
        PROVE  /\ replica'[q].at = "done" => ToSet(FilesOf[q]) \subseteq ToSet(migrated')
               /\ replica'[q].at = "failed" => replica'[q].hit
               /\ replica'[q].at = "drifted" => \E i \in DOMAIN migrated' :
                     migrated'[i][1] = FilesOf[q][replica'[q].next][1]
                     /\ migrated'[i] # FilesOf[q][replica'[q].next]
    <3>1. CASE q = r
      BY <1>1, <1>7, <3>1
    <3>2. CASE q # r
      <4>1. replica'[q] = replica[q]
        BY <1>7, <3>2
      <4>2. replica[q].at = "drifted" => \E i \in DOMAIN migrated :
               migrated[i][1] = FilesOf[q][replica[q].next][1]
               /\ migrated[i] # FilesOf[q][replica[q].next]
        BY DEF MInv, MigrationsApplyOnce, File
      <4>3. \A i \in DOMAIN migrated : i \in DOMAIN migrated'
        BY <1>5
      <4> QED
        BY <1>5, <1>6, <4>1, <4>2, <4>3 DEF MInv, MigrationsApplyOnce
    <3> QED
      BY <3>1, <3>2
  <2> QED
    BY <2>1, <2>2, <2>3 DEF MigrationsApplyOnce, File
<1> QED
  BY <1>8, <1>9, <1>10 DEF MInv

\* Migrations are applied exactly once, in order, by any replicas that start together,
\* die and start again, whatever files they carry (Up, under its advisory lock).
THEOREM MigrationsAppliedOnce == MigrateSpec => []MigrationsApplyOnce
<1>1. MInv /\ [MigrateNext]_migrateVars => MInv'
  <2> SUFFICES ASSUME MInv, [MigrateNext]_migrateVars PROVE MInv'
    OBVIOUS
  <2>1. CASE UNCHANGED migrateVars
    BY <2>1 DEF migrateVars, MInv, ReplicaShapes, LockHeld, BeginsAtFirst, KnowsWhatIsApplied,
       MigrationsApplyOnce, File
  <2> QED
    BY <2>1, LockKeeps, LoadKeeps, SkipKeeps, DriftKeeps, ApplyKeeps, UpEndsKeeps, FailKeeps
       DEF MigrateNext, MigrateStep
<1>2. MInv => MigrationsApplyOnce
  BY DEF MInv
<1> QED
  BY <1>1, <1>2, MigrationsBegin, PTL DEF MigrateSpec

-----------------------------------------------------------------------------
(***************************************************************************)
(* What holds of Registers for any captures and any documents.             *)
(*                                                                         *)
(* That numbers follow one another and the chain verifies rests on the     *)
(* locks: what a transaction took follows what is committed for as long as *)
(* nobody else can take the same.                                          *)
(***************************************************************************)

\* What a transaction holds is its own: the numbers it took follow the committed ones, and
\* its entry follows the committed chain.
Fits(c) ==
    /\ DOMAIN capture[c] = {"at", "numbers", "entry", "reruns"}
    /\ capture[c].numbers \in Seq(Nat)
    /\ Len(capture[c].numbers) <= Len(DocumentsOf[c])
    /\ capture[c].at = "new" => capture[c].numbers = <<>>
    /\ capture[c].at \in {"new", "open"} => capture[c].entry = {}

EntryFits(c) ==
    \A e \in capture[c].entry :
        /\ capture[c].entry = {e}
        /\ e.pos \in Nat /\ e.pos <= position
        /\ \A f \in chain : f.pos < e.pos
        /\ e.prev = Max({0} \cup {f.pos : f \in chain})

NumbersFollow(c) ==
    \A k \in Kinds :
        /\ {capture[c].numbers[i] : i \in Issued(c, k)}
              = series[k] + 1 .. series[k] + Cardinality(Issued(c, k))
        /\ \A i, j \in Issued(c, k) : capture[c].numbers[i] = capture[c].numbers[j] => i = j

RegisterShapes ==
    /\ DOMAIN capture = Captures
    /\ series \in [Kinds -> Nat]
    /\ position \in Nat
    /\ \A e \in chain : e.pos \in Nat /\ e.pos <= position

HeldAlone ==
    \A lock \in Kinds \cup {"chain"} : \A c, d \in Captures : Holds(c, lock) /\ Holds(d, lock) => c = d

DocumentsWhole ==
    \A k \in Kinds :
        /\ NumbersOf(k) = 1 .. series[k]
        /\ \A i, j \in invoices : i.kind = k /\ j.kind = k /\ i.number = j.number => i = j

ChainVerifies == \A e \in chain : Verified(e)

RInv ==
    /\ RegisterShapes /\ HeldAlone /\ DocumentsWhole /\ ChainVerifies
    /\ \A c \in Captures : Fits(c) /\ EntryFits(c) /\ NumbersFollow(c)

----------------------------------------------------------------------------
LEMMA IssuedFinite ==
    ASSUME NEW c \in Captures, Fits(c), NEW k
    PROVE  /\ Issued(c, k) \subseteq 1 .. Len(capture[c].numbers)
           /\ IsFiniteSet(Issued(c, k)) /\ Cardinality(Issued(c, k)) \in Nat
           /\ Cardinality(Issued(c, k)) = 0 <=> Issued(c, k) = {}
<1>1. Issued(c, k) \subseteq 1 .. Len(capture[c].numbers) /\ Len(capture[c].numbers) \in Nat
  BY DEF Issued, Fits
<1>2. IsFiniteSet(1 .. Len(capture[c].numbers))
  BY <1>1, FS_Interval
<1>3. IsFiniteSet(Issued(c, k))
  BY <1>1, <1>2, FS_Subset
<1> QED
  BY <1>1, <1>3, FS_CardinalityType, FS_EmptySet

\* A transaction that has taken nothing fits.
LEMMA NothingFits ==
    ASSUME NEW c \in Captures, series \in [Kinds -> Nat],
           capture[c].numbers = <<>>, capture[c].entry = {}
    PROVE  /\ EntryFits(c) /\ NumbersFollow(c)
           /\ \A k : Issued(c, k) = {}
           /\ \A lock \in Kinds \cup {"chain"} : ~Holds(c, lock)
<1>1. \A k : Issued(c, k) = {}
  BY DEF Issued
<1>2. NumbersFollow(c)
  <2> SUFFICES ASSUME NEW k \in Kinds
               PROVE  {} = series[k] + 1 .. series[k] + 0
    BY <1>1, FS_EmptySet DEF NumbersFollow
  <2> series[k] \in Nat
    OBVIOUS
  <2> QED
    OBVIOUS
<1> QED
  BY <1>1, <1>2 DEF EntryFits, Holds

\* What others hold is untouched.
LEMMA OthersStay ==
    ASSUME NEW d, UNCHANGED capture[d]
    PROVE  /\ \A k : Issued(d, k)' = Issued(d, k)
           /\ \A lock : Holds(d, lock)' <=> Holds(d, lock)
           /\ Fits(d)' <=> Fits(d)
<1>1. \A k : Issued(d, k)' = Issued(d, k)
  BY DEF Issued
<1> QED
  BY <1>1 DEF Holds, Fits

LEMMA RegistersBegin == RegisterInit => RInv
<1> SUFFICES ASSUME RegisterInit PROVE RInv
  OBVIOUS
<1>1. RegisterShapes
  BY DEF RegisterInit, RegisterShapes
<1>2. ASSUME NEW c \in Captures PROVE Fits(c) /\ EntryFits(c) /\ NumbersFollow(c) /\ ~Holds(c, "chain") /\ \A k \in Kinds : ~Holds(c, k)
  <2>1. capture[c] = [at |-> "new", numbers |-> <<>>, entry |-> {}, reruns |-> 0]
    BY DEF RegisterInit, NotCaptured
  <2>2. <<>> \in Seq(Nat) /\ Len(<<>>) = 0 /\ Len(DocumentsOf[c]) \in Nat
    BY RegisterDocuments
  <2>3. Fits(c)
    BY <2>1, <2>2 DEF Fits
  <2> QED
    BY <1>1, <2>1, <2>3, NothingFits DEF RegisterShapes
<1>3. DocumentsWhole
  <2>1. \A k \in Kinds : NumbersOf(k) = {} /\ series[k] = 0
    BY DEF RegisterInit, NumbersOf
  <2> QED
    BY <2>1 DEF RegisterInit, DocumentsWhole
<1> QED
  BY <1>1, <1>2, <1>3 DEF RInv, HeldAlone, ChainVerifies, RegisterInit

\* The state of a transaction that has written nothing.
Empty(x) == DOMAIN x = {"at", "numbers", "entry", "reruns"} /\ x.numbers = <<>> /\ x.entry = {}

\* A transaction begins, or gives up all that it holds.
LEMMA EmptyHanded ==
    ASSUME RInv, NEW c \in Captures, UNCHANGED <<series, invoices, chain, position>>,
           DOMAIN capture' = Captures, \A d \in Captures : d # c => capture'[d] = capture[d],
           DOMAIN capture'[c] = {"at", "numbers", "entry", "reruns"},
           capture'[c].numbers = <<>>, capture'[c].entry = {}
    PROVE  RInv'
<1>1. RegisterShapes'
  BY DEF RInv, RegisterShapes
<1>2. Fits(c)'
  <2>1. <<>> \in Seq(Nat) /\ Len(<<>>) = 0 /\ Len(DocumentsOf[c]) \in Nat
    BY RegisterDocuments
  <2> QED
    BY <2>1 DEF Fits
<1>3. (EntryFits(c) /\ NumbersFollow(c))' /\ \A lock \in Kinds \cup {"chain"} : ~Holds(c, lock)'
  <2>1. \A k : Issued(c, k)' = {}
    BY DEF Issued
  <2>2. ASSUME NEW k \in Kinds
        PROVE  {} = series'[k] + 1 .. series'[k] + 0
    <3> series'[k] \in Nat
      BY <1>1 DEF RegisterShapes
    <3> QED
      OBVIOUS
  <2>3. NumbersFollow(c)'
    BY <2>1, <2>2, FS_EmptySet DEF NumbersFollow
  <2> QED
    BY <2>1, <2>3 DEF EntryFits, Holds
<1>4. ASSUME NEW d \in Captures, d # c
      PROVE  (Fits(d) /\ EntryFits(d) /\ NumbersFollow(d))' /\ \A lock : Holds(d, lock)' <=> Holds(d, lock)
  <2>1. capture'[d] = capture[d]
    BY <1>4
  <2>2. (\A k : Issued(d, k)' = Issued(d, k)) /\ (\A lock : Holds(d, lock)' <=> Holds(d, lock)) /\ Fits(d)'
    BY <2>1, OthersStay DEF RInv
  <2>3. EntryFits(d)'
    BY <2>1 DEF RInv, EntryFits
  <2>4. NumbersFollow(d)'
    BY <2>1, <2>2 DEF RInv, NumbersFollow
  <2> QED
    BY <2>2, <2>3, <2>4
<1>5. HeldAlone'
  BY <1>3, <1>4 DEF RInv, HeldAlone
<1>6. DocumentsWhole' /\ ChainVerifies'
  BY DEF RInv, DocumentsWhole, NumbersOf, ChainVerifies, Verified
<1> QED
  BY <1>1, <1>2, <1>3, <1>4, <1>5, <1>6 DEF RInv

\* What a waiting transaction asks for.
LEMMA WantsOneOf ==
    ASSUME NEW c \in Captures, Wants(c) \in Kinds \cup {"chain"}, Fits(c)
    PROVE  /\ capture[c].at = "open" /\ capture[c].entry = {}
           /\ Wants(c) \in Kinds =>
                 /\ Len(capture[c].numbers) + 1 <= Len(DocumentsOf[c])
                 /\ Wants(c) = DocumentsOf[c][Len(capture[c].numbers) + 1]
<1>1. capture[c].at = "open"
  BY DEF Wants, Kinds
<1>2. Len(capture[c].numbers) \in Nat /\ Len(DocumentsOf[c]) \in Nat
  BY RegisterDocuments DEF Fits
<1> QED
  BY <1>1, <1>2 DEF Wants, Kinds, Fits

LEMMA NextNumberKeeps ==
    ASSUME RInv, NEW c \in Captures, NextNumber(c)
    PROVE  RInv'
<1> PICK k : k = Wants(c)
  OBVIOUS
<1>0. Fits(c) /\ RegisterShapes /\ k \in Kinds
  BY DEF RInv, NextNumber
<1>1. UNCHANGED <<series, invoices, chain, position, rollbacks>>
  BY DEF NextNumber
<1>2. PICK l, n : l = Len(capture[c].numbers) + 1 /\ n = series[k] + Cardinality(Issued(c, k)) + 1
  OBVIOUS
<1>3. series[k] \in Nat /\ Cardinality(Issued(c, k)) \in Nat /\ l \in Nat /\ n \in Nat
  BY <1>0, <1>2, IssuedFinite, SMTT(20) DEF RegisterShapes, Fits
<1>4. capture' = [capture EXCEPT ![c].numbers = Append(@, n)]
  BY <1>2 DEF NextNumber
<1>5. /\ capture[c].at = "open" /\ capture[c].entry = {}
      /\ l <= Len(DocumentsOf[c]) /\ k = DocumentsOf[c][l]
  BY <1>0, <1>2, WantsOneOf
<1>6. /\ DOMAIN capture' = Captures /\ DOMAIN capture'[c] = {"at", "numbers", "entry", "reruns"}
      /\ capture'[c].at = "open" /\ capture'[c].entry = {}
      /\ capture'[c].numbers = Append(capture[c].numbers, n)
      /\ \A d \in Captures : d # c => capture'[d] = capture[d]
  BY <1>0, <1>4, <1>5 DEF RegisterShapes, Fits
<1>7. /\ capture'[c].numbers \in Seq(Nat) /\ Len(capture'[c].numbers) = l
      /\ DOMAIN capture'[c].numbers = DOMAIN capture[c].numbers \cup {l}
      /\ l \notin DOMAIN capture[c].numbers
      /\ capture'[c].numbers[l] = n
      /\ \A i \in DOMAIN capture[c].numbers : capture'[c].numbers[i] = capture[c].numbers[i]
  <2>1. PICK s : s = capture[c].numbers
    OBVIOUS
  <2>2. s \in Seq(Nat) /\ l = Len(s) + 1 /\ capture'[c].numbers = Append(s, n)
    BY <1>0, <1>2, <1>6, <2>1 DEF Fits
  <2>3. /\ Append(s, n) \in Seq(Nat) /\ Len(Append(s, n)) = l
        /\ DOMAIN s = 1 .. Len(s) /\ Len(s) \in Nat /\ DOMAIN Append(s, n) = 1 .. l
    BY <1>3, <2>2
  <2>4. Append(s, n)[l] = n /\ \A i \in DOMAIN s : Append(s, n)[i] = s[i]
    BY <1>3, <2>2, <2>3
  <2>5. 1 .. l = (1 .. Len(s)) \cup {l} /\ l \notin 1 .. Len(s)
    BY <2>2, <2>3
  <2> QED
    BY <2>1, <2>2, <2>3, <2>4, <2>5
<1>8. Issued(c, k)' = Issued(c, k) \cup {l} /\ l \notin Issued(c, k)
  BY <1>5, <1>7 DEF Issued
<1>9. \A j : j # k => Issued(c, j)' = Issued(c, j)
  BY <1>5, <1>7 DEF Issued
<1>10. Cardinality(Issued(c, k)') = Cardinality(Issued(c, k)) + 1
  BY <1>0, <1>8, IssuedFinite, FS_AddElement, ZenonT(30)
<1>11. Fits(c)'
  BY <1>5, <1>6, <1>7 DEF Fits
<1>12. EntryFits(c)'
  BY <1>6 DEF EntryFits
<1>13. \A j : \A i \in Issued(c, j) : capture'[c].numbers[i] = capture[c].numbers[i]
  BY <1>7 DEF Issued
<1>14. NumbersFollow(c)'
  <2> SUFFICES ASSUME NEW j \in Kinds
               PROVE  /\ {capture'[c].numbers[i] : i \in Issued(c, j)'}
                            = series[j] + 1 .. series[j] + Cardinality(Issued(c, j)')
                      /\ \A h, i \in Issued(c, j)' : capture'[c].numbers[h] = capture'[c].numbers[i] => h = i
    BY <1>1 DEF NumbersFollow
  <2>1. /\ {capture[c].numbers[i] : i \in Issued(c, j)}
              = series[j] + 1 .. series[j] + Cardinality(Issued(c, j))
        /\ \A h, i \in Issued(c, j) : capture[c].numbers[h] = capture[c].numbers[i] => h = i
    BY DEF RInv, NumbersFollow
  <2>2. CASE j # k
    BY <1>9, <1>13, <2>1, <2>2
  <2>3. CASE j = k
    <3>1. {capture'[c].numbers[i] : i \in Issued(c, k)'} = {capture[c].numbers[i] : i \in Issued(c, k)} \cup {n}
      BY <1>7, <1>8, <1>13
    <3>2. (series[k] + 1 .. series[k] + Cardinality(Issued(c, k))) \cup {n}
            = series[k] + 1 .. series[k] + (Cardinality(Issued(c, k)) + 1)
      BY <1>2, <1>3
    <3>3. \A i \in Issued(c, k) : capture[c].numbers[i] # n
      <4>1. n \notin series[k] + 1 .. series[k] + Cardinality(Issued(c, k))
        BY <1>2, <1>3
      <4> QED
        BY <2>1, <2>3, <4>1
    <3>4. \A h, i \in Issued(c, k)' : capture'[c].numbers[h] = capture'[c].numbers[i] => h = i
      BY <1>7, <1>8, <1>13, <2>1, <2>3, <3>3
    <3> QED
      BY <1>10, <2>1, <2>3, <3>1, <3>2, <3>4
  <2> QED
    BY <2>2, <2>3
<1>15. ASSUME NEW d \in Captures, d # c
       PROVE  (Fits(d) /\ EntryFits(d) /\ NumbersFollow(d))' /\ \A lock : Holds(d, lock)' <=> Holds(d, lock)
  <2>1. capture'[d] = capture[d]
    BY <1>6, <1>15
  <2>2. (\A j : Issued(d, j)' = Issued(d, j)) /\ (\A lock : Holds(d, lock)' <=> Holds(d, lock)) /\ Fits(d)'
    BY <2>1, OthersStay DEF RInv
  <2>3. EntryFits(d)'
    BY <1>1, <2>1 DEF RInv, EntryFits
  <2>4. NumbersFollow(d)'
    BY <1>1, <2>1, <2>2 DEF RInv, NumbersFollow
  <2> QED
    BY <2>2, <2>3, <2>4
<1>16. HeldAlone'
  <2>1. \A lock : lock # k => (Holds(c, lock)' <=> Holds(c, lock))
    BY <1>5, <1>6, <1>9 DEF Holds
  <2>2. \A d \in Captures : d # c => ~Holds(d, k)
    BY DEF NextNumber, Free
  <2> QED
    BY <1>15, <2>1, <2>2 DEF RInv, HeldAlone
<1>17. RegisterShapes' /\ DocumentsWhole' /\ ChainVerifies'
  BY <1>1, <1>6 DEF RInv, RegisterShapes, DocumentsWhole, NumbersOf, ChainVerifies, Verified
<1> QED
  BY <1>11, <1>12, <1>14, <1>15, <1>16, <1>17 DEF RInv

\* The chain's lock makes the entry the only one that may follow the committed chain.
LEMMA RecordKeeps ==
    ASSUME RInv, NEW c \in Captures, Record(c)
    PROVE  RInv'
<1>0. Fits(c) /\ RegisterShapes /\ Wants(c) = "chain"
  BY DEF RInv, Record
<1>1. UNCHANGED <<series, invoices, chain, rollbacks>> /\ position' = position + 1
  BY DEF Record
<1>2. PICK e : e = [pos |-> position + 1, prev |-> Max({0} \cup {f.pos : f \in chain})]
  OBVIOUS
<1>3. capture' = [capture EXCEPT ![c].at = "recorded", ![c].entry = {e}]
  BY <1>2 DEF Record
<1>4. /\ DOMAIN capture' = Captures /\ DOMAIN capture'[c] = {"at", "numbers", "entry", "reruns"}
      /\ capture'[c].at = "recorded" /\ capture'[c].entry = {e}
      /\ capture'[c].numbers = capture[c].numbers
      /\ \A d \in Captures : d # c => capture'[d] = capture[d]
  BY <1>0, <1>3 DEF RegisterShapes, Fits
<1>5. RegisterShapes'
  BY <1>0, <1>1, <1>4 DEF RegisterShapes
<1>6. Fits(c)'
  BY <1>0, <1>4 DEF Fits
<1>7. EntryFits(c)'
  <2>1. e.pos = position + 1 /\ e.prev = Max({0} \cup {f.pos : f \in chain})
    BY <1>2
  <2>2. e.pos \in Nat /\ e.pos <= position' /\ \A f \in chain : f.pos < e.pos
    BY <1>0, <1>1, <2>1 DEF RegisterShapes
  <2> QED
    BY <1>1, <1>4, <2>1, <2>2 DEF EntryFits
<1>8. \A k : Issued(c, k)' = Issued(c, k)
  BY <1>4 DEF Issued
<1>9. NumbersFollow(c)'
  BY <1>1, <1>4, <1>8 DEF RInv, NumbersFollow
<1>10. ASSUME NEW d \in Captures, d # c
       PROVE  (Fits(d) /\ EntryFits(d) /\ NumbersFollow(d))' /\ \A lock : Holds(d, lock)' <=> Holds(d, lock)
  <2>1. capture'[d] = capture[d]
    BY <1>4, <1>10
  <2>2. (\A j : Issued(d, j)' = Issued(d, j)) /\ (\A lock : Holds(d, lock)' <=> Holds(d, lock)) /\ Fits(d)'
    BY <2>1, OthersStay DEF RInv
  <2>3. EntryFits(d)'
    <3>1. EntryFits(d) /\ \A n \in Nat : n <= position => n <= position'
      BY <1>0, <1>1 DEF RInv, RegisterShapes
    <3> QED
      BY <1>1, <2>1, <3>1 DEF EntryFits
  <2>4. NumbersFollow(d)'
    BY <1>1, <2>1, <2>2 DEF RInv, NumbersFollow
  <2> QED
    BY <2>2, <2>3, <2>4
<1>11. HeldAlone'
  <2>1. \A lock \in Kinds : Holds(c, lock)' <=> Holds(c, lock)
    BY <1>8 DEF Holds, Kinds
  <2>2. \A d \in Captures : d # c => ~Holds(d, "chain")
    BY DEF Record, MayChain, Free
  <2> QED
    BY <1>10, <2>1, <2>2 DEF RInv, HeldAlone
<1>12. DocumentsWhole' /\ ChainVerifies'
  BY <1>1 DEF RInv, DocumentsWhole, NumbersOf, ChainVerifies, Verified
<1> QED
  BY <1>5, <1>6, <1>7, <1>9, <1>10, <1>11, <1>12 DEF RInv

\* Two stretches of numbers make one.
LEMMA StretchesJoin ==
    ASSUME NEW m \in Nat, NEW n \in Nat
    PROVE  (1 .. m) \cup (m + 1 .. m + n) = 1 .. m + n
  OBVIOUS

\* The commit publishes the numbers and the entry, and lets go of what it held.
LEMMA CaptureCommitsKeeps ==
    ASSUME RInv, NEW c \in Captures, CaptureCommits(c)
    PROVE  RInv'
<1>0. Fits(c) /\ RegisterShapes /\ EntryFits(c) /\ NumbersFollow(c)
  BY DEF RInv
<1>1. UNCHANGED <<position, rollbacks>> /\ chain' = chain \cup capture[c].entry
  BY DEF CaptureCommits
<1>2. capture' = [capture EXCEPT ![c] = [NotCaptured EXCEPT !.at = "committed"]]
  BY DEF CaptureCommits
<1>3. series' = [k \in Kinds |-> series[k] + Cardinality(Issued(c, k))]
  BY DEF CaptureCommits
<1>4. PICK new : /\ new = {[kind |-> DocumentsOf[c][i], number |-> capture[c].numbers[i], of |-> <<c, i>>] :
                              i \in DOMAIN capture[c].numbers}
                 /\ invoices' = invoices \cup new
  BY DEF CaptureCommits
<1>5. PICK x : x = [NotCaptured EXCEPT !.at = "committed"] /\ x.at = "committed" /\ Empty(x)
  <2>1. [NotCaptured EXCEPT !.at = "committed"].at = "committed"
    BY DEF NotCaptured
  <2>2. Empty([NotCaptured EXCEPT !.at = "committed"])
    BY DEF NotCaptured, Empty
  <2> QED
    BY <2>1, <2>2
<1>6. /\ DOMAIN capture' = Captures /\ DOMAIN capture'[c] = {"at", "numbers", "entry", "reruns"}
      /\ capture'[c].at = "committed" /\ capture'[c].entry = {} /\ capture'[c].numbers = <<>>
      /\ \A d \in Captures : d # c => capture'[d] = capture[d]
  BY <1>0, <1>2, <1>5 DEF RegisterShapes, Empty
<1>7. \A k \in Kinds : Cardinality(Issued(c, k)) \in Nat /\ series[k] \in Nat /\ series'[k] = series[k] + Cardinality(Issued(c, k))
  BY <1>0, <1>3, IssuedFinite DEF RegisterShapes
<1>8. series' \in [Kinds -> Nat]
  BY <1>3, <1>7
<1>9. RegisterShapes'
  BY <1>0, <1>1, <1>6, <1>8 DEF RegisterShapes, EntryFits
<1>10. Fits(c)'
  <2>1. <<>> \in Seq(Nat) /\ Len(<<>>) = 0 /\ Len(DocumentsOf[c]) \in Nat
    BY RegisterDocuments
  <2> QED
    BY <1>6, <2>1 DEF Fits
<1>11. (EntryFits(c) /\ NumbersFollow(c))' /\ \A lock \in Kinds \cup {"chain"} : ~Holds(c, lock)'
  <2>1. \A k : Issued(c, k)' = {}
    BY <1>6 DEF Issued
  <2>2. ASSUME NEW k \in Kinds
        PROVE  {} = series'[k] + 1 .. series'[k] + 0
    <3> series'[k] \in Nat
      BY <1>8
    <3> QED
      OBVIOUS
  <2>3. NumbersFollow(c)'
    BY <2>1, <2>2, FS_EmptySet DEF NumbersFollow
  <2> QED
    BY <1>6, <2>1, <2>3 DEF EntryFits, Holds
<1>12. ASSUME NEW d \in Captures, d # c
       PROVE  (Fits(d) /\ EntryFits(d) /\ NumbersFollow(d))' /\ \A lock : Holds(d, lock)' <=> Holds(d, lock)
  <2>1. capture'[d] = capture[d]
    BY <1>6, <1>12
  <2>2. (\A j : Issued(d, j)' = Issued(d, j)) /\ (\A lock : Holds(d, lock)' <=> Holds(d, lock)) /\ Fits(d)'
    BY <2>1, OthersStay DEF RInv
  <2>3. EntryFits(d)'
    <3>1. CASE capture[c].entry = {}
      BY <1>1, <2>1, <3>1 DEF RInv, EntryFits
    <3>2. CASE capture[c].entry # {}
      <4>1. capture[d].entry = {}
        BY <1>12, <3>2 DEF RInv, HeldAlone, Holds
      <4> QED
        BY <2>1, <4>1 DEF EntryFits
    <3> QED
      BY <3>1, <3>2
  <2>4. NumbersFollow(d)'
    <3> SUFFICES ASSUME NEW k \in Kinds
                 PROVE  /\ {capture[d].numbers[i] : i \in Issued(d, k)}
                              = series'[k] + 1 .. series'[k] + Cardinality(Issued(d, k))
                        /\ \A i, j \in Issued(d, k) : capture[d].numbers[i] = capture[d].numbers[j] => i = j
      BY <2>1, <2>2 DEF NumbersFollow
    <3>1. /\ {capture[d].numbers[i] : i \in Issued(d, k)}
                 = series[k] + 1 .. series[k] + Cardinality(Issued(d, k))
          /\ \A i, j \in Issued(d, k) : capture[d].numbers[i] = capture[d].numbers[j] => i = j
      BY DEF RInv, NumbersFollow
    <3>2. CASE Issued(c, k) = {}
      <4>1. series'[k] = series[k]
        <5>1. Cardinality(Issued(c, k)) = 0
          BY <3>2, FS_EmptySet
        <5> QED
          BY <1>7, <5>1
      <4> QED
        BY <3>1, <4>1
    <3>3. CASE Issued(c, k) # {}
      <4>1. Issued(d, k) = {}
        BY <1>12, <3>3 DEF RInv, HeldAlone, Holds, Kinds
      <4>2. {} = series'[k] + 1 .. series'[k] + 0
        BY <1>8
      <4> QED
        BY <4>1, <4>2, FS_EmptySet
    <3> QED
      BY <3>2, <3>3
  <2> QED
    BY <2>2, <2>3, <2>4
<1>13. HeldAlone'
  BY <1>11, <1>12 DEF RInv, HeldAlone
<1>14. ChainVerifies'
  <2> SUFFICES ASSUME NEW e \in chain'
               PROVE  e.prev = Max({0} \cup {f.pos : f \in {g \in chain' : g.pos < e.pos}})
    BY DEF ChainVerifies, Verified
  <2>0. /\ \A f \in chain : f.pos \in Nat
        /\ \A g \in capture[c].entry : \A f \in chain : f.pos < g.pos /\ ~ (g.pos < f.pos)
        /\ \A g, h \in capture[c].entry : g = h /\ ~ (h.pos < g.pos)
    <3>1. \A f \in chain : f.pos \in Nat
      BY <1>0 DEF RegisterShapes
    <3>2. \A g \in capture[c].entry : g.pos \in Nat /\ \A f \in chain : f.pos < g.pos
      BY <1>0 DEF EntryFits
    <3>3. \A g, h \in capture[c].entry : g = h
      BY <1>0 DEF EntryFits
    <3> QED
      BY <3>1, <3>2, <3>3
  <2>1. CASE e \in chain
    <3>1. {g \in chain' : g.pos < e.pos} = {g \in chain : g.pos < e.pos}
      BY <1>1, <2>0, <2>1
    <3> QED
      BY <2>1, <3>1 DEF RInv, ChainVerifies, Verified
  <2>2. CASE e \in capture[c].entry
    <3>1. {g \in chain' : g.pos < e.pos} = chain
      BY <1>1, <2>0, <2>2
    <3> QED
      BY <1>0, <2>2, <3>1 DEF EntryFits
  <2> QED
    BY <1>1, <2>1, <2>2
<1>15. DocumentsWhole'
  <2> SUFFICES ASSUME NEW k \in Kinds
               PROVE  /\ NumbersOf(k)' = 1 .. series'[k]
                      /\ \A i, j \in invoices' : i.kind = k /\ j.kind = k /\ i.number = j.number => i = j
    BY DEF DocumentsWhole
  <2>1. PICK mine : mine = {capture[c].numbers[i] : i \in Issued(c, k)}
    OBVIOUS
  <2>2. mine = series[k] + 1 .. series[k] + Cardinality(Issued(c, k))
    BY <1>0, <2>1 DEF NumbersFollow
  <2>3. NumbersOf(k) = 1 .. series[k]
    BY DEF RInv, DocumentsWhole
  <2>4. {d.number : d \in {i \in new : i.kind = k}} = mine
    <3>1. \A d \in new : \E i \in DOMAIN capture[c].numbers : d.kind = DocumentsOf[c][i] /\ d.number = capture[c].numbers[i]
      BY <1>4
    <3>2. ASSUME NEW i \in DOMAIN capture[c].numbers
          PROVE  \E d \in new : d.kind = DocumentsOf[c][i] /\ d.number = capture[c].numbers[i]
      <4>1. PICK d : d = [kind |-> DocumentsOf[c][i], number |-> capture[c].numbers[i], of |-> <<c, i>>]
        OBVIOUS
      <4>2. d \in new
        BY <1>4, <4>1
      <4>3. d.kind = DocumentsOf[c][i] /\ d.number = capture[c].numbers[i]
        BY <4>1
      <4> QED
        BY <4>2, <4>3
    <3> QED
      BY <2>1, <3>1, <3>2 DEF Issued
  <2>5. NumbersOf(k)' = NumbersOf(k) \cup mine
    BY <1>4, <2>4 DEF NumbersOf
  <2>6. NumbersOf(k)' = 1 .. series'[k]
    BY <1>7, <2>2, <2>3, <2>5, StretchesJoin
  <2>7. ASSUME NEW i \in invoices', NEW j \in invoices', i.kind = k, j.kind = k, i.number = j.number
        PROVE  i = j
    <3>1. \A d \in invoices : d.kind = k => d.number \in 1 .. series[k]
      BY <2>3 DEF NumbersOf
    <3>2. \A d \in new : d.kind = k => d.number \in series[k] + 1 .. series[k] + Cardinality(Issued(c, k))
      BY <2>2, <2>4
    <3>3. \A n \in 1 .. series[k] : n \notin series[k] + 1 .. series[k] + Cardinality(Issued(c, k))
      BY <1>7
    <3>4. CASE i \in invoices /\ j \in invoices
      BY <2>7, <3>4 DEF RInv, DocumentsWhole
    <3>5. CASE i \in new /\ j \in new
      <4>1. PICK g \in Issued(c, k) : i = [kind |-> DocumentsOf[c][g], number |-> capture[c].numbers[g], of |-> <<c, g>>]
        BY <1>4, <2>7, <3>5 DEF Issued
      <4>2. PICK h \in Issued(c, k) : j = [kind |-> DocumentsOf[c][h], number |-> capture[c].numbers[h], of |-> <<c, h>>]
        BY <1>4, <2>7, <3>5 DEF Issued
      <4>3. capture[c].numbers[g] = capture[c].numbers[h]
        BY <2>7, <4>1, <4>2
      <4>4. g = h
        BY <1>0, <4>3 DEF NumbersFollow
      <4> QED
        BY <4>1, <4>2, <4>4
    <3>6. ~ ((i \in invoices /\ j \in new) \/ (i \in new /\ j \in invoices))
      BY <2>7, <3>1, <3>2, <3>3
    <3> QED
      BY <1>4, <3>4, <3>5, <3>6
  <2> QED
    BY <2>6, <2>7
<1> QED
  BY <1>9, <1>10, <1>11, <1>12, <1>13, <1>14, <1>15 DEF RInv

----------------------------------------------------------------------------
LEMMA RegisterSteps == RInv /\ [RegisterNext]_registerVars => RInv'
<1> SUFFICES ASSUME RInv, [RegisterNext]_registerVars PROVE RInv'
  OBVIOUS
<1>0. DOMAIN capture = Captures /\ \A c \in Captures : DOMAIN capture[c] = {"at", "numbers", "entry", "reruns"}
  BY DEF RInv, RegisterShapes, Fits
<1>1. ASSUME NEW c \in Captures, Open(c) PROVE RInv'
  <2>1. capture' = [capture EXCEPT ![c].at = "open"] /\ capture[c].at = "new"
    BY <1>1 DEF Open
  <2>2. capture[c].numbers = <<>> /\ capture[c].entry = {}
    BY <2>1 DEF RInv, Fits
  <2>3. /\ DOMAIN capture' = Captures /\ \A d \in Captures : d # c => capture'[d] = capture[d]
        /\ DOMAIN capture'[c] = {"at", "numbers", "entry", "reruns"}
        /\ capture'[c].numbers = <<>> /\ capture'[c].entry = {}
    BY <1>0, <2>1, <2>2
  <2> QED
    BY <1>1, <2>3, EmptyHanded DEF Open
<1>2. ASSUME NEW c \in Captures, CaptureFails(c) PROVE RInv'
  <2>1. PICK at : capture' = [capture EXCEPT ![c] = [NotCaptured EXCEPT !.at = at]]
    BY <1>2 DEF CaptureFails
  <2>2. Empty([NotCaptured EXCEPT !.at = at])
    BY DEF NotCaptured, Empty
  <2>3. /\ DOMAIN capture' = Captures /\ \A d \in Captures : d # c => capture'[d] = capture[d]
        /\ DOMAIN capture'[c] = {"at", "numbers", "entry", "reruns"}
        /\ capture'[c].numbers = <<>> /\ capture'[c].entry = {}
    BY <1>0, <2>1, <2>2 DEF Empty
  <2> QED
    BY <1>2, <2>3, EmptyHanded DEF CaptureFails
<1>3. ASSUME NEW c \in Captures, CaptureDeadlocks(c) PROVE RInv'
  <2>1. \A at, n : Empty([NotCaptured EXCEPT !.at = at, !.reruns = n]) /\ Empty([NotCaptured EXCEPT !.at = at])
    BY DEF NotCaptured, Empty
  <2>2. PICK x : Empty(x) /\ capture' = [capture EXCEPT ![c] = x]
    <3>1. CASE capture[c].reruns < MaxReruns
      BY <1>0, <1>3, <2>1, <3>1 DEF CaptureDeadlocks
    <3>2. CASE ~ (capture[c].reruns < MaxReruns)
      BY <1>0, <1>3, <2>1, <3>2 DEF CaptureDeadlocks
    <3> QED
      BY <3>1, <3>2
  <2>3. /\ DOMAIN capture' = Captures /\ \A d \in Captures : d # c => capture'[d] = capture[d]
        /\ DOMAIN capture'[c] = {"at", "numbers", "entry", "reruns"}
        /\ capture'[c].numbers = <<>> /\ capture'[c].entry = {}
    BY <1>0, <2>2 DEF Empty
  <2> QED
    BY <1>3, <2>3, EmptyHanded DEF CaptureDeadlocks
<1>4. CASE UNCHANGED registerVars
  <2> UNCHANGED <<capture, series, invoices, chain, position, rollbacks>>
    BY <1>4 DEF registerVars
  <2>1. \A c, k : Issued(c, k)' = Issued(c, k)
    BY DEF Issued
  <2>2. \A c \in Captures : (Fits(c) /\ EntryFits(c) /\ NumbersFollow(c))'
    <3>1. \A c \in Captures : Fits(c) /\ EntryFits(c) /\ NumbersFollow(c)
      BY DEF RInv
    <3>2. ASSUME NEW c \in Captures PROVE Fits(c)' /\ EntryFits(c)'
      BY <3>1 DEF Fits, EntryFits
    <3>3. ASSUME NEW c \in Captures PROVE NumbersFollow(c)'
      BY <2>1, <3>1 DEF NumbersFollow
    <3> QED
      BY <3>2, <3>3
  <2>3. HeldAlone'
    BY <2>1 DEF RInv, HeldAlone, Holds
  <2>4. RegisterShapes' /\ DocumentsWhole' /\ ChainVerifies'
    BY DEF RInv, RegisterShapes, DocumentsWhole, NumbersOf, ChainVerifies, Verified
  <2> QED
    BY <2>2, <2>3, <2>4 DEF RInv
<1> QED
  BY <1>1, <1>2, <1>3, <1>4, NextNumberKeeps, RecordKeeps, CaptureCommitsKeeps DEF RegisterNext

\* Documents whose numbers are 1 .. n, each used once, are n.
LEMMA RInvWhole == RInv => RegistersAreWhole
<1> SUFFICES ASSUME RInv PROVE RegistersAreWhole
  OBVIOUS
<1>1. ASSUME NEW k \in Kinds
      PROVE  Cardinality({d \in invoices : d.kind = k}) = series[k]
  <2> PICK D : D = {d \in invoices : d.kind = k}
    OBVIOUS
  <2>1. series[k] \in Nat
    BY DEF RInv, RegisterShapes
  <2>2. /\ {d.number : d \in D} = 1 .. series[k]
        /\ \A i, j \in D : i.number = j.number => i = j
    BY DEF RInv, DocumentsWhole, NumbersOf
  <2>3. PICK f : f = [n \in 1 .. series[k] |-> CHOOSE d \in D : d.number = n]
    OBVIOUS
  <2>4. \A n \in 1 .. series[k] : f[n] \in D /\ f[n].number = n
    <3>1. \A n \in 1 .. series[k] : \E d \in D : d.number = n
      BY <2>2
    <3> QED
      BY <2>3, <3>1
  <2>5. \A d \in D : \E n \in 1 .. series[k] : f[n] = d
    BY <2>2, <2>4
  <2>6. f \in Bijection(1 .. series[k], D)
    <3>1. f \in [1 .. series[k] -> D]
      BY <2>3, <2>4
    <3>2. \A m, n \in 1 .. series[k] : f[m] = f[n] => m = n
      BY <2>4
    <3> QED
      BY <2>5, <3>1, <3>2 DEF Bijection, Injection, Surjection, IsInjective
  <2>7. ExistsBijection(1 .. series[k], D)
    BY <2>6 DEF ExistsBijection
  <2>8. IsFiniteSet(1 .. series[k]) /\ Cardinality(1 .. series[k]) = series[k]
    <3>1. 1 \in Int /\ series[k] \in Int
      BY <2>1
    <3>2. Cardinality(1 .. series[k]) = IF 1 > series[k] THEN 0 ELSE series[k] - 1 + 1
      BY <3>1, FS_Interval
    <3> QED
      <4>1. IsFiniteSet(1 .. series[k])
        BY <3>1, FS_Interval
      <4>2. (IF 1 > series[k] THEN 0 ELSE series[k] - 1 + 1) = series[k]
        BY <2>1
      <4> QED
        BY <3>2, <4>1, <4>2
  <2> QED
    BY <2>7, <2>8, FS_Bijection
<1> QED
  BY <1>1 DEF RInv, DocumentsWhole, ChainVerifies, RegistersAreWhole

\* Whatever fails, waits or is run again, documents are numbered without a gap or a repeat and
\* the committed audit chain verifies, for any captures and lines (RegistersAreWhole).
THEOREM RegistersStayWhole == RegisterSpec => []RegistersAreWhole
<1>1. RegisterInit => RInv
  BY RegistersBegin
<1>2. RInv /\ [RegisterNext]_registerVars => RInv'
  BY RegisterSteps
<1>3. RInv => RegistersAreWhole
  BY RInvWhole
<1> QED
  BY <1>1, <1>2, <1>3, PTL DEF RegisterSpec

-----------------------------------------------------------------------------
(***************************************************************************)
(* What holds of Rollup for any accounts, statements, lines and workers.   *)
(*                                                                         *)
(* The watermark and every ceiling are lines that were seen, and below a   *)
(* line that was seen nothing appears but by a commit that overtakes: the  *)
(* total of the row is the number of lines up to its watermark, and a sum  *)
(* in hand is that of the next stretch.                                    *)
(***************************************************************************)

Rolling(r) == ro[r] # NotRolling

\* Lines of an account above one seq and up to another.
Between(a, m, n) == {l \in RowsOf(a) : m < l /\ l <= n}

LineShapes ==
  /\ account \in [Seqs -> Accounts]
  /\ state \in [Seqs -> {"unused", "open", "row", "rolled back"}]
  /\ next \in Nat /\ 1 <= next
  /\ DOMAIN ro = Rollers
  /\ \A n \in Seqs : n < next <=> state[n] # "unused"

\* Watermarks and ceilings are lines that were seen.
Seen(n) == n \in Nat /\ (n = 0 \/ n \in Rows)

\* Until a commit is overtaken, an uncommitted line has no committed one above it.
Ordered == ~overtaken => \A n \in Rows : \A m \in Seqs : m < n => state[m] # "open"

OneAtATime == ~crowded => \A r, q \in Rollers : Rolling(r) /\ Rolling(q) => r = q

\* A count that includes only lines that are there, and all of them unless overtaken.
Counts(n, S) == n \in Nat /\ n <= Cardinality(S) /\ (~overtaken => n = Cardinality(S))

\* The aggregate row holds the lines up to its watermark.
RolledUp == \A a \in Accounts : Seen(through[a]) /\ Counts(rolled[a], Between(a, 0, through[a]))

\* A rollup in progress holds those between the watermark and its ceiling.
InHand ==
  \A r \in Rollers : Rolling(r) =>
    /\ DOMAIN ro[r] = {"at", "stmt", "ceiling", "sums"}
    /\ Seen(ro[r].ceiling)
    /\ \A a \in Accounts \cap DOMAIN ro[r].sums :
          /\ through[a] <= ro[r].ceiling
          /\ Counts(ro[r].sums[a], Between(a, through[a], ro[r].ceiling))

LInv == LineShapes /\ Ordered /\ OneAtATime /\ (~crowded => RolledUp /\ InHand)

-----------------------------------------------------------------------------
LEMMA Lines ==
    /\ Seqs \subseteq Nat \ {0} /\ IsFiniteSet(Seqs)
    /\ \A a : RowsOf(a) \subseteq Rows /\ Rows \subseteq Seqs
    /\ \A S \in SUBSET Seqs : IsFiniteSet(S) /\ Cardinality(S) \in Nat
    /\ \A a, m, n : Between(a, m, n) \subseteq Seqs
<1>1. Seqs \subseteq Nat \ {0} /\ IsFiniteSet(Seqs)
  <2>1. 1 \in Int /\ NumLines \in Int
    BY RollupAssumption
  <2>2. IsFiniteSet(1 .. NumLines)
    BY <2>1, FS_Interval
  <2> QED
    BY <2>1, <2>2 DEF Seqs
<1>2. \A a : RowsOf(a) \subseteq Rows /\ Rows \subseteq Seqs
  BY DEF RowsOf, Rows
<1>3. \A S \in SUBSET Seqs : IsFiniteSet(S) /\ Cardinality(S) \in Nat
  BY <1>1, FS_Subset, FS_CardinalityType
<1>4. \A a, m, n : Between(a, m, n) \subseteq Seqs
  BY <1>2 DEF Between
<1> QED
  BY <1>1, <1>2, <1>3, <1>4

LEMMA Apart ==
    ASSUME NEW S, NEW T, IsFiniteSet(S), IsFiniteSet(T), S \cap T = {}
    PROVE  Cardinality(S \cup T) = Cardinality(S) + Cardinality(T)
<1>1. Cardinality(S) \in Nat /\ Cardinality(T) \in Nat /\ Cardinality(S \cap T) = 0
  BY FS_CardinalityType, FS_EmptySet
<1>2. Cardinality(S \cup T) = Cardinality(S) + Cardinality(T) - Cardinality(S \cap T)
  BY FS_Union
<1> QED
  BY <1>1, <1>2

\* Two neighbouring stretches.
LEMMA BetweenJoins ==
    ASSUME NEW a, NEW l \in Nat, NEW m \in Nat, NEW n \in Nat, l <= m, m <= n
    PROVE  Cardinality(Between(a, l, n)) = Cardinality(Between(a, l, m)) + Cardinality(Between(a, m, n))
<1> \A e \in RowsOf(a) : e \in Nat
  BY Lines
<1>1. Between(a, l, n) = Between(a, l, m) \cup Between(a, m, n)
  BY DEF Between
<1>2. Between(a, l, m) \cap Between(a, m, n) = {}
  BY DEF Between
<1> QED
  BY <1>1, <1>2, Lines, Apart

LEMMA RollupBegins == RollupInit => LInv
<1> SUFFICES ASSUME RollupInit PROVE LInv
  OBVIOUS
<1>1. LineShapes
  <2>1. \A n \in Seqs : state[n] = "unused" /\ ~ n < 1
    BY Lines DEF RollupInit
  <2>2. state \in [Seqs -> {"unused", "open", "row", "rolled back"}]
    BY DEF RollupInit
  <2> QED
    BY <2>1, <2>2 DEF RollupInit, LineShapes
<1>2. Rows = {}
  BY DEF RollupInit, Rows
<1>3. \A a, n : Between(a, n, n) = {} /\ Between(a, 0, 0) = {}
  BY <1>2 DEF Between, RowsOf
<1>4. RolledUp
  <2>1. Cardinality({}) = 0
    BY FS_EmptySet
  <2> SUFFICES ASSUME NEW a \in Accounts PROVE Seen(through[a]) /\ Counts(rolled[a], Between(a, 0, through[a]))
    BY DEF RolledUp
  <2>2. through[a] = 0 /\ rolled[a] = 0
    BY DEF RollupInit
  <2>3. Between(a, 0, 0) = {}
    BY <1>3
  <2> QED
    BY <2>1, <2>2, <2>3 DEF Counts, Seen
<1> QED
  BY <1>1, <1>2, <1>4 DEF LInv, Ordered, OneAtATime, InHand, Rolling, RollupInit

-----------------------------------------------------------------------------
\* The lines of a stretch that ends at a line that was seen change only by a commit that
\* overtakes.
LEMMA CountsStay ==
    ASSUME LInv, NEW a, NEW m \in Nat, NEW n, Seen(n), NEW k, Counts(k, Between(a, m, n)),
           UNCHANGED account, LineShapes',
           \/ Rows' = Rows /\ overtaken' = overtaken
           \/ \E l \in Seqs : Commit(l)
    PROVE  Counts(k, Between(a, m, n))' /\ Seen(n)'
<1>1. CASE Rows' = Rows /\ overtaken' = overtaken
  BY <1>1 DEF Counts, Between, RowsOf, Seen
<1>2. CASE \E l \in Seqs : Commit(l)
  <2> PICK l \in Seqs : Commit(l)
    BY <1>2
  <2>0. state[l] = "open" /\ state' = [state EXCEPT ![l] = "row"]
    BY DEF Commit
  <2>1. Rows' = Rows \cup {l} /\ l \notin Rows /\ state[l] = "open"
    BY <2>0 DEF Rows, LInv, LineShapes
  <2>2. Between(a, m, n) \subseteq Between(a, m, n)'
    BY <2>1 DEF Between, RowsOf
  <2>3. Cardinality(Between(a, m, n)) <= Cardinality(Between(a, m, n)')
    <3>1. Between(a, m, n)' \in SUBSET Seqs
      BY DEF Between, RowsOf, Rows
    <3>2. IsFiniteSet(Between(a, m, n)')
      BY <3>1, Lines
    <3> QED
      BY <2>2, <3>2, FS_Subset
  <2>4. ~overtaken' => Between(a, m, n)' = Between(a, m, n)
    <3> SUFFICES ASSUME ~overtaken' PROVE ~ (m < l /\ l <= n)
      BY <2>1 DEF Between, RowsOf
    <3>1. ~overtaken
      BY DEF Commit
    <3>2. \A i \in Rows : ~ l < i
      BY <2>1, <3>1 DEF LInv, Ordered
    <3>3. l \in Nat \ {0} /\ \A i \in Rows : i \in Nat
      BY Lines
    <3> QED
      BY <2>1, <3>2, <3>3 DEF Seen
  <2>5. ~overtaken' => ~overtaken
    BY DEF Commit
  <2>6. Cardinality(Between(a, m, n)) \in Nat /\ Cardinality(Between(a, m, n)') \in Nat
    <3>1. Between(a, m, n)' \in SUBSET Seqs /\ Between(a, m, n) \in SUBSET Seqs
      BY DEF Between, RowsOf, Rows
    <3> QED
      BY <3>1, Lines
  <2> QED
    BY <2>1, <2>3, <2>4, <2>5, <2>6 DEF Counts, Seen
<1> QED
  BY <1>1, <1>2

\* What a step that touches only lines leaves of the aggregate and of a rollup.
LEMMA LineSteps ==
    ASSUME LInv, UNCHANGED <<account, rolled, through, ro, crowded>>, LineShapes',
           \/ Rows' = Rows /\ overtaken' = overtaken
           \/ \E l \in Seqs : Commit(l)
    PROVE  OneAtATime' /\ (~crowded' => RolledUp' /\ InHand')
<1>1. OneAtATime'
  BY DEF LInv, OneAtATime, Rolling
<1> SUFFICES ASSUME ~crowded PROVE RolledUp' /\ InHand'
  BY <1>1
<1>2. RolledUp'
  <2> SUFFICES ASSUME NEW a \in Accounts
               PROVE  Seen(through[a])' /\ Counts(rolled[a], Between(a, 0, through[a]))'
    BY DEF RolledUp
  <2>1. Seen(through[a]) /\ Counts(rolled[a], Between(a, 0, through[a]))
    BY DEF LInv, RolledUp
  <2>2. PICK n, k : n = through[a] /\ k = rolled[a]
    OBVIOUS
  <2>3. Counts(k, Between(a, 0, n))' /\ Seen(n)'
    BY <2>1, <2>2, CountsStay
  <2> QED
    BY <2>2, <2>3 DEF Counts, Between, RowsOf, Seen
<1>3. InHand'
  <2> SUFFICES ASSUME NEW r \in Rollers, Rolling(r)
               PROVE  /\ Seen(ro[r].ceiling)'
                      /\ \A a \in Accounts \cap DOMAIN ro[r].sums :
                            Counts(ro[r].sums[a], Between(a, through[a], ro[r].ceiling))'
    BY DEF LInv, InHand, Rolling
  <2>1. PICK c : c = ro[r].ceiling
    OBVIOUS
  <2>2. Seen(c)
    BY <2>1 DEF LInv, InHand
  <2>3. Seen(c)'
    <3>1. Rows \subseteq Rows'
      BY DEF Commit, Rows, LInv, LineShapes
    <3> QED
      BY <2>2, <3>1 DEF Seen
  <2>4. ASSUME NEW a \in Accounts \cap DOMAIN ro[r].sums
        PROVE  Counts(ro[r].sums[a], Between(a, through[a], ro[r].ceiling))'
    <3>1. PICK n, k : n = through[a] /\ k = ro[r].sums[a]
      OBVIOUS
    <3>2. n \in Nat /\ Counts(k, Between(a, n, c))
      BY <2>1, <3>1 DEF LInv, InHand, RolledUp, Seen
    <3>3. Counts(k, Between(a, n, c))'
      BY <2>2, <3>2, CountsStay
    <3> QED
      BY <2>1, <3>1, <3>3 DEF Counts, Between, RowsOf
  <2> QED
    BY <2>1, <2>3, <2>4 DEF Seen
<1> QED
  BY <1>2, <1>3

\* A line that opens is above all that are there.
LEMMA Append1Keeps ==
    ASSUME LInv, Append1
    PROVE  LInv'
<1>1. next \in Nat /\ 1 <= next
  BY DEF LInv, LineShapes
<1>2. next <= NumLines /\ next' = next + 1 /\ state' = [state EXCEPT ![next] = "open"]
  BY DEF Append1
<1> next \in Seqs
  BY <1>1, <1>2, RollupAssumption DEF Seqs
<1>3. \A n \in Seqs : n \in Nat
  BY Lines
<1>4. state[next] = "unused"
  <2>1. ~ next < next
    BY <1>1
  <2> QED
    BY <2>1 DEF LInv, LineShapes
<1>5. LineShapes'
  <2>1. \A n \in Seqs : (n < next + 1) <=> (n < next \/ n = next)
    BY <1>1, <1>3
  <2>2. \A n \in Seqs : n < next' <=> state'[n] # "unused"
    BY <1>2, <2>1 DEF LInv, LineShapes
  <2>3. state' \in [Seqs -> {"unused", "open", "row", "rolled back"}]
    BY <1>2 DEF LInv, LineShapes
  <2>4. next' \in Nat /\ 1 <= next'
    BY <1>1, <1>2
  <2> QED
    BY <2>2, <2>3, <2>4 DEF Append1, LInv, LineShapes
<1>6. Rows' = Rows
  BY <1>4 DEF Append1, Rows, LInv, LineShapes
<1>7. Ordered'
  <2> SUFFICES ASSUME ~overtaken, NEW n \in Rows, NEW m \in Seqs, m < n
               PROVE  state'[m] # "open"
    BY <1>6 DEF Ordered, Append1
  <2>1. n \in Seqs /\ n < next
    BY DEF Rows, LInv, LineShapes
  <2>2. m # next /\ state[m] # "open"
    BY <1>1, <1>3, <2>1 DEF LInv, Ordered
  <2> QED
    BY <2>2 DEF Append1, LInv, LineShapes
<1>8. OneAtATime' /\ (~crowded' => RolledUp' /\ InHand')
  BY <1>5, <1>6, LineSteps DEF Append1
<1> QED
  BY <1>5, <1>7, <1>8 DEF LInv

LEMMA CommitKeeps ==
    ASSUME LInv, NEW l \in Seqs, Commit(l)
    PROVE  LInv'
<1>1. l \in Nat \ {0} /\ \A n \in Seqs : n \in Nat \ {0}
  BY Lines
<1>2. LineShapes'
  BY DEF Commit, LInv, LineShapes
<1>3. Rows' = Rows \cup {l}
  BY DEF Commit, Rows, LInv, LineShapes
<1>4. Ordered'
  <2> SUFFICES ASSUME ~overtaken', NEW n \in Rows', NEW m \in Seqs, m < n
               PROVE  state'[m] # "open"
    BY DEF Ordered
  <2>1. ~overtaken /\ \A i \in 1 .. l - 1 : state[i] # "open"
    BY DEF Commit
  <2>2. state[m] # "open"
    <3>1. CASE n = l
      <4>1. m \in 1 .. l - 1
        BY <1>1, <3>1
      <4> QED
        BY <2>1, <4>1
    <3>2. CASE n \in Rows
      BY <2>1, <3>2 DEF LInv, Ordered
    <3> QED
      BY <1>3, <3>1, <3>2
  <2> QED
    BY <2>2 DEF Commit, LInv, LineShapes
<1>5. OneAtATime' /\ (~crowded' => RolledUp' /\ InHand')
  BY <1>2, LineSteps DEF Commit
<1> QED
  BY <1>2, <1>4, <1>5 DEF LInv

LEMMA AbortKeeps ==
    ASSUME LInv, NEW l \in Seqs, Abort(l)
    PROVE  LInv'
<1>1. LineShapes'
  BY DEF Abort, LInv, LineShapes
<1>2. Rows' = Rows
  BY DEF Abort, Rows, LInv, LineShapes
<1>3. Ordered'
  BY <1>2 DEF Abort, Ordered, LInv, LineShapes
<1>4. OneAtATime' /\ (~crowded' => RolledUp' /\ InHand')
  BY <1>1, <1>2, LineSteps DEF Abort
<1> QED
  BY <1>1, <1>3, <1>4 DEF LInv

-----------------------------------------------------------------------------
\* A rollup's own steps touch no line.
LEMMA RollerSteps ==
    ASSUME LInv, UNCHANGED <<account, state, next, overtaken>>, DOMAIN ro' = Rollers
    PROVE  /\ LineShapes' /\ Ordered'
           /\ \A n : Seen(n)' <=> Seen(n)
           /\ \A a, m, n, k : Counts(k, Between(a, m, n))' <=> Counts(k, Between(a, m, n))
<1>1. Rows' = Rows
  BY DEF Rows
<1>2. \A a, m, n : Between(a, m, n)' = Between(a, m, n)
  BY <1>1 DEF Between, RowsOf
<1> QED
  BY <1>1, <1>2 DEF LInv, LineShapes, Ordered, Seen, Counts

\* A nonempty set of lines has a highest.
LEMMA Highest ==
    ASSUME NEW S \in SUBSET Seqs, S # {}
    PROVE  \E n \in S : \A m \in S : m <= n
<1> DEFINE T == {NumLines - n : n \in S}
<1>1. \A n \in S : n \in Nat /\ NumLines - n \in Nat /\ n <= NumLines
  BY RollupAssumption DEF Seqs
<1>2. T \subseteq Nat /\ T # {}
  BY <1>1
<1>3. PICK x \in T : \A y \in T : ~ (<<y, x>> \in OpToRel(<, Nat))
  BY <1>2, NatLessThanWellFounded, WFMin
<1>4. PICK n \in S : x = NumLines - n
  BY <1>3
<1>5. ASSUME NEW m \in S PROVE m <= n
  <2>1. NumLines - m \in T /\ NumLines - m \in Nat /\ x \in Nat
    BY <1>1, <1>4
  <2>2. ~ (NumLines - m < x)
    BY <1>3, <2>1 DEF OpToRel
  <2> QED
    BY <1>1, <1>4, <2>2, RollupAssumption
<1> QED
  BY <1>5

LEMMA CeilingIsSeen == Seen(Ceiling)
<1>1. CASE Rows = {}
  BY <1>1 DEF Seen, Ceiling
<1>2. CASE Rows # {}
  <2>1. Rows \subseteq Nat /\ Rows \in SUBSET Seqs
    BY Lines
  <2>2. \E n \in Rows : \A m \in Rows : m <= n
    BY <1>2, <2>1, Highest
  <2> QED
    BY <1>2, <2>1, <2>2 DEF Ceiling, Seen
<1> QED
  BY <1>1, <1>2

\* The aggregate is what it was when a rollup only reads.
LEMMA ReadersLeaveTheTotals ==
    ASSUME RolledUp, UNCHANGED <<account, state, overtaken, rolled, through>>
    PROVE  RolledUp'
<1>1. Rows' = Rows
  BY DEF Rows
<1> QED
  BY <1>1 DEF RolledUp, Seen, Counts, Between, RowsOf

LEMMA ReadCeilingKeeps ==
    ASSUME LInv, NEW r \in Rollers, ReadCeiling(r)
    PROVE  LInv'
<1>1. DOMAIN ro' = Rollers
  BY DEF ReadCeiling, LInv, LineShapes
<1>2. UNCHANGED <<account, state, next, rolled, through, overtaken>>
  BY DEF ReadCeiling
<1>3. LineShapes' /\ Ordered' /\ \A n : Seen(n)' <=> Seen(n)
  BY <1>1, <1>2, RollerSteps
<1>4. ASSUME ~crowded'
      PROVE  ~crowded /\ \A q \in Rollers : ~Rolling(q)
  BY <1>4 DEF ReadCeiling, Rolling
<1>5. \A q \in Rollers : q # r => ro'[q] = ro[q]
  BY DEF ReadCeiling
<1>6. OneAtATime'
  BY <1>4, <1>5 DEF OneAtATime, Rolling
<1>7. ASSUME ~crowded' PROVE RolledUp' /\ InHand'
  <2>1. RolledUp'
    BY <1>2, <1>4, <1>7, ReadersLeaveTheTotals DEF LInv
  <2>2. PICK c : c = Ceiling /\ Seen(c)'
    BY <1>3, CeilingIsSeen
  <2>3. ro'[r] = [at |-> "select", stmt |-> 1, ceiling |-> c, sums |-> [a \in {} |-> 0]]
    BY <2>2 DEF ReadCeiling, LInv, LineShapes
  <2>4. \A q \in Rollers : Rolling(q)' => q = r
    BY <1>4, <1>5, <1>7 DEF Rolling
  <2>5. Seen(ro[r].ceiling)'
    BY <2>2, <2>3 DEF Seen
  <2>6. DOMAIN ro'[r].sums = {} /\ DOMAIN ro'[r] = {"at", "stmt", "ceiling", "sums"}
    BY <2>3
  <2> QED
    BY <2>1, <2>4, <2>5, <2>6 DEF InHand
<1> QED
  BY <1>3, <1>6, <1>7 DEF LInv

\* What a statement selects is the lines above the watermark that the ceiling includes.
LEMMA SelectKeeps ==
    ASSUME LInv, NEW r \in Rollers, Select(r)
    PROVE  LInv'
<1>1. DOMAIN ro = Rollers
  BY DEF LInv, LineShapes
<1>2. UNCHANGED <<account, state, next, rolled, through, overtaken, crowded>>
  BY DEF Select
<1>3. DOMAIN ro' = Rollers
  BY <1>1 DEF Select
<1>4. LineShapes' /\ Ordered' /\ \A n : Seen(n)' <=> Seen(n)
  BY <1>2, <1>3, RollerSteps
<1>5. \A q \in Rollers : q # r => ro'[q] = ro[q]
  BY <1>1 DEF Select
<1>6. Rolling(r)
  BY DEF Select, Rolling, NotRolling
<1>7. OneAtATime'
  BY <1>2, <1>5, <1>6 DEF LInv, OneAtATime, Rolling
<1>8. ASSUME ~crowded' PROVE RolledUp' /\ InHand'
  <2>1. ~crowded /\ RolledUp /\ InHand
    BY <1>2, <1>8 DEF LInv
  <2>2. RolledUp'
    BY <1>2, <2>1, ReadersLeaveTheTotals
  <2>3. PICK c, old : c = ro[r].ceiling /\ c \in Nat /\ Seen(c) /\ old = ro[r].sums
    BY <1>6, <2>1 DEF InHand, Seen
  <2>4. PICK F : F = {a \in Statements[ro[r].stmt] : {n \in Unrolled(a) : n <= c} # {}}
    OBVIOUS
  <2>5. PICK s : s = [a \in DOMAIN old \cup F |->
                        IF a \in F THEN Cardinality({n \in Unrolled(a) : n <= c}) ELSE old[a]]
    OBVIOUS
  <2> PICK x, y : /\ x = IF ro[r].stmt = Len(Statements) THEN "write" ELSE "select"
                  /\ y = ro[r].stmt + 1
    OBVIOUS
  <2>6. ro'[r] = [ro[r] EXCEPT !.at = x, !.stmt = y, !.sums = s]
    BY <1>1, <2>3, <2>4, <2>5 DEF Select
  <2>7. DOMAIN ro[r] = {"at", "stmt", "ceiling", "sums"}
    BY <1>6, <2>1 DEF InHand
  <2>8. /\ DOMAIN ro'[r] = {"at", "stmt", "ceiling", "sums"}
        /\ ro'[r].ceiling = c /\ ro'[r].sums = s
    BY <2>3, <2>6, <2>7
  <2>9. Seen(ro[r].ceiling)'
    BY <1>4, <2>3, <2>8 DEF Seen
  <2>10. ASSUME NEW a \in Accounts \cap DOMAIN s
         PROVE  through[a] <= c /\ Counts(s[a], Between(a, through[a], c))
    <3>1. CASE a \in F
      <4>1. {n \in Unrolled(a) : n <= c} = Between(a, through[a], c)
        BY DEF Unrolled, Between
      <4>2. Cardinality(Between(a, through[a], c)) \in Nat
        BY Lines
      <4>3. through[a] \in Nat
        BY <2>1 DEF RolledUp, Seen
      <4>4. PICK n : n \in Between(a, through[a], c) /\ n \in Nat
        BY <2>4, <3>1, <4>1, Lines
      <4>5. through[a] <= c
        BY <2>3, <4>3, <4>4 DEF Between
      <4>6. s[a] = Cardinality(Between(a, through[a], c))
        BY <2>5, <3>1, <4>1
      <4> QED
        BY <4>2, <4>5, <4>6 DEF Counts
    <3>2. CASE a \notin F
      <4>1. a \in DOMAIN old /\ s[a] = old[a]
        BY <2>5, <3>2
      <4> QED
        BY <1>6, <2>1, <2>3, <4>1 DEF InHand
    <3> QED
      BY <3>1, <3>2
  <2>11. ASSUME NEW a \in Accounts \cap DOMAIN ro'[r].sums
         PROVE  (/\ through[a] <= ro[r].ceiling
                 /\ Counts(ro[r].sums[a], Between(a, through[a], ro[r].ceiling)))'
    <3>1. Between(a, through[a], ro[r].ceiling)' = Between(a, through[a], c)
      BY <1>2, <2>8 DEF Between, RowsOf, Rows
    <3> QED
      BY <1>2, <2>8, <2>10, <3>1 DEF Counts
  <2>12. \A q \in Rollers : Rolling(q)' => q = r
    BY <1>5, <1>6, <2>1 DEF Rolling, LInv, OneAtATime
  <2> QED
    BY <2>2, <2>8, <2>9, <2>11, <2>12 DEF InHand
<1> QED
  BY <1>4, <1>7, <1>8 DEF LInv

\* The row's lines up to the old watermark and the rollup's above it make one stretch.
LEMMA WriteKeeps ==
    ASSUME LInv, NEW r \in Rollers, Write(r)
    PROVE  LInv'
<1>1. DOMAIN ro = Rollers
  BY DEF LInv, LineShapes
<1>2. UNCHANGED <<account, state, next, overtaken, crowded>>
  BY DEF Write
<1>3. DOMAIN ro' = Rollers
  BY <1>1 DEF Write
<1>4. LineShapes' /\ Ordered' /\ \A n : Seen(n)' <=> Seen(n)
  BY <1>2, <1>3, RollerSteps
<1>5. ro'[r] = NotRolling /\ \A q \in Rollers : q # r => ro'[q] = ro[q]
  BY <1>1 DEF Write
<1>6. Rolling(r)
  BY DEF Write, Rolling, NotRolling
<1>7. OneAtATime'
  BY <1>2, <1>5, <1>6 DEF LInv, OneAtATime, Rolling
<1>8. ASSUME ~crowded' PROVE RolledUp' /\ InHand'
  <2>1. ~crowded /\ RolledUp /\ InHand
    BY <1>2, <1>8 DEF LInv
  <2>2. InHand'
    <3>1. \A q \in Rollers : ~Rolling(q)'
      BY <1>5, <1>6, <2>1 DEF Rolling, LInv, OneAtATime
    <3> QED
      BY <3>1 DEF InHand
  <2>3. ASSUME NEW a \in Accounts
        PROVE  Seen(through'[a]) /\ Counts(rolled'[a], Between(a, 0, through'[a]))
    <3>1. Seen(through[a]) /\ Counts(rolled[a], Between(a, 0, through[a]))
      BY <2>1 DEF RolledUp
    <3>2. CASE a \notin DOMAIN ro[r].sums
      BY <3>1, <3>2 DEF Write
    <3>3. CASE a \in DOMAIN ro[r].sums
      <4>1. PICK c, s : c = ro[r].ceiling /\ s = ro[r].sums[a]
        OBVIOUS
      <4>2. Seen(c) /\ through[a] <= c /\ Counts(s, Between(a, through[a], c))
        BY <1>6, <2>1, <3>3, <4>1 DEF InHand
      <4>3. rolled'[a] = rolled[a] + s /\ through'[a] = c
        BY <3>3, <4>1 DEF Write
      <4>4. through[a] \in Nat /\ c \in Nat /\ 0 <= through[a]
        BY <3>1, <4>2 DEF Seen
      <4>5. Cardinality(Between(a, 0, c))
              = Cardinality(Between(a, 0, through[a])) + Cardinality(Between(a, through[a], c))
        BY <4>2, <4>4, BetweenJoins
      <4>6. /\ Cardinality(Between(a, 0, through[a])) \in Nat
            /\ Cardinality(Between(a, through[a], c)) \in Nat
        BY Lines
      <4>7. Counts(rolled[a] + s, Between(a, 0, c))
        BY <3>1, <4>2, <4>5, <4>6 DEF Counts
      <4> QED
        BY <4>2, <4>3, <4>7
    <3> QED
      BY <3>2, <3>3
  <2>4. RolledUp'
    <3> SUFFICES ASSUME NEW a \in Accounts
                 PROVE  Seen(through[a])' /\ Counts(rolled[a], Between(a, 0, through[a]))'
      BY DEF RolledUp
    <3>1. PICK n, k : n = through'[a] /\ k = rolled'[a] /\ Seen(n) /\ Counts(k, Between(a, 0, n))
      BY <2>3
    <3>2. Seen(n)' /\ Counts(k, Between(a, 0, n))'
      BY <1>2, <1>3, <3>1, RollerSteps
    <3> QED
      BY <3>1, <3>2 DEF Seen, Counts, Between
  <2> QED
    BY <2>2, <2>4
<1> QED
  BY <1>4, <1>7, <1>8 DEF LInv

-----------------------------------------------------------------------------
LEMMA RollupSteps == LInv /\ [RollupNext]_rollupVars => LInv'
<1> SUFFICES ASSUME LInv, [RollupNext]_rollupVars PROVE LInv'
  OBVIOUS
<1>1. CASE Append1
  BY <1>1, Append1Keeps
<1>2. CASE \E n \in Seqs : Commit(n) \/ Abort(n)
  BY <1>2, CommitKeeps, AbortKeeps
<1>3. CASE \E r \in Rollers : ReadCeiling(r) \/ Select(r) \/ Write(r)
  BY <1>3, ReadCeilingKeeps, SelectKeeps, WriteKeeps
<1>4. CASE UNCHANGED rollupVars
  <2> UNCHANGED <<account, state, next, rolled, through, ro, overtaken, crowded>>
    BY <1>4 DEF rollupVars
  <2>1. Rows' = Rows /\ LineShapes'
    BY DEF Rows, LInv, LineShapes
  <2>2. Ordered'
    BY <2>1 DEF LInv, Ordered
  <2>3. OneAtATime' /\ (~crowded' => RolledUp' /\ InHand')
    BY <2>1, LineSteps
  <2> QED
    BY <2>1, <2>2, <2>3 DEF LInv
<1> QED
  BY <1>1, <1>2, <1>3, <1>4 DEF RollupNext

\* An account's lines are those up to the watermark and those not rolled up.
LEMMA LInvExact == LInv => ExactUntilOvertaken
<1> SUFFICES ASSUME LInv, ~crowded, NEW a \in Accounts
             PROVE  /\ Balance(a) <= Cardinality(RowsOf(a))
                    /\ ~overtaken => Balance(a) = Cardinality(RowsOf(a))
  BY DEF ExactUntilOvertaken, BalanceIsExact
<1>1. Seen(through[a]) /\ Counts(rolled[a], Between(a, 0, through[a]))
  BY DEF LInv, RolledUp
<1>2. \A n \in RowsOf(a) : n \in Nat /\ 0 < n
  <2>1. \A n \in Nat \ {0} : 0 < n
    OBVIOUS
  <2>2. RowsOf(a) \subseteq Nat \ {0}
    BY Lines
  <2> QED
    BY <2>1, <2>2
<1>3. RowsOf(a) = Between(a, 0, through[a]) \cup Unrolled(a)
  BY <1>1, <1>2 DEF Seen, Between, Unrolled
<1>4. Between(a, 0, through[a]) \cap Unrolled(a) = {}
  BY <1>1, <1>2 DEF Seen, Between, Unrolled
<1>5. Between(a, 0, through[a]) \in SUBSET Seqs /\ Unrolled(a) \in SUBSET Seqs
  BY Lines DEF Unrolled
<1>6. Cardinality(RowsOf(a)) = Cardinality(Between(a, 0, through[a])) + Cardinality(Unrolled(a))
  BY <1>3, <1>4, <1>5, Lines, Apart
<1>7. Cardinality(Between(a, 0, through[a])) \in Nat /\ Cardinality(Unrolled(a)) \in Nat
  BY <1>5, Lines
<1> QED
  BY <1>1, <1>6, <1>7 DEF Counts, Balance

\* While no two rollups run at once, a balance is exact until a commit is overtaken, and never
\* more than the account's lines, whatever a rollup has selected or written (ExactUntilOvertaken).
THEOREM BalancesAreExact == RollupSpec => []ExactUntilOvertaken
<1>1. RollupInit => LInv
  BY RollupBegins
<1>2. LInv /\ [RollupNext]_rollupVars => LInv'
  BY RollupSteps
<1>3. LInv => ExactUntilOvertaken
  BY LInvExact
<1> QED
  BY <1>1, <1>2, <1>3, PTL DEF RollupSpec

-----------------------------------------------------------------------------
(***************************************************************************)
(* What holds of Mail, in Notices, for any mails, any workers that drain the *)
(* queue, and any faults.                                                  *)
(*                                                                         *)
(* A claim that is held may still deliver once.  The deliveries made and   *)
(* those that may be are no more than one and the repeats, and a mail that is *)
(* queued and with nobody has one to spare, for the next claim.            *)
(***************************************************************************)

\* The workers that hold a mail, and those of them whose delivery is not yet recorded.
Holders(m) == {d \in Drains : \E b \in drain[d].batch : b.mail = m}
Takers(m)  == {d \in Drains : \E t \in drain[d].tried : t.taken /\ t.claim.mail = m}

MailShapes ==
    /\ mail \in [Mails -> [status : {"none", "queued", "sent", "failed"}, attempts : Nat]]
    /\ delivered \in [Mails -> Nat] /\ repeats \in [Mails -> Nat]
    /\ drain \in [Drains -> [batch : SUBSET [mail : Mails, attempts : Nat],
                             tried : SUBSET [claim : [mail : Mails, attempts : Nat], taken : BOOLEAN]]]

\* A worker holds a mail once, and tries one of those it holds.
Batches ==
    \A d \in Drains :
        /\ \A a, b \in drain[d].batch : a.mail = b.mail => a = b
        /\ \A t \in drain[d].tried : t.claim \in drain[d].batch /\ drain[d].tried = {t}

\* Each claim that is held delivers once more at most; a delivery that waits to be recorded
\* needs no more.
Covered(m) ==
    /\ delivered[m] + Cardinality(Holders(m)) <= 1 + repeats[m] + Cardinality(Takers(m))
    /\ mail[m].status = "queued" /\ Holders(m) = {}
          => delivered[m] + 1 <= 1 + repeats[m]

\* A mail nobody queued is with nobody; one that was taken was delivered.
Known(m) ==
    /\ mail[m].status = "none" => delivered[m] = 0 /\ repeats[m] = 0 /\ Holders(m) = {}
    /\ mail[m].status = "sent" \/ Takers(m) # {} => delivered[m] > 0

NInv == MailShapes /\ Batches /\ \A m \in Mails : Covered(m) /\ Known(m)

-----------------------------------------------------------------------------
LEMMA HoldersCount ==
    ASSUME Batches, NEW m
    PROVE  /\ IsFiniteSet(Holders(m)) /\ IsFiniteSet(Takers(m))
           /\ Cardinality(Holders(m)) \in Nat /\ Cardinality(Takers(m)) \in Nat
           /\ Takers(m) \subseteq Holders(m) /\ Holders(m) \subseteq Drains
<1>1. Takers(m) \subseteq Holders(m) /\ Holders(m) \subseteq Drains
  BY DEF Holders, Takers, Batches
<1>2. IsFiniteSet(Holders(m)) /\ IsFiniteSet(Takers(m))
  BY <1>1, MailBounds, FS_Subset
<1> QED
  BY <1>1, <1>2, FS_CardinalityType

LEMMA NoticesBegin == NoticeInit => NInv
<1> SUFFICES ASSUME NoticeInit PROVE NInv
  OBVIOUS
<1> USE DEF NoticeInit, MailInit
<1>1. MailShapes
  <2>1. NoBatch \in [batch : SUBSET [mail : Mails, attempts : Nat],
                     tried : SUBSET [claim : [mail : Mails, attempts : Nat], taken : BOOLEAN]]
    <3>1. \A S : {} \in SUBSET S
      OBVIOUS
    <3> QED
      BY <3>1 DEF NoBatch
  <2>2. \A m \in Mails : [status |-> "none", attempts |-> 0]
            \in [status : {"none", "queued", "sent", "failed"}, attempts : Nat]
    OBVIOUS
  <2> QED
    BY <2>1, <2>2 DEF MailShapes
<1>2. \A m : Holders(m) = {} /\ Takers(m) = {}
  BY DEF Holders, Takers, NoBatch
<1>3. Batches
  BY DEF Batches, NoBatch
<1>4. ASSUME NEW m \in Mails PROVE Covered(m) /\ Known(m)
  <2>1. delivered[m] = 0 /\ repeats[m] = 0 /\ mail[m].status = "none"
    OBVIOUS
  <2>2. Cardinality(Holders(m)) = 0 /\ Cardinality(Takers(m)) = 0 /\ Takers(m) = {} /\ Holders(m) = {}
    BY <1>2, FS_EmptySet
  <2> QED
    BY <2>1, <2>2 DEF Covered, Known
<1> QED
  BY <1>1, <1>3, <1>4 DEF NInv

\* What a worker's record says of a mail.
HoldsIn(x, m) == \E b \in x.batch : b.mail = m
TookIn(x, m)  == \E t \in x.tried : t.taken /\ t.claim.mail = m

\* A step of one worker changes only what that worker holds.
LEMMA OneWorker ==
    ASSUME NInv, NEW d \in Drains, NEW x, drain' = [drain EXCEPT ![d] = x], NEW m
    PROVE  /\ Holders(m)' = IF HoldsIn(x, m) THEN Holders(m) \cup {d} ELSE Holders(m) \ {d}
           /\ Takers(m)' = IF TookIn(x, m) THEN Takers(m) \cup {d} ELSE Takers(m) \ {d}
           /\ d \in Holders(m) <=> HoldsIn(drain[d], m)
           /\ d \in Takers(m) <=> TookIn(drain[d], m)
  BY DEF NInv, MailShapes, Holders, Takers, HoldsIn, TookIn

\* One member more or less.
LEMMA OneMore ==
    ASSUME NEW S, IsFiniteSet(S), NEW d
    PROVE  /\ d \notin S => Cardinality(S \cup {d}) = Cardinality(S) + 1
           /\ d \in S => S \cup {d} = S /\ Cardinality(S \ {d}) = Cardinality(S) - 1
           /\ d \notin S => S \ {d} = S
  BY FS_AddElement, FS_RemoveElement

-----------------------------------------------------------------------------
LEMMA ClaimKeeps ==
    ASSUME NInv, NEW d \in Drains, Claim(d)
    PROVE  NInv'
<1>1. PICK new : new = {[mail |-> m, attempts |-> mail[m].attempts + 1] : m \in Queued}
  OBVIOUS
<1>2. PICK x : x = [batch |-> new, tried |-> {}]
  OBVIOUS
<1> x.batch = new /\ x.tried = {}
  BY <1>2
<1>3. drain[d].batch = {} /\ drain[d].tried = {}
  BY DEF Claim, NoBatch
<1>4. drain' = [drain EXCEPT ![d] = x]
  <2>1. drain' = [drain EXCEPT ![d].batch = new] /\ drain[d] = [batch |-> {}, tried |-> {}]
    BY <1>1 DEF Claim, NoBatch
  <2>2. [drain[d] EXCEPT !.batch = new] = x
    BY <1>2, <2>1
  <2> QED
    BY <2>1, <2>2
<1>5. Queued \subseteq Mails /\ \A m \in Mails : m \in Queued <=> mail[m].status = "queued"
  BY DEF Queued
<1>6. mail' = [m \in Mails |-> IF m \in Queued THEN [mail[m] EXCEPT !.attempts = @ + 1] ELSE mail[m]]
  BY DEF Claim
<1>7. \A m \in Mails : mail'[m].status = mail[m].status
  BY <1>6 DEF NInv, MailShapes
<1>8. new \subseteq [mail : Mails, attempts : Nat]
  BY <1>1, <1>5 DEF NInv, MailShapes
<1>9. \A m : (HoldsIn(x, m) <=> m \in Queued) /\ ~TookIn(x, m)
  <2>1. \A b \in new : b.mail \in Queued
    BY <1>1
  <2>2. ASSUME NEW m \in Queued PROVE \E b \in new : b.mail = m
    <3>1. [mail |-> m, attempts |-> mail[m].attempts + 1] \in new
      BY <1>1
    <3> QED
      BY <3>1
  <2> QED
    BY <2>1, <2>2 DEF HoldsIn, TookIn
<1>10. repeats' = [m \in Mails |-> repeats[m] + IF m \in Queued /\ Held(m) THEN 1 ELSE 0]
       /\ UNCHANGED <<delivered, mailFaults>>
  BY DEF Claim
<1>11. MailShapes'
  <2>1. \A m \in Mails : [mail[m] EXCEPT !.attempts = @ + 1]
                            \in [status : {"none", "queued", "sent", "failed"}, attempts : Nat]
    BY DEF NInv, MailShapes
  <2>2. mail' \in [Mails -> [status : {"none", "queued", "sent", "failed"}, attempts : Nat]]
    BY <1>6, <2>1 DEF NInv, MailShapes
  <2>3. repeats' \in [Mails -> Nat]
    BY <1>10 DEF NInv, MailShapes
  <2>4. x \in [batch : SUBSET [mail : Mails, attempts : Nat],
               tried : SUBSET [claim : [mail : Mails, attempts : Nat], taken : BOOLEAN]]
    <3>1. \A S : {} \in SUBSET S
      OBVIOUS
    <3> QED
      BY <1>2, <1>8, <3>1
  <2> QED
    BY <1>4, <1>10, <2>2, <2>3, <2>4 DEF NInv, MailShapes
<1>12. Batches'
  BY <1>1, <1>2, <1>4 DEF NInv, MailShapes, Batches
<1>13. ASSUME NEW m \in Mails PROVE Covered(m)' /\ Known(m)'
  <2>1. Holders(m)' = IF m \in Queued THEN Holders(m) \cup {d} ELSE Holders(m) \ {d}
    BY <1>4, <1>9, OneWorker
  <2>2. Takers(m)' = Takers(m) \ {d}
    BY <1>4, <1>9, OneWorker
  <2>3. d \notin Holders(m) /\ d \notin Takers(m)
    BY <1>3 DEF Holders, Takers
  <2>4. Takers(m)' = Takers(m)
    BY <2>2, <2>3
  <2>5. /\ IsFiniteSet(Holders(m)) /\ Cardinality(Holders(m)) \in Nat /\ Cardinality(Takers(m)) \in Nat
        /\ delivered[m] \in Nat /\ repeats[m] \in Nat
    BY HoldersCount DEF NInv, MailShapes
  <2>6. Held(m) <=> Holders(m) # {}
    BY DEF Held, Holders
  <2>7. Covered(m) /\ Known(m)
    BY DEF NInv
  <2>8. CASE m \notin Queued
    <3>1. Holders(m)' = Holders(m) /\ repeats'[m] = repeats[m]
      BY <1>10, <2>1, <2>3, <2>5, <2>8
    <3> QED
      BY <1>5, <1>7, <1>10, <2>4, <2>7, <2>8, <3>1 DEF Covered, Known
  <2>9. CASE m \in Queued
    <3>1. Holders(m)' # {} /\ Cardinality(Holders(m)') = Cardinality(Holders(m)) + 1
      BY <2>1, <2>3, <2>5, <2>9, OneMore
    <3>2. mail'[m].status = "queued" /\ delivered'[m] = delivered[m]
      BY <1>5, <1>7, <1>10, <2>9
    <3>3. CASE Holders(m) = {}
      <4>1. Cardinality(Holders(m)) = 0 /\ Cardinality(Takers(m)) = 0
        BY <3>3, HoldersCount, FS_EmptySet DEF NInv
      <4>2. repeats'[m] = repeats[m]
        BY <1>10, <2>5, <2>6, <3>3
      <4>3. delivered[m] + 1 <= 1 + repeats[m]
        BY <1>5, <2>7, <2>9, <3>3 DEF Covered
      <4> QED
        BY <2>4, <2>5, <2>7, <3>1, <3>2, <4>1, <4>2, <4>3 DEF Covered, Known
    <3>4. CASE Holders(m) # {}
      <4>1. repeats'[m] = repeats[m] + 1
        BY <1>10, <2>6, <2>9, <3>4
      <4> QED
        BY <2>4, <2>5, <2>7, <3>1, <3>2, <4>1 DEF Covered, Known
    <3> QED
      BY <3>3, <3>4
  <2> QED
    BY <2>8, <2>9
<1> QED
  BY <1>11, <1>12, <1>13 DEF NInv

\* A worker tries a mail it holds; its claim is no more than the delivery.
LEMMA SendKeeps ==
    ASSUME NInv, NEW d \in Drains, Send(d)
    PROVE  NInv'
<1>1. PICK b \in drain[d].batch, taken \in BOOLEAN :
          /\ drain' = [drain EXCEPT ![d].tried = {[claim |-> b, taken |-> taken]}]
          /\ delivered' = [delivered EXCEPT ![b.mail] = IF taken THEN @ + 1 ELSE @]
  BY DEF Send
<1>2. UNCHANGED <<mail, repeats, mailFaults>> /\ drain[d].tried = {}
  BY DEF Send
<1>3. b \in [mail : Mails, attempts : Nat] /\ b.mail \in Mails
  BY DEF NInv, MailShapes
<1>4. PICK t : t = [claim |-> b, taken |-> taken]
  OBVIOUS
<1> t.claim = b /\ t.taken = taken
  BY <1>4
<1>5. PICK x : x = [batch |-> drain[d].batch, tried |-> {t}]
  OBVIOUS
<1> x.batch = drain[d].batch /\ x.tried = {t}
  BY <1>5
<1>6. drain' = [drain EXCEPT ![d] = x]
  <2>1. drain[d] = [batch |-> drain[d].batch, tried |-> drain[d].tried]
    BY DEF NInv, MailShapes
  <2>2. [drain[d] EXCEPT !.tried = {t}] = x
    BY <1>5, <2>1
  <2>3. drain' = [drain EXCEPT ![d].tried = {t}]
    BY <1>1, <1>4
  <2> QED
    BY <2>2, <2>3
<1>7. MailShapes'
  <2>1. delivered' \in [Mails -> Nat]
    BY <1>1, <1>3 DEF NInv, MailShapes
  <2>2. t \in [claim : [mail : Mails, attempts : Nat], taken : BOOLEAN]
    BY <1>3, <1>4
  <2>3. x \in [batch : SUBSET [mail : Mails, attempts : Nat],
               tried : SUBSET [claim : [mail : Mails, attempts : Nat], taken : BOOLEAN]]
    BY <1>5, <2>2 DEF NInv, MailShapes
  <2> QED
    BY <1>2, <1>6, <2>1, <2>3 DEF NInv, MailShapes
<1>8. Batches'
  BY <1>6 DEF NInv, MailShapes, Batches
<1>9. ASSUME NEW m \in Mails PROVE Covered(m)' /\ Known(m)'
  <2>1. /\ IsFiniteSet(Takers(m)) /\ Cardinality(Holders(m)) \in Nat /\ Cardinality(Takers(m)) \in Nat
        /\ delivered[m] \in Nat /\ repeats[m] \in Nat /\ Covered(m) /\ Known(m)
    BY HoldersCount DEF NInv, MailShapes
  <2>2. Holders(m)' = Holders(m)
    <3>1. HoldsIn(x, m) <=> HoldsIn(drain[d], m)
      BY DEF HoldsIn
    <3>2. CASE HoldsIn(x, m)
      <4>1. Holders(m)' = Holders(m) \cup {d} /\ d \in Holders(m)
        BY <1>6, <3>1, <3>2, OneWorker
      <4> QED
        BY <4>1
    <3>3. CASE ~HoldsIn(x, m)
      <4>1. Holders(m)' = Holders(m) \ {d} /\ d \notin Holders(m)
        BY <1>6, <3>1, <3>3, OneWorker
      <4> QED
        BY <4>1
    <3> QED
      BY <3>2, <3>3
  <2>3. d \notin Takers(m)
    BY <1>2 DEF Takers
  <2>4. CASE taken /\ b.mail = m
    <3>1. Takers(m)' = Takers(m) \cup {d}
      <4>1. TookIn(x, m)
        BY <2>4 DEF TookIn
      <4> QED
        BY <1>6, <4>1, OneWorker
    <3>2. Cardinality(Takers(m)') = Cardinality(Takers(m)) + 1
      BY <2>1, <2>3, <3>1, OneMore
    <3>3. delivered'[m] = delivered[m] + 1
      BY <1>1, <2>4 DEF NInv, MailShapes
    <3>4. d \in Holders(m)
      BY <2>4 DEF Holders
    <3> QED
      BY <1>2, <2>1, <2>2, <3>2, <3>3, <3>4 DEF Covered, Known
  <2>5. CASE ~ (taken /\ b.mail = m)
    <3>1. Takers(m)' = Takers(m) \ {d}
      <4>1. ~TookIn(x, m)
        BY <2>5 DEF TookIn
      <4> QED
        BY <1>6, <4>1, OneWorker
    <3>2. Takers(m)' = Takers(m)
      BY <2>3, <3>1
    <3>3. delivered'[m] = delivered[m]
      BY <1>1, <1>3, <2>5 DEF NInv, MailShapes
    <3> QED
      BY <1>2, <2>1, <2>2, <3>2, <3>3 DEF Covered, Known
  <2> QED
    BY <2>4, <2>5
<1> QED
  BY <1>7, <1>8, <1>9 DEF NInv

-----------------------------------------------------------------------------
\* What a worker lets go: the mails of its record that are not in the next.  A mail that it
\* lets go has been accounted for, by a delivery that is recorded or will not be.
LetsGo(d, x) ==
    /\ drain[d].batch # {}
    /\ x \in [batch : SUBSET [mail : Mails, attempts : Nat],
              tried : SUBSET [claim : [mail : Mails, attempts : Nat], taken : BOOLEAN]]
    /\ x.batch \subseteq drain[d].batch /\ x.tried = {}
    /\ \A t \in drain[d].tried : ~HoldsIn(x, t.claim.mail)

\* One mail, when a worker lets go of some.
LEMMA LetGo ==
    ASSUME NInv, NEW d \in Drains, NEW x, LetsGo(d, x), drain' = [drain EXCEPT ![d] = x],
           delivered' = delivered, NEW m \in Mails, repeats'[m] \in Nat,
           repeats'[m] >= repeats[m],
           \/ ~TookIn(drain[d], m) /\ mail'[m].status \in {mail[m].status, "failed"}
           \/ ~TookIn(drain[d], m) /\ mail'[m].status = "queued" /\ HoldsIn(drain[d], m) /\ ~HoldsIn(x, m)
           \/ TookIn(drain[d], m) /\ mail'[m].status = "sent" /\ repeats'[m] = repeats[m]
           \/ TookIn(drain[d], m) /\ mail'[m].status = mail[m].status /\ repeats'[m] = repeats[m] + 1,
           mail'[m].status = "none" <=> mail[m].status = "none",
           mail[m].status = "none" => repeats'[m] = repeats[m],
           mail'[m].status = "sent" => mail[m].status = "sent" \/ TookIn(drain[d], m)
    PROVE  Covered(m)' /\ Known(m)'
<1>1. /\ IsFiniteSet(Holders(m)) /\ IsFiniteSet(Takers(m)) /\ Takers(m) \subseteq Holders(m)
      /\ Cardinality(Holders(m)) \in Nat /\ Cardinality(Takers(m)) \in Nat
      /\ delivered[m] \in Nat /\ repeats[m] \in Nat /\ Covered(m) /\ Known(m)
  BY HoldersCount DEF NInv, MailShapes
<1>2. ~TookIn(x, m)
  BY DEF LetsGo, TookIn
<1>3. Takers(m)' = Takers(m) \ {d} /\ (d \in Takers(m) <=> TookIn(drain[d], m))
  BY <1>2, OneWorker
<1>4. HoldsIn(x, m) => HoldsIn(drain[d], m) /\ ~TookIn(drain[d], m)
  BY DEF LetsGo, HoldsIn, TookIn
<1>5. d \in Holders(m) <=> HoldsIn(drain[d], m)
  BY OneWorker
<1>6. CASE HoldsIn(x, m)
  <2>1. Holders(m)' = Holders(m) \cup {d} /\ d \in Holders(m)
    BY <1>4, <1>5, <1>6, OneWorker
  <2>2. Holders(m)' = Holders(m) /\ Takers(m)' = Takers(m)
    BY <1>3, <1>4, <1>6, <2>1
  <2> QED
    BY <1>1, <1>4, <1>6, <2>1, <2>2 DEF Covered, Known
<1>7. CASE ~HoldsIn(x, m) /\ ~HoldsIn(drain[d], m)
  <2>1. Holders(m)' = Holders(m) \ {d} /\ d \notin Holders(m)
    BY <1>5, <1>7, OneWorker
  <2>2. d \notin Takers(m)
    BY <1>1, <2>1
  <2>3. Holders(m)' = Holders(m) /\ Takers(m)' = Takers(m)
    BY <1>3, <2>1, <2>2
  <2> QED
    BY <1>1, <1>3, <1>7, <2>2, <2>3, SMTT(20) DEF Covered, Known
<1>8. CASE ~HoldsIn(x, m) /\ HoldsIn(drain[d], m)
  <2>1. Holders(m)' = Holders(m) \ {d} /\ d \in Holders(m)
    BY <1>5, <1>8, OneWorker
  <2>2. Cardinality(Holders(m)') = Cardinality(Holders(m)) - 1
    BY <1>1, <2>1, OneMore
  <2>3. Cardinality(Holders(m)') \in Nat /\ Cardinality(Takers(m)') \in Nat
    BY <1>1, <1>3, <2>1, FS_Subset, FS_CardinalityType
  <2>4. Holders(m)' = {} => Cardinality(Holders(m)') = 0 /\ Takers(m)' = {} /\ Cardinality(Takers(m)') = 0
    BY <1>1, <1>3, <2>1, FS_EmptySet
  <2>5. CASE TookIn(drain[d], m)
    <3>1. Cardinality(Takers(m)') = Cardinality(Takers(m)) - 1 /\ Takers(m) # {}
      BY <1>1, <1>3, <2>5, OneMore
    <3> QED
      BY <1>1, <2>1, <2>2, <2>3, <2>4, <2>5, <3>1 DEF Covered, Known
  <2>6. CASE ~TookIn(drain[d], m)
    <3>1. Takers(m)' = Takers(m)
      BY <1>3, <2>6
    <3> QED
      BY <1>1, <2>1, <2>2, <2>3, <2>4, <2>6, <3>1 DEF Covered, Known
  <2> QED
    BY <2>5, <2>6
<1> QED
  BY <1>4, <1>6, <1>7, <1>8

\* The record a worker has left once it has dealt with the mail it tried.
LEMMA RestLetsGo ==
    ASSUME NInv, NEW d \in Drains, NEW t \in drain[d].tried
    PROVE  /\ LetsGo(d, Rest(d, t)) /\ drain[d].tried = {t} /\ t.claim.mail \in Mails
           /\ t.claim \in drain[d].batch /\ t.taken \in BOOLEAN
           /\ \A m : TookIn(drain[d], m) <=> t.taken /\ t.claim.mail = m
           /\ HoldsIn(drain[d], t.claim.mail) /\ ~HoldsIn(Rest(d, t), t.claim.mail)
<1>1. /\ drain[d].tried = {t} /\ t.claim \in drain[d].batch
      /\ t.claim \in [mail : Mails, attempts : Nat] /\ t.taken \in BOOLEAN
      /\ \A a, b \in drain[d].batch : a.mail = b.mail => a = b
  BY DEF NInv, MailShapes, Batches
<1>2. Rest(d, t).batch = drain[d].batch \ {t.claim} /\ Rest(d, t).tried = {}
  BY DEF Rest
<1>3. Rest(d, t) \in [batch : SUBSET [mail : Mails, attempts : Nat],
                      tried : SUBSET [claim : [mail : Mails, attempts : Nat], taken : BOOLEAN]]
  <2>1. \A S : {} \in SUBSET S
    OBVIOUS
  <2>2. drain[d].batch \ {t.claim} \in SUBSET [mail : Mails, attempts : Nat]
    BY DEF NInv, MailShapes
  <2> QED
    BY <2>1, <2>2 DEF Rest
<1>4. HoldsIn(drain[d], t.claim.mail) /\ ~HoldsIn(Rest(d, t), t.claim.mail)
  BY <1>1, <1>2 DEF HoldsIn
<1> QED
  BY <1>1, <1>2, <1>3, <1>4 DEF LetsGo, TookIn

\* A worker that lets go leaves the records well formed.
LEMMA LetGoShapes ==
    ASSUME NInv, NEW d \in Drains, NEW x, LetsGo(d, x), drain' = [drain EXCEPT ![d] = x],
           delivered' = delivered,
           mail' \in [Mails -> [status : {"none", "queued", "sent", "failed"}, attempts : Nat]],
           repeats' \in [Mails -> Nat]
    PROVE  MailShapes' /\ Batches'
  BY DEF NInv, MailShapes, Batches, LetsGo

LEMMA MarkMailKeeps ==
    ASSUME NInv, NEW d \in Drains, MarkMail(d)
    PROVE  NInv'
<1>1. PICK t \in drain[d].tried :
         /\ mail' = [mail EXCEPT ![t.claim.mail].status =
                      IF t.taken THEN "sent" ELSE AfterFailure(t.claim.attempts)]
         /\ drain' = [drain EXCEPT ![d] = Rest(d, t)]
         /\ UNCHANGED <<delivered, repeats, mailFaults>>
  BY DEF MarkMail
<1> PICK x : x = Rest(d, t)
  OBVIOUS
<1>2. /\ LetsGo(d, x) /\ drain[d].tried = {t} /\ t.claim.mail \in Mails
      /\ t.taken \in BOOLEAN
      /\ \A m : TookIn(drain[d], m) <=> t.taken /\ t.claim.mail = m
      /\ HoldsIn(drain[d], t.claim.mail) /\ ~HoldsIn(x, t.claim.mail)
  BY RestLetsGo
<1>3. drain' = [drain EXCEPT ![d] = x] /\ UNCHANGED <<delivered, repeats>>
  BY <1>1
<1>4. PICK s : s = IF t.taken THEN "sent" ELSE AfterFailure(t.claim.attempts)
  OBVIOUS
<1>5. mail' = [mail EXCEPT ![t.claim.mail].status = s]
      /\ s \in {"sent", "queued", "failed"} /\ (s = "sent" <=> t.taken)
  BY <1>1, <1>4 DEF AfterFailure
<1>6. /\ mail' \in [Mails -> [status : {"none", "queued", "sent", "failed"}, attempts : Nat]]
      /\ \A m \in Mails : mail'[m].status = IF m = t.claim.mail THEN s ELSE mail[m].status
  BY <1>2, <1>5 DEF NInv, MailShapes
<1>7. MailShapes' /\ Batches'
  <2>1. repeats' \in [Mails -> Nat]
    BY <1>3 DEF NInv, MailShapes
  <2> QED
    BY <1>2, <1>3, <1>6, <2>1, LetGoShapes
<1>8. ASSUME NEW m \in Mails PROVE Covered(m)' /\ Known(m)'
  <2>1. repeats'[m] = repeats[m] /\ repeats'[m] \in Nat /\ repeats'[m] >= repeats[m]
    BY <1>3 DEF NInv, MailShapes
  <2>2. m = t.claim.mail => mail[m].status # "none"
    <3>1. HoldsIn(drain[d], m) <=> d \in Holders(m)
      BY <1>3, OneWorker
    <3> QED
      BY <1>2, <3>1 DEF NInv, Known
  <2>3. \/ ~TookIn(drain[d], m) /\ mail'[m].status \in {mail[m].status, "failed"}
        \/ ~TookIn(drain[d], m) /\ mail'[m].status = "queued" /\ HoldsIn(drain[d], m) /\ ~HoldsIn(x, m)
        \/ TookIn(drain[d], m) /\ mail'[m].status = "sent" /\ repeats'[m] = repeats[m]
    BY <1>2, <1>5, <1>6, <2>1
  <2>4. /\ mail'[m].status = "none" <=> mail[m].status = "none"
        /\ mail'[m].status = "sent" => mail[m].status = "sent" \/ TookIn(drain[d], m)
    BY <1>2, <1>5, <1>6, <2>2
  <2> QED
    BY <1>2, <1>3, <2>1, <2>3, <2>4, LetGo
<1> QED
  BY <1>7, <1>8 DEF NInv

LEMMA MarkLostKeeps ==
    ASSUME NInv, NEW d \in Drains, MarkLost(d)
    PROVE  NInv'
<1>1. PICK t \in drain[d].tried :
         /\ drain' = [drain EXCEPT ![d] = Rest(d, t)]
         /\ repeats' = [m \in Mails |-> repeats[m] + Forgotten(m, t)]
  BY DEF MarkLost
<1> PICK x : x = Rest(d, t)
  OBVIOUS
<1>2. /\ LetsGo(d, x) /\ drain[d].tried = {t} /\ t.claim.mail \in Mails
      /\ \A m : TookIn(drain[d], m) <=> t.taken /\ t.claim.mail = m
      /\ HoldsIn(drain[d], t.claim.mail)
  BY RestLetsGo
<1>3. drain' = [drain EXCEPT ![d] = x] /\ UNCHANGED <<delivered, mail>>
  BY <1>1 DEF MarkLost
<1>4. \A m \in Mails : repeats'[m] = IF TookIn(drain[d], m) THEN repeats[m] + 1 ELSE repeats[m] + 0
  BY <1>1, <1>2 DEF Forgotten
<1>5. repeats' \in [Mails -> Nat]
  BY <1>1 DEF NInv, MailShapes, Forgotten
<1>6. MailShapes' /\ Batches'
  <2>1. mail' \in [Mails -> [status : {"none", "queued", "sent", "failed"}, attempts : Nat]]
    BY <1>3 DEF NInv, MailShapes
  <2> QED
    BY <1>2, <1>3, <1>5, <2>1, LetGoShapes
<1>7. ASSUME NEW m \in Mails PROVE Covered(m)' /\ Known(m)'
  <2>1. repeats[m] \in Nat /\ repeats'[m] \in Nat
    BY <1>5 DEF NInv, MailShapes
  <2>2. repeats'[m] >= repeats[m] /\ (TookIn(drain[d], m) => repeats'[m] = repeats[m] + 1)
        /\ (~TookIn(drain[d], m) => repeats'[m] = repeats[m])
    BY <1>4, <2>1
  <2>3. TookIn(drain[d], m) => mail[m].status # "none"
    <3>1. HoldsIn(drain[d], m) <=> d \in Holders(m)
      BY <1>3, OneWorker
    <3> QED
      BY <1>2, <3>1 DEF NInv, Known
  <2> QED
    BY <1>2, <1>3, <2>1, <2>2, <2>3, LetGo
<1> QED
  BY <1>6, <1>7 DEF NInv

LEMMA DrainLostKeeps ==
    ASSUME NInv, NEW d \in Drains, DrainLost(d)
    PROVE  NInv'
<1>1. /\ drain' = [drain EXCEPT ![d] = NoBatch]
      /\ repeats' = [m \in Mails |->
            repeats[m] + Cardinality({t \in drain[d].tried : Forgotten(m, t) = 1})]
      /\ UNCHANGED <<mail, delivered>> /\ drain[d] # NoBatch
  BY DEF DrainLost
<1> PICK x : x = NoBatch
  OBVIOUS
<1>2. /\ drain[d].batch \in SUBSET [mail : Mails, attempts : Nat]
      /\ drain[d] = [batch |-> drain[d].batch, tried |-> drain[d].tried]
      /\ \A t \in drain[d].tried : t.claim \in drain[d].batch /\ drain[d].tried = {t}
  BY DEF NInv, MailShapes, Batches
<1>3. drain[d].batch # {}
  BY <1>1, <1>2 DEF NoBatch
<1>4. x.batch = {} /\ x.tried = {} /\ \A m : ~HoldsIn(x, m)
  BY DEF NoBatch, HoldsIn
<1>5. LetsGo(d, x)
  <2>1. x \in [batch : SUBSET [mail : Mails, attempts : Nat],
               tried : SUBSET [claim : [mail : Mails, attempts : Nat], taken : BOOLEAN]]
    <3>1. \A S : {} \in SUBSET S
      OBVIOUS
    <3> QED
      BY <3>1 DEF NoBatch
  <2> QED
    BY <1>3, <1>4, <2>1 DEF LetsGo
<1>6. ASSUME NEW m \in Mails
      PROVE  /\ TookIn(drain[d], m) => repeats'[m] = repeats[m] + 1 /\ HoldsIn(drain[d], m)
             /\ ~TookIn(drain[d], m) => repeats'[m] = repeats[m]
             /\ repeats[m] \in Nat /\ repeats'[m] \in Nat /\ repeats'[m] >= repeats[m]
  <2>1. repeats[m] \in Nat
    BY DEF NInv, MailShapes
  <2>2. CASE TookIn(drain[d], m)
    <3>1. PICK t \in drain[d].tried : t.taken /\ t.claim.mail = m
      BY <2>2 DEF TookIn
    <3>2. {u \in drain[d].tried : Forgotten(m, u) = 1} = {t}
      BY <1>2, <3>1 DEF Forgotten
    <3>3. Cardinality({t}) = 1
      BY FS_Singleton
    <3>4. repeats'[m] = repeats[m] + 1
      BY <1>1, <3>2, <3>3
    <3> QED
      BY <1>2, <2>1, <2>2, <3>1, <3>4 DEF HoldsIn
  <2>3. CASE ~TookIn(drain[d], m)
    <3>1. {u \in drain[d].tried : Forgotten(m, u) = 1} = {}
      BY <2>3 DEF Forgotten, TookIn
    <3>2. repeats'[m] = repeats[m]
      BY <1>1, <2>1, <3>1, FS_EmptySet
    <3> QED
      BY <2>1, <2>3, <3>2
  <2> QED
    BY <2>2, <2>3
<1>7. repeats' \in [Mails -> Nat]
  BY <1>1, <1>6
<1>8. MailShapes' /\ Batches'
  <2>1. mail' \in [Mails -> [status : {"none", "queued", "sent", "failed"}, attempts : Nat]]
    BY <1>1 DEF NInv, MailShapes
  <2> QED
    BY <1>1, <1>5, <1>7, <2>1, LetGoShapes
<1>9. ASSUME NEW m \in Mails PROVE Covered(m)' /\ Known(m)'
  <2>1. TookIn(drain[d], m) => mail[m].status # "none"
    <3>1. HoldsIn(drain[d], m) <=> d \in Holders(m)
      BY <1>1, OneWorker
    <3> QED
      BY <1>6, <3>1 DEF NInv, Known
  <2>2. mail'[m].status = mail[m].status /\ delivered' = delivered
    BY <1>1
  <2> QED
    BY <1>1, <1>5, <1>6, <2>1, <2>2, LetGo
<1> QED
  BY <1>8, <1>9 DEF NInv

-----------------------------------------------------------------------------
\* A mail that is queued for the first time is with nobody.
LEMMA EnqueueKeeps ==
    ASSUME NInv, NEW m \in Mails, Enqueue(m), UNCHANGED <<drain, delivered, repeats>>
    PROVE  NInv'
<1>1. mail[m].status = "none" /\ mail' = [mail EXCEPT ![m].status = "queued"]
  BY DEF Enqueue
<1>2. /\ mail' \in [Mails -> [status : {"none", "queued", "sent", "failed"}, attempts : Nat]]
      /\ \A n \in Mails : mail'[n].status = IF n = m THEN "queued" ELSE mail[n].status
  BY <1>1 DEF NInv, MailShapes
<1>3. MailShapes' /\ Batches'
  BY <1>2 DEF NInv, MailShapes, Batches
<1>4. \A n : Holders(n)' = Holders(n) /\ Takers(n)' = Takers(n)
  BY DEF Holders, Takers
<1>5. ASSUME NEW n \in Mails PROVE Covered(n)' /\ Known(n)'
  <2>1. Covered(n) /\ Known(n) /\ repeats[n] \in Nat /\ delivered[n] \in Nat
    BY DEF NInv, MailShapes
  <2> QED
    BY <1>1, <1>2, <1>4, <2>1 DEF Covered, Known
<1> QED
  BY <1>3, <1>5 DEF NInv

\* Steps that touch no mail.
LEMMA NoMail ==
    ASSUME NInv, UNCHANGED mailVars
    PROVE  NInv'
<1> UNCHANGED <<mail, drain, delivered, repeats, mailFaults>>
  BY DEF mailVars
<1>1. \A n : Holders(n)' = Holders(n) /\ Takers(n)' = Takers(n)
  BY DEF Holders, Takers
<1>2. MailShapes' /\ Batches'
  BY DEF NInv, MailShapes, Batches
<1>3. \A m \in Mails : Covered(m)' /\ Known(m)'
  BY <1>1 DEF NInv, Covered, Known
<1> QED
  BY <1>2, <1>3 DEF NInv

LEMMA NoticeSteps == NInv /\ [NoticeNext]_noticeVars => NInv'
<1> SUFFICES ASSUME NInv, [NoticeNext]_noticeVars PROVE NInv'
  OBVIOUS
<1>1. CASE Tick \/ (\E a \in Additions : Add(a)) \/ UNCHANGED noticeVars
  BY <1>1, NoMail DEF Tick, Add, noticeVars
<1>2. ASSUME NEW a \in Additions, NoticeStep(a) \/ NoticeFails(a) \/ NoticeLost(a) PROVE NInv'
  <2>1. CASE AnnounceChange(a)
    BY <2>1, EnqueueKeeps DEF AnnounceChange
  <2>2. CASE ClaimNotice(a) \/ CompleteNotice(a) \/ NoticeFails(a) \/ NoticeLost(a)
    BY <2>2, NoMail DEF ClaimNotice, CompleteNotice, NoticeFails, NoticeLost
  <2> QED
    BY <1>2, <2>1, <2>2 DEF NoticeStep
<1>3. CASE MailNext
  BY <1>3, ClaimKeeps, SendKeeps, MarkMailKeeps, MarkLostKeeps, DrainLostKeeps DEF MailNext, DrainStep
<1> QED
  BY <1>1, <1>2, <1>3 DEF NoticeNext

LEMMA NInvExplains == NInv => RepeatsAreExplained
<1> SUFFICES ASSUME NInv, NEW m \in Mails
             PROVE  /\ mail[m].status = "sent" => delivered[m] > 0
                    /\ delivered[m] <= 1 + repeats[m]
  BY DEF RepeatsAreExplained
<1>1. /\ Takers(m) \subseteq Holders(m) /\ IsFiniteSet(Holders(m))
      /\ Cardinality(Holders(m)) \in Nat /\ Cardinality(Takers(m)) \in Nat
      /\ delivered[m] \in Nat /\ repeats[m] \in Nat /\ Covered(m) /\ Known(m)
  BY HoldersCount DEF NInv, MailShapes
<1>2. Cardinality(Takers(m)) <= Cardinality(Holders(m))
  BY <1>1, FS_Subset
<1> QED
  BY <1>1, <1>2 DEF Covered, Known

\* A mail is said to be sent only if the transport took it, and taken again only after a claim
\* of a mail that is held or a delivery that was not recorded, for any numbers of mails and
\* workers and any faults (RepeatsAreExplained: Queue.Drain).
THEOREM RepeatsAlwaysExplained == NoticeSpec => []RepeatsAreExplained
<1>1. NoticeInit => NInv
  BY NoticesBegin
<1>2. NInv /\ [NoticeNext]_noticeVars => NInv'
  BY NoticeSteps
<1>3. NInv => RepeatsAreExplained
  BY NInvExplains
<1> QED
  BY <1>1, <1>2, <1>3, PTL DEF NoticeSpec

-----------------------------------------------------------------------------
(* The mail is a work queue. *)

Repeated == \E m \in Mails : repeats[m] > 0
Taken    == {m \in Mails : delivered[m] > 0}

\* Until a mail is repeated, what a worker holds is queued, and with no other worker.
HeldAreQueued ==
    ~ Repeated => \A m \in Mails : \A d \in Holders(m) : mail[m].status = "queued" /\ Holders(m) = {d}

\* Repeats are never forgotten.
LEMMA RepeatsGrow ==
    ASSUME NInv, [MailNext]_mailVars PROVE Repeated => Repeated'
<1>1. ASSUME NEW m \in Mails, NEW n \in Nat, repeats[m] > 0 PROVE repeats[m] + n > 0
  BY <1>1 DEF NInv, MailShapes
<1>2. ASSUME NEW d \in Drains, Claim(d) PROVE Repeated => Repeated'
  BY <1>1, <1>2 DEF Claim, Repeated
<1>3. ASSUME NEW d \in Drains, MarkLost(d) PROVE Repeated => Repeated'
  <2>1. PICK t \in drain[d].tried : repeats' = [m \in Mails |-> repeats[m] + Forgotten(m, t)]
    BY <1>3 DEF MarkLost
  <2>2. \A m \in Mails : Forgotten(m, t) \in Nat
    BY DEF Forgotten
  <2> QED
    BY <1>1, <2>1, <2>2 DEF Repeated
<1>4. ASSUME NEW d \in Drains, DrainLost(d) PROVE Repeated => Repeated'
  <2>1. repeats' = [m \in Mails |->
          repeats[m] + Cardinality({t \in drain[d].tried : Forgotten(m, t) = 1})]
    BY <1>4 DEF DrainLost
  <2>2. ASSUME NEW m \in Mails
        PROVE  Cardinality({t \in drain[d].tried : Forgotten(m, t) = 1}) \in Nat
    <3> DEFINE F == {t \in drain[d].tried : Forgotten(m, t) = 1}
    <3>1. \A t \in drain[d].tried : drain[d].tried = {t}
      BY DEF NInv, Batches
    <3>2. CASE F = {}
      BY <3>2, FS_EmptySet
    <3>3. CASE F # {}
      <4>1. PICK t \in drain[d].tried : F = {t}
        BY <3>1, <3>3
      <4>2. Cardinality({t}) = 1
        BY FS_Singleton
      <4> QED
        BY <4>1, <4>2
    <3> QED
      BY <3>2, <3>3
  <2> QED
    BY <1>1, <2>1, <2>2 DEF Repeated
<1>5. UNCHANGED repeats => (Repeated => Repeated')
  BY DEF Repeated
<1> QED
  BY <1>2, <1>3, <1>4, <1>5 DEF MailNext, DrainStep, Send, MarkMail, mailVars

\* Steps after which no mail has a holder it had not, and those it has are queued still.
LEMMA HoldersLeave ==
    ASSUME HeldAreQueued, Repeated => Repeated',
           \A m \in Mails : Holders(m)' \subseteq Holders(m),
           \A m \in Mails : \/ mail'[m].status \in {mail[m].status, "queued"}
                            \/ ~ Repeated' => Holders(m)' = {}
    PROVE  HeldAreQueued'
  BY DEF HeldAreQueued

LEMMA MailStaysHeld ==
    ASSUME NInv, HeldAreQueued, MailNext PROVE HeldAreQueued'
<1>0. Repeated => Repeated'
  BY RepeatsGrow
<1>1. ASSUME NEW d \in Drains, Claim(d) PROVE HeldAreQueued'
  <2> PICK x : x = [batch |-> {[mail |-> m, attempts |-> mail[m].attempts + 1] : m \in Queued},
                    tried |-> {}]
    OBVIOUS
  <2>1. x.batch = {[mail |-> m, attempts |-> mail[m].attempts + 1] : m \in Queued}
    OBVIOUS
  <2>2. drain' = [drain EXCEPT ![d] = x]
    <3>1. drain' = [drain EXCEPT ![d].batch = x.batch] /\ drain[d] = [batch |-> {}, tried |-> {}]
      BY <1>1 DEF Claim, NoBatch
    <3>2. x = [batch |-> x.batch, tried |-> {}]
      OBVIOUS
    <3>3. [drain[d] EXCEPT !.batch = x.batch] = [batch |-> x.batch, tried |-> {}]
      BY ONLY <3>1
    <3> QED
      BY <3>1, <3>2, <3>3
  <2>3. \A m \in Mails : HoldsIn(x, m) => m \in Queued
    BY <2>1 DEF HoldsIn
  <2>4. ASSUME NEW m \in Mails
        PROVE  \/ Holders(m)' = Holders(m) \cup {d} /\ m \in Queued
               \/ Holders(m)' \subseteq Holders(m)
    <3>1. Holders(m)' = IF HoldsIn(x, m) THEN Holders(m) \cup {d} ELSE Holders(m) \ {d}
      BY <2>2, OneWorker
    <3> QED
      BY <2>3, <3>1
  <2>5. \A m \in Mails : mail'[m].status = mail[m].status
    BY <1>1 DEF Claim, NInv, MailShapes
  <2>6. ASSUME ~ Repeated', NEW m \in Queued PROVE Holders(m) = {}
    <3>1. m \in Mails
      BY DEF Queued
    <3>2. ~ Held(m)
      BY <1>1, <2>6, <3>1 DEF Claim, Repeated, NInv, MailShapes
    <3> QED
      BY <3>2 DEF Held, Holders
  <2> QED
    BY <1>0, <2>4, <2>5, <2>6 DEF HeldAreQueued, Queued
<1>2. ASSUME NEW d \in Drains, Send(d) PROVE HeldAreQueued'
  <2>1. PICK b \in drain[d].batch, taken \in BOOLEAN :
          drain' = [drain EXCEPT ![d].tried = {[claim |-> b, taken |-> taken]}]
    BY <1>2 DEF Send
  <2>2. \A e \in Drains : drain'[e].batch = drain[e].batch
    BY <2>1 DEF NInv, MailShapes
  <2>3. \A m \in Mails : Holders(m)' = Holders(m)
    BY <2>2 DEF Holders
  <2> QED
    BY <1>0, <1>2, <2>3, HoldersLeave DEF Send
<1>3. ASSUME NEW d \in Drains, NEW x, drain' = [drain EXCEPT ![d] = x], x.batch \subseteq drain[d].batch
      PROVE  \A m \in Mails : /\ Holders(m)' \subseteq Holders(m)
                              /\ ~HoldsIn(x, m) => d \notin Holders(m)'
  <2> TAKE m \in Mails
  <2>1. /\ Holders(m)' = IF HoldsIn(x, m) THEN Holders(m) \cup {d} ELSE Holders(m) \ {d}
        /\ d \in Holders(m) <=> HoldsIn(drain[d], m)
    BY <1>3, OneWorker
  <2>2. HoldsIn(x, m) => HoldsIn(drain[d], m)
    BY <1>3 DEF HoldsIn
  <2> QED
    BY <2>1, <2>2
<1>4. ASSUME NEW d \in Drains, MarkMail(d) PROVE HeldAreQueued'
  <2>1. PICK t \in drain[d].tried :
          /\ mail' = [mail EXCEPT ![t.claim.mail].status =
                        IF t.taken THEN "sent" ELSE AfterFailure(t.claim.attempts)]
          /\ drain' = [drain EXCEPT ![d] = Rest(d, t)]
    BY <1>4 DEF MarkMail
  <2>2. /\ t.claim.mail \in Mails /\ HoldsIn(drain[d], t.claim.mail)
        /\ ~HoldsIn(Rest(d, t), t.claim.mail)
    BY RestLetsGo
  <2>3. Rest(d, t).batch \subseteq drain[d].batch
    BY DEF Rest
  <2>4. \A m \in Mails : m # t.claim.mail => mail'[m].status = mail[m].status
    BY <2>1, <2>2 DEF NInv, MailShapes
  <2>5. d \in Holders(t.claim.mail)
    BY <2>2 DEF Holders, HoldsIn
  <2>6. ~ Repeated' => Holders(t.claim.mail)' = {}
    <3>1. Holders(t.claim.mail)' \subseteq Holders(t.claim.mail) /\ d \notin Holders(t.claim.mail)'
      BY <1>3, <2>1, <2>2, <2>3
    <3>2. ~ Repeated => Holders(t.claim.mail) = {d}
      BY <2>2, <2>5 DEF HeldAreQueued
    <3> QED
      BY <1>0, <3>1, <3>2
  <2> QED
    BY <1>0, <1>3, <2>1, <2>3, <2>4, <2>6, HoldersLeave
<1>5. ASSUME NEW d \in Drains, MarkLost(d) PROVE HeldAreQueued'
  <2>1. PICK t \in drain[d].tried : drain' = [drain EXCEPT ![d] = Rest(d, t)]
    BY <1>5 DEF MarkLost
  <2>2. Rest(d, t).batch \subseteq drain[d].batch
    BY DEF Rest
  <2> QED
    BY <1>0, <1>3, <1>5, <2>1, <2>2, HoldersLeave DEF MarkLost
<1>6. ASSUME NEW d \in Drains, DrainLost(d) PROVE HeldAreQueued'
  <2>1. NoBatch.batch \subseteq drain[d].batch
    BY DEF NoBatch
  <2> QED
    BY <1>0, <1>3, <1>6, <2>1, HoldersLeave DEF DrainLost
<1> QED
  BY <1>1, <1>2, <1>4, <1>5, <1>6 DEF MailNext, DrainStep

\* How a mail stands, by its row.
LEMMA MailStanding ==
    ASSUME NInv, NEW m \in Mails
    PROVE  /\ MailStatus[m] = "absent" <=> mail[m].status = "none"
           /\ MailStatus[m] = "open" <=> mail[m].status = "queued"
<1>1. mail[m].status \in {"none", "queued", "sent", "failed"}
  BY DEF NInv, MailShapes
<1> QED
  BY <1>1 DEF MailStatus

LEMMA SameMail ==
    ASSUME \A m \in Mails : mail'[m].status = mail[m].status PROVE UNCHANGED MailStatus
  BY Zenon DEF MailStatus

\* A step that changes how one mail stands.
LEMMA NewMail ==
    ASSUME NEW m \in Mails, \A n \in Mails : n # m => mail'[n].status = mail[n].status
    PROVE  MailStatus' = [MailStatus EXCEPT ![m] = MailStatus'[m]]
<1> DEFINE f == [MailStatus EXCEPT ![m] = MailStatus'[m]]
<1>1. DOMAIN MailStatus = Mails /\ DOMAIN MailStatus' = Mails /\ DOMAIN f = Mails
  BY DEF MailStatus
<1>2. ASSUME NEW n \in Mails PROVE MailStatus'[n] = f[n]
  <2>1. CASE n = m
    BY <2>1 DEF MailStatus
  <2>2. CASE n # m
    BY <2>2 DEF MailStatus
  <2> QED
    BY <2>1, <2>2
<1>3. MailStatus' = [n \in Mails |-> MailStatus'[n]] /\ f = [n \in Mails |-> f[n]]
  BY <1>1 DEF MailStatus
<1> QED
  BY <1>2, <1>3

LEMMA MailQueueStep ==
    NInv /\ HeldAreQueued /\ [NoticeNext]_noticeVars
      => [Promised!Next]_<<MailStatus, Taken, {}, FALSE, Repeated>>
<1> SUFFICES ASSUME NInv, HeldAreQueued, [NoticeNext]_noticeVars
             PROVE  [Promised!Next]_<<MailStatus, Taken, {}, FALSE, Repeated>>
  OBVIOUS
<1> DEFINE Good == [Promised!Next]_<<MailStatus, Taken, {}, FALSE, Repeated>>
<1>1. ASSUME \A m \in Mails : mail'[m].status = mail[m].status, UNCHANGED delivered,
             Repeated => Repeated'
      PROVE  Good
  <2>1. UNCHANGED MailStatus /\ UNCHANGED Taken
    BY <1>1, SameMail DEF Taken
  <2>2. Repeated \in BOOLEAN /\ Repeated' \in BOOLEAN
    BY DEF Repeated
  <2>3. CASE Repeated'
    <3>1. Promised!Disturb
      BY <2>1, <2>2, <2>3 DEF Promised!Disturb, Taken, Repeated
    <3> QED
      BY <3>1 DEF Promised!Next
  <2>4. CASE ~ Repeated'
    BY <1>1, <2>1, <2>2, <2>4
  <2> QED
    BY <2>3, <2>4
<1>2. ASSUME UNCHANGED mailVars PROVE Good
  BY <1>1, <1>2 DEF mailVars, Repeated
<1>3. ASSUME NEW m \in Mails, Enqueue(m), UNCHANGED <<delivered, repeats>> PROVE Good
  <2>1. /\ mail[m].status = "none" /\ mail'[m].status = "queued"
        /\ \A n \in Mails : n # m => mail'[n].status = mail[n].status
    BY <1>3 DEF Enqueue, NInv, MailShapes
  <2>2. MailStatus[m] = "absent" /\ MailStatus'[m] = "open"
    BY <2>1 DEF MailStatus
  <2>3. UNCHANGED <<Taken, Repeated>>
    BY <1>3 DEF Taken, Repeated
  <2>4. Promised!Put(m)
    BY <2>1, <2>2, <2>3, NewMail DEF Promised!Put, Taken, Repeated
  <2> QED
    BY <2>4 DEF Promised!Next
\* A worker touches only what it holds.
<1>4. ASSUME NEW d \in Drains, NEW m \in Mails, d \in Holders(m) PROVE Promised!MayTouch(m)
  <2>1. mail[m].status # "none"
    BY <1>4 DEF NInv, Known
  <2>2. ~ Repeated => mail[m].status = "queued"
    BY <1>4 DEF HeldAreQueued
  <2> QED
    BY <2>1, <2>2, MailStanding DEF Promised!MayTouch, Repeated
<1>5. ASSUME NEW d \in Drains, Send(d) PROVE Good
  <2>1. PICK b \in drain[d].batch, taken \in BOOLEAN :
          delivered' = [delivered EXCEPT ![b.mail] = IF taken THEN @ + 1 ELSE @]
    BY <1>5 DEF Send
  <2>2. UNCHANGED <<mail, repeats>>
    BY <1>5 DEF Send
  <2>3. b.mail \in Mails /\ d \in Holders(b.mail) /\ delivered \in [Mails -> Nat]
    BY DEF NInv, MailShapes, Holders
  <2>4. CASE taken = FALSE
    <3>1. UNCHANGED delivered
      BY <2>1, <2>3, <2>4
    <3> QED
      BY <1>1, <2>2, <3>1 DEF Repeated
  <2>5. CASE taken = TRUE
    <3>1. Taken' = Taken \cup {b.mail}
      BY <2>1, <2>3, <2>5 DEF Taken
    <3>2. UNCHANGED <<MailStatus, Repeated>>
      BY <2>2, SameMail DEF Repeated
    <3>3. Promised!Work(b.mail)
      BY <1>4, <2>3, <3>1, <3>2 DEF Promised!Work, Promised!InTurn, Taken, Repeated
    <3> QED
      BY <2>3, <3>3 DEF Promised!Next
  <2> QED
    BY <2>4, <2>5
<1>6. ASSUME NEW d \in Drains, MarkMail(d) PROVE Good
  <2>1. PICK t \in drain[d].tried :
          mail' = [mail EXCEPT ![t.claim.mail].status =
                     IF t.taken THEN "sent" ELSE AfterFailure(t.claim.attempts)]
    BY <1>6 DEF MarkMail
  <2> PICK m : m = t.claim.mail
    OBVIOUS
  <2>2. UNCHANGED <<delivered, repeats>>
    BY <1>6 DEF MarkMail
  <2>3. m \in Mails /\ d \in Holders(m) /\ (t.taken => d \in Takers(m))
    BY RestLetsGo DEF Holders, HoldsIn, Takers
  <2>4. /\ \A n \in Mails : n # m => mail'[n].status = mail[n].status
        /\ (mail'[m].status = "sent" /\ t.taken) \/ mail'[m].status \in {"failed", "queued"}
    BY <2>1, <2>3 DEF NInv, MailShapes, AfterFailure
  <2>5. t.taken => m \in Taken
    BY <2>3 DEF Taken, NInv, Known
  <2>6. /\ MailStatus'[m] \in {"open", "settled", "dropped"}
        /\ MailStatus'[m] = "settled" => m \in Taken
    BY <2>3, <2>4, <2>5 DEF MailStatus
  <2>7. Promised!End(m, MailStatus'[m])
    BY <1>4, <2>2, <2>3, <2>4, <2>6, NewMail DEF Promised!End, Taken, Repeated
  <2> QED
    BY <2>3, <2>6, <2>7 DEF Promised!Next
<1>7. ASSUME NEW d \in Drains, Claim(d) \/ MarkLost(d) \/ DrainLost(d) PROVE Good
  <2>1. /\ \A m \in Mails : mail'[m].status = mail[m].status
        /\ UNCHANGED delivered
    BY <1>7 DEF Claim, MarkLost, DrainLost, NInv, MailShapes
  <2>2. Repeated => Repeated'
    BY <1>7, RepeatsGrow DEF MailNext, DrainStep
  <2> QED
    BY <1>1, <2>1, <2>2
<1>8. CASE MailNext
  BY <1>5, <1>6, <1>7, <1>8 DEF MailNext, DrainStep
<1>9. ASSUME NEW a \in Additions, NoticeStep(a) \/ NoticeFails(a) \/ NoticeLost(a) PROVE Good
  BY <1>2, <1>3, <1>9 DEF NoticeStep, ClaimNotice, AnnounceChange, CompleteNotice, NoticeFails, NoticeLost
<1> QED
  BY <1>2, <1>8, <1>9 DEF NoticeNext, Tick, Add, noticeVars

LEMMA NoticesStayHeld ==
    NInv /\ HeldAreQueued /\ [NoticeNext]_noticeVars => HeldAreQueued'
<1> SUFFICES ASSUME NInv, HeldAreQueued, [NoticeNext]_noticeVars PROVE HeldAreQueued'
  OBVIOUS
<1>1. ASSUME UNCHANGED <<drain, repeats>>,
             \A m \in Mails : mail'[m].status \in {mail[m].status, "queued"}
      PROVE  HeldAreQueued'
  BY <1>1, HoldersLeave DEF Holders, Repeated
<1>2. ASSUME UNCHANGED mailVars PROVE HeldAreQueued'
  BY <1>1, <1>2 DEF mailVars
<1>3. ASSUME NEW m \in Mails, Enqueue(m), UNCHANGED <<drain, repeats>> PROVE HeldAreQueued'
  BY <1>1, <1>3 DEF Enqueue, NInv, MailShapes
<1>4. ASSUME NEW a \in Additions, NoticeStep(a) \/ NoticeFails(a) \/ NoticeLost(a) PROVE HeldAreQueued'
  BY <1>2, <1>3, <1>4 DEF NoticeStep, ClaimNotice, AnnounceChange, CompleteNotice, NoticeFails, NoticeLost
<1> QED
  BY <1>2, <1>4, MailStaysHeld DEF NoticeNext, Tick, Add, noticeVars

\* The mail keeps what a work queue promises, whatever becomes of the workers that drain it
\* and of the outcomes they record (MailIsWorkQueue: Queue.Drain, markSent and markFailed,
\* which name a row by its id alone).
THEOREM MailImplementsQueue == NoticeSpec => MailIsWorkQueue
<1>1. NoticeInit => Promised!Init
  <2> SUFFICES ASSUME NoticeInit PROVE Promised!Init
    OBVIOUS
  <2>1. MailStatus = [m \in Mails |-> "absent"]
    BY DEF NoticeInit, MailInit, MailStatus
  <2>2. Taken = {} /\ Repeated = FALSE
    BY DEF NoticeInit, MailInit, Taken, Repeated
  <2> QED
    BY <2>1, <2>2 DEF Promised!Init, Taken, Repeated
<1>2. NoticeInit => HeldAreQueued
  BY DEF NoticeInit, MailInit, HeldAreQueued, Holders, NoBatch
<1>3. NInv /\ HeldAreQueued /\ [NoticeNext]_noticeVars =>
        [Promised!Next]_<<MailStatus, {m \in Mails : delivered[m] > 0}, {}, FALSE,
                          \E m \in Mails : repeats[m] > 0>>
  BY MailQueueStep DEF Taken, Repeated
<1> QED
  BY <1>1, <1>2, <1>3, NoticesBegin, NoticeSteps, NoticesStayHeld, PTL
     DEF NoticeSpec, MailIsWorkQueue, Promised!Spec, Promised!queueVars

-----------------------------------------------------------------------------
(***************************************************************************)
(* What holds of Listings for any products, tags, synonyms and calls.      *)
(*                                                                         *)
(* Each call knows what it will leave a tag with: the uses it found, one   *)
(* less if the product had the tag, one more for each row it has counted.  *)
(* What it read is still true because it holds the lock of every tag it    *)
(* counts, so a commit changes no tag another call has read.               *)
(***************************************************************************)

\* Of rows, those that count for t.
Named(S, t) == {x \in S : Canonical[x] = t}

\* The rows a call has counted so far, and the tags it has taken a use of.
CountedRows(e) == IF edit[e].at = "counting" THEN edit[e].rows \ {Next1(e)} ELSE edit[e].rows

Writing(e) == edit[e].at \in {"clearing", "tagging", "counting"}

TakenBy(e) ==
    IF Writing(e) THEN {Canonical[x] : x \in UNION {tagged[p] : p \in edit[e].of}} \ edit[e].todo ELSE {}

\* A call's record.
Shape(c, tags) ==
    /\ DOMAIN c = {"at", "of", "slug", "list", "given", "todo", "rows", "counts", "reruns"}
    /\ c.at \in {"idle", "again", "done", "drafting", "clearing", "tagging", "counting"}
    /\ c.of \subseteq Products
    /\ c.at \in {"idle", "done"} => c.of = {}
    /\ c.at \in {"drafting", "clearing", "tagging", "counting"} => \E p \in Products : c.of = {p}
    /\ c.slug \in {"none", "title", "made up"}
    /\ c.list \in Seq(Tags) /\ c.given \in Seq(Tags)
    /\ c.todo \subseteq Tags /\ c.rows \subseteq Tags /\ IsFiniteSet(c.rows)
    /\ DOMAIN c.counts \subseteq Tags
    /\ c.at \notin {"clearing", "tagging", "counting"} => DOMAIN c.counts = {}
    /\ c.at \notin {"tagging", "counting"} => c.rows = {}
    /\ c.at # "clearing" => c.todo = {}
    /\ c.at = "clearing" => c.todo \subseteq {Canonical[x] : x \in UNION {tags[p] : p \in c.of}}
    /\ c.at = "counting" => c.list # <<>> /\ Head(c.list) \in c.rows

CallShape(e) == Shape(edit[e], tagged)

RowShapes ==
    /\ listing \in [Products -> {"none", "title", "made up"}]
    /\ tagged \in [Products -> SUBSET Tags]
    /\ \A p \in Products : IsFiniteSet(tagged[p]) /\ (listing[p] = "none" => tagged[p] = {})
    /\ usage \in [Tags -> Nat]
    /\ DOMAIN edit = Edits

\* A product that is written, and a tag that is counted, is locked by one call.
LockedOnce ==
    \A e, d \in Edits : e # d =>
        edit[e].of \cap edit[d].of = {} /\ DOMAIN edit[e].counts \cap DOMAIN edit[d].counts = {}

\* A slug is inserted for a product that has none, and the title's for one product.
SlugFits(e) ==
    /\ edit[e].at = "drafting" => edit[e].slug # "none" /\ \A p \in edit[e].of : listing[p] = "none"
    /\ Writing(e) /\ edit[e].slug = "none" => \A p \in edit[e].of : listing[p] # "none"
    /\ Writing(e) /\ edit[e].slug = "title" =>
          /\ edit[e].at \in {"tagging", "counting"}
          /\ \A p \in Products : listing[p] # "title"
          /\ \A d \in Edits \ {e} : ~ (edit[d].at \in {"tagging", "counting"} /\ edit[d].slug = "title")

\* What a call will leave a tag with: a use less for the product as it was, one more for
\* every row counted; and of those tags it has the lock.
UsesLeft(e, t) ==
    Uses(t, e) = (IF t \in TakenBy(e) /\ usage[t] > 0 THEN usage[t] - 1 ELSE usage[t])
                    + Cardinality(Named(CountedRows(e), t))

LocksWhatItCounts(e, t) ==
    t \in TakenBy(e) \/ Named(CountedRows(e), t) # {} => t \in DOMAIN edit[e].counts

CallFits(e) ==
    CallShape(e) /\ SlugFits(e) /\ \A t \in Tags : UsesLeft(e, t) /\ LocksWhatItCounts(e, t)

RowsCounted(t) ==
    /\ IsFiniteSet(RowsOfTag(t))
    /\ usage[t] >= Cardinality(RowsOfTag(t))
    /\ t \notin doubled => usage[t] = Cardinality(RowsOfTag(t))

OneTitle == \A p, q \in Products : listing[p] = "title" /\ listing[q] = "title" => p = q

UInv ==
    /\ RowShapes /\ LockedOnce /\ OneTitle
    /\ \A e \in Edits : CallFits(e)
    /\ \A t \in Tags : RowsCounted(t)

-----------------------------------------------------------------------------
LEMMA NoCallShape ==
    /\ DOMAIN NotEditing = {"at", "of", "slug", "list", "given", "todo", "rows", "counts", "reruns"}
    /\ NotEditing.at = "idle" /\ NotEditing.of = {} /\ NotEditing.slug = "none"
    /\ NotEditing.list = <<>> /\ NotEditing.given = <<>> /\ NotEditing.todo = {}
    /\ NotEditing.rows = {} /\ DOMAIN NotEditing.counts = {} /\ NotEditing.reruns = 0
  BY DEF NotEditing

\* A call that is not writing has counted nothing.
LEMMA IdleFits ==
    ASSUME RowShapes, NEW e \in Edits, CallShape(e), ~ Writing(e), edit[e].at # "drafting"
    PROVE  CallFits(e)
<1>1. SlugFits(e)
  BY DEF SlugFits
<1>2. TakenBy(e) = {} /\ CountedRows(e) = {} /\ DOMAIN edit[e].counts = {}
  BY DEF TakenBy, CountedRows, CallShape, Shape, Writing
<1>3. ASSUME NEW t \in Tags PROVE UsesLeft(e, t) /\ LocksWhatItCounts(e, t)
  <2>1. Named({}, t) = {} /\ Cardinality({}) = 0
    BY FS_EmptySet DEF Named
  <2>2. Uses(t, e) = usage[t] /\ usage[t] \in Nat
    BY <1>2 DEF Uses, RowShapes
  <2> QED
    BY <1>2, <2>1, <2>2 DEF UsesLeft, LocksWhatItCounts
<1> QED
  BY <1>1, <1>3 DEF CallFits

LEMMA ListingBegins == ListingInit => UInv
<1> SUFFICES ASSUME ListingInit PROVE UInv
  OBVIOUS
<1>1. RowShapes
  <2>1. listing \in [Products -> {"none", "title", "made up"}] /\ tagged \in [Products -> SUBSET Tags]
        /\ usage \in [Tags -> Nat] /\ DOMAIN edit = Edits
    BY DEF ListingInit
  <2>2. \A p \in Products : IsFiniteSet(tagged[p]) /\ tagged[p] = {}
    BY FS_EmptySet DEF ListingInit
  <2> QED
    BY <2>1, <2>2 DEF RowShapes
<1>2. ASSUME NEW e \in Edits PROVE CallFits(e)
  <2>1. edit[e] = NotEditing
    BY DEF ListingInit
  <2>2. CallShape(e) /\ ~ Writing(e) /\ edit[e].at # "drafting"
    <3>1. ~ Writing(e) /\ edit[e].at = "idle"
      BY <2>1, NoCallShape DEF Writing
    <3>2. <<>> \in Seq(Tags) /\ IsFiniteSet({})
      BY FS_EmptySet
    <3> QED
      BY <2>1, <3>1, <3>2, NoCallShape DEF CallShape, Shape
  <2> QED
    BY <1>1, <2>2, IdleFits
<1>3. LockedOnce
  <2>1. \A e \in Edits : edit[e] = NotEditing
    BY DEF ListingInit
  <2> QED
    BY <2>1, NoCallShape DEF LockedOnce
<1>4. ASSUME NEW t \in Tags PROVE RowsCounted(t)
  <2>1. RowsOfTag(t) = {}
    BY DEF RowsOfTag, NamesOf, ListingInit
  <2>2. usage[t] = 0
    BY DEF ListingInit
  <2> QED
    BY <2>1, <2>2, FS_EmptySet DEF RowsCounted
<1>5. OneTitle
  BY DEF OneTitle, ListingInit
<1> QED
  BY <1>1, <1>2, <1>3, <1>4, <1>5 DEF UInv

\* A step of one call that commits nothing leaves the others as they were.
LEMMA OthersKeep ==
    ASSUME UInv, NEW e \in Edits, UNCHANGED <<listing, tagged, usage, doubled>>,
           DOMAIN edit' = Edits, \A d \in Edits \ {e} : edit'[d] = edit[d],
           CallFits(e)',
           \A d \in Edits \ {e} : /\ edit'[e].of \cap edit[d].of = {}
                                  /\ DOMAIN edit'[e].counts \cap DOMAIN edit[d].counts = {}
    PROVE  UInv'
<1>1. RowShapes' /\ OneTitle'
  BY DEF UInv, RowShapes, OneTitle
<1>2. LockedOnce'
  BY DEF UInv, LockedOnce
<1>3. ASSUME NEW d \in Edits, d # e PROVE CallFits(d)'
  <2>1. CallShape(d) /\ SlugFits(d) /\ edit'[d] = edit[d]
    BY <1>3 DEF UInv, CallFits
  <2>2. CallShape(d)' /\ Writing(d)' = Writing(d)
    <3>1. Writing(d)' = Writing(d) /\ tagged' = tagged
      BY <2>1 DEF Writing
    <3> QED
      BY <2>1, <3>1 DEF CallShape
  <2>3. SlugFits(d)'
    <3>1. SlugFits(e)'
      BY DEF CallFits
    <3>2. ASSUME Writing(d), edit[d].slug = "title", edit'[e].at \in {"tagging", "counting"}, edit'[e].slug = "title"
          PROVE  FALSE
      <4>1. Writing(e)' /\ d \in Edits \ {e}
        BY <1>3, <3>2 DEF Writing
      <4>2. ~ (edit'[d].at \in {"tagging", "counting"} /\ edit'[d].slug = "title")
        BY <3>1, <3>2, <4>1 DEF SlugFits
      <4>3. edit[d].at \in {"tagging", "counting"}
        BY <2>1, <3>2 DEF SlugFits
      <4> QED
        BY <2>1, <3>2, <4>2, <4>3
    <3>3. ASSUME Writing(d), edit[d].slug = "title", NEW c \in Edits \ {d}
          PROVE  ~ (edit'[c].at \in {"tagging", "counting"} /\ edit'[c].slug = "title")
      <4>1. CASE c = e
        BY <3>2, <3>3, <4>1
      <4>2. CASE c # e
        BY <2>1, <3>3, <4>2 DEF SlugFits
      <4> QED
        BY <4>1, <4>2
    <3> QED
      BY <2>1, <2>2, <3>3 DEF SlugFits
  <2>4. ASSUME NEW t \in Tags PROVE UsesLeft(d, t)' /\ LocksWhatItCounts(d, t)'
    <3>1. UsesLeft(d, t) /\ LocksWhatItCounts(d, t)
      BY DEF UInv, CallFits
    <3>2. Uses(t, d)' = Uses(t, d)
      BY <2>1 DEF Uses
    <3>3. TakenBy(d)' = TakenBy(d) /\ CountedRows(d)' = CountedRows(d)
      BY <2>1, <2>2 DEF TakenBy, CountedRows, Next1
    <3>4. Named(CountedRows(d), t)' = Named(CountedRows(d), t)
      BY <3>3 DEF Named
    <3> QED
      BY <2>1, <3>1, <3>2, <3>3, <3>4 DEF UsesLeft, LocksWhatItCounts
  <2> QED
    BY <2>2, <2>3, <2>4 DEF CallFits
<1>4. ASSUME NEW t \in Tags PROVE RowsCounted(t)'
  <2>1. RowsCounted(t) /\ RowsOfTag(t)' = RowsOfTag(t)
    BY DEF UInv, RowsOfTag, NamesOf
  <2> QED
    BY <2>1 DEF RowsCounted
<1> QED
  BY <1>1, <1>2, <1>3, <1>4 DEF UInv

\* The record of a call that writes nothing yet, or no more.
Quiet(y, e) ==
    /\ DOMAIN y = {"at", "of", "slug", "list", "given", "todo", "rows", "counts", "reruns"}
    /\ y.at \in {"again", "done"} /\ y.of \subseteq edit[e].of /\ (y.at = "done" => y.of = {})
    /\ y.slug = "none" /\ y.list \in Seq(Tags) /\ y.given \in Seq(Tags)
    /\ y.todo = {} /\ y.rows = {} /\ DOMAIN y.counts = {}

LEMMA QuietKeeps ==
    ASSUME UInv, NEW e \in Edits, UNCHANGED <<listing, tagged, usage, doubled>>,
           NEW y, Quiet(y, e), edit' = [edit EXCEPT ![e] = y]
    PROVE  UInv'
<1>1. DOMAIN edit' = Edits /\ edit'[e] = y /\ \A d \in Edits \ {e} : edit'[d] = edit[d]
  BY DEF UInv, RowShapes
<1>2. CallShape(e)' /\ ~ Writing(e)'
  <2>1. CallShape(e)
    BY DEF UInv, CallFits
  <2>2. ~ Writing(e)' /\ edit'[e].at \in {"again", "done"}
    BY <1>1 DEF Writing, Quiet
  <2>3. edit'[e].of \subseteq Products /\ IsFiniteSet({})
    BY <1>1, <2>1, FS_EmptySet DEF CallShape, Shape, Quiet
  <2> QED
    BY <1>1, <2>2, <2>3 DEF CallShape, Shape, Quiet
<1>3. SlugFits(e)'
  BY <1>1, <1>2 DEF SlugFits, Quiet
<1>4. TakenBy(e)' = {} /\ CountedRows(e)' = {} /\ DOMAIN edit'[e].counts = {}
  BY <1>1, <1>2 DEF TakenBy, CountedRows, Quiet
<1>5. ASSUME NEW t \in Tags PROVE UsesLeft(e, t)' /\ LocksWhatItCounts(e, t)'
  <2>1. Named({}, t) = {} /\ Cardinality({}) = 0 /\ Named(CountedRows(e), t)' = {}
    BY <1>4, FS_EmptySet DEF Named
  <2>2. Uses(t, e)' = usage'[t] /\ usage'[t] \in Nat
    BY <1>4 DEF Uses, UInv, RowShapes
  <2> QED
    BY <1>4, <2>1, <2>2 DEF UsesLeft, LocksWhatItCounts
<1>6. CallFits(e)'
  BY <1>2, <1>3, <1>5 DEF CallFits
<1>7. \A d \in Edits \ {e} : /\ edit'[e].of \cap edit[d].of = {}
                             /\ DOMAIN edit'[e].counts \cap DOMAIN edit[d].counts = {}
  BY <1>1, <1>4 DEF UInv, LockedOnce, Quiet
<1> QED
  BY <1>1, <1>6, <1>7, OthersKeep

LEMMA LostKeeps ==
    ASSUME UInv, NEW e \in Edits, EditLost(e)
    PROVE  UInv'
<1>1. PICK y : y = [NotEditing EXCEPT !.at = "done"]
  OBVIOUS
<1>2. Quiet(y, e)
  <2>1. <<>> \in Seq(Tags)
    OBVIOUS
  <2> QED
    BY <1>1, <2>1, NoCallShape DEF Quiet
<1> QED
  BY <1>1, <1>2, QuietKeeps DEF EditLost

LEMMA DeadlocksKeep ==
    ASSUME UInv, NEW e \in Edits, EditDeadlocks(e)
    PROVE  UInv'
<1>0. <<>> \in Seq(Tags) /\ edit[e].given \in Seq(Tags)
  <2>1. CallShape(e)
    BY DEF UInv, CallFits
  <2>2. <<>> \in Seq(Tags)
    OBVIOUS
  <2> QED
    BY <2>1, <2>2 DEF CallShape, Shape
<1>1. CASE edit[e].reruns < MaxEditReruns
  <2>1. PICK y : y = [NotEditing EXCEPT !.at = "again", !.of = edit[e].of, !.given = edit[e].given,
                                  !.reruns = edit[e].reruns + 1]
    OBVIOUS
  <2>2. Quiet(y, e)
    BY <1>0, <2>1, NoCallShape DEF Quiet
  <2> QED
    BY <1>1, <2>1, <2>2, QuietKeeps DEF EditDeadlocks
<1>2. CASE ~ (edit[e].reruns < MaxEditReruns)
  <2>1. PICK y : y = [NotEditing EXCEPT !.at = "done"]
    OBVIOUS
  <2>2. Quiet(y, e)
    BY <1>0, <2>1, NoCallShape DEF Quiet
  <2> QED
    BY <1>2, <2>1, <2>2, QuietKeeps DEF EditDeadlocks
<1> QED
  BY <1>1, <1>2

\* A call that has counted nothing yet.
LEMMA NothingCounted ==
    ASSUME NEW e, TakenBy(e)' = {}, CountedRows(e)' = {}, DOMAIN edit'[e].counts = {},
           usage' \in [Tags -> Nat]
    PROVE  \A t \in Tags : UsesLeft(e, t)' /\ LocksWhatItCounts(e, t)'
<1> SUFFICES ASSUME NEW t \in Tags PROVE UsesLeft(e, t)' /\ LocksWhatItCounts(e, t)'
  OBVIOUS
<1>1. Named({}, t) = {} /\ Cardinality({}) = 0 /\ Named(CountedRows(e), t)' = {}
  BY FS_EmptySet DEF Named
<1>2. Uses(t, e)' = usage'[t] /\ usage'[t] \in Nat
  BY DEF Uses
<1> QED
  BY <1>1, <1>2 DEF UsesLeft, LocksWhatItCounts

\* The tags of the one product a call writes.
LEMMA OneProduct ==
    ASSUME NEW p
    PROVE  {Canonical[x] : x \in UNION {tagged[q] : q \in {p}}} = TakenFrom(p)
  BY DEF TakenFrom

LEMMA GivenLists ==
    ASSUME UInv, NEW e \in Edits, NEW list \in Given(e)
    PROVE  list \in Seq(Tags)
<1>1. edit[e].given \in Seq(Tags)
  BY DEF UInv, CallFits, CallShape, Shape
<1> QED
  BY <1>1, ListingBounds DEF Given

LEMMA DraftBeginsKeeps ==
    ASSUME UInv, NEW e \in Edits, NEW p \in Products, DraftBegins(e, p)
    PROVE  UInv'
<1>1. PICK list, slug, y :
          /\ list \in Given(e) /\ slug \in {"title", "made up"}
          /\ y = [NotEditing EXCEPT !.at = "drafting", !.of = {p}, !.list = list, !.given = list,
                                    !.reruns = edit[e].reruns, !.slug = slug]
          /\ edit' = [edit EXCEPT ![e] = y]
  BY DEF DraftBegins
<1>2. /\ UNCHANGED <<listing, tagged, usage, doubled>> /\ listing[p] = "none"
      /\ \A d \in Edits \ {e} : p \notin edit[d].of
  BY DEF DraftBegins, ProductFree
<1>3. DOMAIN edit' = Edits /\ edit'[e] = y /\ \A d \in Edits \ {e} : edit'[d] = edit[d]
  BY <1>1 DEF UInv, RowShapes
<1>4. /\ DOMAIN y = {"at", "of", "slug", "list", "given", "todo", "rows", "counts", "reruns"}
      /\ y.at = "drafting" /\ y.of = {p} /\ y.list = list /\ y.given = list /\ y.slug = slug
      /\ y.todo = {} /\ y.rows = {} /\ DOMAIN y.counts = {}
  BY <1>1, NoCallShape
<1>5. CallShape(e)'
  <2>1. list \in Seq(Tags) /\ IsFiniteSet({})
    BY <1>1, GivenLists, FS_EmptySet
  <2>2. Shape(y, tagged)
    BY <1>1, <1>4, <2>1, ZenonT(30) DEF Shape
  <2> QED
    BY <1>2, <1>3, <2>2 DEF CallShape
<1>6. ~ Writing(e)' /\ SlugFits(e)'
  BY <1>1, <1>2, <1>3, <1>4, ZenonT(30) DEF Writing, SlugFits
<1>7. TakenBy(e)' = {} /\ CountedRows(e)' = {} /\ DOMAIN edit'[e].counts = {}
  BY <1>3, <1>4, <1>6 DEF TakenBy, CountedRows
<1>8. CallFits(e)'
  <2>1. usage' \in [Tags -> Nat]
    BY <1>2 DEF UInv, RowShapes
  <2> QED
    BY <1>5, <1>6, <1>7, <2>1, NothingCounted DEF CallFits
<1>9. \A d \in Edits \ {e} : /\ edit'[e].of \cap edit[d].of = {}
                             /\ DOMAIN edit'[e].counts \cap DOMAIN edit[d].counts = {}
  BY <1>2, <1>3, <1>4
<1> QED
  BY <1>2, <1>3, <1>8, <1>9, OthersKeep, SMTT(20)

LEMMA ReplaceBeginsKeeps ==
    ASSUME UInv, NEW e \in Edits, NEW p \in Products, ReplaceBegins(e, p)
    PROVE  UInv'
<1>1. PICK list, y :
          /\ list \in Given(e)
          /\ y = [NotEditing EXCEPT !.at = "clearing", !.of = {p}, !.list = list, !.given = list,
                                    !.reruns = edit[e].reruns, !.todo = TakenFrom(p)]
          /\ edit' = [edit EXCEPT ![e] = y]
  BY DEF ReplaceBegins
<1>2. /\ UNCHANGED <<listing, tagged, usage, doubled>> /\ listing[p] # "none"
      /\ \A d \in Edits \ {e} : p \notin edit[d].of
  BY DEF ReplaceBegins, ProductFree
<1>3. DOMAIN edit' = Edits /\ edit'[e] = y /\ \A d \in Edits \ {e} : edit'[d] = edit[d]
  BY <1>1 DEF UInv, RowShapes
<1>4. /\ DOMAIN y = {"at", "of", "slug", "list", "given", "todo", "rows", "counts", "reruns"}
      /\ y.at = "clearing" /\ y.of = {p} /\ y.list = list /\ y.given = list /\ y.slug = "none"
      /\ y.todo = TakenFrom(p) /\ y.rows = {} /\ DOMAIN y.counts = {}
  BY <1>1, NoCallShape
<1>5. TakenFrom(p) \subseteq Tags /\ {Canonical[x] : x \in UNION {tagged[q] : q \in y.of}} = TakenFrom(p)
  <2>1. tagged[p] \subseteq Tags
    BY DEF UInv, RowShapes
  <2> QED
    BY <1>4, <2>1, OneProduct, ListingBounds DEF TakenFrom
<1>6. CallShape(e)'
  <2>1. list \in Seq(Tags) /\ IsFiniteSet({})
    BY <1>1, GivenLists, FS_EmptySet
  <2>2. Shape(y, tagged)
    BY <1>4, <1>5, <2>1 DEF Shape
  <2> QED
    BY <1>2, <1>3, <2>2 DEF CallShape
<1>7. SlugFits(e)'
  BY <1>2, <1>3, <1>4 DEF SlugFits
<1>8. TakenBy(e)' = {} /\ CountedRows(e)' = {} /\ DOMAIN edit'[e].counts = {}
  <2>1. CountedRows(e)' = {} /\ DOMAIN edit'[e].counts = {}
    BY <1>3, <1>4 DEF CountedRows
  <2>2. TakenBy(e)' \subseteq {Canonical[x] : x \in UNION {tagged[q] : q \in y.of}} \ y.todo
    BY <1>2, <1>3 DEF TakenBy
  <2> QED
    BY <1>4, <1>5, <2>1, <2>2
<1>9. CallFits(e)'
  <2>1. usage' \in [Tags -> Nat]
    BY <1>2 DEF UInv, RowShapes
  <2> QED
    BY <1>6, <1>7, <1>8, <2>1, NothingCounted DEF CallFits
<1>10. \A d \in Edits \ {e} : /\ edit'[e].of \cap edit[d].of = {}
                              /\ DOMAIN edit'[e].counts \cap DOMAIN edit[d].counts = {}
  BY <1>2, <1>3, <1>4
<1> QED
  BY <1>2, <1>3, <1>9, <1>10, OthersKeep

LEMMA DraftInsertsKeeps ==
    ASSUME UInv, NEW e \in Edits, DraftInserts(e)
    PROVE  UInv'
<1>0. UNCHANGED <<listing, tagged, usage, doubled>> /\ edit[e].at = "drafting" /\ ~ SlugHeld(e)
  BY DEF DraftInserts
<1>1. CASE edit[e].slug = "title" /\ \E q \in Products : listing[q] = "title"
  <2>1. PICK y : y = [NotEditing EXCEPT !.at = "done"]
    OBVIOUS
  <2>2. Quiet(y, e)
    <3>1. <<>> \in Seq(Tags)
      OBVIOUS
    <3> QED
      BY <2>1, <3>1, NoCallShape DEF Quiet
  <2>3. edit' = [edit EXCEPT ![e] = y]
    BY <1>1, <2>1 DEF DraftInserts
  <2> QED
    BY <1>0, <2>2, <2>3, QuietKeeps
<1>2. CASE ~ (edit[e].slug = "title" /\ \E q \in Products : listing[q] = "title")
  <2>1. PICK x, y : x = edit[e] /\ y = [x EXCEPT !.at = "tagging"]
    OBVIOUS
  <2>2. Shape(x, tagged) /\ SlugFits(e)
    BY <2>1 DEF UInv, CallFits, CallShape
  <2>3. DOMAIN edit' = Edits /\ edit'[e] = y /\ \A d \in Edits \ {e} : edit'[d] = edit[d]
    BY <1>2, <2>1 DEF DraftInserts, UInv, RowShapes
  <2>4. /\ DOMAIN y = {"at", "of", "slug", "list", "given", "todo", "rows", "counts", "reruns"}
        /\ y.at = "tagging" /\ y.of = x.of /\ y.list = x.list /\ y.given = x.given /\ y.slug = x.slug
        /\ y.todo = x.todo /\ y.rows = x.rows /\ y.counts = x.counts
    BY <2>1, <2>2 DEF Shape
  <2>5. PICK p \in Products : x.of = {p}
    BY <1>0, <2>1, <2>2 DEF Shape
  <2>6. x.todo = {} /\ x.rows = {} /\ DOMAIN x.counts = {} /\ listing[p] = "none" /\ x.slug # "none"
    BY <1>0, <2>1, <2>2, <2>5 DEF Shape, SlugFits
  <2>7. tagged[p] = {}
    BY <2>6 DEF UInv, RowShapes
  <2>8. CallShape(e)'
    <3>1. Shape(y, tagged)
      BY <2>2, <2>4, <2>5, <2>6 DEF Shape
    <3> QED
      BY <1>0, <2>3, <3>1 DEF CallShape
  <2>9. SlugFits(e)'
    <3>1. x.slug = "title" => /\ \A q \in Products : listing[q] # "title"
                              /\ \A d \in Edits \ {e} : ~ (edit[d].at \in {"tagging", "counting"} /\ edit[d].slug = "title")
      BY <1>0, <1>2, <2>1 DEF SlugHeld
    <3> QED
      BY <1>0, <2>3, <2>4, <2>6, <3>1 DEF SlugFits
  <2>10. TakenBy(e)' = {} /\ CountedRows(e)' = {} /\ DOMAIN edit'[e].counts = {}
    <3>1. CountedRows(e)' = {} /\ DOMAIN edit'[e].counts = {}
      BY <2>3, <2>4, <2>6 DEF CountedRows
    <3>2. TakenBy(e)' \subseteq {Canonical[z] : z \in UNION {tagged[q] : q \in {p}}}
      BY <1>0, <2>3, <2>4, <2>5 DEF TakenBy
    <3> QED
      BY <2>7, <3>1, <3>2
  <2>11. CallFits(e)'
    <3>1. usage' \in [Tags -> Nat]
      BY <1>0 DEF UInv, RowShapes
    <3> QED
      BY <2>8, <2>9, <2>10, <3>1, NothingCounted DEF CallFits
  <2>12. \A d \in Edits \ {e} : /\ edit'[e].of \cap edit[d].of = {}
                                /\ DOMAIN edit'[e].counts \cap DOMAIN edit[d].counts = {}
    BY <2>1, <2>3, <2>4, <2>10 DEF UInv, LockedOnce
  <2> QED
    BY <1>0, <2>3, <2>11, <2>12, OthersKeep
<1> QED
  BY <1>1, <1>2

-----------------------------------------------------------------------------
\* Counting.
LEMMA CountedStep ==
    ASSUME NEW e, NEW t, NEW n, edit'[e].counts = Counted(e, t, n), usage' = usage
    PROVE  /\ DOMAIN edit'[e].counts = DOMAIN edit[e].counts \cup {t}
           /\ Uses(t, e)' = n
           /\ \A u \in Tags : u # t => Uses(u, e)' = Uses(u, e)
  BY DEF Counted, Uses

\* What a step of a call that is writing has to show.
LEMMA WritingKeeps ==
    ASSUME UInv, NEW e \in Edits, UNCHANGED <<listing, tagged, usage, doubled>>, Writing(e),
           DOMAIN edit' = Edits, \A d \in Edits \ {e} : edit'[d] = edit[d],
           Shape(edit'[e], tagged), edit'[e].of = edit[e].of, edit'[e].slug = edit[e].slug,
           Writing(e)', edit'[e].at = "clearing" => edit[e].at = "clearing",
           \A d \in Edits \ {e} : DOMAIN edit'[e].counts \cap DOMAIN edit[d].counts = {},
           \A t \in Tags : UsesLeft(e, t)' /\ LocksWhatItCounts(e, t)'
    PROVE  UInv'
<1>1. CallShape(e)'
  BY DEF CallShape
<1>2. SlugFits(e)'
  <2>1. SlugFits(e)
    BY DEF UInv, CallFits
  <2>2. edit'[e].slug = "title" => edit'[e].at \in {"tagging", "counting"}
    BY <2>1 DEF SlugFits, Writing
  <2> QED
    BY <2>1, <2>2 DEF SlugFits, Writing
<1>3. CallFits(e)'
  BY <1>1, <1>2 DEF CallFits
<1>4. \A d \in Edits \ {e} : edit'[e].of \cap edit[d].of = {}
  BY DEF UInv, LockedOnce
<1> QED
  BY <1>3, <1>4, OthersKeep

\* A tag no other call has locked.
LEMMA FreeLocks ==
    ASSUME UInv, NEW e \in Edits, NEW t, TagFree(t, e), DOMAIN edit'[e].counts = DOMAIN edit[e].counts \cup {t}
    PROVE  \A d \in Edits \ {e} : DOMAIN edit'[e].counts \cap DOMAIN edit[d].counts = {}
<1> TAKE d \in Edits \ {e}
<1>1. DOMAIN edit[e].counts \cap DOMAIN edit[d].counts = {} /\ t \notin DOMAIN edit[d].counts
  BY DEF UInv, LockedOnce, TagFree
<1> QED
  BY <1>1

LEMMA TakeUseKeeps ==
    ASSUME UInv, NEW e \in Edits, NEW t, TakeUse(e, t)
    PROVE  UInv'
<1>0. /\ UNCHANGED <<listing, tagged, usage, doubled>> /\ edit[e].at = "clearing"
      /\ t \in edit[e].todo /\ TagFree(t, e) /\ CallFits(e) /\ CallShape(e)
  BY DEF TakeUse, UInv, CallFits
<1>1. PICK x, n, y : /\ x = edit[e] /\ n = IF Uses(t, e) > 0 THEN Uses(t, e) - 1 ELSE 0
                     /\ y = [x EXCEPT !.todo = x.todo \ {t}, !.counts = Counted(e, t, n)]
  OBVIOUS
<1>2. DOMAIN edit' = Edits /\ edit'[e] = y /\ \A d \in Edits \ {e} : edit'[d] = edit[d]
  BY <1>0, <1>1 DEF TakeUse, UInv, RowShapes, CallShape, Shape
<1>3. Shape(x, tagged)
  BY <1>0, <1>1 DEF CallShape
<1>4. /\ DOMAIN y = {"at", "of", "slug", "list", "given", "todo", "rows", "counts", "reruns"}
      /\ y.at = x.at /\ y.of = x.of /\ y.list = x.list /\ y.given = x.given /\ y.slug = x.slug
      /\ y.todo = x.todo \ {t} /\ y.rows = x.rows /\ y.counts = Counted(e, t, n)
  BY <1>1, <1>3 DEF Shape
<1>5. /\ DOMAIN y.counts = DOMAIN x.counts \cup {t} /\ Uses(t, e)' = n
      /\ \A u \in Tags : u # t => Uses(u, e)' = Uses(u, e)
  <2>1. edit'[e].counts = Counted(e, t, n) /\ usage' = usage
    BY <1>0, <1>2, <1>4
  <2>2. /\ DOMAIN edit'[e].counts = DOMAIN edit[e].counts \cup {t} /\ Uses(t, e)' = n
        /\ \A u \in Tags : u # t => Uses(u, e)' = Uses(u, e)
    BY <2>1, CountedStep
  <2> QED
    BY <1>1, <1>2, <2>2
<1>6. Shape(y, tagged)
  BY <1>0, <1>1, <1>3, <1>4, <1>5, ZenonT(30) DEF Shape
<1>7. Writing(e) /\ Writing(e)'
  BY <1>0, <1>1, <1>2, <1>4 DEF Writing
<1>8. TakenBy(e)' = TakenBy(e) \cup {t} /\ t \notin TakenBy(e)
  <2>1. PICK all : all = {Canonical[z] : z \in UNION {tagged[q] : q \in x.of}}
    OBVIOUS
  <2>2. TakenBy(e) = all \ x.todo /\ TakenBy(e)' = all \ y.todo
    BY <1>0, <1>1, <1>2, <1>4, <1>7, <2>1 DEF TakenBy
  <2>3. x.todo \subseteq all
    BY <1>0, <1>1, <1>3, <2>1 DEF Shape
  <2> QED
    BY <1>0, <1>1, <1>4, <2>2, <2>3
<1>9. CountedRows(e) = {} /\ CountedRows(e)' = {}
  BY <1>0, <1>1, <1>2, <1>3, <1>4, ZenonT(30) DEF CountedRows, Shape
<1>10. ASSUME NEW u \in Tags PROVE UsesLeft(e, u)' /\ LocksWhatItCounts(e, u)'
  <2>1. UsesLeft(e, u) /\ LocksWhatItCounts(e, u) /\ usage[u] \in Nat /\ usage'[u] = usage[u]
    BY <1>0 DEF CallFits, UInv, RowShapes
  <2>2. Named({}, u) = {} /\ Named(CountedRows(e), u)' = {} /\ Cardinality({}) = 0
    BY <1>9, FS_EmptySet DEF Named
  <2>3. UsesLeft(e, u)'
    <3>1. CASE u = t
      <4>1. Uses(t, e) = usage[t]
        BY <1>8, <1>9, <2>1, <2>2, <3>1 DEF UsesLeft
      <4>2. Uses(t, e)' = IF usage[t] > 0 THEN usage[t] - 1 ELSE usage[t]
        BY <1>1, <1>5, <2>1, <3>1, <4>1
      <4> QED
        BY <1>8, <2>1, <2>2, <3>1, <4>2 DEF UsesLeft
    <3>2. CASE u # t
      <4>1. Uses(u, e)' = Uses(u, e) /\ (u \in TakenBy(e)' <=> u \in TakenBy(e))
        BY <1>5, <1>8, <3>2
      <4> QED
        BY <1>9, <2>1, <2>2, <4>1 DEF UsesLeft
    <3> QED
      BY <3>1, <3>2
  <2>4. LocksWhatItCounts(e, u)'
    BY <1>1, <1>2, <1>5, <1>8, <1>9, <2>1, <2>2 DEF LocksWhatItCounts
  <2> QED
    BY <2>3, <2>4
<1>11. \A d \in Edits \ {e} : DOMAIN edit'[e].counts \cap DOMAIN edit[d].counts = {}
  <2>1. TagFree(t, e) /\ DOMAIN edit'[e].counts = DOMAIN edit[e].counts \cup {t}
    BY <1>0, <1>1, <1>2, <1>5
  <2> QED
    BY <2>1, FreeLocks
<1>12. Shape(edit'[e], tagged) /\ edit'[e].of = edit[e].of /\ edit'[e].slug = edit[e].slug
  BY <1>1, <1>2, <1>4, <1>6
<1> QED
  BY <1>0, <1>2, <1>7, <1>10, <1>11, <1>12, WritingKeeps

LEMMA RowsClearedKeeps ==
    ASSUME UInv, NEW e \in Edits, RowsCleared(e)
    PROVE  UInv'
<1>0. /\ UNCHANGED <<listing, tagged, usage, doubled>> /\ edit[e].at = "clearing"
      /\ edit[e].todo = {} /\ CallFits(e) /\ CallShape(e)
  BY DEF RowsCleared, UInv, CallFits
<1>1. PICK x, y : x = edit[e] /\ y = [x EXCEPT !.at = "tagging"]
  OBVIOUS
<1>2. DOMAIN edit' = Edits /\ edit'[e] = y /\ \A d \in Edits \ {e} : edit'[d] = edit[d]
  BY <1>0, <1>1 DEF RowsCleared, UInv, RowShapes
<1>3. Shape(x, tagged)
  BY <1>0, <1>1 DEF CallShape
<1>4. /\ DOMAIN y = {"at", "of", "slug", "list", "given", "todo", "rows", "counts", "reruns"}
      /\ y.at = "tagging" /\ y.of = x.of /\ y.list = x.list /\ y.given = x.given /\ y.slug = x.slug
      /\ y.todo = {} /\ y.rows = {} /\ x.rows = {} /\ y.counts = x.counts
  BY <1>0, <1>1, <1>3 DEF Shape
<1>5. Shape(y, tagged)
  <2>1. IsFiniteSet({})
    BY FS_EmptySet
  <2> QED
    BY <1>0, <1>1, <1>3, <1>4, <2>1 DEF Shape
<1>6. Writing(e) /\ Writing(e)'
  BY <1>0, <1>1, <1>2, <1>4 DEF Writing
<1>7. TakenBy(e)' = TakenBy(e) /\ CountedRows(e)' = CountedRows(e)
  BY <1>0, <1>1, <1>2, <1>4, <1>6 DEF TakenBy, CountedRows
<1>8. ASSUME NEW u \in Tags PROVE UsesLeft(e, u)' /\ LocksWhatItCounts(e, u)'
  <2>1. UsesLeft(e, u) /\ LocksWhatItCounts(e, u)
    BY <1>0 DEF CallFits
  <2>2. Uses(u, e)' = Uses(u, e) /\ Named(CountedRows(e), u)' = Named(CountedRows(e), u)
    BY <1>0, <1>1, <1>2, <1>4, <1>7 DEF Uses, Named
  <2> QED
    BY <1>0, <1>1, <1>2, <1>4, <1>7, <2>1, <2>2 DEF UsesLeft, LocksWhatItCounts
<1>9. \A d \in Edits \ {e} : DOMAIN edit'[e].counts \cap DOMAIN edit[d].counts = {}
  BY <1>1, <1>2, <1>4 DEF UInv, LockedOnce
<1>10. Shape(edit'[e], tagged) /\ edit'[e].of = edit[e].of /\ edit'[e].slug = edit[e].slug
  BY <1>1, <1>2, <1>4, <1>5
<1> QED
  BY <1>0, <1>2, <1>6, <1>8, <1>9, <1>10, WritingKeeps

LEMMA UpsertKeeps ==
    ASSUME UInv, NEW e \in Edits, UpsertTag(e)
    PROVE  UInv'
<1>0. /\ UNCHANGED <<listing, tagged, usage, doubled>> /\ edit[e].at = "tagging"
      /\ edit[e].list # <<>> /\ CallFits(e) /\ CallShape(e)
  BY DEF UpsertTag, UInv, CallFits
<1>1. PICK x, t, y :
          /\ x = edit[e] /\ t = Next1(e)
          /\ y = [x EXCEPT !.counts = Counted(e, t, Uses(t, e)),
                           !.at = IF t \in Banned \cup x.rows THEN "tagging" ELSE "counting",
                           !.list = IF t \in Banned \cup x.rows THEN Tail(x.list) ELSE x.list,
                           !.rows = IF t \in Banned THEN x.rows ELSE x.rows \cup {t}]
  OBVIOUS
<1>2. Shape(x, tagged)
  BY <1>0, <1>1 DEF CallShape
<1>3. TagFree(t, e) /\ edit' = [edit EXCEPT ![e] = y]
  <2>1. /\ TagFree(t, e)
        /\ edit' = [edit EXCEPT ![e] =
             [edit[e] EXCEPT !.counts = Counted(e, t, Uses(t, e)),
                       !.at = IF t \in Banned \cup edit[e].rows THEN "tagging" ELSE "counting",
                       !.list = IF t \in Banned \cup edit[e].rows THEN Tail(edit[e].list) ELSE edit[e].list,
                       !.rows = IF t \in Banned THEN edit[e].rows ELSE edit[e].rows \cup {t}]]
    BY <1>1 DEF UpsertTag
  <2>3. edit' = [edit EXCEPT ![e] =
             [x EXCEPT !.counts = Counted(e, t, Uses(t, e)),
                       !.at = IF t \in Banned \cup x.rows THEN "tagging" ELSE "counting",
                       !.list = IF t \in Banned \cup x.rows THEN Tail(x.list) ELSE x.list,
                       !.rows = IF t \in Banned THEN x.rows ELSE x.rows \cup {t}]]
    BY <1>1, <2>1, Zenon
  <2> QED
    BY <1>1, <2>1, <2>3, Zenon
<1>4. DOMAIN edit' = Edits /\ edit'[e] = y /\ \A d \in Edits \ {e} : edit'[d] = edit[d]
  BY <1>3 DEF UInv, RowShapes
<1>5. /\ DOMAIN y = {"at", "of", "slug", "list", "given", "todo", "rows", "counts", "reruns"}
      /\ y.at = (IF t \in Banned \cup x.rows THEN "tagging" ELSE "counting") /\ y.of = x.of /\ y.given = x.given
      /\ y.list = (IF t \in Banned \cup x.rows THEN Tail(x.list) ELSE x.list) /\ y.slug = x.slug /\ y.todo = x.todo
      /\ y.rows = (IF t \in Banned THEN x.rows ELSE x.rows \cup {t})
      /\ y.counts = Counted(e, t, Uses(t, e))
  BY <1>1, <1>2 DEF Shape
<1>6. x.list \in Seq(Tags) /\ x.list # <<>> /\ t = Head(x.list) /\ t \in Tags /\ y.list \in Seq(Tags)
  <2>1. x.list \in Seq(Tags) /\ x.list # <<>> /\ t = Head(x.list)
    BY <1>0, <1>1, <1>2 DEF Shape, Next1
  <2>2. t \in Tags /\ Tail(x.list) \in Seq(Tags)
    BY <2>1
  <2> QED
    BY <1>5, <2>1, <2>2
<1>7. DOMAIN y.counts = DOMAIN x.counts \cup {t} /\ \A u \in Tags : Uses(u, e)' = Uses(u, e)
  <2>1. edit'[e].counts = Counted(e, t, Uses(t, e)) /\ usage' = usage
    BY <1>0, <1>4, <1>5
  <2>2. /\ DOMAIN edit'[e].counts = DOMAIN edit[e].counts \cup {t} /\ Uses(t, e)' = Uses(t, e)
        /\ \A u \in Tags : u # t => Uses(u, e)' = Uses(u, e)
    BY <2>1, CountedStep
  <2> QED
    BY <1>1, <1>4, <2>2
<1>8. x.todo = {} /\ x.rows \subseteq Tags /\ IsFiniteSet(x.rows) /\ IsFiniteSet(x.rows \cup {t})
  <2>1. x.todo = {} /\ x.rows \subseteq Tags /\ IsFiniteSet(x.rows)
    BY <1>0, <1>1, <1>2 DEF Shape
  <2> QED
    BY <2>1, FS_AddElement
<1>9. Shape(y, tagged)
  <2>1. y.rows \subseteq Tags /\ IsFiniteSet(y.rows)
    BY <1>5, <1>6, <1>8
  <2>2. y.at = "counting" => y.list # <<>> /\ Head(y.list) \in y.rows
    BY <1>1, <1>5, <1>6
  <2>3. DOMAIN y.counts \subseteq Tags
    BY <1>2, <1>6, <1>7 DEF Shape
  <2>4. y.at \in {"tagging", "counting"} /\ x.at = "tagging"
    BY <1>0, <1>1, <1>5
  <2> QED
    BY <1>2, <1>5, <1>6, <1>8, <2>1, <2>2, <2>3, <2>4 DEF Shape
<1>10. Writing(e) /\ Writing(e)' /\ edit'[e].at # "clearing"
  BY <1>0, <1>1, <1>4, <1>5 DEF Writing
<1>11. TakenBy(e)' = TakenBy(e)
  BY <1>0, <1>1, <1>4, <1>5, <1>10 DEF TakenBy
<1>12. CountedRows(e) = x.rows /\ CountedRows(e)' = x.rows
  <2>1. CountedRows(e) = x.rows
    BY <1>0, <1>1 DEF CountedRows
  <2>2. CASE t \in Banned \cup x.rows
    <3>1. edit'[e].at = "tagging" /\ edit'[e].rows = y.rows
      BY <1>4, <1>5, <2>2
    <3>2. y.rows = x.rows
      BY <1>5, <2>2
    <3> QED
      BY <2>1, <3>1, <3>2 DEF CountedRows
  <2>3. CASE t \notin Banned \cup x.rows
    <3>1. Next1(e)' = t
      BY <1>4, <1>5, <1>6, <2>3 DEF Next1
    <3>2. CountedRows(e)' = (x.rows \cup {t}) \ {t}
      BY <1>1, <1>4, <1>5, <2>3, <3>1 DEF CountedRows
    <3> QED
      BY <1>1, <2>1, <2>3, <3>2
  <2> QED
    BY <2>1, <2>2, <2>3
<1>13. ASSUME NEW u \in Tags PROVE UsesLeft(e, u)' /\ LocksWhatItCounts(e, u)'
  <2>1. UsesLeft(e, u) /\ LocksWhatItCounts(e, u)
    BY <1>0 DEF CallFits
  <2>2. Named(CountedRows(e), u)' = Named(CountedRows(e), u)
    BY <1>12 DEF Named
  <2>3. UsesLeft(e, u)'
    BY <1>0, <1>7, <1>11, <2>1, <2>2 DEF UsesLeft
  <2>4. LocksWhatItCounts(e, u)'
    BY <1>1, <1>4, <1>7, <1>11, <2>1, <2>2 DEF LocksWhatItCounts
  <2> QED
    BY <2>3, <2>4
<1>14. \A d \in Edits \ {e} : DOMAIN edit'[e].counts \cap DOMAIN edit[d].counts = {}
  <2>1. TagFree(t, e) /\ DOMAIN edit'[e].counts = DOMAIN edit[e].counts \cup {t}
    BY <1>1, <1>3, <1>4, <1>7
  <2> QED
    BY <2>1, FreeLocks
<1>15. Shape(edit'[e], tagged) /\ edit'[e].of = edit[e].of /\ edit'[e].slug = edit[e].slug
  BY <1>1, <1>4, <1>5, <1>9
<1> QED
  BY <1>0, <1>4, <1>10, <1>13, <1>14, <1>15, WritingKeeps

LEMMA CountUseKeeps ==
    ASSUME UInv, NEW e \in Edits, CountUse(e)
    PROVE  UInv'
<1>0. /\ UNCHANGED <<listing, tagged, usage, doubled>> /\ edit[e].at = "counting"
      /\ CallFits(e) /\ CallShape(e)
  BY DEF CountUse, UInv, CallFits
<1>1. PICK x, h, t, y :
          /\ x = edit[e] /\ h = Next1(e) /\ t = Canonical[h]
          /\ y = [x EXCEPT !.counts = Counted(e, t, Uses(t, e) + 1), !.list = Tail(x.list), !.at = "tagging"]
  OBVIOUS
<1>2. Shape(x, tagged)
  BY <1>0, <1>1 DEF CallShape
<1>3. DOMAIN edit' = Edits /\ edit'[e] = y /\ \A d \in Edits \ {e} : edit'[d] = edit[d]
  <2>1. edit' = [edit EXCEPT ![e].counts = Counted(e, t, Uses(t, e) + 1), ![e].list = Tail(@), ![e].at = "tagging"]
    BY <1>1 DEF CountUse
  <2>2. e \in DOMAIN edit /\ DOMAIN edit = Edits
    BY DEF UInv, RowShapes
  <2> QED
    BY <1>1, <1>2, <2>1, <2>2 DEF Shape
<1>4. TagFree(t, e)
  BY <1>1 DEF CountUse
<1>5. /\ DOMAIN y = {"at", "of", "slug", "list", "given", "todo", "rows", "counts", "reruns"}
      /\ y.at = "tagging" /\ y.of = x.of /\ y.given = x.given /\ y.list = Tail(x.list)
      /\ y.slug = x.slug /\ y.todo = x.todo /\ y.rows = x.rows
      /\ y.counts = Counted(e, t, Uses(t, e) + 1)
  BY <1>1, <1>2 DEF Shape
<1>6. /\ x.list \in Seq(Tags) /\ y.list \in Seq(Tags) /\ x.todo = {} /\ x.rows \subseteq Tags
      /\ IsFiniteSet(x.rows) /\ h \in x.rows /\ t \in Tags
  <2>1. x.list \in Seq(Tags) /\ x.list # <<>> /\ h = Head(x.list) /\ h \in x.rows
        /\ x.todo = {} /\ x.rows \subseteq Tags /\ IsFiniteSet(x.rows)
    BY <1>0, <1>1, <1>2 DEF Shape, Next1
  <2>2. Tail(x.list) \in Seq(Tags)
    BY <2>1
  <2>3. t \in Tags
    BY <1>1, <2>1, ListingBounds
  <2> QED
    BY <1>5, <2>1, <2>2, <2>3
<1>7. /\ DOMAIN y.counts = DOMAIN x.counts \cup {t} /\ Uses(t, e)' = Uses(t, e) + 1
      /\ \A u \in Tags : u # t => Uses(u, e)' = Uses(u, e)
  <2>1. edit'[e].counts = Counted(e, t, Uses(t, e) + 1) /\ usage' = usage
    BY <1>0, <1>3, <1>5
  <2>2. /\ DOMAIN edit'[e].counts = DOMAIN edit[e].counts \cup {t} /\ Uses(t, e)' = Uses(t, e) + 1
        /\ \A u \in Tags : u # t => Uses(u, e)' = Uses(u, e)
    BY <2>1, CountedStep
  <2> QED
    BY <1>1, <1>3, <2>2
<1>8. Shape(y, tagged)
  <2>1. DOMAIN y.counts \subseteq Tags
    BY <1>2, <1>6, <1>7 DEF Shape
  <2> QED
    BY <1>0, <1>1, <1>2, <1>5, <1>6, <2>1, ZenonT(30) DEF Shape
<1>9. Writing(e) /\ Writing(e)' /\ edit'[e].at # "clearing"
  BY <1>0, <1>1, <1>3, <1>5 DEF Writing
<1>10. TakenBy(e)' = TakenBy(e)
  BY <1>0, <1>1, <1>3, <1>5, <1>9 DEF TakenBy
<1>11. CountedRows(e) = x.rows \ {h} /\ CountedRows(e)' = x.rows
  BY <1>0, <1>1, <1>3, <1>5 DEF CountedRows
<1>12. ASSUME NEW u \in Tags PROVE UsesLeft(e, u)' /\ LocksWhatItCounts(e, u)'
  <2>1. UsesLeft(e, u) /\ LocksWhatItCounts(e, u) /\ usage[u] \in Nat
    BY <1>0 DEF CallFits, UInv, RowShapes
  <2>2. CASE u # t
    <3>1. Named(CountedRows(e), u)' = Named(CountedRows(e), u)
      BY <1>1, <1>11, <2>2 DEF Named
    <3> QED
      BY <1>0, <1>1, <1>3, <1>7, <1>10, <2>1, <2>2, <3>1 DEF UsesLeft, LocksWhatItCounts
  <2>3. CASE u = t
    <3>1. PICK S : S = Named(x.rows \ {h}, t)
      OBVIOUS
    <3>2. Named(x.rows, t) = S \cup {h} /\ h \notin S
      BY <1>1, <1>6, <3>1 DEF Named
    <3>3. IsFiniteSet(S)
      <4>1. S \subseteq x.rows
        BY <3>1 DEF Named
      <4> QED
        BY <1>6, <4>1, FS_Subset
    <3>4. Cardinality(S \cup {h}) = Cardinality(S) + 1 /\ Cardinality(S) \in Nat
      BY <3>2, <3>3, FS_AddElement, FS_CardinalityType
    <3>5. Named(CountedRows(e), t) = S /\ Named(CountedRows(e), t)' = S \cup {h}
      BY <1>11, <3>1, <3>2 DEF Named
    <3>6. UsesLeft(e, t)'
      BY <1>0, <1>7, <1>10, <2>1, <2>3, <3>4, <3>5 DEF UsesLeft
    <3>7. LocksWhatItCounts(e, t)'
      BY <1>3, <1>7 DEF LocksWhatItCounts
    <3> QED
      BY <2>3, <3>6, <3>7
  <2> QED
    BY <2>2, <2>3
<1>13. \A d \in Edits \ {e} : DOMAIN edit'[e].counts \cap DOMAIN edit[d].counts = {}
  <2>1. TagFree(t, e) /\ DOMAIN edit'[e].counts = DOMAIN edit[e].counts \cup {t}
    BY <1>1, <1>3, <1>4, <1>7
  <2> QED
    BY <2>1, FreeLocks
<1>14. Shape(edit'[e], tagged) /\ edit'[e].of = edit[e].of /\ edit'[e].slug = edit[e].slug
  BY <1>1, <1>3, <1>5, <1>8
<1> QED
  BY <1>0, <1>3, <1>9, <1>12, <1>13, <1>14, WritingKeeps

-----------------------------------------------------------------------------
\* Committing.

\* As many rows of one product as names.
LEMMA RowsOfOne ==
    ASSUME NEW p, NEW S, IsFiniteSet(S)
    PROVE  IsFiniteSet({p} \X S) /\ Cardinality({p} \X S) = Cardinality(S)
<1> DEFINE row == [s \in S |-> <<p, s>>]
<1>1. row \in Bijection(S, {p} \X S)
  <2>1. row \in [S -> {p} \X S]
    OBVIOUS
  <2>2. \A s, z \in S : row[s] = row[z] => s = z
    OBVIOUS
  <2>3. \A r \in {p} \X S : \E s \in S : row[s] = r
    <3> TAKE r \in {p} \X S
    <3>1. r[2] \in S /\ r = <<p, r[2]>>
      OBVIOUS
    <3> QED
      BY <3>1
  <2> HIDE DEF row
  <2>4. row \in Injection(S, {p} \X S)
    BY <2>1, <2>2 DEF Injection, IsInjective
  <2>5. row \in Surjection(S, {p} \X S)
    BY <2>1, <2>3 DEF Surjection
  <2> QED
    BY <2>4, <2>5 DEF Bijection
<1>2. ExistsBijection(S, {p} \X S)
  BY <1>1 DEF ExistsBijection
<1> QED
  BY <1>2, FS_Bijection

\* The rows that count for a tag are those of one product and those of the others.
RowsElsewhere(p, t) == {r \in RowsOfTag(t) : r[1] # p}

LEMMA RowsSplit ==
    ASSUME RowShapes, NEW p \in Products, NEW t \in Tags
    PROVE  /\ RowsOfTag(t) = ({p} \X NamesOf(p, t)) \cup RowsElsewhere(p, t)
           /\ ({p} \X NamesOf(p, t)) \cap RowsElsewhere(p, t) = {}
           /\ IsFiniteSet(NamesOf(p, t))
<1>1. NamesOf(p, t) \subseteq tagged[p] /\ tagged[p] \subseteq Tags /\ IsFiniteSet(tagged[p])
  BY DEF NamesOf, RowShapes
<1>2. IsFiniteSet(NamesOf(p, t))
  BY <1>1, FS_Subset
<1>3. \A r \in {p} \X NamesOf(p, t) : r \in RowsOfTag(t) /\ r[1] = p
  BY <1>1 DEF RowsOfTag
<1>4. \A r \in RowsOfTag(t) : r[1] = p => r \in {p} \X NamesOf(p, t)
  BY DEF RowsOfTag
<1>5. \A r \in RowsElsewhere(p, t) : r \in RowsOfTag(t) /\ r[1] # p
  BY DEF RowsElsewhere
<1>6. \A r \in RowsOfTag(t) : r[1] # p => r \in RowsElsewhere(p, t)
  BY DEF RowsElsewhere
<1> QED
  BY <1>2, <1>3, <1>4, <1>5, <1>6

LEMMA EditCommitsKeeps ==
    ASSUME UInv, NEW e \in Edits, EditCommits(e)
    PROVE  UInv'
<1>0. /\ edit[e].at = "tagging" /\ CallFits(e) /\ CallShape(e) /\ SlugFits(e)
      /\ usage' = [t \in Tags |-> Uses(t, e)]
      /\ RowShapes /\ LockedOnce /\ OneTitle
  BY DEF EditCommits, UInv, CallFits
<1>1. PICK x, y : x = edit[e] /\ y = [NotEditing EXCEPT !.at = "done"]
  OBVIOUS
<1>2. Shape(x, tagged)
  BY <1>0, <1>1 DEF CallShape
<1>3. PICK p \in x.of : /\ listing' = [listing EXCEPT ![p] = IF @ = "none" THEN x.slug ELSE @]
                        /\ tagged' = [tagged EXCEPT ![p] = x.rows]
                        /\ doubled' = doubled \cup {t \in Tags : Cardinality(NamesOf(p, t)) > 1}
  BY <1>1 DEF EditCommits
<1>4. /\ p \in Products /\ x.of = {p} /\ x.todo = {} /\ x.rows \subseteq Tags /\ IsFiniteSet(x.rows)
      /\ x.slug \in {"none", "title", "made up"} /\ DOMAIN x.counts \subseteq Tags
  BY <1>0, <1>1, <1>2, <1>3 DEF Shape
<1>5. DOMAIN edit' = Edits /\ edit'[e] = y /\ \A d \in Edits \ {e} : edit'[d] = edit[d]
  BY <1>0, <1>1 DEF EditCommits, RowShapes
<1>6. /\ DOMAIN y = {"at", "of", "slug", "list", "given", "todo", "rows", "counts", "reruns"}
      /\ y.at = "done" /\ y.of = {} /\ y.slug = "none" /\ y.list = <<>> /\ y.given = <<>> /\ y.todo = {}
      /\ y.rows = {} /\ DOMAIN y.counts = {}
  BY <1>1, NoCallShape
<1>7. /\ tagged'[p] = x.rows /\ listing'[p] = IF listing[p] = "none" THEN x.slug ELSE listing[p]
      /\ \A q \in Products : q # p => tagged'[q] = tagged[q] /\ listing'[q] = listing[q]
  BY <1>0, <1>3, <1>4 DEF RowShapes
<1>8. /\ listing[p] = "none" => x.slug # "none"
      /\ x.slug = "title" => /\ \A q \in Products : listing[q] # "title"
                             /\ \A d \in Edits \ {e} : ~ (edit[d].at \in {"tagging", "counting"} /\ edit[d].slug = "title")
  BY <1>0, <1>1, <1>4 DEF SlugFits, Writing
<1>9. CountedRows(e) = x.rows /\ TakenBy(e) = TakenFrom(p)
  <2>1. Writing(e) /\ CountedRows(e) = x.rows
    BY <1>0, <1>1 DEF Writing, CountedRows
  <2>2. TakenBy(e) = {Canonical[z] : z \in UNION {tagged[q] : q \in {p}}} \ {}
    BY <1>1, <1>4, <2>1 DEF TakenBy
  <2> QED
    BY <2>1, <2>2, OneProduct
<1>10. ASSUME NEW t \in Tags
       PROVE  /\ usage[t] \in Nat /\ usage'[t] = Uses(t, e)
              /\ usage'[t] = (IF t \in TakenFrom(p) /\ usage[t] > 0 THEN usage[t] - 1 ELSE usage[t])
                                + Cardinality(Named(x.rows, t))
              /\ Cardinality(Named(x.rows, t)) \in Nat /\ IsFiniteSet(Named(x.rows, t))
              /\ usage'[t] \in Nat
  <2>1. UsesLeft(e, t) /\ usage[t] \in Nat /\ usage'[t] = Uses(t, e)
    BY <1>0 DEF CallFits, RowShapes
  <2>2. Named(x.rows, t) \subseteq x.rows
    BY DEF Named
  <2>3. IsFiniteSet(Named(x.rows, t)) /\ Cardinality(Named(x.rows, t)) \in Nat
    BY <1>4, <2>2, FS_Subset, FS_CardinalityType
  <2>4. Uses(t, e) = (IF t \in TakenFrom(p) /\ usage[t] > 0 THEN usage[t] - 1 ELSE usage[t])
                                + Cardinality(Named(x.rows, t))
    BY <1>9, <2>1 DEF UsesLeft
  <2> QED
    BY <2>1, <2>3, <2>4
<1>11. RowShapes'
  <2>1. listing' \in [Products -> {"none", "title", "made up"}]
    BY <1>0, <1>3, <1>4 DEF RowShapes
  <2>2. tagged' \in [Products -> SUBSET Tags]
    BY <1>0, <1>3, <1>4 DEF RowShapes
  <2>3. \A q \in Products : IsFiniteSet(tagged'[q]) /\ (listing'[q] = "none" => tagged'[q] = {})
    BY <1>0, <1>4, <1>7, <1>8, ZenonT(30) DEF RowShapes
  <2>4. usage' \in [Tags -> Nat]
    BY <1>0, <1>10
  <2> QED
    BY <1>5, <2>1, <2>2, <2>3, <2>4 DEF RowShapes
<1>12. LockedOnce'
  BY <1>0, <1>5, <1>6 DEF LockedOnce
<1>13. OneTitle'
  BY <1>0, <1>4, <1>7, <1>8, ZenonT(30) DEF OneTitle
<1>14. CallFits(e)'
  <2>1. CallShape(e)'
    <3>1. <<>> \in Seq(Tags) /\ IsFiniteSet({})
      BY FS_EmptySet
    <3>2. Shape(y, tagged')
      BY <1>6, <3>1 DEF Shape
    <3> QED
      BY <1>5, <3>2 DEF CallShape
  <2>2. ~ Writing(e)' /\ SlugFits(e)'
    BY <1>5, <1>6 DEF Writing, SlugFits
  <2>3. TakenBy(e)' = {} /\ CountedRows(e)' = {} /\ DOMAIN edit'[e].counts = {}
    BY <1>5, <1>6, <2>2 DEF TakenBy, CountedRows
  <2>4. usage' \in [Tags -> Nat]
    BY <1>11 DEF RowShapes
  <2> QED
    BY <2>1, <2>2, <2>3, <2>4, NothingCounted DEF CallFits
<1>15. ASSUME NEW d \in Edits, d # e PROVE CallFits(d)'
  <2>1. /\ CallFits(d) /\ CallShape(d) /\ SlugFits(d) /\ edit'[d] = edit[d]
        /\ p \notin edit[d].of /\ edit[d].of \subseteq Products
        /\ DOMAIN x.counts \cap DOMAIN edit[d].counts = {}
    <3>1. CallFits(d) /\ CallShape(d) /\ SlugFits(d)
      BY <1>15 DEF UInv, CallFits
    <3>2. edit[d].of \subseteq Products
      BY <3>1 DEF CallShape, Shape
    <3>3. x.of \cap edit[d].of = {} /\ DOMAIN x.counts \cap DOMAIN edit[d].counts = {}
      BY <1>0, <1>1, <1>15 DEF LockedOnce
    <3> QED
      BY <1>5, <1>15, <3>1, <3>2, <3>3
  <2>2. {Canonical[z] : z \in UNION {tagged'[q] : q \in edit[d].of}}
          = {Canonical[z] : z \in UNION {tagged[q] : q \in edit[d].of}}
    BY <1>7, <2>1
  <2>3. CallShape(d)'
    <3>1. Shape(edit[d], tagged)
      BY <2>1 DEF CallShape
    <3>2. Shape(edit[d], tagged')
      BY <2>2, <3>1 DEF Shape
    <3> QED
      BY <2>1, <3>2 DEF CallShape
  <2>4. Writing(d)' = Writing(d)
    BY <2>1 DEF Writing
  <2>5. TakenBy(d)' = TakenBy(d) /\ CountedRows(d)' = CountedRows(d)
    BY <2>1, <2>2, <2>4 DEF TakenBy, CountedRows, Next1
  <2>6. SlugFits(d)'
    <3>1. edit[d].at = "drafting" => edit[d].slug # "none" /\ \A q \in edit[d].of : listing'[q] = "none"
      BY <1>7, <2>1 DEF SlugFits
    <3>2. Writing(d) /\ edit[d].slug = "none" => \A q \in edit[d].of : listing'[q] # "none"
      BY <1>7, <2>1 DEF SlugFits
    <3>3. ASSUME Writing(d), edit[d].slug = "title"
          PROVE  /\ edit[d].at \in {"tagging", "counting"}
                 /\ \A q \in Products : listing'[q] # "title"
                 /\ \A c \in Edits \ {d} : ~ (edit'[c].at \in {"tagging", "counting"} /\ edit'[c].slug = "title")
      <4>1. /\ edit[d].at \in {"tagging", "counting"}
            /\ \A q \in Products : listing[q] # "title"
            /\ \A c \in Edits \ {d} : ~ (edit[c].at \in {"tagging", "counting"} /\ edit[c].slug = "title")
        BY <2>1, <3>3 DEF SlugFits
      <4>2. x.slug # "title"
        BY <1>8, <1>15, <3>3, <4>1
      <4>3. \A q \in Products : listing'[q] # "title"
        BY <1>7, <4>1, <4>2
      <4>4. ASSUME NEW c \in Edits \ {d}
            PROVE  ~ (edit'[c].at \in {"tagging", "counting"} /\ edit'[c].slug = "title")
        <5>1. CASE c = e
          BY <1>5, <1>6, <5>1
        <5>2. CASE c # e
          BY <1>5, <4>1, <5>2
        <5> QED
          BY <5>1, <5>2
      <4> QED
        BY <4>1, <4>3, <4>4
    <3> QED
      BY <2>1, <2>4, <3>1, <3>2, <3>3 DEF SlugFits
  <2>7. ASSUME NEW t \in Tags PROVE UsesLeft(d, t)' /\ LocksWhatItCounts(d, t)'
    <3>1. UsesLeft(d, t) /\ LocksWhatItCounts(d, t)
      BY <2>1 DEF CallFits
    <3>2. Named(CountedRows(d), t)' = Named(CountedRows(d), t)
      BY <2>5 DEF Named
    <3>3. LocksWhatItCounts(d, t)'
      BY <2>1, <2>5, <3>1, <3>2 DEF LocksWhatItCounts
    <3>4. CASE t \in DOMAIN edit[d].counts
      <4>1. Uses(t, e) = usage[t]
        BY <1>1, <2>1, <3>4 DEF Uses
      <4>2. usage'[t] = usage[t] /\ Uses(t, d)' = Uses(t, d)
        BY <1>10, <2>1, <3>4, <4>1 DEF Uses
      <4> QED
        BY <2>5, <3>1, <3>2, <3>3, <4>2 DEF UsesLeft
    <3>5. CASE t \notin DOMAIN edit[d].counts
      <4>1. t \notin TakenBy(d) /\ Named(CountedRows(d), t) = {}
        BY <3>1, <3>5 DEF LocksWhatItCounts
      <4>2. Uses(t, d)' = usage'[t] /\ usage'[t] \in Nat
        BY <1>10, <2>1, <3>5 DEF Uses
      <4>3. Cardinality({}) = 0
        BY FS_EmptySet
      <4> QED
        BY <2>5, <3>2, <3>3, <4>1, <4>2, <4>3 DEF UsesLeft
    <3> QED
      BY <3>4, <3>5
  <2> QED
    BY <2>3, <2>6, <2>7 DEF CallFits
<1>16. ASSUME NEW t \in Tags PROVE RowsCounted(t)'
  <2>1. PICK B : B = RowsElsewhere(p, t)
    OBVIOUS
  <2>2. /\ RowsOfTag(t) = ({p} \X NamesOf(p, t)) \cup B /\ ({p} \X NamesOf(p, t)) \cap B = {}
        /\ IsFiniteSet(NamesOf(p, t))
    BY <1>0, <1>4, <2>1, RowsSplit
  <2>3. RowsCounted(t)
    BY DEF UInv
  <2>4. IsFiniteSet(B)
    <3>1. B \subseteq RowsOfTag(t) /\ IsFiniteSet(RowsOfTag(t))
      BY <2>2, <2>3 DEF RowsCounted
    <3> QED
      BY <3>1, FS_Subset
  <2>5. RowsOfTag(t)' = ({p} \X Named(x.rows, t)) \cup B
    <3>1. ASSUME NEW r \in Products \X Tags
          PROVE  r[2] \in NamesOf(r[1], t)' <=> r \in ({p} \X Named(x.rows, t)) \cup B
      <4>1. r = <<r[1], r[2]>> /\ r[1] \in Products /\ r[2] \in Tags
        OBVIOUS
      <4>2. r \in B <=> r[1] # p /\ r[2] \in NamesOf(r[1], t)
        BY <2>1 DEF RowsElsewhere, RowsOfTag
      <4>3. CASE r[1] = p
        BY <1>7, <4>1, <4>2, <4>3 DEF NamesOf, Named
      <4>4. CASE r[1] # p
        BY <1>7, <4>1, <4>2, <4>4 DEF NamesOf
      <4> QED
        BY <4>3, <4>4
    <3>2. ({p} \X Named(x.rows, t)) \cup B \subseteq Products \X Tags
      <4>1. Named(x.rows, t) \subseteq Tags
        BY <1>4 DEF Named
      <4>2. B \subseteq Products \X Tags
        BY <2>1 DEF RowsElsewhere, RowsOfTag
      <4> QED
        BY <1>4, <4>1, <4>2
    <3>3. RowsOfTag(t)' = {r \in Products \X Tags : r[2] \in NamesOf(r[1], t)'}
      BY DEF RowsOfTag
    <3> QED
      BY <3>1, <3>2, <3>3
  <2>6. ({p} \X Named(x.rows, t)) \cap B = {}
    BY <2>1 DEF RowsElsewhere
  <2>7. PICK k, m, n : k = Cardinality(NamesOf(p, t)) /\ m = Cardinality(B) /\ n = Cardinality(Named(x.rows, t))
    OBVIOUS
  <2>8. k \in Nat /\ m \in Nat /\ n \in Nat
    BY <1>10, <2>2, <2>4, <2>7, FS_CardinalityType
  <2>9. Cardinality(RowsOfTag(t)) = k + m
    <3>1. IsFiniteSet({p} \X NamesOf(p, t)) /\ Cardinality({p} \X NamesOf(p, t)) = k
      BY <2>2, <2>7, RowsOfOne
    <3> QED
      BY <2>2, <2>4, <2>7, <3>1, Apart
  <2>10. IsFiniteSet(RowsOfTag(t)') /\ Cardinality(RowsOfTag(t)') = n + m
    <3>1. IsFiniteSet({p} \X Named(x.rows, t)) /\ Cardinality({p} \X Named(x.rows, t)) = n
      BY <1>10, <2>7, RowsOfOne
    <3>2. IsFiniteSet(({p} \X Named(x.rows, t)) \cup B)
      BY <2>4, <3>1, FS_Union
    <3> QED
      BY <2>4, <2>5, <2>6, <2>7, <3>1, <3>2, Apart
  <2>11. t \in TakenFrom(p) <=> k # 0
    <3>1. k = 0 <=> NamesOf(p, t) = {}
      BY <2>2, <2>7, FS_EmptySet
    <3>2. t \in TakenFrom(p) <=> NamesOf(p, t) # {}
      BY DEF TakenFrom, NamesOf
    <3> QED
      BY <3>1, <3>2
  <2>12. usage[t] >= k + m /\ (t \notin doubled => usage[t] = k + m)
    BY <2>3, <2>9 DEF RowsCounted
  <2>13. /\ usage[t] \in Nat
         /\ usage'[t] = (IF k # 0 /\ usage[t] > 0 THEN usage[t] - 1 ELSE usage[t]) + n
    BY <1>10, <2>7, <2>11
  <2>14. t \notin doubled' => t \notin doubled /\ k <= 1
    BY <1>3, <2>7, <2>8
  <2>15. usage'[t] >= n + m /\ (t \notin doubled' => usage'[t] = n + m)
    <3>1. CASE k = 0
      BY <2>8, <2>12, <2>13, <2>14, <3>1
    <3>2. CASE k # 0
      <4>1. usage'[t] = usage[t] - 1 + n
        BY <2>8, <2>12, <2>13, <3>2
      <4> QED
        BY <2>8, <2>12, <2>13, <2>14, <3>2, <4>1
    <3> QED
      BY <3>1, <3>2
  <2> QED
    BY <2>10, <2>15 DEF RowsCounted
<1>17. \A d \in Edits : CallFits(d)'
  BY <1>14, <1>15
<1> QED
  BY <1>11, <1>12, <1>13, <1>16, <1>17 DEF UInv

LEMMA ListingSteps == UInv /\ [ListingNext]_listingVars => UInv'
<1> SUFFICES ASSUME UInv, [ListingNext]_listingVars PROVE UInv'
  OBVIOUS
<1>1. CASE UNCHANGED listingVars
  <2>1. UNCHANGED <<listing, tagged, usage, edit, doubled>>
    BY <1>1 DEF listingVars
  <2>2. RowShapes' /\ LockedOnce' /\ OneTitle'
    BY <2>1 DEF UInv, RowShapes, LockedOnce, OneTitle
  <2>3. ASSUME NEW e \in Edits PROVE CallFits(e)'
    <3>1. CallFits(e)
      BY DEF UInv
    <3>2. CallShape(e)' /\ SlugFits(e)'
      BY <2>1, <3>1 DEF CallFits, CallShape, SlugFits, Writing
    <3>3. \A t \in Tags : UsesLeft(e, t)' /\ LocksWhatItCounts(e, t)'
      <4>1. TakenBy(e)' = TakenBy(e) /\ CountedRows(e)' = CountedRows(e)
        BY <2>1 DEF TakenBy, CountedRows, Writing, Next1
      <4>2. \A t \in Tags : Uses(t, e)' = Uses(t, e) /\ Named(CountedRows(e), t)' = Named(CountedRows(e), t)
        BY <2>1, <4>1 DEF Uses, Named
      <4> QED
        BY <2>1, <3>1, <4>1, <4>2 DEF CallFits, UsesLeft, LocksWhatItCounts
    <3> QED
      BY <3>2, <3>3 DEF CallFits
  <2>4. ASSUME NEW t \in Tags PROVE RowsCounted(t)'
    <3>1. RowsCounted(t) /\ RowsOfTag(t)' = RowsOfTag(t)
      BY <2>1 DEF UInv, RowsOfTag, NamesOf
    <3> QED
      BY <2>1, <3>1 DEF RowsCounted
  <2> QED
    BY <2>2, <2>3, <2>4 DEF UInv
<1>2. CASE ListingNext
  <2>1. PICK e \in Edits : \/ Draft(e) \/ ReplaceTags(e) \/ ApplyTags(e)
                           \/ EditCommits(e) \/ EditDeadlocks(e) \/ EditLost(e)
    BY <1>2 DEF ListingNext
  <2>2. CASE Draft(e)
    BY <2>2, DraftInsertsKeeps, DraftBeginsKeeps DEF Draft
  <2>3. CASE ReplaceTags(e)
    BY <2>3, ReplaceBeginsKeeps, TakeUseKeeps, RowsClearedKeeps DEF ReplaceTags
  <2>4. CASE ApplyTags(e)
    BY <2>4, UpsertKeeps, CountUseKeeps DEF ApplyTags
  <2> QED
    BY <2>1, <2>2, <2>3, <2>4, EditCommitsKeeps, DeadlocksKeep, LostKeeps
<1> QED
  BY <1>1, <1>2

\* "Usage counts follow the rows" (tags.go:97), for every set of products, tags, synonyms and
\* calls: however edits interleave, wait, are run again or are lost, a tag is never counted
\* less often than products are tagged with it or a synonym, and exactly as often but for the
\* tags a product had two names of; and two products never have one slug.
THEOREM UsageAlwaysFollowsRows == ListingSpec => []UsageFollowsRows
<1>1. UInv => UsageFollowsRows
  BY DEF UInv, RowsCounted, OneTitle, UsageFollowsRows
<1>2. ListingSpec => []UInv
  BY ListingBegins, ListingSteps, PTL DEF ListingSpec
<1> QED
  BY <1>1, <1>2, PTL

-----------------------------------------------------------------------------
(***************************************************************************)
(* What holds of Pricing for any prices, commissions, bearers of the fee   *)
(* and numbers of parts.                                                   *)
(*                                                                         *)
(* Halves bounds the rounding, Accumulate adds a part to those before it,  *)
(* Residue bounds what five shares leave of an amount; all three are facts *)
(* of division and distribution, in which each product is given a name.    *)
(* That a capture's components make the total follows from its entry: the  *)
(* ledger refuses one that does not balance.                               *)
(***************************************************************************)

LEMMA Division ==
    ASSUME NEW a \in Int, NEW d \in Nat \ {0}
    PROVE  a \div d \in Int /\ d * (a \div d) <= a /\ a < d * (a \div d) + d
  OBVIOUS

LEMMA Halves ==
    ASSUME NEW n \in Int, NEW den \in Nat \ {0}
    PROVE  /\ HalfUp(n, den) \in Int /\ (n >= 0 => HalfUp(n, den) >= 0)
           /\ Near(2 * HalfUp(n, den) * den, 2 * n, den)
<1>1. PICK a, d, h : a = 2 * n + den /\ d = 2 * den /\ h = a \div d
  OBVIOUS
<1>2. a \in Int /\ d \in Nat \ {0}
  BY <1>1
<1>3. h \in Int /\ d * h <= a /\ a < d * h + d
  BY <1>1, <1>2, Division
<1>4. HalfUp(n, den) = h
  BY <1>1 DEF HalfUp
<1>5. 2 * h * den = d * h
  BY <1>1, <1>3
<1>6. n >= 0 => h >= 0
  BY <1>1, <1>2, <1>3
<1>7. Near(2 * h * den, 2 * n, den)
  <2>1. PICK z : z = d * h
    OBVIOUS
  <2> QED
    BY <1>1, <1>2, <1>3, <1>5, <2>1 DEF Near
<1> QED
  BY <1>3, <1>4, <1>6, <1>7

\* What a part takes back is its proportion to within half a unit.
LEMMA Rounded ==
    ASSUME Total \in Nat \ {0}, NEW w \in Int, NEW amount \in Int
    PROVE  Share(w, amount) \in Int /\ Near(2 * Share(w, amount) * Total, 2 * w * amount, Total)
<1>1. CASE amount = Total
  <2>1. Share(w, amount) = w
    BY <1>1 DEF Share
  <2>2. PICK z : z = 2 * w * Total /\ z \in Int
    OBVIOUS
  <2> QED
    BY <1>1, <2>1, <2>2 DEF Near
<1>2. CASE amount # Total
  <2>1. w * amount \in Int /\ 2 * w * amount = 2 * (w * amount)
    OBVIOUS
  <2> QED
    BY <1>2, <2>1, Halves DEF Share
<1> QED
  BY <1>1, <1>2

LEMMA Accumulate ==
    ASSUME NEW T \in Nat \ {0}, NEW g \in Int, NEW s \in Int, NEW w \in Int, NEW r \in Int,
           NEW a \in Int, NEW p \in Nat,
           Near(2 * g * T, 2 * w * r, p * T), Near(2 * s * T, 2 * w * a, T)
    PROVE  Near(2 * (g + s) * T, 2 * w * (r + a), (p + 1) * T)
<1>1. /\ 2 * (g + s) * T = 2 * g * T + 2 * s * T /\ 2 * w * (r + a) = 2 * w * r + 2 * w * a
      /\ (p + 1) * T = p * T + T
  OBVIOUS
<1>2. PICK gt, st, wr, wa, pt : gt = 2 * g * T /\ st = 2 * s * T /\ wr = 2 * w * r /\ wa = 2 * w * a /\ pt = p * T
  OBVIOUS
<1>3. gt \in Int /\ st \in Int /\ wr \in Int /\ wa \in Int /\ pt \in Int
  BY <1>2
<1> QED
  BY <1>1, <1>2, <1>3 DEF Near

\* The five shares of a part leave two units at most.
LEMMA Residue ==
    ASSUME NEW T \in Nat \ {0}, NEW a \in Int, NEW u, NEW s,
           u["net"] + u["commission"] + u["commissionGST"] + u["tcs"] + u["tds"] = T,
           \A c \in Components : u[c] \in Int /\ s[c] \in Int /\ Near(2 * s[c] * T, 2 * u[c] * a, T)
    PROVE  Near(a - (s["net"] + s["commission"] + s["commissionGST"] + s["tcs"] + s["tds"]), 0, 2)
<1>1. PICK u1, u2, u3, u4, u5, s1, s2, s3, s4, s5 :
         /\ u1 = u["net"] /\ u2 = u["commission"] /\ u3 = u["commissionGST"] /\ u4 = u["tcs"] /\ u5 = u["tds"]
         /\ s1 = s["net"] /\ s2 = s["commission"] /\ s3 = s["commissionGST"] /\ s4 = s["tcs"] /\ s5 = s["tds"]
  OBVIOUS
<1>2. "net" \in Components /\ "commission" \in Components /\ "commissionGST" \in Components
      /\ "tcs" \in Components /\ "tds" \in Components
  BY DEF Components
<1>3. /\ u1 \in Int /\ u2 \in Int /\ u3 \in Int /\ u4 \in Int /\ u5 \in Int
      /\ s1 \in Int /\ s2 \in Int /\ s3 \in Int /\ s4 \in Int /\ s5 \in Int
      /\ u1 + u2 + u3 + u4 + u5 = T
  BY <1>1, <1>2
<1>4. /\ Near(2 * s1 * T, 2 * u1 * a, T) /\ Near(2 * s2 * T, 2 * u2 * a, T)
      /\ Near(2 * s3 * T, 2 * u3 * a, T) /\ Near(2 * s4 * T, 2 * u4 * a, T)
      /\ Near(2 * s5 * T, 2 * u5 * a, T)
  BY <1>1, <1>2
<1>5. PICK x : x = a - (s1 + s2 + s3 + s4 + s5)
  OBVIOUS
<1>6. x \in Int
  BY <1>5, <1>3
<1>7. 2 * u1 * a + 2 * u2 * a + 2 * u3 * a + 2 * u4 * a + 2 * u5 * a = 2 * T * a
  <2>1. 2 * u1 * a + 2 * u2 * a + 2 * u3 * a + 2 * u4 * a + 2 * u5 * a = 2 * (u1 + u2 + u3 + u4 + u5) * a
    BY <1>3
  <2> QED
    BY <1>3, <2>1
<1>8. 2 * x * T = 2 * T * a - (2 * s1 * T + 2 * s2 * T + 2 * s3 * T + 2 * s4 * T + 2 * s5 * T)
  BY <1>5, <1>3
<1>9. Near(2 * x * T, 0, 5 * T)
  <2>1. PICK a1, a2, a3, a4, a5 : a1 = 2 * u1 * a /\ a2 = 2 * u2 * a /\ a3 = 2 * u3 * a /\ a4 = 2 * u4 * a /\ a5 = 2 * u5 * a
    OBVIOUS
  <2>2. PICK b1, b2, b3, b4, b5 : b1 = 2 * s1 * T /\ b2 = 2 * s2 * T /\ b3 = 2 * s3 * T /\ b4 = 2 * s4 * T /\ b5 = 2 * s5 * T
    OBVIOUS
  <2>3. PICK y, z : y = 2 * x * T /\ z = 2 * T * a
    OBVIOUS
  <2>4. /\ a1 \in Int /\ a2 \in Int /\ a3 \in Int /\ a4 \in Int /\ a5 \in Int
        /\ b1 \in Int /\ b2 \in Int /\ b3 \in Int /\ b4 \in Int /\ b5 \in Int /\ y \in Int /\ z \in Int
    BY <1>6, <1>3, <2>1, <2>2, <2>3
  <2>5. a1 + a2 + a3 + a4 + a5 = z /\ y = z - (b1 + b2 + b3 + b4 + b5)
    BY <1>7, <1>8, <2>1, <2>2, <2>3
  <2>6. Near(b1, a1, T) /\ Near(b2, a2, T) /\ Near(b3, a3, T) /\ Near(b4, a4, T) /\ Near(b5, a5, T)
    BY <1>4, <2>1, <2>2
  <2>7. Near(y, 0, 5 * T)
    BY <2>4, <2>5, <2>6 DEF Near
  <2> QED
    BY <2>3, <2>7
<1>10. x <= 2
  <2>1. ASSUME x >= 3 PROVE FALSE
    <3>1. 2 * x * T >= 2 * 3 * T
      BY <1>6, <2>1
    <3> QED
      BY <1>6, <1>9, <3>1 DEF Near
  <2> QED
    BY <1>6, <2>1
<1>11. -2 <= x
  <2>1. ASSUME x <= -3 PROVE FALSE
    <3>1. 2 * x * T <= 2 * (-3) * T
      BY <1>6, <2>1
    <3> QED
      BY <1>6, <1>9, <3>1 DEF Near
  <2> QED
    BY <1>6, <2>1
<1> QED
  BY <1>1, <1>5, <1>6, <1>10, <1>11 DEF Near

-----------------------------------------------------------------------------
\* Sums of entries.
LEMMA SumIs ==
    ASSUME NEW f
    PROVE  SumOf(f) = SumFunctionOnSet(f, DOMAIN f)
  BY DEF SumOf, SumFunctionOnSet, FoldFunction

\* The lines S of f sum to n.
SumsTo(f, S, n) ==
    IsFiniteSet(S) /\ (\A y \in S : f[y] \in Int) /\ n \in Int /\ SumFunctionOnSet(f, S) = n

LEMMA OneMoreLine ==
    ASSUME NEW f, NEW S, NEW n, SumsTo(f, S, n), NEW x, x \notin S, f[x] \in Int
    PROVE  SumsTo(f, S \cup {x}, n + f[x])
<1>1. IsFiniteSet(S) /\ (\A y \in S : f[y] \in Int) /\ n \in Int /\ SumFunctionOnSet(f, S) = n
  BY DEF SumsTo
<1>2. IsFiniteSet(S \cup {x})
  BY <1>1, FS_AddElement
<1>3. SumFunctionOnSet(f, S \cup {x}) = SumFunctionOnSet(f, S) + f[x]
  BY <1>1, SumAdd
<1> QED
  BY <1>1, <1>2, <1>3 DEF SumsTo

LEMMA SumOfFive ==
    ASSUME NEW f, \A c \in Components : f[c] \in Int
    PROVE  /\ SumFunctionOnSet(f, Components)
                = f["net"] + f["commission"] + f["commissionGST"] + f["tcs"] + f["tds"]
           /\ IsFiniteSet(Components)
<1>0. /\ f["net"] \in Int /\ f["commission"] \in Int /\ f["commissionGST"] \in Int
      /\ f["tcs"] \in Int /\ f["tds"] \in Int
  BY DEF Components
<1>1. SumsTo(f, {}, 0)
  BY SumEmpty, FS_EmptySet DEF SumsTo
<1>2. SumsTo(f, {} \cup {"net"}, 0 + f["net"])
  BY <1>0, <1>1, OneMoreLine
<1>3. SumsTo(f, {"net"}, f["net"])
  <2>1. {} \cup {"net"} = {"net"} /\ 0 + f["net"] = f["net"]
    BY <1>0
  <2> QED
    BY <1>2, <2>1
<1>4. SumsTo(f, {"net"} \cup {"commission"}, f["net"] + f["commission"])
  BY <1>0, <1>3, OneMoreLine
<1>5. SumsTo(f, ({"net"} \cup {"commission"}) \cup {"commissionGST"}, f["net"] + f["commission"] + f["commissionGST"])
  <2>1. "commissionGST" \notin {"net"} \cup {"commission"}
    OBVIOUS
  <2> QED
    BY <1>0, <1>4, <2>1, OneMoreLine
<1>6. SumsTo(f, (({"net"} \cup {"commission"}) \cup {"commissionGST"}) \cup {"tcs"},
             f["net"] + f["commission"] + f["commissionGST"] + f["tcs"])
  <2>1. "tcs" \notin ({"net"} \cup {"commission"}) \cup {"commissionGST"}
    OBVIOUS
  <2> QED
    BY <1>0, <1>5, <2>1, OneMoreLine
<1>7. SumsTo(f, ((({"net"} \cup {"commission"}) \cup {"commissionGST"}) \cup {"tcs"}) \cup {"tds"},
             f["net"] + f["commission"] + f["commissionGST"] + f["tcs"] + f["tds"])
  <2>1. "tds" \notin (({"net"} \cup {"commission"}) \cup {"commissionGST"}) \cup {"tcs"}
    OBVIOUS
  <2> QED
    BY <1>0, <1>6, <2>1, OneMoreLine
<1>8. ((({"net"} \cup {"commission"}) \cup {"commissionGST"}) \cup {"tcs"}) \cup {"tds"} = Components
  BY DEF Components
<1> QED
  BY <1>7, <1>8 DEF SumsTo

LEMMA BookFinite == IsFiniteSet(BookAccounts) /\ Components \subseteq BookAccounts
<1>1. IsFiniteSet(Components)
  <2>1. \A c \in Components : [d \in Components |-> 0][c] \in Int
    OBVIOUS
  <2> QED
    BY <2>1, SumOfFive
<1>2. PICK S1, S2, S3, S4, S5 :
          /\ S1 = Components \cup {"clearing"} /\ S2 = S1 \cup {"expense"} /\ S3 = S2 \cup {"input credit"}
          /\ S4 = S3 \cup {"receivable"} /\ S5 = S4 \cup {"absorbed"}
  OBVIOUS
<1>3. IsFiniteSet(S1) /\ IsFiniteSet(S2) /\ IsFiniteSet(S3) /\ IsFiniteSet(S4) /\ IsFiniteSet(S5)
  BY <1>1, <1>2, FS_AddElement
<1>4. S5 = BookAccounts
  BY <1>2 DEF BookAccounts
<1> QED
  BY <1>3, <1>4 DEF BookAccounts

\* Posting adds an entry's sum to the books'.
LEMMA PostedSum ==
    ASSUME NEW book \in [BookAccounts -> Int], NEW lines, DOMAIN lines \subseteq BookAccounts,
           \A a \in DOMAIN lines : lines[a] \in Int
    PROVE  /\ Posted(lines, book) \in [BookAccounts -> Int]
           /\ SumOf(Posted(lines, book)) = SumOf(book) + SumOf(lines)
<1> DEFINE D == DOMAIN lines
           p == Posted(lines, book)
           l == [a \in BookAccounts |-> IF a \in D THEN lines[a] ELSE 0]
<1>1. p \in [BookAccounts -> Int] /\ DOMAIN p = BookAccounts /\ DOMAIN book = BookAccounts
  BY DEF Posted
<1>2. \A a \in BookAccounts : l[a] = IF a \in D THEN lines[a] ELSE 0
  OBVIOUS
<1>3. \A a \in BookAccounts : book[a] \in Int /\ l[a] \in Int /\ p[a] = book[a] + l[a]
  BY DEF Posted
<1>4. D \in SUBSET BookAccounts /\ \A a \in D : lines[a] \in Int
  OBVIOUS
<1> HIDE DEF D, p, l
<1>5. SumFunctionOnSet(p, BookAccounts) = SumFunctionOnSet(book, BookAccounts) + SumFunctionOnSet(l, BookAccounts)
  BY <1>3, BookFinite, SumPlus
<1>6. SumFunctionOnSet(l, BookAccounts) = SumFunctionOnSet(lines, D)
  BY <1>2, <1>4, BookFinite, SumWithin
<1> QED
  BY <1>1, <1>5, <1>6, SumIs DEF D, p

-----------------------------------------------------------------------------
\* It leaves the other accounts as they were.
LEMMA PostedElsewhere ==
    ASSUME NEW book, NEW lines, NEW a \in BookAccounts, book[a] \in Int, a \notin DOMAIN lines
    PROVE  Posted(lines, book)[a] = book[a]
  BY DEF Posted

\* What the refunds of a whole line take back of a component.
Whole == [c \in Components \cup {"fee"} |-> IF c = "fee" THEN PSPFee(Total) ELSE Bill(input)[c]]

Proportions ==
    \A c \in Components \cup {"fee"} : Near(2 * given[c] * Total, 2 * Whole[c] * refunded, parts * Total)

PInv ==
    /\ input \in Inputs
    /\ status \in {"new", "quoted", "refused", "paid", "unpayable"}
    /\ balance \in [BookAccounts -> Int]
    /\ refunded \in Nat /\ refunded <= Total /\ parts \in Nat
    /\ given \in [Components \cup {"fee"} -> Int]
    /\ status = "paid" => Total # 0 /\ SumOf(Bill(input)) = Total
    /\ parts = 0 => refunded = 0 /\ \A c \in Components \cup {"fee"} : given[c] = 0
    /\ Proportions
    /\ parts = 1 /\ refunded = Total => given = Whole
    /\ Near(balance["absorbed"], 0, 2 * parts)
    /\ SumOf(balance) = 0

LEMMA Amount ==
    ASSUME NEW a \in Nat, NEW rate \in Nat
    PROVE  Bps(a, rate) \in Nat
<1>1. a * rate \in Int /\ a * rate >= 0 /\ 10000 \in Nat \ {0}
  OBVIOUS
<1>2. HalfUp(a * rate, 10000) \in Int /\ HalfUp(a * rate, 10000) >= 0
  BY <1>1, Halves
<1> QED
  BY <1>2 DEF Bps

LEMMA Priced ==
    ASSUME input \in Inputs
    PROVE  /\ Total \in Nat /\ PSPFee(Total) \in Int
           /\ DOMAIN Bill(input) = Components
           /\ \A c \in Components : Bill(input)[c] \in Int
           /\ \A c \in Components \cup {"fee"} : Whole[c] \in Int
<1> DEFINE i == input
<1>1. i.price \in Nat /\ i.commission \in Nat
  <2>1. i.price \in Prices /\ i.commission \in Commissions
    BY Zenon DEF Inputs
  <2>2. \A n \in Prices : n \in Nat
    BY PricingBounds, Zenon
  <2>3. i.price \in Nat
    BY <2>1, <2>2, Zenon
  <2>4. i.commission \in Nat
    BY <2>1, CommissionBounds
  <2> QED
    BY <2>3, <2>4, Zenon
<1>2. /\ Policy.GSTBps = 1800 /\ Policy.CommissionGSTBps = 1800 /\ Policy.TCSBps = 100 /\ Policy.TDSBps = 10
      /\ Policy.TDSNoPANBps = 500 /\ Policy.PSPFeeBps = 200 /\ Policy.PSPFeeGSTBps = 1800
  BY DEF Policy
<1>3. ASSUME NEW rate \in Nat PROVE Levied(i, rate) \in Nat
  <2>1. rate \div 2 \in Nat
    <3>1. rate \div 2 \in Int /\ rate < 2 * (rate \div 2) + 2
      BY Division
    <3> QED
      BY <3>1
  <2>2. Bps(i.price, rate) \in Nat /\ Bps(i.price, rate \div 2) \in Nat
    BY <1>1, <2>1, Amount
  <2> QED
    BY <2>2 DEF Levied
<1>4. TaxTotal(i) \in Nat /\ TCS(i) \in Nat
  BY <1>2, <1>3 DEF TaxTotal, TCS
<1>5. BuyerTotal(i) \in Nat
  BY <1>1, <1>4 DEF BuyerTotal
<1>6. ASSUME NEW t \in Nat PROVE PSPFee(t) \in Nat /\ PSPFeeGST(t) \in Nat
  <2>1. Policy.PSPFeeBps \in Nat /\ Policy.PSPFeeGSTBps \in Nat
    BY <1>2
  <2>2. Bps(t, Policy.PSPFeeBps) \in Nat /\ Bps(t, Policy.PSPFeeGSTBps) \in Nat
    BY <2>1, Amount
  <2> QED
    BY <2>2 DEF PSPFee, PSPFeeGST
<1>7. Commission(i) \in Nat /\ CommissionGST(i) \in Nat
  <2>1. Bps(i.price, i.commission) \in Nat
    BY <1>1, Amount
  <2>4. Policy.CommissionGSTBps \in Nat
    BY <1>2
  <2>2. Commission(i) \in Nat
    BY <2>1 DEF Commission
  <2>3. Bps(Commission(i), Policy.CommissionGSTBps) \in Nat
    BY <2>2, <2>4, Amount
  <2> QED
    BY <2>2, <2>3 DEF CommissionGST
<1>8. TDS(i) \in Nat
  <2>1. TDSRate(i) \in Nat
    BY <1>2 DEF TDSRate
  <2> QED
    BY <1>1, <2>1, Amount DEF TDS
<1>9. Borne(i) \in Nat
  BY <1>5, <1>6 DEF Borne
<1>10. SellerNet(i) \in Int
  BY <1>4, <1>5, <1>7, <1>8, <1>9 DEF SellerNet
<1>11. /\ DOMAIN Bill(i) = Components
       /\ \A c \in Components : Bill(i)[c] \in Int
  BY <1>4, <1>7, <1>8, <1>10 DEF Bill, Components
<1>12. Total \in Nat /\ PSPFee(Total) \in Int
  BY <1>5, <1>6 DEF Total
<1>13. \A c \in Components \cup {"fee"} : Whole[c] \in Int
  BY <1>11, <1>12 DEF Whole
<1> QED
  BY <1>11, <1>12, <1>13

LEMMA PricingBegins == PricingInit => PInv
<1> SUFFICES ASSUME PricingInit PROVE PInv
  OBVIOUS
<1>1. /\ input \in Inputs /\ status = "new" /\ balance = [a \in BookAccounts |-> 0]
      /\ refunded = 0 /\ parts = 0 /\ given = [c \in Components \cup {"fee"} |-> 0]
  BY DEF PricingInit
<1>2. Total \in Nat /\ \A c \in Components \cup {"fee"} : Whole[c] \in Int
  BY <1>1, Priced
<1>3. balance \in [BookAccounts -> Int] /\ balance["absorbed"] = 0
      /\ given \in [Components \cup {"fee"} -> Int] /\ \A c \in Components \cup {"fee"} : given[c] = 0
  <2>1. "absorbed" \in BookAccounts
    BY DEF BookAccounts
  <2> QED
    BY <1>1, <2>1
<1>4. SumOf(balance) = 0
  <2>1. DOMAIN balance = BookAccounts /\ \A a \in BookAccounts : balance[a] = 0
    BY <1>1
  <2> QED
    BY <2>1, SumIs, SumZero, BookFinite
<1>5. Proportions
  <2>1. ASSUME NEW c \in Components \cup {"fee"}
        PROVE  Near(2 * given[c] * Total, 2 * Whole[c] * refunded, parts * Total)
    <3>1. 2 * given[c] * Total = 0 /\ 2 * Whole[c] * refunded = 0 /\ parts * Total = 0
      BY <1>1, <1>2, <1>3
    <3> QED
      BY <3>1 DEF Near
  <2> QED
    BY <2>1 DEF Proportions
<1> QED
  BY <1>1, <1>2, <1>3, <1>4, <1>5 DEF PInv, Near

LEMMA CaptureBooks ==
    ASSUME PInv, Valid(CaptureEntry)
    PROVE  /\ Total # 0 /\ SumOf(Bill(input)) = Total
           /\ DOMAIN CaptureEntry \subseteq BookAccounts /\ "absorbed" \notin DOMAIN CaptureEntry
           /\ \A a \in DOMAIN CaptureEntry : CaptureEntry[a] \in Int
<1>1. PICK e, b : e = CaptureEntry /\ b = Bill(input)
  OBVIOUS
<1>2. /\ Total \in Nat /\ DOMAIN b = Components /\ \A c \in Components : b[c] \in Int
  BY <1>1, Priced DEF PInv
<1>3. /\ DOMAIN e = Components \cup {"clearing"} /\ e["clearing"] = Total
      /\ \A c \in Components : e[c] = - b[c]
  BY <1>1 DEF CaptureEntry, Components
<1>4. \A c \in Components : e[c] \in Int
  BY <1>2, <1>3
<1>5. /\ SumFunctionOnSet(e, Components)
           = e["net"] + e["commission"] + e["commissionGST"] + e["tcs"] + e["tds"]
      /\ SumFunctionOnSet(b, Components)
           = b["net"] + b["commission"] + b["commissionGST"] + b["tcs"] + b["tds"]
      /\ IsFiniteSet(Components)
  BY <1>2, <1>4, SumOfFive
<1>6. SumFunctionOnSet(e, Components) \in Int
  BY <1>4, <1>5, SumInt
<1>7. SumFunctionOnSet(e, Components \cup {"clearing"}) = SumFunctionOnSet(e, Components) + Total
  <2>1. "clearing" \notin Components /\ e["clearing"] \in Int
    BY <1>2, <1>3 DEF Components
  <2>2. SumsTo(e, Components, SumFunctionOnSet(e, Components))
    BY <1>4, <1>5, <1>6 DEF SumsTo
  <2>3. SumsTo(e, Components \cup {"clearing"}, SumFunctionOnSet(e, Components) + e["clearing"])
    BY <2>1, <2>2, OneMoreLine
  <2> QED
    BY <1>3, <2>3 DEF SumsTo
<1>8. SumOf(e) = 0 /\ Total # 0
  BY <1>1, <1>3 DEF Valid
<1>9. SumFunctionOnSet(e, Components) = - Total
  BY <1>2, <1>3, <1>6, <1>7, <1>8, SumIs
<1>10. SumFunctionOnSet(b, Components) = - SumFunctionOnSet(e, Components)
  <2>1. /\ e["net"] = - b["net"] /\ e["commission"] = - b["commission"] /\ e["tcs"] = - b["tcs"]
        /\ e["commissionGST"] = - b["commissionGST"] /\ e["tds"] = - b["tds"]
        /\ b["net"] \in Int /\ b["commission"] \in Int /\ b["commissionGST"] \in Int
        /\ b["tcs"] \in Int /\ b["tds"] \in Int
    BY <1>2, <1>3 DEF Components
  <2> QED
    BY <1>5, <2>1
<1>11. SumOf(b) = Total
  BY <1>2, <1>9, <1>10, SumIs
<1>12. /\ DOMAIN e \subseteq BookAccounts /\ "absorbed" \notin DOMAIN e
       /\ \A a \in DOMAIN e : e[a] \in Int
  BY <1>2, <1>3, <1>4 DEF BookAccounts, Components
<1> QED
  BY <1>1, <1>8, <1>11, <1>12

LEMMA FeeBooks ==
    ASSUME NEW fee \in Int, NEW tax \in Int
    PROVE  /\ SumOf(FeeEntry(fee, tax)) = 0
           /\ DOMAIN FeeEntry(fee, tax) \subseteq BookAccounts /\ "absorbed" \notin DOMAIN FeeEntry(fee, tax)
           /\ \A a \in DOMAIN FeeEntry(fee, tax) : FeeEntry(fee, tax)[a] \in Int
<1>1. PICK e : e = FeeEntry(fee, tax)
  OBVIOUS
<1>2. /\ DOMAIN e = {"clearing", "expense", "input credit"}
      /\ e["clearing"] = - (fee + tax) /\ e["expense"] = fee /\ e["input credit"] = tax
  BY <1>1 DEF FeeEntry
<1>3. e["clearing"] \in Int /\ e["expense"] \in Int /\ e["input credit"] \in Int
  <2>1. - (fee + tax) \in Int
    OBVIOUS
  <2> QED
    BY <1>2, <2>1
<1>4. SumsTo(e, {}, 0)
  BY SumEmpty, FS_EmptySet DEF SumsTo
<1>5. SumsTo(e, {} \cup {"clearing"}, 0 + e["clearing"])
  BY <1>3, <1>4, OneMoreLine
<1>6. SumsTo(e, ({} \cup {"clearing"}) \cup {"expense"}, 0 + e["clearing"] + e["expense"])
  <2>1. "expense" \notin {} \cup {"clearing"}
    OBVIOUS
  <2> QED
    BY <1>3, <1>5, <2>1, OneMoreLine
<1>7. SumsTo(e, (({} \cup {"clearing"}) \cup {"expense"}) \cup {"input credit"},
             0 + e["clearing"] + e["expense"] + e["input credit"])
  <2>1. "input credit" \notin ({} \cup {"clearing"}) \cup {"expense"}
    OBVIOUS
  <2> QED
    BY <1>3, <1>6, <2>1, OneMoreLine
<1>8. (({} \cup {"clearing"}) \cup {"expense"}) \cup {"input credit"} = DOMAIN e
  BY <1>2
<1>9. 0 + e["clearing"] + e["expense"] + e["input credit"] = 0
  <2>1. 0 + (- (fee + tax)) + fee + tax = 0
    OBVIOUS
  <2> QED
    BY <1>2, <2>1
<1>10. SumOf(e) = 0
  BY <1>7, <1>8, <1>9, SumIs DEF SumsTo
<1>11. DOMAIN e \subseteq BookAccounts /\ "absorbed" \notin DOMAIN e /\ \A a \in DOMAIN e : e[a] \in Int
  BY <1>2, <1>3 DEF BookAccounts
<1> QED
  BY <1>1, <1>10, <1>11

\* A part that is refunded, as an entry and as shares.
LEMMA RefundBooks ==
    ASSUME PInv, status = "paid", NEW amount \in Int
    PROVE  /\ \A c \in Components : Shares(amount)[c] \in Int
           /\ \A c \in Components :
                Near(2 * Shares(amount)[c] * Total, 2 * Bill(input)[c] * amount, Total)
           /\ Retained(amount) \in Int
           /\ Near(2 * Retained(amount) * Total, 2 * PSPFee(Total) * amount, Total)
           /\ Near(RefundEntry(amount)["absorbed"], 0, 2)
           /\ DOMAIN RefundEntry(amount) \subseteq BookAccounts /\ "absorbed" \in DOMAIN RefundEntry(amount)
           /\ \A a \in DOMAIN RefundEntry(amount) : RefundEntry(amount)[a] \in Int
<1>1. Total \in Nat \ {0} /\ SumOf(Bill(input)) = Total
  BY Priced DEF PInv
<1>2. PICK b, s, e : b = Bill(input) /\ s = Shares(amount) /\ e = RefundEntry(amount)
  OBVIOUS
<1>3. DOMAIN b = Components /\ (\A c \in Components : b[c] \in Int) /\ PSPFee(Total) \in Int
  BY <1>2, Priced DEF PInv
<1>4. DOMAIN s = Components /\ \A c \in Components : s[c] = Share(b[c], amount)
  BY <1>2 DEF Shares
<1>5. \A c \in Components : s[c] \in Int /\ Near(2 * s[c] * Total, 2 * b[c] * amount, Total)
  BY <1>1, <1>3, <1>4, Rounded
<1>6. Retained(amount) \in Int /\ Near(2 * Retained(amount) * Total, 2 * PSPFee(Total) * amount, Total)
  BY <1>1, <1>3, Rounded DEF Retained
<1>7. SumOf(s) = s["net"] + s["commission"] + s["commissionGST"] + s["tcs"] + s["tds"]
  BY <1>4, <1>5, SumOfFive, SumIs
<1>8. b["net"] + b["commission"] + b["commissionGST"] + b["tcs"] + b["tds"] = Total
  BY <1>1, <1>2, <1>3, SumOfFive, SumIs
<1>9. SumOf(s) \in Int /\ Near(amount - SumOf(s), 0, 2)
  <2>1. PICK T : T = Total
    OBVIOUS
  <2>2. /\ T \in Nat \ {0} /\ b["net"] + b["commission"] + b["commissionGST"] + b["tcs"] + b["tds"] = T
        /\ \A c \in Components : b[c] \in Int /\ s[c] \in Int /\ Near(2 * s[c] * T, 2 * b[c] * amount, T)
    BY <1>1, <1>3, <1>5, <1>8, <2>1
  <2>3. Near(amount - (s["net"] + s["commission"] + s["commissionGST"] + s["tcs"] + s["tds"]), 0, 2)
    BY <2>2, Residue
  <2>4. SumOf(s) \in Int
    BY <1>5, <1>7 DEF Components
  <2> QED
    BY <1>7, <2>3, <2>4
<1>10. PICK seller : seller = IF paidOut THEN "receivable" ELSE "net"
  OBVIOUS
<1>11. /\ DOMAIN e = (Components \ {"net"}) \cup {seller, "absorbed", "clearing"}
       /\ \A a \in DOMAIN e :
            e[a] = CASE a = "clearing" -> - amount
                     [] a = seller -> s["net"]
                     [] a = "absorbed" -> amount - SumOf(s)
                     [] OTHER -> s[a]
  BY <1>2, <1>10 DEF RefundEntry
<1>12. seller \in {"receivable", "net"}
  BY <1>10
<1>13. DOMAIN e \subseteq BookAccounts /\ "absorbed" \in DOMAIN e
  BY <1>11, <1>12 DEF BookAccounts, Components
<1>14. e["absorbed"] = amount - SumOf(s)
  BY <1>11, <1>12, <1>13
<1>15. ASSUME NEW a \in DOMAIN e PROVE e[a] \in Int
  <2>1. CASE a = "clearing"
    <3>1. e[a] = - amount
      BY <1>11, <1>12, <2>1
    <3> QED
      BY <3>1
  <2>2. CASE a = "absorbed"
    BY <1>9, <1>14, <2>2
  <2>3. CASE a = seller
    <3>1. e[a] = s["net"] /\ "net" \in Components
      BY <1>11, <1>12, <2>3 DEF Components
    <3> QED
      BY <1>5, <3>1
  <2>4. CASE a \notin {"clearing", "absorbed", seller}
    <3>1. a \in Components /\ e[a] = s[a]
      BY <1>11, <2>4
    <3> QED
      BY <1>5, <3>1
  <2> QED
    BY <2>1, <2>2, <2>3, <2>4
<1> QED
  BY <1>2, <1>5, <1>6, <1>9, <1>13, <1>14, <1>15

\* Amounts are whole and not negative.
LEMMA AmountsWhole ==
    ASSUME PInv, NEW amount \in Amounts
    PROVE  amount \in Nat
<1>1. PICK l : l = Total - refunded /\ l \in Nat
  BY Priced DEF PInv
<1>2. l \div 3 \in Nat
  <2>1. l \div 3 \in Int /\ l < 3 * (l \div 3) + 3
    BY <1>1, Division
  <2> QED
    BY <1>1, <2>1
<1>3. l \div 2 \in Nat
  <2>1. l \div 2 \in Int /\ l < 2 * (l \div 2) + 2
    BY <1>1, Division
  <2> QED
    BY <1>1, <2>1
<1>4. amount \in {1, l \div 3, l \div 2, l}
  BY <1>1 DEF Amounts
<1> QED
  BY <1>1, <1>2, <1>3, <1>4

LEMMA CaptureKeeps ==
    ASSUME PInv, Capture
    PROVE  PInv'
<1>1. status = "quoted" /\ UNCHANGED <<input, refunded, given, parts, paidOut>>
  BY DEF Capture
<1>2. Total' = Total /\ Whole' = Whole /\ Bill(input)' = Bill(input)
  BY <1>1 DEF Total, Whole
<1>3. Proportions'
  BY <1>1, <1>2 DEF PInv, Proportions
<1>4. CASE Valid(CaptureEntry) /\ Drawn(input)
  <2>1. PICK fee, tax : /\ fee \in Int /\ tax \in Int /\ status' = "paid"
                        /\ balance' = Posted(FeeEntry(fee, tax), Posted(CaptureEntry, balance))
    <3>1. PICK reported \in BOOLEAN :
              /\ status' = "paid"
              /\ balance' = Posted(FeeEntry(Fee(reported), PSPFeeGST(Fee(reported))), Posted(CaptureEntry, balance))
      BY <1>4 DEF Capture
    <3>2. Fee(reported) \in Nat /\ PSPFeeGST(Fee(reported)) \in Nat
      <4>1. PSPFee(Total) \in Nat /\ Policy.PSPFeeGSTBps \in Nat
        <5>1. Total \in Nat
          BY Priced DEF PInv
        <5>2. Policy.PSPFeeBps \in Nat /\ Policy.PSPFeeGSTBps \in Nat
          BY DEF Policy
        <5> QED
          BY <5>1, <5>2, Amount DEF PSPFee
      <4>2. Fee(reported) \in Nat
        BY <4>1 DEF Fee
      <4> QED
        BY <4>1, <4>2, Amount DEF PSPFeeGST
    <3> QED
      BY <3>1, <3>2
  <2>2. PICK mid : mid = Posted(CaptureEntry, balance)
    OBVIOUS
  <2>3. /\ Total # 0 /\ SumOf(Bill(input)) = Total
        /\ DOMAIN CaptureEntry \subseteq BookAccounts /\ "absorbed" \notin DOMAIN CaptureEntry
        /\ \A a \in DOMAIN CaptureEntry : CaptureEntry[a] \in Int
    BY <1>4, CaptureBooks
  <2>4. balance \in [BookAccounts -> Int] /\ SumOf(balance) = 0 /\ balance["absorbed"] \in Int
    BY DEF PInv, BookAccounts
  <2>5. mid \in [BookAccounts -> Int] /\ SumOf(mid) = 0
    <3>1. mid \in [BookAccounts -> Int] /\ SumOf(mid) = SumOf(balance) + SumOf(CaptureEntry)
      BY <2>2, <2>3, <2>4, PostedSum
    <3>2. SumOf(CaptureEntry) = 0
      BY <1>4 DEF Valid
    <3> QED
      BY <2>4, <3>1, <3>2
  <2>6. mid["absorbed"] = balance["absorbed"]
    <3>1. "absorbed" \in BookAccounts
      BY DEF BookAccounts
    <3> QED
      BY <2>2, <2>3, <2>4, <3>1, PostedElsewhere
  <2>7. /\ SumOf(FeeEntry(fee, tax)) = 0
        /\ DOMAIN FeeEntry(fee, tax) \subseteq BookAccounts /\ "absorbed" \notin DOMAIN FeeEntry(fee, tax)
        /\ \A a \in DOMAIN FeeEntry(fee, tax) : FeeEntry(fee, tax)[a] \in Int
    BY <2>1, FeeBooks
  <2>8. balance' \in [BookAccounts -> Int] /\ SumOf(balance') = 0
    <3>1. balance' \in [BookAccounts -> Int] /\ SumOf(balance') = SumOf(mid) + SumOf(FeeEntry(fee, tax))
      BY <2>1, <2>2, <2>5, <2>7, PostedSum
    <3> QED
      BY <2>5, <2>7, <3>1
  <2>9. balance'["absorbed"] = balance["absorbed"]
    <3>1. balance'["absorbed"] = mid["absorbed"]
      <4>1. "absorbed" \in BookAccounts /\ mid["absorbed"] \in Int
        BY <2>4, <2>6 DEF BookAccounts
      <4> QED
        BY <2>1, <2>2, <2>7, <4>1, PostedElsewhere
    <3> QED
      BY <2>6, <3>1
  <2> QED
    BY <1>1, <1>2, <1>3, <2>1, <2>3, <2>8, <2>9 DEF PInv
<1>5. CASE ~ (Valid(CaptureEntry) /\ Drawn(input))
  <2>1. status' = "unpayable" /\ balance' = balance
    BY <1>5 DEF Capture
  <2> QED
    BY <1>1, <1>2, <1>3, <2>1 DEF PInv
<1> QED
  BY <1>4, <1>5

LEMMA RefundPartKeeps ==
    ASSUME PInv, NEW amount \in Amounts, RefundPart(amount)
    PROVE  PInv'
<1>1. /\ status = "paid" /\ refunded + amount <= Total /\ SumOf(RefundEntry(amount)) = 0
      /\ balance' = Posted(RefundEntry(amount), balance)
      /\ refunded' = refunded + amount /\ parts' = parts + 1
      /\ given' = [c \in DOMAIN given |->
                      given[c] + IF c = "fee" THEN Retained(amount) ELSE Shares(amount)[c]]
      /\ UNCHANGED <<input, status, paidOut>>
  BY DEF RefundPart, Valid
<1>2. Total' = Total /\ Whole' = Whole /\ Bill(input)' = Bill(input)
  BY <1>1 DEF Total, Whole
<1>3. /\ amount \in Nat /\ Total \in Nat \ {0} /\ refunded \in Nat /\ parts \in Nat
      /\ \A c \in Components \cup {"fee"} : Whole[c] \in Int
  BY <1>1, AmountsWhole, Priced DEF PInv
<1>4. PICK part : part = [c \in Components \cup {"fee"} |-> IF c = "fee" THEN Retained(amount) ELSE Shares(amount)[c]]
  OBVIOUS
<1>5. /\ given \in [Components \cup {"fee"} -> Int]
      /\ given' = [c \in Components \cup {"fee"} |-> given[c] + part[c]]
  <2>1. given \in [Components \cup {"fee"} -> Int] /\ DOMAIN given = Components \cup {"fee"}
    BY DEF PInv
  <2>2. \A c \in Components \cup {"fee"} : part[c] = IF c = "fee" THEN Retained(amount) ELSE Shares(amount)[c]
    BY <1>4
  <2> QED
    BY <1>1, <2>1, <2>2
<1>6. \A c \in Components \cup {"fee"} :
          part[c] \in Int /\ Near(2 * part[c] * Total, 2 * Whole[c] * amount, Total)
  <2>1. ASSUME NEW c \in Components
        PROVE  part[c] = Shares(amount)[c] /\ Whole[c] = Bill(input)[c]
    <3>1. c # "fee"
      BY DEF Components
    <3> QED
      BY <1>4, <3>1 DEF Whole
  <2>2. part["fee"] = Retained(amount) /\ Whole["fee"] = PSPFee(Total)
    BY <1>4 DEF Whole
  <2>3. ASSUME NEW c \in Components
        PROVE  part[c] \in Int /\ Near(2 * part[c] * Total, 2 * Whole[c] * amount, Total)
    <3>1. Shares(amount)[c] \in Int /\ Near(2 * Shares(amount)[c] * Total, 2 * Bill(input)[c] * amount, Total)
      BY <1>1, <1>3, RefundBooks
    <3> QED
      BY <2>1, <3>1
  <2>4. part["fee"] \in Int /\ Near(2 * part["fee"] * Total, 2 * Whole["fee"] * amount, Total)
    <3>1. Retained(amount) \in Int /\ Near(2 * Retained(amount) * Total, 2 * PSPFee(Total) * amount, Total)
      BY <1>1, <1>3, RefundBooks
    <3> QED
      BY <2>2, <3>1
  <2> QED
    BY <2>3, <2>4
<1>7. given' \in [Components \cup {"fee"} -> Int] /\ \A c \in Components \cup {"fee"} : given'[c] = given[c] + part[c]
  BY <1>5, <1>6
<1>8. Proportions'
  <2>1. ASSUME NEW c \in Components \cup {"fee"}
        PROVE  Near(2 * given'[c] * Total, 2 * Whole[c] * refunded', parts' * Total)
    <3>1. Near(2 * given[c] * Total, 2 * Whole[c] * refunded, parts * Total)
      BY DEF PInv, Proportions
    <3>2. PICK T, g, s, w : T = Total /\ g = given[c] /\ s = part[c] /\ w = Whole[c]
      OBVIOUS
    <3>3. T \in Nat \ {0} /\ g \in Int /\ s \in Int /\ w \in Int /\ amount \in Int /\ refunded \in Int
      BY <1>3, <1>5, <1>6, <3>2
    <3>4. Near(2 * g * T, 2 * w * refunded, parts * T) /\ Near(2 * s * T, 2 * w * amount, T)
      BY <1>6, <3>1, <3>2
    <3>5. Near(2 * (g + s) * T, 2 * w * (refunded + amount), (parts + 1) * T)
      BY <1>3, <3>3, <3>4, Accumulate
    <3> QED
      BY <1>1, <1>7, <3>2, <3>5
  <2> QED
    BY <1>2, <2>1 DEF Proportions
<1>9. parts' = 1 /\ refunded' = Total => given' = Whole
  <2> SUFFICES ASSUME parts' = 1, refunded' = Total PROVE given' = Whole
    OBVIOUS
  <2>1. parts = 0
    BY <1>1, <1>3
  <2>2. refunded = 0 /\ \A c \in Components \cup {"fee"} : given[c] = 0
    BY <2>1 DEF PInv
  <2>3. amount = Total
    BY <1>1, <1>3, <2>2
  <2>4. ASSUME NEW c \in Components \cup {"fee"} PROVE part[c] = Whole[c]
    <3>1. CASE c = "fee"
      BY <1>4, <2>3, <3>1 DEF Whole, Retained, Share
    <3>2. CASE c # "fee"
      BY <1>4, <2>3, <3>2 DEF Whole, Shares, Share
    <3> QED
      BY <3>1, <3>2
  <2>5. \A c \in Components \cup {"fee"} : given'[c] = Whole[c]
    BY <1>3, <1>7, <2>2, <2>4
  <2>6. DOMAIN Whole = Components \cup {"fee"} /\ Whole = [c \in Components \cup {"fee"} |-> Whole[c]]
    BY DEF Whole
  <2> QED
    BY <1>7, <2>5, <2>6
<1>10. PICK e : e = RefundEntry(amount)
  OBVIOUS
<1>11. /\ Near(e["absorbed"], 0, 2) /\ e["absorbed"] \in Int
       /\ DOMAIN e \subseteq BookAccounts /\ "absorbed" \in DOMAIN e
       /\ \A a \in DOMAIN e : e[a] \in Int
  <2>1. amount \in Int
    BY <1>3
  <2> QED
    BY <1>1, <1>10, <2>1, RefundBooks
<1>12. balance \in [BookAccounts -> Int] /\ SumOf(balance) = 0 /\ balance["absorbed"] \in Int
       /\ Near(balance["absorbed"], 0, 2 * parts)
  BY DEF PInv, BookAccounts
<1>13. balance' \in [BookAccounts -> Int] /\ SumOf(balance') = 0
  <2>1. balance' \in [BookAccounts -> Int] /\ SumOf(balance') = SumOf(balance) + SumOf(e)
    BY <1>1, <1>10, <1>11, <1>12, PostedSum
  <2> QED
    BY <1>1, <1>10, <1>12, <2>1
<1>14. balance'["absorbed"] = balance["absorbed"] + e["absorbed"]
  BY <1>1, <1>10, <1>11 DEF Posted, BookAccounts
<1>15. Near(balance'["absorbed"], 0, 2 * parts')
  BY <1>1, <1>3, <1>11, <1>12, <1>14 DEF Near
<1>16. refunded' \in Nat /\ refunded' <= Total' /\ parts' \in Nat /\ parts' # 0
  BY <1>1, <1>2, <1>3
<1> QED
  BY <1>1, <1>2, <1>7, <1>8, <1>9, <1>13, <1>15, <1>16 DEF PInv

LEMMA PricingSteps == PInv /\ [PricingNext]_pricingVars => PInv'
<1> SUFFICES ASSUME PInv, [PricingNext]_pricingVars PROVE PInv'
  OBVIOUS
<1>1. ASSUME UNCHANGED <<input, balance, refunded, given, parts>>,
             status' \in {"new", "quoted", "refused", "paid", "unpayable"},
             status' = "paid" => status = "paid"
      PROVE  PInv'
  <2>1. Total' = Total /\ Whole' = Whole /\ Bill(input)' = Bill(input)
    BY <1>1 DEF Total, Whole
  <2>2. Proportions'
    BY <1>1, <2>1 DEF PInv, Proportions
  <2> QED
    BY <1>1, <2>1, <2>2 DEF PInv
<1>2. CASE Quote
  BY <1>1, <1>2 DEF Quote
<1>3. CASE PayOut
  BY <1>1, <1>3 DEF PayOut, PInv
<1>4. CASE UNCHANGED pricingVars
  BY <1>1, <1>4 DEF pricingVars, PInv
<1> QED
  BY <1>2, <1>3, <1>4, CaptureKeeps, RefundPartKeeps DEF PricingNext

LEMMA PInvAddsUp == PInv => RefundPartsAddUp
<1> SUFFICES ASSUME PInv PROVE RefundPartsAddUp
  OBVIOUS
<1>1. DOMAIN given = Components \cup {"fee"}
  BY DEF PInv
<1>2. [c \in DOMAIN given |-> IF c = "fee" THEN PSPFee(Total) ELSE Bill(input)[c]] = Whole
  BY <1>1 DEF Whole
<1> QED
  BY <1>1, <1>2 DEF PInv, Proportions, RefundPartsAddUp

\* scaleToRefund and postRefundLedger, for every price, commission and number of parts:
\* however a line is refunded in parts, before or after its seller was paid, what is taken
\* back of each component and of the fee is its proportion to within half a unit per part,
\* one full refund takes back what the capture booked, the platform absorbs two units per
\* part at most, and the books stay balanced.
THEOREM RefundPartsAlwaysAddUp == PricingSpec => []RefundPartsAddUp
<1>1. PricingSpec => []PInv
  BY PricingBegins, PricingSteps, PTL DEF PricingSpec
<1> QED
  BY <1>1, PInvAddsUp, PTL

=============================================================================
