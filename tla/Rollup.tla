------------------------------- MODULE Rollup -------------------------------
(***************************************************************************)
(* "The rolled-up total plus the un-rolled tail": ledger_balance over      *)
(* ledger_rollup, and seller_fy_gross over rollup_turnover, which are the  *)
(* same algorithm.                                                         *)
(*                                                                         *)
(* An appended line takes its seq from a BIGSERIAL when it is inserted and *)
(* becomes visible when its transaction commits.  A rollup is a VOLATILE   *)
(* function under READ COMMITTED: the ceiling, and then each INSERT ... ON *)
(* CONFLICT DO UPDATE, see a snapshot of their own, and the update adds to *)
(* the row as it finds it.  A balance is read by a STABLE function, in one *)
(* snapshot.  Every line counts 1.                                         *)
(***************************************************************************)
EXTENDS Naturals, Sequences, FiniteSets

CONSTANTS
  Accounts,     \* ledger accounts, or aggregate rows of a turnover
  Statements,   \* the accounts each statement of a rollup folds, in order
  NumLines,     \* bound on the lines appended
  Rollers       \* workers that run the rollup task

ASSUME RollupAssumption ==
  /\ Statements \in Seq(SUBSET Accounts)
  /\ NumLines \in Nat

VARIABLES
  account,    \* the account of each line
  state,      \* of a seq: "unused", "open" (uncommitted), "row" or "rolled back"
  next,       \* the sequence's next value
  rolled,     \* the aggregate row's total
  through,    \* the aggregate row's through_seq
  ro,         \* each roller: its ceiling, the statement it is at, what it selected
  overtaken,  \* history: a line committed while an earlier seq was uncommitted
  crowded     \* history: a rollup began while another was in progress

rollupVars == <<account, state, next, rolled, through, ro, overtaken, crowded>>

Seqs == 1 .. NumLines
NotRolling == [at |-> "idle"]

RollupTypeOK ==
  /\ account \in [Seqs -> Accounts]
  /\ state \in [Seqs -> {"unused", "open", "row", "rolled back"}]
  /\ next \in 1 .. NumLines + 1
  /\ \A n \in Seqs : n < next <=> state[n] # "unused"
  /\ rolled \in [Accounts -> Nat]
  /\ through \in [Accounts -> 0 .. next - 1]
  /\ overtaken \in BOOLEAN /\ crowded \in BOOLEAN

RollupInit ==
  /\ account \in [Seqs -> Accounts]
  /\ state = [n \in Seqs |-> "unused"]
  /\ next = 1
  /\ rolled = [a \in Accounts |-> 0]
  /\ through = [a \in Accounts |-> 0]
  /\ ro = [r \in Rollers |-> NotRolling]
  /\ overtaken = FALSE /\ crowded = FALSE

-----------------------------------------------------------------------------
Rows      == {n \in Seqs : state[n] = "row"}
RowsOf(a) == {n \in Rows : account[n] = a}

\* The lines that a reader adds to the aggregate, and a rollup folds into it.
Unrolled(a) == {n \in RowsOf(a) : n > through[a]}

\* ledger_balance, seller_fy_gross.
Balance(a) == rolled[a] + Cardinality(Unrolled(a))

-----------------------------------------------------------------------------
(* Post and updateTurnover, as far as the rollup sees them *)

Append1 ==
  /\ next <= NumLines
  /\ state' = [state EXCEPT ![next] = "open"]
  /\ next' = next + 1
  /\ UNCHANGED <<account, rolled, through, ro, overtaken, crowded>>

Commit(n) ==
  /\ state[n] = "open"
  /\ state' = [state EXCEPT ![n] = "row"]
  /\ overtaken' = (overtaken \/ \E m \in 1 .. n - 1 : state[m] = "open")
  /\ UNCHANGED <<account, next, rolled, through, ro, crowded>>

Abort(n) ==
  /\ state[n] = "open"
  /\ state' = [state EXCEPT ![n] = "rolled back"]
  /\ UNCHANGED <<account, next, rolled, through, ro, overtaken, crowded>>

-----------------------------------------------------------------------------
(* The rollup *)

\* Mutant of Ceiling: the sequence is asked, not the table.
CeilingOfSequence == next - 1

\* MAX(seq) of the rows that are visible.
Ceiling == IF Rows = {} THEN 0 ELSE CHOOSE n \in Rows : \A m \in Rows : m <= n

ReadCeiling(r) ==
  /\ ro[r] = NotRolling
  /\ ro' = [ro EXCEPT ![r] = [at |-> "select", stmt |-> 1, ceiling |-> Ceiling,
                             sums |-> [a \in {} |-> 0]]]
  /\ crowded' = (crowded \/ \E q \in Rollers : ro[q] # NotRolling)
  /\ UNCHANGED <<account, state, next, rolled, through, overtaken>>

\* The SELECT of a statement, in its own snapshot: per account, the committed lines
\* above the watermark.
Select(r) ==
  LET found(a) == {n \in Unrolled(a) : n <= ro[r].ceiling}
      folded   == {a \in Statements[ro[r].stmt] : found(a) # {}}
      last     == ro[r].stmt = Len(Statements)
  IN
  /\ ro[r].at = "select"
  /\ ro' = [ro EXCEPT
       ![r].at = IF last THEN "write" ELSE "select",
       ![r].stmt = @ + 1,
       ![r].sums = [a \in DOMAIN @ \cup folded |->
                      IF a \in folded THEN Cardinality(found(a)) ELSE @[a]]]
  /\ UNCHANGED <<account, state, next, rolled, through, overtaken, crowded>>

\* The function commits: each row it names is inserted, or updated as it is found,
\* which after waiting for another rollup's lock is what that one left.
Write(r) ==
  LET sums == ro[r].sums IN
  /\ ro[r].at = "write"
  /\ rolled' = [a \in Accounts |-> IF a \in DOMAIN sums THEN rolled[a] + sums[a] ELSE rolled[a]]
  /\ through' = [a \in Accounts |-> IF a \in DOMAIN sums THEN ro[r].ceiling ELSE through[a]]
  /\ ro' = [ro EXCEPT ![r] = NotRolling]
  /\ UNCHANGED <<account, state, next, overtaken, crowded>>

RollupNext ==
  \/ Append1
  \/ \E n \in Seqs : Commit(n) \/ Abort(n)
  \/ \E r \in Rollers : ReadCeiling(r) \/ Select(r) \/ Write(r)

RollupSpec == RollupInit /\ [][RollupNext]_rollupVars

-----------------------------------------------------------------------------
(* Properties *)

\* ADR 0005:46-48: "Reads are correct at every instant".  A balance is the sum of the
\* account's committed lines, whatever a rollup has done with them.
BalanceIsExact == \A a \in Accounts : Balance(a) = Cardinality(RowsOf(a))

\* While no two rollups run at once, and no line commits before a line of an earlier
\* seq, a balance is exact before, during and after every rollup, by readers between any
\* two of its statements too; and however commits overtake one another, it never exceeds
\* the account's lines (ADR 0005:48: "a second rollup does not double-count").
ExactUntilOvertaken ==
  ~crowded =>
    /\ ~overtaken => BalanceIsExact
    /\ \A a \in Accounts : Balance(a) <= Cardinality(RowsOf(a))
=============================================================================
