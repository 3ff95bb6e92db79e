----------------------------- MODULE Registers ------------------------------
(***************************************************************************)
(* The two registers a captured order writes into: the gapless series of   *)
(* invoice numbers (issueInvoices, next_invoice_number) and the hash chain *)
(* of the audit log (audit.Record, the trigger audit_log_chain).           *)
(*                                                                         *)
(* A capture is one transaction, as far as these see it: it takes a number *)
(* per document, line by line, and appends one entry at its end.  Both go  *)
(* by a lock that is held to the commit.  An entry's hash is its position; *)
(* one financial year.                                                     *)
(***************************************************************************)
EXTENDS Naturals, Sequences, FiniteSetsExt, Relation

CONSTANTS
    Captures,    \* transactions that issue invoices and append to the log
    DocumentsOf, \* per capture: the kind of each document, in the order of the lines
    MaxReruns,   \* DB.maxRetry
    MaxRollbacks \* bound: transactions that fail at a later step

ASSUME RegisterBounds == MaxReruns \in Nat /\ MaxRollbacks \in Nat

\* A seller's supply, if it is registered for GST, and the platform's commission, if any.
Kinds == {"INV", "COM"}

ASSUME RegisterDocuments == DocumentsOf \in [Captures -> Seq(Kinds)]

VARIABLES
    capture,  \* where each transaction is, and what it has written
    series,   \* invoice_series.next_number less one
    invoices, \* committed documents
    chain,    \* committed entries of the audit log
    position, \* audit_log_chain_pos_seq, which no rollback winds back
    rollbacks

registerVars == <<capture, series, invoices, chain, position, rollbacks>>

NotCaptured == [at |-> "new", numbers |-> <<>>, entry |-> {}, reruns |-> 0]

RegisterInit ==
    /\ capture = [c \in Captures |-> NotCaptured]
    /\ series = [k \in Kinds |-> 0]
    /\ invoices = {} /\ chain = {}
    /\ position = 0 /\ rollbacks = 0

----------------------------------------------------------------------------
Issued(c, k) == {i \in DOMAIN capture[c].numbers : DocumentsOf[c][i] = k}

\* The counters' row locks and the chain's advisory lock.
Holds(c, lock) ==
    IF lock = "chain" THEN capture[c].entry # {} ELSE Issued(c, lock) # {}

Free(c, lock) == \A d \in Captures \ {c} : ~ Holds(d, lock)

Wants(c) ==
    LET taken == Len(capture[c].numbers) IN
    IF capture[c].at # "open" THEN "nothing"
    ELSE IF taken < Len(DocumentsOf[c]) THEN DocumentsOf[c][taken + 1]
    ELSE "chain"

Open(c) ==
    /\ capture[c].at = "new"
    /\ capture' = [capture EXCEPT ![c].at = "open"]
    /\ UNCHANGED <<series, invoices, chain, position, rollbacks>>

\* next_invoice_number: one more than was committed, and than this capture has taken.
NextNumber(c) ==
    LET k == Wants(c) IN
    /\ k \in Kinds /\ Free(c, k)
    /\ capture' = [capture EXCEPT ![c].numbers =
                      Append(@, series[k] + Cardinality(Issued(c, k)) + 1)]
    /\ UNCHANGED <<series, invoices, chain, position, rollbacks>>

\* Mutant of MayChain: nobody waits for the lock.
MayChainAlways(c) == TRUE

\* audit_log_chain takes the lock before it takes a position.
MayChain(c) == Free(c, "chain")

\* Record: the entry follows the last one its statement sees.
Record(c) ==
    /\ Wants(c) = "chain" /\ MayChain(c)
    /\ position' = position + 1
    /\ capture' = [capture EXCEPT ![c].at = "recorded", ![c].entry =
          {[pos |-> position + 1, prev |-> Max({0} \cup {e.pos : e \in chain})]}]
    /\ UNCHANGED <<series, invoices, chain, rollbacks>>

CaptureCommits(c) ==
    /\ capture[c].at = "recorded"
    /\ series' = [k \in Kinds |-> series[k] + Cardinality(Issued(c, k))]
    /\ invoices' = invoices \cup
          {[kind |-> DocumentsOf[c][i], number |-> capture[c].numbers[i], of |-> <<c, i>>] :
              i \in DOMAIN capture[c].numbers}
    /\ chain' = chain \cup capture[c].entry
    /\ capture' = [capture EXCEPT ![c] = [NotCaptured EXCEPT !.at = "committed"]]
    /\ UNCHANGED <<position, rollbacks>>

\* A later step fails or the connection is lost; the order is captured again by a repeated
\* webhook, or not.
CaptureFails(c) ==
    /\ rollbacks < MaxRollbacks
    /\ capture[c].at \in {"open", "recorded"}
    /\ \E at \in {"new", "given up"} : capture' = [capture EXCEPT ![c] = [NotCaptured EXCEPT !.at = at]]
    /\ rollbacks' = rollbacks + 1
    /\ UNCHANGED <<series, invoices, chain, position>>

Awaits == [c, d \in Captures |-> c # d /\ Wants(c) # "nothing" /\ Holds(d, Wants(c))]

\* Lines without a GSTIN or a commission skip a counter, so two captures may ask for the
\* counters in opposite order: the database rolls one back and InTx runs it again.
CaptureDeadlocks(c) ==
    /\ TransitiveClosure(Awaits, Captures)[c, c]
    /\ capture' = [capture EXCEPT ![c] =
          IF @.reruns < MaxReruns
          THEN [NotCaptured EXCEPT !.at = "open", !.reruns = capture[c].reruns + 1]
          ELSE [NotCaptured EXCEPT !.at = "given up"]]
    /\ UNCHANGED <<series, invoices, chain, position, rollbacks>>

RegisterNext ==
    \E c \in Captures :
        \/ Open(c) \/ NextNumber(c) \/ Record(c)
        \/ CaptureCommits(c) \/ CaptureFails(c) \/ CaptureDeadlocks(c)

RegisterSpec == RegisterInit /\ [][RegisterNext]_registerVars

----------------------------------------------------------------------------
(* Properties. *)

RegisterTypeOK ==
    /\ \A c \in Captures :
          /\ capture[c].at \in {"new", "open", "recorded", "committed", "given up"}
          /\ capture[c].numbers \in Seq(Nat) /\ capture[c].reruns \in 0 .. MaxReruns
    /\ series \in [Kinds -> Nat]
    /\ \A e \in chain : e.prev < e.pos /\ e.pos <= position
    /\ rollbacks \in 0 .. MaxRollbacks

NumbersOf(k) == {d.number : d \in {i \in invoices : i.kind = k}}

\* Verify: an entry's hash is made from the entry before it, whatever was rolled back.
Verified(e) == e.prev = Max({0} \cup {f.pos : f \in {g \in chain : g.pos < e.pos}})

\* Whatever fails, waits or is run again, the documents of a kind are numbered 1, 2, 3 ...
\* without a gap or a number used twice (docs/arch/05-data-model.md:113), and the chain
\* of entries that are committed verifies, for a reader at any moment.
RegistersAreWhole ==
    /\ \A k \in Kinds :
          /\ NumbersOf(k) = 1 .. series[k]
          /\ Cardinality({d \in invoices : d.kind = k}) = series[k]
    /\ \A e \in chain : Verified(e)

=============================================================================
