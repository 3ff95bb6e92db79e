----------------------------- MODULE WorkQueue -----------------------------
(***************************************************************************)
(* What each queue of the program promises those who put a task into it,   *)
(* without claims, locks, attempts or workers.  A task is settled only     *)
(* when its work has been done.  Until two workers have had one task in    *)
(* their hands (disturbed), only an open task is worked on or ended.  A    *)
(* task waits for those before it, until an operator has returned one that *)
(* was dropped; one that arrives behind a task it should precede has been  *)
(* overtaken by it, and is not waited for.                                 *)
(***************************************************************************)
CONSTANTS
  Tasks,
  Before      \* pairs of tasks: the first is to be worked on before the second

VARIABLES
  status,     \* of a task: "absent", "open", "settled" or "dropped"
  worked,     \* tasks whose work has been done, once or more often
  overtaken,  \* pairs of Before whose first arrived when the second was there
  returned,   \* a dropped task has been put back
  disturbed   \* a task has been in two hands

queueVars == <<status, worked, overtaken, returned, disturbed>>

Init ==
  /\ status = [t \in Tasks |-> "absent"]
  /\ worked = {} /\ overtaken = {}
  /\ returned = FALSE /\ disturbed = FALSE

Put(t) ==
  /\ status[t] = "absent"
  /\ status' = [status EXCEPT ![t] = "open"]
  /\ overtaken' = overtaken \cup {p \in Before : p[1] = t /\ status[p[2]] # "absent"}
  /\ UNCHANGED <<worked, returned, disturbed>>

MayTouch(t) == status[t] = "open" \/ (disturbed /\ status[t] # "absent")

InTurn(t) ==
  \A s \in Tasks :
    <<s, t>> \in Before \ overtaken /\ status[s] # "absent" => s \in worked \/ status[s] = "dropped"

Work(t) ==
  /\ MayTouch(t)
  /\ t \in worked \/ returned \/ InTurn(t)
  /\ worked' = worked \cup {t}
  /\ UNCHANGED <<status, overtaken, returned, disturbed>>

\* A task that was disturbed may come back, or end twice.
End(t, s) ==
  /\ MayTouch(t)
  /\ s = "settled" => t \in worked
  /\ status' = [status EXCEPT ![t] = s]
  /\ UNCHANGED <<worked, overtaken, returned, disturbed>>

Return(t) ==
  /\ \/ status[t] = "dropped" /\ status' = [status EXCEPT ![t] = "open"]
     \/ disturbed /\ UNCHANGED status
  /\ returned' = TRUE
  /\ UNCHANGED <<worked, overtaken, disturbed>>

Disturb == disturbed' = TRUE /\ UNCHANGED <<status, worked, overtaken, returned>>

Next ==
  \/ \E t \in Tasks : Put(t) \/ Work(t) \/ Return(t)
  \/ \E t \in Tasks, s \in {"open", "settled", "dropped"} : End(t, s)
  \/ Disturb

Spec == Init /\ [][Next]_queueVars
=============================================================================
