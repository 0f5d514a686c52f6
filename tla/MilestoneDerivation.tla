-------------------------- MODULE MilestoneDerivation --------------------------
(***************************************************************************)
(* What the Milestones promise, free of transactions and locks: a Task     *)
(* changes together with every Milestone it contributes to, a Milestone is *)
(* confirmed, missed or created in one step, and a terminal one stays.     *)
(* TaskLifecycle moves its Milestones this way; MilestoneProgress shows    *)
(* that the transactions of the code add up to it.                         *)
(***************************************************************************)
EXTENDS MilestoneRules

CONSTANTS Tasks, Milestones, Contributors, Required, Automatic, Timed

VARIABLES task, milestone

vars == <<task, milestone>>

TaskStatus ==
  {"NOT_STARTED", "IN_PROGRESS", "BLOCKED", "READY_FOR_VALIDATION",
   "COMPLETED", "CANCELLED"}

\* The moves of TaskTransitionService (_LEGAL_FROM and the targets).
LegalMoves ==
  ({"NOT_STARTED", "BLOCKED", "READY_FOR_VALIDATION"} \X {"IN_PROGRESS"})
    \cup ({"IN_PROGRESS"} \X {"BLOCKED", "READY_FOR_VALIDATION"})
    \cup {<<"READY_FOR_VALIDATION", "COMPLETED">>}
    \cup ({"NOT_STARTED", "IN_PROGRESS", "BLOCKED", "READY_FOR_VALIDATION"}
            \X {"CANCELLED"})

Live(m) == milestone[m] \notin TerminalMilestone \cup {"ABSENT"}

Derived(m, current, allowed) ==
  Recompute(current, m \in Automatic, m \in allowed, task', Contributors[m], Required[m])

ChangeTask(t, status) ==
  /\ <<task[t], status>> \in LegalMoves
  /\ task' = [task EXCEPT ![t] = status]
  /\ \E allowed \in SUBSET Automatic :
       milestone' = [m \in Milestones |->
                       IF Live(m) /\ t \in Contributors[m]
                       THEN Derived(m, milestone[m], allowed)
                       ELSE milestone[m]]

Create(m) ==
  /\ milestone[m] = "ABSENT"
  /\ UNCHANGED task
  /\ \E allowed \in SUBSET Automatic :
       milestone' = [milestone EXCEPT ![m] = Derived(m, "NOT_STARTED", allowed)]

Confirm(m) ==
  /\ milestone[m] = "READY_FOR_CONFIRMATION"
  /\ milestone' = [milestone EXCEPT ![m] = "ACHIEVED"]
  /\ UNCHANGED task

\* One sweep misses every overdue Milestone it selected.
Miss(missed) ==
  /\ missed \subseteq {m \in Timed : Live(m)}
  /\ milestone' = [m \in Milestones |-> IF m \in missed THEN "MISSED" ELSE milestone[m]]
  /\ UNCHANGED task

Init ==
  /\ task = [t \in Tasks |-> "NOT_STARTED"]
  /\ milestone = [m \in Milestones |-> "ABSENT"]

Next ==
  \/ \E t \in Tasks, status \in TaskStatus : ChangeTask(t, status)
  \/ \E m \in Milestones : Create(m) \/ Confirm(m)
  \/ \E missed \in SUBSET Timed : Miss(missed)

Spec == Init /\ [][Next]_vars
===============================================================================
