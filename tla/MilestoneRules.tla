---------------------------- MODULE MilestoneRules ----------------------------
(***************************************************************************)
(* The pure part of milestones/transition_service.py: where the            *)
(* contributing Tasks put a Milestone, and what `recompute` writes.  It is *)
(* used by TaskLifecycle (every Task command recomputes) and by            *)
(* MilestoneProgress (the same recompute under row locks).                 *)
(***************************************************************************)

MilestoneStatus ==
  {"NOT_STARTED", "IN_PROGRESS", "AT_RISK", "READY_FOR_CONFIRMATION",
   "ACHIEVED", "MISSED"}

TerminalMilestone == {"ACHIEVED", "MISSED"}

\* Derived moves only; READY_FOR_CONFIRMATION is left by confirm,
\* auto-confirm or miss, and the terminal states by nothing.
DerivedLegal(current) ==
  CASE current = "NOT_STARTED" ->
         {"IN_PROGRESS", "AT_RISK", "READY_FOR_CONFIRMATION"}
    [] current = "IN_PROGRESS" -> {"AT_RISK", "READY_FOR_CONFIRMATION"}
    [] current = "AT_RISK"     -> {"IN_PROGRESS", "READY_FOR_CONFIRMATION"}
    [] OTHER                   -> {}

\* Mutant: one required Task COMPLETED is enough.
TargetAnyRequired(status, contributors, required) ==
  IF \E t \in required : status[t] = "COMPLETED" THEN "READY_FOR_CONFIRMATION"
  ELSE IF \E t \in required : status[t] = "BLOCKED" THEN "AT_RISK"
  ELSE IF \E t \in contributors : status[t] # "NOT_STARTED" THEN "IN_PROGRESS"
  ELSE "NOT_STARTED"

\* `status` gives the status of each Task, `contributors` the Tasks that
\* contribute and `required` those of them the Milestone cannot do without.
Target(status, contributors, required) ==
  IF \A t \in required : status[t] = "COMPLETED" THEN "READY_FOR_CONFIRMATION"
  ELSE IF \E t \in required : status[t] = "BLOCKED" THEN "AT_RISK"
  ELSE IF \E t \in contributors : status[t] # "NOT_STARTED" THEN "IN_PROGRESS"
  ELSE "NOT_STARTED"

DeriveTarget(current, status, contributors, required) ==
  LET target == Target(status, contributors, required)
  IN  IF target \in DerivedLegal(current) THEN target ELSE current

\* The status `recompute` leaves behind: the derived one, and in the same
\* call ACHIEVED for an AUTOMATIC Milestone that requires something while
\* the policy milestone.auto_confirm_allowed is true.
Recompute(current, automatic, allowed, status, contributors, required) ==
  LET derived == DeriveTarget(current, status, contributors, required)
  IN  IF /\ derived = "READY_FOR_CONFIRMATION"
         /\ automatic /\ required # {} /\ allowed
      THEN "ACHIEVED"
      ELSE derived
===============================================================================
