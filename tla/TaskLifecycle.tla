----------------------------- MODULE TaskLifecycle -----------------------------
(***************************************************************************)
(* The Task lifecycle and everything a Task command writes with it: the    *)
(* Task row, its Blockers, its Validations, the acceptable Evidence it is  *)
(* held to, the Milestones it contributes to, and the recorded overrides.  *)
(*                                                                         *)
(* A command is one action.  In the code every command takes the Task row  *)
(* FOR UPDATE before it reads anything it decides on and holds it until    *)
(* the commit, so two commands on one Task never overlap; the rows of      *)
(* other Tasks and Milestones that a command reads without their lock      *)
(* (start's predecessors and gates) are read in their final states only.   *)
(* MilestoneProgress opens up the transaction where the Task lock is not   *)
(* enough.  A command the code refuses (403, 404, 409, 422) changes        *)
(* nothing and is a step the action does not have.                         *)
(*                                                                         *)
(* `seen[t]` is a copy of row t some client has read; its version is the   *)
(* expected_version of the request the client sends.  `since[t]` is what   *)
(* `task_changes_after` finds for that version: the audit rows of the      *)
(* versioned changes made after the copy was read.                         *)
(***************************************************************************)
EXTENDS Naturals, Sequences, FiniteSets, MilestoneRules

CONSTANTS
  Tasks, Blockers, Validations, Evidence, Milestones, Users,
  NoUser, NoTask,
  Coordinators,   \* GLOBAL_ADMIN or DR_COORDINATOR
  Leads,          \* WORK_STREAM_LEAD of the stream the Tasks are in
  Owners,         \* an owner slot, or APP_OWNER, of the Tasks' Application
  Managers,       \* MANAGER of the Owning Team
  Executors,      \* EXECUTOR role
  TeamMembers,    \* active members of the Owning Team
  Upstream,       \* Task -> its HARD predecessor Tasks
  Gates,          \* Task -> its HARD gating Milestones
  OtherStream,    \* Task -> the upstream of another Work Stream
  Contributors, Required,   \* Milestone -> its contributing / required Tasks
  Automatic,      \* Milestones in AUTOMATIC confirmation mode
  Timed,          \* Milestones with a target_at
  MaxNeed,        \* largest evidence_min_count a request asks for
  MaxVersion      \* bound on a Task's version

ASSUME SetsAssumption ==
  /\ NoUser \notin Users
  /\ NoTask \notin Tasks
  /\ IsFiniteSet(Blockers) /\ IsFiniteSet(Evidence)
  /\ Upstream \in [Tasks -> SUBSET Tasks]
  /\ Gates \in [Tasks -> SUBSET Milestones]
  /\ Contributors \in [Milestones -> SUBSET Tasks]
  /\ Required \in [Milestones -> SUBSET Tasks]
  /\ \A m \in Milestones : Required[m] \subseteq Contributors[m]
  /\ MaxNeed \in Nat
  /\ MaxVersion \in Nat \ {0}

VARIABLES
  task,         \* rows of `tasks`
  blocker,      \* rows of `blockers`
  validation,   \* rows of `validations` with target_type TASK
  evidence,     \* rows of `evidence_items` with target_type TASK
  milestone,    \* status of each row of `milestones`
  overrides,    \* rows of `event_overrides` with target_type TASK
  seen, since

vars == <<task, blocker, validation, evidence, milestone, overrides, seen, since>>

-----------------------------------------------------------------------------
(* Rows *)

TaskStatus ==
  {"NOT_STARTED", "IN_PROGRESS", "BLOCKED", "READY_FOR_VALIDATION",
   "COMPLETED", "CANCELLED"}

TerminalTask == {"COMPLETED", "CANCELLED"}

\* `need` is evidence_min_count, 0 when evidence_required is false.
TaskRow ==
  [status : TaskStatus, version : 1..MaxVersion, assignee : Users \cup {NoUser},
   need : 0..MaxNeed, noteRequired : BOOLEAN]

\* VERIFIED is left inside the transaction that writes it (verify writes
\* VERIFIED and then CLOSED), so no committed row holds it.
BlockerStatus == {"ABSENT", "OPEN", "ASSIGNED", "IN_PROGRESS", "RESOLVED", "CLOSED"}

BlockerRow == [task : Tasks \cup {NoTask}, status : BlockerStatus]

ValidationRow ==
  [task : Tasks \cup {NoTask},
   status : {"ABSENT", "PENDING", "APPROVED", "REJECTED"},
   submitter : Users \cup {NoUser}, validator : Users \cup {NoUser},
   note : BOOLEAN]

\* TEXT stands for TEXT, LOG and EXTERNAL_LINK; HANDSHAKE is a FILE or
\* SCREENSHOT row without bytes, SCANNING one whose verdict is awaited.
EvidenceStatus == {"ABSENT", "TEXT", "HANDSHAKE", "SCANNING", "CLEAN", "INFECTED"}

EvidenceRow == [task : Tasks \cup {NoTask}, status : EvidenceStatus]

OverrideRow ==
  [task : Tasks,
   type : {"DEPENDENCY_OVERRIDE", "BLOCKER_ACTIVE_RESUME_OVERRIDE", "MANAGER_PRECEDENCE"},
   over : SUBSET (Tasks \cup Milestones),   \* blocking_task_ids, blocking_milestone_ids
   count : Nat,                             \* active_blocker_count / superseded_version
   at : 1..MaxVersion]                      \* created_at: the version it was decided on

\* Authorities an assignment is made under; NONE marks every other change.
Authority == {"COORDINATOR", "LEAD", "MANAGER", "IN_SCOPE", "TEAM_MEMBER", "VOLUNTEER", "NONE"}

Change == [version : 1..MaxVersion, authority : Authority]

-----------------------------------------------------------------------------
(* What the commands read *)

ActiveBlockers(t) ==
  {b \in Blockers : blocker[b].task = t /\ blocker[b].status \notin {"ABSENT", "CLOSED"}}

PendingValidations(t) ==
  {v \in Validations : validation[v].task = t /\ validation[v].status = "PENDING"}

AcceptableEvidence(t) ==
  {e \in Evidence : evidence[e].task = t /\ evidence[e].status \in {"TEXT", "CLEAN"}}

\* derive_readiness: the HARD upstream that is not satisfied.  A CANCELLED
\* predecessor and a MISSED Milestone never are.
Blocking(t) ==
  {p \in Upstream[t] : task[p].status # "COMPLETED"}
    \cup {m \in Gates[t] : milestone[m] # "ACHIEVED"}

-----------------------------------------------------------------------------
(* Who may do what (tasks_dependencies/policies.py, resources_skills/policies.py) *)

MayChangeTask(u) == u \in Coordinators \cup Leads \cup Owners \cup Managers

MayExecute(u, t) ==
  \/ MayChangeTask(u)
  \/ u \in Executors /\ (task[t].assignee = u \/ u \in TeamMembers)

\* Application-scoped Tasks: a Work Stream Lead never qualifies.
MayValidate(u) == u \in Coordinators \cup Owners

MayOverride(u, crossStream) ==
  u \in Coordinators \/ (~crossStream /\ u \in Leads)

\* assignment_authority, first match; NONE is a refusal.
AssignmentAuthority(u, target) ==
  IF u \in Coordinators THEN "COORDINATOR"
  ELSE IF u \in Leads THEN "LEAD"
  ELSE IF target \notin TeamMembers THEN "NONE"
  ELSE IF u \in Managers THEN "MANAGER"
  ELSE IF u \in Owners THEN "IN_SCOPE"
  ELSE IF u \in Executors \cap TeamMembers THEN "TEAM_MEMBER"
  ELSE "NONE"

-----------------------------------------------------------------------------
(* Writes shared by the commands *)

\* The request's expected_version is the row's.
Current(t) == seen[t].version = task[t].version

\* A versioned change of row t, with the audit row task_changes_after finds.
WriteTask(t, row, authority) ==
  /\ task[t].version < MaxVersion
  /\ task' = [task EXCEPT ![t] = [row EXCEPT !.version = task[t].version + 1]]
  /\ since' = [since EXCEPT ![t] =
                 Append(@, [version |-> task[t].version + 1, authority |-> authority])]

\* Mutant: only the Milestones that require t are recomputed.
OnRequiredTaskChanged(t) ==
  \E allowed \in SUBSET Automatic :
    milestone' =
      [m \in Milestones |->
         IF t \in Required[m]
         THEN Recompute(milestone[m], m \in Automatic, m \in allowed,
                        [x \in Tasks |-> task'[x].status],
                        Contributors[m], Required[m])
         ELSE milestone[m]]

\* on_task_changed: every Milestone t contributes to is recomputed from the
\* new Task statuses.  `allowed` are those the auto-confirm policy covers at
\* this moment; the policy is resolved per Milestone and may be edited any time.
OnTaskChanged(t) ==
  \E allowed \in SUBSET Automatic :
    milestone' =
      [m \in Milestones |->
         IF t \in Contributors[m]
         THEN Recompute(milestone[m], m \in Automatic, m \in allowed,
                        [x \in Tasks |-> task'[x].status],
                        Contributors[m], Required[m])
         ELSE milestone[m]]

\* The tail every transition ends with (_finish).
Finish(t, status) ==
  /\ WriteTask(t, [task[t] EXCEPT !.status = status], "NONE")
  /\ OnTaskChanged(t)

\* Mutant: the override names the blocking Tasks and forgets the gates.
RecordTaskOverride(t, type, over, count) ==
  overrides' = overrides \cup
    {[task |-> t, type |-> type, over |-> over \cap Tasks, count |-> count,
      at |-> task[t].version]}

RecordOverride(t, type, over, count) ==
  overrides' = overrides \cup
    {[task |-> t, type |-> type, over |-> over, count |-> count,
      at |-> task[t].version]}

CloseValidation(v, status, validator) ==
  validation' = [validation EXCEPT ![v] = [@ EXCEPT !.status = status, !.validator = validator]]

-----------------------------------------------------------------------------
(* Task transitions (tasks_dependencies/transition_service.py) *)

Start(u, t, reason) ==
  /\ MayExecute(u, t) /\ Current(t)
  /\ task[t].status = "NOT_STARTED"
  /\ \/ Blocking(t) = {} /\ UNCHANGED overrides
     \/ /\ Blocking(t) # {} /\ reason
        /\ MayOverride(u, Blocking(t) \cap OtherStream[t] # {})
        /\ RecordOverride(t, "DEPENDENCY_OVERRIDE", Blocking(t), 0)
  /\ Finish(t, "IN_PROGRESS")
  /\ UNCHANGED <<blocker, validation, evidence, seen>>

Block(u, t) ==
  /\ MayExecute(u, t) /\ Current(t)
  /\ task[t].status = "IN_PROGRESS"
  /\ \E b \in Blockers :
       /\ blocker[b].status = "ABSENT"
       /\ blocker' = [blocker EXCEPT ![b] = [task |-> t, status |-> "OPEN"]]
  /\ Finish(t, "BLOCKED")
  /\ UNCHANGED <<validation, evidence, overrides, seen>>

\* The manual resume.  With an active Blocker left it needs a reason and the
\* authority to override, and the Blocker stays as it is.
Resume(u, t, reason) ==
  /\ MayExecute(u, t) /\ Current(t)
  /\ task[t].status = "BLOCKED"
  /\ IF ActiveBlockers(t) = {}
     THEN UNCHANGED overrides
     ELSE /\ reason /\ MayOverride(u, FALSE)
          /\ RecordOverride(t, "BLOCKER_ACTIVE_RESUME_OVERRIDE", {},
                            Cardinality(ActiveBlockers(t)))
  /\ Finish(t, "IN_PROGRESS")
  /\ UNCHANGED <<blocker, validation, evidence, seen>>

SubmitValidation(u, t, note) ==
  /\ MayExecute(u, t) /\ Current(t)
  /\ task[t].status = "IN_PROGRESS"
  /\ Cardinality(AcceptableEvidence(t)) >= task[t].need
  /\ task[t].noteRequired => note
  /\ \E v \in Validations :
       /\ validation[v].status = "ABSENT"
       /\ validation' = [validation EXCEPT ![v] =
            [task |-> t, status |-> "PENDING", submitter |-> u,
             validator |-> NoUser, note |-> note]]
  /\ Finish(t, "READY_FOR_VALIDATION")
  /\ UNCHANGED <<blocker, evidence, overrides, seen>>

\* Mutant: only the submitter is kept from validating, not the assignee.
ValidateByAssignee(u, t, approve) ==
  /\ MayValidate(u) /\ Current(t)
  /\ task[t].status = "READY_FOR_VALIDATION"
  /\ \E v \in PendingValidations(t) :
       /\ u # validation[v].submitter
       /\ CloseValidation(v, IF approve THEN "APPROVED" ELSE "REJECTED", u)
  /\ Finish(t, IF approve THEN "COMPLETED" ELSE "IN_PROGRESS")
  /\ UNCHANGED <<blocker, evidence, overrides, seen>>

Validate(u, t, approve) ==
  /\ MayValidate(u) /\ Current(t)
  /\ task[t].status = "READY_FOR_VALIDATION"
  /\ \E v \in PendingValidations(t) :
       /\ u \notin {task[t].assignee, validation[v].submitter}
       /\ CloseValidation(v, IF approve THEN "APPROVED" ELSE "REJECTED", u)
  /\ Finish(t, IF approve THEN "COMPLETED" ELSE "IN_PROGRESS")
  /\ UNCHANGED <<blocker, evidence, overrides, seen>>

\* Mutant: a cancelled submission stays open.
CancelTaskOnly(u, t) ==
  /\ MayChangeTask(u) /\ Current(t)
  /\ task[t].status \notin TerminalTask
  /\ Finish(t, "CANCELLED")
  /\ UNCHANGED <<blocker, validation, evidence, overrides, seen>>

\* A cancelled submission closes REJECTED with nobody as its validator.
Cancel(u, t) ==
  /\ MayChangeTask(u) /\ Current(t)
  /\ task[t].status \notin TerminalTask
  /\ IF task[t].status = "READY_FOR_VALIDATION" /\ PendingValidations(t) # {}
     THEN \E v \in PendingValidations(t) : CloseValidation(v, "REJECTED", NoUser)
     ELSE UNCHANGED validation
  /\ Finish(t, "CANCELLED")
  /\ UNCHANGED <<blocker, evidence, overrides, seen>>

-----------------------------------------------------------------------------
(* Metadata and assignment *)

\* Mutant: the bar can still be raised under a submitted Task.
ChangeOpenRequirements(u, t, need, noteRequired) ==
  /\ MayChangeTask(u) /\ Current(t)
  /\ task[t].status \notin TerminalTask
  /\ <<need, noteRequired>> # <<task[t].need, task[t].noteRequired>>
  /\ WriteTask(t, [task[t] EXCEPT !.need = need, !.noteRequired = noteRequired], "NONE")
  /\ UNCHANGED <<blocker, validation, evidence, milestone, overrides, seen>>

\* PATCH of the requirement fields.  Values equal to the current ones are
\* dropped, and a request that changes nothing writes nothing.
ChangeRequirements(u, t, need, noteRequired) ==
  /\ MayChangeTask(u) /\ Current(t)
  /\ task[t].status \notin TerminalTask \cup {"READY_FOR_VALIDATION"}
  /\ <<need, noteRequired>> # <<task[t].need, task[t].noteRequired>>
  /\ WriteTask(t, [task[t] EXCEPT !.need = need, !.noteRequired = noteRequired], "NONE")
  /\ UNCHANGED <<blocker, validation, evidence, milestone, overrides, seen>>

\* PATCH of title, description, expected_duration_minutes or sort_order:
\* nothing the model keeps changes but the version.
ChangeDescription(u, t) ==
  /\ MayExecute(u, t) /\ Current(t)
  /\ task[t].status \notin TerminalTask
  /\ WriteTask(t, task[t], "NONE")
  /\ UNCHANGED <<blocker, validation, evidence, milestone, overrides, seen>>

\* Mutant: any audited change yields, not only a Coordinator's assignment.
YieldsToAnyManager(t) ==
  /\ seen[t].version < task[t].version
  /\ Len(since[t]) = task[t].version - seen[t].version

\* D-214: every version since the one the Manager saw is an assignment made
\* under Admin or Coordinator authority.
YieldsToManager(t) ==
  /\ seen[t].version < task[t].version
  /\ Len(since[t]) = task[t].version - seen[t].version
  /\ \A i \in 1..Len(since[t]) :
       /\ since[t][i].version = seen[t].version + i
       /\ since[t][i].authority = "COORDINATOR"

\* The one writer of the assignee.
ApplyAssignment(t, target, authority) ==
  WriteTask(t, [task[t] EXCEPT !.assignee = target], authority)

Assign(u, t, target) ==
  /\ AssignmentAuthority(u, target) # "NONE"
  /\ task[t].status \notin TerminalTask
  /\ \/ /\ Current(t)
        /\ task[t].assignee # target
        /\ UNCHANGED overrides
        /\ ApplyAssignment(t, target, AssignmentAuthority(u, target))
     \/ /\ ~Current(t)
        /\ target \in TeamMembers /\ u \in Managers /\ YieldsToManager(t)
        /\ RecordOverride(t, "MANAGER_PRECEDENCE", {}, task[t].version)
        /\ ApplyAssignment(t, target, "MANAGER")
  /\ UNCHANGED <<blocker, validation, evidence, milestone, seen>>

\* Mutant: volunteering writes the row and leaves its version.
VolunteerUnversioned(u, t) ==
  /\ u \in Executors /\ Current(t)
  /\ task[t].status \notin TerminalTask
  /\ task[t].assignee = NoUser
  /\ task' = [task EXCEPT ![t].assignee = u]
  /\ UNCHANGED <<blocker, validation, evidence, milestone, overrides, seen, since>>

Volunteer(u, t) ==
  /\ u \in Executors /\ Current(t)
  /\ task[t].status \notin TerminalTask
  /\ task[t].assignee = NoUser
  /\ ApplyAssignment(t, u, "VOLUNTEER")
  /\ UNCHANGED <<blocker, validation, evidence, milestone, overrides, seen>>

-----------------------------------------------------------------------------
(* Blockers (blockers/transition_service.py).  Routing, ownership, the row's   *)
(* own version and the escalation alert are the subject of BlockerDesk.         *)

MoveBlocker(b, from, to) ==
  /\ blocker[b].status \in from
  /\ blocker' = [blocker EXCEPT ![b] = [@ EXCEPT !.status = to]]

AssignBlocker(b) ==
  /\ MoveBlocker(b, {"OPEN", "ASSIGNED"}, "ASSIGNED")
  /\ UNCHANGED <<task, validation, evidence, milestone, overrides, seen, since>>

StartBlocker(b) ==
  /\ MoveBlocker(b, {"ASSIGNED"}, "IN_PROGRESS")
  /\ UNCHANGED <<task, validation, evidence, milestone, overrides, seen, since>>

ResolveBlocker(b) ==
  /\ MoveBlocker(b, {"IN_PROGRESS"}, "RESOLVED")
  /\ UNCHANGED <<task, validation, evidence, milestone, overrides, seen, since>>

\* Mutant: the active Blockers are counted before this one is closed.
VerifyBlockerCountedEarly(b) ==
  LET t == blocker[b].task IN
  /\ MoveBlocker(b, {"RESOLVED"}, "CLOSED")
  /\ IF task[t].status = "BLOCKED" /\ ActiveBlockers(t) = {}
     THEN Finish(t, "IN_PROGRESS")
     ELSE UNCHANGED <<task, milestone, since>>
  /\ UNCHANGED <<validation, evidence, overrides, seen>>

\* Mutant: any verified Blocker resumes its Task.
VerifyBlockerResumes(b) ==
  LET t == blocker[b].task IN
  /\ MoveBlocker(b, {"RESOLVED"}, "CLOSED")
  /\ IF task[t].status = "BLOCKED"
     THEN Finish(t, "IN_PROGRESS")
     ELSE UNCHANGED <<task, milestone, since>>
  /\ UNCHANGED <<validation, evidence, overrides, seen>>

\* verify closes the Blocker and, when it was the last active one of a BLOCKED
\* Task, resumes the Task in the same transaction, whatever version the
\* clients have seen.
VerifyBlocker(b) ==
  LET t == blocker[b].task IN
  /\ MoveBlocker(b, {"RESOLVED"}, "CLOSED")
  /\ IF task[t].status = "BLOCKED" /\ ActiveBlockers(t) = {b}
     THEN Finish(t, "IN_PROGRESS")
     ELSE UNCHANGED <<task, milestone, since>>
  /\ UNCHANGED <<validation, evidence, overrides, seen>>

-----------------------------------------------------------------------------
(* Evidence on a Task (validation_evidence/commands.py); none of it takes the  *)
(* Task lock or asks for the Task's state.                                      *)

CreateEvidence(t, e, status) ==
  /\ evidence[e].status = "ABSENT"
  /\ status \in {"TEXT", "HANDSHAKE"}
  /\ evidence' = [evidence EXCEPT ![e] = [task |-> t, status |-> status]]
  /\ UNCHANGED <<task, blocker, validation, milestone, overrides, seen, since>>

\* attach_file: the scanner answers at once, or leaves the item PENDING.
AttachFile(e, status) ==
  /\ evidence[e].status = "HANDSHAKE"
  /\ status \in {"SCANNING", "CLEAN", "INFECTED"}
  /\ evidence' = [evidence EXCEPT ![e] = [@ EXCEPT !.status = status]]
  /\ UNCHANGED <<task, blocker, validation, milestone, overrides, seen, since>>

\* record_scan_result: the webhook's verdict, once.
RecordScanResult(e, status) ==
  /\ evidence[e].status = "SCANNING"
  /\ status \in {"CLEAN", "INFECTED"}
  /\ evidence' = [evidence EXCEPT ![e] = [@ EXCEPT !.status = status]]
  /\ UNCHANGED <<task, blocker, validation, milestone, overrides, seen, since>>

-----------------------------------------------------------------------------
(* Milestones (milestones/transition_service.py) *)

\* Admin, Coordinator or this stream's Lead.
MayConfirmMilestone(u) == u \in Coordinators \cup Leads

ConfirmMilestone(u, m) ==
  /\ MayConfirmMilestone(u)
  /\ milestone[m] = "READY_FOR_CONFIRMATION"
  /\ milestone' = [milestone EXCEPT ![m] = "ACHIEVED"]
  /\ UNCHANGED <<task, blocker, validation, evidence, overrides, seen, since>>

\* The sweep, once target_at has passed.
MissMilestone(m) ==
  /\ m \in Timed
  /\ milestone[m] \notin TerminalMilestone
  /\ milestone' = [milestone EXCEPT ![m] = "MISSED"]
  /\ UNCHANGED <<task, blocker, validation, evidence, overrides, seen, since>>

-----------------------------------------------------------------------------
\* GET /tasks/{id}: a client takes a copy of the row.
Read(t) ==
  /\ ~Current(t)
  /\ seen' = [seen EXCEPT ![t] = task[t]]
  /\ since' = [since EXCEPT ![t] = <<>>]
  /\ UNCHANGED <<task, blocker, validation, evidence, milestone, overrides>>

\* Tasks as create_draft_task and the import leave them, Milestones as
\* create_milestone's first recompute leaves them over those Tasks.
Init ==
  /\ task \in [Tasks -> [status : {"NOT_STARTED"}, version : {1},
                         assignee : Users \cup {NoUser}, need : 0..MaxNeed,
                         noteRequired : BOOLEAN]]
  /\ blocker = [b \in Blockers |-> [task |-> NoTask, status |-> "ABSENT"]]
  /\ validation = [v \in Validations |->
       [task |-> NoTask, status |-> "ABSENT", submitter |-> NoUser,
        validator |-> NoUser, note |-> FALSE]]
  /\ evidence = [e \in Evidence |-> [task |-> NoTask, status |-> "ABSENT"]]
  /\ milestone = [m \in Milestones |->
       IF Required[m] = {} THEN "READY_FOR_CONFIRMATION" ELSE "NOT_STARTED"]
  /\ overrides = {}
  /\ seen = task
  /\ since = [t \in Tasks |-> <<>>]

AssignmentCommand(u, t) ==
  \/ \E target \in Users : Assign(u, t, target)
  \/ Volunteer(u, t)

TaskCommand(u, t) ==
  \/ \E reason \in BOOLEAN : Start(u, t, reason)
  \/ Block(u, t)
  \/ \E reason \in BOOLEAN : Resume(u, t, reason)
  \/ \E note \in BOOLEAN : SubmitValidation(u, t, note)
  \/ \E approve \in BOOLEAN : Validate(u, t, approve)
  \/ Cancel(u, t)
  \/ \E need \in 0..MaxNeed, note \in BOOLEAN : ChangeRequirements(u, t, need, note)
  \/ ChangeDescription(u, t)
  \/ AssignmentCommand(u, t)

BlockerCommand(b) ==
  AssignBlocker(b) \/ StartBlocker(b) \/ ResolveBlocker(b) \/ VerifyBlocker(b)

EvidenceCommand(e) ==
  \/ \E t \in Tasks, status \in EvidenceStatus : CreateEvidence(t, e, status)
  \/ \E status \in EvidenceStatus : AttachFile(e, status)
  \/ \E status \in EvidenceStatus : RecordScanResult(e, status)

Next ==
  \/ \E u \in Users, t \in Tasks : TaskCommand(u, t)
  \/ \E b \in Blockers : BlockerCommand(b)
  \/ \E e \in Evidence : EvidenceCommand(e)
  \/ \E u \in Users, m \in Milestones : ConfirmMilestone(u, m)
  \/ \E m \in Milestones : MissMilestone(m)
  \/ \E t \in Tasks : Read(t)

Spec == Init /\ [][Next]_vars

-----------------------------------------------------------------------------
(* Properties *)

\* The rows have the shapes the tables give them.
TypeOK ==
  /\ task \in [Tasks -> TaskRow]
  /\ blocker \in [Blockers -> BlockerRow]
  /\ validation \in [Validations -> ValidationRow]
  /\ evidence \in [Evidence -> EvidenceRow]
  /\ milestone \in [Milestones -> MilestoneStatus]
  /\ overrides \subseteq OverrideRow
  /\ seen \in [Tasks -> TaskRow]
  /\ since \in [Tasks -> Seq(Change)]

\* A BLOCKED Task always has an active Blocker behind it: whichever of several
\* Blockers is verified last resumes the Task, and none is left waiting for a
\* resume that nobody will trigger (transition_service.py block,
\* resume_after_last_blocker; blockers/transition_service.py verify).
BlockedHasActiveBlocker ==
  \A t \in Tasks : task[t].status = "BLOCKED" => ActiveBlockers(t) # {}

\* A READY_FOR_VALIDATION Task has exactly one open Validation and no other
\* Task has one: what get_pending_task_validation's scalar_one_or_none and
\* validate rely on, through rejections, re-submissions and cancellation.
OneOpenValidation ==
  \A t \in Tasks :
    /\ task[t].status = "READY_FOR_VALIDATION" =>
         \E v \in Validations : PendingValidations(t) = {v}
    /\ task[t].status # "READY_FOR_VALIDATION" => PendingValidations(t) = {}

\* The bar a Task was submitted under is the bar it is completed under: from
\* the submission on, the acceptable Evidence reaches the Task's minimum and
\* the note it requires is on the Validation, whatever is patched, attached
\* or found infected meanwhile (submit_validation, update_task_metadata).
CompletionBarHeld ==
  \A t \in Tasks :
    task[t].status \in {"READY_FOR_VALIDATION", "COMPLETED"} =>
      /\ Cardinality(AcceptableEvidence(t)) >= task[t].need
      /\ task[t].noteRequired =>
           \E v \in Validations :
             /\ validation[v].task = t /\ validation[v].note
             /\ validation[v].status \in {"PENDING", "APPROVED"}

\* Nobody completes their own Task: a COMPLETED Task has one approved
\* Validation, by somebody who neither submitted it nor is the Task's
\* assignee (validate, assert_not_self_validation, with reassignment of a
\* submitted Task and re-submission by others in between).
NoSelfCompletion ==
  \A t \in Tasks :
    task[t].status = "COMPLETED" =>
      \E v \in Validations :
        /\ {w \in Validations : validation[w].task = t
                                /\ validation[w].status = "APPROVED"} = {v}
        /\ validation[v].validator \in Users
        /\ validation[v].validator \notin {validation[v].submitter, task[t].assignee}

\* The version identifies the row: a client whose copy has the row's version
\* has the row, so no accepted command is ever decided on a stale copy.  Every
\* writer of the row has to take part (transitions, PATCH, assignment, the
\* automatic resume).
VersionIdentifiesRow ==
  \A t \in Tasks : seen[t].version = task[t].version => seen[t] = task[t]

\* Each versioned change writes exactly one audit row with its version, the
\* claim task_changes_after makes and D-214 decides on.
AuditTrailComplete ==
  \A t \in Tasks :
    /\ task[t].version = seen[t].version + Len(since[t])
    /\ \A i \in 1..Len(since[t]) : since[t][i].version = seen[t].version + i

\* A Task leaves NOT_STARTED only behind its HARD upstream: every predecessor
\* COMPLETED and every gate ACHIEVED, or an override that names the ones that
\* were not (start, derive_readiness).
UpstreamRespected ==
  \A t \in Tasks :
    task[t].status \notin {"NOT_STARTED", "CANCELLED"} =>
      \/ Blocking(t) = {}
      \/ \E o \in overrides :
           o.task = t /\ o.type = "DEPENDENCY_OVERRIDE" /\ Blocking(t) \subseteq o.over

\* A Milestone that is ready or achieved has every required contributor
\* COMPLETED, for good (recompute, confirm; COMPLETED is never left).
MilestoneEarned ==
  \A m \in Milestones :
    milestone[m] \in {"READY_FOR_CONFIRMATION", "ACHIEVED"} =>
      \A t \in Required[m] : task[t].status = "COMPLETED"

\* No Milestone lags behind its contributors: recomputing a live one again
\* would leave its progression where it is, so no Task command (nor the
\* resume inside a Blocker command) forgets on_task_changed.
MilestonesUpToDate ==
  \A m \in Milestones :
    DeriveTarget(milestone[m], [t \in Tasks |-> task[t].status],
                 Contributors[m], Required[m]) = milestone[m]

SameButAssignment(a, b) ==
  /\ a.status = b.status
  /\ a.need = b.need
  /\ a.noteRequired = b.noteRequired

\* A BLOCKED Task goes on only when its last active Blocker closes, when it is
\* cancelled, or over an override recorded then and counting the Blockers that
\* are passed over: an earlier override never covers a later resume, and of
\* several Blockers only the last one resumes (resume,
\* resume_after_last_blocker, verify).
NoSilentResume ==
  [][\A t \in Tasks :
       task[t].status = "BLOCKED" /\ task'[t].status # "BLOCKED" =>
         \/ task'[t].status = "CANCELLED"
         \/ ActiveBlockers(t)' = {}
         \/ \E o \in overrides' \ overrides :
              /\ o.task = t /\ o.type = "BLOCKER_ACTIVE_RESUME_OVERRIDE"
              /\ o.count = Cardinality(ActiveBlockers(t))]_vars

\* A stale assignment wins only as D-214 allows: nothing but the assignee
\* changed since the row the Manager saw (AssignmentService.assign,
\* _yields_to_manager).
PrecedenceOnlyOverAssignments ==
  [][\A t \in Tasks :
       (\E o \in overrides' \ overrides : o.task = t /\ o.type = "MANAGER_PRECEDENCE")
         => SameButAssignment(seen[t], task[t])]_vars
=============================================================================
