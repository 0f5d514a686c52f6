-------------------------- MODULE TaskLifecycleProofs --------------------------
(***************************************************************************)
(* What holds of the Task lifecycle for any number of Tasks, Blockers,     *)
(* Validations, Evidence items, Milestones and Users, and whatever plan    *)
(* and roles they have: types first, then versions and Blockers, then      *)
(* completion, then dependencies and Milestones.                           *)
(***************************************************************************)
EXTENDS TaskLifecycle, FiniteSetTheorems, TLAPS

-----------------------------------------------------------------------------
(* Types *)

LEMMA ReadsType ==
  ASSUME NEW t \in Tasks
  PROVE  /\ Blocking(t) \subseteq Tasks \cup Milestones
         /\ IsFiniteSet(ActiveBlockers(t))
         /\ Cardinality(ActiveBlockers(t)) \in Nat
<1>1. Blocking(t) \subseteq Tasks \cup Milestones
  BY SetsAssumption DEF Blocking, SetsAssumption
<1>2. ActiveBlockers(t) \subseteq Blockers
  BY DEF ActiveBlockers
<1> QED
  BY <1>1, <1>2, FS_Subset, FS_CardinalityType, SetsAssumption DEF SetsAssumption

LEMMA RecomputeType ==
  ASSUME NEW current \in MilestoneStatus, NEW automatic, NEW allowed,
         NEW status, NEW contributors, NEW required
  PROVE  Recompute(current, automatic, allowed, status, contributors, required)
           \in MilestoneStatus
  BY DEF Recompute, DeriveTarget, Target, MilestoneStatus

LEMMA WriteType ==
  ASSUME TypeOK, NEW t \in Tasks, NEW row \in TaskRow,
         NEW authority \in Authority, WriteTask(t, row, authority)
  PROVE  /\ task' \in [Tasks -> TaskRow]
         /\ since' \in [Tasks -> Seq(Change)]
<1>1. task[t].version + 1 \in 1..MaxVersion
  BY SetsAssumption DEF SetsAssumption, TypeOK, TaskRow, WriteTask
<1>2. task' \in [Tasks -> TaskRow]
  BY <1>1 DEF TypeOK, TaskRow, WriteTask
<1>3. [version |-> task[t].version + 1, authority |-> authority] \in Change
  BY <1>1 DEF Change
<1>4. since' \in [Tasks -> Seq(Change)]
  BY <1>3 DEF TypeOK, WriteTask
<1> QED
  BY <1>2, <1>4

LEMMA OnTaskChangedType ==
  ASSUME TypeOK, NEW t \in Tasks, OnTaskChanged(t)
  PROVE  milestone' \in [Milestones -> MilestoneStatus]
  BY RecomputeType DEF TypeOK, OnTaskChanged

LEMMA FinishType ==
  ASSUME TypeOK, NEW t \in Tasks, NEW status \in TaskStatus, Finish(t, status)
  PROVE  /\ task' \in [Tasks -> TaskRow]
         /\ since' \in [Tasks -> Seq(Change)]
         /\ milestone' \in [Milestones -> MilestoneStatus]
<1>1. [task[t] EXCEPT !.status = status] \in TaskRow
  BY DEF TypeOK, TaskRow
<1> QED
  BY <1>1, WriteType, OnTaskChangedType DEF Finish, Authority

LEMMA RecordOverrideType ==
  ASSUME TypeOK, NEW t \in Tasks, NEW over \in SUBSET (Tasks \cup Milestones),
         NEW count \in Nat,
         NEW type \in {"DEPENDENCY_OVERRIDE", "BLOCKER_ACTIVE_RESUME_OVERRIDE",
                       "MANAGER_PRECEDENCE"},
         RecordOverride(t, type, over, count)
  PROVE  overrides' \subseteq OverrideRow
<1>1. task[t].version \in 1..MaxVersion
  BY DEF TypeOK, TaskRow
<1> QED
  BY <1>1 DEF TypeOK, RecordOverride, OverrideRow

LEMMA CloseValidationType ==
  ASSUME TypeOK, NEW v \in Validations, NEW status \in {"APPROVED", "REJECTED"},
         NEW u \in Users \cup {NoUser}, CloseValidation(v, status, u)
  PROVE  validation' \in [Validations -> ValidationRow]
<1>1. [validation[v] EXCEPT !.status = status, !.validator = u] \in ValidationRow
  BY DEF TypeOK, ValidationRow
<1> QED
  BY <1>1 DEF TypeOK, CloseValidation

\* A Blocker that exists belongs to a Task.
BlockersHaveTasks ==
  \A b \in Blockers : blocker[b].status # "ABSENT" => blocker[b].task \in Tasks

Typed == TypeOK /\ BlockersHaveTasks

LEMMA InitTyped == Init => Typed
<1> SUFFICES ASSUME Init PROVE Typed
  OBVIOUS
<1>1. task \in [Tasks -> TaskRow]
  BY SetsAssumption DEF Init, TaskRow, TaskStatus, SetsAssumption
<1>2. blocker \in [Blockers -> BlockerRow] /\ BlockersHaveTasks
  BY DEF Init, BlockerRow, BlockerStatus, BlockersHaveTasks
<1>3. validation \in [Validations -> ValidationRow]
  BY DEF Init, ValidationRow
<1>4. evidence \in [Evidence -> EvidenceRow]
  BY DEF Init, EvidenceRow, EvidenceStatus
<1>5. milestone \in [Milestones -> MilestoneStatus]
  BY DEF Init, MilestoneStatus
<1>6. overrides \subseteq OverrideRow /\ since \in [Tasks -> Seq(Change)]
  BY DEF Init
<1> QED
  BY <1>1, <1>2, <1>3, <1>4, <1>5, <1>6 DEF Init, Typed, TypeOK

LEMMA TaskCommandTyped ==
  ASSUME Typed, NEW u \in Users, NEW t \in Tasks, TaskCommand(u, t)
  PROVE  Typed'
<1> USE DEF Typed
<1>1. ASSUME NEW reason \in BOOLEAN, Start(u, t, reason) PROVE Typed'
  <2>1. "IN_PROGRESS" \in TaskStatus
    BY DEF TaskStatus
  <2>2. overrides' \subseteq OverrideRow
    BY <1>1, ReadsType, RecordOverrideType DEF Start, TypeOK
  <2> QED
    BY <1>1, <2>1, <2>2, FinishType DEF Start, TypeOK, BlockersHaveTasks
<1>2. ASSUME Block(u, t) PROVE Typed'
  <2>1. "BLOCKED" \in TaskStatus
    BY DEF TaskStatus
  <2>2. blocker' \in [Blockers -> BlockerRow] /\ BlockersHaveTasks'
    BY <1>2 DEF Block, TypeOK, BlockerRow, BlockerStatus, BlockersHaveTasks
  <2> QED
    BY <1>2, <2>1, <2>2, FinishType DEF Block, TypeOK
<1>3. ASSUME NEW reason \in BOOLEAN, Resume(u, t, reason) PROVE Typed'
  <2>1. "IN_PROGRESS" \in TaskStatus
    BY DEF TaskStatus
  <2>2. overrides' \subseteq OverrideRow
    BY <1>3, ReadsType, RecordOverrideType DEF Resume, TypeOK
  <2> QED
    BY <1>3, <2>1, <2>2, FinishType DEF Resume, TypeOK, BlockersHaveTasks
<1>4. ASSUME NEW note \in BOOLEAN, SubmitValidation(u, t, note) PROVE Typed'
  <2>1. "READY_FOR_VALIDATION" \in TaskStatus
    BY DEF TaskStatus
  <2>2. validation' \in [Validations -> ValidationRow]
    BY <1>4 DEF SubmitValidation, TypeOK, ValidationRow
  <2> QED
    BY <1>4, <2>1, <2>2, FinishType DEF SubmitValidation, TypeOK, BlockersHaveTasks
<1>5. ASSUME NEW approve \in BOOLEAN, Validate(u, t, approve) PROVE Typed'
  <2>1. (IF approve THEN "COMPLETED" ELSE "IN_PROGRESS") \in TaskStatus
    BY DEF TaskStatus
  <2>2. validation' \in [Validations -> ValidationRow]
    BY <1>5, CloseValidationType DEF Validate, PendingValidations
  <2> QED
    BY <1>5, <2>1, <2>2, FinishType DEF Validate, TypeOK, BlockersHaveTasks
<1>6. ASSUME Cancel(u, t) PROVE Typed'
  <2>1. "CANCELLED" \in TaskStatus
    BY DEF TaskStatus
  <2>2. validation' \in [Validations -> ValidationRow]
    BY <1>6, CloseValidationType DEF Cancel, PendingValidations, TypeOK
  <2> QED
    BY <1>6, <2>1, <2>2, FinishType DEF Cancel, TypeOK, BlockersHaveTasks
<1>7. ASSUME NEW need \in 0..MaxNeed, NEW note \in BOOLEAN,
             ChangeRequirements(u, t, need, note)
      PROVE  Typed'
  <2>1. [task[t] EXCEPT !.need = need, !.noteRequired = note] \in TaskRow
    BY DEF TypeOK, TaskRow
  <2> QED
    BY <1>7, <2>1, WriteType DEF ChangeRequirements, TypeOK, BlockersHaveTasks, Authority
<1>8. ASSUME ChangeDescription(u, t) PROVE Typed'
  <2>1. task[t] \in TaskRow
    BY DEF TypeOK
  <2> QED
    BY <1>8, <2>1, WriteType DEF ChangeDescription, TypeOK, BlockersHaveTasks, Authority
<1>9. ASSUME NEW target \in Users, Assign(u, t, target) PROVE Typed'
  <2>1. [task[t] EXCEPT !.assignee = target] \in TaskRow
    BY DEF TypeOK, TaskRow
  <2>2. AssignmentAuthority(u, target) \in Authority
    BY DEF AssignmentAuthority, Authority
  <2>3. task[t].version \in Nat
    BY DEF TypeOK, TaskRow
  <2>4. overrides' \subseteq OverrideRow
    BY <1>9, <2>3, RecordOverrideType DEF Assign, ApplyAssignment, TypeOK
  <2>5. task' \in [Tasks -> TaskRow] /\ since' \in [Tasks -> Seq(Change)]
    BY <1>9, <2>1, <2>2, WriteType DEF Assign, ApplyAssignment, Authority
  <2> QED
    BY <1>9, <2>4, <2>5 DEF Assign, ApplyAssignment, TypeOK, BlockersHaveTasks
<1>10. ASSUME Volunteer(u, t) PROVE Typed'
  <2>1. [task[t] EXCEPT !.assignee = u] \in TaskRow
    BY DEF TypeOK, TaskRow
  <2> QED
    BY <1>10, <2>1, WriteType DEF Volunteer, ApplyAssignment, TypeOK, BlockersHaveTasks, Authority
<1> QED
  BY <1>1, <1>2, <1>3, <1>4, <1>5, <1>6, <1>7, <1>8, <1>9, <1>10 DEF TaskCommand, AssignmentCommand

LEMMA BlockerCommandTyped ==
  ASSUME Typed, NEW b \in Blockers, BlockerCommand(b)
  PROVE  Typed'
<1>1. ASSUME NEW from, "ABSENT" \notin from, NEW to \in BlockerStatus,
             MoveBlocker(b, from, to)
      PROVE  /\ blocker' \in [Blockers -> BlockerRow]
             /\ blocker[b].task \in Tasks
             /\ BlockersHaveTasks'
  BY <1>1 DEF Typed, TypeOK, MoveBlocker, BlockerRow, BlockersHaveTasks
<1>2. CASE AssignBlocker(b)
  BY <1>1, <1>2 DEF AssignBlocker, Typed, TypeOK, BlockerStatus
<1>3. CASE StartBlocker(b)
  BY <1>1, <1>3 DEF StartBlocker, Typed, TypeOK, BlockerStatus
<1>4. CASE ResolveBlocker(b)
  BY <1>1, <1>4 DEF ResolveBlocker, Typed, TypeOK, BlockerStatus
<1>5. CASE VerifyBlocker(b)
  <2>1. /\ blocker' \in [Blockers -> BlockerRow] /\ BlockersHaveTasks'
        /\ blocker[b].task \in Tasks
    BY <1>1, <1>5 DEF VerifyBlocker, BlockerStatus
  <2>2. "IN_PROGRESS" \in TaskStatus
    BY DEF TaskStatus
  <2> QED
    BY <1>5, <2>1, <2>2, FinishType DEF VerifyBlocker, Typed, TypeOK
<1> QED
  BY <1>2, <1>3, <1>4, <1>5 DEF BlockerCommand

LEMMA NextTyped == Typed /\ [Next]_vars => Typed'
<1> SUFFICES ASSUME Typed, [Next]_vars PROVE Typed'
  OBVIOUS
<1>1. ASSUME NEW e \in Evidence, EvidenceCommand(e) PROVE Typed'
  <2>1. evidence' \in [Evidence -> EvidenceRow]
    <3>1. ASSUME NEW t \in Tasks, NEW status \in EvidenceStatus, CreateEvidence(t, e, status)
          PROVE  evidence' \in [Evidence -> EvidenceRow]
      BY <3>1 DEF CreateEvidence, Typed, TypeOK, EvidenceRow
    <3>2. ASSUME NEW status \in EvidenceStatus, AttachFile(e, status)
          PROVE  evidence' \in [Evidence -> EvidenceRow]
      BY <3>2 DEF AttachFile, Typed, TypeOK, EvidenceRow
    <3>3. ASSUME NEW status \in EvidenceStatus, RecordScanResult(e, status)
          PROVE  evidence' \in [Evidence -> EvidenceRow]
      BY <3>3 DEF RecordScanResult, Typed, TypeOK, EvidenceRow
    <3> QED
      BY <1>1, <3>1, <3>2, <3>3 DEF EvidenceCommand
  <2> QED
    BY <1>1, <2>1 DEF EvidenceCommand, CreateEvidence, AttachFile, RecordScanResult, Typed,
       TypeOK, BlockersHaveTasks
<1>2. ASSUME NEW u \in Users, NEW m \in Milestones, ConfirmMilestone(u, m) PROVE Typed'
  BY <1>2 DEF ConfirmMilestone, Typed, TypeOK, BlockersHaveTasks, MilestoneStatus
<1>3. ASSUME NEW m \in Milestones, MissMilestone(m) PROVE Typed'
  BY <1>3 DEF MissMilestone, Typed, TypeOK, BlockersHaveTasks, MilestoneStatus
<1>4. ASSUME NEW t \in Tasks, Read(t) PROVE Typed'
  BY <1>4 DEF Read, Typed, TypeOK, BlockersHaveTasks
<1>5. CASE UNCHANGED vars
  BY <1>5 DEF vars, Typed, TypeOK, BlockersHaveTasks
<1> QED
  BY <1>1, <1>2, <1>3, <1>4, <1>5, TaskCommandTyped, BlockerCommandTyped DEF Next

\* Every row always has the shape its table gives it.
THEOREM TypeInvariant == Spec => []TypeOK
<1>1. Spec => []Typed
  BY InitTyped, NextTyped, PTL DEF Spec
<1> QED
  BY <1>1, PTL DEF Typed

--------------------------------------------------------------------------------
(***************************************************************************)
(* What a version says of a Task row, and what D-214 may decide from the   *)
(* audit rows since a version; then what a Task and its Blockers say of    *)
(* one another.  A step does one of three things to a Task: it leaves row, *)
(* copy and audit rows alone, it writes the row under the next version     *)
(* with an audit row, or a client reads the row.                           *)
(***************************************************************************)

Kept(t) == task'[t] = task[t] /\ since'[t] = since[t] /\ seen'[t] = seen[t]

Written(t) ==
  /\ task'[t].version = task[t].version + 1
  /\ \E authority \in Authority :
       /\ since'[t] = Append(since[t], [version |-> task[t].version + 1,
                                        authority |-> authority])
       /\ authority # "NONE" => SameButAssignment(task[t], task'[t])
  /\ seen'[t] = seen[t]

WasRead(t) == task'[t] = task[t] /\ since'[t] = <<>> /\ seen'[t] = task[t]

\* What a command on row t does to it and to every other row.
LEMMA WriteRow ==
  ASSUME TypeOK, NEW t \in Tasks, NEW row \in TaskRow, NEW authority \in Authority,
         WriteTask(t, row, authority), UNCHANGED seen,
         authority # "NONE" => SameButAssignment(task[t], row)
  PROVE  Written(t) /\ \A x \in Tasks \ {t} : Kept(x)
<1>1. /\ task'[t] = [row EXCEPT !.version = task[t].version + 1]
      /\ since'[t] = Append(since[t], [version |-> task[t].version + 1,
                                       authority |-> authority])
      /\ \A x \in Tasks \ {t} : Kept(x)
  BY DEF TypeOK, WriteTask, Kept
<1>2. /\ task'[t].version = task[t].version + 1
      /\ task'[t].status = row.status /\ task'[t].need = row.need
      /\ task'[t].noteRequired = row.noteRequired
  BY <1>1 DEF TaskRow
<1> QED
  BY <1>1, <1>2 DEF Written, SameButAssignment

LEMMA FinishRow ==
  ASSUME TypeOK, NEW t \in Tasks, NEW status \in TaskStatus, Finish(t, status), UNCHANGED seen
  PROVE  Written(t) /\ \A x \in Tasks \ {t} : Kept(x)
<1>1. [task[t] EXCEPT !.status = status] \in TaskRow
  BY DEF TypeOK, TaskRow
<1> QED
  BY <1>1, WriteRow DEF Finish, Authority

LEMMA TaskCommandWrites ==
  ASSUME Typed, NEW u \in Users, NEW t \in Tasks, TaskCommand(u, t)
  PROVE  Written(t) /\ \A y \in Tasks \ {t} : Kept(y)
<1> USE DEF Typed
<1>1. ASSUME NEW reason \in BOOLEAN, Start(u, t, reason) \/ Resume(u, t, reason)
      PROVE  Written(t) /\ \A y \in Tasks \ {t} : Kept(y)
  BY <1>1, FinishRow DEF Start, Resume, TaskStatus
<1>2. CASE Block(u, t)
  BY <1>2, FinishRow DEF Block, TaskStatus
<1>3. ASSUME NEW note \in BOOLEAN, SubmitValidation(u, t, note)
      PROVE  Written(t) /\ \A y \in Tasks \ {t} : Kept(y)
  BY <1>3, FinishRow DEF SubmitValidation, TaskStatus
<1>4. ASSUME NEW approve \in BOOLEAN, Validate(u, t, approve)
      PROVE  Written(t) /\ \A y \in Tasks \ {t} : Kept(y)
  BY <1>4, FinishRow DEF Validate, TaskStatus
<1>5. CASE Cancel(u, t)
  BY <1>5, FinishRow DEF Cancel, TaskStatus
<1>6. ASSUME NEW need \in 0..MaxNeed, NEW note \in BOOLEAN,
             ChangeRequirements(u, t, need, note)
      PROVE  Written(t) /\ \A y \in Tasks \ {t} : Kept(y)
  <2>1. [task[t] EXCEPT !.need = need, !.noteRequired = note] \in TaskRow
    BY DEF TypeOK, TaskRow
  <2> QED
    BY <1>6, <2>1, WriteRow DEF ChangeRequirements, Authority
<1>7. CASE ChangeDescription(u, t)
  <2>1. task[t] \in TaskRow
    BY DEF TypeOK
  <2> QED
    BY <1>7, <2>1, WriteRow DEF ChangeDescription, Authority
<1>8. ASSUME NEW target \in Users, Assign(u, t, target) \/ Volunteer(u, t)
      PROVE  Written(t) /\ \A y \in Tasks \ {t} : Kept(y)
  <2>1. ASSUME NEW assignee \in Users
        PROVE  /\ [task[t] EXCEPT !.assignee = assignee] \in TaskRow
               /\ SameButAssignment(task[t], [task[t] EXCEPT !.assignee = assignee])
    BY DEF TypeOK, TaskRow, SameButAssignment
  <2>2. AssignmentAuthority(u, target) \in Authority
    BY DEF AssignmentAuthority, Authority
  <2>3. CASE Assign(u, t, target)
    BY <2>1, <2>2, <2>3, WriteRow DEF Assign, ApplyAssignment, Authority
  <2>4. CASE Volunteer(u, t)
    BY <2>1, <2>4, WriteRow DEF Volunteer, ApplyAssignment, Authority
  <2> QED
    BY <1>8, <2>3, <2>4
<1> QED
  BY <1>1, <1>2, <1>3, <1>4, <1>5, <1>6, <1>7, <1>8 DEF TaskCommand, AssignmentCommand

LEMMA RowSteps ==
  ASSUME Typed, [Next]_vars, NEW x \in Tasks
  PROVE  Kept(x) \/ Written(x) \/ WasRead(x)
<1> USE DEF Typed
<1>1. ASSUME NEW u \in Users, NEW t \in Tasks, TaskCommand(u, t)
      PROVE  Kept(x) \/ Written(x)
  BY <1>1, TaskCommandWrites
<1>2. ASSUME NEW b \in Blockers, BlockerCommand(b) PROVE Kept(x) \/ Written(x)
  <2>1. CASE VerifyBlocker(b)
    <3>1. blocker[b].task \in Tasks
      BY <2>1 DEF VerifyBlocker, MoveBlocker, BlockersHaveTasks
    <3> QED
      BY <2>1, <3>1, FinishRow DEF VerifyBlocker, TaskStatus, Kept
  <2> QED
    BY <1>2, <2>1 DEF BlockerCommand, AssignBlocker, StartBlocker, ResolveBlocker, Kept
<1>3. ASSUME NEW t \in Tasks, Read(t) PROVE Kept(x) \/ WasRead(x)
  BY <1>3 DEF Read, TypeOK, Kept, WasRead
<1>4. ASSUME NEW e \in Evidence, EvidenceCommand(e) PROVE Kept(x)
  BY <1>4 DEF EvidenceCommand, CreateEvidence, AttachFile, RecordScanResult, Kept
<1>5. ASSUME NEW u \in Users, NEW m \in Milestones, ConfirmMilestone(u, m) \/ MissMilestone(m)
      PROVE  Kept(x)
  BY <1>5 DEF ConfirmMilestone, MissMilestone, Kept
<1>6. CASE UNCHANGED vars
  BY <1>6 DEF vars, Kept
<1>7. ASSUME NEW m \in Milestones, MissMilestone(m) PROVE Kept(x)
  BY <1>7 DEF MissMilestone, Kept
<1> QED
  BY <1>1, <1>2, <1>3, <1>4, <1>5, <1>6, <1>7 DEF Next

-----------------------------------------------------------------------------
(* Versions and audit rows *)

\* While every change since the copy was read is an assignment, the copy is
\* the row up to its assignee.
OnlyAssigned ==
  \A t \in Tasks :
    (\A i \in 1..Len(since[t]) : since[t][i].authority # "NONE")
      => SameButAssignment(seen[t], task[t])

VersionInv == AuditTrailComplete /\ VersionIdentifiesRow /\ OnlyAssigned

LEMMA VersionStep == Typed /\ VersionInv /\ [Next]_vars => VersionInv'
<1> SUFFICES ASSUME Typed, VersionInv, [Next]_vars, NEW t \in Tasks
    PROVE /\ task'[t].version = seen'[t].version + Len(since'[t])
          /\ \A i \in 1..Len(since'[t]) : since'[t][i].version = seen'[t].version + i
          /\ seen'[t].version = task'[t].version => seen'[t] = task'[t]
          /\ (\A i \in 1..Len(since'[t]) : since'[t][i].authority # "NONE")
               => SameButAssignment(seen'[t], task'[t])
  BY DEF VersionInv, AuditTrailComplete, VersionIdentifiesRow, OnlyAssigned
<1>1. /\ task[t].version \in Nat /\ seen[t].version \in Nat /\ since[t] \in Seq(Change)
      /\ \A c \in Change : c.version \in Nat
  <2>1. task[t] \in TaskRow /\ seen[t] \in TaskRow /\ since[t] \in Seq(Change)
    BY DEF Typed, TypeOK
  <2> QED
    BY <2>1, SetsAssumption DEF TaskRow, Change, SetsAssumption
<1>2. CASE Kept(t)
  BY <1>2 DEF Kept, VersionInv, AuditTrailComplete, VersionIdentifiesRow, OnlyAssigned
<1>3. CASE Written(t)
  <2>1. PICK authority \in Authority :
          /\ since'[t] = Append(since[t], [version |-> task[t].version + 1,
                                           authority |-> authority])
          /\ authority # "NONE" => SameButAssignment(task[t], task'[t])
    BY <1>3 DEF Written
  <2>2. [version |-> task[t].version + 1, authority |-> authority] \in [version : Nat, authority : Authority]
    BY <1>1
  <2>3. /\ Len(since'[t]) = Len(since[t]) + 1
        /\ \A i \in 1..Len(since[t]) : since'[t][i] = since[t][i]
        /\ since'[t][Len(since[t]) + 1].version = task[t].version + 1
        /\ since'[t][Len(since[t]) + 1].authority = authority
        /\ Len(since[t]) \in Nat
    BY <1>1, <2>1
  <2>4. /\ task[t].version = seen[t].version + Len(since[t])
        /\ \A i \in 1..Len(since[t]) : since[t][i].version = seen[t].version + i
        /\ task'[t].version = task[t].version + 1 /\ seen'[t] = seen[t]
    BY <1>3 DEF Written, VersionInv, AuditTrailComplete
  <2>5. (\A i \in 1..Len(since'[t]) : since'[t][i].authority # "NONE")
          => SameButAssignment(seen'[t], task'[t])
    <3> SUFFICES ASSUME \A i \in 1..Len(since'[t]) : since'[t][i].authority # "NONE"
        PROVE SameButAssignment(seen'[t], task'[t])
      OBVIOUS
    <3>1. authority # "NONE" /\ \A i \in 1..Len(since[t]) : since[t][i].authority # "NONE"
      BY <2>3
    <3> QED
      BY <2>1, <2>4, <3>1 DEF VersionInv, OnlyAssigned, SameButAssignment
  <2>6. \A i \in 1..Len(since'[t]) : since'[t][i].version = seen'[t].version + i
    <3> SUFFICES ASSUME NEW i \in 1..Len(since'[t])
        PROVE since'[t][i].version = seen'[t].version + i
      OBVIOUS
    <3>1. CASE i = Len(since[t]) + 1
      BY <1>1, <2>3, <2>4, <3>1
    <3>2. CASE i \in 1..Len(since[t])
      BY <2>3, <2>4, <3>2
    <3> QED
      BY <2>3, <3>1, <3>2
  <2> QED
    BY <1>1, <2>3, <2>4, <2>5, <2>6
<1>4. CASE WasRead(t)
  BY <1>1, <1>4 DEF WasRead, SameButAssignment
<1> QED
  BY <1>2, <1>3, <1>4, RowSteps

LEMMA VersionInit == Init => VersionInv
  BY DEF Init, VersionInv, AuditTrailComplete, VersionIdentifiesRow, OnlyAssigned, SameButAssignment

\* A copy with the row's version is the row: no accepted command is decided on
\* a stale copy (expected_version in every Task command).
THEOREM VersionTheorem == Spec => []VersionIdentifiesRow
<1>1. Spec => [](Typed /\ VersionInv)
  BY InitTyped, NextTyped, VersionInit, VersionStep, PTL DEF Spec
<1> QED
  BY <1>1, PTL DEF VersionInv

\* A Manager's stale assignment is let through only when nothing but the
\* assignee changed since the row the Manager saw (AssignmentService.assign,
\* _yields_to_manager, task_changes_after).
THEOREM PrecedenceTheorem == Spec => PrecedenceOnlyOverAssignments
<1>1. Typed /\ VersionInv /\ [Next]_vars =>
        [\A t \in Tasks :
           (\E o \in overrides' \ overrides : o.task = t /\ o.type = "MANAGER_PRECEDENCE")
             => SameButAssignment(seen[t], task[t])]_vars
  <2> SUFFICES ASSUME Typed, VersionInv, [Next]_vars, NEW t \in Tasks,
                      NEW o \in overrides' \ overrides,
                      o.task = t, o.type = "MANAGER_PRECEDENCE"
      PROVE SameButAssignment(seen[t], task[t])
    OBVIOUS
  <2>1. ASSUME NEW x \in Tasks, NEW type, NEW over, NEW count, type # "MANAGER_PRECEDENCE",
               RecordOverride(x, type, over, count)
        PROVE  FALSE
    BY <2>1 DEF RecordOverride
  <2>2. PICK u \in Users, x \in Tasks : TaskCommand(u, x)
    BY DEF Next, vars, BlockerCommand, AssignBlocker, StartBlocker, ResolveBlocker, VerifyBlocker,
       EvidenceCommand, CreateEvidence, AttachFile, RecordScanResult, ConfirmMilestone,
       MissMilestone, Read
  <2>3. PICK target \in Users : Assign(u, x, target)
    BY <2>1, <2>2 DEF TaskCommand, AssignmentCommand, Start, Block, Resume, SubmitValidation, Validate, Cancel,
       ChangeRequirements, ChangeDescription, Volunteer, ApplyAssignment
  <2>4. x = t /\ YieldsToManager(t)
    BY <2>3 DEF Assign, ApplyAssignment, RecordOverride
  <2> QED
    BY <2>4 DEF YieldsToManager, VersionInv, OnlyAssigned
<1>2. Spec => [](Typed /\ VersionInv)
  BY InitTyped, NextTyped, VersionInit, VersionStep, PTL DEF Spec
<1> QED
  BY <1>1, <1>2, PTL DEF Spec, PrecedenceOnlyOverAssignments

-----------------------------------------------------------------------------
(* Steps *)

\* What a transition leaves of row t, and of every other row.
Moved(t, status) ==
  /\ task'[t].status = status
  /\ task'[t].assignee = task[t].assignee
  /\ task'[t].need = task[t].need
  /\ task'[t].noteRequired = task[t].noteRequired
  /\ \A x \in Tasks \ {t} : task'[x] = task[x]

LEMMA FinishMoves ==
  ASSUME TypeOK, NEW t \in Tasks, NEW status \in TaskStatus, Finish(t, status)
  PROVE  Moved(t, status)
<1>1. task' = [task EXCEPT ![t] = [[task[t] EXCEPT !.status = status]
                                     EXCEPT !.version = task[t].version + 1]]
  BY DEF Finish, WriteTask
<1> QED
  BY <1>1 DEF TypeOK, TaskRow, Moved

\* Everything else a command may write into the row.
Edited(t) ==
  /\ task[t].status \notin TerminalTask
  /\ task'[t].status = task[t].status
  /\ \/ task[t].status # "READY_FOR_VALIDATION"
     \/ /\ task'[t].need = task[t].need
        /\ task'[t].noteRequired = task[t].noteRequired
  /\ \A x \in Tasks \ {t} : task'[x] = task[x]
  /\ UNCHANGED <<blocker, validation, evidence, milestone>>
  /\ overrides \subseteq overrides'

EditCommand(u, t) ==
  \/ \E need \in 0..MaxNeed, note \in BOOLEAN : ChangeRequirements(u, t, need, note)
  \/ ChangeDescription(u, t)
  \/ \E target \in Users : Assign(u, t, target)
  \/ Volunteer(u, t)

LEMMA EditCommandEdits ==
  ASSUME TypeOK, NEW u \in Users, NEW t \in Tasks, EditCommand(u, t)
  PROVE  Edited(t)
<1>1. ASSUME NEW row \in TaskRow, NEW authority, WriteTask(t, row, authority)
      PROVE  /\ task'[t] = [row EXCEPT !.version = task[t].version + 1]
             /\ \A x \in Tasks \ {t} : task'[x] = task[x]
  BY <1>1 DEF TypeOK, WriteTask
<1>2. ASSUME NEW need \in 0..MaxNeed, NEW note \in BOOLEAN, ChangeRequirements(u, t, need, note)
      PROVE  Edited(t)
  <2>1. [task[t] EXCEPT !.need = need, !.noteRequired = note] \in TaskRow
    BY DEF TypeOK, TaskRow
  <2> QED
    BY <1>1, <1>2, <2>1 DEF ChangeRequirements, Edited, TaskRow, TypeOK
<1>3. CASE ChangeDescription(u, t)
  <2>1. task[t] \in TaskRow
    BY DEF TypeOK
  <2> QED
    BY <1>1, <1>3, <2>1 DEF ChangeDescription, Edited, TaskRow
<1>4. ASSUME NEW assignee \in Users, NEW authority,
             WriteTask(t, [task[t] EXCEPT !.assignee = assignee], authority)
      PROVE  /\ task'[t].status = task[t].status
             /\ task'[t].need = task[t].need
             /\ task'[t].noteRequired = task[t].noteRequired
             /\ \A x \in Tasks \ {t} : task'[x] = task[x]
  <2>1. [task[t] EXCEPT !.assignee = assignee] \in TaskRow
    BY DEF TypeOK, TaskRow
  <2> QED
    BY <1>1, <1>4, <2>1 DEF TypeOK, TaskRow
<1>5. ASSUME NEW target \in Users, Assign(u, t, target) PROVE Edited(t)
  BY <1>4, <1>5 DEF Assign, ApplyAssignment, Edited, RecordOverride
<1>6. CASE Volunteer(u, t)
  BY <1>4, <1>6 DEF Volunteer, ApplyAssignment, Edited
<1> QED
  BY <1>2, <1>3, <1>5, <1>6 DEF EditCommand

\* What the commands on a Task come to.
LEMMA TaskCommandCases ==
  ASSUME NEW u \in Users, NEW t \in Tasks, TaskCommand(u, t)
  PROVE  \/ \E reason \in BOOLEAN : Start(u, t, reason)
         \/ Block(u, t)
         \/ \E reason \in BOOLEAN : Resume(u, t, reason)
         \/ \E note \in BOOLEAN : SubmitValidation(u, t, note)
         \/ \E approve \in BOOLEAN : Validate(u, t, approve)
         \/ Cancel(u, t)
         \/ EditCommand(u, t)
  BY DEF TaskCommand, AssignmentCommand, EditCommand

-----------------------------------------------------------------------------
(* Blockers *)

LEMMA MoveKeepsActive ==
  ASSUME TypeOK, NEW b \in Blockers, NEW from, "ABSENT" \notin from, "CLOSED" \notin from,
         NEW to \in BlockerStatus \ {"ABSENT", "CLOSED"}, MoveBlocker(b, from, to),
         NEW t \in Tasks
  PROVE  ActiveBlockers(t)' = ActiveBlockers(t)
<1>1. blocker[b].status \notin {"ABSENT", "CLOSED"}
  BY DEF MoveBlocker
<1>2. blocker' = [blocker EXCEPT ![b] = [blocker[b] EXCEPT !.status = to]]
  BY DEF MoveBlocker
<1>3. \A x \in Blockers : blocker'[x].task = blocker[x].task
  BY <1>2 DEF TypeOK, BlockerRow
<1>4. \A x \in Blockers : x # b => blocker'[x] = blocker[x]
  BY <1>2 DEF TypeOK
<1>5. blocker'[b].status = to
  BY <1>2 DEF TypeOK, BlockerRow
<1> QED
  BY <1>1, <1>3, <1>4, <1>5 DEF ActiveBlockers

LEMMA VerifyCloses ==
  ASSUME TypeOK, NEW b \in Blockers, VerifyBlocker(b), NEW t \in Tasks
  PROVE  ActiveBlockers(t)' = ActiveBlockers(t) \ {b}
<1>1. blocker' = [blocker EXCEPT ![b] = [blocker[b] EXCEPT !.status = "CLOSED"]]
  BY DEF VerifyBlocker, MoveBlocker
<1>2. \A x \in Blockers : x # b => blocker'[x] = blocker[x]
  BY <1>1 DEF TypeOK
<1>3. blocker'[b].status = "CLOSED"
  BY <1>1 DEF TypeOK, BlockerRow
<1> QED
  BY <1>2, <1>3 DEF ActiveBlockers

LEMMA BlockAdds ==
  ASSUME TypeOK, NEW u \in Users, NEW t \in Tasks, Block(u, t), NEW x \in Tasks
  PROVE  /\ ActiveBlockers(x) \subseteq ActiveBlockers(x)'
         /\ ActiveBlockers(t)' # {}
<1>1. PICK b \in Blockers :
        /\ blocker[b].status = "ABSENT"
        /\ blocker' = [blocker EXCEPT ![b] = [task |-> t, status |-> "OPEN"]]
  BY DEF Block
<1>2. /\ blocker'[b] = [task |-> t, status |-> "OPEN"]
      /\ \A y \in Blockers : y # b => blocker'[y] = blocker[y]
  BY <1>1 DEF TypeOK
<1> QED
  BY <1>1, <1>2 DEF ActiveBlockers

LEMMA BlockedStep == Typed /\ BlockedHasActiveBlocker /\ [Next]_vars => BlockedHasActiveBlocker'
<1> SUFFICES ASSUME Typed, BlockedHasActiveBlocker, [Next]_vars, NEW x \in Tasks,
                    task'[x].status = "BLOCKED"
    PROVE ActiveBlockers(x)' # {}
  BY DEF BlockedHasActiveBlocker
<1> USE DEF Typed
<1>1. ASSUME UNCHANGED blocker, task'[x].status = task[x].status
      PROVE  ActiveBlockers(x)' # {}
  BY <1>1 DEF BlockedHasActiveBlocker, ActiveBlockers
<1>2. ASSUME NEW u \in Users, NEW t \in Tasks, TaskCommand(u, t)
      PROVE  ActiveBlockers(x)' # {}
  <2>1. ASSUME NEW status \in TaskStatus, status # "BLOCKED", Finish(t, status), UNCHANGED blocker
        PROVE  ActiveBlockers(x)' # {}
    BY <1>1, <2>1, FinishMoves DEF Moved
  <2>2. CASE \E reason \in BOOLEAN : Start(u, t, reason)
    BY <2>1, <2>2 DEF Start, TaskStatus
  <2>3. CASE Block(u, t)
    <3>1. Moved(t, "BLOCKED")
      BY <2>3, FinishMoves DEF Block, TaskStatus
    <3> QED
      BY <2>3, <3>1, BlockAdds DEF Moved, BlockedHasActiveBlocker
  <2>4. CASE \E reason \in BOOLEAN : Resume(u, t, reason)
    BY <2>1, <2>4 DEF Resume, TaskStatus
  <2>5. CASE \E note \in BOOLEAN : SubmitValidation(u, t, note)
    BY <2>1, <2>5 DEF SubmitValidation, TaskStatus
  <2>6. CASE \E approve \in BOOLEAN : Validate(u, t, approve)
    BY <2>1, <2>6 DEF Validate, TaskStatus
  <2>7. CASE Cancel(u, t)
    BY <2>1, <2>7 DEF Cancel, TaskStatus
  <2>8. CASE EditCommand(u, t)
    BY <1>1, <2>8, EditCommandEdits DEF Edited
  <2> QED
    BY <1>2, <2>2, <2>3, <2>4, <2>5, <2>6, <2>7, <2>8, TaskCommandCases
<1>3. ASSUME NEW b \in Blockers, BlockerCommand(b) PROVE ActiveBlockers(x)' # {}
  <2>1. CASE VerifyBlocker(b)
    <3> DEFINE t == blocker[b].task
    <3>1. t \in Tasks /\ b \in ActiveBlockers(t)
      BY <2>1 DEF VerifyBlocker, MoveBlocker, BlockersHaveTasks, ActiveBlockers
    <3>2. CASE task[t].status = "BLOCKED" /\ ActiveBlockers(t) = {b}
      <4>1. Moved(t, "IN_PROGRESS")
        BY <2>1, <3>1, <3>2, FinishMoves DEF VerifyBlocker, TaskStatus
      <4>2. x # t /\ task[x].status = "BLOCKED"
        BY <4>1 DEF Moved
      <4>3. b \notin ActiveBlockers(x)
        BY <4>2 DEF ActiveBlockers
      <4> QED
        BY <2>1, <4>2, <4>3, VerifyCloses DEF BlockedHasActiveBlocker
    <3>3. CASE ~(task[t].status = "BLOCKED" /\ ActiveBlockers(t) = {b})
      <4>1. task[x].status = "BLOCKED"
        BY <2>1, <3>3 DEF VerifyBlocker
      <4>2. ActiveBlockers(x) # {b}
        BY <3>3, <4>1 DEF ActiveBlockers
      <4> QED
        BY <2>1, <4>1, <4>2, VerifyCloses DEF BlockedHasActiveBlocker
    <3> QED
      BY <3>2, <3>3
  <2>2. CASE AssignBlocker(b)
    BY <2>2, MoveKeepsActive DEF AssignBlocker, BlockerStatus, BlockedHasActiveBlocker
  <2>3. CASE StartBlocker(b)
    BY <2>3, MoveKeepsActive DEF StartBlocker, BlockerStatus, BlockedHasActiveBlocker
  <2>4. CASE ResolveBlocker(b)
    BY <2>4, MoveKeepsActive DEF ResolveBlocker, BlockerStatus, BlockedHasActiveBlocker
  <2> QED
    BY <1>3, <2>1, <2>2, <2>3, <2>4 DEF BlockerCommand
<1>4. ASSUME UNCHANGED <<task, blocker>> PROVE ActiveBlockers(x)' # {}
  BY <1>1, <1>4
<1>5. ASSUME NEW e \in Evidence, EvidenceCommand(e) PROVE UNCHANGED <<task, blocker>>
  BY <1>5 DEF EvidenceCommand, CreateEvidence, AttachFile, RecordScanResult
<1> QED
  BY <1>2, <1>3, <1>4, <1>5 DEF Next, vars, ConfirmMilestone, MissMilestone, Read

\* Whichever Blocker of a Task is verified last resumes it: no Task is left
\* BLOCKED with nothing to wait for (block, resume, cancel,
\* resume_after_last_blocker, verify).
THEOREM BlockedTheorem == Spec => []BlockedHasActiveBlocker
<1>1. Init => BlockedHasActiveBlocker
  BY DEF Init, BlockedHasActiveBlocker
<1>2. Spec => [](Typed /\ BlockedHasActiveBlocker)
  BY <1>1, InitTyped, NextTyped, BlockedStep, PTL DEF Spec
<1> QED
  BY <1>2, PTL

-----------------------------------------------------------------------------
(* Overrides *)

\* An override was decided on a version its Task no longer has, so one that is
\* recorded now is a new row.
OverridesAreOld == \A o \in overrides : o.at < task[o.task].version

LEMMA OverridesStep == Typed /\ OverridesAreOld /\ [Next]_vars => OverridesAreOld'
<1> SUFFICES ASSUME Typed, OverridesAreOld, [Next]_vars, NEW o \in overrides'
    PROVE o.at < task'[o.task].version
  BY DEF OverridesAreOld
<1> USE DEF Typed
<1>1. \A x \in Tasks : task[x].version \in Nat /\ task'[x].version \in Nat
                        /\ task'[x].version >= task[x].version
  <2> SUFFICES ASSUME NEW x \in Tasks
      PROVE task[x].version \in Nat /\ task'[x].version \in Nat
            /\ task'[x].version >= task[x].version
    OBVIOUS
  <2>1. task[x] \in TaskRow
    BY DEF TypeOK
  <2>2. task[x].version \in Nat
    BY <2>1, SetsAssumption DEF TaskRow, SetsAssumption
  <2> QED
    BY <2>2, RowSteps DEF Kept, Written, WasRead
<1>2. CASE o \in overrides
  <2>1. o.task \in Tasks /\ o.at \in Nat
    BY <1>2, SetsAssumption DEF TypeOK, OverrideRow, SetsAssumption
  <2> QED
    BY <1>1, <1>2, <2>1 DEF OverridesAreOld
<1>3. CASE o \notin overrides
  <2>1. PICK u \in Users, t \in Tasks : TaskCommand(u, t)
    BY <1>3 DEF Next, vars, BlockerCommand, AssignBlocker, StartBlocker, ResolveBlocker,
       VerifyBlocker, EvidenceCommand, CreateEvidence, AttachFile, RecordScanResult,
       ConfirmMilestone, MissMilestone, Read
  <2>2. ASSUME NEW type, NEW over, NEW count, RecordOverride(t, type, over, count)
        PROVE  o.task = t /\ o.at = task[t].version
    BY <1>3, <2>2 DEF RecordOverride
  <2>3. o.task = t /\ o.at = task[t].version
    BY <1>3, <2>1, <2>2 DEF TaskCommand, AssignmentCommand, Start, Block, Resume, SubmitValidation, Validate,
       Cancel, ChangeRequirements, ChangeDescription, Assign, Volunteer, ApplyAssignment
  <2>4. Written(t)
    BY <2>1, TaskCommandWrites
  <2> QED
    BY <1>1, <2>3, <2>4 DEF Written
<1> QED
  BY <1>2, <1>3

\* A BLOCKED Task goes on only when its last Blocker closes, when it is
\* cancelled, or over an override recorded in that very step and counting the
\* Blockers passed over (resume, resume_after_last_blocker, verify).
THEOREM SilentResumeTheorem == Spec => NoSilentResume
<1>1. Typed /\ OverridesAreOld /\ [Next]_vars =>
        [\A t \in Tasks :
           task[t].status = "BLOCKED" /\ task'[t].status # "BLOCKED" =>
             \/ task'[t].status = "CANCELLED"
             \/ ActiveBlockers(t)' = {}
             \/ \E o \in overrides' \ overrides :
                  /\ o.task = t /\ o.type = "BLOCKER_ACTIVE_RESUME_OVERRIDE"
                  /\ o.count = Cardinality(ActiveBlockers(t))]_vars
  <2> SUFFICES ASSUME Typed, OverridesAreOld, Next, NEW x \in Tasks,
                      task[x].status = "BLOCKED", task'[x].status # "BLOCKED",
                      task'[x].status # "CANCELLED"
      PROVE \/ ActiveBlockers(x)' = {}
            \/ \E o \in overrides' \ overrides :
                 /\ o.task = x /\ o.type = "BLOCKER_ACTIVE_RESUME_OVERRIDE"
                 /\ o.count = Cardinality(ActiveBlockers(x))
    BY DEF vars
  <2> USE DEF Typed
  <2>1. ASSUME NEW u \in Users, NEW t \in Tasks, TaskCommand(u, t)
        PROVE  x = t /\ \E reason \in BOOLEAN : Resume(u, t, reason)
    <3>1. ASSUME NEW status \in TaskStatus, Finish(t, status),
                 task[t].status # "BLOCKED" \/ status = "CANCELLED"
          PROVE  FALSE
      BY <3>1, FinishMoves DEF Moved
    <3>2. ~Block(u, t) /\ ~Cancel(u, t)
      BY <3>1 DEF Block, Cancel, TaskStatus
    <3>3. ~EditCommand(u, t)
      BY EditCommandEdits DEF Edited
    <3>4. /\ \A reason \in BOOLEAN : ~Start(u, t, reason)
          /\ \A note \in BOOLEAN : ~SubmitValidation(u, t, note)
          /\ \A approve \in BOOLEAN : ~Validate(u, t, approve)
      BY <3>1 DEF Start, SubmitValidation, Validate, TaskStatus
    <3>5. \E reason \in BOOLEAN : Resume(u, t, reason)
      BY <2>1, <3>2, <3>3, <3>4, TaskCommandCases
    <3> QED
      BY <3>5, FinishMoves DEF Resume, Moved, TaskStatus
  <2>2. ASSUME NEW u \in Users, NEW reason \in BOOLEAN, Resume(u, x, reason)
        PROVE  \/ ActiveBlockers(x)' = {}
               \/ \E o \in overrides' \ overrides :
                    /\ o.task = x /\ o.type = "BLOCKER_ACTIVE_RESUME_OVERRIDE"
                    /\ o.count = Cardinality(ActiveBlockers(x))
    <3>1. CASE ActiveBlockers(x) = {}
      BY <2>2, <3>1 DEF Resume, ActiveBlockers
    <3>2. CASE ActiveBlockers(x) # {}
      <4> DEFINE o == [task |-> x, type |-> "BLOCKER_ACTIVE_RESUME_OVERRIDE", over |-> {},
                       count |-> Cardinality(ActiveBlockers(x)), at |-> task[x].version]
      <4>1. o \in overrides'
        BY <2>2, <3>2 DEF Resume, RecordOverride
      <4>2. task[x].version \in Nat
        BY SetsAssumption DEF TypeOK, TaskRow, SetsAssumption
      <4>3. o \notin overrides
        BY <4>2 DEF OverridesAreOld
      <4> QED
        BY <4>1, <4>3
    <3> QED
      BY <3>1, <3>2
  <2>3. ASSUME NEW b \in Blockers, BlockerCommand(b) PROVE ActiveBlockers(x)' = {}
    <3>1. VerifyBlocker(b)
      BY <2>3 DEF BlockerCommand, AssignBlocker, StartBlocker, ResolveBlocker
    <3> DEFINE t == blocker[b].task
    <3>2. t \in Tasks
      BY <3>1 DEF VerifyBlocker, MoveBlocker, BlockersHaveTasks
    <3>3. ActiveBlockers(t) = {b} /\ Finish(t, "IN_PROGRESS")
      BY <3>1 DEF VerifyBlocker
    <3>4. x = t
      BY <3>2, <3>3, FinishMoves DEF Moved, TaskStatus
    <3> QED
      BY <3>1, <3>3, <3>4, VerifyCloses
  <2>4. ASSUME UNCHANGED task PROVE FALSE
    BY <2>4
  <2>5. ASSUME NEW e \in Evidence, EvidenceCommand(e) PROVE UNCHANGED task
    BY <2>5 DEF EvidenceCommand, CreateEvidence, AttachFile, RecordScanResult
  <2> QED
    BY <2>1, <2>2, <2>3, <2>4, <2>5 DEF Next, ConfirmMilestone, MissMilestone, Read
<1>2. Init => OverridesAreOld
  BY DEF Init, OverridesAreOld
<1>3. Spec => [](Typed /\ OverridesAreOld)
  BY <1>2, InitTyped, NextTyped, OverridesStep, PTL DEF Spec
<1> QED
  BY <1>1, <1>3, PTL DEF Spec, NoSilentResume

--------------------------------------------------------------------------------
(***************************************************************************)
(* What a Task is completed on: one open Validation while it waits, one    *)
(* approval by somebody else once it is COMPLETED, and the Evidence and    *)
(* the note it asks for.  The invariant adds that an approval is only      *)
(* found on a COMPLETED Task, so that a new submission starts from none.   *)
(***************************************************************************)

ApprovedMeansCompleted ==
  \A v \in Validations :
    \A t \in Tasks :
      validation[v].task = t /\ validation[v].status = "APPROVED"
        => task[t].status = "COMPLETED"

CompletionInv ==
  /\ OneOpenValidation
  /\ NoSelfCompletion
  /\ ApprovedMeansCompleted
  /\ CompletionBarHeld

-----------------------------------------------------------------------------
(* Steps that do not touch the Validations *)

Judged == {"READY_FOR_VALIDATION", "COMPLETED"}

\* A Task that neither was nor is submitted or completed, or that keeps what
\* it is judged by.
Unjudged(x) ==
  \/ task'[x] = task[x]
  \/ task[x].status \notin Judged /\ task'[x].status \notin Judged
  \/ /\ task[x].status = "READY_FOR_VALIDATION"
     /\ task'[x].status = "READY_FOR_VALIDATION"
     /\ task'[x].need = task[x].need
     /\ task'[x].noteRequired = task[x].noteRequired

Quiet ==
  /\ \A x \in Tasks : Unjudged(x)
  /\ UNCHANGED validation
  /\ \A x \in Tasks : AcceptableEvidence(x) \subseteq AcceptableEvidence(x)'

JudgingCommand(u, t) ==
  \/ \E note \in BOOLEAN : SubmitValidation(u, t, note)
  \/ \E approve \in BOOLEAN : Validate(u, t, approve)
  \/ Cancel(u, t)

\* Acceptable Evidence stays acceptable: TEXT and CLEAN are never left.
LEMMA EvidenceGrows ==
  ASSUME TypeOK, NEW e \in Evidence, EvidenceCommand(e), NEW x \in Tasks
  PROVE  AcceptableEvidence(x) \subseteq AcceptableEvidence(x)'
<1>1. /\ evidence[e].status \notin {"TEXT", "CLEAN"}
      /\ \A y \in Evidence : y # e => evidence'[y] = evidence[y]
  BY DEF EvidenceCommand, CreateEvidence, AttachFile, RecordScanResult, TypeOK
<1> QED
  BY <1>1 DEF AcceptableEvidence

LEMMA QuietSteps ==
  ASSUME Typed, [Next]_vars
  PROVE  Quiet \/ \E u \in Users, t \in Tasks : JudgingCommand(u, t)
<1> USE DEF Typed
<1>1. ASSUME UNCHANGED <<validation, evidence>>, \A x \in Tasks : Unjudged(x)
      PROVE  Quiet
  BY <1>1 DEF Quiet, AcceptableEvidence
<1>2. ASSUME NEW t \in Tasks, NEW status \in TaskStatus \ Judged, Finish(t, status),
             task[t].status \notin Judged
      PROVE  \A x \in Tasks : Unjudged(x)
  BY <1>2, FinishMoves DEF Moved, Unjudged
<1>3. ASSUME NEW u \in Users, NEW t \in Tasks, TaskCommand(u, t), ~JudgingCommand(u, t)
      PROVE  Quiet
  <2>1. CASE \E reason \in BOOLEAN : Start(u, t, reason)
    BY <1>1, <1>2, <2>1 DEF Start, TaskStatus, Judged
  <2>2. CASE Block(u, t)
    BY <1>1, <1>2, <2>2 DEF Block, TaskStatus, Judged
  <2>3. CASE \E reason \in BOOLEAN : Resume(u, t, reason)
    BY <1>1, <1>2, <2>3 DEF Resume, TaskStatus, Judged
  <2>4. CASE EditCommand(u, t)
    <3>1. Edited(t)
      BY <2>4, EditCommandEdits
    <3>2. \A x \in Tasks : Unjudged(x)
      BY <3>1 DEF Edited, Unjudged, Judged, TerminalTask
    <3> QED
      BY <1>1, <3>1, <3>2 DEF Edited
  <2> QED
    BY <1>3, <2>1, <2>2, <2>3, <2>4, TaskCommandCases DEF JudgingCommand
<1>4. ASSUME NEW b \in Blockers, BlockerCommand(b) PROVE Quiet
  <2>1. CASE VerifyBlocker(b)
    <3>1. blocker[b].task \in Tasks
      BY <2>1 DEF VerifyBlocker, MoveBlocker, BlockersHaveTasks
    <3>2. \A x \in Tasks : Unjudged(x)
      BY <1>2, <2>1, <3>1 DEF VerifyBlocker, TaskStatus, Judged, Unjudged
    <3> QED
      BY <1>1, <2>1, <3>2 DEF VerifyBlocker
  <2>2. CASE AssignBlocker(b) \/ StartBlocker(b) \/ ResolveBlocker(b)
    BY <1>1, <2>2 DEF AssignBlocker, StartBlocker, ResolveBlocker, Unjudged
  <2> QED
    BY <1>4, <2>1, <2>2 DEF BlockerCommand
<1>5. ASSUME NEW e \in Evidence, EvidenceCommand(e) PROVE Quiet
  <2>1. UNCHANGED <<task, validation>>
    BY <1>5 DEF EvidenceCommand, CreateEvidence, AttachFile, RecordScanResult
  <2> QED
    BY <1>5, <2>1, EvidenceGrows DEF Quiet, Unjudged
<1>6. ASSUME UNCHANGED <<task, validation, evidence>> PROVE Quiet
  BY <1>1, <1>6 DEF Unjudged
<1> QED
  BY <1>3, <1>4, <1>5, <1>6 DEF Next, vars, ConfirmMilestone, MissMilestone, Read

LEMMA EvidenceCount ==
  ASSUME NEW x \in Tasks, TypeOK,
         AcceptableEvidence(x) \subseteq AcceptableEvidence(x)'
  PROVE  /\ Cardinality(AcceptableEvidence(x)) \in Nat
         /\ Cardinality(AcceptableEvidence(x)') \in Nat
         /\ Cardinality(AcceptableEvidence(x)) <= Cardinality(AcceptableEvidence(x)')
<1>1. AcceptableEvidence(x) \subseteq Evidence /\ AcceptableEvidence(x)' \subseteq Evidence
  BY DEF AcceptableEvidence
<1>2. IsFiniteSet(AcceptableEvidence(x)) /\ IsFiniteSet(AcceptableEvidence(x)')
  BY <1>1, FS_Subset, SetsAssumption DEF SetsAssumption
<1> QED
  BY <1>2, FS_Subset, FS_CardinalityType

LEMMA QuietKeeps == Typed /\ CompletionInv /\ Quiet => CompletionInv'
<1> SUFFICES ASSUME Typed, CompletionInv, Quiet PROVE CompletionInv'
  OBVIOUS
<1> USE DEF Typed, CompletionInv
<1>1. \A x \in Tasks : PendingValidations(x)' = PendingValidations(x)
  BY DEF Quiet, PendingValidations
<1>2. OneOpenValidation'
  BY <1>1 DEF Quiet, Unjudged, Judged, OneOpenValidation
<1>3. NoSelfCompletion'
  BY DEF Quiet, Unjudged, Judged, NoSelfCompletion
<1>4. ApprovedMeansCompleted'
  BY DEF Quiet, Unjudged, Judged, ApprovedMeansCompleted
<1>5. CompletionBarHeld'
  <2> SUFFICES ASSUME NEW x \in Tasks,
                      task'[x].status \in {"READY_FOR_VALIDATION", "COMPLETED"}
      PROVE /\ Cardinality(AcceptableEvidence(x)') >= task'[x].need
            /\ task'[x].noteRequired =>
                 \E v \in Validations :
                   /\ validation'[v].task = x /\ validation'[v].note
                   /\ validation'[v].status \in {"PENDING", "APPROVED"}
    BY DEF CompletionBarHeld
  <2>1. /\ task[x].status \in {"READY_FOR_VALIDATION", "COMPLETED"}
        /\ task'[x].need = task[x].need
        /\ task'[x].noteRequired = task[x].noteRequired
    BY DEF Quiet, Unjudged, Judged
  <2>2. task[x].need \in Nat
    BY SetsAssumption DEF TypeOK, TaskRow, SetsAssumption
  <2>3. Cardinality(AcceptableEvidence(x)') >= task'[x].need
    BY <2>1, <2>2, EvidenceCount DEF Quiet, CompletionBarHeld
  <2> QED
    BY <2>1, <2>3 DEF Quiet, CompletionBarHeld
<1> QED
  BY <1>2, <1>3, <1>4, <1>5

-----------------------------------------------------------------------------
(* Submission, verdict and cancellation *)

LEMMA SubmitKeeps ==
  ASSUME Typed, CompletionInv, NEW u \in Users, NEW t \in Tasks, NEW note \in BOOLEAN,
         SubmitValidation(u, t, note)
  PROVE  CompletionInv'
<1> USE DEF Typed, CompletionInv
<1>1. PICK v \in Validations :
        /\ validation[v].status = "ABSENT"
        /\ validation' = [validation EXCEPT ![v] =
             [task |-> t, status |-> "PENDING", submitter |-> u,
              validator |-> NoUser, note |-> note]]
  BY DEF SubmitValidation
<1>2. /\ validation'[v] = [task |-> t, status |-> "PENDING", submitter |-> u,
                           validator |-> NoUser, note |-> note]
      /\ \A w \in Validations : w # v => validation'[w] = validation[w]
  BY <1>1 DEF TypeOK
<1>3. Moved(t, "READY_FOR_VALIDATION") /\ task[t].status = "IN_PROGRESS"
  BY FinishMoves DEF SubmitValidation, TaskStatus
<1>4. /\ PendingValidations(t) = {} /\ PendingValidations(t)' = {v}
      /\ \A x \in Tasks \ {t} : PendingValidations(x)' = PendingValidations(x)
  <2>1. PendingValidations(t) = {}
    BY <1>3 DEF OneOpenValidation
  <2> QED
    BY <1>1, <1>2, <2>1 DEF PendingValidations
<1>5. OneOpenValidation'
  BY <1>3, <1>4 DEF Moved, OneOpenValidation
<1>6. NoSelfCompletion'
  BY <1>1, <1>2, <1>3 DEF Moved, NoSelfCompletion
<1>7. ApprovedMeansCompleted'
  BY <1>1, <1>2, <1>3 DEF Moved, ApprovedMeansCompleted
<1>8. CompletionBarHeld'
  <2>1. \A x \in Tasks : AcceptableEvidence(x)' = AcceptableEvidence(x)
    BY DEF SubmitValidation, AcceptableEvidence
  <2>2. /\ Cardinality(AcceptableEvidence(t)) >= task[t].need
        /\ task[t].noteRequired => note
    BY DEF SubmitValidation
  <2> QED
    BY <1>1, <1>2, <1>3, <2>1, <2>2 DEF Moved, CompletionBarHeld
<1> QED
  BY <1>5, <1>6, <1>7, <1>8

LEMMA CloseRow ==
  ASSUME TypeOK, NEW v \in Validations, NEW status, NEW u, CloseValidation(v, status, u)
  PROVE  /\ validation'[v].task = validation[v].task
         /\ validation'[v].submitter = validation[v].submitter
         /\ validation'[v].note = validation[v].note
         /\ validation'[v].status = status
         /\ validation'[v].validator = u
         /\ \A w \in Validations : w # v => validation'[w] = validation[w]
<1>1. validation' = [validation EXCEPT ![v] =
                       [validation[v] EXCEPT !.status = status, !.validator = u]]
  BY DEF CloseValidation
<1> QED
  BY <1>1 DEF TypeOK, ValidationRow

LEMMA ApproveKeeps ==
  ASSUME Typed, CompletionInv, NEW u \in Users, NEW t \in Tasks, Validate(u, t, TRUE)
  PROVE  CompletionInv'
<1> USE DEF Typed, CompletionInv
<1>1. PICK v \in PendingValidations(t) :
        /\ u \notin {task[t].assignee, validation[v].submitter}
        /\ CloseValidation(v, "APPROVED", u)
  BY DEF Validate
<1>2. v \in Validations /\ validation[v].task = t /\ validation[v].status = "PENDING"
  BY DEF PendingValidations
<1>3. /\ validation'[v].task = t /\ validation'[v].submitter = validation[v].submitter
      /\ validation'[v].note = validation[v].note
      /\ validation'[v].status = "APPROVED" /\ validation'[v].validator = u
      /\ \A w \in Validations : w # v => validation'[w] = validation[w]
  BY <1>1, <1>2, CloseRow
<1>4. Moved(t, "COMPLETED") /\ task[t].status = "READY_FOR_VALIDATION"
  BY FinishMoves DEF Validate, TaskStatus
<1>5. PendingValidations(t) = {v}
  BY <1>4 DEF OneOpenValidation
<1>6. /\ PendingValidations(t)' = {}
      /\ \A x \in Tasks \ {t} : PendingValidations(x)' = PendingValidations(x)
  BY <1>2, <1>3, <1>5 DEF PendingValidations
<1>7. OneOpenValidation'
  BY <1>4, <1>6 DEF Moved, OneOpenValidation
<1>8. NoSelfCompletion'
  <2> SUFFICES ASSUME NEW x \in Tasks, task'[x].status = "COMPLETED"
      PROVE \E w \in Validations :
              /\ {y \in Validations : validation'[y].task = x
                                      /\ validation'[y].status = "APPROVED"} = {w}
              /\ validation'[w].validator \in Users
              /\ validation'[w].validator \notin {validation'[w].submitter, task'[x].assignee}
    BY DEF NoSelfCompletion
  <2>1. CASE x = t
    <3>1. \A y \in Validations :
            ~(validation[y].task = t /\ validation[y].status = "APPROVED")
      BY <1>4 DEF ApprovedMeansCompleted
    <3>2. {y \in Validations : validation'[y].task = t
                               /\ validation'[y].status = "APPROVED"} = {v}
      BY <1>2, <1>3, <3>1
    <3>3. u # task'[t].assignee /\ u # validation'[v].submitter
      BY <1>1, <1>3, <1>4 DEF Moved
    <3> QED
      BY <1>2, <1>3, <2>1, <3>2, <3>3
  <2>2. CASE x # t
    <3>1. task'[x] = task[x]
      BY <1>4, <2>2 DEF Moved
    <3>2. PICK w \in Validations :
            /\ {y \in Validations : validation[y].task = x
                                    /\ validation[y].status = "APPROVED"} = {w}
            /\ validation[w].validator \in Users
            /\ validation[w].validator \notin {validation[w].submitter, task[x].assignee}
      BY <3>1 DEF NoSelfCompletion
    <3>3. w # v
      BY <1>2, <3>2
    <3>4. {y \in Validations : validation'[y].task = x
                               /\ validation'[y].status = "APPROVED"} = {w}
      BY <1>2, <1>3, <2>2, <3>2
    <3> QED
      BY <1>3, <3>1, <3>2, <3>3, <3>4
  <2> QED
    BY <2>1, <2>2
<1>9. ApprovedMeansCompleted'
  BY <1>2, <1>3, <1>4 DEF Moved, ApprovedMeansCompleted
<1>10. CompletionBarHeld'
  <2>1. \A x \in Tasks : AcceptableEvidence(x)' = AcceptableEvidence(x)
    BY DEF Validate, AcceptableEvidence
  <2> QED
    BY <1>2, <1>3, <1>4, <2>1 DEF Moved, CompletionBarHeld
<1> QED
  BY <1>7, <1>8, <1>9, <1>10

\* A Validation that is closed without an approval, with its Task sent back or
\* cancelled.
LEMMA RejectKeeps ==
  ASSUME Typed, CompletionInv, NEW t \in Tasks, NEW v \in PendingValidations(t), NEW u,
         CloseValidation(v, "REJECTED", u), NEW status, status \notin Judged, Moved(t, status),
         UNCHANGED evidence
  PROVE  CompletionInv'
<1> USE DEF Typed, CompletionInv
<1>1. v \in Validations /\ validation[v].task = t /\ validation[v].status = "PENDING"
  BY DEF PendingValidations
<1>2. /\ validation'[v].task = t /\ validation'[v].status = "REJECTED"
      /\ \A w \in Validations : w # v => validation'[w] = validation[w]
  BY <1>1, CloseRow
<1>3. PendingValidations(t) = {v} /\ task[t].status = "READY_FOR_VALIDATION"
  BY DEF OneOpenValidation
<1>4. /\ PendingValidations(t)' = {}
      /\ \A x \in Tasks \ {t} : PendingValidations(x)' = PendingValidations(x)
  BY <1>1, <1>2, <1>3 DEF PendingValidations
<1>5. OneOpenValidation'
  BY <1>4 DEF Moved, Judged, OneOpenValidation
<1>6. NoSelfCompletion'
  BY <1>1, <1>2, <1>3 DEF Moved, Judged, NoSelfCompletion
<1>7. ApprovedMeansCompleted'
  BY <1>1, <1>2, <1>3 DEF Moved, ApprovedMeansCompleted
<1>8. CompletionBarHeld'
  <2>1. \A x \in Tasks : AcceptableEvidence(x)' = AcceptableEvidence(x)
    BY DEF AcceptableEvidence
  <2> QED
    BY <1>1, <1>2, <2>1 DEF Moved, Judged, CompletionBarHeld
<1> QED
  BY <1>5, <1>6, <1>7, <1>8

LEMMA CompletionStep == Typed /\ CompletionInv /\ [Next]_vars => CompletionInv'
<1> SUFFICES ASSUME Typed, CompletionInv, NEW u \in Users, NEW t \in Tasks, JudgingCommand(u, t)
    PROVE CompletionInv'
  BY QuietSteps, QuietKeeps
<1>1. CASE \E note \in BOOLEAN : SubmitValidation(u, t, note)
  BY <1>1, SubmitKeeps
<1>2. CASE Validate(u, t, TRUE)
  BY <1>2, ApproveKeeps
<1>3. CASE Validate(u, t, FALSE)
  BY <1>3, RejectKeeps, FinishMoves DEF Validate, TaskStatus, Judged, Typed
<1>4. CASE Cancel(u, t)
  <2>1. Moved(t, "CANCELLED") /\ UNCHANGED evidence
    BY <1>4, FinishMoves DEF Cancel, TaskStatus, Typed
  <2>2. CASE task[t].status = "READY_FOR_VALIDATION"
    <3>1. PendingValidations(t) # {}
      BY <2>2 DEF CompletionInv, OneOpenValidation
    <3> QED
      BY <1>4, <2>1, <2>2, <3>1, RejectKeeps DEF Cancel, Judged
  <2>3. CASE task[t].status # "READY_FOR_VALIDATION"
    <3>1. UNCHANGED validation /\ task[t].status \notin Judged
      BY <1>4, <2>3 DEF Cancel, TerminalTask, Judged
    <3>2. Quiet
      BY <2>1, <3>1 DEF Moved, Judged, Quiet, Unjudged, AcceptableEvidence
    <3> QED
      BY <3>2, QuietKeeps
  <2> QED
    BY <2>2, <2>3
<1> QED
  BY <1>1, <1>2, <1>3, <1>4 DEF JudgingCommand

LEMMA CompletionInit == Init => CompletionInv
  BY DEF Init, CompletionInv, OneOpenValidation, PendingValidations, NoSelfCompletion,
     ApprovedMeansCompleted, CompletionBarHeld

LEMMA CompletionInvariant == Spec => []CompletionInv
<1>1. Spec => [](Typed /\ CompletionInv)
  BY InitTyped, NextTyped, CompletionInit, CompletionStep, PTL DEF Spec
<1> QED
  BY <1>1, PTL

\* A submitted Task has exactly one open Validation and no other Task has one
\* (submit_validation, validate, cancel, get_pending_task_validation).
THEOREM OneOpenTheorem == Spec => []OneOpenValidation
  BY CompletionInvariant, PTL DEF CompletionInv

\* Nobody completes their own Task, through reassignment and re-submission
\* (validate, assert_not_self_validation).
THEOREM NoSelfCompletionTheorem == Spec => []NoSelfCompletion
  BY CompletionInvariant, PTL DEF CompletionInv

\* The Evidence and the note a Task was submitted with still reach its bar
\* when it is COMPLETED (submit_validation, update_task_metadata).
THEOREM CompletionBarTheorem == Spec => []CompletionBarHeld
  BY CompletionInvariant, PTL DEF CompletionInv

--------------------------------------------------------------------------------
(***************************************************************************)
(* What Tasks owe to their upstream, and Milestones to their Tasks.  Both  *)
(* rest on finality: COMPLETED and ACHIEVED are never left, so what once   *)
(* satisfied a dependency satisfies it for good.                           *)
(***************************************************************************)

Statuses == [x \in Tasks |-> task[x].status]

\* A Task changes its status, and its Milestones are recomputed.
Transition(t, status) == task[t].status \notin TerminalTask /\ Finish(t, status)

SettleMilestone(m, status) ==
  /\ \/ status = "ACHIEVED" /\ milestone[m] = "READY_FOR_CONFIRMATION"
     \/ status = "MISSED" /\ milestone[m] \notin TerminalMilestone
  /\ milestone' = [milestone EXCEPT ![m] = status]

LEMMA ProgressSteps ==
  ASSUME Typed, [Next]_vars
  PROVE  \/ \E t \in Tasks, status \in TaskStatus : Transition(t, status)
         \/ UNCHANGED milestone /\ \A x \in Tasks : task'[x].status = task[x].status
         \/ /\ \E m \in Milestones, status \in {"ACHIEVED", "MISSED"} : SettleMilestone(m, status)
            /\ UNCHANGED task
<1> DEFINE Goal ==
      \/ \E t \in Tasks, status \in TaskStatus : Transition(t, status)
      \/ UNCHANGED milestone /\ \A x \in Tasks : task'[x].status = task[x].status
      \/ /\ \E m \in Milestones, status \in {"ACHIEVED", "MISSED"} : SettleMilestone(m, status)
         /\ UNCHANGED task
<1> SUFFICES Goal
  OBVIOUS
<1> USE DEF Typed
<1>1. ASSUME NEW u \in Users, NEW t \in Tasks, TaskCommand(u, t) PROVE Goal
  <2>1. CASE EditCommand(u, t)
    BY <2>1, EditCommandEdits DEF Edited
  <2>2. CASE ~EditCommand(u, t)
    BY <1>1, <2>2, TaskCommandCases DEF Start, Block, Resume, SubmitValidation, Validate, Cancel,
       Transition, TaskStatus, TerminalTask
  <2> QED
    BY <2>1, <2>2
<1>2. ASSUME NEW b \in Blockers, BlockerCommand(b) PROVE Goal
  <2>1. CASE VerifyBlocker(b)
    <3>1. blocker[b].task \in Tasks
      BY <2>1 DEF VerifyBlocker, MoveBlocker, BlockersHaveTasks
    <3> QED
      BY <2>1, <3>1 DEF VerifyBlocker, Transition, TaskStatus, TerminalTask
  <2> QED
    BY <1>2, <2>1 DEF BlockerCommand, AssignBlocker, StartBlocker, ResolveBlocker
<1>3. ASSUME NEW e \in Evidence, EvidenceCommand(e) PROVE UNCHANGED <<task, milestone>>
  BY <1>3 DEF EvidenceCommand, CreateEvidence, AttachFile, RecordScanResult
<1>4. ASSUME NEW m \in Milestones, MissMilestone(m) PROVE Goal
  BY <1>4 DEF MissMilestone, SettleMilestone
<1>5. ASSUME NEW u \in Users, NEW m \in Milestones, ConfirmMilestone(u, m) PROVE Goal
  BY <1>5 DEF ConfirmMilestone, SettleMilestone
<1> QED
  BY <1>1, <1>2, <1>3, <1>4, <1>5 DEF Next, vars, Read

\* on_task_changed, Milestone by Milestone.
LEMMA Recomputed ==
  ASSUME TypeOK, NEW t \in Tasks, OnTaskChanged(t), NEW m \in Milestones
  PROVE  \E automatic, allowed \in BOOLEAN :
           milestone'[m] =
             IF t \in Contributors[m]
             THEN Recompute(milestone[m], automatic, allowed, Statuses', Contributors[m], Required[m])
             ELSE milestone[m]
<1>1. PICK allowed \in SUBSET Automatic :
        milestone' =
          [x \in Milestones |->
             IF t \in Contributors[x]
             THEN Recompute(milestone[x], x \in Automatic, x \in allowed,
                            [y \in Tasks |-> task'[y].status],
                            Contributors[x], Required[x])
             ELSE milestone[x]]
  BY DEF OnTaskChanged
<1>2. (m \in Automatic) \in BOOLEAN /\ (m \in allowed) \in BOOLEAN
  OBVIOUS
<1>3. Statuses' = [y \in Tasks |-> task'[y].status]
  BY DEF Statuses
<1> QED
  BY <1>1, <1>2, <1>3

-----------------------------------------------------------------------------
(* Finality *)

LEMMA CompletedIsFinal ==
  ASSUME Typed, [Next]_vars, NEW x \in Tasks, task[x].status = "COMPLETED"
  PROVE  task'[x].status = "COMPLETED"
<1>1. ASSUME NEW t \in Tasks, NEW status \in TaskStatus, Transition(t, status)
      PROVE  task'[x].status = "COMPLETED"
  BY <1>1, FinishMoves DEF Transition, Moved, TerminalTask, Typed
<1> QED
  BY <1>1, ProgressSteps

LEMMA AchievedIsFinal ==
  ASSUME Typed, [Next]_vars, NEW m \in Milestones, milestone[m] = "ACHIEVED"
  PROVE  milestone'[m] = "ACHIEVED"
<1>1. ASSUME NEW t \in Tasks, NEW status \in TaskStatus, Transition(t, status)
      PROVE  milestone'[m] = "ACHIEVED"
  BY <1>1, Recomputed DEF Transition, Finish, Recompute, DeriveTarget, DerivedLegal, Typed
<1>2. ASSUME NEW x \in Milestones, NEW status \in {"ACHIEVED", "MISSED"},
             SettleMilestone(x, status)
      PROVE  milestone'[m] = "ACHIEVED"
  BY <1>2 DEF SettleMilestone, TerminalMilestone, Typed, TypeOK
<1> QED
  BY <1>1, <1>2, ProgressSteps

LEMMA BlockingShrinks ==
  ASSUME Typed, [Next]_vars, NEW x \in Tasks
  PROVE  Blocking(x)' \subseteq Blocking(x)
<1>1. Upstream[x] \subseteq Tasks /\ Gates[x] \subseteq Milestones
  BY SetsAssumption DEF SetsAssumption
<1> QED
  BY <1>1, CompletedIsFinal, AchievedIsFinal DEF Blocking

-----------------------------------------------------------------------------
(* The upstream of a Task *)

LEMMA OverridesGrow ==
  ASSUME [Next]_vars
  PROVE  overrides \subseteq overrides'
<1>1. ASSUME NEW t, NEW type, NEW over, NEW count, RecordOverride(t, type, over, count)
      PROVE  overrides \subseteq overrides'
  BY <1>1 DEF RecordOverride
<1>2. ASSUME NEW u \in Users, NEW t \in Tasks, TaskCommand(u, t)
      PROVE  overrides \subseteq overrides'
  BY <1>1, <1>2 DEF TaskCommand, AssignmentCommand, Start, Block, Resume, SubmitValidation, Validate, Cancel,
     ChangeRequirements, ChangeDescription, Assign, Volunteer, ApplyAssignment
<1>3. ASSUME UNCHANGED overrides PROVE overrides \subseteq overrides'
  BY <1>3
<1>4. ASSUME NEW b \in Blockers, BlockerCommand(b) PROVE UNCHANGED overrides
  BY <1>4 DEF BlockerCommand, AssignBlocker, StartBlocker, ResolveBlocker, VerifyBlocker
<1>5. ASSUME NEW e \in Evidence, EvidenceCommand(e) PROVE UNCHANGED overrides
  BY <1>5 DEF EvidenceCommand, CreateEvidence, AttachFile, RecordScanResult
<1> QED
  BY <1>2, <1>3, <1>4, <1>5 DEF Next, vars, ConfirmMilestone, MissMilestone, Read

\* Start is the only way out of NOT_STARTED but cancellation.
LEMMA OnlyStartStarts ==
  ASSUME Typed, [Next]_vars, NEW x \in Tasks,
         task[x].status \in {"NOT_STARTED", "CANCELLED"},
         task'[x].status \notin {"NOT_STARTED", "CANCELLED"}
  PROVE  \E u \in Users, reason \in BOOLEAN : Start(u, x, reason)
<1> USE DEF Typed
<1>1. ASSUME NEW t \in Tasks, NEW status \in TaskStatus, Finish(t, status),
             task[t].status \notin {"NOT_STARTED", "CANCELLED"} \/ status = "CANCELLED"
      PROVE  FALSE
  BY <1>1, FinishMoves DEF Moved
<1>2. ASSUME NEW u \in Users, NEW t \in Tasks, TaskCommand(u, t)
      PROVE  t = x /\ \E reason \in BOOLEAN : Start(u, t, reason)
  <2>1. ~EditCommand(u, t)
    BY EditCommandEdits DEF Edited
  <2>2. /\ ~Block(u, t) /\ ~Cancel(u, t)
        /\ \A reason \in BOOLEAN : ~Resume(u, t, reason)
        /\ \A note \in BOOLEAN : ~SubmitValidation(u, t, note)
        /\ \A approve \in BOOLEAN : ~Validate(u, t, approve)
    BY <1>1 DEF Block, Cancel, Resume, SubmitValidation, Validate, TaskStatus
  <2>3. \E reason \in BOOLEAN : Start(u, t, reason)
    BY <1>2, <2>1, <2>2, TaskCommandCases
  <2> QED
    BY <2>3, FinishMoves DEF Start, Moved, TaskStatus
<1>3. ASSUME NEW b \in Blockers, BlockerCommand(b) PROVE FALSE
  <2>1. VerifyBlocker(b)
    BY <1>3 DEF BlockerCommand, AssignBlocker, StartBlocker, ResolveBlocker
  <2>2. blocker[b].task \in Tasks
    BY <2>1 DEF VerifyBlocker, MoveBlocker, BlockersHaveTasks
  <2> QED
    BY <1>1, <2>1, <2>2 DEF VerifyBlocker, TaskStatus
<1>4. ASSUME NEW e \in Evidence, EvidenceCommand(e) PROVE UNCHANGED task
  BY <1>4 DEF EvidenceCommand, CreateEvidence, AttachFile, RecordScanResult
<1> QED
  BY <1>2, <1>3, <1>4 DEF Next, vars, ConfirmMilestone, MissMilestone, Read

LEMMA UpstreamStep == Typed /\ UpstreamRespected /\ [Next]_vars => UpstreamRespected'
<1> SUFFICES ASSUME Typed, UpstreamRespected, [Next]_vars, NEW x \in Tasks,
                    task'[x].status \notin {"NOT_STARTED", "CANCELLED"}
    PROVE \/ Blocking(x)' = {}
          \/ \E o \in overrides' :
               o.task = x /\ o.type = "DEPENDENCY_OVERRIDE" /\ Blocking(x)' \subseteq o.over
  BY DEF UpstreamRespected
<1>1. CASE task[x].status \notin {"NOT_STARTED", "CANCELLED"}
  BY <1>1, BlockingShrinks, OverridesGrow DEF UpstreamRespected
<1>2. CASE task[x].status \in {"NOT_STARTED", "CANCELLED"}
  <2>1. PICK u \in Users, reason \in BOOLEAN : Start(u, x, reason)
    BY <1>2, OnlyStartStarts
  <2>2. CASE Blocking(x) = {}
    BY <2>2, BlockingShrinks
  <2>3. CASE RecordOverride(x, "DEPENDENCY_OVERRIDE", Blocking(x), 0)
    <3> DEFINE o == [task |-> x, type |-> "DEPENDENCY_OVERRIDE", over |-> Blocking(x),
                     count |-> 0, at |-> task[x].version]
    <3>1. o \in overrides'
      BY <2>3 DEF RecordOverride
    <3> QED
      BY <3>1, BlockingShrinks
  <2> QED
    BY <2>1, <2>2, <2>3 DEF Start
<1> QED
  BY <1>1, <1>2

\* A Task runs only behind its HARD upstream, or over an override naming what
\* it runs ahead of (start, derive_readiness).
THEOREM UpstreamTheorem == Spec => []UpstreamRespected
<1>1. Init => UpstreamRespected
  BY DEF Init, UpstreamRespected
<1>2. Spec => [](Typed /\ UpstreamRespected)
  BY <1>1, InitTyped, NextTyped, UpstreamStep, PTL DEF Spec
<1> QED
  BY <1>2, PTL

-----------------------------------------------------------------------------
(* The Milestones of a Task *)

\* Deriving twice is deriving once: what recompute leaves is up to date.
LEMMA DeriveIdempotent ==
  ASSUME NEW current, NEW status, NEW contributors, NEW required
  PROVE  LET derived == DeriveTarget(current, status, contributors, required)
         IN  DeriveTarget(derived, status, contributors, required) = derived
  BY DEF DeriveTarget

LEMMA RecomputeSettles ==
  ASSUME NEW current, NEW automatic, NEW allowed, NEW status, NEW contributors, NEW required,
         NEW left, left = Recompute(current, automatic, allowed, status, contributors, required)
  PROVE  /\ DeriveTarget(left, status, contributors, required) = left
         /\ left \in {"READY_FOR_CONFIRMATION", "ACHIEVED"} =>
              \/ \A t \in required : status[t] = "COMPLETED"
              \/ current \in {"READY_FOR_CONFIRMATION", "ACHIEVED"}
<1>1. \A target : target \notin DerivedLegal("ACHIEVED")
  BY DEF DerivedLegal
<1>2. Target(status, contributors, required) \in {"READY_FOR_CONFIRMATION", "ACHIEVED"}
        => \A t \in required : status[t] = "COMPLETED"
  BY DEF Target
<1> QED
  BY <1>1, <1>2, DeriveIdempotent DEF Recompute, DeriveTarget

\* Deriving reads no other Task than the contributors.
LEMMA DeriveReads ==
  ASSUME NEW current, NEW s1, NEW s2, NEW contributors, NEW required,
         required \subseteq contributors, \A t \in contributors : s1[t] = s2[t]
  PROVE  DeriveTarget(current, s1, contributors, required)
           = DeriveTarget(current, s2, contributors, required)
<1>1. Target(s1, contributors, required) = Target(s2, contributors, required)
  BY DEF Target
<1> QED
  BY <1>1 DEF DeriveTarget

MilestoneInv == MilestoneEarned /\ MilestonesUpToDate

LEMMA MilestoneStep == Typed /\ MilestoneInv /\ [Next]_vars => MilestoneInv'
<1> SUFFICES ASSUME Typed, MilestoneInv, [Next]_vars, NEW m \in Milestones
    PROVE /\ milestone'[m] \in {"READY_FOR_CONFIRMATION", "ACHIEVED"} =>
               \A t \in Required[m] : task'[t].status = "COMPLETED"
          /\ DeriveTarget(milestone'[m], Statuses', Contributors[m], Required[m]) = milestone'[m]
  BY DEF MilestoneInv, MilestoneEarned, MilestonesUpToDate, Statuses
<1> USE DEF Typed
<1>1. Required[m] \subseteq Contributors[m] /\ Contributors[m] \subseteq Tasks
  BY SetsAssumption DEF SetsAssumption
<1>2. /\ milestone[m] \in {"READY_FOR_CONFIRMATION", "ACHIEVED"} =>
           \A t \in Required[m] : task[t].status = "COMPLETED"
      /\ DeriveTarget(milestone[m], Statuses, Contributors[m], Required[m]) = milestone[m]
  BY DEF MilestoneInv, MilestoneEarned, MilestonesUpToDate, Statuses
<1>3. milestone[m] \in {"READY_FOR_CONFIRMATION", "ACHIEVED"} =>
        \A t \in Required[m] : task'[t].status = "COMPLETED"
  BY <1>1, <1>2, CompletedIsFinal
<1>4. \A t \in Tasks : Statuses[t] = task[t].status /\ Statuses'[t] = task'[t].status
  BY DEF Statuses
<1>5. ASSUME NEW t \in Tasks, NEW status \in TaskStatus, Transition(t, status)
      PROVE  /\ milestone'[m] \in {"READY_FOR_CONFIRMATION", "ACHIEVED"} =>
                  \A x \in Required[m] : task'[x].status = "COMPLETED"
             /\ DeriveTarget(milestone'[m], Statuses', Contributors[m], Required[m])
                  = milestone'[m]
  <2>1. PICK automatic \in BOOLEAN, allowed \in BOOLEAN :
          milestone'[m] =
            IF t \in Contributors[m]
            THEN Recompute(milestone[m], automatic, allowed, Statuses', Contributors[m], Required[m])
            ELSE milestone[m]
    BY <1>5, Recomputed DEF Transition, Finish
  <2>2. CASE t \in Contributors[m]
    <3>1. milestone'[m] = Recompute(milestone[m], automatic, allowed, Statuses',
                                    Contributors[m], Required[m])
      BY <2>1, <2>2
    <3>2. /\ DeriveTarget(milestone'[m], Statuses', Contributors[m], Required[m]) = milestone'[m]
          /\ milestone'[m] \in {"READY_FOR_CONFIRMATION", "ACHIEVED"} =>
               \/ \A x \in Required[m] : Statuses'[x] = "COMPLETED"
               \/ milestone[m] \in {"READY_FOR_CONFIRMATION", "ACHIEVED"}
      BY <3>1, RecomputeSettles
    <3> QED
      BY <1>1, <1>3, <1>4, <3>2
  <2>3. CASE t \notin Contributors[m]
    <3>1. \A x \in Contributors[m] : Statuses'[x] = Statuses[x]
      BY <1>1, <1>4, <1>5, <2>3, FinishMoves DEF Transition, Moved
    <3> QED
      BY <1>1, <1>2, <1>3, <2>1, <2>3, <3>1, DeriveReads
  <2> QED
    BY <2>2, <2>3
<1>6. CASE UNCHANGED milestone /\ \A x \in Tasks : task'[x].status = task[x].status
  BY <1>1, <1>2, <1>3, <1>4, <1>6, DeriveReads
<1>7. ASSUME NEW x \in Milestones, NEW status \in {"ACHIEVED", "MISSED"},
             SettleMilestone(x, status), UNCHANGED task
      PROVE  /\ milestone'[m] \in {"READY_FOR_CONFIRMATION", "ACHIEVED"} =>
                  \A t \in Required[m] : task'[t].status = "COMPLETED"
             /\ DeriveTarget(milestone'[m], Statuses', Contributors[m], Required[m])
                  = milestone'[m]
  <2>1. CASE m = x
    <3>1. milestone'[m] = status
      BY <1>7, <2>1 DEF SettleMilestone, TypeOK
    <3>2. DerivedLegal(status) = {}
      BY DEF DerivedLegal
    <3> QED
      BY <1>3, <1>7, <2>1, <3>1, <3>2 DEF SettleMilestone, DeriveTarget
  <2>2. CASE m # x
    <3>1. milestone'[m] = milestone[m] /\ Statuses' = Statuses
      BY <1>7, <2>2 DEF SettleMilestone, TypeOK, Statuses
    <3> QED
      BY <1>2, <1>3, <3>1
  <2> QED
    BY <2>1, <2>2
<1> QED
  BY <1>5, <1>6, <1>7, ProgressSteps

LEMMA MilestoneInit == Init => MilestoneInv
<1> SUFFICES ASSUME Init, NEW m \in Milestones
    PROVE /\ milestone[m] \in {"READY_FOR_CONFIRMATION", "ACHIEVED"} =>
               \A t \in Required[m] : task[t].status = "COMPLETED"
          /\ DeriveTarget(milestone[m], Statuses, Contributors[m], Required[m]) = milestone[m]
  BY DEF MilestoneInv, MilestoneEarned, MilestonesUpToDate, Statuses
<1>1. /\ milestone[m] = IF Required[m] = {} THEN "READY_FOR_CONFIRMATION" ELSE "NOT_STARTED"
      /\ \A t \in Tasks : Statuses[t] = "NOT_STARTED"
  BY DEF Init, Statuses
<1>2. Required[m] \subseteq Contributors[m] /\ Contributors[m] \subseteq Tasks
  BY SetsAssumption DEF SetsAssumption
<1> QED
  BY <1>1, <1>2 DEF DeriveTarget, Target, DerivedLegal

\* A Milestone that is ready or achieved has every required Task COMPLETED,
\* for good (recompute, confirm).
THEOREM EarnedTheorem == Spec => []MilestoneEarned
<1>1. Spec => [](Typed /\ MilestoneInv)
  BY InitTyped, NextTyped, MilestoneInit, MilestoneStep, PTL DEF Spec
<1> QED
  BY <1>1, PTL DEF MilestoneInv

\* No Milestone lags behind its contributors (on_task_changed).
THEOREM UpToDateTheorem == Spec => []MilestonesUpToDate
<1>1. Spec => [](Typed /\ MilestoneInv)
  BY InitTyped, NextTyped, MilestoneInit, MilestoneStep, PTL DEF Spec
<1> QED
  BY <1>1, PTL DEF MilestoneInv

================================================================================
