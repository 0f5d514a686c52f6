--------------------------- MODULE DrEventLifecycle ---------------------------
(***************************************************************************)
(* DR Events, the tree they form, and the recovery of the Applications in  *)
(* their scope (dr_events/transition_service.py).  An Event command holds  *)
(* the Event's row FOR UPDATE from its first read to its commit, and every *)
(* other transaction that writes under that Event needs a KEY SHARE on the *)
(* row, so an Event command is one step.  An Application command locks the *)
(* Application but reads the Event without a lock, and the creation of a   *)
(* child shares the parent's row until it commits: these are two steps     *)
(* each.                                                                   *)
(*                                                                         *)
(* The versions are left out: a command carries the one its transaction    *)
(* finds (TaskLifecycle is about those that do not).  So are the rows that *)
(* record an override, and the roles: who may give Event commands always   *)
(* exists, and Users are those who may validate.                           *)
(***************************************************************************)
EXTENDS FiniteSets

CONSTANTS
  Events, Apps, Users, Txns,
  EventOf,        \* dr_applications.dr_event_id
  None

ASSUME EventAssumption ==
  /\ EventOf \in [Apps -> Events]
  /\ None \notin Events

VARIABLES
  event,         \* status, parent_dr_event_id
  app,           \* status, and the PENDING Validation or None
  failbackRequired,
  approved,      \* APPROVED Validations
  txn            \* Application commands and Event creations under way

vars == <<event, app, failbackRequired, approved, txn>>

Terminal == {"CLOSED", "CANCELLED"}
EventStatuses ==
  {"PLANNED", "ACTIVE", "FAILOVER_IN_PROGRESS", "FAILED_OVER",
   "FAILBACK_IN_PROGRESS"} \cup Terminal
AppStatuses ==
  {"NOT_STARTED", "RECOVERING", "TECHNICAL_VALIDATION", "FAILED_OVER",
   "FAILBACK_IN_PROGRESS", "COMPLETED"}
Phases == {"FAILOVER", "FAILBACK"}

\* CANCELLED is no row of the table: it is legal from every status not terminal.
LegalTransition ==
  {<<"PLANNED", "ACTIVE">>, <<"ACTIVE", "FAILOVER_IN_PROGRESS">>,
   <<"FAILOVER_IN_PROGRESS", "FAILED_OVER">>,
   <<"FAILED_OVER", "FAILBACK_IN_PROGRESS">>, <<"FAILED_OVER", "CLOSED">>,
   <<"FAILBACK_IN_PROGRESS", "CLOSED">>}

\* _PHASE_FOR_SUBMIT, by pairs of status and phase.
PhaseForSubmit == {<<"RECOVERING", "FAILOVER">>, <<"FAILBACK_IN_PROGRESS", "FAILBACK">>}
Validatable == {"TECHNICAL_VALIDATION", "FAILBACK_IN_PROGRESS"}

Pending == [phase : Phases, submitter : Users]
Approval == [app : Apps, phase : Phases, submitter : Users, validator : Users]
AppTxn == [op : {"APP"}, app : Apps, by : Users]
CreateTxn == [op : {"CREATE"}, event : Events, parent : Events \cup {None}]

ASSUME NoneAssumption == None \notin Pending \cup AppTxn \cup CreateTxn

Exists(e) == event[e].status # "NONE"
ScopeOf(e) == {a \in Apps : EventOf[a] = e}
Locked(a) == \E p \in Txns : txn[p] \in AppTxn /\ txn[p].app = a

-----------------------------------------------------------------------------
(* Creating an Event *)

\* The parent's status is not looked at.
BeginCreateEvent(p, e, parent) ==
  /\ txn[p] = None /\ ~Exists(e)
  /\ \A q \in Txns : txn[q] \in CreateTxn => txn[q].event # e
  /\ parent # None => Exists(parent)
  /\ txn' = [txn EXCEPT ![p] = [op |-> "CREATE", event |-> e, parent |-> parent]]
  /\ UNCHANGED <<event, app, failbackRequired, approved>>

CommitCreateEvent(p) ==
  /\ txn[p] \in CreateTxn
  /\ event' = [event EXCEPT ![txn[p].event] =
                 [status |-> "PLANNED", parent |-> txn[p].parent]]
  /\ txn' = [txn EXCEPT ![p] = None]
  /\ UNCHANGED <<app, failbackRequired, approved>>

\* A command that refuses, or fails.
Abort(p) ==
  /\ txn[p] # None
  /\ txn' = [txn EXCEPT ![p] = None]
  /\ UNCHANGED <<event, app, failbackRequired, approved>>

-----------------------------------------------------------------------------
(* Event commands *)

\* Mutant: the row is read without FOR UPDATE.
ReadForCommand(e) == Exists(e)

\* FOR UPDATE waits for those who hold a KEY SHARE on the row.
LoadForUpdate(e) ==
  /\ Exists(e)
  /\ \A p \in Txns : txn[p] \in CreateTxn => txn[p].parent # e

Transition(e, target) ==
  /\ LoadForUpdate(e)
  /\ <<event[e].status, target>> \in LegalTransition
  /\ event' = [event EXCEPT ![e].status = target]
  /\ UNCHANGED <<failbackRequired, approved, txn>>

\* The rows are taken FOR UPDATE first.
MoveApps(moved, status) ==
  /\ \A a \in moved : ~Locked(a)
  /\ app' = [a \in Apps |-> IF a \in moved THEN [app[a] EXCEPT !.status = status] ELSE app[a]]

\* evaluate_readiness: the keys one reason overrides are like one another,
\* and nothing overrides a cycle.
ReadinessKeys == {"dependency_graph_acyclic", "another_key"}

\* `failed`: the HARD_STOP keys that are not satisfied.
Activate(e, failed, reason) ==
  /\ failed # {} => reason /\ "dependency_graph_acyclic" \notin failed
  /\ Transition(e, "ACTIVE")
  /\ UNCHANGED app

\* Mutant: only the Applications that will fail back are started.
StartFailoverOfRequired(e) ==
  /\ Transition(e, "FAILOVER_IN_PROGRESS")
  /\ MoveApps({a \in ScopeOf(e) : app[a].status = "NOT_STARTED" /\ failbackRequired[a]},
              "RECOVERING")

StartFailover(e) ==
  /\ Transition(e, "FAILOVER_IN_PROGRESS")
  /\ MoveApps({a \in ScopeOf(e) : app[a].status = "NOT_STARTED"}, "RECOVERING")

MarkFailedOver(e) ==
  /\ Transition(e, "FAILED_OVER")
  /\ UNCHANGED app

\* Mutant: every Application whose failback is required fails back.
StartFailbackOfAll(e) ==
  /\ Transition(e, "FAILBACK_IN_PROGRESS")
  /\ MoveApps({a \in ScopeOf(e) : failbackRequired[a]}, "FAILBACK_IN_PROGRESS")

StartFailback(e) ==
  /\ Transition(e, "FAILBACK_IN_PROGRESS")
  /\ MoveApps({a \in ScopeOf(e) : app[a].status = "FAILED_OVER" /\ failbackRequired[a]},
              "FAILBACK_IN_PROGRESS")

Children(e) == {c \in Events : Exists(c) /\ event[c].parent = e}

\* `monitoring`: a Task of a MONITORING Work Stream is not finished; a closure
\* exception lets it be.
Close(e, monitoring, exception) ==
  /\ \A c \in Children(e) : event[c].status \in Terminal
  /\ event[e].status = "FAILED_OVER" => \A a \in ScopeOf(e) : ~failbackRequired[a]
  /\ monitoring => exception
  /\ Transition(e, "CLOSED")
  /\ UNCHANGED app

Cancel(e) ==
  /\ LoadForUpdate(e)
  /\ event[e].status \notin Terminal
  /\ event' = [event EXCEPT ![e].status = "CANCELLED"]
  /\ UNCHANGED <<app, failbackRequired, approved, txn>>

-----------------------------------------------------------------------------
(* Application commands *)

\* The row is locked.  (As a mutant of the next: its Event may have ended.)
LoadApplication(p, a, u) ==
  /\ txn[p] = None /\ ~Locked(a) /\ Exists(EventOf[a])
  /\ txn' = [txn EXCEPT ![p] = [op |-> "APP", app |-> a, by |-> u]]
  /\ UNCHANGED <<event, app, failbackRequired, approved>>

\* The Event is only read.
LoadVisibleApplication(p, a, u) ==
  /\ event[EventOf[a]].status \notin Terminal
  /\ LoadApplication(p, a, u)

FinishApplication(p, row) ==
  /\ app' = [app EXCEPT ![txn[p].app] = row]
  /\ txn' = [txn EXCEPT ![p] = None]
  /\ UNCHANGED <<event, failbackRequired>>

\* `unfinished`: a Task of the phase is BLOCKED or IN_PROGRESS, which an
\* override with a reason lets be.
SubmitValidation(p, phase, unfinished, reason) ==
  /\ txn[p] \in AppTxn
  /\ LET a == txn[p].app IN
       /\ <<app[a].status, phase>> \in PhaseForSubmit
       /\ app[a].pending = None
       /\ unfinished => reason
       /\ FinishApplication(p,
            [status |-> IF phase = "FAILOVER" THEN "TECHNICAL_VALIDATION" ELSE app[a].status,
             pending |-> [phase |-> phase, submitter |-> txn[p].by]])
  /\ UNCHANGED approved

\* Mutant: the submitter may be the validator.
MayGiveAnyVerdict(p) ==
  LET a == txn[p].app IN app[a].status \in Validatable /\ app[a].pending # None

\* The validator is somebody else than the submitter.
MayGiveVerdict(p) ==
  LET a == txn[p].app IN
  /\ app[a].status \in Validatable /\ app[a].pending # None
  /\ app[a].pending.submitter # txn[p].by

ApprovedStatus(a) ==
  IF app[a].status = "FAILBACK_IN_PROGRESS" \/ ~failbackRequired[a] THEN "COMPLETED"
  ELSE "FAILED_OVER"

Approve(p) ==
  /\ txn[p] \in AppTxn /\ MayGiveVerdict(p)
  /\ LET a == txn[p].app IN
       /\ FinishApplication(p, [status |-> ApprovedStatus(a), pending |-> None])
       /\ approved' = approved \cup
            {[app |-> a, phase |-> app[a].pending.phase,
              submitter |-> app[a].pending.submitter, validator |-> txn[p].by]}

\* A rejected failback stays a failback.
Reject(p) ==
  /\ txn[p] \in AppTxn /\ MayGiveVerdict(p)
  /\ LET was == app[txn[p].app].status IN
     FinishApplication(p,
       [status |-> IF was = "FAILBACK_IN_PROGRESS" THEN was ELSE "RECOVERING",
        pending |-> None])
  /\ UNCHANGED approved

-----------------------------------------------------------------------------
\* No command writes failback_required.
Init ==
  /\ event = [e \in Events |-> [status |-> "NONE", parent |-> None]]
  /\ app = [a \in Apps |-> [status |-> "NOT_STARTED", pending |-> None]]
  /\ failbackRequired \in [Apps -> BOOLEAN]
  /\ approved = {}
  /\ txn = [p \in Txns |-> None]

EventCommand(e) ==
  \/ \E failed \in SUBSET ReadinessKeys, reason \in BOOLEAN :
       Activate(e, failed, reason)
  \/ StartFailover(e)
  \/ MarkFailedOver(e)
  \/ StartFailback(e)
  \/ \E monitoring, exception \in BOOLEAN : Close(e, monitoring, exception)
  \/ Cancel(e)

Begin(p) ==
  \/ \E e \in Events, parent \in Events \cup {None} : BeginCreateEvent(p, e, parent)
  \/ \E a \in Apps, u \in Users : LoadVisibleApplication(p, a, u)

Finish(p) ==
  \/ CommitCreateEvent(p)
  \/ \E phase \in Phases, unfinished, reason \in BOOLEAN :
       SubmitValidation(p, phase, unfinished, reason)
  \/ Approve(p)
  \/ Reject(p)
  \/ Abort(p)

Next ==
  \/ \E e \in Events : EventCommand(e)
  \/ \E p \in Txns : Begin(p) \/ Finish(p)

Spec == Init /\ [][Next]_vars

-----------------------------------------------------------------------------
(* Properties *)

\* The rows and transactions have the shapes the tables give them.
TypeOK ==
  /\ event \in [Events -> [status : EventStatuses \cup {"NONE"}, parent : Events \cup {None}]]
  /\ app \in [Apps -> [status : AppStatuses, pending : Pending \cup {None}]]
  /\ failbackRequired \in [Apps -> BOOLEAN]
  /\ approved \subseteq Approval
  /\ txn \in [Txns -> AppTxn \cup CreateTxn \cup {None}]

\* An Application's recovery is never ahead of its Event, nor left at the
\* start: it begins with start_failover and fails back after start_failback,
\* although the two rows are locked by different commands.
AppsFollowEvent ==
  \A a \in Apps :
    LET e == EventOf[a] IN
    /\ event[e].status \in {"NONE", "PLANNED", "ACTIVE"} => app[a].status = "NOT_STARTED"
    /\ event[e].status \in {"FAILOVER_IN_PROGRESS", "FAILED_OVER", "FAILBACK_IN_PROGRESS", "CLOSED"} =>
         app[a].status # "NOT_STARTED"
    /\ app[a].status = "FAILBACK_IN_PROGRESS" =>
         event[e].status \in {"FAILBACK_IN_PROGRESS"} \cup Terminal

\* The pending Validation is for the phase the Application is in: validate
\* tells the phase from the status and not from the record.
PendingMatchesStatus ==
  \A a \in Apps :
    /\ app[a].status = "TECHNICAL_VALIDATION" =>
         app[a].pending # None /\ app[a].pending.phase = "FAILOVER"
    /\ app[a].pending # None =>
         <<app[a].status, app[a].pending.phase>> \in
           {<<"TECHNICAL_VALIDATION", "FAILOVER">>, <<"FAILBACK_IN_PROGRESS", "FAILBACK">>}

\* A recovered Application was approved in each phase it had to go through, by
\* somebody who had not submitted it (D-208, D-210).
CompletedWasValidated ==
  \A a \in Apps :
    LET ApprovedIn(phase) ==
          \E v \in approved : v.app = a /\ v.phase = phase /\ v.validator # v.submitter
    IN /\ app[a].status \in {"FAILED_OVER", "FAILBACK_IN_PROGRESS", "COMPLETED"} => ApprovedIn("FAILOVER")
       /\ app[a].status = "COMPLETED" /\ failbackRequired[a] => ApprovedIn("FAILBACK")

\* A parent Event is CLOSED only when its children have ended, the ones that
\* are just being created included (D-219).
ParentClosesLast ==
  [][\A e \in Events : event[e].status # "CLOSED" /\ event'[e].status = "CLOSED" =>
       /\ \A c \in Children(e) : event[c].status \in Terminal
       /\ \A p \in Txns : txn[p] \in CreateTxn => txn[p].parent # e]_vars

\* After the end of its Event an Application is changed by nothing but a
\* command that was already under way (_load_visible_application).
EndedEventsRest ==
  [][\A a \in Apps :
       event[EventOf[a]].status \in Terminal /\ ~Locked(a) =>
         app'[a] = app[a] /\ ~Locked(a)']_vars

\* start-failback takes every Application that requires failback with it
\* (docs/spec/STATE_MACHINES.md, Application recovery).  The code moves those
\* that are FAILED_OVER; one approved later stays FAILED_OVER.
FailbackTakesEveryApp ==
  \A a \in Apps :
    event[EventOf[a]].status = "FAILBACK_IN_PROGRESS" /\ failbackRequired[a] =>
      app[a].status # "FAILED_OVER"
=============================================================================
