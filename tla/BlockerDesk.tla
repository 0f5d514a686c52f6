------------------------------ MODULE BlockerDesk ------------------------------
(***************************************************************************)
(* Who works on a Blocker, and the escalation of those nobody works on     *)
(* (blockers/transition_service.py, policies.py, escalation.py; ADR-050).  *)
(* A command holds the Blocker's row to its commit and is one step.  The   *)
(* sweep, started every 30 s however long the last one takes, is one long  *)
(* transaction: it selects its candidates without a lock, takes them in id *)
(* order, and keeps the rows it has locked and the alerts it has raised to *)
(* itself until it commits.                                                *)
(*                                                                         *)
(* The Task a Blocker stands on, which `block` stops and `verify` resumes, *)
(* is in TaskLifecycle; here it is live or ended.  Versions are left out   *)
(* as in DrEventLifecycle.                                                 *)
(***************************************************************************)
EXTENDS Integers, FiniteSets

CONSTANTS
  Blockers,        \* ids
  Tasks, Users, Teams, None,
  TaskOf,
  OwningTeam, AssigneeOf,
  RoleHolders,     \* may do everything: Admin, Coordinator, Lead, App Owner
  Executors,
  MembersOf, ManagerOf,
  FirstParticipants,
  Sweeps, MaxCrashes

ASSUME DeskAssumption ==
  /\ Blockers \subseteq Nat
  /\ TaskOf \in [Blockers -> Tasks]
  /\ OwningTeam \in [Tasks -> Teams]
  /\ AssigneeOf \in [Tasks -> Users \cup {None}]
  /\ MembersOf \in [Teams -> SUBSET Users]
  /\ ManagerOf \in [Teams -> Users \cup {None}]
  /\ RoleHolders \cup Executors \cup FirstParticipants \subseteq Users
  /\ None \notin Users \cup Teams
  /\ MaxCrashes \in Nat

VARIABLES
  blocker,        \* status, blocker_team_id, blocker_owner_user_id
  participants,   \* who sees the Event
  due,            \* OPEN Blockers whose escalation timer has run out
  ended,          \* Tasks that are COMPLETED or CANCELLED, or whose Event is over
  alert,          \* BLOCKER_ESCALATED alerts of each Blocker
  sweep, crashes

vars == <<blocker, participants, due, ended, alert, sweep, crashes>>
desk == <<blocker, participants, due, ended>>

LegalFrom ==
  [assign |-> {"OPEN", "ASSIGNED"}, start |-> {"ASSIGNED"},
   resolve |-> {"IN_PROGRESS"}, verify |-> {"RESOLVED"}]

Statuses == {"NONE", "OPEN", "ASSIGNED", "IN_PROGRESS", "RESOLVED", "CLOSED"}

IdleSweep == [pc |-> "IDLE", todo |-> {}, held |-> {}, raised |-> {}]

Locked(b) == \E s \in Sweeps : b \in sweep[s].held
Unresolved(b) == alert[b].unresolved > 0
OwnersOf(b) == OwningTeam[TaskOf[b]]
Assignee(b) == AssigneeOf[TaskOf[b]]

-----------------------------------------------------------------------------
(* Who may act (policies.py) *)

Member(u, teams) == \E t \in teams \cap Teams : u \in MembersOf[t]
Manages(u, teams) == \E t \in teams \cap Teams : ManagerOf[t] = u

MayRoute(u, b, team, owner) ==
  \/ u \in RoleHolders \/ Manages(u, {OwnersOf(b), blocker[b].team, team})
  \/ /\ u \in Executors /\ owner = u
     /\ u \in {blocker[b].owner, Assignee(b)} \/ Member(u, {OwnersOf(b), blocker[b].team})
     /\ team # None => Member(u, {team})

MayStart(u, b) ==
  \/ u \in RoleHolders \/ Manages(u, {OwnersOf(b), blocker[b].team})
  \/ /\ u \in Executors
     /\ IF blocker[b].owner # None THEN blocker[b].owner = u
        ELSE Member(u, {blocker[b].team, OwnersOf(b)})

\* With no Team routed the Owning Team resolves, or the Task's assignee.
MayResolve(u, b) ==
  \/ u \in RoleHolders \/ Manages(u, {OwnersOf(b), blocker[b].team})
  \/ /\ u \in Executors
     /\ \/ blocker[b].owner = u
        \/ blocker[b].team # None /\ Member(u, {blocker[b].team})
        \/ blocker[b].team = None /\ (u = Assignee(b) \/ Member(u, {OwnersOf(b)}))

MayVerify(u, b) ==
  \/ u \in RoleHolders \/ Manages(u, {OwnersOf(b)})
  \/ u \in Executors /\ (u = Assignee(b) \/ Member(u, {OwnersOf(b)}))

-----------------------------------------------------------------------------
(* Commands *)

\* `block` on a live Task.
CreateBlocker(b) ==
  /\ blocker[b].status = "NONE" /\ TaskOf[b] \notin ended
  /\ blocker' = [blocker EXCEPT ![b].status = "OPEN"]
  /\ UNCHANGED <<participants, due, ended, alert, sweep, crashes>>

\* FOR UPDATE waits for a sweep; an Event one does not see is a 404.
Command(u, b, name) ==
  /\ u \in participants /\ ~Locked(b)
  /\ blocker[b].status \in LegalFrom[name]

Enrol(u) == participants' = participants \cup {u}

\* Mutant: the alert stays.
LeaveAlerts(b) == UNCHANGED alert

\* _leave_open
ResolveAlerts(b) == alert' = [alert EXCEPT ![b].unresolved = 0, ![b].acknowledged = FALSE]

Routable(team, owner) ==
  /\ team # None \/ owner # None
  /\ team # None /\ owner # None => Member(owner, {team})

\* Mutant: whoever routes a Blocker to a resolver does not enrol the resolver.
AssignQuietly(u, b, team, owner) ==
  /\ Command(u, b, "assign") /\ MayRoute(u, b, team, owner) /\ Routable(team, owner)
  /\ blocker' = [blocker EXCEPT ![b].status = "ASSIGNED", ![b].owner = owner,
                                ![b].team = IF team = None THEN @ ELSE team]
  /\ IF blocker[b].status = "OPEN" THEN ResolveAlerts(b) ELSE UNCHANGED alert
  /\ due' = due \ {b}
  /\ UNCHANGED <<participants, ended, sweep, crashes>>

\* A plain Team routing clears the owner, a plain owner leaves the Team.
Assign(u, b, team, owner) ==
  /\ Command(u, b, "assign") /\ MayRoute(u, b, team, owner) /\ Routable(team, owner)
  /\ blocker' = [blocker EXCEPT ![b].status = "ASSIGNED", ![b].owner = owner,
                                ![b].team = IF team = None THEN @ ELSE team]
  /\ IF owner = None THEN UNCHANGED participants ELSE Enrol(owner)
  /\ IF blocker[b].status = "OPEN" THEN ResolveAlerts(b) ELSE UNCHANGED alert
  /\ due' = due \ {b}
  /\ UNCHANGED <<ended, sweep, crashes>>

\* Starting an unowned Blocker claims it.
Start(u, b) ==
  /\ Command(u, b, "start") /\ MayStart(u, b)
  /\ blocker' = [blocker EXCEPT ![b].status = "IN_PROGRESS",
                                ![b].owner = IF @ = None THEN u ELSE @]
  /\ IF blocker[b].owner = None THEN Enrol(u) ELSE UNCHANGED participants
  /\ UNCHANGED <<due, ended, alert, sweep, crashes>>

Resolve(u, b) ==
  /\ Command(u, b, "resolve") /\ MayResolve(u, b)
  /\ blocker' = [blocker EXCEPT ![b].status = "RESOLVED"]
  /\ UNCHANGED <<participants, due, ended, alert, sweep, crashes>>

\* RESOLVED -> VERIFIED -> CLOSED in one transaction.
Verify(u, b) ==
  /\ Command(u, b, "verify") /\ MayVerify(u, b)
  /\ blocker' = [blocker EXCEPT ![b].status = "CLOSED"]
  /\ UNCHANGED <<participants, due, ended, alert, sweep, crashes>>

MayAcknowledge(u) == u \in RoleHolders \/ \E t \in Teams : ManagerOf[t] = u

\* Mutant: who has seen the alert need not be told again.
AcknowledgeAndResolve(u, b) ==
  /\ u \in participants /\ MayAcknowledge(u)
  /\ Unresolved(b)
  /\ alert' = [alert EXCEPT ![b].unresolved = 0]
  /\ UNCHANGED <<blocker, participants, due, ended, sweep, crashes>>

\* "Seen", not "condition gone": the alert stays the mark of the sweep.  Who
\* has seen an alert that is resolved matters to nothing and is not kept.
Acknowledge(u, b) ==
  /\ u \in participants /\ MayAcknowledge(u)
  /\ Unresolved(b) /\ ~alert[b].acknowledged
  /\ alert' = [alert EXCEPT ![b].acknowledged = TRUE]
  /\ UNCHANGED <<blocker, participants, due, ended, sweep, crashes>>

\* The Task, or its Event, ends; its Blockers stay as they are.
EndTask(t) ==
  /\ ended' = ended \cup {t}
  /\ UNCHANGED <<blocker, participants, due, alert, sweep, crashes>>

TimerRunsOut(b) ==
  /\ blocker[b].status = "OPEN"
  /\ due' = due \cup {b}
  /\ UNCHANGED <<blocker, participants, ended, alert, sweep, crashes>>

-----------------------------------------------------------------------------
(* The escalation sweep *)

\* open_blockers, and the timers as of the sweep's start.
Candidates == {b \in due : TaskOf[b] \notin ended}

\* Starts with a session of its own, an earlier sweep running or not.
BeginSweep(s) ==
  /\ sweep[s].pc = "IDLE"
  /\ sweep' = [sweep EXCEPT ![s].pc = "CHECK", ![s].todo = Candidates]
  /\ UNCHANGED <<desk, alert, crashes>>

First(s, b) == b \in sweep[s].todo /\ \A c \in sweep[s].todo : b <= c

\* has_unresolved_alert, before the lock.
Check(s, b) ==
  /\ sweep[s].pc = "CHECK" /\ First(s, b)
  /\ sweep' = IF Unresolved(b)
              THEN [sweep EXCEPT ![s].todo = @ \ {b}]
              ELSE [sweep EXCEPT ![s].pc = "LOCK"]
  /\ UNCHANGED <<desk, alert, crashes>>

\* Checked with the row locked: it may have been routed, or escalated.
StillDue(b) == blocker[b].status = "OPEN" /\ ~Unresolved(b)

Lock(s, b) ==
  /\ sweep[s].pc = "LOCK" /\ First(s, b) /\ ~Locked(b)
  /\ sweep' = [sweep EXCEPT ![s] =
       [pc |-> "CHECK", todo |-> @.todo \ {b}, held |-> @.held \cup {b},
        raised |-> IF StillDue(b) THEN @.raised \cup {b} ELSE @.raised]]
  /\ UNCHANGED <<desk, alert, crashes>>

\* raise_alert
Raised(a) == [raised |-> a.raised + 1, unresolved |-> a.unresolved + 1, acknowledged |-> FALSE]

CommitSweep(s) ==
  /\ sweep[s].pc = "CHECK" /\ sweep[s].todo = {}
  /\ alert' = [b \in Blockers |-> IF b \in sweep[s].raised THEN Raised(alert[b]) ELSE alert[b]]
  /\ sweep' = [sweep EXCEPT ![s] = IdleSweep]
  /\ UNCHANGED <<desk, crashes>>

\* Mutant: a session that is not closed keeps its locks.
CrashSweepHolding(s) ==
  /\ sweep[s].pc # "IDLE" /\ crashes < MaxCrashes
  /\ crashes' = crashes + 1
  /\ sweep' = [sweep EXCEPT ![s] = [IdleSweep EXCEPT !.held = sweep[s].held]]
  /\ UNCHANGED <<desk, alert>>

\* Nothing of it is kept; the next beat starts another.
CrashSweep(s) ==
  /\ sweep[s].pc # "IDLE" /\ crashes < MaxCrashes
  /\ crashes' = crashes + 1
  /\ sweep' = [sweep EXCEPT ![s] = IdleSweep]
  /\ UNCHANGED <<desk, alert>>

-----------------------------------------------------------------------------
Init ==
  /\ blocker = [b \in Blockers |-> [status |-> "NONE", team |-> None, owner |-> None]]
  /\ participants = FirstParticipants
  /\ due = {} /\ ended = {}
  /\ alert = [b \in Blockers |-> [raised |-> 0, unresolved |-> 0, acknowledged |-> FALSE]]
  /\ sweep = [s \in Sweeps |-> IdleSweep]
  /\ crashes = 0

Act(u, b) ==
  \/ \E team \in Teams \cup {None}, owner \in Users \cup {None} : Assign(u, b, team, owner)
  \/ Start(u, b)
  \/ Resolve(u, b)
  \/ Verify(u, b)
  \/ Acknowledge(u, b)

Sweep(s) ==
  \/ BeginSweep(s)
  \/ \E b \in Blockers : Check(s, b) \/ Lock(s, b)
  \/ CommitSweep(s)

Next ==
  \/ \E b \in Blockers : CreateBlocker(b) \/ TimerRunsOut(b)
  \/ \E u \in Users, b \in Blockers : Act(u, b)
  \/ \E t \in Tasks : EndTask(t)
  \/ \E s \in Sweeps : Sweep(s) \/ CrashSweep(s)

\* The beat starts a sweep every 30 s and a worker runs it.
Fairness == \A s \in Sweeps : WF_vars(Sweep(s))

Spec == Init /\ [][Next]_vars /\ Fairness

-----------------------------------------------------------------------------
(* Properties *)

TypeOK ==
  /\ blocker \in [Blockers -> [status : Statuses, team : Teams \cup {None}, owner : Users \cup {None}]]
  /\ participants \subseteq Users /\ due \subseteq Blockers /\ ended \subseteq Tasks
  /\ alert \in [Blockers -> [raised : Nat, unresolved : Nat, acknowledged : BOOLEAN]]
  /\ sweep \in [Sweeps -> [pc : {"IDLE", "CHECK", "LOCK"}, todo : SUBSET Blockers,
                           held : SUBSET Blockers, raised : SUBSET Blockers]]
  /\ crashes \in 0..MaxCrashes

\* Overlapping sweeps, crashed ones and the next raise one alert for a Blocker
\* between them, ever (ADR-050: exactly once), acknowledged or not.
EscalatedOnce == \A b \in Blockers : alert[b].raised <= 1

\* An unresolved alert is the mark of a Blocker nobody has been given: what is
\* routed while a sweep is on its way leaves none behind (_leave_open).
AlertMeansUnrouted ==
  \A b \in Blockers : Unresolved(b) => blocker[b].status = "OPEN"

\* Whoever is to resolve a Blocker sees the Event it is in (D-222).
OwnerSeesEvent ==
  \A b \in Blockers : blocker[b].owner # None => blocker[b].owner \in participants

\* A Blocker whose Task has ended is escalated by no sweep but one that had
\* selected it before (open_blockers: "a terminal Task's Blocker is history").
HistoryIsNotSelected ==
  [][\A b \in Blockers, s \in Sweeps :
       TaskOf[b] \in ended /\ b \notin sweep[s].todo => b \notin sweep'[s].todo]_vars

\* No Blocker stays due for ever: it is escalated, or somebody takes it, or its
\* Task ends (ADR-050; the 30 s beat of jobs/celery_app.py).
DueIsEscalated ==
  \A b \in Blockers : []<>(Unresolved(b) \/ b \notin due \/ TaskOf[b] \in ended)
=============================================================================
