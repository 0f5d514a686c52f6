--------------------------- MODULE BlockerDeskProofs ---------------------------
(***************************************************************************)
(* Theorems about BlockerDesk.  That overlapping sweeps raise one alert    *)
(* between them, and commands leave none behind, rests on the row lock:    *)
(* what a sweep has raised and not committed belongs to Blockers it holds, *)
(* so nobody else can change them, and a Blocker that is still OPEN        *)
(* without an unresolved alert has never had one.  That they do not wait   *)
(* for one another in a circle rests on the order in which they lock.      *)
(***************************************************************************)
EXTENDS BlockerDesk, FiniteSetTheorems, WellFoundedInduction, TLAPS

HeldApart ==
  \A r, s \in Sweeps : r # s => sweep[r].held \cap sweep[s].held = {}

RaisedStillDue ==
  \A s \in Sweeps : \A b \in sweep[s].raised : b \in sweep[s].held /\ StillDue(b)

FirstTime ==
  \A b \in Blockers :
    blocker[b].status \in {"NONE", "OPEN"} /\ ~Unresolved(b) => alert[b].raised = 0

DeskInv ==
  /\ TypeOK
  /\ EscalatedOnce /\ AlertMeansUnrouted /\ OwnerSeesEvent
  /\ HeldApart /\ RaisedStillDue /\ FirstTime

--------------------------------------------------------------------------------
LEMMA DeskInit == Init => DeskInv
<1> SUFFICES ASSUME Init PROVE DeskInv
  OBVIOUS
<1>1. TypeOK
  BY DeskAssumption DEF Init, TypeOK, Statuses, IdleSweep, DeskAssumption
<1>2. EscalatedOnce /\ AlertMeansUnrouted /\ OwnerSeesEvent /\ FirstTime
  BY DEF Init, EscalatedOnce, AlertMeansUnrouted, OwnerSeesEvent, FirstTime, Unresolved
<1>3. HeldApart /\ RaisedStillDue
  BY DEF Init, HeldApart, RaisedStillDue, IdleSweep
<1> QED
  BY <1>1, <1>2, <1>3 DEF DeskInv

--------------------------------------------------------------------------------
(* Commands *)

Row == [status : Statuses, team : Teams \cup {None}, owner : Users \cup {None}]

\* What a command on b does: b is held by no sweep and not OPEN afterwards, its
\* alert is resolved if it was OPEN, its owner sees the Event.
CommandOn(b) ==
  /\ ~Locked(b)
  /\ blocker' \in [Blockers -> Row]
  /\ \A c \in Blockers \ {b} : blocker'[c] = blocker[c]
  /\ blocker'[b].status \notin {"NONE", "OPEN"}
  /\ blocker'[b].owner # None => blocker'[b].owner \in participants'
  /\ \/ blocker[b].status # "OPEN" /\ alert' = alert
     \/ alert' = [alert EXCEPT ![b].unresolved = 0, ![b].acknowledged = FALSE]
  /\ participants \subseteq participants' /\ participants' \subseteq Users
  /\ due' \subseteq due /\ UNCHANGED <<ended, sweep, crashes>>

LEMMA AssignIsCommand ==
  ASSUME DeskInv, NEW u \in Users, NEW b \in Blockers,
         NEW team \in Teams \cup {None}, NEW owner \in Users \cup {None},
         Assign(u, b, team, owner)
  PROVE  CommandOn(b)
<1>1. blocker \in [Blockers -> Row]
  BY DEF DeskInv, TypeOK, Row
<1>2. blocker' = [blocker EXCEPT ![b].status = "ASSIGNED", ![b].owner = owner,
                                 ![b].team = IF team = None THEN @ ELSE team]
  BY DEF Assign
<1>3. blocker' \in [Blockers -> Row] /\ \A c \in Blockers \ {b} : blocker'[c] = blocker[c]
  <2>1. \A c \in Blockers \ {b} : blocker'[c] = blocker[c]
    BY <1>1, <1>2
  <2>2. blocker[b] \in Row
    BY <1>1
  <2>3. blocker'[b] = [status |-> "ASSIGNED", owner |-> owner,
                       team |-> IF team = None THEN blocker[b].team ELSE team]
    BY <1>1, <1>2, <2>2 DEF Row
  <2>4. blocker'[b] \in Row
    BY <2>2, <2>3 DEF Row, Statuses
  <2>5. blocker' = [c \in Blockers |-> blocker'[c]]
    BY <1>1, <1>2
  <2> QED
    BY <1>1, <2>1, <2>4, <2>5
<1>4. /\ blocker'[b].status \notin {"NONE", "OPEN"}
      /\ blocker'[b].owner # None => blocker'[b].owner \in participants'
  <2>1. blocker'[b].status = "ASSIGNED" /\ blocker'[b].owner = owner
    BY <1>1, <1>2 DEF Row
  <2> QED
    BY <2>1 DEF Assign, Enrol
<1>5. participants \subseteq participants' /\ participants' \subseteq Users
  BY DEF Assign, Enrol, DeskInv, TypeOK
<1>6. \/ blocker[b].status # "OPEN" /\ alert' = alert
      \/ alert' = [alert EXCEPT ![b].unresolved = 0, ![b].acknowledged = FALSE]
  BY DEF Assign, ResolveAlerts
<1> QED
  BY <1>3, <1>4, <1>5, <1>6 DEF CommandOn, Assign, Command

LEMMA WorkIsCommand ==
  ASSUME DeskInv, NEW u \in Users, NEW b \in Blockers,
         Start(u, b) \/ Resolve(u, b) \/ Verify(u, b)
  PROVE  CommandOn(b)
<1>0. blocker[b] \in Row /\ blocker \in [Blockers -> Row] /\ participants \subseteq Users
  BY DEF DeskInv, TypeOK, Row
<1>1. ~Locked(b) /\ blocker[b].status \notin {"NONE", "OPEN"} /\ u \in participants
  BY DEF Start, Resolve, Verify, Command, LegalFrom
<1>2. /\ blocker' \in [Blockers -> Row] /\ \A c \in Blockers \ {b} : blocker'[c] = blocker[c]
      /\ blocker'[b].status \in {"IN_PROGRESS", "RESOLVED", "CLOSED"}
      /\ blocker'[b].owner \in {blocker[b].owner, u}
  <2>1. CASE Start(u, b)
    BY <2>1, <1>0 DEF Start, Row, Statuses
  <2>2. CASE Resolve(u, b)
    BY <2>2, <1>0 DEF Resolve, Row, Statuses
  <2>3. CASE Verify(u, b)
    BY <2>3, <1>0 DEF Verify, Row, Statuses
  <2> QED
    BY <2>1, <2>2, <2>3
<1>3. participants' = participants /\ UNCHANGED <<due, ended, alert, sweep, crashes>>
  BY <1>1 DEF Start, Resolve, Verify, Enrol
<1>4. blocker'[b].owner # None => blocker'[b].owner \in participants'
  BY <1>1, <1>2, <1>3 DEF DeskInv, OwnerSeesEvent
<1> QED
  BY <1>0, <1>1, <1>2, <1>3, <1>4 DEF CommandOn

LEMMA CommandKeeps ==
  ASSUME DeskInv, NEW b \in Blockers, CommandOn(b)
  PROVE  DeskInv'
<1>0. /\ blocker \in [Blockers -> Row] /\ due \subseteq Blockers
      /\ alert \in [Blockers -> [raised : Nat, unresolved : Nat, acknowledged : BOOLEAN]]
  BY DEF DeskInv, TypeOK, Row
<1>1. /\ blocker' \in [Blockers -> Row]
      /\ \A c \in Blockers \ {b} : blocker'[c] = blocker[c]
      /\ blocker'[b].status \notin {"NONE", "OPEN"}
      /\ blocker'[b].owner # None => blocker'[b].owner \in participants'
  BY DEF CommandOn
<1>2. /\ alert' \in [Blockers -> [raised : Nat, unresolved : Nat, acknowledged : BOOLEAN]]
      /\ alert'[b].raised = alert[b].raised
      /\ blocker[b].status # "OPEN" \/ alert'[b].unresolved = 0
      /\ alert'[b].unresolved \in {0, alert[b].unresolved}
      /\ \A c \in Blockers \ {b} : alert'[c] = alert[c]
  BY <1>0 DEF CommandOn
<1>3. sweep' = sweep /\ \A s \in Sweeps : b \notin sweep[s].held
  BY DEF CommandOn, Locked
<1>4. TypeOK'
  BY <1>0, <1>1, <1>2 DEF CommandOn, DeskInv, TypeOK, Row
<1>5. EscalatedOnce'
  BY <1>2 DEF DeskInv, EscalatedOnce
<1>6. AlertMeansUnrouted'
  <2>1. alert'[b].unresolved = 0
    BY <1>0, <1>2 DEF DeskInv, AlertMeansUnrouted, Unresolved
  <2> QED
    BY <1>0, <1>1, <1>2, <2>1 DEF DeskInv, AlertMeansUnrouted, Unresolved
<1>7. OwnerSeesEvent'
  BY <1>0, <1>1 DEF CommandOn, DeskInv, OwnerSeesEvent
<1>8. HeldApart'
  BY <1>3 DEF DeskInv, HeldApart
<1>9. RaisedStillDue'
  <2> SUFFICES ASSUME NEW s \in Sweeps, NEW c \in sweep[s].raised
      PROVE c \in sweep[s].held /\ StillDue(c)'
    BY <1>3 DEF RaisedStillDue
  <2>1. c \in sweep[s].held /\ StillDue(c) /\ c \in Blockers
    BY DEF DeskInv, RaisedStillDue, TypeOK
  <2> QED
    BY <1>0, <1>1, <1>2, <1>3, <2>1 DEF StillDue, Unresolved
<1>10. FirstTime'
  BY <1>0, <1>1, <1>2 DEF DeskInv, FirstTime, Unresolved
<1> QED
  BY <1>4, <1>5, <1>6, <1>7, <1>8, <1>9, <1>10 DEF DeskInv

--------------------------------------------------------------------------------
(* Steps that touch no Blocker somebody holds *)

LEMMA CreateKeeps ==
  ASSUME DeskInv, NEW b \in Blockers, CreateBlocker(b)
  PROVE  DeskInv'
<1>0. blocker \in [Blockers -> Row]
  BY DEF DeskInv, TypeOK, Row
<1>1. /\ blocker' \in [Blockers -> Row]
      /\ \A c \in Blockers \ {b} : blocker'[c] = blocker[c]
      /\ blocker'[b].status = "OPEN" /\ blocker'[b].owner = blocker[b].owner
  BY <1>0 DEF CreateBlocker, Row, Statuses
<1>2. blocker[b].status = "NONE" /\ UNCHANGED <<participants, due, ended, alert, sweep, crashes>>
  BY DEF CreateBlocker
<1>3. TypeOK'
  BY <1>1, <1>2 DEF DeskInv, TypeOK, Row
<1>4. EscalatedOnce' /\ HeldApart'
  BY <1>2 DEF DeskInv, EscalatedOnce, HeldApart
<1>5. AlertMeansUnrouted' /\ OwnerSeesEvent' /\ FirstTime'
  BY <1>1, <1>2 DEF DeskInv, AlertMeansUnrouted, OwnerSeesEvent, FirstTime, Unresolved
<1>6. RaisedStillDue'
  <2> SUFFICES ASSUME NEW s \in Sweeps, NEW c \in sweep[s].raised
      PROVE c \in sweep[s].held /\ StillDue(c)'
    BY <1>2 DEF RaisedStillDue
  <2>1. c \in sweep[s].held /\ StillDue(c) /\ c \in Blockers
    BY DEF DeskInv, RaisedStillDue, TypeOK
  <2> QED
    BY <1>1, <1>2, <2>1 DEF StillDue, Unresolved
<1> QED
  BY <1>3, <1>4, <1>5, <1>6 DEF DeskInv

LEMMA AcknowledgeKeeps ==
  ASSUME DeskInv, NEW u \in Users, NEW b \in Blockers, Acknowledge(u, b)
  PROVE  DeskInv'
<1>1. UNCHANGED <<blocker, participants, due, ended, sweep, crashes>>
  BY DEF Acknowledge
<1>2. /\ alert' \in [Blockers -> [raised : Nat, unresolved : Nat, acknowledged : BOOLEAN]]
      /\ \A c \in Blockers : /\ alert'[c].raised = alert[c].raised
                             /\ alert'[c].unresolved = alert[c].unresolved
  BY DEF Acknowledge, DeskInv, TypeOK
<1>3. TypeOK'
  BY <1>1, <1>2 DEF DeskInv, TypeOK
<1>4. EscalatedOnce' /\ AlertMeansUnrouted' /\ OwnerSeesEvent' /\ HeldApart' /\ FirstTime'
  BY <1>1, <1>2 DEF DeskInv, EscalatedOnce, AlertMeansUnrouted, OwnerSeesEvent, HeldApart,
     FirstTime, Unresolved
<1>5. RaisedStillDue'
  <2> SUFFICES ASSUME NEW s \in Sweeps, NEW c \in sweep[s].raised
      PROVE c \in sweep[s].held /\ StillDue(c)'
    BY <1>1 DEF RaisedStillDue
  <2>1. c \in sweep[s].held /\ StillDue(c) /\ c \in Blockers
    BY DEF DeskInv, RaisedStillDue, TypeOK
  <2> QED
    BY <1>1, <1>2, <2>1 DEF StillDue, Unresolved
<1> QED
  BY <1>3, <1>4, <1>5 DEF DeskInv

\* Time passes, Tasks end: no Blocker, alert or sweep changes.
LEMMA QuietKeeps ==
  ASSUME DeskInv, UNCHANGED <<blocker, participants, alert, sweep, crashes>>,
         due' \subseteq Blockers, ended' \subseteq Tasks
  PROVE  DeskInv'
<1>1. TypeOK'
  BY DEF DeskInv, TypeOK
<1>2. EscalatedOnce' /\ AlertMeansUnrouted' /\ OwnerSeesEvent' /\ HeldApart' /\ FirstTime'
  BY DEF DeskInv, EscalatedOnce, AlertMeansUnrouted, OwnerSeesEvent, HeldApart, FirstTime, Unresolved
<1>3. RaisedStillDue'
  BY DEF DeskInv, RaisedStillDue, StillDue, Unresolved
<1> QED
  BY <1>1, <1>2, <1>3 DEF DeskInv

--------------------------------------------------------------------------------
(* Sweeps *)

SweepRow ==
  [pc : {"IDLE", "CHECK", "LOCK"}, todo : SUBSET Blockers, held : SUBSET Blockers,
   raised : SUBSET Blockers]

\* A step of sweep s that locks and raises nothing new.
LEMMA SweepKeeps ==
  ASSUME DeskInv, UNCHANGED <<desk, alert>>, crashes' \in 0..MaxCrashes, NEW s \in Sweeps,
         sweep' \in [Sweeps -> SweepRow],
         \A r \in Sweeps \ {s} : sweep'[r] = sweep[r],
         \/ sweep'[s].held = sweep[s].held /\ sweep'[s].raised = sweep[s].raised
         \/ sweep'[s].held = {} /\ sweep'[s].raised = {}
  PROVE  DeskInv'
<1>1. TypeOK'
  BY DEF desk, DeskInv, TypeOK, SweepRow
<1>2. EscalatedOnce' /\ AlertMeansUnrouted' /\ OwnerSeesEvent' /\ FirstTime'
  BY DEF desk, DeskInv, EscalatedOnce, AlertMeansUnrouted, OwnerSeesEvent, FirstTime, Unresolved
<1>3. HeldApart'
  BY DEF DeskInv, HeldApart
<1>4. RaisedStillDue'
  BY DEF desk, DeskInv, RaisedStillDue, StillDue, Unresolved
<1> QED
  BY <1>1, <1>2, <1>3, <1>4 DEF DeskInv

LEMMA LockKeeps ==
  ASSUME DeskInv, NEW s \in Sweeps, NEW b \in Blockers, Lock(s, b)
  PROVE  DeskInv'
<1>0. sweep \in [Sweeps -> SweepRow]
  BY DEF DeskInv, TypeOK, SweepRow
<1>1. /\ sweep' \in [Sweeps -> SweepRow] /\ \A r \in Sweeps \ {s} : sweep'[r] = sweep[r]
      /\ sweep'[s].held = sweep[s].held \cup {b}
      /\ sweep'[s].raised = IF StillDue(b) THEN sweep[s].raised \cup {b} ELSE sweep[s].raised
  BY <1>0 DEF Lock, SweepRow
<1>2. UNCHANGED <<blocker, participants, due, ended, alert, crashes>>
  BY DEF Lock, desk
<1>3. TypeOK'
  BY <1>1, <1>2 DEF DeskInv, TypeOK, SweepRow
<1>4. EscalatedOnce' /\ AlertMeansUnrouted' /\ OwnerSeesEvent' /\ FirstTime'
  BY <1>2 DEF DeskInv, EscalatedOnce, AlertMeansUnrouted, OwnerSeesEvent, FirstTime, Unresolved
<1>5. HeldApart'
  <2>1. \A r \in Sweeps : b \notin sweep[r].held
    BY DEF Lock, Locked
  <2> QED
    BY <1>1, <2>1 DEF DeskInv, HeldApart
<1>6. RaisedStillDue'
  BY <1>1, <1>2 DEF DeskInv, RaisedStillDue, StillDue, Unresolved
<1> QED
  BY <1>3, <1>4, <1>5, <1>6 DEF DeskInv

LEMMA CommitSweepKeeps ==
  ASSUME DeskInv, NEW s \in Sweeps, CommitSweep(s)
  PROVE  DeskInv'
<1>0. /\ sweep \in [Sweeps -> SweepRow]
      /\ alert \in [Blockers -> [raised : Nat, unresolved : Nat, acknowledged : BOOLEAN]]
  BY DEF DeskInv, TypeOK, SweepRow
<1>1. UNCHANGED <<blocker, participants, due, ended, crashes>>
  BY DEF CommitSweep, desk
<1>2. /\ alert' \in [Blockers -> [raised : Nat, unresolved : Nat, acknowledged : BOOLEAN]]
      /\ \A b \in Blockers :
           IF b \in sweep[s].raised THEN alert'[b] = Raised(alert[b]) ELSE alert'[b] = alert[b]
  BY <1>0 DEF CommitSweep, Raised
<1>3. /\ sweep' \in [Sweeps -> SweepRow] /\ \A r \in Sweeps \ {s} : sweep'[r] = sweep[r]
      /\ sweep'[s].held = {} /\ sweep'[s].raised = {}
  BY <1>0 DEF CommitSweep, IdleSweep, SweepRow
\* The Blockers it has raised alerts for are OPEN, and were never escalated.
<1>4. \A b \in sweep[s].raised : blocker[b].status = "OPEN" /\ alert[b].raised = 0
  <2> SUFFICES ASSUME NEW b \in sweep[s].raised
      PROVE blocker[b].status = "OPEN" /\ alert[b].raised = 0
    OBVIOUS
  <2>1. b \in Blockers /\ StillDue(b)
    BY <1>0 DEF DeskInv, RaisedStillDue, SweepRow
  <2> QED
    BY <2>1 DEF StillDue, DeskInv, FirstTime
<1>5. TypeOK'
  BY <1>1, <1>2, <1>3 DEF DeskInv, TypeOK, SweepRow
<1>6. EscalatedOnce'
  BY <1>2, <1>4 DEF DeskInv, EscalatedOnce, Raised
<1>7. AlertMeansUnrouted' /\ OwnerSeesEvent'
  BY <1>1, <1>2, <1>4 DEF DeskInv, AlertMeansUnrouted, OwnerSeesEvent, Unresolved
<1>8. FirstTime'
  <2> SUFFICES ASSUME NEW b \in Blockers, blocker[b].status \in {"NONE", "OPEN"}, ~Unresolved(b)'
      PROVE alert'[b].raised = 0
    BY <1>1 DEF FirstTime
  <2>1. alert[b] \in [raised : Nat, unresolved : Nat, acknowledged : BOOLEAN]
    BY <1>0
  <2>2. b \notin sweep[s].raised
    BY <1>2, <2>1 DEF Raised, Unresolved
  <2> QED
    BY <1>2, <2>2 DEF DeskInv, FirstTime, Unresolved
<1>9. HeldApart'
  BY <1>3 DEF DeskInv, HeldApart
<1>10. RaisedStillDue'
  <2> SUFFICES ASSUME NEW r \in Sweeps \ {s}, NEW b \in sweep[r].raised
      PROVE b \in sweep[r].held /\ StillDue(b)'
    BY <1>3 DEF RaisedStillDue
  <2>1. b \in sweep[r].held /\ StillDue(b) /\ b \in Blockers
    BY <1>0 DEF DeskInv, RaisedStillDue, SweepRow
  <2>2. b \notin sweep[s].raised
    BY <2>1 DEF DeskInv, HeldApart, RaisedStillDue
  <2> QED
    BY <1>1, <1>2, <2>1, <2>2 DEF StillDue, Unresolved
<1> QED
  BY <1>5, <1>6, <1>7, <1>8, <1>9, <1>10 DEF DeskInv

LEMMA SweepStep ==
  ASSUME DeskInv, NEW s \in Sweeps, Sweep(s) \/ CrashSweep(s)
  PROVE  DeskInv'
<1>0. sweep \in [Sweeps -> SweepRow] /\ crashes \in 0..MaxCrashes /\ MaxCrashes \in Nat
      /\ due \subseteq Blockers
  BY DeskAssumption DEF DeskInv, TypeOK, SweepRow, DeskAssumption
<1>1. CASE BeginSweep(s)
  <2>1. Candidates \subseteq Blockers
    BY <1>0 DEF Candidates
  <2>2. /\ sweep' \in [Sweeps -> SweepRow] /\ \A r \in Sweeps \ {s} : sweep'[r] = sweep[r]
        /\ sweep'[s].held = sweep[s].held /\ sweep'[s].raised = sweep[s].raised
    BY <1>0, <1>1, <2>1 DEF BeginSweep, SweepRow
  <2>3. UNCHANGED <<desk, alert, crashes>>
    BY <1>1 DEF BeginSweep
  <2> QED
    BY <1>0, <2>2, <2>3, SweepKeeps
<1>2. ASSUME NEW b \in Blockers, Check(s, b) PROVE DeskInv'
  <2>1. /\ sweep' \in [Sweeps -> SweepRow] /\ \A r \in Sweeps \ {s} : sweep'[r] = sweep[r]
        /\ sweep'[s].held = sweep[s].held /\ sweep'[s].raised = sweep[s].raised
    BY <1>0, <1>2 DEF Check, SweepRow
  <2>2. UNCHANGED <<desk, alert, crashes>>
    BY <1>2 DEF Check
  <2> QED
    BY <1>0, <2>1, <2>2, SweepKeeps
<1>3. ASSUME NEW b \in Blockers, Lock(s, b) PROVE DeskInv'
  BY <1>3, LockKeeps
<1>4. CASE CommitSweep(s)
  BY <1>4, CommitSweepKeeps
<1>5. CASE CrashSweep(s)
  <2>1. /\ sweep' \in [Sweeps -> SweepRow] /\ \A r \in Sweeps \ {s} : sweep'[r] = sweep[r]
        /\ sweep'[s].held = {} /\ sweep'[s].raised = {}
    BY <1>0, <1>5 DEF CrashSweep, IdleSweep, SweepRow
  <2>2. UNCHANGED <<desk, alert>> /\ crashes' \in 0..MaxCrashes
    BY <1>0, <1>5 DEF CrashSweep
  <2> QED
    BY <2>1, <2>2, SweepKeeps
<1> QED
  BY <1>1, <1>2, <1>3, <1>4, <1>5 DEF Sweep

--------------------------------------------------------------------------------
LEMMA DeskStep == DeskInv /\ [Next]_vars => DeskInv'
<1> SUFFICES ASSUME DeskInv, [Next]_vars PROVE DeskInv'
  OBVIOUS
<1>0. due \subseteq Blockers /\ ended \subseteq Tasks
  BY DEF DeskInv, TypeOK
<1>1. ASSUME NEW b \in Blockers, CreateBlocker(b) PROVE DeskInv'
  BY <1>1, CreateKeeps
<1>2. ASSUME NEW b \in Blockers, TimerRunsOut(b) PROVE DeskInv'
  BY <1>0, <1>2, QuietKeeps DEF TimerRunsOut
<1>3. ASSUME NEW u \in Users, NEW b \in Blockers, Act(u, b) PROVE DeskInv'
  <2>1. ASSUME NEW team \in Teams \cup {None}, NEW owner \in Users \cup {None},
               Assign(u, b, team, owner)
        PROVE  DeskInv'
    BY <2>1, AssignIsCommand, CommandKeeps
  <2>2. CASE Start(u, b) \/ Resolve(u, b) \/ Verify(u, b)
    BY <2>2, WorkIsCommand, CommandKeeps
  <2>3. CASE Acknowledge(u, b)
    BY <2>3, AcknowledgeKeeps
  <2> QED
    BY <1>3, <2>1, <2>2, <2>3 DEF Act
<1>4. ASSUME NEW t \in Tasks, EndTask(t) PROVE DeskInv'
  BY <1>0, <1>4, QuietKeeps DEF EndTask
<1>5. ASSUME NEW s \in Sweeps, Sweep(s) \/ CrashSweep(s) PROVE DeskInv'
  BY <1>5, SweepStep
<1>6. CASE UNCHANGED vars
  BY <1>0, <1>6, QuietKeeps DEF vars
<1> QED
  BY <1>1, <1>2, <1>3, <1>4, <1>5, <1>6 DEF Next

\* The invariant that carries the other theorems: what a sweep has raised and
\* not committed is of rows it holds, OPEN and never escalated
\* (escalate_due_blockers, the recheck under the lock).
THEOREM DeskInvariant == Spec => []DeskInv
<1> QED
  BY DeskInit, DeskStep, PTL DEF Spec

\* Any number of overlapping, crashing and repeated sweeps raise one alert for
\* a Blocker, ever, acknowledged or not (ADR-050).
THEOREM EscalatedOnceTheorem == Spec => []EscalatedOnce
<1>1. DeskInv => EscalatedOnce
  BY DEF DeskInv
<1> QED
  BY <1>1, DeskInvariant, PTL

\* No command leaves the mark of the sweep on a Blocker that has been routed,
\* whatever sweeps are under way (_leave_open).
THEOREM AlertTheorem == Spec => []AlertMeansUnrouted
<1>1. DeskInv => AlertMeansUnrouted
  BY DEF DeskInv
<1> QED
  BY <1>1, DeskInvariant, PTL

\* Whoever is responsible for a Blocker sees its Event (_enrol_owner).
THEOREM OwnerTheorem == Spec => []OwnerSeesEvent
<1>1. DeskInv => OwnerSeesEvent
  BY DEF DeskInv
<1> QED
  BY <1>1, DeskInvariant, PTL

\* No sweep that starts, or goes on, takes up a Blocker of a Task that has
\* ended (open_blockers).
THEOREM HistoryTheorem == Spec => HistoryIsNotSelected
<1> DEFINE NotSelected ==
      \A b \in Blockers, s \in Sweeps :
        TaskOf[b] \in ended /\ b \notin sweep[s].todo => b \notin sweep'[s].todo
<1>1. DeskInv /\ [Next]_vars => [NotSelected]_vars
  <2> SUFFICES ASSUME DeskInv, Next, NEW b \in Blockers, NEW s \in Sweeps,
                      TaskOf[b] \in ended, b \notin sweep[s].todo
               PROVE  b \notin sweep'[s].todo
    OBVIOUS
  <2>0. sweep \in [Sweeps -> SweepRow]
    BY DEF DeskInv, TypeOK, SweepRow
  <2>1. CASE UNCHANGED sweep
    BY <2>1
  <2>2. ASSUME NEW r \in Sweeps, BeginSweep(r) PROVE b \notin sweep'[s].todo
    BY <2>0, <2>2 DEF BeginSweep, Candidates, SweepRow
  <2>3. ASSUME NEW r \in Sweeps, NEW c \in Blockers, Check(r, c) \/ Lock(r, c)
        PROVE  b \notin sweep'[s].todo
    <3>1. CASE Check(r, c)
      BY <2>0, <3>1 DEF Check, SweepRow
    <3>2. CASE Lock(r, c)
      BY <2>0, <3>2 DEF Lock, SweepRow
    <3> QED
      BY <2>3, <3>1, <3>2
  <2>4. ASSUME NEW r \in Sweeps, CommitSweep(r) \/ CrashSweep(r) PROVE b \notin sweep'[s].todo
    BY <2>0, <2>4 DEF CommitSweep, CrashSweep, IdleSweep, SweepRow
  <2>5. ASSUME NEW u \in Users, NEW c \in Blockers, Act(u, c) PROVE UNCHANGED sweep
    BY <2>5 DEF Act, Assign, Start, Resolve, Verify, Acknowledge
  <2>6. ASSUME NEW c \in Blockers, CreateBlocker(c) \/ TimerRunsOut(c) PROVE UNCHANGED sweep
    BY <2>6 DEF CreateBlocker, TimerRunsOut
  <2>7. ASSUME NEW t \in Tasks, EndTask(t) PROVE UNCHANGED sweep
    BY <2>7 DEF EndTask
  <2>8. ASSUME NEW r \in Sweeps, Sweep(r) PROVE b \notin sweep'[s].todo
    BY <2>2, <2>3, <2>4, <2>8 DEF Sweep
  <2> QED
    BY <2>1, <2>4, <2>5, <2>6, <2>7, <2>8 DEF Next
<1> QED
  BY <1>1, DeskInvariant, PTL DEF Spec, HistoryIsNotSelected

--------------------------------------------------------------------------------
(* Overlapping sweeps *)

\* r is about to lock a Blocker that s holds.
SweepAwaits(r, s) ==
  /\ r # s
  /\ sweep[r].pc = "LOCK"
  /\ \E b \in sweep[s].held : First(r, b)

NoSweepsInCircle ==
  \A S \in SUBSET Sweeps :
    IsFiniteSet(S) /\ (\A r \in S : \E s \in S : SweepAwaits(r, s)) => S = {}

SweepOrder ==
  \A s \in Sweeps :
    /\ sweep[s].pc = "IDLE" => sweep[s].held = {}
    /\ \A b \in sweep[s].held, c \in sweep[s].todo : b < c

LEMMA OrderStep == DeskInv /\ SweepOrder /\ [Next]_vars => SweepOrder'
<1> SUFFICES ASSUME DeskInv, SweepOrder, [Next]_vars, NEW s \in Sweeps
             PROVE  /\ sweep'[s].pc = "IDLE" => sweep'[s].held = {}
                    /\ \A b \in sweep'[s].held, c \in sweep'[s].todo : b < c
  BY DEF SweepOrder
<1>0. /\ sweep \in [Sweeps -> SweepRow]
      /\ sweep[s].pc = "IDLE" => sweep[s].held = {}
      /\ \A b \in sweep[s].held, c \in sweep[s].todo : b < c
  BY DEF DeskInv, TypeOK, SweepRow, SweepOrder
<1>1. CASE UNCHANGED sweep
  BY <1>0, <1>1
<1>2. ASSUME NEW r \in Sweeps, BeginSweep(r) PROVE SweepOrder'
  BY <1>2, <1>0 DEF BeginSweep, SweepOrder, SweepRow
<1>3. ASSUME NEW r \in Sweeps, NEW b \in Blockers, Check(r, b) PROVE SweepOrder'
  BY <1>3, <1>0 DEF Check, SweepOrder, SweepRow
<1>4. ASSUME NEW r \in Sweeps, NEW b \in Blockers, Lock(r, b) PROVE SweepOrder'
  <2>1. /\ sweep'[r].pc = "CHECK" /\ sweep'[r].todo = sweep[r].todo \ {b}
        /\ sweep'[r].held = sweep[r].held \cup {b}
        /\ \A q \in Sweeps \ {r} : sweep'[q] = sweep[q]
    BY <1>4, <1>0 DEF Lock
  <2>2. sweep[r].todo \subseteq Nat /\ \A c \in sweep[r].todo \ {b} : b < c
    <3>1. sweep[r].todo \subseteq Nat
      BY <1>0, DeskAssumption DEF SweepRow
    <3>2. b \in sweep[r].todo /\ \A c \in sweep[r].todo : b <= c
      BY <1>4 DEF Lock, First
    <3> QED
      BY <3>1, <3>2
  <2>3. ASSUME NEW q \in Sweeps
        PROVE  /\ sweep'[q].pc = "IDLE" => sweep'[q].held = {}
               /\ \A x \in sweep'[q].held, c \in sweep'[q].todo : x < c
    <3>1. CASE q = r
      BY <3>1, <2>1, <2>2 DEF SweepOrder
    <3>2. CASE q # r
      BY <3>2, <2>1 DEF SweepOrder
    <3> QED
      BY <3>1, <3>2
  <2> QED
    BY <2>3 DEF SweepOrder
<1>5. ASSUME NEW r \in Sweeps, CommitSweep(r) \/ CrashSweep(r) PROVE SweepOrder'
  BY <1>5, <1>0 DEF CommitSweep, CrashSweep, IdleSweep, SweepOrder, SweepRow
<1>6. ASSUME NEW u \in Users, NEW b \in Blockers, Act(u, b) PROVE UNCHANGED sweep
  BY <1>6 DEF Act, Assign, Start, Resolve, Verify, Acknowledge
<1>7. ASSUME NEW b \in Blockers, CreateBlocker(b) \/ TimerRunsOut(b) PROVE UNCHANGED sweep
  BY <1>7 DEF CreateBlocker, TimerRunsOut
<1>8. ASSUME NEW t \in Tasks, EndTask(t) PROVE UNCHANGED sweep
  BY <1>8 DEF EndTask
<1>9. ASSUME NEW r \in Sweeps, Sweep(r) PROVE SweepOrder'
  BY <1>2, <1>3, <1>4, <1>5, <1>9 DEF Sweep
<1>10. CASE SweepOrder'
  BY <1>10 DEF SweepOrder
<1>11. CASE UNCHANGED vars
  BY <1>1, <1>11 DEF vars
<1> QED
  BY <1>1, <1>5, <1>6, <1>7, <1>8, <1>9, <1>10, <1>11 DEF Next

\* Of finitely many sweeps, one awaits a Blocker no other awaits one after.
LEMMA FurthestAhead ==
  ASSUME NEW S, IsFiniteSet(S), S # {}, NEW at \in [S -> Nat]
  PROVE  \E r \in S : \A s \in S : ~(at[r] < at[s])
<1> DEFINE Ahead(r) == {s \in S : at[r] < at[s]}
           F == {Ahead(r) : r \in S}
<1>1. F \in SUBSET (SUBSET S) /\ F # {}
  <2>1. PICK r \in S : TRUE
    OBVIOUS
  <2>2. Ahead(r) \in F
    OBVIOUS
  <2>3. \A q \in S : Ahead(q) \in SUBSET S
    OBVIOUS
  <2> QED
    BY <2>2, <2>3
<1>2. PICK T \in F : \A U \in F : ~(<<U, T>> \in StrictSubsetOrdering(S))
  <2> HIDE DEF F
  <2>1. IsWellFoundedOn(StrictSubsetOrdering(S), SUBSET S)
    BY FS_StrictSubsetOrderingWellFounded, FS_FiniteSubsetsOfFinite
  <2> QED
    BY <1>1, <2>1, WFMin
<1>3. PICK r \in S : T = Ahead(r)
  OBVIOUS
<1>4. ASSUME NEW s \in S, at[r] < at[s] PROVE FALSE
  <2>1. Ahead(s) \subseteq Ahead(r) /\ s \in Ahead(r) /\ s \notin Ahead(s)
    BY <1>4
  <2>2. Ahead(s) \in F /\ <<Ahead(s), T>> \in StrictSubsetOrdering(S)
    BY <1>3, <2>1 DEF StrictSubsetOrdering
  <2> QED
    BY <2>2, <1>2
<1> QED
  BY <1>4

LEMMA NoCircle == DeskInv /\ SweepOrder => NoSweepsInCircle
<1> SUFFICES ASSUME DeskInv, SweepOrder, NEW S \in SUBSET Sweeps, IsFiniteSet(S), S # {},
                    \A r \in S : \E s \in S : SweepAwaits(r, s)
             PROVE  FALSE
  BY DEF NoSweepsInCircle
<1> DEFINE at == [r \in S |-> CHOOSE b \in Blockers : First(r, b)]
<1>1. ASSUME NEW r \in S
      PROVE  /\ \E b \in Blockers : First(r, b)
             /\ \A b \in Blockers : First(r, b) => at[r] = b
             /\ at[r] \in Nat
  <2>1. sweep[r].todo \subseteq Blockers
    BY DEF DeskInv, TypeOK
  <2>2. \E b \in Blockers : First(r, b)
    BY <2>1 DEF SweepAwaits, First
  <2>3. First(r, at[r]) /\ at[r] \in Blockers
    BY <2>2
  <2>4. \A b \in Blockers : First(r, b) => at[r] = b
    BY <2>1, <2>3, DeskAssumption DEF First
  <2> QED
    BY <2>2, <2>3, <2>4, DeskAssumption
<1> HIDE DEF at
<1>2. at \in [S -> Nat]
  BY <1>1 DEF at
<1>3. PICK r \in S : \A s \in S : ~(at[r] < at[s])
  BY <1>2, FurthestAhead
<1>4. PICK s \in S : SweepAwaits(r, s)
  OBVIOUS
<1>5. PICK b \in sweep[s].held : First(r, b)
  BY <1>4 DEF SweepAwaits
<1>6. b \in Blockers /\ at[r] = b
  BY <1>1, <1>5 DEF DeskInv, TypeOK
<1>7. at[s] \in sweep[s].todo
  BY <1>1 DEF First
<1>8. b < at[s]
  BY <1>5, <1>7 DEF SweepOrder
<1> QED
  BY <1>3, <1>6, <1>8

\* However many sweeps run into one another, none of them wait for one another
\* in a circle (open_blockers: "in id order (the lock order, ADR-045)").
THEOREM SweepsDoNotDeadlock == Spec => []NoSweepsInCircle
<1>1. Init => SweepOrder
  BY DEF Init, SweepOrder, IdleSweep
<1> QED
  BY <1>1, DeskInvariant, OrderStep, NoCircle, PTL DEF Spec

================================================================================
