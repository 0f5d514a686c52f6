-------------------------- MODULE MilestoneProgress --------------------------
(***************************************************************************)
(* The database transactions behind MilestoneDerivation, statement by      *)
(* statement, under READ COMMITTED: a Task command locks its Task row,     *)
(* then each Milestone the Task contributes to in id order, and recomputes *)
(* it from the Task statuses it sees (its own write and what others have   *)
(* committed); the MISSED sweep selects without a lock and then locks in   *)
(* id order; confirm locks one Milestone; create_milestone holds the       *)
(* Event's dependency-graph lock, and its foreign keys take a KEY SHARE    *)
(* lock on every Task it names, which waits for a Task command's FOR       *)
(* UPDATE and is waited for by it.                                         *)
(*                                                                         *)
(* `write` buffers what a transaction has flushed: visible to itself at    *)
(* once and to everybody at the commit; an abort (an error, a lost         *)
(* connection, a worker killed) drops it.  Statements that wait for no     *)
(* lock and read nothing another transaction may change are one step with  *)
(* the statement before them.  The expected_version of a confirm only      *)
(* refuses more, so it is left out.                                        *)
(***************************************************************************)
EXTENDS Naturals, Sequences, SequencesExt, FiniteSets, MilestoneRules

CONSTANTS
  Tasks,
  Milestones,               \* their ids, which are ordered
  Contributors, Required,   \* Milestone -> the Tasks of its contributions
  Gated,                    \* Milestone -> the Tasks behind its gates
  Automatic, Timed,
  Txns, NoTxn

ASSUME ProgressAssumption ==
  /\ Milestones \subseteq Nat /\ IsFiniteSet(Milestones) /\ Timed \subseteq Milestones
  /\ Tasks \cap Milestones = {}
  /\ NoTxn \notin Txns
  /\ \A m \in Milestones :
       /\ Contributors[m] \subseteq Tasks /\ Required[m] \subseteq Contributors[m]
       /\ Gated[m] \subseteq Tasks \ Required[m]

VARIABLES
  task, milestone,      \* the committed rows
  taskLock,             \* FOR UPDATE on a Task: its holder
  keyShare,             \* KEY SHARE on a Task: its holders
  milestoneLock,        \* FOR UPDATE on a Milestone: its holder
  graphLock,            \* the Event's advisory lock: its holder
  txn                   \* what each transaction is about

vars == <<task, milestone, taskLock, keyShare, milestoneLock, graphLock, txn>>

D == INSTANCE MilestoneDerivation

MilestoneState == MilestoneStatus \cup {"ABSENT"}

\* `todo` are the Milestones still to be locked and moved, in order; `write`
\* maps the rows flushed so far to their new status; `insert` are the Tasks
\* a create has yet to reference.
Idle == [op |-> "NONE", todo |-> <<>>, insert |-> {}, write |-> <<>>]

Rank(ms, m) == Cardinality({k \in ms : k <= m})

InIdOrder(ms) == [i \in 1 .. Cardinality(ms) |-> CHOOSE m \in ms : Rank(ms, m) = i]

Written(p, row, committed) ==
  IF row \in DOMAIN txn[p].write THEN txn[p].write[row] ELSE committed

\* What a statement of p sees of the Tasks.
TaskSeen(p) == [t \in Tasks |-> Written(p, t, task[t])]

Flush(p, row, status) ==
  [x \in {row} \cup DOMAIN txn[p].write |-> IF x = row THEN status ELSE txn[p].write[x]]

Free(p) ==
  /\ taskLock' = [t \in Tasks |-> IF taskLock[t] = p THEN NoTxn ELSE taskLock[t]]
  /\ keyShare' = [t \in Tasks |-> keyShare[t] \ {p}]
  /\ milestoneLock' =
       [m \in Milestones |-> IF milestoneLock[m] = p THEN NoTxn ELSE milestoneLock[m]]
  /\ graphLock' = IF graphLock = p THEN NoTxn ELSE graphLock
  /\ txn' = [txn EXCEPT ![p] = Idle]

Begin(p, op, todo, insert, write) ==
  /\ txn[p] = Idle
  /\ txn' = [txn EXCEPT ![p] = [op |-> op, todo |-> todo, insert |-> insert, write |-> write]]

-----------------------------------------------------------------------------
\* A Task command up to milestone_ids_for_task: load FOR UPDATE, transition,
\* flush.  A command the state machine refuses ends without a trace.
TaskCommand(p, t, status) ==
  /\ taskLock[t] = NoTxn /\ keyShare[t] \subseteq {p}
  /\ <<task[t], status>> \in D!LegalMoves
  /\ Begin(p, "TASK",
           InIdOrder({m \in Milestones : milestone[m] # "ABSENT" /\ t \in Contributors[m]}),
           {}, [x \in {t} |-> status])
  /\ taskLock' = [taskLock EXCEPT ![t] = p]
  /\ UNCHANGED <<task, milestone, keyShare, milestoneLock, graphLock>>

\* Mutant: the rows are locked as the query returns them, by target_at.
SweepInTargetOrder(p, overdue) ==
  /\ overdue # {} /\ overdue \subseteq {m \in Timed : D!Live(m)}
  /\ Begin(p, "SWEEP", Reverse(InIdOrder(overdue)), {}, <<>>)
  /\ UNCHANGED <<task, milestone, taskLock, keyShare, milestoneLock, graphLock>>

\* overdue_milestone_ids, then its result in id order.
Sweep(p, overdue) ==
  /\ overdue # {} /\ overdue \subseteq {m \in Timed : D!Live(m)}
  /\ Begin(p, "SWEEP", InIdOrder(overdue), {}, <<>>)
  /\ UNCHANGED <<task, milestone, taskLock, keyShare, milestoneLock, graphLock>>

Confirm(p, m) ==
  /\ milestone[m] # "ABSENT"
  /\ Begin(p, "CONFIRM", <<m>>, {}, <<>>)
  /\ UNCHANGED <<task, milestone, taskLock, keyShare, milestoneLock, graphLock>>

\* create_milestone: the graph lock and the Milestone row ...
Create(p, m) ==
  /\ milestone[m] = "ABSENT" /\ graphLock = NoTxn
  /\ Begin(p, "CREATE", <<m>>, Contributors[m] \cup Gated[m], <<>>)
  /\ graphLock' = p
  /\ milestoneLock' = [milestoneLock EXCEPT ![m] = p]
  /\ UNCHANGED <<task, milestone, taskLock, keyShare>>

\* Mutant: the foreign key does not wait for the Task command.
InsertWithoutLock(p, t) ==
  /\ t \in txn[p].insert
  /\ txn' = [txn EXCEPT ![p].insert = @ \ {t}]
  /\ UNCHANGED <<task, milestone, taskLock, keyShare, milestoneLock, graphLock>>

\* ... then its contributions and gates, each a reference to a Task.
InsertReference(p, t) ==
  /\ t \in txn[p].insert
  /\ taskLock[t] = NoTxn
  /\ keyShare' = [keyShare EXCEPT ![t] = @ \cup {p}]
  /\ txn' = [txn EXCEPT ![p].insert = @ \ {t}]
  /\ UNCHANGED <<task, milestone, taskLock, milestoneLock, graphLock>>

\* lock_milestone, when somebody else may hold the row.
LockMilestone(p) ==
  /\ txn[p].todo # <<>>
  /\ milestoneLock[Head(txn[p].todo)] = NoTxn
  /\ milestoneLock' = [milestoneLock EXCEPT ![Head(txn[p].todo)] = p]
  /\ UNCHANGED <<task, milestone, taskLock, keyShare, graphLock, txn>>

\* What the transaction leaves in the Milestone it has just locked.
Outcome(p, m, allowed) ==
  LET current == IF txn[p].op = "CREATE" THEN "NOT_STARTED" ELSE milestone[m]
  IN  CASE current \in TerminalMilestone -> current
        [] OTHER ->
             CASE txn[p].op \in {"TASK", "CREATE"} ->
                    Recompute(current, m \in Automatic, allowed, TaskSeen(p),
                              Contributors[m], Required[m])
               [] txn[p].op = "SWEEP" -> "MISSED"
               [] txn[p].op = "CONFIRM" /\ current = "READY_FOR_CONFIRMATION" -> "ACHIEVED"
               [] OTHER -> current

MoveMilestone(p) ==
  /\ txn[p].todo # <<>> /\ txn[p].insert = {}
  /\ LET m == Head(txn[p].todo) IN
       /\ milestoneLock[m] = p
       /\ \E allowed \in BOOLEAN :
            txn' = [txn EXCEPT ![p].todo = Tail(@),
                               ![p].write = Flush(p, m, Outcome(p, m, allowed))]
  /\ UNCHANGED <<task, milestone, taskLock, keyShare, milestoneLock, graphLock>>

Commit(p) ==
  /\ txn[p].op # "NONE" /\ txn[p].todo = <<>> /\ txn[p].insert = {}
  /\ task' = TaskSeen(p)
  /\ milestone' = [m \in Milestones |-> Written(p, m, milestone[m])]
  /\ Free(p)

Abort(p) ==
  /\ txn[p].op # "NONE"
  /\ Free(p)
  /\ UNCHANGED <<task, milestone>>

Init ==
  /\ D!Init
  /\ taskLock = [t \in Tasks |-> NoTxn]
  /\ keyShare = [t \in Tasks |-> {}]
  /\ milestoneLock = [m \in Milestones |-> NoTxn]
  /\ graphLock = NoTxn
  /\ txn = [p \in Txns |-> Idle]

Proceed(p) == MoveMilestone(p) \/ Commit(p)

Acquire(p) == LockMilestone(p) \/ \E t \in Tasks : InsertReference(p, t)

Next ==
  \E p \in Txns :
    \/ \E t \in Tasks, status \in D!TaskStatus : TaskCommand(p, t, status)
    \/ \E overdue \in SUBSET Timed : Sweep(p, overdue)
    \/ \E m \in Milestones : Confirm(p, m) \/ Create(p, m)
    \/ Acquire(p) \/ Proceed(p) \/ Abort(p)

\* A transaction under way issues its next statement, and Postgres serves the
\* waiters of a row lock in order, so a lock freed again and again is granted.
Fairness == \A p \in Txns : WF_vars(Proceed(p)) /\ SF_vars(Acquire(p))

Spec == Init /\ [][Next]_vars /\ Fairness

-----------------------------------------------------------------------------
(* Properties *)

\* Every transaction leaves behind what one indivisible command would have:
\* two Task commands finishing the last contributors of a Milestone at once, a
\* Task command racing the Milestone's creation, confirm or the sweep, an
\* abort half way (on_task_changed, create_milestone, miss, confirm).
ActsAtomically == D!Spec

\* Every transaction that has begun ends: none wait for one another in a circle,
\* as Task commands and the sweep lock Milestones in the order of their ids.
TransactionsEnd == \A p \in Txns : txn[p] # Idle ~> txn[p] = Idle
===============================================================================
