----------------------------- MODULE DrEventProofs -----------------------------
(***************************************************************************)
(* Theorems about DrEventLifecycle.  An Application and its Event are      *)
(* changed by different transactions, and an Application command has read  *)
(* the Event without a lock.  What keeps the two in step is that no        *)
(* Application command begins or fails back a recovery: the Event commands *)
(* do, over all Applications in scope, and what follows depends on the     *)
(* Application alone.  Besides the properties themselves, the invariant    *)
(* needs that an Event that is being created does not exist before.        *)
(***************************************************************************)
EXTENDS DrEventLifecycle, TLAPS

CreatesAreNew ==
  \A p \in Txns : txn[p] \in CreateTxn =>
    /\ ~Exists(txn[p].event)
    /\ \A q \in Txns : txn[q] \in CreateTxn /\ txn[q].event = txn[p].event => q = p

EventInv ==
  /\ TypeOK /\ CreatesAreNew
  /\ AppsFollowEvent /\ PendingMatchesStatus /\ CompletedWasValidated

EventRow == [status : EventStatuses \cup {"NONE"}, parent : Events \cup {None}]
AppRow == [status : AppStatuses, pending : Pending \cup {None}]

\* The three properties, of one Application.
Follows(a) ==
  /\ event[EventOf[a]].status \in {"NONE", "PLANNED", "ACTIVE"} => app[a].status = "NOT_STARTED"
  /\ event[EventOf[a]].status \in
       {"FAILOVER_IN_PROGRESS", "FAILED_OVER", "FAILBACK_IN_PROGRESS", "CLOSED"} =>
         app[a].status # "NOT_STARTED"
  /\ app[a].status = "FAILBACK_IN_PROGRESS" =>
       event[EventOf[a]].status \in {"FAILBACK_IN_PROGRESS"} \cup Terminal

Matches(a) ==
  /\ app[a].status = "TECHNICAL_VALIDATION" =>
       app[a].pending # None /\ app[a].pending.phase = "FAILOVER"
  /\ app[a].pending # None =>
       <<app[a].status, app[a].pending.phase>> \in
         {<<"TECHNICAL_VALIDATION", "FAILOVER">>, <<"FAILBACK_IN_PROGRESS", "FAILBACK">>}

ApprovedFor(a, phase) ==
  \E v \in approved : v.app = a /\ v.phase = phase /\ v.validator # v.submitter

Validated(a) ==
  /\ app[a].status \in {"FAILED_OVER", "FAILBACK_IN_PROGRESS", "COMPLETED"} =>
       ApprovedFor(a, "FAILOVER")
  /\ app[a].status = "COMPLETED" /\ failbackRequired[a] => ApprovedFor(a, "FAILBACK")

LEMMA OfEachApplication ==
  /\ AppsFollowEvent <=> \A a \in Apps : Follows(a)
  /\ PendingMatchesStatus <=> \A a \in Apps : Matches(a)
  /\ CompletedWasValidated <=> \A a \in Apps : Validated(a)
BY DEF AppsFollowEvent, PendingMatchesStatus, CompletedWasValidated,
       Follows, Matches, Validated, ApprovedFor

LEMMA OfEachApplicationNext ==
  /\ AppsFollowEvent' <=> \A a \in Apps : Follows(a)'
  /\ PendingMatchesStatus' <=> \A a \in Apps : Matches(a)'
  /\ CompletedWasValidated' <=> \A a \in Apps : Validated(a)'
BY DEF AppsFollowEvent, PendingMatchesStatus, CompletedWasValidated,
       Follows, Matches, Validated, ApprovedFor

\* What the invariant says of the rows.
LEMMA Rows ==
  ASSUME EventInv
  PROVE  /\ event \in [Events -> EventRow] /\ app \in [Apps -> AppRow]
         /\ EventOf \in [Apps -> Events]
         /\ \A a \in Apps : Follows(a) /\ Matches(a) /\ Validated(a)
BY EventAssumption, OfEachApplication DEF EventInv, TypeOK, EventRow, AppRow, EventAssumption

--------------------------------------------------------------------------------
LEMMA EventInit == Init => EventInv
<1> SUFFICES ASSUME Init PROVE EventInv
  OBVIOUS
<1>1. TypeOK
  BY DEF Init, TypeOK, AppStatuses, EventStatuses, Approval
<1>2. CreatesAreNew
  BY NoneAssumption DEF Init, CreatesAreNew, NoneAssumption
<1>3. AppsFollowEvent /\ PendingMatchesStatus /\ CompletedWasValidated
  BY EventAssumption
     DEF Init, AppsFollowEvent, PendingMatchesStatus, CompletedWasValidated, EventAssumption
<1> QED
  BY <1>1, <1>2, <1>3 DEF EventInv

--------------------------------------------------------------------------------
(* Event commands *)

\* A command on e: the row moves to `target`, some Applications of e to `status`.
Moves(e, target, moved, status) ==
  /\ event' = [event EXCEPT ![e].status = target]
  /\ app' = [a \in Apps |-> IF a \in moved THEN [app[a] EXCEPT !.status = status] ELSE app[a]]
  /\ UNCHANGED <<failbackRequired, approved, txn>>

\* Such a command keeps the invariant if it does so for each Application.
LEMMA MoveKeeps ==
  ASSUME EventInv, NEW e \in Events, Exists(e), NEW target \in EventStatuses,
         NEW moved \in SUBSET ScopeOf(e), NEW status \in AppStatuses,
         Moves(e, target, moved, status),
         \A a \in Apps : Follows(a)' /\ Matches(a)' /\ Validated(a)'
  PROVE  EventInv'
<1>1. TypeOK'
  <2>1. event' \in [Events -> EventRow]
    BY Rows DEF Moves, EventRow
  <2>2. app' \in [Apps -> AppRow]
    BY Rows DEF Moves, AppRow
  <2> QED
    BY <2>1, <2>2 DEF Moves, EventInv, TypeOK, EventRow, AppRow
<1>2. CreatesAreNew'
  <2>1. \A x \in Events : Exists(x)' => Exists(x)
    BY Rows DEF Moves, Exists, EventRow
  <2> QED
    BY <2>1 DEF Moves, EventInv, CreatesAreNew, CreateTxn
<1> QED
  BY <1>1, <1>2, OfEachApplicationNext DEF EventInv

LEMMA EventCommandKeeps ==
  ASSUME EventInv, NEW e \in Events, EventCommand(e)
  PROVE  EventInv'
<1>0. /\ event \in [Events -> EventRow] /\ app \in [Apps -> AppRow]
      /\ EventOf \in [Apps -> Events]
      /\ \A a \in Apps : Follows(a) /\ Matches(a) /\ Validated(a)
  BY Rows
<1>1. ASSUME NEW target, Transition(e, target)
      PROVE  /\ Exists(e) /\ target \in EventStatuses
             /\ <<event[e].status, target>> \in LegalTransition
             /\ event' = [event EXCEPT ![e].status = target]
             /\ UNCHANGED <<failbackRequired, approved, txn>>
  BY <1>1 DEF Transition, LoadForUpdate, LegalTransition, EventStatuses, Terminal
\* A command that leaves the Applications alone.
<1>2. ASSUME NEW target \in EventStatuses, Exists(e),
             Moves(e, target, {}, "NOT_STARTED"),
             \A a \in ScopeOf(e) : Follows(a)'
      PROVE  EventInv'
  <2>1. app' = app
    BY <1>0, <1>2 DEF Moves
  <2>2. \A a \in Apps : Matches(a)' /\ Validated(a)'
    BY <1>0, <1>2, <2>1 DEF Moves, Matches, Validated, ApprovedFor
  <2>3. \A a \in Apps : Follows(a)'
    BY <1>0, <1>2, <2>1 DEF Moves, Follows, ScopeOf
  <2> QED
    BY <1>2, <2>2, <2>3, MoveKeeps DEF AppStatuses
<1>3. ASSUME NEW target \in EventStatuses, Transition(e, target), UNCHANGED app
      PROVE  Moves(e, target, {}, "NOT_STARTED")
  BY <1>0, <1>1, <1>3 DEF Moves
<1>4. ASSUME NEW failed \in SUBSET ReadinessKeys, NEW reason \in BOOLEAN,
             Activate(e, failed, reason)
      PROVE  EventInv'
  <2>1. Transition(e, "ACTIVE") /\ UNCHANGED app
    BY <1>4 DEF Activate
  <2>2. event[e].status = "PLANNED" /\ event'[e].status = "ACTIVE"
    BY <1>0, <1>1, <2>1 DEF LegalTransition, EventRow
  <2>3. \A a \in ScopeOf(e) : Follows(a)'
    BY <1>0, <2>1, <2>2 DEF Follows, ScopeOf, Terminal
  <2> QED
    BY <1>1, <1>2, <1>3, <2>1, <2>3
<1>5. CASE StartFailover(e)
  <2> DEFINE moved == {a \in ScopeOf(e) : app[a].status = "NOT_STARTED"}
  <2>1. Transition(e, "FAILOVER_IN_PROGRESS") /\ MoveApps(moved, "RECOVERING")
    BY <1>5 DEF StartFailover
  <2>2. Moves(e, "FAILOVER_IN_PROGRESS", moved, "RECOVERING")
    BY <1>1, <2>1 DEF Moves, MoveApps
  <2>3. ASSUME NEW a \in Apps PROVE Follows(a)' /\ Matches(a)' /\ Validated(a)'
    <3>1. CASE a \in moved
      <4>1. app'[a] = [app[a] EXCEPT !.status = "RECOVERING"] /\ app[a].pending = None
        BY <1>0, <2>2, <3>1 DEF Moves, Matches
      <4>2. app'[a].status = "RECOVERING" /\ app'[a].pending = None
        BY <1>0, <4>1 DEF AppRow
      <4>3. event'[EventOf[a]].status = "FAILOVER_IN_PROGRESS"
        BY <1>0, <2>2, <3>1 DEF Moves, ScopeOf, EventRow
      <4> QED
        BY <4>2, <4>3 DEF Follows, Matches, Validated
    <3>2. CASE a \notin moved
      <4>1. app'[a] = app[a]
        BY <2>2, <3>2 DEF Moves
      <4>2. Follows(a)'
        <5>1. CASE EventOf[a] = e
          <6>1. app[a].status # "NOT_STARTED" /\ event[e].status = "ACTIVE"
            BY <1>1, <2>1, <3>2, <5>1 DEF ScopeOf, LegalTransition
          <6> QED
            BY <1>0, <5>1, <6>1 DEF Follows
        <5>2. CASE EventOf[a] # e
          BY <1>0, <2>2, <4>1, <5>2 DEF Moves, Follows
        <5> QED
          BY <5>1, <5>2
      <4> QED
        BY <1>0, <2>2, <4>1, <4>2 DEF Moves, Matches, Validated, ApprovedFor
    <3> QED
      BY <3>1, <3>2
  <2>4. moved \in SUBSET ScopeOf(e) /\ Exists(e)
    BY <1>1, <2>1
  <2> QED
    BY <2>2, <2>3, <2>4, MoveKeeps DEF AppStatuses, EventStatuses
<1>6. CASE MarkFailedOver(e)
  <2>1. Transition(e, "FAILED_OVER") /\ UNCHANGED app
    BY <1>6 DEF MarkFailedOver
  <2>2. event[e].status = "FAILOVER_IN_PROGRESS" /\ event'[e].status = "FAILED_OVER"
    BY <1>0, <1>1, <2>1 DEF LegalTransition, EventRow
  <2>3. \A a \in ScopeOf(e) : Follows(a)'
    BY <1>0, <2>1, <2>2 DEF Follows, ScopeOf, Terminal
  <2> QED
    BY <1>1, <1>2, <1>3, <2>1, <2>3
<1>7. CASE StartFailback(e)
  <2> DEFINE moved == {a \in ScopeOf(e) : app[a].status = "FAILED_OVER" /\ failbackRequired[a]}
  <2>1. Transition(e, "FAILBACK_IN_PROGRESS") /\ MoveApps(moved, "FAILBACK_IN_PROGRESS")
    BY <1>7 DEF StartFailback
  <2>2. Moves(e, "FAILBACK_IN_PROGRESS", moved, "FAILBACK_IN_PROGRESS")
    BY <1>1, <2>1 DEF Moves, MoveApps
  <2>3. ASSUME NEW a \in Apps PROVE Follows(a)' /\ Matches(a)' /\ Validated(a)'
    <3>0. EventOf[a] = e => event'[EventOf[a]].status = "FAILBACK_IN_PROGRESS"
      BY <1>0, <2>2 DEF Moves, EventRow
    <3>1. CASE a \in moved
      <4>1. /\ app'[a] = [app[a] EXCEPT !.status = "FAILBACK_IN_PROGRESS"]
            /\ app[a].pending = None /\ ApprovedFor(a, "FAILOVER")
        BY <1>0, <2>2, <3>1 DEF Moves, Matches, Validated
      <4>2. app'[a].status = "FAILBACK_IN_PROGRESS" /\ app'[a].pending = None
        BY <1>0, <4>1 DEF AppRow
      <4>3. ApprovedFor(a, "FAILOVER")'
        BY <2>2, <4>1 DEF Moves, ApprovedFor
      <4> QED
        BY <3>0, <3>1, <4>2, <4>3 DEF Follows, Matches, Validated, ScopeOf
    <3>2. CASE a \notin moved
      <4>1. app'[a] = app[a]
        BY <2>2, <3>2 DEF Moves
      <4>2. Follows(a)'
        <5>1. CASE EventOf[a] = e
          <6>1. event[e].status = "FAILED_OVER"
            BY <1>1, <2>1 DEF LegalTransition
          <6> QED
            BY <1>0, <3>0, <4>1, <5>1, <6>1 DEF Follows
        <5>2. CASE EventOf[a] # e
          BY <1>0, <2>2, <4>1, <5>2 DEF Moves, Follows
        <5> QED
          BY <5>1, <5>2
      <4> QED
        BY <1>0, <2>2, <4>1, <4>2 DEF Moves, Matches, Validated, ApprovedFor
    <3> QED
      BY <3>1, <3>2
  <2>4. moved \in SUBSET ScopeOf(e) /\ Exists(e)
    BY <1>1, <2>1
  <2> QED
    BY <2>2, <2>3, <2>4, MoveKeeps DEF AppStatuses, EventStatuses
<1>8. ASSUME NEW monitoring \in BOOLEAN, NEW exception \in BOOLEAN,
             Close(e, monitoring, exception)
      PROVE  EventInv'
  <2>1. Transition(e, "CLOSED") /\ UNCHANGED app
    BY <1>8 DEF Close
  <2>2. event[e].status \in {"FAILED_OVER", "FAILBACK_IN_PROGRESS"} /\ event'[e].status = "CLOSED"
    BY <1>0, <1>1, <2>1 DEF LegalTransition, EventRow
  <2>3. \A a \in ScopeOf(e) : Follows(a)'
    BY <1>0, <2>1, <2>2 DEF Follows, ScopeOf, Terminal
  <2> QED
    BY <1>1, <1>2, <1>3, <2>1, <2>3
<1>9. CASE Cancel(e)
  <2>1. Moves(e, "CANCELLED", {}, "NOT_STARTED") /\ Exists(e) /\ UNCHANGED app
    BY <1>0, <1>9 DEF Cancel, Moves, LoadForUpdate
  <2>2. event'[e].status = "CANCELLED"
    BY <1>0, <2>1 DEF Moves, EventRow
  <2>3. \A a \in ScopeOf(e) : Follows(a)'
    BY <1>0, <2>1, <2>2 DEF Follows, ScopeOf, Terminal
  <2> QED
    BY <1>2, <2>1, <2>3 DEF EventStatuses, Terminal
<1> QED
  BY <1>4, <1>5, <1>6, <1>7, <1>8, <1>9 DEF EventCommand

--------------------------------------------------------------------------------
(* Transactions in two steps *)

\* A step of a transaction that writes no row.
LEMMA TxnKeeps ==
  ASSUME EventInv, UNCHANGED <<event, app, failbackRequired, approved>>,
         txn' \in [Txns -> AppTxn \cup CreateTxn \cup {None}],
         CreatesAreNew'
  PROVE  EventInv'
BY DEF EventInv, TypeOK, AppsFollowEvent, PendingMatchesStatus, CompletedWasValidated

LEMMA BeginKeeps ==
  ASSUME EventInv, NEW p \in Txns, Begin(p)
  PROVE  EventInv'
<1>0. txn \in [Txns -> AppTxn \cup CreateTxn \cup {None}] /\ CreatesAreNew
  BY DEF EventInv, TypeOK
<1>1. ASSUME NEW e \in Events, NEW parent \in Events \cup {None}, BeginCreateEvent(p, e, parent)
      PROVE  EventInv'
  <2> DEFINE new == [op |-> "CREATE", event |-> e, parent |-> parent]
  <2>1. /\ txn' = [txn EXCEPT ![p] = new] /\ ~Exists(e)
        /\ \A q \in Txns : txn[q] \in CreateTxn => txn[q].event # e
        /\ UNCHANGED <<event, app, failbackRequired, approved>>
    BY <1>1 DEF BeginCreateEvent
  <2>2. new \in CreateTxn /\ new.event = e
    BY DEF CreateTxn
  <2>3. txn'[p] = new /\ \A q \in Txns : q # p => txn'[q] = txn[q]
    BY <1>0, <2>1
  <2>4. CreatesAreNew'
    BY <1>0, <2>1, <2>2, <2>3 DEF CreatesAreNew, Exists
  <2> QED
    BY <1>0, <2>1, <2>2, <2>4, TxnKeeps
<1>2. ASSUME NEW a \in Apps, NEW u \in Users, LoadVisibleApplication(p, a, u)
      PROVE  EventInv'
  <2> DEFINE new == [op |-> "APP", app |-> a, by |-> u]
  <2>1. txn' = [txn EXCEPT ![p] = new] /\ UNCHANGED <<event, app, failbackRequired, approved>>
    BY <1>2 DEF LoadVisibleApplication, LoadApplication
  <2>2. new \in AppTxn /\ new \notin CreateTxn
    BY DEF AppTxn, CreateTxn
  <2>3. txn'[p] = new /\ \A q \in Txns : q # p => txn'[q] = txn[q]
    BY <1>0, <2>1
  <2>4. CreatesAreNew'
    BY <1>0, <2>1, <2>2, <2>3 DEF CreatesAreNew, Exists
  <2> QED
    BY <1>0, <2>1, <2>2, <2>4, TxnKeeps
<1> QED
  BY <1>1, <1>2 DEF Begin

\* A transaction that has ended creates nothing.
LEMMA Ended ==
  ASSUME EventInv, NEW p \in Txns, txn' = [txn EXCEPT ![p] = None]
  PROVE  /\ txn' \in [Txns -> AppTxn \cup CreateTxn \cup {None}]
         /\ \A q \in Txns : txn'[q] \in CreateTxn => q # p /\ txn'[q] = txn[q]
<1>1. txn \in [Txns -> AppTxn \cup CreateTxn \cup {None}] /\ None \notin CreateTxn
  BY NoneAssumption DEF EventInv, TypeOK, NoneAssumption
<1> QED
  BY <1>1

LEMMA CommitCreateKeeps ==
  ASSUME EventInv, NEW p \in Txns, CommitCreateEvent(p)
  PROVE  EventInv'
<1> DEFINE e == txn[p].event
           row == [status |-> "PLANNED", parent |-> txn[p].parent]
<1>0. /\ event \in [Events -> EventRow] /\ app \in [Apps -> AppRow]
      /\ EventOf \in [Apps -> Events]
      /\ \A a \in Apps : Follows(a) /\ Matches(a) /\ Validated(a)
  BY Rows
<1>1. /\ txn[p] \in CreateTxn /\ e \in Events /\ txn[p].parent \in Events \cup {None}
      /\ event' = [event EXCEPT ![e] = row]
      /\ txn' = [txn EXCEPT ![p] = None]
      /\ UNCHANGED <<app, failbackRequired, approved>>
  BY DEF CommitCreateEvent, CreateTxn
<1>2. event' \in [Events -> EventRow] /\ event'[e] = row
      /\ \A x \in Events : x # e => event'[x] = event[x]
  BY <1>0, <1>1 DEF EventRow, EventStatuses
<1>3. ~Exists(e) /\ \A q \in Txns : txn[q] \in CreateTxn /\ txn[q].event = e => q = p
  BY <1>1 DEF EventInv, CreatesAreNew
<1>4. TypeOK'
  BY <1>1, <1>2, Ended DEF EventInv, TypeOK, EventRow
<1>5. CreatesAreNew'
  <2>1. ASSUME NEW q \in Txns, txn'[q] \in CreateTxn
        PROVE  q # p /\ txn'[q] = txn[q] /\ txn[q].event # e /\ txn[q].event \in Events
    BY <1>1, <1>3, <2>1, Ended DEF CreateTxn
  <2> QED
    BY <1>2, <2>1 DEF EventInv, CreatesAreNew, Exists
<1>6. ASSUME NEW a \in Apps PROVE Follows(a)' /\ Matches(a)' /\ Validated(a)'
  <2>1. Follows(a)'
    <3>1. CASE EventOf[a] = e
      <4>1. event[e].status = "NONE"
        BY <1>3 DEF Exists
      <4>2. app'[a].status = "NOT_STARTED" /\ event'[EventOf[a]].status = "PLANNED"
        BY <1>0, <1>1, <1>2, <3>1, <4>1 DEF Follows
      <4> QED
        BY <4>2 DEF Follows
    <3>2. CASE EventOf[a] # e
      BY <1>0, <1>1, <1>2, <3>2 DEF Follows
    <3> QED
      BY <3>1, <3>2
  <2> QED
    BY <1>0, <1>1, <2>1 DEF Matches, Validated, ApprovedFor
<1> QED
  BY <1>4, <1>5, <1>6, OfEachApplicationNext DEF EventInv

\* An Application command keeps the invariant if it does so for its Application.
LEMMA FinishKeeps ==
  ASSUME EventInv, NEW p \in Txns, NEW b \in Apps, txn[p].app = b, NEW row \in AppRow,
         FinishApplication(p, row),
         approved \subseteq approved', approved' \subseteq Approval,
         Follows(b)', Matches(b)', Validated(b)'
  PROVE  EventInv'
<1>0. /\ event \in [Events -> EventRow] /\ app \in [Apps -> AppRow]
      /\ \A a \in Apps : Follows(a) /\ Matches(a) /\ Validated(a)
  BY Rows
<1>1. /\ app' = [app EXCEPT ![b] = row] /\ txn' = [txn EXCEPT ![p] = None]
      /\ UNCHANGED <<event, failbackRequired>>
  BY DEF FinishApplication
<1>2. app' \in [Apps -> AppRow]
  BY <1>0, <1>1
<1>3. TypeOK'
  BY <1>1, <1>2, Ended DEF EventInv, TypeOK, AppRow
<1>4. CreatesAreNew'
  BY <1>1, Ended DEF EventInv, CreatesAreNew, Exists
<1>5. ASSUME NEW a \in Apps, a # b PROVE Follows(a)' /\ Matches(a)' /\ Validated(a)'
  <2>1. app'[a] = app[a]
    BY <1>0, <1>1, <1>5
  <2> QED
    BY <1>0, <1>1, <2>1 DEF Follows, Matches, Validated, ApprovedFor
<1> QED
  BY <1>3, <1>4, <1>5, OfEachApplicationNext DEF EventInv

LEMMA SubmitKeeps ==
  ASSUME EventInv, NEW p \in Txns, NEW phase \in Phases,
         NEW unfinished \in BOOLEAN, NEW reason \in BOOLEAN,
         SubmitValidation(p, phase, unfinished, reason)
  PROVE  EventInv'
<1>0. PICK a \in Apps : a = txn[p].app /\ txn[p] \in AppTxn
  BY DEF SubmitValidation, AppTxn
<1> DEFINE new == [phase |-> phase, submitter |-> txn[p].by]
           row == [status |-> IF phase = "FAILOVER" THEN "TECHNICAL_VALIDATION" ELSE app[a].status,
                   pending |-> new]
<1>1. /\ txn[p].by \in Users
      /\ <<app[a].status, phase>> \in PhaseForSubmit
      /\ FinishApplication(p, row) /\ approved' = approved /\ txn[p].app = a
  BY <1>0 DEF SubmitValidation, AppTxn
<1>2. /\ app \in [Apps -> AppRow]
      /\ Follows(a) /\ Validated(a) /\ EventOf[a] \in Events /\ approved \subseteq Approval
  BY <1>1, Rows DEF EventInv, TypeOK
<1>3. new \in Pending /\ new # None /\ new.phase = phase
  BY <1>1, NoneAssumption DEF Pending, NoneAssumption
<1>4. /\ app' = [app EXCEPT ![a] = row]
      /\ UNCHANGED <<event, failbackRequired>>
  BY <1>1 DEF FinishApplication
<1>5. /\ app'[a].status = row.status /\ app'[a].pending = new
  BY <1>1, <1>2, <1>4
<1>6. \/ phase = "FAILOVER" /\ app[a].status = "RECOVERING" /\ row.status = "TECHNICAL_VALIDATION"
      \/ phase = "FAILBACK" /\ app[a].status = "FAILBACK_IN_PROGRESS"
         /\ row.status = "FAILBACK_IN_PROGRESS"
  BY <1>1 DEF PhaseForSubmit
<1>7. row \in AppRow
  BY <1>3, <1>6 DEF AppRow, AppStatuses
<1>8. Follows(a)'
  BY <1>2, <1>4, <1>5, <1>6 DEF Follows
<1>9. Matches(a)'
  BY <1>3, <1>5, <1>6 DEF Matches
<1>10. Validated(a)'
  BY <1>1, <1>2, <1>4, <1>5, <1>6 DEF Validated, ApprovedFor
<1> QED
  BY <1>1, <1>2, <1>7, <1>8, <1>9, <1>10, FinishKeeps

LEMMA ApproveKeeps ==
  ASSUME EventInv, NEW p \in Txns, Approve(p)
  PROVE  EventInv'
<1>0. PICK a \in Apps : a = txn[p].app /\ txn[p] \in AppTxn
  BY DEF Approve, AppTxn
<1> DEFINE pend == app[a].pending
           record == [app |-> a, phase |-> pend.phase,
                      submitter |-> pend.submitter, validator |-> txn[p].by]
           row == [status |-> ApprovedStatus(a), pending |-> None]
<1>1. /\ txn[p].by \in Users
      /\ pend # None /\ pend.submitter # txn[p].by
      /\ FinishApplication(p, row) /\ approved' = approved \cup {record}
      /\ txn[p].app = a
  BY <1>0 DEF Approve, MayGiveVerdict, AppTxn
<1>2. /\ app \in [Apps -> AppRow] /\ failbackRequired \in [Apps -> BOOLEAN]
      /\ Follows(a) /\ Matches(a) /\ Validated(a)
      /\ EventOf[a] \in Events /\ approved \subseteq Approval
  BY <1>1, Rows DEF EventInv, TypeOK
<1>3. pend \in Pending
  BY <1>1, <1>2 DEF AppRow
<1>4. /\ app' = [app EXCEPT ![a] = row]
      /\ UNCHANGED <<event, failbackRequired>>
  BY <1>1 DEF FinishApplication
<1>5. app'[a].status = ApprovedStatus(a) /\ app'[a].pending = None
  BY <1>1, <1>2, <1>4
<1>6. row \in AppRow
  BY DEF ApprovedStatus, AppRow, AppStatuses
<1>7. record \in approved' /\ record \in Approval /\ approved' \subseteq Approval
  BY <1>1, <1>2, <1>3 DEF Approval, Pending
<1>8. record.app = a /\ record.phase = pend.phase /\ record.validator # record.submitter
  BY <1>1
<1>9. \A phase : pend.phase = phase => ApprovedFor(a, phase)'
  BY <1>4, <1>7, <1>8 DEF ApprovedFor
<1>10. \/ app[a].status = "TECHNICAL_VALIDATION" /\ pend.phase = "FAILOVER"
       \/ app[a].status = "FAILBACK_IN_PROGRESS" /\ pend.phase = "FAILBACK"
  BY <1>1, <1>2 DEF Matches
<1>11. Follows(a)'
  BY <1>2, <1>4, <1>5, <1>10 DEF Follows, ApprovedStatus
<1>12. Matches(a)'
  BY <1>5 DEF Matches, ApprovedStatus
<1>13. Validated(a)'
  <2>1. CASE app[a].status = "TECHNICAL_VALIDATION"
    <3>1. ApprovedFor(a, "FAILOVER")'
      BY <1>9, <1>10, <2>1
    <3>2. app'[a].status = "COMPLETED" => ~failbackRequired'[a]
      BY <1>4, <1>5, <2>1 DEF ApprovedStatus
    <3> QED
      BY <3>1, <3>2 DEF Validated
  <2>2. CASE app[a].status = "FAILBACK_IN_PROGRESS"
    <3>1. ApprovedFor(a, "FAILBACK")'
      BY <1>9, <1>10, <2>2
    <3>2. ApprovedFor(a, "FAILOVER")'
      BY <1>1, <1>2, <2>2 DEF Validated, ApprovedFor
    <3> QED
      BY <3>1, <3>2 DEF Validated
  <2> QED
    BY <1>10, <2>1, <2>2
<1> QED
  BY <1>1, <1>6, <1>7, <1>11, <1>12, <1>13, FinishKeeps

LEMMA RejectKeeps ==
  ASSUME EventInv, NEW p \in Txns, Reject(p)
  PROVE  EventInv'
<1>0. PICK a \in Apps : a = txn[p].app /\ txn[p] \in AppTxn
  BY DEF Reject, AppTxn
<1> DEFINE was == app[a].status
           row == [status |-> IF was = "FAILBACK_IN_PROGRESS" THEN was ELSE "RECOVERING",
                   pending |-> None]
<1>1. /\ was \in Validatable
      /\ FinishApplication(p, row) /\ approved' = approved /\ txn[p].app = a
  BY <1>0 DEF Reject, MayGiveVerdict, AppTxn
<1>2. /\ app \in [Apps -> AppRow] /\ Follows(a) /\ Validated(a)
      /\ EventOf[a] \in Events /\ approved \subseteq Approval
  BY <1>1, Rows DEF EventInv, TypeOK
<1>3. /\ app' = [app EXCEPT ![a] = row]
      /\ UNCHANGED <<event, failbackRequired>>
  BY <1>1 DEF FinishApplication
<1>4. app'[a].status = row.status /\ app'[a].pending = None
  BY <1>1, <1>2, <1>3
<1>5. row \in AppRow
  BY DEF AppRow, AppStatuses
<1>6. \/ was = "FAILBACK_IN_PROGRESS" /\ row.status = "FAILBACK_IN_PROGRESS"
      \/ was = "TECHNICAL_VALIDATION" /\ row.status = "RECOVERING"
  BY <1>1 DEF Validatable
<1>7. Follows(a)'
  BY <1>2, <1>3, <1>4, <1>6 DEF Follows
<1>8. Matches(a)'
  BY <1>4, <1>6 DEF Matches
<1>9. Validated(a)'
  BY <1>1, <1>2, <1>3, <1>4, <1>6 DEF Validated, ApprovedFor
<1> QED
  BY <1>1, <1>2, <1>5, <1>7, <1>8, <1>9, FinishKeeps

LEMMA AbortKeeps ==
  ASSUME EventInv, NEW p \in Txns, Abort(p)
  PROVE  EventInv'
<1>1. /\ txn' = [txn EXCEPT ![p] = None]
      /\ UNCHANGED <<event, app, failbackRequired, approved>>
  BY DEF Abort
<1>2. CreatesAreNew'
  BY <1>1, Ended DEF EventInv, CreatesAreNew, Exists
<1> QED
  BY <1>1, <1>2, Ended, TxnKeeps

--------------------------------------------------------------------------------
LEMMA EventStep == EventInv /\ [Next]_vars => EventInv'
<1> SUFFICES ASSUME EventInv, [Next]_vars PROVE EventInv'
  OBVIOUS
<1>1. ASSUME NEW e \in Events, EventCommand(e) PROVE EventInv'
  BY <1>1, EventCommandKeeps
<1>2. ASSUME NEW p \in Txns, Begin(p) PROVE EventInv'
  BY <1>2, BeginKeeps
<1>3. ASSUME NEW p \in Txns, Finish(p) PROVE EventInv'
  BY <1>3, CommitCreateKeeps, SubmitKeeps, ApproveKeeps, RejectKeeps, AbortKeeps DEF Finish
<1>4. CASE UNCHANGED vars
  BY <1>4 DEF vars, EventInv, TypeOK, CreatesAreNew, Exists, AppsFollowEvent,
              PendingMatchesStatus, CompletedWasValidated
<1> QED
  BY <1>1, <1>2, <1>3, <1>4 DEF Next

\* Of any number of Events, Applications and transactions: the rows keep their
\* shape, nothing is created twice, and the three properties below hold.
THEOREM EventInvariant == Spec => []EventInv
BY EventInit, EventStep, PTL DEF Spec

\* An Application's recovery is never ahead of its Event nor left at the start,
\* although transition_service.py changes the two rows under different locks.
THEOREM AppsFollow == Spec => []AppsFollowEvent
<1>1. EventInv => AppsFollowEvent
  BY DEF EventInv
<1> QED
  BY <1>1, EventInvariant, PTL

\* The pending Validation is always for the phase its Application is in, so
\* that validate may tell the phase from the status.
THEOREM PendingMatches == Spec => []PendingMatchesStatus
<1>1. EventInv => PendingMatchesStatus
  BY DEF EventInv
<1> QED
  BY <1>1, EventInvariant, PTL

\* No Application is recovered, or failed back, that somebody other than the
\* submitter has not approved in each phase it went through.
THEOREM CompletedValidated == Spec => []CompletedWasValidated
<1>1. EventInv => CompletedWasValidated
  BY DEF EventInv
<1> QED
  BY <1>1, EventInvariant, PTL

\* Once its Event has ended, an Application no command is at work on is
\* changed by none that begins later.
THEOREM EndedRest == Spec => EndedEventsRest
<1> DEFINE Rest == \A a \in Apps :
             event[EventOf[a]].status \in Terminal /\ ~Locked(a) =>
               app'[a] = app[a] /\ ~Locked(a)'
<1>1. EventInv /\ [Next]_vars => [Rest]_vars
  <2> SUFFICES ASSUME EventInv, Next, NEW a \in Apps,
                      event[EventOf[a]].status \in Terminal, ~Locked(a)
               PROVE  app'[a] = app[a] /\ ~Locked(a)'
    OBVIOUS
  <2>0. /\ app \in [Apps -> AppRow] /\ EventOf[a] \in Events
        /\ txn \in [Txns -> AppTxn \cup CreateTxn \cup {None}]
    BY Rows DEF EventInv, TypeOK
  <2>1. ASSUME NEW e \in Events, EventCommand(e)
        PROVE  app'[a] = app[a] /\ ~Locked(a)'
    <3>1. txn' = txn
      BY <2>1 DEF EventCommand, Activate, StartFailover, MarkFailedOver, StartFailback,
                  Close, Cancel, Transition
    <3>2. a \notin ScopeOf(e) \/ app' = app
      <4>1. ASSUME NEW target, Transition(e, target) PROVE a \notin ScopeOf(e)
        BY <4>1 DEF Transition, LegalTransition, ScopeOf, Terminal
      <4> QED
        BY <2>1, <4>1 DEF EventCommand, Activate, StartFailover, MarkFailedOver,
                          StartFailback, Close, Cancel
    <3>3. a \notin ScopeOf(e) => app'[a] = app[a]
      BY <2>0, <2>1 DEF EventCommand, Activate, StartFailover, MarkFailedOver, StartFailback,
                        Close, Cancel, MoveApps
    <3> QED
      BY <3>1, <3>2, <3>3 DEF Locked
  <2>2. ASSUME NEW p \in Txns, Begin(p)
        PROVE  app'[a] = app[a] /\ ~Locked(a)'
    <3>1. app' = app /\ \A q \in Txns : q # p => txn'[q] = txn[q]
      BY <2>0, <2>2 DEF Begin, BeginCreateEvent, LoadVisibleApplication, LoadApplication
    <3>2. txn'[p] \in AppTxn => txn'[p].app # a
      BY <2>0, <2>2 DEF Begin, BeginCreateEvent, LoadVisibleApplication, LoadApplication,
                        AppTxn
    <3> QED
      BY <3>1, <3>2 DEF Locked
  <2>3. ASSUME NEW p \in Txns, Finish(p)
        PROVE  app'[a] = app[a] /\ ~Locked(a)'
    <3>1. txn' = [txn EXCEPT ![p] = None] /\ None \notin AppTxn
      BY <2>3, NoneAssumption
         DEF Finish, CommitCreateEvent, SubmitValidation, Approve, Reject, Abort,
             FinishApplication, NoneAssumption
    <3>2. ~Locked(a)'
      BY <2>0, <3>1 DEF Locked
    <3>3. \/ app' = app
          \/ txn[p] \in AppTxn /\ \E row : app' = [app EXCEPT ![txn[p].app] = row]
      <4>1. ASSUME NEW phase \in Phases, NEW unfinished \in BOOLEAN, NEW reason \in BOOLEAN,
                   SubmitValidation(p, phase, unfinished, reason)
            PROVE  txn[p] \in AppTxn /\ \E row : app' = [app EXCEPT ![txn[p].app] = row]
        BY <4>1, Zenon DEF SubmitValidation, FinishApplication
      <4>2. ASSUME Approve(p) \/ Reject(p)
            PROVE  txn[p] \in AppTxn /\ \E row : app' = [app EXCEPT ![txn[p].app] = row]
        BY <4>2, Zenon DEF Approve, Reject, FinishApplication
      <4>3. ASSUME CommitCreateEvent(p) \/ Abort(p) PROVE app' = app
        BY <4>3 DEF CommitCreateEvent, Abort
      <4> QED
        BY <2>3, <4>1, <4>2, <4>3 DEF Finish
    <3> QED
      BY <2>0, <3>2, <3>3 DEF Locked
  <2> QED
    BY <2>1, <2>2, <2>3 DEF Next
<1> QED
  BY <1>1, EventInvariant, PTL DEF Spec, EndedEventsRest

\* A parent Event is CLOSED only after its children, and while none is being
\* created under it: close holds the row that a creation needs a share of.
THEOREM ParentLast == Spec => ParentClosesLast
<1> DEFINE Last == \A e \in Events : event[e].status # "CLOSED" /\ event'[e].status = "CLOSED" =>
             /\ \A c \in Children(e) : event[c].status \in Terminal
             /\ \A p \in Txns : txn[p] \in CreateTxn => txn[p].parent # e
<1>1. EventInv /\ [Next]_vars => [Last]_vars
  <2> SUFFICES ASSUME EventInv, Next, NEW e \in Events,
                      event[e].status # "CLOSED", event'[e].status = "CLOSED"
               PROVE  /\ \A c \in Children(e) : event[c].status \in Terminal
                      /\ \A p \in Txns : txn[p] \in CreateTxn => txn[p].parent # e
    OBVIOUS
  <2>0. event \in [Events -> EventRow]
    BY Rows
  <2>1. ASSUME NEW d \in Events, NEW target, Transition(d, target), target # "CLOSED"
        PROVE  FALSE
    BY <2>0, <2>1 DEF Transition, EventRow
  <2>2. ASSUME NEW d \in Events, Cancel(d) PROVE FALSE
    BY <2>0, <2>2 DEF Cancel, EventRow
  <2>3. ASSUME NEW p \in Txns, Begin(p) \/ Finish(p) PROVE FALSE
    <3>1. CASE CommitCreateEvent(p)
      BY <2>0, <3>1 DEF CommitCreateEvent
    <3>2. CASE event' = event
      BY <3>2
    <3> QED
      BY <2>3, <3>1, <3>2
         DEF Begin, Finish, BeginCreateEvent, LoadVisibleApplication, LoadApplication,
             SubmitValidation, Approve, Reject, Abort, FinishApplication
  <2>4. PICK d \in Events : \E monitoring, exception \in BOOLEAN : Close(d, monitoring, exception)
    BY <2>1, <2>2, <2>3
       DEF Next, EventCommand, Activate, StartFailover, MarkFailedOver, StartFailback
  <2>5. Transition(d, "CLOSED") /\ \A c \in Children(d) : event[c].status \in Terminal
    BY <2>4 DEF Close
  <2>6. d = e
    BY <2>0, <2>5 DEF Transition
  <2> QED
    BY <2>5, <2>6 DEF Transition, LoadForUpdate
<1> QED
  BY <1>1, EventInvariant, PTL DEF Spec, ParentClosesLast
================================================================================
