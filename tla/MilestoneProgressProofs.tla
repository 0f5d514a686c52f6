------------------------ MODULE MilestoneProgressProofs ------------------------
(***************************************************************************)
(* The transactions on Tasks and Milestones implement MilestoneDerivation, *)
(* for any number of them: whatever they interleave, each commit is one    *)
(* step of the abstract specification.  The invariant says what protects a *)
(* transaction's flushed rows until then: the row locks it holds, and for  *)
(* a Milestone being created the KEY SHARE locks on its contributors.      *)
(* Nor do they wait for one another in a circle: what a transaction holds  *)
(* comes before what it has still to lock.                                 *)
(***************************************************************************)
EXTENDS MilestoneProgress, FiniteSetTheorems, TLAPS

ToDo(p) == {txn[p].todo[i] : i \in 1 .. Len(txn[p].todo)}
Wrote(p) == DOMAIN txn[p].write \cap Milestones
Named(p) == ToDo(p) \cup Wrote(p)

Exists(m) == milestone[m] # "ABSENT"

Transaction ==
  [op : {"NONE", "TASK", "SWEEP", "CONFIRM", "CREATE"}, todo : Seq(Milestones),
   insert : SUBSET Tasks,
   write : UNION {[S -> D!TaskStatus \cup MilestoneStatus] : S \in SUBSET (Tasks \cup Milestones)}]

ProgressType ==
  /\ task \in [Tasks -> D!TaskStatus]
  /\ milestone \in [Milestones -> MilestoneState]
  /\ taskLock \in [Tasks -> Txns \cup {NoTxn}]
  /\ keyShare \in [Tasks -> SUBSET Txns]
  /\ milestoneLock \in [Milestones -> Txns \cup {NoTxn}]
  /\ txn \in [Txns -> Transaction]

\* What each kind of transaction has under its hands, step by step.
IdleOK(p) == txn[p].op = "NONE" => txn[p] = Idle

TaskOK(p) ==
  IF txn[p].op = "TASK"
  THEN /\ \E t \in Tasks : t \in DOMAIN txn[p].write
       /\ \A t \in Tasks : t \in DOMAIN txn[p].write =>
            /\ taskLock[t] = p
            /\ <<task[t], txn[p].write[t]>> \in D!LegalMoves
            /\ \A u \in Tasks : u \in DOMAIN txn[p].write => u = t
            /\ \A m \in Milestones : m \in Named(p) <=> Exists(m) /\ t \in Contributors[m]
  ELSE \A t \in Tasks : t \notin DOMAIN txn[p].write

OthersOK(p) ==
  /\ txn[p].op # "CREATE" => txn[p].insert = {} /\ \A m \in Named(p) : Exists(m)
  /\ txn[p].op = "SWEEP" => Named(p) \subseteq Timed
  /\ txn[p].op \in {"CONFIRM", "CREATE"} => \E m \in Milestones : Named(p) = {m}

CreateOK(p) ==
  txn[p].op = "CREATE" =>
    /\ graphLock = p
    /\ \A m \in Named(p) :
         /\ ~Exists(m) /\ milestoneLock[m] = p
         /\ \A t \in Contributors[m] : t \in txn[p].insert \/ p \in keyShare[t]
    /\ Wrote(p) # {} => txn[p].insert = {}

\* What is flushed is what the command would write now, and nobody else can
\* change what it is computed from.
WroteOK(p) ==
  \A m \in Wrote(p) :
    /\ milestoneLock[m] = p
    /\ \E allowed \in BOOLEAN : txn[p].write[m] = Outcome(p, m, allowed)

TxnOK(p) == IdleOK(p) /\ TaskOK(p) /\ OthersOK(p) /\ CreateOK(p) /\ WroteOK(p)

ProgressInv ==
  /\ ProgressType
  /\ \A t \in Tasks : taskLock[t] # NoTxn => keyShare[t] = {}
  /\ \A p \in Txns, t \in Tasks : p \in keyShare[t] => txn[p].op = "CREATE"
  /\ \A p \in Txns : TxnOK(p)

-----------------------------------------------------------------------------
(* The order of ids *)

LEMMA IdsAreNumbers ==
  ASSUME NEW ms \in SUBSET Milestones
  PROVE  IsFiniteSet(ms) /\ \A m \in ms : m \in Nat
BY FS_Subset, ProgressAssumption

LEMMA Ranks ==
  ASSUME NEW ms \in SUBSET Milestones, NEW m \in ms
  PROVE  Rank(ms, m) \in 1 .. Cardinality(ms)
<1> DEFINE upTo == {k \in ms : k <= m}
<1>1. IsFiniteSet(ms) /\ upTo \in SUBSET ms /\ m \in upTo
  BY IdsAreNumbers
<1> HIDE DEF upTo
<1>2. IsFiniteSet(upTo) /\ Cardinality(upTo) <= Cardinality(ms)
  BY <1>1, FS_Subset
<1>3. Cardinality(upTo) \in Nat /\ Cardinality(ms) \in Nat /\ Cardinality(upTo) # 0
  BY <1>1, <1>2, FS_CardinalityType, FS_EmptySet
<1>4. Cardinality(upTo) \in 1 .. Cardinality(ms)
  BY <1>2, <1>3
<1> QED
  BY <1>4 DEF Rank, upTo

LEMMA RanksGrow ==
  ASSUME NEW ms \in SUBSET Milestones, NEW x \in ms, NEW y \in ms, x < y
  PROVE  Rank(ms, x) < Rank(ms, y)
<1> DEFINE X == {k \in ms : k <= x}
           Y == {k \in ms : k <= y}
<1>1. IsFiniteSet(ms) /\ X \in SUBSET Y /\ Y \in SUBSET ms /\ X # Y
  BY IdsAreNumbers
<1> HIDE DEF X, Y
<1>2. IsFiniteSet(X) /\ IsFiniteSet(Y)
  BY <1>1, FS_Subset
<1>3. Cardinality(X) <= Cardinality(Y) /\ Cardinality(X) # Cardinality(Y)
  BY <1>1, <1>2, FS_Subset
<1>4. Cardinality(X) \in Nat /\ Cardinality(Y) \in Nat
  BY <1>2, FS_CardinalityType
<1>5. Cardinality(X) < Cardinality(Y)
  BY <1>3, <1>4
<1> QED
  BY <1>5 DEF X, Y, Rank

Increasing(s) == \A i, j \in 1 .. Len(s) : i < j => s[i] < s[j]

\* InIdOrder lists its Milestones, all of them and no others, in order.
LEMMA Listed ==
  ASSUME NEW ms \in SUBSET Milestones
  PROVE  /\ InIdOrder(ms) \in Seq(Milestones)
         /\ {InIdOrder(ms)[i] : i \in 1 .. Len(InIdOrder(ms))} = ms
         /\ Increasing(InIdOrder(ms))
<1> DEFINE rank == [m \in ms |-> Rank(ms, m)]
<1>1. PICK n \in Nat : n = Cardinality(ms)
  BY IdsAreNumbers, FS_CardinalityType
<1>2. \A m \in ms : Rank(ms, m) \in 1 .. n
  BY <1>1, Ranks
<1>3. ASSUME NEW x \in ms, NEW y \in ms, Rank(ms, x) = Rank(ms, y) PROVE x = y
  <2>1. Rank(ms, x) \in Nat /\ ~(x < y) /\ ~(y < x)
    BY <1>1, <1>2, <1>3, RanksGrow
  <2> QED
    BY <2>1, IdsAreNumbers
<1>4. rank \in Injection(ms, 1 .. n)
  BY <1>2, <1>3 DEF Injection, IsInjective
<1>5. IsFiniteSet(1 .. n) /\ Cardinality(1 .. n) = n
  BY FS_Interval
<1>6. rank \in Surjection(ms, 1 .. n)
  BY <1>1, <1>4, <1>5, FS_Injection
<1>7. \A i \in 1 .. n : \E m \in ms : Rank(ms, m) = i
  BY <1>6 DEF Surjection
<1>8. PICK s : s = InIdOrder(ms)
  OBVIOUS
<1>9. s = [i \in 1 .. n |-> CHOOSE m \in ms : Rank(ms, m) = i]
  BY <1>1, <1>8 DEF InIdOrder
<1>10. \A i \in 1 .. n : s[i] \in ms /\ Rank(ms, s[i]) = i
  BY <1>7, <1>9
<1>11. \A m \in ms : s[Rank(ms, m)] = m /\ Rank(ms, m) \in 1 .. n
  BY <1>2, <1>3, <1>10
<1>12. s \in [1 .. n -> Milestones]
  BY <1>9, <1>10
<1>13. s \in Seq(Milestones) /\ Len(s) = n
  BY <1>12
<1>14. {s[i] : i \in 1 .. n} = ms
  BY <1>10, <1>11
<1>15. ASSUME NEW i \in 1 .. n, NEW j \in 1 .. n, i < j PROVE s[i] < s[j]
  <2>1. s[i] \in ms /\ s[j] \in ms /\ Rank(ms, s[i]) = i /\ Rank(ms, s[j]) = j
    BY <1>10
  <2>2. s[i] \in Nat /\ s[j] \in Nat /\ s[i] # s[j]
    BY <2>1, <1>15, IdsAreNumbers
  <2>3. ~(s[j] < s[i])
    BY <2>1, <1>15, RanksGrow
  <2> QED
    BY <2>2, <2>3
<1>16. Increasing(s)
  BY <1>13, <1>15 DEF Increasing
<1> QED
  BY <1>8, <1>13, <1>14, <1>16

-----------------------------------------------------------------------------
(* What a Milestone becomes *)

\* `recompute` looks at the contributors only.
LEMMA RecomputeLocal ==
  ASSUME NEW current, NEW automatic, NEW allowed, NEW f, NEW g, NEW C, NEW R,
         R \subseteq C, \A t \in C : f[t] = g[t]
  PROVE  Recompute(current, automatic, allowed, f, C, R) = Recompute(current, automatic, allowed, g, C, R)
<1>1. Target(f, C, R) = Target(g, C, R)
  BY DEF Target
<1> QED
  BY <1>1 DEF Recompute, DeriveTarget

LEMMA RecomputeStatus ==
  ASSUME NEW current \in MilestoneStatus, NEW automatic, NEW allowed, NEW f, NEW C, NEW R
  PROVE  Recompute(current, automatic, allowed, f, C, R) \in MilestoneStatus
<1>1. Target(f, C, R) \in MilestoneStatus
  BY DEF Target, MilestoneStatus
<1>2. DeriveTarget(current, f, C, R) \in MilestoneStatus
  BY <1>1 DEF DeriveTarget
<1> QED
  BY <1>2 DEF Recompute, MilestoneStatus

\* Where the policy has a say.
LEMMA RecomputeAllowed ==
  ASSUME NEW current, NEW automatic \in BOOLEAN, NEW a \in BOOLEAN, NEW b \in BOOLEAN,
         NEW f, NEW C, NEW R, automatic => (a <=> b)
  PROVE  Recompute(current, automatic, a, f, C, R) = Recompute(current, automatic, b, f, C, R)
BY DEF Recompute

LEMMA WriteFacts ==
  ASSUME ProgressType, NEW p \in Txns
  PROVE  /\ DOMAIN txn[p].write \subseteq Tasks \cup Milestones
         /\ ToDo(p) \subseteq Milestones
         /\ \A t \in Tasks : t \notin Milestones
         /\ txn[p] \in Transaction
<1>1. txn[p] \in Transaction
  BY DEF ProgressType
<1>2. PICK S \in SUBSET (Tasks \cup Milestones) :
        txn[p].write \in [S -> D!TaskStatus \cup MilestoneStatus]
  BY <1>1 DEF Transaction
<1>3. DOMAIN txn[p].write = S
  BY <1>2
<1>4. ToDo(p) \subseteq Milestones
  BY <1>1 DEF ToDo, Transaction
<1> QED
  BY <1>1, <1>3, <1>4, ProgressAssumption

LEMMA OutcomeStatus ==
  ASSUME ProgressInv, NEW p \in Txns, NEW m \in Named(p), NEW allowed \in BOOLEAN
  PROVE  m \in Milestones /\ Outcome(p, m, allowed) \in MilestoneStatus
<1>1. m \in Milestones
  BY WriteFacts DEF ProgressInv, Named, Wrote
<1>2. PICK current \in MilestoneStatus :
        current = IF txn[p].op = "CREATE" THEN "NOT_STARTED" ELSE milestone[m]
  BY <1>1 DEF ProgressInv, ProgressType, TxnOK, OthersOK, Exists, MilestoneState, MilestoneStatus
<1>3. \A c \in MilestoneStatus :
        Recompute(c, m \in Automatic, allowed, TaskSeen(p), Contributors[m], Required[m]) \in MilestoneStatus
  BY RecomputeStatus
<1>4. "MISSED" \in MilestoneStatus /\ "ACHIEVED" \in MilestoneStatus
  BY DEF MilestoneStatus
<1> QED
  BY <1>1, <1>2, <1>3, <1>4 DEF Outcome

\* What others do to q's part of the state: nothing q relies on.
LocksKept(q) ==
  /\ txn'[q] = txn[q]
  /\ \A t \in Tasks : taskLock[t] = q => taskLock'[t] = q
  /\ \A t \in Tasks : q \in keyShare[t] => q \in keyShare'[t]
  /\ \A m \in Named(q) : milestoneLock[m] = q => milestoneLock'[m] = q
  /\ graphLock = q => graphLock' = q

RowsKept(q) ==
  /\ \A t \in Tasks : taskLock[t] = q => task'[t] = task[t]
  /\ \A m \in Named(q) : milestoneLock[m] = q => milestone'[m] = milestone[m]
  /\ \A m \in Milestones : Exists(m) => Exists(m)'
  /\ \A m \in Milestones, t \in Tasks :
       t \in Contributors[m] /\ taskLock[t] = q /\ ~Exists(m) => ~Exists(m)'
  /\ \A m \in Wrote(q) : \A t \in Contributors[m] : task'[t] = task[t]

Undisturbed(q) == LocksKept(q) /\ RowsKept(q)

LEMMA Aside ==
  ASSUME ProgressInv, NEW q \in Txns, Undisturbed(q)
  PROVE  TxnOK(q)'
<1>1. /\ txn'[q] = txn[q] /\ ToDo(q)' = ToDo(q) /\ Wrote(q)' = Wrote(q) /\ Named(q)' = Named(q)
      /\ Named(q) \subseteq Milestones /\ TxnOK(q)
  BY WriteFacts DEF Undisturbed, LocksKept, RowsKept, ToDo, Wrote, Named, ProgressInv
<1>2. IdleOK(q)'
  BY <1>1 DEF TxnOK, IdleOK
<1>3. TaskOK(q)'
  <2>1. CASE txn[q].op # "TASK"
    BY <2>1, <1>1 DEF TxnOK, TaskOK
  <2>2. CASE txn[q].op = "TASK"
    <3>1. PICK t \in Tasks : t \in DOMAIN txn[q].write
      BY <2>2, <1>1 DEF TxnOK, TaskOK
    <3>2. /\ taskLock[t] = q /\ <<task[t], txn[q].write[t]>> \in D!LegalMoves
          /\ \A u \in Tasks : u \in DOMAIN txn[q].write => u = t
          /\ \A m \in Milestones : m \in Named(q) <=> Exists(m) /\ t \in Contributors[m]
      BY <2>2, <3>1, <1>1 DEF TxnOK, TaskOK
    <3>3. taskLock'[t] = q /\ task'[t] = task[t]
      BY <3>2 DEF Undisturbed, LocksKept, RowsKept
    <3>4. \A m \in Milestones : t \in Contributors[m] => (Exists(m) <=> Exists(m)')
      BY <3>2 DEF Undisturbed, LocksKept, RowsKept
    <3> QED
      BY <2>2, <3>1, <3>2, <3>3, <3>4, <1>1 DEF TaskOK
  <2> QED
    BY <2>1, <2>2
<1>4. OthersOK(q)'
  BY <1>1 DEF TxnOK, OthersOK, Undisturbed, LocksKept, RowsKept
<1>5. CreateOK(q)'
  <2> SUFFICES ASSUME txn[q].op = "CREATE" PROVE CreateOK(q)'
    BY <1>1 DEF CreateOK
  <2>1. graphLock' = q /\ (Wrote(q)' # {} => txn'[q].insert = {})
    BY <1>1 DEF TxnOK, CreateOK, Undisturbed, LocksKept, RowsKept
  <2>2. ASSUME NEW m \in Named(q)
        PROVE  /\ ~Exists(m)' /\ milestoneLock'[m] = q
               /\ \A t \in Contributors[m] : t \in txn'[q].insert \/ q \in keyShare'[t]
    <3>1. /\ ~Exists(m) /\ milestoneLock[m] = q /\ m \in Milestones
          /\ \A t \in Contributors[m] : t \in txn[q].insert \/ q \in keyShare[t]
      BY <1>1 DEF TxnOK, CreateOK
    <3>2. milestoneLock'[m] = q /\ milestone'[m] = milestone[m]
      BY <3>1 DEF Undisturbed, LocksKept, RowsKept
    <3>3. Contributors[m] \subseteq Tasks
      BY <3>1, ProgressAssumption
    <3> QED
      BY <3>1, <3>2, <3>3, <1>1 DEF Undisturbed, LocksKept, RowsKept, Exists
  <2> QED
    BY <2>1, <2>2, <1>1 DEF CreateOK
<1>6. WroteOK(q)'
  <2> SUFFICES ASSUME NEW m \in Wrote(q)
               PROVE  /\ milestoneLock'[m] = q
                      /\ \E allowed \in BOOLEAN : txn'[q].write[m] = Outcome(q, m, allowed)'
    BY <1>1 DEF WroteOK
  <2>1. m \in Named(q) /\ m \in Milestones /\ milestoneLock[m] = q
    BY <1>1 DEF TxnOK, WroteOK, Named
  <2>2. milestoneLock'[m] = q /\ milestone'[m] = milestone[m]
    BY <2>1 DEF Undisturbed, LocksKept, RowsKept
  <2>3. PICK allowed \in BOOLEAN : txn[q].write[m] = Outcome(q, m, allowed)
    BY <1>1 DEF TxnOK, WroteOK
  <2>4. Contributors[m] \subseteq Tasks /\ Required[m] \subseteq Contributors[m]
    BY <2>1, ProgressAssumption
  <2>5. PICK f, g : f = TaskSeen(q) /\ g = TaskSeen(q)'
    OBVIOUS
  <2>6. \A t \in Contributors[m] : f[t] = g[t]
    BY <2>4, <2>5, <1>1 DEF TaskSeen, Written, Undisturbed, LocksKept, RowsKept
  <2>7. \A c : Recompute(c, m \in Automatic, allowed, f, Contributors[m], Required[m])
                = Recompute(c, m \in Automatic, allowed, g, Contributors[m], Required[m])
    BY <2>4, <2>6, RecomputeLocal
  <2>8. Outcome(q, m, allowed)' = Outcome(q, m, allowed)
    BY <2>2, <2>5, <2>7, <1>1 DEF Outcome
  <2> QED
    BY <2>2, <2>3, <2>8, <1>1
<1> QED
  BY <1>2, <1>3, <1>4, <1>5, <1>6 DEF TxnOK

LEMMA OneStep ==
  ASSUME ProgressInv, NEW p \in Txns, ProgressType', TxnOK(p)',
         \A q \in Txns \ {p} : Undisturbed(q),
         \A t \in Tasks : taskLock'[t] # NoTxn => keyShare'[t] = {},
         \A r \in Txns, t \in Tasks : r \in keyShare'[t] => txn'[r].op = "CREATE"
  PROVE  ProgressInv'
<1>1. ASSUME NEW q \in Txns PROVE TxnOK(q)'
  <2>1. CASE q = p
    <3>1. PICK r \in Txns : r = p /\ r = q
      BY <2>1
    <3> QED
      BY <2>1
  <2>2. CASE q # p
    BY <2>2, Aside
  <2> QED
    BY <2>1, <2>2
<1> QED
  BY <1>1 DEF ProgressInv

LEMMA RowsUntouched ==
  ASSUME ProgressInv, NEW q \in Txns, UNCHANGED <<task, milestone>>
  PROVE  RowsKept(q)
BY DEF RowsKept, Exists

LEMMA BeginFacts ==
  ASSUME ProgressInv, NEW p \in Txns,
         NEW op \in {"TASK", "SWEEP", "CONFIRM", "CREATE"}, NEW todo \in Seq(Milestones),
         NEW insert \in SUBSET Tasks, NEW S \in SUBSET (Tasks \cup Milestones),
         NEW write \in [S -> D!TaskStatus \cup MilestoneStatus],
         Begin(p, op, todo, insert, write)
  PROVE  /\ txn' \in [Txns -> Transaction]
         /\ txn'[p] = [op |-> op, todo |-> todo, insert |-> insert, write |-> write]
         /\ \A q \in Txns \ {p} : txn'[q] = txn[q]
         /\ \A t \in Tasks : p \notin keyShare[t]
<1>1. PICK b : b = [op |-> op, todo |-> todo, insert |-> insert, write |-> write]
  OBVIOUS
<1>2. b \in Transaction
  BY <1>1 DEF Transaction
<1>3. txn' = [txn EXCEPT ![p] = b] /\ txn \in [Txns -> Transaction] /\ txn[p].op = "NONE"
  BY <1>1 DEF Begin, Idle, ProgressInv, ProgressType
<1>4. \A t \in Tasks : p \notin keyShare[t]
  BY <1>3 DEF ProgressInv
<1> QED
  BY <1>1, <1>2, <1>3, <1>4

LEMMA NoWrite == <<>> \in [{} -> D!TaskStatus \cup MilestoneStatus] /\ DOMAIN <<>> = {}
OBVIOUS

LEMMA StepTaskCommand ==
  ASSUME ProgressInv, NEW p \in Txns, NEW t \in Tasks, NEW status \in D!TaskStatus,
         TaskCommand(p, t, status)
  PROVE  ProgressInv'
<1> DEFINE ms == {m \in Milestones : milestone[m] # "ABSENT" /\ t \in Contributors[m]}
           w == [x \in {t} |-> status]
<1>1. PICK todo : todo = InIdOrder(ms)
  OBVIOUS
<1>2. todo \in Seq(Milestones) /\ {todo[i] : i \in 1 .. Len(todo)} = ms
  <2>1. ms \in SUBSET Milestones
    OBVIOUS
  <2> HIDE DEF ms
  <2> QED
    BY <2>1, <1>1, Listed
<1>3. /\ taskLock[t] = NoTxn /\ keyShare[t] \subseteq {p}
      /\ <<task[t], status>> \in D!LegalMoves
      /\ Begin(p, "TASK", todo, {}, w)
      /\ taskLock' = [taskLock EXCEPT ![t] = p]
      /\ UNCHANGED <<task, milestone, keyShare, milestoneLock, graphLock>>
  BY <1>1 DEF TaskCommand
<1>4. w \in [{t} -> D!TaskStatus \cup MilestoneStatus] /\ {t} \in SUBSET (Tasks \cup Milestones)
  OBVIOUS
<1>5. /\ txn' \in [Txns -> Transaction]
      /\ txn'[p] = [op |-> "TASK", todo |-> todo, insert |-> {}, write |-> w]
      /\ \A q \in Txns \ {p} : txn'[q] = txn[q]
      /\ \A u \in Tasks : p \notin keyShare[u]
  <2> HIDE DEF w
  <2> QED
    BY <1>2, <1>3, <1>4, BeginFacts
<1>6. t \notin Milestones
  BY ProgressAssumption
<1>7. ToDo(p)' = ms /\ Wrote(p)' = {} /\ Named(p)' = ms
  BY <1>2, <1>5, <1>6 DEF ToDo, Wrote, Named
<1>8. ProgressType'
  BY <1>3, <1>5 DEF ProgressInv, ProgressType
<1>9. TxnOK(p)'
  <2>1. IdleOK(p)' /\ OthersOK(p)' /\ CreateOK(p)' /\ WroteOK(p)'
    BY <1>3, <1>5, <1>7 DEF IdleOK, OthersOK, CreateOK, WroteOK, Exists
  <2>2. TaskOK(p)'
    <3>1. DOMAIN txn'[p].write = {t} /\ txn'[p].write[t] = status
      BY <1>5
    <3>2. taskLock'[t] = p
      BY <1>3 DEF ProgressInv, ProgressType
    <3>3. \A m \in Milestones : m \in Named(p)' <=> Exists(m)' /\ t \in Contributors[m]
      BY <1>3, <1>7 DEF Exists
    <3> QED
      BY <1>3, <1>5, <3>1, <3>2, <3>3 DEF TaskOK
  <2> QED
    BY <2>1, <2>2 DEF TxnOK
<1>10. ASSUME NEW q \in Txns \ {p} PROVE Undisturbed(q)
  BY <1>3, <1>5, RowsUntouched, ProgressAssumption
     DEF Undisturbed, LocksKept, ProgressInv, ProgressType
<1>11. \A u \in Tasks : taskLock'[u] # NoTxn => keyShare'[u] = {}
  BY <1>3, <1>5 DEF ProgressInv, ProgressType
<1>12. \A r \in Txns, u \in Tasks : r \in keyShare'[u] => txn'[r].op = "CREATE"
  BY <1>3, <1>5 DEF ProgressInv
<1> QED
  BY <1>8, <1>9, <1>10, <1>11, <1>12, OneStep

LEMMA StepSweep ==
  ASSUME ProgressInv, NEW p \in Txns, NEW overdue \in SUBSET Timed, Sweep(p, overdue)
  PROVE  ProgressInv'
<1>1. PICK todo : todo = InIdOrder(overdue)
  OBVIOUS
<1>2. todo \in Seq(Milestones) /\ {todo[i] : i \in 1 .. Len(todo)} = overdue
  <2>1. overdue \in SUBSET Milestones
    BY ProgressAssumption
  <2> QED
    BY <2>1, <1>1, Listed
<1>3. /\ \A m \in overdue : D!Live(m)
      /\ Begin(p, "SWEEP", todo, {}, <<>>)
      /\ UNCHANGED <<task, milestone, taskLock, keyShare, milestoneLock, graphLock>>
  BY <1>1 DEF Sweep
<1>4. /\ txn' \in [Txns -> Transaction]
      /\ txn'[p] = [op |-> "SWEEP", todo |-> todo, insert |-> {}, write |-> <<>>]
      /\ \A q \in Txns \ {p} : txn'[q] = txn[q]
      /\ \A u \in Tasks : p \notin keyShare[u]
  BY <1>2, <1>3, BeginFacts, NoWrite
<1>5. ToDo(p)' = overdue /\ Wrote(p)' = {} /\ Named(p)' = overdue /\ DOMAIN txn'[p].write = {}
  BY <1>2, <1>4 DEF ToDo, Wrote, Named
<1>6. ProgressType'
  BY <1>3, <1>4 DEF ProgressInv, ProgressType
<1>7. TxnOK(p)'
  <2>1. \A m \in overdue : Exists(m)'
    BY <1>3 DEF D!Live, Exists
  <2> QED
    BY <1>4, <1>5, <2>1 DEF TxnOK, IdleOK, TaskOK, OthersOK, CreateOK, WroteOK
<1>8. ASSUME NEW q \in Txns \ {p} PROVE Undisturbed(q)
  BY <1>3, <1>4, RowsUntouched DEF Undisturbed, LocksKept
<1> QED
  BY <1>3, <1>4, <1>6, <1>7, <1>8, OneStep DEF ProgressInv

LEMMA StepConfirm ==
  ASSUME ProgressInv, NEW p \in Txns, NEW m \in Milestones, Confirm(p, m)
  PROVE  ProgressInv'
<1>1. PICK todo : todo = <<m>>
  OBVIOUS
<1>2. todo \in Seq(Milestones) /\ {todo[i] : i \in 1 .. Len(todo)} = {m}
  BY <1>1
<1>3. /\ milestone[m] # "ABSENT"
      /\ Begin(p, "CONFIRM", todo, {}, <<>>)
      /\ UNCHANGED <<task, milestone, taskLock, keyShare, milestoneLock, graphLock>>
  BY <1>1 DEF Confirm
<1>4. /\ txn' \in [Txns -> Transaction]
      /\ txn'[p] = [op |-> "CONFIRM", todo |-> todo, insert |-> {}, write |-> <<>>]
      /\ \A q \in Txns \ {p} : txn'[q] = txn[q]
      /\ \A u \in Tasks : p \notin keyShare[u]
  BY <1>2, <1>3, BeginFacts, NoWrite
<1>5. ToDo(p)' = {m} /\ Wrote(p)' = {} /\ Named(p)' = {m} /\ DOMAIN txn'[p].write = {}
  <2>1. PICK ms : ms = {m} /\ {todo[i] : i \in 1 .. Len(todo)} = ms
    BY <1>2
  <2>2. txn'[p].todo = todo /\ txn'[p].write = <<>>
    BY <1>4
  <2>3. DOMAIN txn'[p].write = {} /\ Wrote(p)' = {}
    BY <2>2, NoWrite DEF Wrote
  <2>4. ToDo(p)' = ms
    BY <2>1, <2>2 DEF ToDo
  <2>5. Named(p)' = ms
    BY <2>3, <2>4 DEF Named
  <2> QED
    BY <2>1, <2>3, <2>4, <2>5
<1>6. ProgressType'
  BY <1>3, <1>4 DEF ProgressInv, ProgressType
<1>7. TxnOK(p)'
  <2>1. Exists(m)'
    BY <1>3 DEF Exists
  <2> QED
    BY <1>4, <1>5, <2>1 DEF TxnOK, IdleOK, TaskOK, OthersOK, CreateOK, WroteOK
<1>8. ASSUME NEW q \in Txns \ {p} PROVE Undisturbed(q)
  BY <1>3, <1>4, RowsUntouched DEF Undisturbed, LocksKept
<1> QED
  BY <1>3, <1>4, <1>6, <1>7, <1>8, OneStep DEF ProgressInv

LEMMA StepCreate ==
  ASSUME ProgressInv, NEW p \in Txns, NEW m \in Milestones, Create(p, m)
  PROVE  ProgressInv'
<1>1. PICK todo, refs : todo = <<m>> /\ refs = Contributors[m] \cup Gated[m]
  OBVIOUS
<1>2. todo \in Seq(Milestones) /\ {todo[i] : i \in 1 .. Len(todo)} = {m}
  BY <1>1
<1>3. /\ milestone[m] = "ABSENT" /\ graphLock = NoTxn
      /\ Begin(p, "CREATE", todo, refs, <<>>)
      /\ graphLock' = p /\ milestoneLock' = [milestoneLock EXCEPT ![m] = p]
      /\ UNCHANGED <<task, milestone, taskLock, keyShare>>
  BY <1>1 DEF Create
<1>4. refs \in SUBSET Tasks /\ Contributors[m] \subseteq refs
  BY <1>1, ProgressAssumption
<1>5. /\ txn' \in [Txns -> Transaction]
      /\ txn'[p] = [op |-> "CREATE", todo |-> todo, insert |-> refs, write |-> <<>>]
      /\ \A q \in Txns \ {p} : txn'[q] = txn[q]
      /\ \A u \in Tasks : p \notin keyShare[u]
  BY <1>2, <1>3, <1>4, BeginFacts, NoWrite
<1>6. ToDo(p)' = {m} /\ Wrote(p)' = {} /\ Named(p)' = {m} /\ DOMAIN txn'[p].write = {}
  <2>1. PICK ms : ms = {m} /\ {todo[i] : i \in 1 .. Len(todo)} = ms
    BY <1>2
  <2>2. txn'[p].todo = todo /\ txn'[p].write = <<>>
    BY <1>5
  <2>3. DOMAIN txn'[p].write = {} /\ Wrote(p)' = {}
    BY <2>2, NoWrite DEF Wrote
  <2>4. ToDo(p)' = ms
    BY <2>1, <2>2 DEF ToDo
  <2>5. Named(p)' = ms
    BY <2>3, <2>4 DEF Named
  <2> QED
    BY <2>1, <2>3, <2>4, <2>5
<1>7. ProgressType'
  BY <1>3, <1>5 DEF ProgressInv, ProgressType
<1>8. TxnOK(p)'
  <2>1. ~Exists(m)' /\ milestoneLock'[m] = p
    BY <1>3 DEF Exists, ProgressInv, ProgressType
  <2> QED
    BY <1>3, <1>4, <1>5, <1>6, <2>1 DEF TxnOK, IdleOK, TaskOK, OthersOK, CreateOK, WroteOK
<1>9. ASSUME NEW q \in Txns \ {p} PROVE Undisturbed(q)
  <2>1. ASSUME NEW k \in Named(q), milestoneLock[k] = q PROVE milestoneLock'[k] = q
    <3>1. k \in Milestones /\ q # NoTxn
      BY WriteFacts, ProgressAssumption DEF Named, Wrote, ProgressInv
    <3>2. k # m
      BY <1>3, <2>1, <3>1 DEF ProgressInv, TxnOK, OthersOK, CreateOK, Exists
    <3> QED
      BY <1>3, <2>1, <3>1, <3>2 DEF ProgressInv, ProgressType
  <2>2. graphLock # q
    BY <1>3, ProgressAssumption
  <2>3. RowsKept(q)
    BY <1>3, RowsUntouched
  <2> QED
    BY <1>3, <1>5, <2>1, <2>2, <2>3 DEF Undisturbed, LocksKept
<1> QED
  BY <1>3, <1>5, <1>7, <1>8, <1>9, OneStep DEF ProgressInv

LEMMA StepInsertReference ==
  ASSUME ProgressInv, NEW p \in Txns, NEW t \in Tasks, InsertReference(p, t)
  PROVE  ProgressInv'
<1>1. /\ t \in txn[p].insert /\ taskLock[t] = NoTxn
      /\ keyShare' = [keyShare EXCEPT ![t] = keyShare[t] \cup {p}]
      /\ UNCHANGED <<task, milestone, taskLock, milestoneLock, graphLock>>
  BY DEF InsertReference, ProgressInv, ProgressType
<1>2. txn[p] \in Transaction /\ TxnOK(p) /\ txn[p].op = "CREATE" /\ Wrote(p) = {}
  BY <1>1 DEF ProgressInv, ProgressType, TxnOK, OthersOK, CreateOK
<1>3. PICK b : b = [txn[p] EXCEPT !.insert = txn[p].insert \ {t}]
  OBVIOUS
<1>4. /\ b \in Transaction /\ b.op = txn[p].op /\ b.todo = txn[p].todo
      /\ b.write = txn[p].write /\ b.insert = txn[p].insert \ {t}
  BY <1>2, <1>3 DEF Transaction
<1>5. txn' = [txn EXCEPT ![p] = b] /\ txn'[p] = b /\ \A q \in Txns \ {p} : txn'[q] = txn[q]
  BY <1>3 DEF InsertReference, ProgressInv, ProgressType
<1>6. ToDo(p)' = ToDo(p) /\ Wrote(p)' = {} /\ Named(p)' = Named(p) /\ Named(p) \subseteq Milestones
  BY <1>2, <1>4, <1>5, WriteFacts DEF ToDo, Wrote, Named, ProgressInv
<1>7. ProgressType'
  BY <1>1, <1>4, <1>5 DEF ProgressInv, ProgressType
<1>8. TxnOK(p)'
  <2>1. \A m \in Milestones : Exists(m)' <=> Exists(m)
    BY <1>1 DEF Exists
  <2>2. ASSUME NEW m \in Named(p), NEW u \in Contributors[m]
        PROVE  u \in txn'[p].insert \/ p \in keyShare'[u]
    <3>1. u \in Tasks /\ (u \in txn[p].insert \/ p \in keyShare[u])
      BY <1>2, <1>6, ProgressAssumption DEF TxnOK, CreateOK
    <3> QED
      BY <3>1, <1>1, <1>4, <1>5 DEF ProgressInv, ProgressType
  <2>3. CreateOK(p)'
    BY <1>1, <1>2, <1>4, <1>5, <1>6, <2>1, <2>2 DEF TxnOK, CreateOK
  <2>4. IdleOK(p)' /\ TaskOK(p)' /\ OthersOK(p)' /\ WroteOK(p)'
    BY <1>2, <1>4, <1>5, <1>6 DEF TxnOK, IdleOK, TaskOK, OthersOK, WroteOK
  <2> QED
    BY <2>3, <2>4 DEF TxnOK
<1>9. ASSUME NEW q \in Txns \ {p} PROVE Undisturbed(q)
  BY <1>1, <1>5, RowsUntouched DEF Undisturbed, LocksKept, ProgressInv, ProgressType
<1>10. \A u \in Tasks : taskLock'[u] # NoTxn => keyShare'[u] = {}
  BY <1>1 DEF ProgressInv, ProgressType
<1>11. \A r \in Txns, u \in Tasks : r \in keyShare'[u] => txn'[r].op = "CREATE"
  BY <1>1, <1>2, <1>4, <1>5 DEF ProgressInv, ProgressType
<1> QED
  BY <1>7, <1>8, <1>9, <1>10, <1>11, OneStep

LEMMA StepLockMilestone ==
  ASSUME ProgressInv, NEW p \in Txns, LockMilestone(p)
  PROVE  ProgressInv'
<1>1. PICK m : m = Head(txn[p].todo)
  OBVIOUS
<1>2. /\ txn[p].todo # <<>> /\ milestoneLock[m] = NoTxn
      /\ milestoneLock' = [milestoneLock EXCEPT ![m] = p]
      /\ UNCHANGED <<task, milestone, taskLock, keyShare, graphLock, txn>>
  BY <1>1 DEF LockMilestone
<1>3. ProgressType'
  BY <1>2 DEF ProgressInv, ProgressType
<1>4. ASSUME NEW q \in Txns PROVE Undisturbed(q)
  <2>1. q # NoTxn /\ Named(q) \subseteq Milestones
    BY ProgressAssumption, WriteFacts DEF Named, Wrote, ProgressInv
  <2> QED
    BY <1>2, <2>1, RowsUntouched DEF Undisturbed, LocksKept, ProgressInv, ProgressType
<1>5. TxnOK(p)'
  BY <1>4, Aside
<1> QED
  BY <1>2, <1>3, <1>4, <1>5, OneStep DEF ProgressInv

LEMMA Take ==
  ASSUME NEW todo \in Seq(Milestones), todo # <<>>
  PROVE  /\ Head(todo) \in Milestones /\ Tail(todo) \in Seq(Milestones)
         /\ {todo[i] : i \in 1 .. Len(todo)} =
              {Head(todo)} \cup {Tail(todo)[i] : i \in 1 .. Len(Tail(todo))}
<1>1. Len(todo) \in Nat /\ Len(todo) >= 1 /\ Len(Tail(todo)) = Len(todo) - 1
  OBVIOUS
<1>2. \A i \in 1 .. Len(Tail(todo)) : Tail(todo)[i] = todo[i + 1]
  OBVIOUS
<1>3. \A i \in 2 .. Len(todo) : todo[i] = Tail(todo)[i - 1]
  OBVIOUS
<1>4. Head(todo) = todo[1] /\ Head(todo) \in Milestones /\ Tail(todo) \in Seq(Milestones)
  BY <1>1
<1>5. ASSUME NEW i \in 1 .. Len(todo)
      PROVE  todo[i] \in {Head(todo)} \cup {Tail(todo)[j] : j \in 1 .. Len(Tail(todo))}
  <2>1. CASE i = 1
    BY <2>1, <1>4
  <2>2. CASE i # 1
    <3>1. i \in 2 .. Len(todo) /\ i - 1 \in 1 .. Len(Tail(todo))
      BY <2>2, <1>1
    <3> QED
      BY <3>1, <1>3
  <2> QED
    BY <2>1, <2>2
<1>6. ASSUME NEW j \in 1 .. Len(Tail(todo)) PROVE Tail(todo)[j] \in {todo[i] : i \in 1 .. Len(todo)}
  <2>1. j + 1 \in 1 .. Len(todo)
    BY <1>1
  <2> QED
    BY <2>1, <1>2
<1>7. Head(todo) \in {todo[i] : i \in 1 .. Len(todo)}
  BY <1>1, <1>4
<1> QED
  BY <1>4, <1>5, <1>6, <1>7

LEMMA StepMoveMilestone ==
  ASSUME ProgressInv, NEW p \in Txns, MoveMilestone(p)
  PROVE  ProgressInv'
<1>1. PICK m, todo : m = Head(txn[p].todo) /\ todo = Tail(txn[p].todo)
  OBVIOUS
<1>2. txn[p].todo # <<>> /\ txn[p].insert = {} /\ milestoneLock[m] = p
      /\ UNCHANGED <<task, milestone, taskLock, keyShare, milestoneLock, graphLock>>
  BY <1>1 DEF MoveMilestone
<1>3. txn[p] \in Transaction /\ txn[p].todo \in Seq(Milestones) /\ TxnOK(p)
  BY DEF ProgressInv, ProgressType, Transaction
<1>4. m \in Milestones /\ todo \in Seq(Milestones) /\ m \in ToDo(p)
      /\ ToDo(p) = {m} \cup {todo[i] : i \in 1 .. Len(todo)}
  BY <1>1, <1>2, <1>3, Take DEF ToDo
<1>5. PICK allowed \in BOOLEAN :
        txn' = [txn EXCEPT ![p].todo = Tail(@), ![p].write = Flush(p, m, Outcome(p, m, allowed))]
  BY <1>1 DEF MoveMilestone
<1>6. PICK out : out = Outcome(p, m, allowed)
  OBVIOUS
<1>7. out \in MilestoneStatus
  BY <1>4, <1>6, OutcomeStatus DEF Named
<1>8. PICK write : write = Flush(p, m, out)
  OBVIOUS
<1>9. PICK b : b = [txn[p] EXCEPT !.todo = todo, !.write = write]
  OBVIOUS
<1>10. /\ DOMAIN write = {m} \cup DOMAIN txn[p].write /\ write[m] = out
       /\ \A x \in DOMAIN txn[p].write : x # m => write[x] = txn[p].write[x]
  BY <1>8 DEF Flush
<1>11. /\ b.op = txn[p].op /\ b.todo = todo /\ b.insert = {} /\ b.write = write
       /\ b \in Transaction
  <2>1. PICK S \in SUBSET (Tasks \cup Milestones) :
          txn[p].write \in [S -> D!TaskStatus \cup MilestoneStatus]
    BY <1>3 DEF Transaction
  <2>2. DOMAIN txn[p].write = S /\ \A x \in S : txn[p].write[x] \in D!TaskStatus \cup MilestoneStatus
    BY <2>1
  <2>3. write \in [{m} \cup S -> D!TaskStatus \cup MilestoneStatus]
    BY <2>2, <1>7, <1>8 DEF Flush
  <2>4. PICK W \in SUBSET (Tasks \cup Milestones) :
          write \in [W -> D!TaskStatus \cup MilestoneStatus]
    BY <1>4, <2>3
  <2>5. b.op = txn[p].op /\ b.todo = todo /\ b.insert = {} /\ b.write = write
    BY <1>2, <1>3, <1>9 DEF Transaction
  <2>6. b = [op |-> txn[p].op, todo |-> todo, insert |-> {}, write |-> write]
    BY <1>2, <1>3, <1>9 DEF Transaction
  <2>7. txn[p].op \in {"NONE", "TASK", "SWEEP", "CONFIRM", "CREATE"}
    BY <1>3 DEF Transaction
  <2>8. b \in Transaction
    BY <1>4, <2>4, <2>6, <2>7 DEF Transaction
  <2> QED
    BY <2>5, <2>8
<1>12. txn' = [txn EXCEPT ![p] = b] /\ txn'[p] = b /\ \A q \in Txns \ {p} : txn'[q] = txn[q]
  <2>1. txn \in [Txns -> Transaction]
    BY DEF ProgressInv, ProgressType
  <2>2. txn' = [txn EXCEPT ![p].todo = todo, ![p].write = write]
    BY <1>1, <1>5, <1>6, <1>8, <2>1
  <2> QED
    BY <1>3, <1>9, <2>1, <2>2 DEF Transaction
<1>13. ToDo(p)' \cup {m} = ToDo(p) /\ Wrote(p)' = Wrote(p) \cup {m} /\ Named(p)' = Named(p)
       /\ Named(p) \subseteq Milestones
  <2>1. ToDo(p)' \cup {m} = ToDo(p)
    <3>1. txn'[p].todo = todo
      BY <1>11, <1>12
    <3>2. ToDo(p)' = {todo[i] : i \in 1 .. Len(todo)}
      BY <3>1 DEF ToDo
    <3> QED
      BY <3>2, <1>4
  <2>2. Wrote(p)' = Wrote(p) \cup {m}
    BY <1>4, <1>10, <1>11, <1>12 DEF Wrote
  <2> QED
    BY <2>1, <2>2, WriteFacts DEF Named, Wrote, ProgressInv
<1>14. ProgressType'
  BY <1>2, <1>11, <1>12 DEF ProgressInv, ProgressType
<1>15. \A t \in Tasks : /\ t \in DOMAIN txn'[p].write <=> t \in DOMAIN txn[p].write
                        /\ t \in DOMAIN txn[p].write => txn'[p].write[t] = txn[p].write[t]
  BY <1>4, <1>10, <1>11, <1>12, WriteFacts DEF ProgressInv
<1>16. \A k \in Milestones : Exists(k)' <=> Exists(k)
  BY <1>2 DEF Exists
<1>17. TxnOK(p)'
  <2>1. IdleOK(p)'
    BY <1>2, <1>3, <1>11, <1>12 DEF TxnOK, IdleOK, Idle
  <2>2. TaskOK(p)'
    BY <1>2, <1>3, <1>11, <1>12, <1>13, <1>15, <1>16 DEF TxnOK, TaskOK
  <2>3. OthersOK(p)'
    BY <1>2, <1>3, <1>11, <1>12, <1>13, <1>16 DEF TxnOK, OthersOK
  <2>4. CreateOK(p)'
    BY <1>2, <1>3, <1>11, <1>12, <1>13, <1>16 DEF TxnOK, CreateOK
  <2>5. WroteOK(p)'
    <3> SUFFICES ASSUME NEW k \in Wrote(p) \cup {m}
                 PROVE  /\ milestoneLock'[k] = p
                        /\ \E a \in BOOLEAN : txn'[p].write[k] = Outcome(p, k, a)'
      BY <1>13 DEF WroteOK
    <3>1. TaskSeen(p)' = TaskSeen(p)
      <4>1. task' = task
        BY <1>2
      <4> QED
        BY <4>1, <1>15 DEF TaskSeen, Written
    <3>2. \A a \in BOOLEAN : Outcome(p, k, a)' = Outcome(p, k, a)
      BY <3>1, <1>2, <1>11, <1>12 DEF Outcome
    <3>3. CASE k = m
      BY <3>2, <3>3, <1>2, <1>6, <1>10, <1>11, <1>12
    <3>4. CASE k # m
      <4>1. k \in Wrote(p) /\ txn'[p].write[k] = txn[p].write[k]
        BY <3>4, <1>10, <1>11, <1>12 DEF Wrote
      <4> QED
        BY <4>1, <3>2, <1>2, <1>3 DEF TxnOK, WroteOK
    <3> QED
      BY <3>3, <3>4
  <2> QED
    BY <2>1, <2>2, <2>3, <2>4, <2>5 DEF TxnOK
<1>18. ASSUME NEW q \in Txns \ {p} PROVE Undisturbed(q)
  BY <1>2, <1>12, RowsUntouched DEF Undisturbed, LocksKept
<1>19. \A r \in Txns, u \in Tasks : r \in keyShare'[u] => txn'[r].op = "CREATE"
  BY <1>2, <1>11, <1>12 DEF ProgressInv
<1> QED
  BY <1>2, <1>14, <1>17, <1>18, <1>19, OneStep DEF ProgressInv

LEMMA FreeKeeps ==
  ASSUME ProgressInv, NEW p \in Txns, Free(p),
         task' \in [Tasks -> D!TaskStatus], milestone' \in [Milestones -> MilestoneState],
         \A q \in Txns \ {p} : RowsKept(q)
  PROVE  ProgressInv'
<1>1. \A q \in Txns : q # NoTxn
  BY ProgressAssumption
<1>2. Idle \in Transaction
  <2>1. <<>> \in Seq(Milestones)
    OBVIOUS
  <2>2. \E S \in SUBSET (Tasks \cup Milestones) : <<>> \in [S -> D!TaskStatus \cup MilestoneStatus]
    BY NoWrite
  <2> QED
    BY <2>1, <2>2 DEF Idle, Transaction
<1>3. txn' = [txn EXCEPT ![p] = Idle] /\ txn'[p] = Idle /\ \A q \in Txns \ {p} : txn'[q] = txn[q]
  BY DEF Free, ProgressInv, ProgressType
<1>4. ProgressType'
  BY <1>2, <1>3 DEF Free, ProgressInv, ProgressType
<1>5. TxnOK(p)'
  <2>1. txn'[p].op = "NONE" /\ txn'[p].todo = <<>> /\ txn'[p].write = <<>> /\ txn'[p].insert = {}
    BY <1>3 DEF Idle
  <2>2. Wrote(p)' = {} /\ ToDo(p)' = {} /\ Named(p)' = {} /\ DOMAIN txn'[p].write = {}
    BY <2>1, NoWrite DEF Wrote, ToDo, Named
  <2> QED
    BY <1>3, <2>1, <2>2 DEF TxnOK, IdleOK, TaskOK, OthersOK, CreateOK, WroteOK
<1>6. ASSUME NEW q \in Txns \ {p} PROVE Undisturbed(q)
  BY <1>1, <1>3, WriteFacts DEF Undisturbed, LocksKept, Free, ProgressInv, ProgressType, Named, Wrote
<1>7. \A t \in Tasks : taskLock'[t] # NoTxn => keyShare'[t] = {}
  BY DEF Free, ProgressInv
<1>8. \A r \in Txns, t \in Tasks : r \in keyShare'[t] => txn'[r].op = "CREATE"
  BY <1>3 DEF Free, ProgressInv
<1> QED
  BY <1>4, <1>5, <1>6, <1>7, <1>8, OneStep

\* What a commit publishes: the flushed rows, the others as they were.
LEMMA Published ==
  ASSUME ProgressInv, NEW p \in Txns, Commit(p)
  PROVE  /\ Free(p) /\ ToDo(p) = {} /\ Named(p) = Wrote(p) /\ txn[p].insert = {}
         /\ TxnOK(p) /\ txn[p].op # "NONE" /\ Wrote(p) \subseteq Milestones
         /\ task' = TaskSeen(p) /\ DOMAIN task' = Tasks /\ DOMAIN milestone' = Milestones
         /\ \A t \in Tasks : task'[t] = IF t \in DOMAIN txn[p].write THEN txn[p].write[t] ELSE task[t]
         /\ \A m \in Milestones : m \notin Wrote(p) => milestone'[m] = milestone[m]
         /\ \A m \in Wrote(p) :
              /\ milestone'[m] \in MilestoneStatus
              /\ \E allowed \in BOOLEAN : milestone'[m] = Outcome(p, m, allowed)
<1>1. /\ Free(p) /\ txn[p].op # "NONE" /\ txn[p].todo = <<>> /\ txn[p].insert = {}
      /\ task' = [t \in Tasks |-> IF t \in DOMAIN txn[p].write THEN txn[p].write[t] ELSE task[t]]
      /\ milestone' = [m \in Milestones |-> IF m \in DOMAIN txn[p].write THEN txn[p].write[m]
                                                                         ELSE milestone[m]]
      /\ task' = TaskSeen(p)
  BY DEF Commit, TaskSeen, Written
<1>2. ToDo(p) = {} /\ Named(p) = Wrote(p) /\ Wrote(p) \subseteq Milestones
  BY <1>1 DEF ToDo, Named, Wrote
<1>3. TxnOK(p)
  BY DEF ProgressInv
<1>4. ASSUME NEW m \in Wrote(p)
      PROVE  /\ milestone'[m] \in MilestoneStatus
             /\ \E allowed \in BOOLEAN : milestone'[m] = Outcome(p, m, allowed)
  <2>1. milestone'[m] = txn[p].write[m]
    BY <1>1 DEF Wrote
  <2>2. PICK allowed \in BOOLEAN : txn[p].write[m] = Outcome(p, m, allowed)
    BY <1>3 DEF TxnOK, WroteOK
  <2>3. Outcome(p, m, allowed) \in MilestoneStatus
    BY <1>2, OutcomeStatus
  <2> QED
    BY <2>1, <2>2, <2>3
<1>5. \A m \in Milestones : m \notin Wrote(p) => milestone'[m] = milestone[m]
  BY <1>1 DEF Wrote
<1> QED
  BY <1>1, <1>2, <1>3, <1>4, <1>5

LEMMA StepCommit ==
  ASSUME ProgressInv, NEW p \in Txns, Commit(p)
  PROVE  ProgressInv'
<1>1. /\ Free(p) /\ Named(p) = Wrote(p) /\ txn[p].insert = {} /\ TxnOK(p)
      /\ Wrote(p) \subseteq Milestones
      /\ DOMAIN task' = Tasks /\ DOMAIN milestone' = Milestones
      /\ \A t \in Tasks : task'[t] = IF t \in DOMAIN txn[p].write THEN txn[p].write[t] ELSE task[t]
      /\ \A m \in Milestones : m \notin Wrote(p) => milestone'[m] = milestone[m]
      /\ \A m \in Wrote(p) : milestone'[m] \in MilestoneStatus
  BY Published
<1>2. task' \in [Tasks -> D!TaskStatus]
  <2>1. task' = [t \in Tasks |-> task'[t]]
    BY DEF Commit, TaskSeen
  <2>2. ASSUME NEW t \in Tasks PROVE task'[t] \in D!TaskStatus
    <3>1. CASE t \in DOMAIN txn[p].write
      <4>1. <<task[t], txn[p].write[t]>> \in D!LegalMoves
        BY <1>1, <3>1 DEF TxnOK, TaskOK
      <4>2. \A x, y : <<x, y>> \in D!LegalMoves => y \in D!TaskStatus
        BY DEF D!LegalMoves, D!TaskStatus
      <4> QED
        BY <1>1, <3>1, <4>1, <4>2
    <3>2. CASE t \notin DOMAIN txn[p].write
      BY <1>1, <3>2 DEF ProgressInv, ProgressType
    <3> QED
      BY <3>1, <3>2
  <2> QED
    BY <2>1, <2>2
<1>3. milestone' \in [Milestones -> MilestoneState]
  <2>1. milestone' = [m \in Milestones |-> milestone'[m]]
    BY DEF Commit
  <2>2. \A m \in Milestones : milestone'[m] \in MilestoneState
    BY <1>1 DEF ProgressInv, ProgressType, MilestoneState
  <2> QED
    BY <2>1, <2>2
<1>4. ASSUME NEW q \in Txns \ {p} PROVE RowsKept(q)
  <2>1. TxnOK(q) /\ q # NoTxn /\ Wrote(q) \subseteq Named(q) /\ Named(q) \subseteq Milestones
    BY ProgressAssumption, WriteFacts DEF ProgressInv, Wrote, Named
  <2>2. \A t \in Tasks : t \in DOMAIN txn[p].write => taskLock[t] = p /\ txn[p].op = "TASK"
    BY <1>1 DEF TxnOK, TaskOK
  <2>3. \A m \in Wrote(p) : milestoneLock[m] = p
    BY <1>1 DEF TxnOK, WroteOK
  <2>4. \A m \in Milestones : Exists(m) => Exists(m)'
    BY <1>1 DEF Exists, MilestoneStatus
  <2>5. ASSUME NEW m \in Milestones, NEW t \in Tasks, t \in Contributors[m],
               taskLock[t] = q, ~Exists(m)
        PROVE  ~Exists(m)'
    <3>1. CASE m \in Wrote(p)
      <4>1. txn[p].op = "CREATE"
        BY <1>1, <2>5, <3>1 DEF TxnOK, OthersOK
      <4>2. p \in keyShare[t]
        BY <1>1, <2>5, <3>1, <4>1 DEF TxnOK, CreateOK
      <4> QED
        BY <2>1, <2>5, <4>2 DEF ProgressInv
    <3>2. CASE m \notin Wrote(p)
      BY <1>1, <2>5, <3>2 DEF Exists
    <3> QED
      BY <3>1, <3>2
  <2>6. ASSUME NEW m \in Wrote(q), NEW t \in Contributors[m] PROVE task'[t] = task[t]
    <3>1. t \in Tasks /\ m \in Milestones /\ milestoneLock[m] = q
      BY <2>1, ProgressAssumption DEF TxnOK, WroteOK
    <3>2. CASE t \in DOMAIN txn[p].write
      <4>1. txn[p].op = "TASK" /\ taskLock[t] = p
        BY <2>2, <3>1, <3>2
      <4>2. ~Exists(m)
        <5>1. m \notin Named(p)
          BY <1>1, <2>3, <3>1
        <5>2. \A k \in Milestones : k \in Named(p) <=> Exists(k) /\ t \in Contributors[k]
          BY <1>1, <3>1, <3>2, <4>1 DEF TxnOK, TaskOK
        <5> QED
          BY <3>1, <5>1, <5>2
      <4>3. txn[q].op = "CREATE" /\ txn[q].insert = {}
        BY <2>1, <4>2 DEF TxnOK, OthersOK, CreateOK
      <4>4. q \in keyShare[t]
        BY <2>1, <4>3 DEF TxnOK, CreateOK
      <4> QED
        BY <3>1, <4>1, <4>4, ProgressAssumption DEF ProgressInv
    <3>3. CASE t \notin DOMAIN txn[p].write
      BY <1>1, <3>1, <3>3
    <3> QED
      BY <3>2, <3>3
  <2>7. \A t \in Tasks : taskLock[t] = q => task'[t] = task[t]
    BY <1>1, <2>2
  <2>8. \A m \in Named(q) : milestoneLock[m] = q => milestone'[m] = milestone[m]
    BY <1>1, <2>1, <2>3
  <2> QED
    BY <2>4, <2>5, <2>6, <2>7, <2>8 DEF RowsKept
<1> QED
  BY <1>1, <1>2, <1>3, <1>4, FreeKeeps

LEMMA StepAbort ==
  ASSUME ProgressInv, NEW p \in Txns, Abort(p)
  PROVE  ProgressInv'
BY FreeKeeps, RowsUntouched DEF Abort, ProgressInv, ProgressType

LEMMA InitProgressInv == Init => ProgressInv
<1> SUFFICES ASSUME Init PROVE ProgressInv
  OBVIOUS
<1>1. Idle \in Transaction
  <2>1. <<>> \in Seq(Milestones)
    OBVIOUS
  <2>2. \E S \in SUBSET (Tasks \cup Milestones) : <<>> \in [S -> D!TaskStatus \cup MilestoneStatus]
    BY NoWrite
  <2> QED
    BY <2>1, <2>2 DEF Idle, Transaction
<1>2. ProgressType
  BY <1>1 DEF Init, D!Init, ProgressType, D!TaskStatus, MilestoneState
<1>3. ASSUME NEW p \in Txns PROVE TxnOK(p)
  <2>1. txn[p] = Idle /\ txn[p].op = "NONE" /\ txn[p].todo = <<>> /\ txn[p].write = <<>>
        /\ txn[p].insert = {}
    BY DEF Init, Idle
  <2>2. Wrote(p) = {} /\ ToDo(p) = {} /\ Named(p) = {} /\ DOMAIN txn[p].write = {}
    BY <2>1, NoWrite DEF Wrote, ToDo, Named
  <2> QED
    BY <2>1, <2>2 DEF TxnOK, IdleOK, TaskOK, OthersOK, CreateOK, WroteOK
<1> QED
  BY <1>2, <1>3 DEF Init, ProgressInv

LEMMA NextProgressInv == ProgressInv /\ [Next]_vars => ProgressInv'
<1> SUFFICES ASSUME ProgressInv, [Next]_vars PROVE ProgressInv'
  OBVIOUS
<1>1. CASE Next
  BY <1>1, StepTaskCommand, StepSweep, StepConfirm, StepCreate, StepInsertReference,
     StepLockMilestone, StepMoveMilestone, StepCommit, StepAbort DEF Next, Acquire, Proceed
<1>2. CASE UNCHANGED vars
  <2>1. ASSUME NEW q \in Txns PROVE TxnOK(q)'
    <3>1. Undisturbed(q)
      BY <1>2, RowsUntouched DEF vars, Undisturbed, LocksKept
    <3> QED
      BY <3>1, Aside
  <2> QED
    BY <1>2, <2>1 DEF vars, ProgressInv, ProgressType
<1> QED
  BY <1>1, <1>2

LEMMA ProgressInvariant == Spec => []ProgressInv
BY InitProgressInv, NextProgressInv, PTL DEF Spec

-----------------------------------------------------------------------------
(* A commit is one step of MilestoneDerivation *)

\* The Milestones the policy let through, read off what they have become.
Passed(current) ==
  {m \in Automatic \cap Milestones :
     milestone'[m] = Recompute(current[m], TRUE, TRUE, task', Contributors[m], Required[m])}

\* MilestoneDerivation goes by the same rules, under names of its own.
LEMMA SameRules ==
  ASSUME NEW current, NEW f, NEW C, NEW R
  PROVE  /\ D!TerminalMilestone = TerminalMilestone
         /\ D!DeriveTarget(current, f, C, R) = DeriveTarget(current, f, C, R)
BY DEF D!TerminalMilestone, TerminalMilestone, D!DeriveTarget, DeriveTarget,
       D!Target, Target, D!DerivedLegal, DerivedLegal

LEMMA LiveStatus ==
  ASSUME NEW m \in Milestones
  PROVE  D!Live(m) <=> Exists(m) /\ milestone[m] \notin TerminalMilestone
BY SameRules DEF D!Live, Exists

LEMMA AsDerived ==
  ASSUME NEW m \in Milestones, NEW current, NEW a \in BOOLEAN,
         milestone'[m] = Recompute(current[m], m \in Automatic, a, task', Contributors[m], Required[m])
  PROVE  milestone'[m] = D!Derived(m, current[m], Passed(current))
<1>1. PICK d : d = DeriveTarget(current[m], task', Contributors[m], Required[m])
  OBVIOUS
<1>2. milestone'[m] = IF d = "READY_FOR_CONFIRMATION" /\ m \in Automatic /\ Required[m] # {} /\ a
                      THEN "ACHIEVED" ELSE d
  BY <1>1 DEF Recompute
<1>3. m \in Passed(current) <=>
        /\ m \in Automatic
        /\ milestone'[m] = IF d = "READY_FOR_CONFIRMATION" /\ Required[m] # {} THEN "ACHIEVED" ELSE d
  BY <1>1 DEF Recompute, Passed
<1>4. D!Derived(m, current[m], Passed(current)) =
        IF /\ d = "READY_FOR_CONFIRMATION" /\ m \in Automatic /\ Required[m] # {}
           /\ m \in Passed(current)
        THEN "ACHIEVED" ELSE d
  <2>1. \A A : D!Derived(m, current[m], A) =
          IF d = "READY_FOR_CONFIRMATION" /\ m \in Automatic /\ Required[m] # {} /\ m \in A
          THEN "ACHIEVED" ELSE d
    BY <1>1, SameRules DEF D!Recompute, D!Derived
  <2> QED
    BY <2>1
<1> QED
  BY <1>2, <1>3, <1>4

LEMMA TerminalStays ==
  ASSUME NEW p, NEW m, txn[p].op # "CREATE", milestone[m] \in TerminalMilestone, NEW a
  PROVE  Outcome(p, m, a) = milestone[m]
BY DEF Outcome

LEMMA LiveMissed ==
  ASSUME NEW p, NEW m, txn[p].op = "SWEEP", milestone[m] \notin TerminalMilestone, NEW a
  PROVE  Outcome(p, m, a) = "MISSED"
BY DEF Outcome

LEMMA LiveRecomputed ==
  ASSUME NEW p, NEW m, txn[p].op = "TASK", milestone[m] \notin TerminalMilestone, NEW a \in BOOLEAN
  PROVE  Outcome(p, m, a) = Recompute(milestone[m], m \in Automatic, a, TaskSeen(p),
                                      Contributors[m], Required[m])
BY DEF Outcome

LEMMA CommitRefines ==
  ASSUME ProgressInv, NEW p \in Txns, Commit(p)
  PROVE  D!Next \/ UNCHANGED <<task, milestone>>
<1>1. /\ Named(p) = Wrote(p) /\ TxnOK(p) /\ txn[p].op # "NONE" /\ Wrote(p) \subseteq Milestones
      /\ txn[p].insert = {} /\ task' = TaskSeen(p)
      /\ \A t \in Tasks : task'[t] = IF t \in DOMAIN txn[p].write THEN txn[p].write[t] ELSE task[t]
      /\ \A m \in Milestones : m \notin Wrote(p) => milestone'[m] = milestone[m]
      /\ \A m \in Wrote(p) : \E allowed \in BOOLEAN : milestone'[m] = Outcome(p, m, allowed)
  BY Published
<1>2. /\ task \in [Tasks -> D!TaskStatus] /\ milestone \in [Milestones -> MilestoneState]
      /\ task' = [t \in Tasks |-> task'[t]] /\ milestone' = [m \in Milestones |-> milestone'[m]]
      /\ txn[p].op \in {"TASK", "SWEEP", "CONFIRM", "CREATE"}
  <2>1. task' = [t \in Tasks |-> task'[t]] /\ milestone' = [m \in Milestones |-> milestone'[m]]
    BY DEF Commit, TaskSeen
  <2> QED
    BY <1>1, <2>1 DEF ProgressInv, ProgressType, Transaction
<1>3. ASSUME txn[p].op # "TASK" PROVE UNCHANGED task
  BY <1>1, <1>2, <1>3 DEF TxnOK, TaskOK
<1>4. CASE txn[p].op = "TASK"
  <2>1. PICK t \in Tasks : t \in DOMAIN txn[p].write
    BY <1>1, <1>4 DEF TxnOK, TaskOK
  <2>2. PICK status : status = txn[p].write[t]
    OBVIOUS
  <2>3. /\ <<task[t], status>> \in D!LegalMoves
        /\ \A u \in Tasks : u \in DOMAIN txn[p].write => u = t
        /\ \A m \in Milestones : m \in Wrote(p) <=> Exists(m) /\ t \in Contributors[m]
    BY <1>1, <1>4, <2>1, <2>2 DEF TxnOK, TaskOK
  <2>4. status \in D!TaskStatus
    BY <2>3 DEF D!LegalMoves, D!TaskStatus
  <2>5. task' = [task EXCEPT ![t] = status]
    BY <1>1, <1>2, <2>1, <2>2, <2>3
  <2>6. ASSUME NEW m \in Milestones
        PROVE  milestone'[m] = IF D!Live(m) /\ t \in Contributors[m]
                               THEN D!Derived(m, milestone[m], Passed(milestone))
                               ELSE milestone[m]
    <3>1. CASE m \in Wrote(p) /\ D!Live(m)
      <4>1. PICK a \in BOOLEAN : milestone'[m] = Outcome(p, m, a)
        BY <1>1, <3>1
      <4>2. milestone'[m] = Recompute(milestone[m], m \in Automatic, a, task',
                                      Contributors[m], Required[m])
        <5>1. milestone[m] \notin TerminalMilestone
          BY <3>1, LiveStatus
        <5>2. PICK f : f = TaskSeen(p) /\ f = task'
          BY <1>1
        <5> QED
          BY <1>4, <4>1, <5>1, <5>2, LiveRecomputed
      <4> QED
        BY <2>3, <3>1, <4>2, AsDerived
    <3>2. CASE m \in Wrote(p) /\ ~D!Live(m)
      <4>1. milestone[m] \in TerminalMilestone
        BY <2>3, <3>2, LiveStatus
      <4> QED
        BY <1>1, <1>4, <3>2, <4>1, TerminalStays
    <3>3. CASE m \notin Wrote(p)
      BY <1>1, <2>3, <3>3, LiveStatus
    <3> QED
      BY <3>1, <3>2, <3>3
  <2>7. Passed(milestone) \in SUBSET Automatic
    BY DEF Passed
  <2>8. milestone' = [m \in Milestones |->
                        IF D!Live(m) /\ t \in Contributors[m]
                        THEN D!Derived(m, milestone[m], Passed(milestone))
                        ELSE milestone[m]]
    BY <1>2, <2>6
  <2>9. D!ChangeTask(t, status)
    BY <2>3, <2>5, <2>7, <2>8 DEF D!ChangeTask
  <2> QED
    BY <2>4, <2>9 DEF D!Next
<1>5. CASE txn[p].op = "SWEEP"
  <2> DEFINE missed == {m \in Wrote(p) : D!Live(m)}
  <2>1. missed \in SUBSET Timed /\ missed \subseteq {m \in Timed : D!Live(m)}
    BY <1>1, <1>5 DEF TxnOK, OthersOK
  <2>2. ASSUME NEW m \in Milestones
        PROVE  milestone'[m] = IF m \in missed THEN "MISSED" ELSE milestone[m]
    <3>1. CASE m \in missed
      <4>1. milestone[m] \notin TerminalMilestone
        BY <3>1, LiveStatus
      <4> QED
        BY <1>1, <1>5, <3>1, <4>1, LiveMissed
    <3>2. CASE m \in Wrote(p) /\ m \notin missed
      <4>1. milestone[m] \in TerminalMilestone
        BY <1>1, <1>5, <3>2, LiveStatus DEF TxnOK, OthersOK
      <4> QED
        BY <1>1, <1>5, <3>2, <4>1, TerminalStays
    <3> QED
      BY <1>1, <3>1, <3>2
  <2>3. milestone' = [m \in Milestones |-> IF m \in missed THEN "MISSED" ELSE milestone[m]]
    BY <1>2, <2>2
  <2> HIDE DEF missed
  <2>4. D!Miss(missed)
    BY <1>3, <1>5, <2>1, <2>3 DEF D!Miss
  <2> QED
    BY <2>1, <2>4 DEF D!Next
<1>6. CASE txn[p].op = "CONFIRM"
  <2>1. PICK m \in Milestones : Wrote(p) = {m} /\ Exists(m)
    BY <1>1, <1>6 DEF TxnOK, OthersOK
  <2>2. CASE milestone[m] = "READY_FOR_CONFIRMATION"
    <3>1. milestone'[m] = "ACHIEVED"
      BY <1>1, <1>6, <2>1, <2>2 DEF Outcome, TerminalMilestone
    <3>2. milestone' = [milestone EXCEPT ![m] = "ACHIEVED"]
      BY <1>1, <1>2, <2>1, <3>1
    <3> QED
      BY <1>3, <1>6, <2>2, <3>2 DEF D!Next, D!Confirm
  <2>3. CASE milestone[m] # "READY_FOR_CONFIRMATION"
    <3>1. milestone'[m] = milestone[m]
      BY <1>1, <1>6, <2>1, <2>3 DEF Outcome
    <3>2. milestone' = milestone
      BY <1>1, <1>2, <2>1, <3>1
    <3> QED
      BY <1>3, <1>6, <3>2
  <2> QED
    BY <2>2, <2>3
<1>7. CASE txn[p].op = "CREATE"
  <2>1. PICK m \in Milestones : Wrote(p) = {m} /\ milestone[m] = "ABSENT"
    BY <1>1, <1>7 DEF TxnOK, OthersOK, CreateOK, Exists
  <2> DEFINE current == [k \in Milestones |-> "NOT_STARTED"]
  <2>2. PICK a \in BOOLEAN : milestone'[m] = Outcome(p, m, a)
    BY <1>1, <2>1
  <2>3. milestone'[m] = Recompute(current[m], m \in Automatic, a, task', Contributors[m], Required[m])
    BY <1>1, <1>7, <2>2 DEF Outcome, TerminalMilestone
  <2>4. current[m] = "NOT_STARTED" /\ Passed(current) \in SUBSET Automatic
    BY DEF Passed
  <2> HIDE DEF current
  <2>5. milestone'[m] = D!Derived(m, current[m], Passed(current))
    BY <2>3, AsDerived
  <2>6. milestone'[m] = D!Derived(m, "NOT_STARTED", Passed(current))
    BY <2>4, <2>5
  <2>7. milestone' = [milestone EXCEPT ![m] = D!Derived(m, "NOT_STARTED", Passed(current))]
    BY <1>1, <1>2, <2>1, <2>6
  <2>8. D!Create(m)
    BY <1>3, <1>7, <2>1, <2>4, <2>7 DEF D!Create
  <2> QED
    BY <2>8 DEF D!Next
<1> QED
  BY <1>2, <1>4, <1>5, <1>6, <1>7

LEMMA NextRefines == ProgressInv /\ [Next]_vars => [D!Next]_(D!vars)
<1> SUFFICES ASSUME ProgressInv, [Next]_vars PROVE D!Next \/ UNCHANGED <<task, milestone>>
  BY DEF D!vars
<1>1. ASSUME NEW p \in Txns, Commit(p) PROVE D!Next \/ UNCHANGED <<task, milestone>>
  BY <1>1, CommitRefines
<1>2. CASE \E p \in Txns : Commit(p)
  BY <1>1, <1>2
<1>3. CASE Next /\ ~\E p \in Txns : Commit(p)
  BY <1>3 DEF Next, Acquire, Proceed, TaskCommand, Sweep, Confirm, Create, InsertReference,
              LockMilestone, MoveMilestone, Abort
<1>4. CASE UNCHANGED vars
  BY <1>4 DEF vars
<1> QED
  BY <1>2, <1>3, <1>4

\* The transactions of on_task_changed, create_milestone, miss_overdue and
\* confirm, interleaved statement by statement, aborted at will, amount to
\* indivisible commands on the committed rows.
THEOREM ProgressImplementsDerivation == Spec => ActsAtomically
<1>1. Init => D!Init
  BY DEF Init
<1> QED
  BY <1>1, ProgressInvariant, NextRefines, PTL DEF Spec, ActsAtomically, D!Spec

-----------------------------------------------------------------------------
(* Nobody waits in a circle *)

\* p's next statement needs a row that q holds.  A transaction that waits for
\* its first lock holds nothing yet, so nobody waits for it.
WaitsFor(p, q) ==
  /\ q # p
  /\ \/ txn[p].todo # <<>> /\ milestoneLock[Head(txn[p].todo)] = q
     \/ \E t \in txn[p].insert : taskLock[t] = q

NoCircularWait ==
  \A S \in SUBSET Txns : (\A p \in S : \E q \in S : WaitsFor(p, q)) => S = {}

\* The rows a transaction holds come before those it has still to lock.
Ordered(p) ==
  /\ Increasing(txn[p].todo)
  /\ \A m \in Wrote(p), k \in ToDo(p) : m < k
  /\ \A m \in Milestones :
       milestoneLock[m] = p =>
         m \in Wrote(p) \/ (txn[p].todo # <<>> /\ m = Head(txn[p].todo))

OrderInv ==
  /\ \A p \in Txns, t \in Tasks : taskLock[t] = p => txn[p].op = "TASK"
  /\ \A p \in Txns : Ordered(p)

LEMMA OrderAside ==
  ASSUME NEW q \in Txns, Ordered(q), txn'[q] = txn[q],
         \A m \in Milestones : milestoneLock'[m] = q => milestoneLock[m] = q
  PROVE  Ordered(q)'
<1>1. ToDo(q)' = ToDo(q) /\ Wrote(q)' = Wrote(q)
  BY DEF ToDo, Wrote
<1> QED
  BY <1>1 DEF Ordered

\* A transaction that begins has nothing yet.
LEMMA IdleHoldsNothing ==
  ASSUME ProgressInv, OrderInv, NEW p \in Txns, txn[p] = Idle
  PROVE  /\ \A m \in Milestones : milestoneLock[m] # p
         /\ \A t \in Tasks : taskLock[t] # p
<1>1. txn[p].op = "NONE" /\ txn[p].todo = <<>> /\ txn[p].write = <<>>
  BY DEF Idle
<1>2. Wrote(p) = {}
  BY <1>1, NoWrite DEF Wrote
<1> QED
  BY <1>1, <1>2 DEF OrderInv, Ordered

\* What a transaction begins with, in order.
LEMMA OrderBegins ==
  ASSUME ProgressInv, OrderInv, NEW p \in Txns, NEW op, NEW todo, txn[p] = Idle,
         txn'[p].op = op, txn'[p].todo = todo, Increasing(todo), Wrote(p)' = {},
         \A q \in Txns \ {p} : txn'[q] = txn[q],
         \A m \in Milestones :
           milestoneLock'[m] = milestoneLock[m] \/ (milestoneLock'[m] = p /\ todo = <<m>>),
         \A t \in Tasks : taskLock'[t] = taskLock[t] \/ (taskLock'[t] = p /\ op = "TASK")
  PROVE  OrderInv'
<1>1. /\ \A m \in Milestones : milestoneLock[m] # p
      /\ \A t \in Tasks : taskLock[t] # p
  BY IdleHoldsNothing
<1>2. Ordered(p)'
  BY <1>1 DEF Ordered
<1>3. ASSUME NEW q \in Txns \ {p} PROVE Ordered(q)'
  <2>1. \A m \in Milestones : milestoneLock'[m] = q => milestoneLock[m] = q
    OBVIOUS
  <2> QED
    BY <2>1, OrderAside DEF OrderInv
<1>4. \A q \in Txns, t \in Tasks : taskLock'[t] = q => txn'[q].op = "TASK"
  BY <1>1 DEF OrderInv
<1>5. \A q \in Txns : Ordered(q)'
  BY <1>2, <1>3
<1> QED
  BY <1>4, <1>5 DEF OrderInv

LEMMA One == ASSUME NEW m \in Milestones PROVE <<m>> \in Seq(Milestones) /\ Increasing(<<m>>)
BY DEF Increasing

LEMMA OrderTaskCommand ==
  ASSUME ProgressInv, OrderInv, NEW p \in Txns, NEW t \in Tasks, NEW status \in D!TaskStatus,
         TaskCommand(p, t, status)
  PROVE  OrderInv'
<1> DEFINE w == [x \in {t} |-> status]
<1>1. PICK ms \in SUBSET Milestones :
        ms = {m \in Milestones : milestone[m] # "ABSENT" /\ t \in Contributors[m]}
  OBVIOUS
<1>2. PICK todo : todo = InIdOrder(ms)
  OBVIOUS
<1>3. todo \in Seq(Milestones) /\ Increasing(todo)
  BY <1>2, Listed
<1>4. /\ Begin(p, "TASK", todo, {}, w)
      /\ taskLock' = [taskLock EXCEPT ![t] = p] /\ milestoneLock' = milestoneLock
  BY <1>1, <1>2 DEF TaskCommand
<1>5. t \notin Milestones
  BY ProgressAssumption
<1>6. \A u \in Tasks : taskLock'[u] = taskLock[u] \/ taskLock'[u] = p
  BY <1>4 DEF ProgressInv, ProgressType
<1>7. PICK b : b = [op |-> "TASK", todo |-> todo, insert |-> {}, write |-> w]
  OBVIOUS
<1>8. txn' = [txn EXCEPT ![p] = b] /\ txn[p] = Idle
  BY <1>4, <1>7 DEF Begin
<1>9. txn'[p] = b /\ \A q \in Txns \ {p} : txn'[q] = txn[q]
  BY <1>8 DEF ProgressInv, ProgressType
<1>10. Wrote(p)' = {} /\ txn'[p].op = "TASK" /\ txn'[p].todo = todo
  BY <1>5, <1>7, <1>9 DEF Wrote
<1> HIDE DEF w
<1> QED
  BY <1>3, <1>4, <1>6, <1>8, <1>9, <1>10, OrderBegins

\* Transactions that begin with nothing written.
LEMMA OrderOthersBegin ==
  ASSUME ProgressInv, OrderInv, NEW p \in Txns, NEW op \in {"SWEEP", "CONFIRM", "CREATE"},
         NEW todo \in Seq(Milestones), Increasing(todo), NEW insert \in SUBSET Tasks,
         Begin(p, op, todo, insert, <<>>), taskLock' = taskLock,
         \A m \in Milestones :
           milestoneLock'[m] = milestoneLock[m] \/ (milestoneLock'[m] = p /\ todo = <<m>>)
  PROVE  OrderInv'
<1>1. PICK b : b = [op |-> op, todo |-> todo, insert |-> insert, write |-> <<>>]
  OBVIOUS
<1>2. txn' = [txn EXCEPT ![p] = b] /\ txn[p] = Idle
  BY <1>1 DEF Begin
<1>3. txn'[p] = b /\ \A q \in Txns \ {p} : txn'[q] = txn[q]
  BY <1>2 DEF ProgressInv, ProgressType
<1>4. Wrote(p)' = {} /\ txn'[p].op = op /\ txn'[p].todo = todo
  BY <1>1, <1>3, NoWrite DEF Wrote
<1> QED
  BY <1>2, <1>3, <1>4, OrderBegins

LEMMA OrderSweep ==
  ASSUME ProgressInv, OrderInv, NEW p \in Txns, NEW overdue \in SUBSET Timed, Sweep(p, overdue)
  PROVE  OrderInv'
<1>1. PICK todo : todo = InIdOrder(overdue)
  OBVIOUS
<1>2. overdue \in SUBSET Milestones
  BY ProgressAssumption
<1>3. todo \in Seq(Milestones) /\ Increasing(todo)
  BY <1>1, <1>2, Listed
<1>4. Begin(p, "SWEEP", todo, {}, <<>>) /\ UNCHANGED <<taskLock, milestoneLock>>
  BY <1>1 DEF Sweep
<1> QED
  BY <1>3, <1>4, OrderOthersBegin

LEMMA OrderConfirm ==
  ASSUME ProgressInv, OrderInv, NEW p \in Txns, NEW m \in Milestones, Confirm(p, m)
  PROVE  OrderInv'
<1>1. PICK todo : todo = <<m>>
  OBVIOUS
<1>2. todo \in Seq(Milestones) /\ Increasing(todo)
  BY <1>1, One
<1>3. Begin(p, "CONFIRM", todo, {}, <<>>) /\ UNCHANGED <<taskLock, milestoneLock>>
  BY <1>1 DEF Confirm
<1> QED
  BY <1>2, <1>3, OrderOthersBegin

LEMMA OrderCreate ==
  ASSUME ProgressInv, OrderInv, NEW p \in Txns, NEW m \in Milestones, Create(p, m)
  PROVE  OrderInv'
<1>1. PICK todo, refs : todo = <<m>> /\ refs = Contributors[m] \cup Gated[m]
  OBVIOUS
<1>2. todo \in Seq(Milestones) /\ Increasing(todo)
  BY <1>1, One
<1>3. /\ Begin(p, "CREATE", todo, refs, <<>>) /\ taskLock' = taskLock
      /\ milestoneLock' = [milestoneLock EXCEPT ![m] = p]
  BY <1>1 DEF Create
<1>4. refs \in SUBSET Tasks
  BY <1>1, ProgressAssumption
<1>5. \A k \in Milestones :
        milestoneLock'[k] = milestoneLock[k] \/ (milestoneLock'[k] = p /\ todo = <<k>>)
  BY <1>1, <1>3 DEF ProgressInv, ProgressType
<1> QED
  BY <1>2, <1>3, <1>4, <1>5, OrderOthersBegin

LEMMA OrderInsertReference ==
  ASSUME ProgressInv, OrderInv, NEW p \in Txns, NEW t \in Tasks, InsertReference(p, t)
  PROVE  OrderInv'
<1>1. txn[p] \in Transaction /\ UNCHANGED <<taskLock, milestoneLock>>
  BY DEF InsertReference, ProgressInv, ProgressType
<1>2. PICK b : b = [txn[p] EXCEPT !.insert = txn[p].insert \ {t}]
  OBVIOUS
<1>3. txn' = [txn EXCEPT ![p] = b] /\ b.op = txn[p].op /\ b.todo = txn[p].todo /\ b.write = txn[p].write
  BY <1>1, <1>2 DEF InsertReference, Transaction, ProgressInv, ProgressType
<1>4. txn'[p] = b /\ \A q \in Txns \ {p} : txn'[q] = txn[q]
  BY <1>3 DEF ProgressInv, ProgressType
<1>5. ASSUME NEW q \in Txns PROVE Ordered(q)' /\ txn'[q].op = txn[q].op
  <2>1. txn'[q].op = txn[q].op /\ txn'[q].todo = txn[q].todo /\ txn'[q].write = txn[q].write
    BY <1>3, <1>4
  <2>2. ToDo(q)' = ToDo(q) /\ Wrote(q)' = Wrote(q)
    BY <2>1 DEF ToDo, Wrote
  <2> QED
    BY <1>1, <2>1, <2>2 DEF OrderInv, Ordered
<1> QED
  BY <1>1, <1>5 DEF OrderInv

LEMMA OrderLockMilestone ==
  ASSUME ProgressInv, OrderInv, NEW p \in Txns, LockMilestone(p)
  PROVE  OrderInv'
<1>1. PICK m : m = Head(txn[p].todo)
  OBVIOUS
<1>2. /\ txn[p].todo # <<>> /\ milestoneLock[m] = NoTxn
      /\ milestoneLock' = [milestoneLock EXCEPT ![m] = p]
      /\ UNCHANGED <<taskLock, txn>>
  BY <1>1 DEF LockMilestone
<1>3. ASSUME NEW q \in Txns PROVE Ordered(q)'
  <2>1. ToDo(q)' = ToDo(q) /\ Wrote(q)' = Wrote(q) /\ txn'[q] = txn[q]
    BY <1>2 DEF ToDo, Wrote
  <2>2. \A k \in Milestones : milestoneLock'[k] = q => milestoneLock[k] = q \/ (q = p /\ k = m)
    BY <1>2 DEF ProgressInv, ProgressType
  <2> QED
    BY <1>1, <1>2, <2>1, <2>2 DEF OrderInv, Ordered
<1> QED
  BY <1>2, <1>3 DEF OrderInv

LEMMA TakeFirst ==
  ASSUME NEW todo \in Seq(Milestones), todo # <<>>, Increasing(todo)
  PROVE  /\ Increasing(Tail(todo))
         /\ \A i \in 1 .. Len(Tail(todo)) : Head(todo) < Tail(todo)[i]
<1>1. Len(todo) \in Nat /\ Len(todo) >= 1 /\ Len(Tail(todo)) = Len(todo) - 1 /\ Head(todo) = todo[1]
  OBVIOUS
<1>2. \A i \in 1 .. Len(Tail(todo)) : Tail(todo)[i] = todo[i + 1]
  OBVIOUS
<1>3. ASSUME NEW i \in 1 .. Len(Tail(todo)), NEW j \in 1 .. Len(Tail(todo)), i < j
      PROVE  Tail(todo)[i] < Tail(todo)[j]
  <2>1. i + 1 \in 1 .. Len(todo) /\ j + 1 \in 1 .. Len(todo) /\ i + 1 < j + 1
    BY <1>1, <1>3
  <2> QED
    BY <2>1, <1>2 DEF Increasing
<1>4. ASSUME NEW i \in 1 .. Len(Tail(todo)) PROVE Head(todo) < Tail(todo)[i]
  <2>1. 1 \in 1 .. Len(todo) /\ i + 1 \in 1 .. Len(todo) /\ 1 < i + 1
    BY <1>1
  <2> QED
    BY <2>1, <1>1, <1>2 DEF Increasing
<1> QED
  BY <1>3, <1>4 DEF Increasing

LEMMA OrderMoveMilestone ==
  ASSUME ProgressInv, OrderInv, NEW p \in Txns, MoveMilestone(p)
  PROVE  OrderInv'
<1>1. PICK m, todo : m = Head(txn[p].todo) /\ todo = Tail(txn[p].todo)
  OBVIOUS
<1>2. /\ txn[p].todo # <<>> /\ milestoneLock[m] = p
      /\ UNCHANGED <<taskLock, milestoneLock>>
  BY <1>1 DEF MoveMilestone
<1>3. txn[p] \in Transaction /\ txn[p].todo \in Seq(Milestones) /\ Ordered(p) /\ txn \in [Txns -> Transaction]
  BY DEF ProgressInv, ProgressType, Transaction, OrderInv
<1>4. PICK write : /\ txn' = [txn EXCEPT ![p].todo = todo, ![p].write = write]
                   /\ DOMAIN write = {m} \cup DOMAIN txn[p].write
  <2>1. PICK allowed \in BOOLEAN :
          txn' = [txn EXCEPT ![p].todo = Tail(@), ![p].write = Flush(p, m, Outcome(p, m, allowed))]
    BY <1>1 DEF MoveMilestone
  <2>2. PICK out : out = Outcome(p, m, allowed)
    OBVIOUS
  <2>3. PICK write : write = Flush(p, m, out)
    OBVIOUS
  <2>4. DOMAIN write = {m} \cup DOMAIN txn[p].write
    BY <2>3 DEF Flush
  <2>5. txn' = [txn EXCEPT ![p].todo = todo, ![p].write = write]
    BY <1>1, <1>3, <2>1, <2>2, <2>3
  <2> QED
    BY <2>4, <2>5
<1>5. PICK b : b = [txn[p] EXCEPT !.todo = todo, !.write = write]
  OBVIOUS
<1>6. b.op = txn[p].op /\ b.todo = todo /\ b.write = write
  BY <1>3, <1>5 DEF Transaction
<1>7. txn' = [txn EXCEPT ![p] = b] /\ txn'[p] = b /\ \A q \in Txns \ {p} : txn'[q] = txn[q]
  BY <1>3, <1>4, <1>5 DEF Transaction
<1>8. /\ m \in Milestones /\ todo \in Seq(Milestones) /\ m \in ToDo(p)
      /\ ToDo(p) = {m} \cup {todo[i] : i \in 1 .. Len(todo)}
      /\ Increasing(todo) /\ \A i \in 1 .. Len(todo) : m < todo[i]
  BY <1>1, <1>2, <1>3, Take, TakeFirst DEF ToDo, Ordered
<1>9. ToDo(p)' = {todo[i] : i \in 1 .. Len(todo)} /\ Wrote(p)' = Wrote(p) \cup {m}
  <2>1. txn'[p].todo = todo /\ txn'[p].write = write
    BY <1>6, <1>7
  <2> QED
    BY <2>1, <1>4, <1>8 DEF ToDo, Wrote
<1>10. Ordered(p)'
  <2>1. ASSUME NEW k \in Wrote(p)', NEW l \in ToDo(p)' PROVE k < l
    <3>1. l \in ToDo(p) /\ m < l
      BY <1>8, <1>9
    <3> QED
      BY <3>1, <1>3, <1>9 DEF Ordered
  <2>2. ASSUME NEW k \in Milestones, milestoneLock'[k] = p PROVE k \in Wrote(p)'
    BY <2>2, <1>1, <1>2, <1>3, <1>9 DEF Ordered
  <2>3. Increasing(txn'[p].todo)
    BY <1>6, <1>7, <1>8
  <2> QED
    BY <2>1, <2>2, <2>3 DEF Ordered
<1>11. ASSUME NEW q \in Txns \ {p} PROVE Ordered(q)'
  BY <1>2, <1>7, OrderAside DEF OrderInv
<1>12. \A q \in Txns : Ordered(q)'
  BY <1>10, <1>11
<1>13. \A q \in Txns : txn'[q].op = txn[q].op
  BY <1>6, <1>7
<1> QED
  BY <1>2, <1>12, <1>13 DEF OrderInv

LEMMA OrderFree ==
  ASSUME ProgressInv, OrderInv, NEW p \in Txns, Free(p)
  PROVE  OrderInv'
<1>1. txn'[p] = Idle /\ \A q \in Txns \ {p} : txn'[q] = txn[q]
  BY DEF Free, ProgressInv, ProgressType
<1>2. txn'[p].todo = <<>> /\ txn'[p].write = <<>> /\ p # NoTxn
  BY <1>1, ProgressAssumption DEF Idle
<1>3. \A m \in Milestones : milestoneLock'[m] # p /\ \A t \in Tasks : taskLock'[t] # p
  BY <1>2 DEF Free
<1>4. Ordered(p)'
  <2>1. Wrote(p)' = {}
    BY <1>2, NoWrite DEF Wrote
  <2> QED
    BY <1>2, <1>3, <2>1 DEF Ordered, Increasing
<1>5. ASSUME NEW q \in Txns \ {p} PROVE Ordered(q)'
  <2>1. \A m \in Milestones : milestoneLock'[m] = q => milestoneLock[m] = q
    BY ProgressAssumption DEF Free
  <2> QED
    BY <2>1, <1>1, OrderAside DEF OrderInv
<1>6. ASSUME NEW q \in Txns, NEW t \in Tasks, taskLock'[t] = q PROVE txn'[q].op = "TASK"
  <2>1. q # NoTxn
    BY ProgressAssumption
  <2>2. taskLock[t] = q /\ q # p
    BY <2>1, <1>6, <1>2 DEF Free
  <2> QED
    BY <2>2, <1>1 DEF OrderInv
<1> QED
  BY <1>4, <1>5, <1>6 DEF OrderInv

LEMMA NextOrderInv == ProgressInv /\ OrderInv /\ [Next]_vars => OrderInv'
<1> SUFFICES ASSUME ProgressInv, OrderInv, [Next]_vars PROVE OrderInv'
  OBVIOUS
<1>1. CASE Next
  BY <1>1, OrderTaskCommand, OrderSweep, OrderConfirm, OrderCreate, OrderInsertReference,
     OrderLockMilestone, OrderMoveMilestone, OrderFree DEF Next, Acquire, Proceed, Commit, Abort
<1>2. CASE UNCHANGED vars
  BY <1>2, OrderAside DEF vars, OrderInv
<1> QED
  BY <1>1, <1>2

LEMMA InitOrderInv == Init => OrderInv
<1> SUFFICES ASSUME Init PROVE OrderInv
  OBVIOUS
<1>1. ASSUME NEW p \in Txns PROVE Ordered(p) /\ \A t \in Tasks : taskLock[t] # p
  <2>1. txn[p].todo = <<>> /\ txn[p].write = <<>> /\ p # NoTxn
    BY ProgressAssumption DEF Init, Idle
  <2>2. Wrote(p) = {}
    BY <2>1, NoWrite DEF Wrote
  <2> QED
    BY <2>1, <2>2 DEF Init, Ordered, Increasing
<1> QED
  BY <1>1 DEF OrderInv

LEMMA Greatest ==
  ASSUME NEW A \in SUBSET Milestones, A # {}
  PROVE  \E m \in A : \A k \in A : ~(m < k)
<1> DEFINE Above(m) == {k \in A : m < k}
           F == {Above(m) : m \in A}
<1>1. IsFiniteSet(A) /\ F \in SUBSET (SUBSET A) /\ F # {}
  BY IdsAreNumbers
<1>2. PICK T \in F : \A U \in F : ~(<<U, T>> \in StrictSubsetOrdering(A))
  <2> HIDE DEF F
  <2>1. IsWellFoundedOn(StrictSubsetOrdering(A), SUBSET A)
    BY <1>1, FS_StrictSubsetOrderingWellFounded, FS_FiniteSubsetsOfFinite
  <2> QED
    BY <1>1, <2>1, WFMin
<1>3. PICK m \in A : T = Above(m)
  OBVIOUS
<1>4. ASSUME NEW k \in A, m < k PROVE FALSE
  <2>1. \A x \in A : x \in Nat
    BY IdsAreNumbers
  <2>2. Above(k) \subseteq Above(m) /\ k \in Above(m) /\ k \notin Above(k)
    BY <1>4, <2>1
  <2>3. Above(k) \in F /\ <<Above(k), T>> \in StrictSubsetOrdering(A)
    BY <1>3, <2>2 DEF StrictSubsetOrdering
  <2> QED
    BY <2>3, <1>2
<1> QED
  BY <1>4

\* Who is waited for is no create_milestone, and waits for a Milestone, if at
\* all, that comes after the ones it holds.
LEMMA WaitsUpwards ==
  ASSUME ProgressInv, OrderInv, NEW p \in Txns, NEW q \in Txns, WaitsFor(p, q)
  PROVE  /\ txn[q].op # "CREATE" /\ txn[q].insert = {}
         /\ txn[p].insert = {} =>
              /\ Head(txn[p].todo) \in Milestones /\ milestoneLock[Head(txn[p].todo)] = q
              /\ txn[p].todo # <<>>
         /\ \A m \in Milestones :
              milestoneLock[m] = q /\ txn[q].todo # <<>> /\ milestoneLock[Head(txn[q].todo)] # q
                => m < Head(txn[q].todo)
<1>1. /\ TxnOK(p) /\ TxnOK(q) /\ Ordered(p) /\ Ordered(q)
      /\ txn[p].todo \in Seq(Milestones) /\ txn[q].todo \in Seq(Milestones)
  BY DEF ProgressInv, ProgressType, Transaction, OrderInv
<1>2. \A r \in Txns : txn[r].todo # <<>> => Head(txn[r].todo) \in Milestones /\ Head(txn[r].todo) \in ToDo(r)
  BY Take DEF ToDo, ProgressInv, ProgressType, Transaction
<1>3. txn[q].op # "CREATE"
  <2>1. CASE \E t \in txn[p].insert : taskLock[t] = q
    <3>1. txn[p].insert \subseteq Tasks
      BY DEF ProgressInv, ProgressType, Transaction
    <3> QED
      BY <2>1, <3>1 DEF OrderInv
  <2>2. CASE txn[p].todo # <<>> /\ milestoneLock[Head(txn[p].todo)] = q
    <3>1. PICK m \in Milestones : m = Head(txn[p].todo) /\ m \in Named(p) /\ milestoneLock[m] = q
      BY <2>2, <1>2 DEF Named
    <3>2. txn[p].op # "CREATE"
      BY <3>1, <1>1 DEF TxnOK, CreateOK, WaitsFor
    <3>3. Exists(m) /\ m \in Named(q)
      BY <1>1, <1>2, <3>1, <3>2 DEF TxnOK, OthersOK, Ordered, Named
    <3> QED
      BY <1>1, <3>3 DEF TxnOK, CreateOK
  <2> QED
    BY <2>1, <2>2 DEF WaitsFor
<1>4. txn[q].insert = {}
  BY <1>1, <1>3 DEF TxnOK, OthersOK
<1>5. ASSUME NEW m \in Milestones, milestoneLock[m] = q, txn[q].todo # <<>>,
             milestoneLock[Head(txn[q].todo)] # q
      PROVE  m < Head(txn[q].todo)
  BY <1>1, <1>2, <1>5 DEF Ordered
<1> QED
  BY <1>2, <1>3, <1>4, <1>5 DEF WaitsFor

LEMMA NoCircle == ProgressInv /\ OrderInv => NoCircularWait
<1> SUFFICES ASSUME ProgressInv, OrderInv, NEW S \in SUBSET Txns, S # {},
                    \A p \in S : \E q \in S : WaitsFor(p, q)
             PROVE  FALSE
  BY DEF NoCircularWait
<1> DEFINE Awaited(p, m) ==
             /\ txn[p].todo # <<>> /\ m = Head(txn[p].todo)
             /\ \E q \in S : WaitsFor(p, q) /\ milestoneLock[m] = q
           A == {m \in Milestones : \E p \in S : Awaited(p, m)}
\* Whoever is waited for waits for a Milestone himself.
<1>1. ASSUME NEW p \in S, NEW q \in S, WaitsFor(p, q)
      PROVE  \E m \in A : Awaited(q, m)
  <2>1. PICK r \in S : WaitsFor(q, r)
    OBVIOUS
  <2>2. txn[q].insert = {}
    BY <1>1, WaitsUpwards
  <2>3. /\ Head(txn[q].todo) \in Milestones /\ milestoneLock[Head(txn[q].todo)] = r
        /\ txn[q].todo # <<>>
    BY <2>1, <2>2, WaitsUpwards
  <2> QED
    BY <2>1, <2>3
<1>2. A \in SUBSET Milestones /\ A # {}
  BY <1>1
<1>3. PICK m \in A : \A k \in A : ~(m < k)
  <2> HIDE DEF A
  <2> QED
    BY <1>2, Greatest
<1>4. PICK p \in S, q \in S : WaitsFor(p, q) /\ milestoneLock[m] = q
  BY <1>3
<1>5. PICK k \in A : Awaited(q, k)
  BY <1>1, <1>4
<1>6. milestoneLock[k] # q
  BY <1>5 DEF WaitsFor
<1>7. m < k
  BY <1>4, <1>5, <1>6, WaitsUpwards
<1> QED
  BY <1>3, <1>7

\* Task commands, the creation of Milestones, confirmations and sweeps never
\* wait for one another in a circle: the database has no deadlock to break
\* (on_task_changed and miss_overdue lock Milestones in the order of their ids,
\* and nobody refers to a Milestone that is being created).
THEOREM NoDeadlock == Spec => []NoCircularWait
BY ProgressInvariant, InitOrderInv, NextOrderInv, NoCircle, PTL DEF Spec
================================================================================
