-------------------------- MODULE AdministrationProofs --------------------------
(***************************************************************************)
(* Theorems about what surrounds the commands of a DR Event: edits of      *)
(* versioned rows, policy values, the local account, browser sessions.     *)
(***************************************************************************)
EXTENDS RowEdits, PolicyEdits, LocalAccount, Sessions, FiniteSetTheorems, TLAPS

--------------------------------------------------------------------------------
(* Edits of versioned rows *)

Expectations == {NoEdit.expected} \cup UNION {[S -> 1 .. MaxVersion] : S \in SUBSET Rows}
EditRecord == [rows : Seq(Rows), expected : Expectations, locked : Nat]

\* Of one transaction.
EditWell(r) ==
  /\ edit[r].locked <= Len(edit[r].rows)
  /\ Active(r) => edit[r].expected \in [RowsOf(r) -> 1 .. MaxVersion]
HeldBy(r) ==
  \A x \in LockedRows(r) :
    /\ version[x] = edit[r].expected[x]
    /\ \A q \in Editors \ {r} : x \notin LockedRows(q)

EditType ==
  /\ version \in [Rows -> Nat]
  /\ edit \in [Editors -> EditRecord]
  /\ \A r \in Editors : EditWell(r)

\* A transaction holds the rows it has locked, alone, at the version it expects.
HeldAtVersion == \A r \in Editors : HeldBy(r)

EditInv == EditType /\ HeldAtVersion

LEMMA Locking ==
  ASSUME EditType, NEW r \in Editors
  PROVE  /\ RowsOf(r) = {edit[r].rows[i] : i \in 1 .. Len(edit[r].rows)}
         /\ RowsOf(r) \subseteq Rows /\ LockedRows(r) \subseteq RowsOf(r)
         /\ Complete(r) => LockedRows(r) = RowsOf(r)
         /\ Wanted(r) \subseteq Rows \X (1 .. MaxVersion)
<1>1. edit[r].rows \in Seq(Rows) /\ edit[r].locked \in Nat /\ edit[r].locked <= Len(edit[r].rows)
  BY DEF EditType, EditRecord, EditWell
<1>2. RowsOf(r) = {edit[r].rows[i] : i \in 1 .. Len(edit[r].rows)}
  BY <1>1 DEF RowsOf, Range
<1>3. RowsOf(r) \subseteq Rows
  BY <1>1, <1>2
<1>4. LockedRows(r) \subseteq RowsOf(r) /\ (Complete(r) => LockedRows(r) = RowsOf(r))
  BY <1>1, <1>2 DEF LockedRows, Complete
<1>5. Wanted(r) \subseteq Rows \X (1 .. MaxVersion)
  <2>1. CASE Active(r)
    BY <1>3, <2>1 DEF Wanted, EditType, EditWell
  <2>2. CASE ~Active(r)
    BY <1>2, <2>2 DEF Wanted, Active
  <2> QED
    BY <2>1, <2>2
<1> QED
  BY <1>2, <1>3, <1>4, <1>5

\* What becomes of a transaction that ends.
LEMMA EndOfEdit ==
  ASSUME EditType, NEW r \in Editors, EndEdit(r)
  PROVE  /\ edit' \in [Editors -> EditRecord]
         /\ edit'[r] = NoEdit /\ ~Active(r)' /\ LockedRows(r)' = {} /\ Wanted(r)' = {}
         /\ \A q \in Editors \ {r} : /\ edit'[q] = edit[q] /\ LockedRows(q)' = LockedRows(q)
                                     /\ Wanted(q)' = Wanted(q) /\ RowsOf(q)' = RowsOf(q)
                                     /\ Active(q)' = Active(q)
         /\ \A q \in Editors : EditWell(q)'
<1>1. NoEdit \in EditRecord
  BY DEF NoEdit, Expectations, EditRecord
<1>2. /\ edit' \in [Editors -> EditRecord]
      /\ edit'[r] = NoEdit /\ \A q \in Editors \ {r} : edit'[q] = edit[q]
  BY <1>1 DEF EditType, EndEdit
<1>3. ~Active(r)' /\ LockedRows(r)' = {} /\ Wanted(r)' = {}
  BY <1>2 DEF NoEdit, Active, LockedRows, Wanted, RowsOf, Range
<1>4. ASSUME NEW q \in Editors \ {r}
      PROVE  /\ LockedRows(q)' = LockedRows(q) /\ Wanted(q)' = Wanted(q)
             /\ RowsOf(q)' = RowsOf(q) /\ Active(q)' = Active(q)
  BY <1>2 DEF LockedRows, Wanted, RowsOf, Active
<1>5. EditWell(r)'
  <2>1. Len(<<>>) = 0
    OBVIOUS
  <2> QED
    BY <1>2, <1>3, <2>1 DEF EditWell, NoEdit
<1>6. \A q \in Editors \ {r} : EditWell(q)'
  BY <1>2, <1>4 DEF EditType, EditWell
<1> QED
  BY <1>2, <1>3, <1>4, <1>5, <1>6

\* A transaction that ends without a commit.
LEMMA DropKeeps ==
  ASSUME EditInv, NEW r \in Editors, EndEdit(r), UNCHANGED version
  PROVE  EditInv'
<1>1. EditType'
  BY EndOfEdit DEF EditInv, EditType
<1>2. HeldAtVersion'
  BY EndOfEdit DEF EditInv, HeldAtVersion, HeldBy
<1> QED
  BY <1>1, <1>2 DEF EditInv

LEMMA SendKeeps ==
  ASSUME EditInv, NEW r \in Editors, NEW batch \in Batches,
         NEW expected \in [Range(batch) -> 1 .. MaxVersion], Send(r, batch, expected)
  PROVE  /\ EditInv'
         /\ Wanted(r) = {} /\ Wanted(r)' \subseteq Rows \X (1 .. MaxVersion)
         /\ \A q \in Editors \ {r} : Wanted(q)' = Wanted(q)
<1> DEFINE new == [rows |-> batch, expected |-> expected, locked |-> 0]
<1>1. batch \in Seq(Rows)
  BY EditAssumption DEF EditAssumption
<1>2. Range(batch) \subseteq Rows
  BY <1>1 DEF Range
<1>3. new \in EditRecord
  BY <1>1, <1>2 DEF Expectations, EditRecord
<1>4. /\ edit' \in [Editors -> EditRecord]
      /\ edit'[r] = new /\ \A q \in Editors \ {r} : edit'[q] = edit[q]
      /\ version' = version /\ ~Active(r)
  BY <1>3 DEF EditInv, EditType, Send
<1>5. EditType'
  <2>1. EditWell(r)'
    <3>1. RowsOf(r)' = Range(batch) /\ 0 <= Len(batch)
      BY <1>1, <1>4 DEF RowsOf
    <3> QED
      BY <1>4, <3>1 DEF EditWell
  <2>2. \A q \in Editors \ {r} : EditWell(q)'
    BY <1>4 DEF EditInv, EditType, EditWell, Active, RowsOf
  <2> QED
    BY <1>4, <2>1, <2>2 DEF EditInv, EditType
<1>6. LockedRows(r)' = {} /\ \A q \in Editors \ {r} : LockedRows(q)' = LockedRows(q)
  BY <1>4 DEF LockedRows
<1>7. HeldAtVersion'
  <2>1. \A q \in Editors \ {r} : HeldBy(q)'
    BY <1>4, <1>6 DEF EditInv, HeldAtVersion, HeldBy
  <2>2. HeldBy(r)'
    BY <1>6 DEF HeldBy
  <2> QED
    BY <2>1, <2>2 DEF HeldAtVersion
<1>8. Wanted(r) = {} /\ \A q \in Editors \ {r} : Wanted(q)' = Wanted(q)
  BY <1>4 DEF Wanted, RowsOf, Range, Active
<1>9. Wanted(r)' \subseteq Rows \X (1 .. MaxVersion)
  BY <1>2, <1>4 DEF Wanted, RowsOf
<1> QED
  BY <1>5, <1>7, <1>8, <1>9 DEF EditInv

LEMMA LockKeeps ==
  ASSUME EditInv, NEW r \in Editors, LockRow(r), ~EndEdit(r)
  PROVE  EditInv' /\ \A q \in Editors : Wanted(q)' = Wanted(q)
<1> DEFINE n == edit[r].locked
           x == NextRow(r)
<1>1. /\ version' = version /\ edit' = [edit EXCEPT ![r].locked = n + 1]
      /\ version[x] = edit[r].expected[x]
      /\ n # Len(edit[r].rows) /\ \A q \in Editors \ {r} : x \notin LockedRows(q)
  BY DEF LockRow, Complete, RowFree
<1>2. n \in Nat /\ n + 1 \in 1 .. Len(edit[r].rows) /\ edit[r].rows \in Seq(Rows)
  BY <1>1 DEF EditInv, EditType, EditRecord, EditWell
<1>3. /\ edit' \in [Editors -> EditRecord]
      /\ edit'[r].rows = edit[r].rows /\ edit'[r].expected = edit[r].expected
      /\ edit'[r].locked = n + 1 /\ \A q \in Editors \ {r} : edit'[q] = edit[q]
  <2>1. edit[r] \in EditRecord /\ edit \in [Editors -> EditRecord]
    BY DEF EditInv, EditType
  <2>2. /\ [edit[r] EXCEPT !.locked = n + 1] \in EditRecord
        /\ [edit[r] EXCEPT !.locked = n + 1].rows = edit[r].rows
        /\ [edit[r] EXCEPT !.locked = n + 1].expected = edit[r].expected
        /\ [edit[r] EXCEPT !.locked = n + 1].locked = n + 1
    BY <1>2, <2>1 DEF EditRecord
  <2> QED
    BY <1>1, <2>1, <2>2
<1>4. \A q \in Editors : /\ RowsOf(q)' = RowsOf(q) /\ Active(q)' = Active(q)
                         /\ Wanted(q)' = Wanted(q)
  BY <1>3 DEF RowsOf, Active, Wanted
<1>5. EditType'
  BY <1>1, <1>2, <1>3, <1>4 DEF EditInv, EditType, EditWell
<1>6. /\ LockedRows(r)' = LockedRows(r) \cup {x}
      /\ \A q \in Editors \ {r} : LockedRows(q)' = LockedRows(q)
  <2>1. 1 .. (n + 1) = (1 .. n) \cup {n + 1}
    BY <1>2
  <2> QED
    BY <1>2, <1>3, <2>1 DEF LockedRows, NextRow
<1>7. HeldAtVersion'
  <2>1. ASSUME NEW q \in Editors, NEW y, y \in LockedRows(q)'
        PROVE  /\ version'[y] = edit'[q].expected[y]
               /\ \A p \in Editors \ {q} : y \notin LockedRows(p)'
    <3>1. version'[y] = edit'[q].expected[y]
      BY <1>1, <1>3, <1>6, <2>1 DEF EditInv, HeldAtVersion, HeldBy
    <3>2. ASSUME NEW p \in Editors \ {q} PROVE y \notin LockedRows(p)'
      BY <1>1, <1>6, <2>1, <3>2 DEF EditInv, HeldAtVersion, HeldBy
    <3> QED
      BY <3>1, <3>2
  <2> QED
    BY <2>1 DEF HeldAtVersion, HeldBy
<1> QED
  BY <1>4, <1>5, <1>7 DEF EditInv

LEMMA CommitKeeps ==
  ASSUME EditInv, NEW r \in Editors, CommitEdit(r)
  PROVE  EditInv'
<1>1. /\ EndEdit(r) /\ LockedRows(r) = RowsOf(r)
      /\ version' = [x \in Rows |-> IF x \in RowsOf(r) THEN version[x] + 1 ELSE version[x]]
  BY Locking DEF EditInv, CommitEdit
<1>2. EditType'
  <2>1. version' \in [Rows -> Nat]
    BY <1>1 DEF EditInv, EditType
  <2> QED
    BY <1>1, <2>1, EndOfEdit DEF EditInv, EditType
<1>3. ASSUME NEW q \in Editors \ {r}, NEW x \in LockedRows(q) PROVE version'[x] = version[x]
  <2>1. x \notin RowsOf(r) /\ x \in Rows
    BY <1>1, <1>3, Locking DEF EditInv, HeldAtVersion, HeldBy
  <2> QED
    BY <1>1, <2>1
<1>4. HeldAtVersion'
  <2>1. HeldBy(r)'
    BY <1>1, EndOfEdit DEF EditInv, HeldBy
  <2>2. ASSUME NEW q \in Editors \ {r} PROVE HeldBy(q)'
    BY <1>1, <1>3, EndOfEdit DEF EditInv, HeldAtVersion, HeldBy
  <2> QED
    BY <2>1, <2>2 DEF HeldAtVersion
<1> QED
  BY <1>2, <1>4 DEF EditInv

LEMMA EditStep == EditInv /\ [EditNext]_editVars => EditInv'
<1> SUFFICES ASSUME EditInv, [EditNext]_editVars PROVE EditInv'
  OBVIOUS
<1>1. ASSUME NEW r \in Editors, LockRow(r) PROVE EditInv'
  <2>1. CASE EndEdit(r)
    BY <1>1, <2>1, DropKeeps DEF LockRow
  <2>2. CASE ~EndEdit(r)
    BY <1>1, <2>2, LockKeeps
  <2> QED
    BY <2>1, <2>2
<1>2. ASSUME NEW r \in Editors, GiveUp(r) PROVE EditInv'
  BY <1>2, DropKeeps DEF GiveUp
<1>3. CASE UNCHANGED editVars
  BY <1>3 DEF editVars, EditInv, EditType, EditWell, HeldAtVersion, HeldBy, LockedRows, RowsOf,
              Active
<1> QED
  BY <1>1, <1>2, <1>3, SendKeeps, CommitKeeps DEF EditNext

LEMMA EditStart == EditInit => EditInv
<1> SUFFICES ASSUME EditInit PROVE EditInv
  OBVIOUS
<1>1. NoEdit \in EditRecord
  BY DEF NoEdit, Expectations, EditRecord
<1>2. EditType
  BY <1>1 DEF EditInit, EditType, EditWell, NoEdit, Active
<1>3. \A r \in Editors : LockedRows(r) = {}
  BY DEF EditInit, LockedRows, NoEdit
<1> QED
  BY <1>2, <1>3 DEF EditInv, HeldAtVersion, HeldBy

\* The row by row locking of update_application and update_tiers is a
\* compare-and-set of the whole batch, for any number of editors and rows and
\* any batches: every step is one of VersionedRows or changes nothing there.
THEOREM EditsRefine == EditSpec => EditsAreCompareAndSet
<1> DEFINE W == [r \in Editors |-> Wanted(r)]
<1>1. EditInit => Versioned!Init
  BY DEF EditInit, Versioned!Init, Wanted, RowsOf, Range, NoEdit
<1>2. EditInv /\ [EditNext]_editVars => [Versioned!Next]_(Versioned!vars)
  <2> SUFFICES ASSUME EditInv, [EditNext]_editVars
               PROVE  Versioned!Next \/ UNCHANGED <<version, W>>
    BY DEF Versioned!vars
  <2>1. ASSUME NEW r \in Editors, EndEdit(r), UNCHANGED version PROVE Versioned!Drop(r)
    BY <2>1, EndOfEdit DEF EditInv, Versioned!Drop
  <2>2. ASSUME NEW r \in Editors, NEW batch \in Batches,
               NEW expected \in [Range(batch) -> 1 .. MaxVersion], Send(r, batch, expected)
        PROVE  \E want \in SUBSET (Rows \X (1 .. MaxVersion)) : Versioned!Ask(r, want)
    <3>1. /\ Wanted(r) = {} /\ Wanted(r)' \subseteq Rows \X (1 .. MaxVersion)
          /\ \A q \in Editors \ {r} : Wanted(q)' = Wanted(q)
      BY <2>2, SendKeeps
    <3>2. UNCHANGED version
      BY <2>2 DEF Send
    <3> QED
      BY <3>1, <3>2 DEF Versioned!Ask
  <2>3. ASSUME NEW r \in Editors, LockRow(r) PROVE Versioned!Drop(r) \/ UNCHANGED <<version, W>>
    <3>1. CASE EndEdit(r)
      BY <2>1, <2>3, <3>1 DEF LockRow
    <3>2. CASE ~EndEdit(r)
      BY <2>3, <3>2, LockKeeps DEF LockRow
    <3> QED
      BY <3>1, <3>2
  <2>4. ASSUME NEW r \in Editors, CommitEdit(r) PROVE Versioned!Apply(r)
    <3>1. /\ EndEdit(r) /\ LockedRows(r) = RowsOf(r)
          /\ version' = [x \in Rows |-> IF x \in RowsOf(r) THEN version[x] + 1 ELSE version[x]]
      BY <2>4, Locking DEF EditInv, CommitEdit
    <3>2. \A p \in Wanted(r) : version[p[1]] = p[2]
      BY <3>1 DEF Wanted, EditInv, HeldAtVersion, HeldBy
    <3>3. \A x : x \in RowsOf(r) <=> \E p \in Wanted(r) : p[1] = x
      <4>1. ASSUME NEW x \in RowsOf(r) PROVE \E p \in Wanted(r) : p[1] = x
        <5>1. <<x, edit[r].expected[x]>> \in Wanted(r)
          BY DEF Wanted
        <5> QED
          BY <5>1
      <4>2. ASSUME NEW p \in Wanted(r) PROVE p[1] \in RowsOf(r)
        BY DEF Wanted
      <4> QED
        BY <4>1, <4>2
    <3>4. W' = [W EXCEPT ![r] = {}]
      BY <3>1, EndOfEdit DEF EditInv
    <3> QED
      BY <3>1, <3>2, <3>3, <3>4 DEF Versioned!Apply
  <2>5. ASSUME NEW r \in Editors, GiveUp(r) PROVE Versioned!Drop(r)
    BY <2>1, <2>5 DEF GiveUp
  <2>6. CASE UNCHANGED editVars
    BY <2>6 DEF editVars, Wanted, RowsOf
  <2> QED
    BY <2>2, <2>3, <2>4, <2>5, <2>6 DEF EditNext, Versioned!Next
<1> QED
  BY <1>1, <1>2, EditStart, EditStep, PTL DEF EditSpec, EditsAreCompareAndSet, Versioned!Spec

--------------------------------------------------------------------------------
(* Policy values *)

PolicyRow == [by : Admins, value : Settings]
Change(kind, keys) ==
  [kind : {kind}, new : [keys -> Settings], taken : 0 .. Len(Todo(kind)),
   previous : [Mirrors -> SUBSET PolicyRow]]
Changes == {NoChange} \cup Change("FILE", Mirrors) \cup UNION {Change(k, {k}) : k \in Mirrors}

PolicyType ==
  /\ filePolicy \in [Mirrors -> Settings]
  /\ values \in [Mirrors -> SUBSET PolicyRow]
  /\ change \in [Admins -> Changes]

SingleValue == \A k \in Mirrors : values[k] = {} \/ \E v \in PolicyRow : values[k] = {v}

\* What a transaction has locked nobody else has, and is as it found it.
KeysHeld ==
  \A r \in Admins : \A k \in Taken(r) :
    /\ \A q \in Admins \ {r} : k \notin Taken(q)
    /\ k \in Mirrors => change[r].previous[k] = values[k]

PolicyInv == PolicyType /\ SingleValue /\ KeysHeld /\ MirrorInStep

\* The keys each kind of change locks in the end.
LEMMA KindsOfChange ==
  ASSUME PolicyType, NEW r \in Admins, Running(r)
  PROVE  change[r] \in Change("FILE", Mirrors) \/ \E k \in Mirrors : change[r] \in Change(k, {k})
<1>1. change[r] \in Changes /\ change[r] # NoChange
  BY DEF PolicyType, Running, NoChange
<1> QED
  BY <1>1, Zenon DEF Changes

LEMMA WhatIsTaken ==
  ASSUME PolicyType, NEW r \in Admins, Running(r)
  PROVE  /\ change[r].taken \in 0 .. Len(Todo(change[r].kind))
         /\ \/ /\ change[r].kind = "FILE" /\ change[r].new \in [Mirrors -> Settings]
               /\ AllTaken(r) => Mirrors \subseteq Taken(r)
            \/ /\ change[r].kind \in Mirrors
               /\ change[r].new \in [{change[r].kind} -> Settings]
               /\ Taken(r) \subseteq {change[r].kind}
<1>2. CASE change[r] \in Change("FILE", Mirrors)
  <2>1. change[r].kind = "FILE" /\ change[r].new \in [Mirrors -> Settings]
        /\ change[r].taken \in 0 .. Len(Todo("FILE"))
    BY <1>2 DEF Change
  <2>2. Todo("FILE") = <<"file_policy", "file.max_mb", "file.allowlist">>
    BY DEF Todo
  <2>3. AllTaken(r) => Mirrors \subseteq Taken(r)
    <3> SUFFICES ASSUME AllTaken(r) PROVE Mirrors \subseteq Taken(r)
      OBVIOUS
    <3>1. Taken(r) = {Todo("FILE")[i] : i \in 1 .. 3}
      BY <2>1, <2>2 DEF AllTaken, Taken
    <3>2. 2 \in 1 .. 3 /\ 3 \in 1 .. 3 /\ Todo("FILE")[2] = "file.max_mb"
          /\ Todo("FILE")[3] = "file.allowlist"
      BY <2>2
    <3> QED
      BY <3>1, <3>2 DEF Mirrors
  <2> QED
    BY <2>1, <2>3
<1>3. ASSUME NEW k \in Mirrors, change[r] \in Change(k, {k})
      PROVE  /\ change[r].kind = k /\ change[r].new \in [{k} -> Settings]
             /\ change[r].taken \in 0 .. Len(Todo(k)) /\ Taken(r) \subseteq {k}
  <2>1. /\ change[r].kind = k /\ change[r].new \in [{k} -> Settings]
        /\ change[r].taken \in 0 .. Len(Todo(k))
    BY <1>3 DEF Change
  <2>2. Todo(k) = <<k>>
    BY DEF Todo, Mirrors
  <2> QED
    BY <2>1, <2>2 DEF Taken
<1> QED
  BY <1>2, <1>3, KindsOfChange

LEMMA EndOfChange ==
  ASSUME PolicyType, NEW r \in Admins, EndChange(r)
  PROVE  /\ change' \in [Admins -> Changes]
         /\ Taken(r)' = {}
         /\ \A q \in Admins \ {r} : change'[q] = change[q] /\ Taken(q)' = Taken(q)
<1>1. /\ change' \in [Admins -> Changes]
      /\ change'[r] = NoChange /\ \A q \in Admins \ {r} : change'[q] = change[q]
  BY DEF PolicyType, EndChange, Changes
<1> QED
  BY <1>1 DEF Taken, Running, NoChange

\* A transaction that ends takes nothing from what others hold.
LEMMA OthersKeep ==
  ASSUME PolicyType, KeysHeld, NEW r \in Admins, EndChange(r),
         \A q \in Admins \ {r} : \A k \in Taken(q) : k \in Mirrors => values'[k] = values[k]
  PROVE  KeysHeld'
<1>1. ASSUME NEW q \in Admins, NEW k \in Taken(q)'
      PROVE  /\ \A p \in Admins \ {q} : k \notin Taken(p)'
             /\ k \in Mirrors => change'[q].previous[k] = values'[k]
  <2>1. q # r /\ k \in Taken(q) /\ change'[q] = change[q]
    BY <1>1, EndOfChange
  <2>2. \A p \in Admins \ {q} : k \notin Taken(p)'
    BY <2>1, EndOfChange DEF KeysHeld
  <2>3. k \in Mirrors => change'[q].previous[k] = values'[k]
    BY <2>1 DEF KeysHeld
  <2> QED
    BY <2>2, <2>3
<1> QED
  BY <1>1 DEF KeysHeld

LEMMA StartKeeps ==
  ASSUME PolicyInv, NEW r \in Admins, NEW kind, NEW new, StartChange(r, kind, new),
         \/ kind = "FILE" /\ new \in [Mirrors -> Settings]
         \/ kind \in Mirrors /\ new \in [{kind} -> Settings]
  PROVE  PolicyInv'
<1> DEFINE c == [kind |-> kind, new |-> new, taken |-> 0, previous |-> [k \in Mirrors |-> {}]]
<1>1. 0 \in 0 .. Len(Todo(kind))
  <2>1. Todo(kind) = <<kind>> \/ Todo(kind) = <<"file_policy", "file.max_mb", "file.allowlist">>
    BY DEF Todo
  <2> QED
    BY <2>1
<1>2. c \in Changes
  <2>1. ASSUME NEW keys, new \in [keys -> Settings] PROVE c \in Change(kind, keys)
    BY <1>1, <2>1 DEF Change
  <2> HIDE DEF c
  <2> QED
    BY <2>1, Zenon DEF Changes
<1>3. /\ change' \in [Admins -> Changes] /\ change'[r] = c
      /\ \A q \in Admins \ {r} : change'[q] = change[q]
      /\ UNCHANGED <<filePolicy, values, direct>>
  BY <1>2 DEF PolicyInv, PolicyType, StartChange
<1>4. Taken(r)' = {} /\ \A q \in Admins \ {r} : Taken(q)' = Taken(q)
  BY <1>3 DEF Taken, Running
<1>5. KeysHeld'
  BY <1>3, <1>4 DEF PolicyInv, KeysHeld
<1> QED
  BY <1>3, <1>5 DEF PolicyInv, PolicyType, SingleValue, MirrorInStep, Resolved

LEMMA TakeKeeps ==
  ASSUME PolicyInv, NEW r \in Admins, TakeLock(r)
  PROVE  PolicyInv'
<1> DEFINE n == change[r].taken
           x == Todo(change[r].kind)[n + 1]
           previous == IF x \in Mirrors THEN [change[r].previous EXCEPT ![x] = values[x]]
                       ELSE change[r].previous
           c == [change[r] EXCEPT !.taken = n + 1, !.previous = previous]
<1>0. PolicyType /\ KeysHeld /\ change \in [Admins -> Changes]
      /\ values \in [Mirrors -> SUBSET PolicyRow]
  BY DEF PolicyInv, PolicyType
<1>1. /\ Running(r) /\ n # Len(Todo(change[r].kind))
      /\ \A q \in Admins \ {r} : x \notin Taken(q)
      /\ UNCHANGED <<filePolicy, values, direct>>
  BY DEF TakeLock, AllTaken, LockFree
<1>2. change' = [change EXCEPT ![r] = c]
  BY <1>0 DEF TakeLock
<1>3. n \in Nat /\ n + 1 \in 0 .. Len(Todo(change[r].kind))
  <2>1. Len(Todo(change[r].kind)) \in Nat
    BY DEF Todo
  <2>2. n \in 0 .. Len(Todo(change[r].kind))
    BY <1>0, <1>1, WhatIsTaken
  <2> HIDE DEF n
  <2> QED
    BY <1>1, <2>1, <2>2
<1>4. /\ c \in Changes /\ c.kind = change[r].kind /\ c.taken = n + 1 /\ c.previous = previous
      /\ change[r].previous \in [Mirrors -> SUBSET PolicyRow]
  <2>1. ASSUME NEW kind, NEW keys, change[r] \in Change(kind, keys)
        PROVE  /\ c \in Change(kind, keys) /\ c.kind = change[r].kind /\ c.taken = n + 1
               /\ c.previous = previous /\ change[r].previous \in [Mirrors -> SUBSET PolicyRow]
    <3>1. change[r].previous \in [Mirrors -> SUBSET PolicyRow] /\ change[r].kind = kind
      BY <2>1 DEF Change
    <3>2. previous \in [Mirrors -> SUBSET PolicyRow]
      BY <1>0, <3>1
    <3> HIDE DEF previous
    <3> QED
      BY <1>3, <2>1, <3>1, <3>2 DEF Change
  <2>2. change[r] \in Change("FILE", Mirrors) \/ \E k \in Mirrors : change[r] \in Change(k, {k})
    BY <1>0, <1>1, KindsOfChange
  <2> HIDE DEF c, n, previous
  <2> QED
    BY <2>1, <2>2, Zenon DEF Changes
<1>5. /\ change' \in [Admins -> Changes] /\ change'[r] = c
      /\ \A q \in Admins \ {r} : change'[q] = change[q]
  BY <1>0, <1>2, <1>4
<1>6. /\ Taken(r)' = Taken(r) \cup {x}
      /\ \A q \in Admins \ {r} : Taken(q)' = Taken(q)
  <2>1. 1 .. (n + 1) = (1 .. n) \cup {n + 1}
    BY <1>3
  <2>2. Running(r)' /\ change'[r].kind = change[r].kind /\ change'[r].taken = n + 1
    BY <1>1, <1>4, <1>5 DEF Running
  <2>3. Taken(r) = {Todo(change[r].kind)[i] : i \in 1 .. n}
    BY <1>1 DEF Taken
  <2>4. Taken(r)' = {Todo(change[r].kind)[i] : i \in 1 .. (n + 1)}
    BY <2>2 DEF Taken, Todo
  <2>5. \A q \in Admins \ {r} : Taken(q)' = Taken(q)
    BY <1>5 DEF Taken, Running
  <2> QED
    BY <2>1, <2>3, <2>4, <2>5
<1>7. KeysHeld'
  <2>1. ASSUME NEW q \in Admins, NEW k \in Taken(q)'
        PROVE  /\ \A p \in Admins \ {q} : k \notin Taken(p)'
               /\ k \in Mirrors => change'[q].previous[k] = values'[k]
    <3>1. \A p \in Admins \ {q} : k \notin Taken(p)'
      BY <1>0, <1>1, <1>6, <2>1 DEF KeysHeld
    <3>2. ASSUME k \in Mirrors PROVE change'[q].previous[k] = values'[k]
      <4>1. CASE q # r
        BY <1>0, <1>1, <1>5, <1>6, <2>1, <3>2, <4>1 DEF KeysHeld
      <4>2. CASE q = r
        <5>1. change'[q].previous = previous
          BY <1>4, <1>5, <4>2
        <5>2. CASE k = x
          BY <1>1, <1>4, <3>2, <5>1, <5>2
        <5>3. CASE k # x
          <6>1. k \in Taken(r)
            BY <1>6, <2>1, <4>2, <5>3
          <6>2. change[r].previous[k] = values[k]
            BY <1>0, <3>2, <6>1 DEF KeysHeld
          <6>3. previous[k] = change[r].previous[k]
            BY <1>4, <3>2, <5>3
          <6> QED
            BY <1>1, <5>1, <6>2, <6>3
        <5> QED
          BY <5>2, <5>3
      <4> QED
        BY <4>1, <4>2
    <3> QED
      BY <3>1, <3>2
  <2> QED
    BY <2>1 DEF KeysHeld
<1> QED
  BY <1>1, <1>5, <1>7 DEF PolicyInv, PolicyType, SingleValue, MirrorInStep, Resolved

LEMMA CommitChangeKeeps ==
  ASSUME PolicyInv, NEW r \in Admins, CommitChange(r)
  PROVE  PolicyInv'
<1> DEFINE c == change[r]
           row(k) == [by |-> r, value |-> c.new[k]]
<1>0. PolicyType /\ KeysHeld /\ SingleValue /\ MirrorInStep
      /\ values \in [Mirrors -> SUBSET PolicyRow]
  BY DEF PolicyInv, PolicyType
<1>1. /\ Running(r) /\ AllTaken(r) /\ EndChange(r)
      /\ values' = [k \in Mirrors |->
           IF k \in KeysSet(r) THEN (values[k] \ c.previous[k]) \cup {row(k)} ELSE values[k]]
      /\ IF c.kind = "FILE" THEN filePolicy' = c.new /\ direct' = {}
         ELSE direct' = direct \cup KeysSet(r) /\ UNCHANGED filePolicy
  BY DEF CommitChange
<1>2. \/ c.kind = "FILE" /\ c.new \in [Mirrors -> Settings] /\ Mirrors = KeysSet(r)
      \/ c.kind # "FILE" /\ c.new \in [{c.kind} -> Settings] /\ KeysSet(r) \subseteq {c.kind}
  BY <1>0, <1>1, WhatIsTaken DEF KeysSet, Mirrors
<1>3. ASSUME NEW k \in KeysSet(r)
      PROVE  values'[k] = {row(k)} /\ row(k) \in PolicyRow /\ k \in Mirrors
  <2>1. k \in Mirrors /\ k \in Taken(r)
    BY <1>3 DEF KeysSet
  <2>2. c.previous[k] = values[k]
    BY <1>0, <2>1 DEF KeysHeld
  <2>3. c.new[k] \in Settings
    BY <1>2, <1>3
  <2> QED
    BY <1>1, <1>3, <2>1, <2>2, <2>3 DEF PolicyRow
<1>4. \A k \in Mirrors : k \notin KeysSet(r) => values'[k] = values[k]
  BY <1>1
<1>5. values' \in [Mirrors -> SUBSET PolicyRow]
  <2>1. \A k \in Mirrors : values'[k] \in SUBSET PolicyRow
    BY <1>0, <1>3, <1>4
  <2> QED
    BY <1>1, <2>1
<1>6. SingleValue'
  <2>1. ASSUME NEW k \in Mirrors PROVE values'[k] = {} \/ \E v \in PolicyRow : values'[k] = {v}
    <3> HIDE DEF row
    <3> QED
      BY <1>0, <1>3, <1>4 DEF SingleValue
  <2> QED
    BY <2>1 DEF SingleValue
<1>7. KeysHeld'
  <2>1. ASSUME NEW q \in Admins \ {r}, NEW k \in Taken(q), k \in Mirrors
        PROVE  values'[k] = values[k]
    BY <1>0, <1>4, <2>1 DEF KeysHeld, KeysSet
  <2> QED
    BY <1>0, <1>1, <2>1, OthersKeep
<1>8. MirrorInStep'
  <2> SUFFICES ASSUME NEW k \in Mirrors, k \notin direct' PROVE Resolved(k)' = filePolicy'[k]
    BY DEF MirrorInStep
  <2>1. CASE c.kind = "FILE"
    <3>1. values'[k] = {row(k)}
      BY <1>2, <1>3, <2>1
    <3>2. Resolved(k)' = row(k).value
      BY <3>1 DEF Resolved
    <3> QED
      BY <1>1, <2>1, <3>2
  <2>2. CASE c.kind # "FILE"
    BY <1>0, <1>1, <1>4, <2>2 DEF MirrorInStep, Resolved
  <2> QED
    BY <2>1, <2>2
<1>9. filePolicy' \in [Mirrors -> Settings]
  BY <1>0, <1>1, <1>2 DEF PolicyType
<1> QED
  BY <1>0, <1>1, <1>5, <1>6, <1>7, <1>8, <1>9, EndOfChange DEF PolicyInv, PolicyType

LEMMA PolicyStep == PolicyInv /\ [PolicyNext]_policyVars => PolicyInv'
<1> SUFFICES ASSUME PolicyInv, [PolicyNext]_policyVars PROVE PolicyInv'
  OBVIOUS
<1>1. ASSUME NEW r \in Admins, DropChange(r) PROVE PolicyInv'
  <2>1. EndChange(r) /\ UNCHANGED <<filePolicy, values, direct>>
    BY <1>1 DEF DropChange
  <2>2. KeysHeld'
    BY <2>1, OthersKeep DEF PolicyInv
  <2> QED
    BY <2>1, <2>2, EndOfChange DEF PolicyInv, PolicyType, SingleValue, MirrorInStep, Resolved
<1>2. ASSUME NEW r \in Admins, NEW new \in [Mirrors -> Settings], StartChange(r, "FILE", new)
      PROVE  PolicyInv'
  BY <1>2, StartKeeps
<1>3. ASSUME NEW r \in Admins, NEW k \in Mirrors, NEW new \in [{k} -> Settings],
             StartChange(r, k, new)
      PROVE  PolicyInv'
  BY <1>3, StartKeeps
<1>4. CASE UNCHANGED policyVars
  BY <1>4 DEF policyVars, PolicyInv, PolicyType, SingleValue, KeysHeld, Taken, Running,
              MirrorInStep, Resolved
<1> QED
  BY <1>1, <1>2, <1>3, <1>4, TakeKeeps, CommitChangeKeeps DEF PolicyNext

LEMMA PolicyStart == PolicyInit => PolicyInv
<1> SUFFICES ASSUME PolicyInit PROVE PolicyInv
  OBVIOUS
<1>1. PolicyType /\ SingleValue
  BY PolicyAssumption DEF PolicyAssumption, PolicyInit, PolicyType, SingleValue, Changes
<1>2. KeysHeld
  BY DEF PolicyInit, KeysHeld, Taken, Running, NoChange
<1>3. MirrorInStep
  BY DEF PolicyInit, MirrorInStep, Resolved
<1> QED
  BY <1>1, <1>2, <1>3 DEF PolicyInv

\* No key ever has two current values, however many administrators set it.
THEOREM OneValue == PolicySpec => []OneCurrentValue
<1>1. PolicyInv => OneCurrentValue
  <2> SUFFICES ASSUME PolicyInv, NEW k \in Mirrors PROVE Cardinality(values[k]) <= 1
    BY DEF OneCurrentValue
  <2>1. CASE values[k] = {}
    BY <2>1, FS_EmptySet
  <2>2. CASE \E v \in PolicyRow : values[k] = {v}
    <3>1. PICK v \in PolicyRow : values[k] = {v}
      BY <2>2
    <3>2. Cardinality(values[k]) = 1
      BY <3>1, FS_Singleton
    <3> QED
      BY <3>2
  <2> QED
    BY <2>1, <2>2 DEF PolicyInv, SingleValue
<1> QED
  BY <1>1, PolicyStart, PolicyStep, PTL DEF PolicySpec

\* The mirrored values are those of the file policy, but for keys that were set
\* by themselves since: update_file_policy takes the lock of each key it mirrors.
THEOREM MirrorsInStep == PolicySpec => []MirrorInStep
<1>1. PolicyInv => MirrorInStep
  BY DEF PolicyInv
<1> QED
  BY <1>1, PolicyStart, PolicyStep, PTL DEF PolicySpec

--------------------------------------------------------------------------------
(* The local account *)

\* A token that a confirmation has judged and holds is not used, and nobody
\* else holds it; a password was set with a token at most once.
TokenInv ==
  /\ time \in Nat
  /\ tokens \in [Tokens -> [until : Int, used : BOOLEAN]]
  /\ changes \in [Tokens -> Nat]
  /\ work = [r \in Users |-> work[r]]
  /\ \A t \in Tokens : changes[t] = 0 \/ (changes[t] = 1 /\ tokens[t].used)
  /\ \A r \in Users : work[r].pc = "RESET" =>
       /\ work[r].token \in Tokens /\ ~tokens[work[r].token].used
       /\ \A q \in Users : work[q].pc = "RESET" /\ work[q].token = work[r].token => q = r

\* What a request that does not touch the tokens, and holds none, may become.
LEMMA TokensKept ==
  ASSUME TokenInv, NEW r \in Users, NEW w, w.pc # "RESET",
         work' = [work EXCEPT ![r] = w], UNCHANGED <<time, changes>>,
         tokens' \in [Tokens -> [until : Int, used : BOOLEAN]],
         \A t \in Tokens : tokens'[t].used = tokens[t].used
  PROVE  TokenInv'
<1>1. work' = [q \in Users |-> work'[q]] /\ work'[r] = w
      /\ \A q \in Users \ {r} : work'[q] = work[q]
  BY DEF TokenInv
<1>2. \A q \in Users : work'[q].pc = "RESET" => q # r /\ work'[q] = work[q]
  BY <1>1
<1> QED
  BY <1>1, <1>2 DEF TokenInv

LEMMA AccountKeepsTokens == TokenInv /\ [AccountNext]_accountVars => TokenInv'
<1> SUFFICES ASSUME TokenInv, [AccountNext]_accountVars PROVE TokenInv'
  OBVIOUS
<1>0. tokens \in [Tokens -> [until : Int, used : BOOLEAN]] /\ changes \in [Tokens -> Nat]
      /\ work = [r \in Users |-> work[r]]
  BY DEF TokenInv
<1>1. ASSUME NEW r \in Users, Done(r), UNCHANGED <<time, tokens, changes>> PROVE TokenInv'
  BY <1>0, <1>1, TokensKept DEF Done, NoWork
<1>2. ASSUME NEW r \in Users, NEW kind \in Attempts \cup {"CONFIRM"}, Ask(r, kind) PROVE TokenInv'
  <2>1. [pc |-> kind, at |-> time].pc # "RESET"
    BY DEF Attempts
  <2> QED
    BY <1>0, <1>2, <2>1, TokensKept DEF Ask
<1>3. ASSUME NEW r \in Users, NEW t \in Tokens, LoadForReset(r, t) PROVE TokenInv'
  <2>1. CASE Done(r)
    BY <1>1, <1>3, <2>1 DEF LoadForReset
  <2>2. CASE ~Done(r)
    <3> DEFINE w == [pc |-> "RESET", token |-> t, copy |-> Lockout(credential)]
    <3>1. /\ work' = [work EXCEPT ![r] = w] /\ ~tokens[t].used
          /\ \A q \in Users : work[q].pc = "RESET" => work[q].token # t
          /\ UNCHANGED <<time, tokens, changes>>
      BY <1>3, <2>2 DEF LoadForReset, TokenFree
    <3>2. w.pc = "RESET" /\ w.token = t
      OBVIOUS
    <3>3. work' = [q \in Users |-> work'[q]] /\ work'[r] = w
          /\ \A q \in Users \ {r} : work'[q] = work[q]
      BY <1>0, <3>1
    <3> HIDE DEF w
    <3> QED
      BY <3>1, <3>2, <3>3 DEF TokenInv
  <2> QED
    BY <2>1, <2>2
<1>4. ASSUME NEW r \in Users, WriteReset(r) PROVE TokenInv'
  <2>1. PICK t \in Tokens : t = work[r].token
    BY <1>4 DEF WriteReset, TokenInv
  <2>2. /\ work[r].pc = "RESET" /\ work' = [work EXCEPT ![r] = NoWork]
        /\ tokens' = [tokens EXCEPT ![t].used = TRUE]
        /\ changes' = [changes EXCEPT ![t] = changes[t] + 1] /\ time' = time
    BY <1>4, <2>1 DEF WriteReset, Done
  <2>3. /\ tokens' \in [Tokens -> [until : Int, used : BOOLEAN]] /\ tokens'[t].used
        /\ \A u \in Tokens \ {t} : tokens'[u] = tokens[u]
    BY <1>0, <2>2
  <2>4. /\ changes' \in [Tokens -> Nat] /\ changes'[t] = 1
        /\ \A u \in Tokens \ {t} : changes'[u] = changes[u]
    BY <1>0, <2>1, <2>2 DEF TokenInv
  <2>5. work' = [q \in Users |-> work'[q]]
        /\ \A q \in Users : work'[q].pc = "RESET" => q # r /\ work'[q] = work[q]
    BY <1>0, <2>2 DEF NoWork
  <2> QED
    BY <2>1, <2>2, <2>3, <2>4, <2>5 DEF TokenInv
<1>5. ASSUME NEW r \in Users, NEW w, w.pc # "RESET", work' = [work EXCEPT ![r] = w],
             UNCHANGED <<time, tokens, changes>>
      PROVE  TokenInv'
  BY <1>0, <1>5, TokensKept
<1>6. ASSUME NEW r \in Users, EnrolRead(r) \/ VerifyRead(r) PROVE TokenInv'
  <2>1. /\ [pc |-> "ENROLLING", copy |-> [enabled |-> FALSE]].pc # "RESET"
        /\ [pc |-> "VERIFYING", copy |-> [enabled |-> FALSE]].pc # "RESET"
    OBVIOUS
  <2> QED
    BY <1>5, <1>6, <2>1 DEF EnrolRead, VerifyRead
<1>7. ASSUME NEW t \in Tokens, RequestReset(t) PROVE TokenInv'
  <2>1. time + TokenLife \in Int /\ UNCHANGED <<time, work, changes>>
    BY <1>7, AccountAssumption DEF RequestReset, TokenInv, AccountAssumption
  <2>2. /\ tokens' \in [Tokens -> [until : Int, used : BOOLEAN]]
        /\ \A u \in Tokens : tokens'[u].used = tokens[u].used
    BY <1>0, <1>7, <2>1 DEF RequestReset
  <2> QED
    BY <2>1, <2>2 DEF TokenInv
<1>8. CASE Pass
  BY <1>8 DEF Pass, TokenInv
<1>9. CASE UNCHANGED accountVars
  BY <1>9 DEF accountVars, TokenInv
<1> QED
  BY <1>1, <1>2, <1>3, <1>4, <1>6, <1>7, <1>8, <1>9
     DEF AccountNext, RefuseLocked, AnswerWrong, AnswerRight, AskForCode, WriteEnrol, WriteVerify,
         Abort

\* A token sets a password once, however many confirmations carry it: it is
\* judged and marked under one lock.
THEOREM TokenSpentOnce == AccountSpec => []SpentOnce
<1>1. AccountInit => TokenInv
  <2> SUFFICES ASSUME AccountInit PROVE TokenInv
    OBVIOUS
  <2>1. /\ tokens \in [Tokens -> [until : Int, used : BOOLEAN]] /\ changes \in [Tokens -> Nat]
        /\ \A t \in Tokens : changes[t] = 0
    BY DEF AccountInit
  <2>2. work = [r \in Users |-> work[r]] /\ \A r \in Users : work[r].pc # "RESET"
    BY DEF AccountInit, NoWork
  <2>3. time \in Nat
    BY DEF AccountInit
  <2>4. \A t \in Tokens : changes[t] = 0 \/ (changes[t] = 1 /\ tokens[t].used)
    BY <2>1
  <2>5. \A r \in Users : work[r].pc = "RESET" =>
          /\ work[r].token \in Tokens /\ ~tokens[work[r].token].used
          /\ \A q \in Users : work[q].pc = "RESET" /\ work[q].token = work[r].token => q = r
    BY <2>2
  <2> QED
    BY <2>1, <2>2, <2>3, <2>4, <2>5, Zenon DEF TokenInv
<1>2. TokenInv => SpentOnce
  BY DEF TokenInv, SpentOnce
<1> QED
  BY <1>1, <1>2, AccountKeepsTokens, PTL DEF AccountSpec

CredentialColumns == {"failed", "since", "lockedUntil", "secret", "enabled"}
RowShaped(c) == c = [k \in CredentialColumns |-> c[k]]

\* Requests that enrol a factor, or verify one, have found it disabled.
FactorInv ==
  /\ RowShaped(credential)
  /\ credential.enabled \in BOOLEAN
  /\ work = [r \in Users |-> work[r]]
  /\ \A r \in Users : work[r].pc \in {"ENROLLING", "VERIFYING"} => work[r].copy.enabled = FALSE

\* What logins and re-authentications, right or wrong, leave of the factor.
LEMMA AttemptsKeepFactor ==
  ASSUME RowShaped(credential)
  PROVE  /\ RowShaped(Loaded) /\ Loaded.enabled = credential.enabled
         /\ RowShaped([Loaded EXCEPT !.failed = 0, !.lockedUntil = NotLocked])
         /\ [Loaded EXCEPT !.failed = 0, !.lockedUntil = NotLocked].enabled = credential.enabled
         /\ \A at : /\ RowShaped(Failed(Loaded, at))
                    /\ Failed(Loaded, at).enabled = credential.enabled
<1>1. RowShaped(Loaded) /\ Loaded.enabled = credential.enabled
  BY DEF Loaded, RowShaped, CredentialColumns
<1>2. ASSUME NEW c, RowShaped(c)
      PROVE  /\ RowShaped([c EXCEPT !.failed = 0, !.lockedUntil = NotLocked])
             /\ [c EXCEPT !.failed = 0, !.lockedUntil = NotLocked].enabled = c.enabled
  BY <1>2 DEF RowShaped, CredentialColumns
<1>3. ASSUME NEW c, RowShaped(c), NEW at
      PROVE  RowShaped(Failed(c, at)) /\ Failed(c, at).enabled = c.enabled
  BY <1>3 DEF Failed, RowShaped, CredentialColumns
<1> HIDE DEF Loaded
<1>4. /\ RowShaped([Loaded EXCEPT !.failed = 0, !.lockedUntil = NotLocked])
      /\ [Loaded EXCEPT !.failed = 0, !.lockedUntil = NotLocked].enabled = Loaded.enabled
  BY <1>1, <1>2
<1>5. \A at : RowShaped(Failed(Loaded, at)) /\ Failed(Loaded, at).enabled = Loaded.enabled
  BY <1>1, <1>3
<1> QED
  BY <1>1, <1>4, <1>5

LEMMA AccountKeepsFactor ==
  FactorInv /\ [AccountNext]_accountVars =>
    FactorInv' /\ (credential.enabled => credential'.enabled)
<1> SUFFICES ASSUME FactorInv, [AccountNext]_accountVars
             PROVE  FactorInv' /\ (credential.enabled => credential'.enabled)
  OBVIOUS
<1> DEFINE Goal == FactorInv' /\ (credential.enabled => credential'.enabled)
<1>0. RowShaped(credential) /\ credential.enabled \in BOOLEAN /\ work = [r \in Users |-> work[r]]
  BY DEF FactorInv
\* A request that goes on, or ends, and leaves the factor or enables it.
<1>1. ASSUME NEW r \in Users, NEW w, work' = [work EXCEPT ![r] = w],
             w.pc \in {"ENROLLING", "VERIFYING"} => w.copy.enabled = FALSE,
             RowShaped(credential'), credential'.enabled \in {credential.enabled, TRUE}
      PROVE  Goal
  <2>1. work' = [q \in Users |-> work'[q]] /\ work'[r] = w
        /\ \A q \in Users \ {r} : work'[q] = work[q]
    BY <1>0, <1>1
  <2>2. \A q \in Users : work'[q].pc \in {"ENROLLING", "VERIFYING"} => work'[q].copy.enabled = FALSE
    BY <1>1, <2>1 DEF FactorInv
  <2> QED
    BY <1>0, <1>1, <2>1, <2>2 DEF FactorInv
<1>2. ASSUME NEW r \in Users, Done(r), RowShaped(credential'),
             credential'.enabled \in {credential.enabled, TRUE}
      PROVE  Goal
  BY <1>1, <1>2 DEF Done, NoWork
<1>3. ASSUME NEW r \in Users, RefuseLocked(r) \/ Abort(r) PROVE Goal
  BY <1>0, <1>2, <1>3 DEF RefuseLocked, Abort
<1>4. ASSUME NEW r \in Users, AnswerWrong(r) \/ AnswerRight(r) \/ AskForCode(r) PROVE Goal
  BY <1>0, <1>2, <1>4, AttemptsKeepFactor DEF AnswerWrong, AnswerRight, AskForCode
<1>5. ASSUME NEW r \in Users, NEW kind \in Attempts \cup {"CONFIRM"}, Ask(r, kind) PROVE Goal
  <2>1. [pc |-> kind, at |-> time].pc \notin {"ENROLLING", "VERIFYING"}
    BY DEF Attempts
  <2> QED
    BY <1>0, <1>1, <1>5, <2>1 DEF Ask
<1>6. ASSUME NEW r \in Users, NEW t \in Tokens, LoadForReset(r, t) PROVE Goal
  <2>1. [pc |-> "RESET", token |-> t, copy |-> Lockout(credential)].pc
          \notin {"ENROLLING", "VERIFYING"}
    OBVIOUS
  <2> QED
    BY <1>0, <1>1, <1>2, <1>6, <2>1 DEF LoadForReset
<1>7. ASSUME NEW r \in Users, WriteReset(r) PROVE Goal
  <2>1. RowShaped(credential') /\ credential'.enabled = credential.enabled
    BY <1>0, <1>7 DEF WriteReset, RowShaped, CredentialColumns
  <2> QED
    BY <1>2, <1>7, <2>1 DEF WriteReset
<1>8. ASSUME NEW r \in Users, EnrolRead(r) \/ VerifyRead(r) PROVE Goal
  BY <1>0, <1>1, <1>8 DEF EnrolRead, VerifyRead
<1>9. ASSUME NEW r \in Users, WriteEnrol(r) PROVE Goal
  <2>1. work[r].copy.enabled = FALSE
    BY <1>9 DEF WriteEnrol, FactorInv
  <2>2. RowShaped(credential')
        /\ credential'.enabled = Written("enabled", work[r].copy, FALSE)
    BY <1>0, <1>9 DEF WriteEnrol, RowShaped, CredentialColumns
  <2>3. Written("enabled", work[r].copy, FALSE) = credential.enabled
    BY <2>1 DEF Written
  <2> QED
    BY <1>2, <1>9, <2>2, <2>3 DEF WriteEnrol
<1>10. ASSUME NEW r \in Users, WriteVerify(r) PROVE Goal
  <2>1. RowShaped(credential')
        /\ credential'.enabled = Written("enabled", work[r].copy, TRUE)
    BY <1>0, <1>10 DEF WriteVerify, RowShaped, CredentialColumns
  <2>2. Written("enabled", work[r].copy, TRUE) \in {credential.enabled, TRUE}
    BY DEF Written
  <2> QED
    BY <1>2, <1>10, <2>1, <2>2 DEF WriteVerify
<1>11. CASE UNCHANGED <<credential, work>>
  BY <1>11 DEF FactorInv
<1> QED
  BY <1>3, <1>4, <1>5, <1>6, <1>7, <1>8, <1>9, <1>10, <1>11
     DEF AccountNext, RequestReset, Pass, accountVars

\* A second factor that is enabled stays so, although an enrolment under way
\* may have found it disabled: what it assigns is what it has read, so that
\* SQLAlchemy leaves the column out.
THEOREM FactorRemains == AccountSpec => FactorStays
<1>1. AccountInit => FactorInv
  BY DEF AccountInit, FactorInv, RowShaped, CredentialColumns, NoWork
<1>2. FactorInv /\ [AccountNext]_accountVars =>
        [credential.enabled => credential'.enabled]_accountVars
  BY AccountKeepsFactor
<1>3. FactorInv /\ [AccountNext]_accountVars => FactorInv'
  BY AccountKeepsFactor
<1> QED
  BY <1>1, <1>2, <1>3, PTL DEF AccountSpec, FactorStays

--------------------------------------------------------------------------------
(* The count of wrong answers *)

\* The wrong answers of two counts, the one that is open, from minute `since`,
\* and the one before it, from minute `ps`: of all others no request that is
\* still under way can meet one in a span.  Each count stays below the threshold,
\* and all but what is of its first minute one further below.
RecentCounts(answers, failed, since, now, prev, cur, ps) ==
  /\ \A e \in answers \ (prev \cup cur) : e[1] + Window < now
  /\ failed < Threshold \/ (prev = {} /\ cur = {})
  /\ failed = 0 => prev = {}
  /\ Cardinality(cur) <= failed
  /\ failed # 0 => Cardinality({e \in cur : e[1] # since}) <= failed - 1
  /\ \A e \in cur : e[1] <= since + Window
  /\ prev # {} =>
       /\ ps + Window < since
       /\ Cardinality(prev) <= Threshold - 1
       /\ Cardinality({e \in prev : e[1] # ps}) <= Threshold - 2
       /\ \A e \in prev : e[1] < since

\* What is left of that once an answer has filled the count: enough for a span.
TwoCounts(answers, since, now, prev, cur, ps) ==
  /\ \A e \in answers \ (prev \cup cur) : e[1] + Window < now
  /\ Cardinality(cur) <= Threshold
  /\ Cardinality({e \in cur : e[1] # since}) <= Threshold - 1
  /\ prev # {} =>
       /\ ps + Window < since
       /\ Cardinality(prev) <= Threshold - 1
       /\ Cardinality({e \in prev : e[1] # ps}) <= Threshold - 2

\* A lock outlasts the Window of every answer that counts.
Counted(answers, failed, since, until, now) ==
  IF until = NotLocked
  THEN \E prev, cur \in SUBSET answers, ps \in Int :
         RecentCounts(answers, failed, since, now, prev, cur, ps)
  ELSE \A e \in answers : e[1] + Window < until

InSpan(answers, from) == {e \in answers : e[1] \in from .. from + Window - MaxLag}
Bounded(answers) ==
  \A from \in 0..LastMinute : Cardinality(InSpan(answers, from)) <= 2 * Threshold - 2

\* What a request has read of the clock is at most MaxLag old.
TimelyWork ==
  /\ work = [r \in Users |-> work[r]]
  /\ \A r \in Users : work[r].pc \in Attempts \cup {"CONFIRM"} =>
       /\ "at" \in DOMAIN work[r]
       /\ work[r].at \in Nat /\ work[r].at <= time /\ time <= work[r].at + MaxLag

RowTyped ==
  /\ RowShaped(credential)
  /\ credential.failed \in Nat /\ credential.since \in Int /\ credential.lockedUntil \in Int

AnswersCounted ==
  /\ \A e \in WrongAnswers : e[1] <= time
  /\ Counted(WrongAnswers, credential.failed, credential.since, credential.lockedUntil, time)
  /\ Bounded(WrongAnswers)

FailuresInv ==
  /\ time \in 0..LastMinute /\ wrong \in [0..LastMinute -> Nat]
  /\ TimelyWork /\ RowTyped /\ AnswersCounted

\* _register_failed_attempt: the count, and the minute it starts from.
Opens(failed, since, at) == failed = 0 \/ at - since > Window
NextCount(failed, since, at) == IF Opens(failed, since, at) THEN 1 ELSE failed + 1
NextSince(failed, since, at) == IF Opens(failed, since, at) THEN at ELSE since

\* The counts after a wrong answer.
Advanced(all, count, since, now) ==
  \E prev, cur \in SUBSET all, ps \in Int :
    /\ TwoCounts(all, since, now, prev, cur, ps)
    /\ count < Threshold => RecentCounts(all, count, since, now, prev, cur, ps)

LEMMA SubsetCount ==
  ASSUME NEW S, IsFiniteSet(S), NEW G \in SUBSET S
  PROVE  IsFiniteSet(G) /\ Cardinality(G) \in Nat /\ Cardinality(S) \in Nat
         /\ Cardinality(G) <= Cardinality(S)
  BY FS_Subset, FS_CardinalityType

LEMMA UnionCount ==
  ASSUME NEW S, IsFiniteSet(S), NEW G, IsFiniteSet(G)
  PROVE  IsFiniteSet(S \cup G) /\ Cardinality(S \cup G) \in Nat
         /\ Cardinality(S) \in Nat /\ Cardinality(G) \in Nat
         /\ Cardinality(S \cup G) <= Cardinality(S) + Cardinality(G)
<1>1. IsFiniteSet(S \cup G) /\ IsFiniteSet(S \cap G)
  BY FS_Union, FS_Subset
<1>2. Cardinality(S \cup G) = Cardinality(S) + Cardinality(G) - Cardinality(S \cap G)
  BY FS_Union
<1> QED
  BY <1>1, <1>2, FS_CardinalityType

\* A span that holds answers of the open count and of the one before misses the
\* first minute of one of them.
LEMMA SpanOfTwoCounts ==
  ASSUME NEW answers, IsFiniteSet(answers), \A e \in answers : e[1] \in Int,
         NEW prev \in SUBSET answers, NEW cur \in SUBSET answers,
         NEW since \in Int, NEW ps \in Int, NEW from \in Int,
         NEW now, TwoCounts(answers, since, now, prev, cur, ps),
         InSpan(answers, from) \subseteq prev \cup cur
  PROVE  Cardinality(InSpan(answers, from)) <= 2 * Threshold - 2
<1>0. /\ Threshold \in Nat \ {0, 1} /\ Window \in Nat /\ MaxLag \in Nat
      /\ IsFiniteSet(prev) /\ IsFiniteSet(cur)
  BY AccountAssumption, FS_Subset DEF AccountAssumption
<1>6. /\ Cardinality(cur) <= Threshold
      /\ Cardinality({e \in cur : e[1] # since}) <= Threshold - 1
      /\ prev # {} => /\ ps + Window < since
                      /\ Cardinality(prev) <= Threshold - 1
                      /\ Cardinality({e \in prev : e[1] # ps}) <= Threshold - 2
  BY DEF TwoCounts
<1> DEFINE late == {e \in cur : e[1] # since}
           rest == {e \in prev : e[1] # ps}
<1>1. IsFiniteSet(late) /\ IsFiniteSet(rest)
  BY <1>0, FS_Subset
\* Whatever covers the span bounds it.
<1>2. ASSUME NEW a, NEW b, IsFiniteSet(a), IsFiniteSet(b), InSpan(answers, from) \subseteq a \cup b,
             Cardinality(a) + Cardinality(b) <= 2 * Threshold - 2
      PROVE  Cardinality(InSpan(answers, from)) <= 2 * Threshold - 2
  <2>1. IsFiniteSet(a \cup b) /\ Cardinality(a \cup b) \in Nat
        /\ Cardinality(a) \in Nat /\ Cardinality(b) \in Nat
        /\ Cardinality(a \cup b) <= Cardinality(a) + Cardinality(b)
    BY <1>2, UnionCount
  <2>2. Cardinality(InSpan(answers, from)) \in Nat /\ Cardinality(InSpan(answers, from)) <= Cardinality(a \cup b)
    BY <1>2, <2>1, SubsetCount
  <2> QED
    BY <1>0, <1>2, <2>1, <2>2
<1>3. CASE prev = {}
  <2>1. Cardinality(prev) = 0
    BY <1>3, FS_EmptySet
  <2>2. Cardinality(prev) + Cardinality(cur) <= 2 * Threshold - 2
    BY <1>0, <1>6, <2>1, FS_CardinalityType
  <2> QED
    BY <1>0, <1>2, <2>2
<1>4. CASE prev # {} /\ \E e \in InSpan(answers, from) : e[1] = ps
  <2>1. \A e \in InSpan(answers, from) : e[1] # since
    BY <1>0, <1>4, <1>6 DEF InSpan
  <2>2. InSpan(answers, from) \subseteq prev \cup late
    BY <2>1
  <2>3. Cardinality(prev) + Cardinality(late) <= 2 * Threshold - 2
    BY <1>0, <1>1, <1>4, <1>6, FS_CardinalityType
  <2> HIDE DEF late
  <2> QED
    BY <1>0, <1>1, <1>2, <2>2, <2>3
<1>5. CASE prev # {} /\ ~\E e \in InSpan(answers, from) : e[1] = ps
  <2>1. InSpan(answers, from) \subseteq rest \cup cur
    BY <1>5 DEF InSpan
  <2>2. Cardinality(rest) + Cardinality(cur) <= 2 * Threshold - 2
    BY <1>0, <1>1, <1>5, <1>6, FS_CardinalityType
  <2> HIDE DEF rest
  <2> QED
    BY <1>0, <1>1, <1>2, <2>1, <2>2
<1> QED
  BY <1>3, <1>4, <1>5

\* What an answer does to two counts, its request asked at minute `at`.
LEMMA CountsStep ==
  ASSUME NEW answers, IsFiniteSet(answers), \A e \in answers : e[1] \in Int,
         NEW failed \in Nat, NEW since \in Int, NEW now \in Int,
         Counted(answers, failed, since, NotLocked, now),
         NEW new, new[1] \in Int, new[1] <= now
  PROVE  Advanced(answers \cup {new}, NextCount(failed, since, new[1]),
                  NextSince(failed, since, new[1]), now)
<1> DEFINE all == answers \cup {new}
           at == new[1]
           count == NextCount(failed, since, at)
           first == NextSince(failed, since, at)
<1> SUFFICES Advanced(all, count, first, now)
  OBVIOUS
<1>4. PICK prev \in SUBSET answers, cur \in SUBSET answers, ps \in Int :
        RecentCounts(answers, failed, since, now, prev, cur, ps)
  BY DEF Counted
<1>0. /\ Threshold \in Nat \ {0, 1} /\ Window \in Nat /\ MaxLag \in Nat
      /\ IsFiniteSet(prev) /\ IsFiniteSet(cur) /\ IsFiniteSet({new})
      /\ Cardinality({new}) = 1 /\ Cardinality({}) = 0
      /\ Cardinality(cur) \in Nat /\ Cardinality(prev) \in Nat
  BY AccountAssumption, FS_Subset, FS_Singleton, FS_EmptySet, FS_CardinalityType
     DEF AccountAssumption
<1> DEFINE late == {e \in cur : e[1] # since}
<1>1. IsFiniteSet(late) /\ Cardinality(late) \in Nat
  BY <1>0, FS_Subset, FS_CardinalityType
\* The count that was open becomes the one before, which is of no use any more.
<1>2. CASE Opens(failed, since, at)
  <2>1. count = 1 /\ first = at /\ cur \in SUBSET all /\ {new} \in SUBSET all
    BY <1>2 DEF NextCount, NextSince
  <2>9. failed = 0 \/ at - since > Window
    BY <1>2 DEF Opens
  <2>2. \A e \in all \ (cur \cup {new}) : e[1] + Window < now
    BY <1>4, <1>0, <2>9 DEF RecentCounts
  <2>3. Cardinality({e \in {new} : e[1] # at}) = 0
    <3>1. {e \in {new} : e[1] # at} = {}
      OBVIOUS
    <3> QED
      BY <3>1, FS_EmptySet
  <2>4. cur # {} => failed # 0 /\ failed < Threshold
    <3>1. ASSUME failed = 0 PROVE cur = {}
      BY <1>4, <1>0, <3>1, FS_EmptySet DEF RecentCounts
    <3> QED
      BY <1>4, <3>1 DEF RecentCounts
  <2>5. cur # {} => /\ since + Window < at
                    /\ Cardinality(cur) <= Threshold - 1
                    /\ Cardinality(late) <= Threshold - 2
                    /\ \A e \in cur : e[1] < at
    BY <1>4, <1>0, <1>1, <2>9, <2>4 DEF RecentCounts
  <2>6. RecentCounts(all, 1, at, now, cur, {new}, since)
    <3>1. /\ 1 < Threshold /\ 1 # 0
          /\ Cardinality({new}) <= 1
          /\ Cardinality({e \in {new} : e[1] # at}) <= 1 - 1
          /\ \A e \in {new} : e[1] <= at + Window
      <4>1. 1 < Threshold /\ \A e \in {new} : e[1] <= at + Window
        BY <1>0
      <4> QED
        BY <1>0, <2>3, <4>1
    <3> QED
      BY <1>4, <2>2, <2>5, <3>1 DEF RecentCounts
  <2>7. /\ Cardinality({new}) <= Threshold
        /\ Cardinality({e \in {new} : e[1] # at}) <= Threshold - 1
    BY <1>0, <2>3
  <2>8. TwoCounts(all, at, now, cur, {new}, since)
    BY <2>2, <2>5, <2>7 DEF TwoCounts
  <2> HIDE DEF late, all, count, first
  <2> QED
    BY <2>1, <2>6, <2>8 DEF Advanced
\* The count that is open grows by one.
<1>3. CASE ~Opens(failed, since, at)
  <2> DEFINE open == cur \cup {new}
             grown == {e \in open : e[1] # since}
  <2>1. count = failed + 1 /\ first = since /\ failed # 0 /\ at <= since + Window
    BY <1>0, <1>3 DEF Opens, NextCount, NextSince
  <2>2. open \in SUBSET all /\ prev \in SUBSET all
    OBVIOUS
  <2>3. Cardinality(open) \in Nat /\ Cardinality(open) <= Cardinality(cur) + 1
    BY <1>0, UnionCount
  <2>4. Cardinality(grown) \in Nat /\ Cardinality(grown) <= Cardinality(late) + 1
    <3>1. grown \subseteq late \cup {new}
      OBVIOUS
    <3>2. IsFiniteSet(late \cup {new}) /\ Cardinality(late \cup {new}) <= Cardinality(late) + 1
          /\ Cardinality(late \cup {new}) \in Nat
      <4> HIDE DEF late
      <4> QED
        BY <1>0, <1>1, UnionCount
    <3>3. Cardinality(grown) \in Nat /\ Cardinality(grown) <= Cardinality(late \cup {new})
      <4> HIDE DEF late, grown
      <4> QED
        BY <3>1, <3>2, SubsetCount
    <3> HIDE DEF late, grown
    <3> QED
      BY <1>1, <3>2, <3>3
  <2>5. \A e \in all \ (prev \cup open) : e[1] + Window < now
    BY <1>4 DEF RecentCounts
  <2>6. Cardinality(open) <= Threshold /\ Cardinality(grown) <= Threshold - 1
    <3>1. CASE failed < Threshold
      <4>1. Cardinality(cur) <= failed /\ Cardinality(late) <= failed - 1
        BY <1>4, <2>1 DEF RecentCounts
      <4> HIDE DEF open, grown, late
      <4> QED
        BY <1>0, <1>1, <2>3, <2>4, <3>1, <4>1
    <3>2. CASE ~(failed < Threshold)
      <4>1. cur = {} /\ late = {}
        BY <1>4, <3>2 DEF RecentCounts
      <4> HIDE DEF open, grown, late
      <4> QED
        BY <1>0, <1>1, <2>3, <2>4, <4>1
    <3> QED
      BY <3>1, <3>2
  <2>7. prev # {} => /\ ps + Window < since
                     /\ Cardinality(prev) <= Threshold - 1
                     /\ Cardinality({e \in prev : e[1] # ps}) <= Threshold - 2
                     /\ \A e \in prev : e[1] < since
    BY <1>4 DEF RecentCounts
  <2>8. ASSUME failed + 1 < Threshold
        PROVE  RecentCounts(all, failed + 1, since, now, prev, open, ps)
    <3>1. \A e \in open : e[1] <= since + Window
      BY <1>4, <2>1 DEF RecentCounts
    <3>2. Cardinality(open) <= failed + 1 /\ Cardinality(grown) <= failed + 1 - 1
      <4>1. Cardinality(cur) <= failed /\ Cardinality(late) <= failed - 1
        BY <1>4, <2>1 DEF RecentCounts
      <4> HIDE DEF open, grown, late
      <4> QED
        BY <1>0, <1>1, <2>3, <2>4, <4>1
    <3>3. failed + 1 # 0
      OBVIOUS
    <3>4. /\ \A e \in open : e[1] <= since + Window
          /\ Cardinality(open) <= failed + 1
          /\ failed + 1 # 0 => Cardinality({e \in open : e[1] # since}) <= failed + 1 - 1
      BY <3>1, <3>2
    <3> HIDE DEF open, grown
    <3> QED
      BY <1>4, <2>5, <2>7, <2>8, <3>3, <3>4 DEF RecentCounts
  <2>9. Cardinality({e \in open : e[1] # since}) <= Threshold - 1
    BY <2>6
  <2>10. TwoCounts(all, since, now, prev, open, ps)
    BY <2>5, <2>6, <2>7, <2>9 DEF TwoCounts
  <2> HIDE DEF open, grown, all, count, first
  <2> QED
    BY <2>1, <2>2, <2>8, <2>10 DEF Advanced
<1> QED
  BY <1>2, <1>3

\* One more wrong answer leaves every span within the bound: what neither count
\* holds is too old to share a span with it.
LEMMA AnswerCounted ==
  ASSUME NEW answers, IsFiniteSet(answers), \A e \in answers : e[1] \in Int,
         NEW failed \in Nat, NEW since \in Int, NEW now \in Int,
         Counted(answers, failed, since, NotLocked, now), Bounded(answers),
         NEW new, new[1] \in Int, new[1] <= now, now <= new[1] + MaxLag
  PROVE  /\ Bounded(answers \cup {new})
         /\ NextCount(failed, since, new[1]) < Threshold =>
              Counted(answers \cup {new}, NextCount(failed, since, new[1]),
                      NextSince(failed, since, new[1]), NotLocked, now)
<1> DEFINE all == answers \cup {new}
           at == new[1]
           count == NextCount(failed, since, at)
           first == NextSince(failed, since, at)
<1>0. /\ Threshold \in Nat \ {0, 1} /\ Window \in Nat /\ MaxLag \in Nat /\ LastMinute \in Nat
      /\ IsFiniteSet(all) /\ \A e \in all : e[1] \in Int /\ first \in Int
  BY AccountAssumption, FS_AddElement DEF AccountAssumption, NextSince
<1>1. Advanced(all, count, first, now)
  BY CountsStep
<1>2. PICK before \in SUBSET all, open \in SUBSET all, bs \in Int :
        /\ TwoCounts(all, first, now, before, open, bs)
        /\ count < Threshold => RecentCounts(all, count, first, now, before, open, bs)
  <2> HIDE DEF all, count, first
  <2> QED
    BY <1>1 DEF Advanced
<1>3. ASSUME NEW from \in 0..LastMinute
      PROVE  Cardinality(InSpan(all, from)) <= 2 * Threshold - 2
  <2>0. from \in Int
    BY <1>0
  <2>1. CASE at \notin from .. from + Window - MaxLag
    <3>1. InSpan(all, from) = InSpan(answers, from)
      BY <2>1 DEF InSpan
    <3> QED
      BY <3>1 DEF Bounded
  <2>2. CASE at \in from .. from + Window - MaxLag
    <3>1. ASSUME NEW e \in InSpan(all, from), e \notin before \cup open PROVE FALSE
      <4>1. e[1] \in Int /\ e[1] >= from /\ e[1] + Window < now
        BY <1>0, <1>2, <2>0, <3>1 DEF InSpan, TwoCounts
      <4>2. at <= from + Window - MaxLag
        BY <1>0, <2>0, <2>2
      <4> QED
        BY <1>0, <2>0, <4>1, <4>2
    <3>2. InSpan(all, from) \subseteq before \cup open
      BY <3>1
    <3> QED
      <4> HIDE DEF InSpan
      <4> QED
        BY <1>0, <1>2, <2>0, <3>2, SpanOfTwoCounts
  <2> QED
    BY <2>1, <2>2
<1> QED
  BY <1>2, <1>3 DEF Bounded, Counted

\* Time and what the history drops.
LEMMA FewerCounted ==
  ASSUME NEW answers, IsFiniteSet(answers), \A e \in answers : e[1] \in Int,
         NEW failed \in Nat, NEW since \in Int, NEW until, NEW now \in Int,
         Counted(answers, failed, since, until, now), Bounded(answers),
         NEW fewer \in SUBSET answers, NEW later \in Int, now <= later
  PROVE  Counted(fewer, failed, since, until, later) /\ Bounded(fewer)
<1>0. /\ Threshold \in Nat \ {0, 1} /\ Window \in Nat /\ LastMinute \in Nat
  BY AccountAssumption DEF AccountAssumption
<1>1. ASSUME NEW S \in SUBSET answers, NEW G \in SUBSET S
      PROVE  Cardinality(G) \in Nat /\ Cardinality(S) \in Nat /\ Cardinality(G) <= Cardinality(S)
  BY FS_Subset, SubsetCount
<1>2. Bounded(fewer)
  <2> SUFFICES ASSUME NEW from \in 0..LastMinute
               PROVE  Cardinality(InSpan(fewer, from)) <= 2 * Threshold - 2
    BY DEF Bounded
  <2>1. InSpan(answers, from) \in SUBSET answers
        /\ InSpan(fewer, from) \in SUBSET InSpan(answers, from)
    BY DEF InSpan
  <2>2. Cardinality(InSpan(answers, from)) <= 2 * Threshold - 2
    BY DEF Bounded
  <2> QED
    BY <1>0, <1>1, <2>1, <2>2
<1>3. CASE until # NotLocked
  BY <1>2, <1>3 DEF Counted
<1>4. CASE until = NotLocked
  <2>1. PICK prev \in SUBSET answers, cur \in SUBSET answers, ps \in Int :
          RecentCounts(answers, failed, since, now, prev, cur, ps)
    BY <1>4 DEF Counted
  <2> DEFINE p == prev \cap fewer
             c == cur \cap fewer
  <2>2. \A e \in fewer \ (p \cup c) : e[1] + Window < later
    BY <1>0, <2>1 DEF RecentCounts
  <2>3. /\ failed < Threshold \/ (p = {} /\ c = {})
        /\ failed = 0 => p = {}
        /\ \A e \in c : e[1] <= since + Window
    BY <2>1 DEF RecentCounts
  <2>4. Cardinality(c) <= failed
    <3>1. Cardinality(c) \in Nat /\ Cardinality(cur) \in Nat /\ Cardinality(c) <= Cardinality(cur)
      BY <1>1
    <3> QED
      BY <2>1, <3>1 DEF RecentCounts
  <2>5. failed # 0 => Cardinality({e \in c : e[1] # since}) <= failed - 1
    <3> DEFINE a == {e \in c : e[1] # since}
               b == {e \in cur : e[1] # since}
    <3>1. a \in SUBSET b /\ b \in SUBSET answers
      OBVIOUS
    <3>2. failed # 0 => Cardinality(b) <= failed - 1
      BY <2>1 DEF RecentCounts
    <3>3. Cardinality(a) \in Nat /\ Cardinality(b) \in Nat /\ Cardinality(a) <= Cardinality(b)
      <4> HIDE DEF a, b
      <4> QED
        BY <1>1, <3>1
    <3>4. failed # 0 => Cardinality(a) <= failed - 1
      <4> HIDE DEF a, b
      <4> QED
        BY <3>2, <3>3
    <3> QED
      BY <3>4
  <2>6. p # {} => /\ ps + Window < since
                  /\ Cardinality(p) <= Threshold - 1
                  /\ Cardinality({e \in p : e[1] # ps}) <= Threshold - 2
                  /\ \A e \in p : e[1] < since
    <3> SUFFICES ASSUME p # {}
                 PROVE  /\ ps + Window < since
                        /\ Cardinality(p) <= Threshold - 1
                        /\ Cardinality({e \in p : e[1] # ps}) <= Threshold - 2
                        /\ \A e \in p : e[1] < since
      OBVIOUS
    <3> DEFINE a == {e \in p : e[1] # ps}
               b == {e \in prev : e[1] # ps}
    <3>1. a \in SUBSET b /\ b \in SUBSET answers /\ p \in SUBSET prev
      OBVIOUS
    <3>2. /\ ps + Window < since /\ Cardinality(prev) <= Threshold - 1
          /\ Cardinality(b) <= Threshold - 2 /\ \A e \in prev : e[1] < since
      BY <2>1 DEF RecentCounts
    <3>3. Cardinality(a) <= Threshold - 2
      <4> HIDE DEF a, b
      <4>1. Cardinality(a) \in Nat /\ Cardinality(b) \in Nat /\ Cardinality(a) <= Cardinality(b)
        BY <1>1, <3>1
      <4> QED
        BY <1>0, <3>2, <4>1
    <3>4. Cardinality(p) <= Threshold - 1
      <4>1. Cardinality(p) \in Nat /\ Cardinality(prev) \in Nat /\ Cardinality(p) <= Cardinality(prev)
        BY <1>1
      <4> HIDE DEF p
      <4> QED
        BY <1>0, <3>2, <4>1
    <3> QED
      BY <3>1, <3>2, <3>3, <3>4
  <2>7. p \in SUBSET fewer /\ c \in SUBSET fewer
    OBVIOUS
  <2> HIDE DEF p, c
  <2>8. RecentCounts(fewer, failed, since, later, p, c, ps)
    BY <2>2, <2>3, <2>4, <2>5, <2>6 DEF RecentCounts
  <2> QED
    BY <1>2, <1>4, <2>7, <2>8 DEF Counted
<1> QED
  BY <1>3, <1>4

\* Once the answers are forgotten any count will do, and any lock.
LEMMA NoneCounted ==
  ASSUME NEW failed \in Nat, NEW since \in Int, NEW until, NEW now \in Int
  PROVE  Counted({}, failed, since, until, now) /\ Bounded({})
<1>0. Threshold \in Nat \ {0, 1} /\ Cardinality({}) = 0
  BY AccountAssumption, FS_EmptySet DEF AccountAssumption
<1>1. RecentCounts({}, failed, since, now, {}, {}, 0)
  <2>1. {e \in {} : e[1] # since} = {}
    OBVIOUS
  <2>2. /\ Cardinality({}) <= failed
        /\ failed # 0 => Cardinality({e \in {} : e[1] # since}) <= failed - 1
    BY <1>0, <2>1
  <2> QED
    BY <2>2 DEF RecentCounts
<1>2. ASSUME NEW from \in 0..LastMinute PROVE Cardinality(InSpan({}, from)) <= 2 * Threshold - 2
  <2>1. InSpan({}, from) = {}
    BY DEF InSpan
  <2> QED
    BY <1>0, <2>1
<1> QED
  BY <1>1, <1>2 DEF Counted, Bounded
\* The answers of a history, one by one.
LEMMA AnswersOf ==
  ASSUME wrong \in [0..LastMinute -> Nat]
  PROVE  /\ IsFiniteSet(WrongAnswers)
         /\ \A e \in WrongAnswers :
              e = <<e[1], e[2]>> /\ e[1] \in 0..LastMinute /\ e[2] \in 1 .. wrong[e[1]]
         /\ \A t \in 0..LastMinute : \A k \in 1 .. wrong[t] : <<t, k>> \in WrongAnswers
<1>0. LastMinute \in Nat
  BY AccountAssumption DEF AccountAssumption
<1> DEFINE perMinute == {{t} \X (1 .. wrong[t]) : t \in 0..LastMinute}
<1>1. IsFiniteSet(perMinute)
  <2>1. IsFiniteSet(0..LastMinute)
    BY <1>0, FS_Interval
  <2> DEFINE minute == [t \in 0..LastMinute |-> {t} \X (1 .. wrong[t])]
  <2>2. minute \in Surjection(0..LastMinute, perMinute)
    BY DEF Surjection
  <2> HIDE DEF minute, perMinute
  <2> QED
    BY <2>1, <2>2, FS_Surjection
<1>2. \A S \in perMinute : IsFiniteSet(S)
  <2> SUFFICES ASSUME NEW t \in 0..LastMinute PROVE IsFiniteSet({t} \X (1 .. wrong[t]))
    OBVIOUS
  <2>1. IsFiniteSet({t}) /\ IsFiniteSet(1 .. wrong[t])
    <3>1. 1 \in Int /\ wrong[t] \in Int
      OBVIOUS
    <3> QED
      BY <3>1, FS_Singleton, FS_Interval
  <2> QED
    BY <2>1, FS_Product
<1>3. IsFiniteSet(UNION perMinute)
  <2> HIDE DEF perMinute
  <2> QED
    BY <1>1, <1>2, FS_UNION
<1> QED
  BY <1>3 DEF WrongAnswers

LEMMA OneMoreAnswer ==
  ASSUME wrong \in [0..LastMinute -> Nat], NEW at \in 0..LastMinute,
         wrong' = [wrong EXCEPT ![at] = @ + 1]
  PROVE  /\ wrong' \in [0..LastMinute -> Nat]
         /\ WrongAnswers' = WrongAnswers \cup {<<at, wrong[at] + 1>>}
<1>1. wrong' \in [0..LastMinute -> Nat] /\ wrong'[at] = wrong[at] + 1
      /\ \A t \in (0..LastMinute) \ {at} : wrong'[t] = wrong[t]
  OBVIOUS
<1>2. ASSUME NEW t \in 0..LastMinute, NEW k
      PROVE  k \in 1 .. wrong'[t] <=> (k \in 1 .. wrong[t] \/ (t = at /\ k = wrong[at] + 1))
  BY <1>1
<1>3. \A e : e \in WrongAnswers' <=>
        \E t \in 0..LastMinute : \E k \in 1 .. wrong'[t] : e = <<t, k>>
  BY DEF WrongAnswers
<1>4. \A e : e \in WrongAnswers <=>
        \E t \in 0..LastMinute : \E k \in 1 .. wrong[t] : e = <<t, k>>
  BY DEF WrongAnswers
<1>5. ASSUME NEW e
      PROVE  e \in WrongAnswers' <=> e \in WrongAnswers \cup {<<at, wrong[at] + 1>>}
  BY <1>2, <1>3, <1>4
<1> QED
  BY <1>1, <1>5

LEMMA NoAnswers == ASSUME wrong = NoWrong PROVE WrongAnswers = {}
<1>1. \A e : e \in WrongAnswers <=>
        \E t \in 0..LastMinute : \E k \in 1 .. wrong[t] : e = <<t, k>>
  BY DEF WrongAnswers
<1>2. \A t \in 0..LastMinute : 1 .. wrong[t] = {}
  BY DEF NoWrong
<1> QED
  BY <1>1, <1>2
LEMMA WorkKept ==
  ASSUME TimelyWork, NEW r \in Users, NEW w, work' = [work EXCEPT ![r] = w], time' = time,
         w.pc \in Attempts \cup {"CONFIRM"} =>
           "at" \in DOMAIN w /\ w.at \in Nat /\ w.at <= time /\ time <= w.at + MaxLag
  PROVE  TimelyWork'
<1>1. work' = [q \in Users |-> work'[q]] /\ work'[r] = w
      /\ \A q \in Users \ {r} : work'[q] = work[q]
  BY DEF TimelyWork
<1> QED
  BY <1>1 DEF TimelyWork

LEMMA WorkDone ==
  ASSUME TimelyWork, NEW r \in Users, Done(r), time' = time
  PROVE  TimelyWork'
<1>1. NoWork.pc \notin Attempts \cup {"CONFIRM"}
  BY DEF NoWork, Attempts
<1> QED
  BY <1>1, WorkKept DEF Done

\* What a login or a re-authentication that meets no lock finds: either the
\* counts as they are, or answers that are all too old.
LEMMA LoadedCounted ==
  ASSUME FailuresInv, NEW r \in Users, work[r].pc \in Attempts, ~LockedFor(r)
  PROVE  /\ RowShaped(Loaded) /\ Loaded.failed \in Nat /\ Loaded.since \in Int
         /\ Loaded.lockedUntil = NotLocked
         /\ Counted(WrongAnswers, Loaded.failed, Loaded.since, NotLocked, time)
<1>0. RowTyped /\ RowShaped(credential) /\ LastMinute \in Nat /\ time \in Int
  BY AccountAssumption DEF FailuresInv, RowTyped, AccountAssumption
<1>1. CASE credential.lockedUntil = NotLocked
  BY <1>1 DEF FailuresInv, RowTyped, AnswersCounted, Loaded
<1>2. CASE credential.lockedUntil # NotLocked
  <2>1. /\ RowShaped(Loaded) /\ Loaded.failed = 0 /\ Loaded.since = credential.since
        /\ Loaded.lockedUntil = NotLocked
    BY <1>0, <1>2 DEF Loaded, RowShaped, CredentialColumns
  <2>2. credential.lockedUntil \in Int /\ credential.lockedUntil <= time
    BY <1>0 DEF FailuresInv, RowTyped, TimelyWork, LockedFor
  <2>3. \A e \in WrongAnswers : e[1] \in Int /\ e[1] + Window < time
    <3>1. \A e \in WrongAnswers : e[1] \in Int
      BY <1>0, AnswersOf DEF FailuresInv
    <3>2. \A e \in WrongAnswers : e[1] + Window < credential.lockedUntil
      BY <1>2 DEF FailuresInv, AnswersCounted, Counted
    <3> QED
      BY <1>0, <2>2, <3>1, <3>2, AccountAssumption DEF AccountAssumption
  <2>4. RecentCounts(WrongAnswers, 0, credential.since, time, {}, {}, 0)
    <3>1. Threshold \in Nat \ {0, 1} /\ Cardinality({}) = 0
      BY AccountAssumption, FS_EmptySet DEF AccountAssumption
    <3> QED
      BY <2>3, <3>1 DEF RecentCounts
  <2>5. Counted(WrongAnswers, 0, credential.since, NotLocked, time)
    BY <2>4 DEF Counted
  <2> QED
    BY <1>0, <2>1, <2>5 DEF RowTyped
<1> QED
  BY <1>1, <1>2

\* The wrong answer itself.
LEMMA WrongCounted ==
  ASSUME FailuresInv, NEW r \in Users, AnswerWrong(r)
  PROVE  FailuresInv'
<1> DEFINE at == work[r].at
           l == Loaded
           new == <<at, wrong[at] + 1>>
           count == NextCount(l.failed, l.since, at)
           first == NextSince(l.failed, l.since, at)
<1>0. /\ LastMinute \in Nat /\ Window \in Nat /\ Duration \in Nat /\ MaxLag \in Nat
      /\ Threshold \in Nat \ {0, 1} /\ Duration > Window + MaxLag
      /\ time \in 0..LastMinute /\ wrong \in [0..LastMinute -> Nat] /\ time' = time
  BY AccountAssumption DEF FailuresInv, AccountAssumption, AnswerWrong
<1>1. at \in 0..LastMinute /\ at <= time /\ time <= at + MaxLag
  BY <1>0 DEF FailuresInv, TimelyWork, AnswerWrong
<1>2. /\ RowShaped(l) /\ l.failed \in Nat /\ l.since \in Int /\ l.lockedUntil = NotLocked
      /\ Counted(WrongAnswers, l.failed, l.since, NotLocked, time)
  BY LoadedCounted DEF AnswerWrong
<1>3. wrong' \in [0..LastMinute -> Nat] /\ WrongAnswers' = WrongAnswers \cup {new}
  BY <1>0, <1>1, OneMoreAnswer DEF AnswerWrong
<1>4. /\ IsFiniteSet(WrongAnswers) /\ \A e \in WrongAnswers : e[1] \in Int /\ e[1] <= time
      /\ Bounded(WrongAnswers)
  BY <1>0, AnswersOf DEF FailuresInv, AnswersCounted
<1>5. /\ new[1] = at /\ at \in Int /\ time \in Int /\ first \in Int /\ count \in Nat
  <2> HIDE DEF l
  <2> QED
    BY <1>0, <1>1, <1>2 DEF NextSince, NextCount
<1>6. /\ RowShaped(credential') /\ credential'.failed = count /\ credential'.since = first
      /\ credential'.lockedUntil = IF count >= Threshold THEN at + Duration ELSE NotLocked
  <2>1. credential' = Failed(l, at)
    BY DEF AnswerWrong
  <2> HIDE DEF l, at
  <2> QED
    BY <1>2, <2>1 DEF Failed, NextCount, NextSince, Opens, RowShaped, CredentialColumns
<1>7. /\ Bounded(WrongAnswers \cup {new})
      /\ count < Threshold => Counted(WrongAnswers \cup {new}, count, first, NotLocked, time)
  <2> HIDE DEF l, at, new
  <2>1. new[1] \in Int /\ new[1] <= time /\ time <= new[1] + MaxLag
    BY <1>1, <1>5
  <2> QED
    BY <1>2, <1>4, <1>5, <2>1, AnswerCounted
<1>8. \A e \in WrongAnswers \cup {new} : e[1] \in Int /\ e[1] <= time
  BY <1>1, <1>4, <1>5
<1> HIDE DEF l, at, new, count, first
<1>9. Counted(WrongAnswers', credential'.failed, credential'.since, credential'.lockedUntil, time')
  <2>1. CASE count < Threshold
    <3>1. credential'.lockedUntil = NotLocked
      BY <1>0, <1>5, <1>6, <2>1
    <3> QED
      BY <1>0, <1>3, <1>6, <1>7, <2>1, <3>1
  <2>2. CASE ~(count < Threshold)
    <3>1. credential'.lockedUntil = at + Duration
      <4>1. count >= Threshold
        BY <1>0, <1>5, <2>2
      <4> QED
        BY <1>6, <4>1
    <3>2. at + Duration # NotLocked
      BY <1>0, <1>1 DEF NotLocked
    <3>3. \A e \in WrongAnswers \cup {new} : e[1] + Window < at + Duration
      BY <1>0, <1>1, <1>8
    <3> QED
      BY <1>3, <3>1, <3>2, <3>3 DEF Counted
  <2> QED
    BY <2>1, <2>2
<1>10. RowTyped'
  BY <1>0, <1>1, <1>5, <1>6 DEF RowTyped, NotLocked
<1>11. TimelyWork'
  BY WorkDone DEF AnswerWrong, FailuresInv
<1> QED
  BY <1>0, <1>3, <1>7, <1>8, <1>9, <1>10, <1>11 DEF FailuresInv, AnswersCounted

\* What leaves the history alone, and the columns of the count.
LEMMA AnswersKept ==
  ASSUME FailuresInv, UNCHANGED <<time, wrong>>, RowShaped(credential'),
         credential'.failed = credential.failed, credential'.since = credential.since,
         credential'.lockedUntil = credential.lockedUntil, TimelyWork'
  PROVE  FailuresInv'
<1>1. WrongAnswers' = WrongAnswers
  BY DEF WrongAnswers
<1> QED
  BY <1>1 DEF FailuresInv, RowTyped, AnswersCounted

\* What forgets it.
LEMMA AnswersForgotten ==
  ASSUME FailuresInv, time' = time, wrong' = NoWrong, RowTyped', TimelyWork'
  PROVE  FailuresInv'
<1>0. LastMinute \in Nat
  BY AccountAssumption DEF AccountAssumption
<1>1. wrong' \in [0..LastMinute -> Nat] /\ WrongAnswers' = {}
  <2>1. WrongAnswers' = {}
    <3>1. \A e : e \in WrongAnswers' <=>
            \E t \in 0..LastMinute : \E k \in 1 .. wrong'[t] : e = <<t, k>>
      BY DEF WrongAnswers
    <3>2. \A t \in 0..LastMinute : 1 .. wrong'[t] = {}
      BY DEF NoWrong
    <3> QED
      BY <3>1, <3>2
  <2> QED
    BY <2>1 DEF NoWrong
<1>2. Counted({}, credential'.failed, credential'.since, credential'.lockedUntil, time')
      /\ Bounded({})
  BY <1>0, NoneCounted DEF FailuresInv, RowTyped
<1> QED
  BY <1>1, <1>2 DEF FailuresInv, AnswersCounted
LEMMA AccountKeepsFailures == FailuresInv /\ [AccountNext]_accountVars => FailuresInv'
<1> SUFFICES ASSUME FailuresInv, [AccountNext]_accountVars PROVE FailuresInv'
  OBVIOUS
<1>0. TimelyWork /\ RowTyped /\ RowShaped(credential) /\ time \in Nat
      /\ time \in 0..LastMinute /\ LastMinute \in Nat /\ MaxLag \in Nat
  BY AccountAssumption DEF FailuresInv, RowTyped, AccountAssumption
<1>1. ASSUME NEW r \in Users, Done(r), UNCHANGED <<time, credential, wrong>> PROVE FailuresInv'
  BY <1>0, <1>1, WorkDone, AnswersKept
<1>2. ASSUME NEW r \in Users, NEW kind \in Attempts \cup {"CONFIRM"}, Ask(r, kind)
      PROVE  FailuresInv'
  <2> DEFINE w == [pc |-> kind, at |-> time]
  <2>1. "at" \in DOMAIN w /\ w.at \in Nat /\ w.at <= time /\ time <= w.at + MaxLag
    BY <1>0
  <2>2. work' = [work EXCEPT ![r] = w] /\ UNCHANGED <<time, credential, wrong>>
    BY <1>2 DEF Ask
  <2> HIDE DEF w
  <2>3. TimelyWork'
    BY <1>0, <2>1, <2>2, WorkKept
  <2> QED
    BY <1>0, <2>2, <2>3, AnswersKept
<1>3. ASSUME NEW r \in Users, AnswerRight(r) \/ AskForCode(r), UNCHANGED wrong,
             credential' = Loaded
      PROVE  FailuresInv'
  <2>1. /\ RowShaped(Loaded) /\ Loaded.failed \in Nat /\ Loaded.since \in Int
        /\ Loaded.lockedUntil = NotLocked
        /\ Counted(WrongAnswers, Loaded.failed, Loaded.since, NotLocked, time)
    BY <1>3, LoadedCounted DEF AnswerRight, AskForCode, Attempts
  <2>2. TimelyWork' /\ time' = time /\ WrongAnswers' = WrongAnswers
    BY <1>0, <1>3, WorkDone DEF AnswerRight, AskForCode, WrongAnswers
  <2> HIDE DEF Loaded
  <2>3. RowTyped' /\ AnswersCounted'
    BY <1>3, <2>1, <2>2 DEF RowTyped, AnswersCounted, FailuresInv, NotLocked
  <2> QED
    BY <1>3, <2>2, <2>3 DEF FailuresInv
<1>4. ASSUME NEW r \in Users, AnswerRight(r), work[r].pc = "LOGIN" PROVE FailuresInv'
  <2>1. RowShaped(Loaded) /\ Loaded.failed \in Nat /\ Loaded.since \in Int
    BY <1>4, LoadedCounted DEF AnswerRight
  <2>2. /\ credential' = [Loaded EXCEPT !.failed = 0, !.lockedUntil = NotLocked]
        /\ wrong' = NoWrong /\ time' = time /\ TimelyWork'
    BY <1>0, <1>4, WorkDone DEF AnswerRight
  <2> HIDE DEF Loaded
  <2>3. RowTyped'
    <3>1. /\ RowShaped(credential') /\ credential'.failed = 0
          /\ credential'.since = Loaded.since /\ credential'.lockedUntil = NotLocked
      BY <2>1, <2>2 DEF RowShaped, CredentialColumns
    <3> QED
      BY <2>1, <3>1 DEF RowTyped, NotLocked
  <2> QED
    BY <2>2, <2>3, AnswersForgotten
<1>5. ASSUME NEW r \in Users, NEW t \in Tokens, LoadForReset(r, t) PROVE FailuresInv'
  <2> DEFINE w == [pc |-> "RESET", token |-> t, copy |-> Lockout(credential)]
  <2>1. CASE Done(r)
    BY <1>1, <1>5, <2>1 DEF LoadForReset
  <2>2. CASE work' = [work EXCEPT ![r] = w]
    <3>1. w.pc \notin Attempts \cup {"CONFIRM"}
      BY DEF Attempts
    <3>2. UNCHANGED <<time, credential, wrong>>
      BY <1>5 DEF LoadForReset
    <3> HIDE DEF w
    <3>3. TimelyWork'
      BY <1>0, <2>2, <3>1, <3>2, WorkKept
    <3> QED
      BY <1>0, <3>2, <3>3, AnswersKept
  <2> QED
    BY <1>5, <2>1, <2>2 DEF LoadForReset
<1>6. ASSUME NEW r \in Users, WriteReset(r) PROVE FailuresInv'
  <2>1. RowTyped'
    <3> DEFINE f == Written("failed", work[r].copy, 0)
               u == Written("lockedUntil", work[r].copy, NotLocked)
    <3>1. f \in Nat /\ u \in Int
      BY <1>0 DEF Written, RowTyped, NotLocked
    <3>2. credential' = [credential EXCEPT !.failed = f, !.lockedUntil = u]
      BY <1>6 DEF WriteReset
    <3> HIDE DEF f, u
    <3>3. /\ RowShaped(credential') /\ credential'.failed = f
          /\ credential'.since = credential.since /\ credential'.lockedUntil = u
      BY <1>0, <3>2 DEF RowShaped, CredentialColumns
    <3> QED
      BY <1>0, <3>1, <3>3 DEF RowTyped
  <2> QED
    BY <1>0, <1>6, <2>1, WorkDone, AnswersForgotten DEF WriteReset
<1>7. ASSUME NEW r \in Users, EnrolRead(r) \/ VerifyRead(r) PROVE FailuresInv'
  <2>1. PICK w : work' = [work EXCEPT ![r] = w] /\ w.pc \in {"ENROLLING", "VERIFYING"}
    <3>1. ASSUME NEW name \in {"ENROLLING", "VERIFYING"}, NEW copy,
                 work' = [work EXCEPT ![r] = [pc |-> name, copy |-> copy]]
          PROVE  \E w : work' = [work EXCEPT ![r] = w] /\ w.pc \in {"ENROLLING", "VERIFYING"}
      <4>1. [pc |-> name, copy |-> copy].pc \in {"ENROLLING", "VERIFYING"}
        OBVIOUS
      <4> QED
        BY <3>1, <4>1
    <3> QED
      BY <1>7, <3>1 DEF EnrolRead, VerifyRead
  <2>2. w.pc \notin Attempts \cup {"CONFIRM"}
    BY <2>1 DEF Attempts
  <2>3. UNCHANGED <<time, credential, wrong>>
    BY <1>7 DEF EnrolRead, VerifyRead
  <2> QED
    BY <1>0, <2>1, <2>2, <2>3, WorkKept, AnswersKept
<1>8. ASSUME NEW r \in Users, WriteEnrol(r) \/ WriteVerify(r) PROVE FailuresInv'
  <2>1. /\ RowShaped(credential') /\ credential'.failed = credential.failed
        /\ credential'.since = credential.since
        /\ credential'.lockedUntil = credential.lockedUntil
    BY <1>0, <1>8 DEF WriteEnrol, WriteVerify, RowShaped, CredentialColumns
  <2>2. TimelyWork' /\ UNCHANGED <<time, wrong>>
    BY <1>0, <1>8, WorkDone DEF WriteEnrol, WriteVerify
  <2> QED
    BY <2>1, <2>2, AnswersKept
<1>9. CASE Pass
  <2>0. /\ time' = time + 1 /\ time' \in 0..LastMinute /\ time \in Int /\ time' \in Int
        /\ UNCHANGED <<credential, work>> /\ wrong \in [0..LastMinute -> Nat]
        /\ wrong' = [t \in 0..LastMinute |-> IF t + Window + MaxLag < time' THEN 0 ELSE wrong[t]]
    BY <1>0, <1>9 DEF Pass, FailuresInv
  <2>1. TimelyWork'
    <3>1. ASSUME NEW r \in Users, work[r].pc \in Attempts \cup {"CONFIRM"}
          PROVE  /\ "at" \in DOMAIN work[r] /\ work[r].at \in Nat
                 /\ work[r].at <= time' /\ time' <= work[r].at + MaxLag
      BY <1>0, <1>9, <2>0, <3>1 DEF Pass, TimelyWork
    <3> QED
      BY <1>0, <2>0, <3>1 DEF TimelyWork
  <2>2. wrong' \in [0..LastMinute -> Nat]
        /\ \A t \in 0..LastMinute : wrong'[t] = 0 \/ wrong'[t] = wrong[t]
    BY <2>0
  <2>3. WrongAnswers' \subseteq WrongAnswers
    <3>1. \A e \in WrongAnswers' :
            \E t \in 0..LastMinute : \E k \in 1 .. wrong'[t] : e = <<t, k>>
      BY DEF WrongAnswers
    <3>2. ASSUME NEW t \in 0..LastMinute, NEW k \in 1 .. wrong'[t]
          PROVE  <<t, k>> \in WrongAnswers
      <4>1. wrong'[t] # 0
        BY <2>2
      <4>2. k \in 1 .. wrong[t]
        BY <2>2, <4>1
      <4> QED
        BY <2>0, <4>2, AnswersOf
    <3> QED
      BY <3>1, <3>2
  <2>4. IsFiniteSet(WrongAnswers) /\ \A e \in WrongAnswers : e[1] \in Int
    BY <1>0, <2>0, AnswersOf
  <2>5. /\ Counted(WrongAnswers', credential.failed, credential.since,
                   credential.lockedUntil, time')
        /\ Bounded(WrongAnswers')
    <3>1. PICK fewer \in SUBSET WrongAnswers : fewer = WrongAnswers'
      BY <2>3
    <3>2. PICK later \in Int : later = time' /\ time <= later
      BY <2>0
    <3>3. /\ Counted(WrongAnswers, credential.failed, credential.since,
                     credential.lockedUntil, time)
          /\ Bounded(WrongAnswers) /\ credential.failed \in Nat /\ credential.since \in Int
      BY <1>0 DEF FailuresInv, AnswersCounted, RowTyped
    <3>4. Counted(fewer, credential.failed, credential.since, credential.lockedUntil, later)
          /\ Bounded(fewer)
      BY <2>0, <2>4, <3>2, <3>3, FewerCounted
    <3> QED
      BY <3>1, <3>2, <3>4
  <2>6. RowTyped'
    BY <1>0, <2>0 DEF RowTyped
  <2>7. \A e \in WrongAnswers' : e[1] <= time'
    BY <2>0, <2>3, <2>4 DEF FailuresInv, AnswersCounted
  <2> QED
    BY <2>0, <2>1, <2>2, <2>5, <2>6, <2>7 DEF FailuresInv, AnswersCounted
<1>10. CASE UNCHANGED <<time, credential, work, wrong>>
  <2>1. TimelyWork'
    BY <1>0, <1>10 DEF TimelyWork
  <2> QED
    BY <1>0, <1>10, <2>1, AnswersKept
<1>11. ASSUME NEW r \in Users, AnswerRight(r) PROVE FailuresInv'
  BY <1>3, <1>4, <1>11 DEF AnswerRight
<1>12. ASSUME NEW r \in Users, RefuseLocked(r) \/ Abort(r) PROVE FailuresInv'
  BY <1>1, <1>12 DEF RefuseLocked, Abort
<1>13. ASSUME NEW r \in Users, AskForCode(r) PROVE FailuresInv'
  BY <1>3, <1>13 DEF AskForCode
<1>14. ASSUME NEW t \in Tokens, RequestReset(t) PROVE FailuresInv'
  BY <1>10, <1>14 DEF RequestReset
<1> QED
  BY <1>2, <1>5, <1>6, <1>7, <1>8, <1>9, <1>10, <1>11, <1>12, <1>13, <1>14, WrongCounted
     DEF AccountNext, accountVars

\* However logins, re-authentications and resets interleave, no Window, less the
\* time a request takes, holds more wrong answers than two counts can: what an
\* earlier count left is too old by then, and a lock outlasts all it has seen.
THEOREM FailuresStayBounded == AccountSpec => []FailuresBounded
<1>1. AccountInit => FailuresInv
  <2> SUFFICES ASSUME AccountInit PROVE FailuresInv
    OBVIOUS
  <2>1. time \in 0..LastMinute /\ time = 0 /\ wrong = NoWrong
        /\ wrong \in [0..LastMinute -> Nat] /\ LastMinute \in Nat
    BY AccountAssumption DEF AccountInit, NoWrong, AccountAssumption
  <2>2. TimelyWork
    BY DEF AccountInit, TimelyWork, NoWork, Attempts
  <2>3. RowTyped
    BY DEF AccountInit, RowTyped, RowShaped, CredentialColumns, NotLocked
  <2>4. WrongAnswers = {}
    BY <2>1, NoAnswers
  <2>5. AnswersCounted
    BY <2>1, <2>3, <2>4, NoneCounted DEF AnswersCounted, RowTyped
  <2> QED
    BY <2>1, <2>2, <2>3, <2>5 DEF FailuresInv
<1>2. FailuresInv => FailuresBounded
  BY DEF FailuresInv, AnswersCounted, Bounded, InSpan, FailuresBounded
<1> QED
  BY <1>1, <1>2, AccountKeepsFailures, PTL DEF AccountSpec

--------------------------------------------------------------------------------
(* Sessions *)

WholeHash == [whole : {TRUE}, absolute : Int, idle : Int, dies : Int]
PartHash == [whole : {FALSE}, idle : Int, dies : Int]
HashRow == WholeHash \cup PartHash \cup {Gone}
UseRow == [born : Int, seen : Int, ended : BOOLEAN]
LoginSteps == {"NEW", "HSET", "EXPIRE", "COMMIT", "ANSWER", "DONE", "BROKEN"}
CallRow ==
  [pc : {"READ", "JUDGE", "SLIDE", "EXPIRE", "USER", "DELETE", "LOGOUT", "SERVED"},
   session : SessionIds, op : {"READ", "LOGOUT"}, copy : HashRow,
   to : Int, ttl : Int, done : Int, live : BOOLEAN]

SessionType ==
  /\ clock \in Int /\ active \in BOOLEAN /\ cookie \subseteq SessionIds
  /\ hash \in [SessionIds -> HashRow] /\ used \in [SessionIds -> UseRow]
  /\ login \in [SessionIds -> LoginSteps]
  /\ call \in [Calls -> CallRow \cup {NoCall}]

\* A hash that passes for a session is of one that has not ended, and allows
\* no more than its history does.
SessionOk(s) ==
  /\ used[s].seen <= clock
  /\ s \in cookie => login[s] = "DONE"
  /\ login[s] \in {"NEW", "HSET"} => hash[s] = Gone /\ ~used[s].ended
  /\ hash[s].whole =>
       /\ ~used[s].ended /\ hash[s].absolute = used[s].born + FullTime
       /\ hash[s].idle <= used[s].seen + IdleTime

\* The same of what a request has copied and will write; and one whose session
\* was over when it began is refused at the next place that looks.
CallOk(c) ==
  LET s == call[c].session
      copy == call[c].copy
  IN call[c] # NoCall =>
     /\ s \in cookie
     /\ call[c].pc = "JUDGE" /\ copy.whole =>
          copy.absolute = used[s].born + FullTime /\ copy.idle <= used[s].seen + IdleTime
     /\ call[c].pc = "SLIDE" => call[c].to <= used[s].seen + IdleTime
     /\ ~call[c].live =>
          /\ ~Live(s) /\ call[c].pc \notin {"LOGOUT", "SERVED"}
          /\ call[c].pc \in {"SLIDE", "EXPIRE", "USER"} => ~active
          /\ call[c].pc = "JUDGE" =>
               ~active \/ ~copy.whole \/ copy.absolute <= clock \/ copy.idle <= clock

SessionInv ==
  SessionType /\ (\A s \in SessionIds : SessionOk(s)) /\ (\A c \in Calls : CallOk(c))

\* What time and other requests do to a session that is in use.
Ages(s) ==
  /\ used'[s].born = used[s].born /\ used'[s].seen >= used[s].seen
  /\ Live(s)' => Live(s)

LEMMA HashFacts ==
  ASSUME NEW h \in HashRow, h.whole
  PROVE  h \in WholeHash /\ h.absolute \in Int /\ h.idle \in Int
<1>1. h \in PartHash => h.whole = FALSE
  BY DEF PartHash
<1>2. Gone.whole = FALSE
  BY DEF Gone
<1>3. h \in WholeHash
  BY <1>1, <1>2 DEF HashRow
<1> QED
  BY <1>3 DEF WholeHash

\* EXCEPT, one field at a time.
LEMMA Renewed ==
  ASSUME NEW k \in CallRow
  PROVE  LET row == [k EXCEPT !.pc = "USER", !.copy = Gone, !.to = 0, !.ttl = 0]
         IN /\ row \in CallRow /\ row.pc = "USER"
            /\ row.session = k.session /\ row.live = k.live
            /\ row.done = k.done /\ row.ttl = 0
<1>1. PICK k1 \in CallRow : k1 = [k EXCEPT !.pc = "USER"]
  BY DEF CallRow
<1>2. PICK k2 \in CallRow : k2 = [k1 EXCEPT !.copy = Gone]
  BY DEF CallRow, HashRow
<1>0. PICK zero \in Int : zero = 0
  OBVIOUS
<1>3. PICK k3 \in CallRow : k3 = [k2 EXCEPT !.to = zero]
  BY DEF CallRow
<1>4. PICK k4 \in CallRow : k4 = [k3 EXCEPT !.ttl = zero]
  BY DEF CallRow
<1>5. [k EXCEPT !.pc = "USER", !.copy = Gone, !.to = 0, !.ttl = 0] = k4
  BY <1>0, <1>1, <1>2, <1>3, <1>4
<1>6. k1.pc = "USER" /\ k1.session = k.session /\ k1.live = k.live /\ k1.done = k.done
  BY <1>1 DEF CallRow
<1>7. k2.pc = k1.pc /\ k2.session = k1.session /\ k2.live = k1.live /\ k2.done = k1.done
  BY <1>2 DEF CallRow
<1>8. k3.pc = k2.pc /\ k3.session = k2.session /\ k3.live = k2.live /\ k3.done = k2.done
  BY <1>3 DEF CallRow
<1>9. /\ k4.pc = k3.pc /\ k4.session = k3.session /\ k4.live = k3.live /\ k4.done = k3.done
      /\ k4.ttl = zero
  BY <1>4 DEF CallRow
<1> QED
  BY <1>0, <1>5, <1>6, <1>7, <1>8, <1>9

LEMMA OthersRest ==
  ASSUME SessionType, SessionType', NEW c \in Calls, CallOk(c), call'[c] = call[c],
         cookie \subseteq cookie', clock' >= clock, active' => active,
         call[c] # NoCall => Ages(call[c].session)
  PROVE  CallOk(c)'
<1> SUFFICES ASSUME call[c] # NoCall PROVE CallOk(c)'
  BY DEF CallOk
<1>1. PICK s \in SessionIds : s = call[c].session /\ s = call'[c].session
  BY DEF SessionType, CallRow
<1>2. /\ used[s].born \in Int /\ used[s].seen \in Int /\ used'[s].born \in Int
      /\ used'[s].seen \in Int /\ clock \in Int /\ clock' \in Int
      /\ FullTime \in Nat /\ IdleTime \in Nat
  BY SessionAssumption DEF SessionType, UseRow, SessionAssumption
<1>3. /\ call[c].copy.whole => call[c].copy.absolute \in Int /\ call[c].copy.idle \in Int
      /\ call[c].to \in Int
  <2>1. call[c].copy \in HashRow /\ call[c].to \in Int
    BY DEF SessionType, CallRow
  <2> QED
    BY <2>1, HashFacts
<1>4. Ages(s) /\ s \in cookie
  BY <1>1 DEF CallOk
<1> QED
  BY <1>1, <1>2, <1>3, <1>4 DEF CallOk, Ages

\* A step of request c, if any, and of the sessions keeps the invariant.
LEMMA SessionKeeps ==
  ASSUME SessionInv, SessionType',
         \A c \in Calls : call'[c] = call[c] \/ CallOk(c)',
         cookie \subseteq cookie', clock' >= clock, active' => active,
         \A s \in cookie : Ages(s),
         \A s \in SessionIds : SessionOk(s)'
  PROVE  SessionInv'
<1>1. ASSUME NEW c \in Calls, call'[c] = call[c] PROVE CallOk(c)'
  <2>1. call[c] # NoCall => Ages(call[c].session)
    BY <1>1 DEF SessionInv, CallOk
  <2> QED
    BY <1>1, <2>1, OthersRest DEF SessionInv
<1> QED
  BY <1>1 DEF SessionInv

\* A step that changes no session's history, clock, user or hash.
LEMMA QuietKeeps ==
  ASSUME SessionInv, NEW c \in Calls, NEW row, call' = [call EXCEPT ![c] = row],
         row \in CallRow \cup {NoCall}, CallOk(c)',
         UNCHANGED <<clock, active, hash, login, cookie, used>>
  PROVE  SessionInv'
<1>1. SessionType' /\ \A d \in Calls \ {c} : call'[d] = call[d]
  BY DEF SessionInv, SessionType
<1>2. \A s \in SessionIds : SessionOk(s)' /\ Ages(s)
  BY DEF SessionInv, SessionType, SessionOk, Ages, Live, UseRow
<1>3. clock' >= clock /\ (active' => active) /\ cookie \subseteq cookie' /\ cookie \subseteq SessionIds
  BY DEF SessionInv, SessionType
<1> QED
  BY <1>1, <1>2, <1>3, SessionKeeps

LEMMA EndCallKeeps ==
  ASSUME SessionInv, NEW c \in Calls, EndCall(c),
         UNCHANGED <<clock, active, hash, login, cookie, used>>
  PROVE  SessionInv'
<1>1. CallOk(c)'
  BY DEF EndCall, CallOk, SessionInv, SessionType
<1> QED
  BY <1>1, QuietKeeps DEF EndCall

LEMMA RemoveKeeps ==
  ASSUME SessionInv, NEW c \in Calls, call[c] # NoCall, Remove(call[c].session),
         NEW row \in CallRow \cup {NoCall}, call' = [call EXCEPT ![c] = row],
         row # NoCall => /\ row.pc \in {"LOGOUT", "SERVED"} /\ row.live
                         /\ row.session = call[c].session,
         UNCHANGED <<clock, active, login, cookie>>
  PROVE  SessionInv'
<1>0. SessionType /\ CallOk(c) /\ \A x \in SessionIds : SessionOk(x)
  BY DEF SessionInv
<1>1. PICK s \in SessionIds : s = call[c].session /\ s \in cookie
  BY <1>0 DEF SessionType, CallOk
<1>2. /\ hash' = [hash EXCEPT ![s] = Gone] /\ used' = [used EXCEPT ![s].ended = TRUE]
  BY <1>1 DEF Remove
<1>3. /\ hash' \in [SessionIds -> HashRow] /\ hash'[s] = Gone
      /\ \A x \in SessionIds \ {s} : hash'[x] = hash[x]
  BY <1>0, <1>2 DEF SessionType, HashRow
<1>4. /\ used' \in [SessionIds -> UseRow] /\ used'[s].ended
      /\ used'[s].born = used[s].born /\ used'[s].seen = used[s].seen
      /\ \A x \in SessionIds \ {s} : used'[x] = used[x]
  BY <1>0, <1>2 DEF SessionType, UseRow
<1>5. /\ call' \in [Calls -> CallRow \cup {NoCall}] /\ call'[c] = row
      /\ \A d \in Calls \ {c} : call'[d] = call[d]
  BY <1>0 DEF SessionType
<1>6. SessionType'
  BY <1>0, <1>3, <1>4, <1>5 DEF SessionType
<1>7. \A x \in SessionIds : SessionOk(x)'
  BY <1>0, <1>1, <1>3, <1>4 DEF SessionOk, Gone
<1>8. ASSUME NEW x \in SessionIds PROVE Ages(x)
  BY <1>0, <1>3, <1>4 DEF Ages, Live, SessionType, UseRow
<1>9. CallOk(c)'
  BY <1>1, <1>5 DEF CallOk
<1> QED
  BY <1>0, <1>5, <1>6, <1>7, <1>8, <1>9, SessionKeeps DEF SessionType

\* EXPIRE changes when a key dies and nothing else of it.
LEMMA Limiting ==
  ASSUME SessionType, NEW s \in SessionIds, NEW ttl \in Int, hash' = Limited(s, ttl)
  PROVE  /\ hash' \in [SessionIds -> HashRow]
         /\ \A x \in SessionIds \ {s} : hash'[x] = hash[x]
         /\ hash[s] = Gone => hash'[s] = Gone
         /\ hash'[s].whole => /\ hash[s].whole /\ hash'[s].absolute = hash[s].absolute
                              /\ hash'[s].idle = hash[s].idle
<1>1. clock + ttl \in Int /\ hash \in [SessionIds -> HashRow]
  BY DEF SessionType
<1>2. CASE hash[s] = Gone
  BY <1>1, <1>2 DEF Limited, Absent
<1>3. CASE hash[s] # Gone
  <2> DEFINE new == [hash[s] EXCEPT !.dies = clock + ttl]
  <2>1. hash' = [hash EXCEPT ![s] = new]
    BY <1>1, <1>3 DEF Limited, Absent
  <2>2. CASE hash[s] \in WholeHash
    <3>1. new \in WholeHash /\ new.absolute = hash[s].absolute /\ new.idle = hash[s].idle
          /\ hash[s].whole = TRUE
      BY <1>1, <2>2 DEF WholeHash
    <3> QED
      BY <1>1, <1>3, <2>1, <3>1 DEF HashRow
  <2>3. CASE hash[s] \in PartHash
    <3>1. new \in PartHash /\ new.whole = FALSE
      BY <1>1, <2>3 DEF PartHash
    <3> QED
      BY <1>1, <1>3, <2>1, <3>1 DEF HashRow
  <2> QED
    BY <1>1, <1>3, <2>2, <2>3 DEF HashRow
<1> QED
  BY <1>2, <1>3

\* A step of a login after which the hash and the history are what they were.
LoginMove(s, step) ==
  /\ step \in LoginSteps /\ login' = [login EXCEPT ![s] = step] /\ login[s] # "DONE"
  /\ login[s] \in {"NEW", "HSET"} \/ step \notin {"NEW", "HSET"}
  /\ cookie' = cookie \/ (cookie' = cookie \cup {s} /\ step = "DONE")
  /\ UNCHANGED <<clock, active, hash, used, call>>

LEMMA LoginMoves ==
  ASSUME SessionInv, NEW s \in SessionIds, NEW step, LoginMove(s, step)
  PROVE  SessionInv'
<1> USE DEF LoginMove
<1>0. SessionType /\ \A x \in SessionIds : SessionOk(x)
  BY DEF SessionInv
<1>1. /\ login' \in [SessionIds -> LoginSteps] /\ login'[s] = step
      /\ \A x \in SessionIds \ {s} : login'[x] = login[x]
  BY <1>0 DEF SessionType
<1>2. SessionType'
  BY <1>0, <1>1 DEF SessionType
<1>3. \A x \in SessionIds : SessionOk(x)'
  BY <1>0, <1>1 DEF SessionOk
<1>4. \A x \in SessionIds : Ages(x)
  BY <1>0 DEF Ages, Live, SessionType, UseRow
<1>5. clock' >= clock /\ cookie \subseteq SessionIds
  BY <1>0 DEF SessionType
<1> QED
  BY <1>2, <1>3, <1>4, <1>5, SessionKeeps

LEMMA StoreKeeps ==
  ASSUME SessionInv, NEW s \in SessionIds, Store(s)
  PROVE  SessionInv'
<1> DEFINE new == [whole |-> TRUE, absolute |-> clock + FullTime, idle |-> clock + IdleTime,
                   dies |-> Never]
<1>0. SessionType /\ \A x \in SessionIds : SessionOk(x)
  BY DEF SessionInv
<1>1. /\ login[s] = "HSET" /\ hash' = [hash EXCEPT ![s] = new]
      /\ used' = [used EXCEPT ![s].born = clock, ![s].seen = clock]
      /\ login' = [login EXCEPT ![s] = "EXPIRE"]
      /\ UNCHANGED <<clock, active, cookie, call>>
  BY DEF Store
<1>2. /\ clock \in Int /\ FullTime \in Nat /\ IdleTime \in Nat /\ MaxClock \in Nat
  BY <1>0, SessionAssumption DEF SessionType, SessionAssumption
<1>3. new \in HashRow /\ new.absolute = clock + FullTime /\ new.idle = clock + IdleTime
  BY <1>2 DEF HashRow, WholeHash, Never
<1>4. /\ hash' \in [SessionIds -> HashRow] /\ hash'[s] = new
      /\ \A x \in SessionIds \ {s} : hash'[x] = hash[x]
  BY <1>0, <1>1, <1>3 DEF SessionType
<1>5. /\ used' \in [SessionIds -> UseRow] /\ used'[s].ended = used[s].ended
      /\ used'[s].born = clock /\ used'[s].seen = clock
      /\ \A x \in SessionIds \ {s} : used'[x] = used[x]
  BY <1>0, <1>1, <1>2 DEF SessionType, UseRow
<1>6. /\ login' \in [SessionIds -> LoginSteps] /\ login'[s] = "EXPIRE"
      /\ \A x \in SessionIds \ {s} : login'[x] = login[x]
  BY <1>0, <1>1 DEF SessionType, LoginSteps
<1>7. SessionType'
  BY <1>0, <1>1, <1>4, <1>5, <1>6 DEF SessionType
<1>8. SessionOk(s)'
  <2>1. ~used[s].ended /\ s \notin cookie
    BY <1>0, <1>1 DEF SessionOk
  <2> QED
    BY <1>1, <1>2, <1>3, <1>4, <1>5, <1>6, <2>1 DEF SessionOk
<1>9. \A x \in SessionIds \ {s} : SessionOk(x)'
  BY <1>0, <1>1, <1>4, <1>5, <1>6 DEF SessionOk
<1>10. ASSUME NEW x \in cookie PROVE Ages(x)
  <2>1. x # s /\ x \in SessionIds
    BY <1>0, <1>1, <1>10 DEF SessionOk, SessionType
  <2> QED
    BY <1>0, <1>1, <1>5, <2>1 DEF Ages, Live, SessionType, UseRow
<1> QED
  BY <1>1, <1>2, <1>7, <1>8, <1>9, <1>10, SessionKeeps

\* A step of request c that leaves the history of its session, and of its hash
\* changes only the idle time, to one the history allows, or when it dies.
LEMMA HashKeeps ==
  ASSUME SessionInv, NEW s \in SessionIds, login[s] \notin {"NEW", "HSET"},
         hash' \in [SessionIds -> HashRow],
         \A x \in SessionIds \ {s} : hash'[x] = hash[x],
         hash'[s].whole => /\ hash[s].whole /\ hash'[s].absolute = hash[s].absolute
                          /\ hash'[s].idle <= used[s].seen + IdleTime,
         login' \in [SessionIds -> LoginSteps], login'[s] \notin {"NEW", "HSET"},
         login[s] = "DONE" => login'[s] = "DONE",
         \A x \in SessionIds \ {s} : login'[x] = login[x],
         call' \in [Calls -> CallRow \cup {NoCall}],
         \A c \in Calls : call'[c] = call[c] \/ CallOk(c)',
         UNCHANGED <<clock, active, cookie, used>>
  PROVE  SessionInv'
<1>0. SessionType /\ \A x \in SessionIds : SessionOk(x)
  BY DEF SessionInv
<1>1. SessionType'
  BY <1>0 DEF SessionType
<1>2. \A x \in SessionIds : SessionOk(x)'
  BY <1>0 DEF SessionOk
<1>3. \A x \in SessionIds : Ages(x)
  BY <1>0 DEF Ages, Live, SessionType, UseRow
<1>4. clock' >= clock /\ cookie \subseteq SessionIds
  BY <1>0 DEF SessionType
<1> QED
  BY <1>1, <1>2, <1>3, <1>4, SessionKeeps

LEMMA LimitStoredKeeps ==
  ASSUME SessionInv, NEW s \in SessionIds, LimitStored(s)
  PROVE  SessionInv'
<1>0. SessionType /\ SessionOk(s)
  BY DEF SessionInv
<1>1. Lesser(FullTime, IdleTime) \in Int
  BY SessionAssumption DEF SessionAssumption, Lesser
<1>2. /\ login[s] = "EXPIRE" /\ hash' = Limited(s, Lesser(FullTime, IdleTime))
      /\ login' = [login EXCEPT ![s] = "COMMIT"]
      /\ UNCHANGED <<clock, active, cookie, call, used>>
  BY DEF LimitStored
<1>3. /\ hash' \in [SessionIds -> HashRow] /\ \A x \in SessionIds \ {s} : hash'[x] = hash[x]
      /\ hash'[s].whole => /\ hash[s].whole /\ hash'[s].absolute = hash[s].absolute
                           /\ hash'[s].idle = hash[s].idle
  BY <1>0, <1>1, <1>2, Limiting
<1>4. login' \in [SessionIds -> LoginSteps] /\ login'[s] = "COMMIT"
      /\ \A x \in SessionIds \ {s} : login'[x] = login[x]
  BY <1>0, <1>2 DEF SessionType, LoginSteps
<1>5. hash'[s].whole => hash'[s].idle <= used[s].seen + IdleTime
  BY <1>0, <1>3 DEF SessionOk
<1>6. call' \in [Calls -> CallRow \cup {NoCall}]
  BY <1>0, <1>2 DEF SessionType
<1> QED
  BY <1>2, <1>3, <1>4, <1>5, <1>6, HashKeeps

LEMMA BeginSessionKeeps ==
  ASSUME SessionInv, NEW c \in Calls, NEW s \in SessionIds, NEW op \in {"READ", "LOGOUT"},
         Begin(c, s, op)
  PROVE  SessionInv'
<1> DEFINE row == [pc |-> "READ", session |-> s, op |-> op, copy |-> Gone,
                   to |-> 0, ttl |-> 0, done |-> 0, live |-> Live(s)]
<1>0. SessionType
  BY DEF SessionInv
<1>1. /\ call' = [call EXCEPT ![c] = row] /\ s \in cookie
      /\ UNCHANGED <<clock, active, hash, used, login, cookie>>
  BY DEF Begin
<1>2. Live(s) \in BOOLEAN
  BY DEF Live
<1>3. row \in CallRow /\ row.pc = "READ" /\ row.session = s /\ row.live = Live(s)
  BY <1>2 DEF CallRow, HashRow
<1>4. call'[c] = row
  BY <1>0, <1>1 DEF SessionType
<1>5. CallOk(c)'
  <2> HIDE DEF row
  <2>1. Live(s)' <=> Live(s)
    BY <1>1 DEF Live
  <2> QED
    BY <1>1, <1>3, <1>4, <2>1 DEF CallOk
<1> QED
  BY <1>1, <1>3, <1>5, QuietKeeps

\* What is known of a request under way.
LEMMA UnderWay ==
  ASSUME SessionInv, NEW c \in Calls, call[c].pc # "IDLE"
  PROVE  /\ call[c] # NoCall /\ call[c] \in CallRow /\ CallOk(c)
         /\ call[c].session \in cookie /\ call[c].session \in SessionIds
         /\ login[call[c].session] = "DONE"
<1>1. call[c] # NoCall /\ call[c] \in CallRow /\ CallOk(c)
  BY DEF SessionInv, SessionType, NoCall
<1>2. call[c].session \in cookie /\ call[c].session \in SessionIds
  BY <1>1 DEF CallOk, CallRow
<1> QED
  BY <1>1, <1>2 DEF SessionInv, SessionOk

LEMMA ReadHashKeeps ==
  ASSUME SessionInv, NEW c \in Calls, ReadHash(c)
  PROVE  SessionInv'
<1>0. SessionType /\ call[c].pc = "READ" /\ UNCHANGED <<clock, active, hash, login, cookie, used>>
  BY DEF SessionInv, ReadHash
<1>1. PICK s \in SessionIds : s = call[c].session /\ s \in cookie /\ CallOk(c)
                             /\ call[c] \in CallRow /\ call[c] # NoCall
  BY <1>0, UnderWay
<1>2. CASE Absent(s)
  BY <1>0, <1>1, <1>2, EndCallKeeps DEF ReadHash
<1>3. CASE ~Absent(s)
  <2> DEFINE row == [call[c] EXCEPT !.pc = "JUDGE", !.copy = hash[s]]
  <2>1. call' = [call EXCEPT ![c] = row]
    BY <1>0, <1>1, <1>3 DEF ReadHash, SessionType
  <2>2. hash[s] \in HashRow
    BY <1>0 DEF SessionType
  <2>3. /\ row \in CallRow /\ row.pc = "JUDGE" /\ row.copy = hash[s] /\ row.session = s
        /\ row.live = call[c].live
    BY <1>1, <2>2 DEF CallRow
  <2>4. call'[c] = row
    BY <1>0, <2>1 DEF SessionType
  <2>5. SessionOk(s) /\ (hash[s].whole => hash[s].absolute \in Int /\ hash[s].idle \in Int)
    BY <2>2, HashFacts DEF SessionInv
  <2>6. /\ clock \in Int /\ used[s].seen \in Int /\ used[s].born \in Int
        /\ FullTime \in Nat /\ IdleTime \in Nat
    BY <1>0, SessionAssumption DEF SessionType, UseRow, SessionAssumption
  <2>7. ~call[c].live => ~Live(s)
    BY <1>1 DEF CallOk
  <2>8. ~Live(s) => \/ ~active \/ ~hash[s].whole
                   \/ hash[s].absolute <= clock \/ hash[s].idle <= clock
    BY <2>5, <2>6 DEF Live, SessionOk
  <2>9. CallOk(c)'
    <3> HIDE DEF row
    <3>1. Live(s)' <=> Live(s)
      BY <1>0 DEF Live
    <3> QED
      BY <1>0, <1>1, <2>3, <2>4, <2>5, <2>7, <2>8, <3>1 DEF CallOk, SessionOk
  <2> QED
    BY <1>0, <2>1, <2>3, <2>9, QuietKeeps
<1> QED
  BY <1>2, <1>3

LEMMA JudgeKeeps ==
  ASSUME SessionInv, NEW c \in Calls, Judge(c)
  PROVE  SessionInv'
<1> DEFINE copy == call[c].copy
           to == Lesser(clock + IdleTime, copy.absolute)
           good == copy.whole /\ clock < copy.absolute /\ clock < copy.idle
<1>0. SessionType /\ call[c].pc = "JUDGE" /\ UNCHANGED <<clock, active, hash, login, cookie>>
  BY DEF SessionInv, Judge
<1>1. PICK s \in SessionIds : s = call[c].session /\ s \in cookie /\ CallOk(c)
                             /\ call[c] \in CallRow /\ call[c] # NoCall
  BY <1>0, UnderWay
<1>2. /\ clock \in Int /\ used[s] \in UseRow /\ used[s].seen \in Int /\ used[s].born \in Int
      /\ FullTime \in Nat /\ IdleTime \in Nat
  BY <1>0, SessionAssumption DEF SessionType, UseRow, SessionAssumption
<1>3. CASE ~good
  <2> DEFINE row == [call[c] EXCEPT !.pc = "DELETE"]
  <2>1. call' = [call EXCEPT ![c] = row] /\ used' = used
    BY <1>3 DEF Judge, Move
  <2>2. row \in CallRow /\ row.pc = "DELETE" /\ row.session = s /\ row.live = call[c].live
    BY <1>1 DEF CallRow
  <2>3. CallOk(c)'
    <3>1. call'[c] = row /\ (Live(s)' <=> Live(s))
      BY <1>0, <2>1 DEF SessionType, Live
    <3> HIDE DEF row
    <3> QED
      BY <1>0, <1>1, <2>2, <3>1 DEF CallOk
  <2> QED
    BY <1>0, <2>1, <2>2, <2>3, QuietKeeps
<1>4. CASE good
  <2> DEFINE row == [call[c] EXCEPT !.pc = "SLIDE", !.to = to, !.ttl = to - clock]
  <2>1. /\ call' = [call EXCEPT ![c] = row]
        /\ used' = [used EXCEPT ![s].seen = clock]
    BY <1>1, <1>4 DEF Judge
  <2>2. copy \in HashRow /\ copy.absolute \in Int /\ copy.idle \in Int
    <3>1. copy \in HashRow
      BY <1>1 DEF CallRow
    <3> QED
      BY <1>4, <3>1, HashFacts
  <2>3. to \in Int /\ to <= clock + IdleTime
    BY <1>2, <2>2 DEF Lesser
  <2>4. /\ row \in CallRow /\ row.pc = "SLIDE" /\ row.to = to /\ row.session = s
        /\ row.live = call[c].live
    <3>0. PICK t \in Int, ttl \in Int : t = to /\ ttl = to - clock
      BY <1>2, <2>3
    <3>1. PICK k1 \in CallRow : k1 = [call[c] EXCEPT !.pc = "SLIDE"]
      BY <1>1 DEF CallRow
    <3>2. PICK k2 \in CallRow : k2 = [k1 EXCEPT !.to = t]
      BY DEF CallRow
    <3>3. PICK k3 \in CallRow : k3 = [k2 EXCEPT !.ttl = ttl]
      BY DEF CallRow
    <3>4. row = k3
      BY <3>0, <3>1, <3>2, <3>3
    <3> HIDE DEF to, row
    <3>5. k1.pc = "SLIDE" /\ k1.session = call[c].session /\ k1.live = call[c].live
      BY <1>1, <3>1 DEF CallRow
    <3>6. k2.pc = k1.pc /\ k2.session = k1.session /\ k2.live = k1.live /\ k2.to = t
      BY <3>2 DEF CallRow
    <3>7. k3.pc = k2.pc /\ k3.session = k2.session /\ k3.live = k2.live /\ k3.to = k2.to
      BY <3>3 DEF CallRow
    <3> QED
      BY <1>1, <3>0, <3>4, <3>5, <3>6, <3>7
  <2>5. /\ used' \in [SessionIds -> UseRow] /\ used'[s].seen = clock
        /\ used'[s].born = used[s].born /\ used'[s].ended = used[s].ended
        /\ \A x \in SessionIds \ {s} : used'[x] = used[x]
    BY <1>0, <1>2, <2>1 DEF SessionType, UseRow
  <2>6. /\ call' \in [Calls -> CallRow \cup {NoCall}] /\ call'[c] = row
        /\ \A d \in Calls \ {c} : call'[d] = call[d]
    BY <1>0, <2>1, <2>4 DEF SessionType
  <2>7. SessionType'
    BY <1>0, <2>5, <2>6 DEF SessionType
  <2>8. copy.idle <= used[s].seen + IdleTime /\ used[s].seen <= clock
    BY <1>0, <1>1, <1>4 DEF CallOk, SessionInv, SessionOk
  <2>9. ASSUME NEW x \in SessionIds PROVE SessionOk(x)'
    <3>1. CASE x = s
      <4>1. hash[s].whole => hash[s].idle \in Int
        BY <1>0, HashFacts DEF SessionType
      <4> QED
        BY <1>0, <1>2, <2>5, <2>8, <3>1, <4>1 DEF SessionInv, SessionOk
    <3>2. CASE x # s
      BY <1>0, <2>5, <3>2 DEF SessionInv, SessionOk
    <3> QED
      BY <3>1, <3>2
  <2>10. ASSUME NEW x \in SessionIds PROVE Ages(x)
    <3>1. CASE x = s
      BY <1>0, <1>2, <1>4, <2>2, <2>5, <2>8, <3>1 DEF Ages, Live
    <3>2. CASE x # s
      BY <1>0, <2>5, <3>2 DEF Ages, Live, SessionType, UseRow
    <3> QED
      BY <3>1, <3>2
  <2>11. CallOk(c)'
    <3>1. ~call[c].live => ~Live(s) /\ ~active
      BY <1>0, <1>1, <1>2, <1>4, <2>2 DEF CallOk
    <3>2. Live(s)' => Live(s)
      BY <2>10 DEF Ages
    <3> HIDE DEF row, to
    <3> QED
      BY <1>0, <1>1, <2>3, <2>4, <2>5, <2>6, <3>1, <3>2 DEF CallOk
  <2> QED
    BY <1>0, <1>2, <2>6, <2>7, <2>9, <2>10, <2>11, SessionKeeps DEF SessionType
<1> QED
  BY <1>3, <1>4

LEMMA SlideKeeps ==
  ASSUME SessionInv, NEW c \in Calls, Slide(c)
  PROVE  SessionInv'
<1> DEFINE row == [call[c] EXCEPT !.pc = "EXPIRE"]
<1>0. /\ SessionType /\ call[c].pc = "SLIDE" /\ UNCHANGED <<clock, active, login, cookie, used>>
      /\ call' = [call EXCEPT ![c] = row]
  BY DEF SessionInv, Slide, Move
<1>1. PICK s \in SessionIds : s = call[c].session /\ s \in cookie /\ CallOk(c)
                             /\ call[c] \in CallRow /\ call[c] # NoCall /\ login[s] = "DONE"
  BY <1>0, UnderWay
<1>2. row \in CallRow /\ row.pc = "EXPIRE" /\ row.session = s /\ row.live = call[c].live
      /\ call[c].to \in Int
  BY <1>1 DEF CallRow
<1>3. /\ call' \in [Calls -> CallRow \cup {NoCall}] /\ call'[c] = row
      /\ \A d \in Calls \ {c} : call'[d] = call[d]
  BY <1>0, <1>2 DEF SessionType
<1>4. CallOk(c)'
  <2>1. Live(s)' <=> Live(s)
    BY <1>0 DEF Live
  <2> HIDE DEF row
  <2> QED
    BY <1>0, <1>1, <1>2, <1>3, <2>1 DEF CallOk
<1>5. /\ SlideField(c, hash[s]) \in HashRow
      /\ SlideField(c, hash[s]).whole =>
           /\ hash[s].whole /\ SlideField(c, hash[s]).absolute = hash[s].absolute
           /\ SlideField(c, hash[s]).idle = call[c].to
  <2>0. Never \in Int
    BY SessionAssumption DEF SessionAssumption, Never
  <2>1. CASE hash[s] = Gone
    <3>1. SlideField(c, hash[s]) \in PartHash /\ SlideField(c, hash[s]).whole = FALSE
      BY <1>2, <2>0, <2>1 DEF SlideField, PartHash
    <3> QED
      BY <3>1 DEF HashRow
  <2>2. CASE hash[s] # Gone /\ hash[s] \in WholeHash
    <3>1. /\ SlideField(c, hash[s]) \in WholeHash /\ hash[s].whole = TRUE
          /\ SlideField(c, hash[s]).absolute = hash[s].absolute
          /\ SlideField(c, hash[s]).idle = call[c].to
      BY <1>2, <2>2 DEF SlideField, WholeHash
    <3> QED
      BY <3>1 DEF HashRow
  <2>3. CASE hash[s] # Gone /\ hash[s] \in PartHash
    <3>1. SlideField(c, hash[s]) \in PartHash /\ SlideField(c, hash[s]).whole = FALSE
      BY <1>2, <2>3 DEF SlideField, PartHash
    <3> QED
      BY <3>1 DEF HashRow
  <2> QED
    BY <1>0, <2>1, <2>2, <2>3 DEF SessionType, HashRow
<1>6. /\ hash' \in [SessionIds -> HashRow] /\ hash'[s] = SlideField(c, hash[s])
      /\ \A x \in SessionIds \ {s} : hash'[x] = hash[x]
  BY <1>0, <1>1, <1>5 DEF Slide, SessionType
<1>7. call[c].to <= used[s].seen + IdleTime
  BY <1>0, <1>1 DEF CallOk
<1> QED
  BY <1>0, <1>1, <1>3, <1>4, <1>5, <1>6, <1>7, HashKeeps DEF SessionType

LEMMA RenewKeeps ==
  ASSUME SessionInv, NEW c \in Calls, Renew(c)
  PROVE  SessionInv'
<1> DEFINE row == [call[c] EXCEPT !.pc = "USER", !.copy = Gone, !.to = 0, !.ttl = 0]
<1>0. /\ SessionType /\ call[c].pc = "EXPIRE" /\ UNCHANGED <<clock, active, login, cookie, used>>
      /\ call' = [call EXCEPT ![c] = row] /\ hash' = Limited(call[c].session, call[c].ttl)
  BY DEF SessionInv, Renew
<1>1. PICK s \in SessionIds : s = call[c].session /\ s \in cookie /\ CallOk(c)
                             /\ call[c] \in CallRow /\ call[c] # NoCall /\ login[s] = "DONE"
  BY <1>0, UnderWay
<1>2. row \in CallRow /\ row.pc = "USER" /\ row.session = s /\ row.live = call[c].live
      /\ call[c].ttl \in Int
  <2>1. call[c].ttl \in Int
    BY <1>1 DEF CallRow
  <2>2. /\ row \in CallRow /\ row.pc = "USER"
        /\ row.session = call[c].session /\ row.live = call[c].live
    BY <1>1, Renewed
  <2> QED
    BY <1>1, <2>1, <2>2
<1>3. /\ call' \in [Calls -> CallRow \cup {NoCall}] /\ call'[c] = row
      /\ \A d \in Calls \ {c} : call'[d] = call[d]
  BY <1>0, <1>2 DEF SessionType
<1>4. CallOk(c)'
  <2>1. Live(s)' <=> Live(s)
    BY <1>0 DEF Live
  <2> HIDE DEF row
  <2> QED
    BY <1>0, <1>1, <1>2, <1>3, <2>1 DEF CallOk
<1>5. /\ hash' \in [SessionIds -> HashRow] /\ \A x \in SessionIds \ {s} : hash'[x] = hash[x]
      /\ hash'[s].whole => /\ hash[s].whole /\ hash'[s].absolute = hash[s].absolute
                           /\ hash'[s].idle = hash[s].idle
  BY <1>0, <1>1, <1>2, Limiting
<1>6. hash'[s].whole => hash'[s].idle <= used[s].seen + IdleTime
  BY <1>5 DEF SessionInv, SessionOk
<1> QED
  BY <1>0, <1>1, <1>3, <1>4, <1>5, <1>6, HashKeeps DEF SessionType

LEMMA CheckUserKeeps ==
  ASSUME SessionInv, NEW c \in Calls, CheckUser(c)
  PROVE  SessionInv'
<1> DEFINE pc == IF ~active THEN "DELETE" ELSE IF call[c].op = "LOGOUT" THEN "LOGOUT" ELSE "SERVED"
           row == [call[c] EXCEPT !.pc = pc]
<1>0. /\ SessionType /\ call[c].pc = "USER"
      /\ UNCHANGED <<clock, active, hash, login, cookie, used>>
      /\ call' = [call EXCEPT ![c] = row]
  BY DEF SessionInv, CheckUser, Move
<1>1. PICK s \in SessionIds : s = call[c].session /\ s \in cookie /\ CallOk(c)
                             /\ call[c] \in CallRow /\ call[c] # NoCall
  BY <1>0, UnderWay
<1>2. pc \in {"DELETE", "LOGOUT", "SERVED"} /\ (~active => pc = "DELETE")
  OBVIOUS
<1> HIDE DEF pc
<1>3. row \in CallRow /\ row.pc = pc /\ row.session = s /\ row.live = call[c].live
  BY <1>1, <1>2 DEF CallRow
<1>4. call'[c] = row /\ (Live(s)' <=> Live(s))
  BY <1>0 DEF SessionType, Live
<1> HIDE DEF row
<1>5. CallOk(c)'
  BY <1>0, <1>1, <1>2, <1>3, <1>4 DEF CallOk
<1> QED
  BY <1>0, <1>3, <1>5, QuietKeeps

LEMMA LogoutKeeps ==
  ASSUME SessionInv, NEW c \in Calls, Revoke(c) \/ CommitLogout(c)
  PROVE  SessionInv'
<1> DEFINE pc == IF call[c].done + 1 = Len(LogoutSteps) THEN "SERVED" ELSE call[c].pc
           row == [call[c] EXCEPT !.done = call[c].done + 1, !.pc = pc]
<1>0. /\ SessionType /\ call[c].pc = "LOGOUT" /\ UNCHANGED <<clock, active, login, cookie>>
      /\ call' = [call EXCEPT ![c] = row]
  BY DEF SessionInv, Revoke, CommitLogout, LogoutStep
<1>1. PICK s \in SessionIds : s = call[c].session /\ s \in cookie /\ CallOk(c)
                             /\ call[c] \in CallRow /\ call[c] # NoCall
  BY <1>0, UnderWay
<1>2. pc \in {"LOGOUT", "SERVED"}
  BY <1>0
<1> HIDE DEF pc
<1>3. row \in CallRow /\ row.pc = pc /\ row.session = s /\ row.live = call[c].live
  <2>1. call[c].done + 1 \in Int
    BY <1>1 DEF CallRow
  <2> DEFINE done == call[c].done + 1
  <2>2. row = [call[c] EXCEPT !.done = done, !.pc = pc] /\ done \in Int
    BY <2>1
  <2> HIDE DEF row, done
  <2> QED
    BY <1>1, <1>2, <2>2 DEF CallRow
<1>4. row.live
  BY <1>0, <1>1, <1>3 DEF CallOk
<1> HIDE DEF row
<1>5. CASE Revoke(c)
  BY <1>0, <1>1, <1>2, <1>3, <1>4, <1>5, RemoveKeeps DEF Revoke
<1>6. CASE CommitLogout(c)
  <2>1. UNCHANGED <<hash, used>> /\ call'[c] = row
    BY <1>0, <1>6 DEF CommitLogout, SessionType
  <2>2. CallOk(c)'
    BY <1>0, <1>1, <1>2, <1>3, <1>4, <2>1 DEF CallOk
  <2> QED
    BY <1>0, <1>3, <2>1, <2>2, QuietKeeps
<1> QED
  BY <1>5, <1>6

LEMMA RefuseKeeps ==
  ASSUME SessionInv, NEW c \in Calls, Refuse(c)
  PROVE  SessionInv'
<1>1. call[c] # NoCall
  BY DEF Refuse, NoCall
<1>2. PICK row \in CallRow \cup {NoCall} : row = NoCall
  OBVIOUS
<1>3. /\ Remove(call[c].session) /\ call' = [call EXCEPT ![c] = row]
      /\ UNCHANGED <<clock, active, login, cookie>>
  BY <1>2 DEF Refuse, EndCall
<1>4. row # NoCall => /\ row.pc \in {"LOGOUT", "SERVED"} /\ row.live
                      /\ row.session = call[c].session
  BY <1>2
<1> HIDE DEF Remove
<1> QED
  BY <1>1, <1>3, <1>4, RemoveKeeps

LEMMA DeactivateKeeps ==
  ASSUME SessionInv, Deactivate
  PROVE  SessionInv'
<1>0. /\ SessionType /\ active' = FALSE
      /\ UNCHANGED <<clock, hash, record, login, cookie, call, used>>
  BY DEF SessionInv, Deactivate
<1>1. SessionType' /\ clock' \in Int /\ cookie \subseteq SessionIds
  BY <1>0, Zenon DEF SessionType
<1>2. \A s \in SessionIds : SessionOk(s)'
  BY <1>0 DEF SessionInv, SessionOk
<1>3. \A s \in SessionIds : Ages(s)
  BY <1>0 DEF Ages, Live, SessionType, UseRow
<1> QED
  <2>1. clock' >= clock /\ (active' => active)
    BY <1>0, <1>1
  <2> QED
    BY <1>0, <1>1, <1>2, <1>3, <2>1, SessionKeeps

LEMMA ElapseKeeps ==
  ASSUME SessionInv, Elapse
  PROVE  SessionInv'
<1> DEFINE expired(s) == ~Absent(s) /\ hash[s].dies <= clock + 1
<1>0. /\ SessionType /\ clock' = clock + 1 /\ UNCHANGED <<active, login, cookie, call>>
      /\ hash' = [s \in SessionIds |-> IF expired(s) THEN Gone ELSE hash[s]]
      /\ used' = [s \in SessionIds |-> IF expired(s) /\ hash[s].whole
                                       THEN [used[s] EXCEPT !.ended = TRUE] ELSE used[s]]
  BY DEF SessionInv, Elapse
<1> HIDE DEF expired
<1>1. hash' \in [SessionIds -> HashRow]
  BY <1>0 DEF SessionType, HashRow
<1>2. ASSUME NEW s \in SessionIds
      PROVE  /\ used'[s] \in UseRow /\ used'[s].born = used[s].born
             /\ used'[s].seen = used[s].seen /\ (used[s].ended => used'[s].ended)
             /\ used'[s] = used[s] \/ (hash[s].whole /\ hash'[s] = Gone)
  BY <1>0 DEF SessionType, UseRow
<1>3. used' \in [SessionIds -> UseRow]
  BY <1>0, <1>2
<1>4. SessionType'
  BY <1>0, <1>1, <1>3 DEF SessionType
<1>5. ASSUME NEW s \in SessionIds PROVE SessionOk(s)'
  <2>1. clock \in Int /\ used[s].seen \in Int /\ Gone.whole = FALSE
    BY <1>0 DEF SessionType, UseRow, Gone
  <2>2. hash'[s] = Gone \/ hash'[s] = hash[s]
    BY <1>0
  <2>3. SessionOk(s)
    BY DEF SessionInv
  <2>4. hash'[s] # Gone => used'[s] = used[s]
    BY <1>2
  <2>5. login[s] \in {"NEW", "HSET"} => used'[s] = used[s]
    BY <1>2, <2>1, <2>3 DEF SessionOk
  <2> QED
    BY <1>0, <1>2, <2>1, <2>2, <2>3, <2>4, <2>5 DEF SessionOk
<1>6. ASSUME NEW s \in SessionIds PROVE Ages(s)
  <2>1. /\ clock \in Int /\ used[s].seen \in Int /\ used[s].born \in Int
        /\ FullTime \in Nat /\ IdleTime \in Nat
    BY <1>0, SessionAssumption DEF SessionType, UseRow, SessionAssumption
  <2> QED
    BY <1>0, <1>2, <2>1 DEF Ages, Live
<1>7. clock' >= clock /\ cookie \subseteq SessionIds
  BY <1>0 DEF SessionType
<1> QED
  BY <1>0, <1>4, <1>5, <1>6, <1>7, SessionKeeps

LEMMA SessionStep == SessionInv /\ [SessionNext]_sessionVars => SessionInv'
<1> SUFFICES ASSUME SessionInv, [SessionNext]_sessionVars PROVE SessionInv'
  OBVIOUS
<1>1. ASSUME NEW s \in SessionIds,
             LogIn(s) \/ CommitLogin(s) \/ SetCookie(s) \/ BreakLogin(s)
      PROVE  SessionInv'
  <2>1. CASE LogIn(s)
    <3>1. LoginMove(s, "HSET")
      BY <2>1 DEF LogIn, LoginMove, LoginSteps
    <3> QED
      BY <3>1, LoginMoves
  <2>2. CASE CommitLogin(s)
    <3>1. LoginMove(s, "ANSWER")
      BY <2>2 DEF CommitLogin, LoginMove, LoginSteps
    <3> QED
      BY <3>1, LoginMoves
  <2>3. CASE SetCookie(s)
    <3>1. LoginMove(s, "DONE")
      BY <2>3 DEF SetCookie, LoginMove, LoginSteps
    <3> QED
      BY <3>1, LoginMoves
  <2>4. CASE BreakLogin(s)
    <3>1. LoginMove(s, "BROKEN")
      BY <2>4 DEF BreakLogin, LoginMove, LoginSteps
    <3> QED
      BY <3>1, LoginMoves
  <2> QED
    BY <1>1, <2>1, <2>2, <2>3, <2>4
<1>2. ASSUME NEW c \in Calls, Leave(c) PROVE SessionInv'
  BY <1>2, EndCallKeeps DEF Leave
<1>3. CASE UNCHANGED sessionVars
  BY <1>3 DEF sessionVars, SessionInv, SessionType, SessionOk, CallOk, Live
<1> QED
  BY <1>1, <1>2, <1>3, StoreKeeps, LimitStoredKeeps, BeginSessionKeeps, ReadHashKeeps, JudgeKeeps,
     SlideKeeps, RenewKeeps, CheckUserKeeps, RefuseKeeps, LogoutKeeps, DeactivateKeeps, ElapseKeeps
     DEF SessionNext

LEMMA SessionStart == SessionInit => SessionInv
<1> SUFFICES ASSUME SessionInit PROVE SessionInv
  OBVIOUS
<1>1. SessionType
  BY DEF SessionInit, SessionType, HashRow, UseRow, LoginSteps
<1>2. \A s \in SessionIds : SessionOk(s)
  BY DEF SessionInit, SessionOk, Gone
<1>3. \A c \in Calls : CallOk(c)
  BY DEF SessionInit, CallOk
<1> QED
  BY <1>1, <1>2, <1>3 DEF SessionInv

\* Nobody is served whose session was over when the request began, however many
\* requests, logouts and expiries of keys come between the calls to Redis:
\* touch writes single fields, so that it brings no deleted session back.
THEOREM OnlyLiveServed == SessionSpec => []ServedOnlyLive
<1>1. SessionInv => ServedOnlyLive
  <2> SUFFICES ASSUME SessionInv, NEW c \in Calls, call[c].pc = "SERVED" PROVE call[c].live
    BY DEF ServedOnlyLive
  <2> QED
    BY UnderWay DEF CallOk
<1> QED
  BY <1>1, SessionStart, SessionStep, PTL DEF SessionSpec

--------------------------------------------------------------------------------
(* The two stores of a session *)

Agreed(s) ==
  /\ login[s] \in {"ANSWER", "DONE"} => record[s] # "NONE"
  /\ record[s] = "REVOKED" => used[s].ended /\ login[s] = "DONE"
  /\ login[s] \in {"COMMIT", "ANSWER", "DONE"} /\ hash[s].whole => hash[s].dies < Never

\* Of what k says of a request: DEL comes before the commit of a logout, and no
\* EXPIRE is longer than a session may idle.
RowAgrees(k) ==
  k # NoCall => k.ttl <= IdleTime /\ (k.done # 0 => used[k.session].ended)

AgreeInv ==
  /\ SessionInv /\ clock <= MaxClock /\ record \in [SessionIds -> {"NONE", "LIVE", "REVOKED"}]
  /\ \A s \in SessionIds : Agreed(s)
  /\ \A c \in Calls : RowAgrees(call[c])

LEMMA AgreeKeeps ==
  ASSUME AgreeInv, SessionInv', clock' <= MaxClock,
         record' \in [SessionIds -> {"NONE", "LIVE", "REVOKED"}],
         \A s \in SessionIds : used[s].ended => used'[s].ended,
         \A s \in SessionIds : Agreed(s)',
         \A c \in Calls : call'[c] = call[c] \/ RowAgrees(call[c])'
  PROVE  AgreeInv'
<1>1. ASSUME NEW c \in Calls, call'[c] = call[c] PROVE RowAgrees(call[c])'
  <2>1. call[c] # NoCall => call[c].session \in SessionIds
    BY DEF AgreeInv, SessionInv, SessionType, CallRow
  <2> QED
    BY <1>1, <2>1 DEF AgreeInv, RowAgrees
<1> QED
  BY <1>1 DEF AgreeInv

\* A step of a request: to a row that keeps its session and what it has done.
LEMMA AgreeCall ==
  ASSUME AgreeInv, SessionInv', NEW c \in Calls, call[c] # NoCall,
         NEW row, call' = [call EXCEPT ![c] = row],
         row # NoCall => /\ row.session = call[c].session /\ row.done = call[c].done
                         /\ row.ttl <= IdleTime,
         UNCHANGED <<clock, login, record>>,
         \A s \in SessionIds : used[s].ended => used'[s].ended,
         \A s \in SessionIds : hash'[s].whole =>
                               hash[s].whole /\ (hash'[s].dies = hash[s].dies \/ hash'[s].dies < Never)
  PROVE  AgreeInv'
<1>1. call'[c] = row /\ \A d \in Calls \ {c} : call'[d] = call[d]
  BY DEF AgreeInv, SessionInv, SessionType
<1>2. call[c].session \in SessionIds /\ RowAgrees(call[c])
  BY DEF AgreeInv, SessionInv, SessionType, CallRow
<1>3. RowAgrees(call[c])'
  BY <1>1, <1>2 DEF RowAgrees
<1>4. \A s \in SessionIds : Agreed(s)'
  BY DEF AgreeInv, Agreed
<1> QED
  BY <1>1, <1>3, <1>4, AgreeKeeps DEF AgreeInv

LEMMA LimitDies ==
  ASSUME SessionType, NEW s \in SessionIds, NEW ttl \in Int, hash' = Limited(s, ttl)
  PROVE  /\ \A x \in SessionIds \ {s} : hash'[x] = hash[x]
         /\ hash'[s].whole => hash[s].whole /\ hash'[s].dies = clock + ttl
<1>1. hash \in [SessionIds -> HashRow]
  BY DEF SessionType
<1>2. CASE Absent(s)
  BY <1>1, <1>2 DEF Limited, Absent, Gone
<1>3. CASE ~Absent(s)
  <2>1. PICK dies : dies = clock + ttl
    OBVIOUS
  <2>2. hash' = [hash EXCEPT ![s] = [hash[s] EXCEPT !.dies = dies]]
    BY <1>1, <1>3, <2>1 DEF Limited
  <2>3. hash[s] \in WholeHash \cup PartHash
    BY <1>1, <1>3 DEF HashRow, Absent
  <2>4. hash'[s].whole = hash[s].whole /\ hash'[s].dies = dies
    BY <1>1, <2>2, <2>3 DEF WholeHash, PartHash
  <2> QED
    BY <1>1, <2>1, <2>2, <2>4
<1> QED
  BY <1>2, <1>3

LEMMA LoginAgrees ==
  ASSUME AgreeInv, SessionInv', NEW s \in SessionIds,
         \/ LogIn(s) \/ Store(s) \/ LimitStored(s) \/ CommitLogin(s) \/ SetCookie(s)
         \/ BreakLogin(s)
  PROVE  AgreeInv'
<1>0. /\ SessionType /\ clock \in Int /\ clock <= MaxClock
      /\ MaxClock \in Nat /\ IdleTime \in Nat /\ FullTime \in Nat
      /\ record \in [SessionIds -> {"NONE", "LIVE", "REVOKED"}]
  BY SessionAssumption DEF AgreeInv, SessionInv, SessionType, SessionAssumption
<1>1. /\ clock' = clock /\ call' = call
      /\ record' \in [SessionIds -> {"NONE", "LIVE", "REVOKED"}]
  BY <1>0 DEF LogIn, Store, LimitStored, CommitLogin, SetCookie, BreakLogin
<1>2. /\ \A x \in SessionIds : used[x].ended => used'[x].ended
      /\ \A x \in SessionIds \ {s} : used'[x].ended = used[x].ended
  BY <1>0 DEF LogIn, Store, LimitStored, CommitLogin, SetCookie, BreakLogin, SessionType, UseRow
<1>3. \A x \in SessionIds \ {s} :
        hash'[x] = hash[x] /\ login'[x] = login[x] /\ (record'[x] = record[x] \/ record'[x] = "LIVE")
  <2>1. LimitStored(s) => \A x \in SessionIds \ {s} : hash'[x] = hash[x]
    <3>1. Lesser(FullTime, IdleTime) \in Int
      BY <1>0 DEF Lesser
    <3> QED
      BY <1>0, <3>1, LimitDies DEF LimitStored
  <2> QED
    BY <1>0, <2>1 DEF LogIn, Store, LimitStored, CommitLogin, SetCookie, BreakLogin, SessionType
<1>4. Agreed(s)
  BY DEF AgreeInv
<1>5. Agreed(s)'
  <2>1. CASE LogIn(s) \/ Store(s) \/ BreakLogin(s)
    BY <1>0, <1>4, <2>1 DEF LogIn, Store, BreakLogin, Agreed, SessionType
  <2>2. CASE LimitStored(s)
    <3>1. PICK ttl \in Int : ttl = Lesser(FullTime, IdleTime) /\ ttl <= IdleTime
      BY <1>0 DEF Lesser
    <3>2. hash'[s].whole => hash'[s].dies = clock + ttl
      BY <1>0, <2>2, <3>1, LimitDies DEF LimitStored
    <3>3. clock + ttl < Never
      BY <1>0, <3>1 DEF Never
    <3> QED
      BY <1>0, <1>4, <2>2, <3>2, <3>3 DEF LimitStored, Agreed, SessionType
  <2>3. CASE CommitLogin(s)
    BY <1>0, <1>4, <2>3 DEF CommitLogin, Agreed, SessionType
  <2>4. CASE SetCookie(s)
    BY <1>0, <1>4, <2>4 DEF SetCookie, Agreed, SessionType
  <2> QED
    BY <2>1, <2>2, <2>3, <2>4
<1>6. \A x \in SessionIds \ {s} : Agreed(x)'
  BY <1>2, <1>3 DEF AgreeInv, Agreed
<1> QED
  BY <1>0, <1>1, <1>2, <1>5, <1>6, AgreeKeeps

LEMMA TouchAgrees ==
  ASSUME AgreeInv, SessionInv', NEW c \in Calls,
         ReadHash(c) \/ Judge(c) \/ CheckUser(c) \/ Refuse(c) \/ Leave(c)
  PROVE  AgreeInv'
<1>0. /\ SessionInv /\ SessionType /\ RowAgrees(call[c]) /\ IdleTime \in Nat
      /\ \A s \in SessionIds : used[s] \in UseRow
  BY SessionAssumption DEF AgreeInv, SessionInv, SessionType, SessionAssumption
<1>1. /\ UNCHANGED <<clock, login, record>> /\ call[c] # NoCall
      /\ \A s \in SessionIds : used[s].ended => used'[s].ended
      /\ \A s \in SessionIds : hash'[s].whole => hash[s].whole /\ hash'[s].dies = hash[s].dies
  BY <1>0 DEF ReadHash, Judge, CheckUser, Refuse, Leave, Remove, NoCall, Gone, SessionType, UseRow
<1>2. /\ call[c] \in CallRow /\ call[c].ttl <= IdleTime
      /\ call[c].session \in SessionIds /\ hash[call[c].session] \in HashRow
  BY <1>0, <1>1 DEF SessionType, RowAgrees, CallRow
<1>3. ASSUME EndCall(c) PROVE AgreeInv'
  <2>1. PICK row : row = NoCall
    OBVIOUS
  <2>2. call' = [call EXCEPT ![c] = row]
    BY <1>3, <2>1 DEF EndCall
  <2> QED
    BY <1>1, <2>1, <2>2, AgreeCall
<1>4. ASSUME NEW row, call' = [call EXCEPT ![c] = row], row.session = call[c].session,
             row.done = call[c].done, row.ttl <= IdleTime
      PROVE  AgreeInv'
  BY <1>1, <1>4, AgreeCall
<1>5. ASSUME NEW pc \in {"DELETE", "LOGOUT", "SERVED"}, Move(c, pc) PROVE AgreeInv'
  <2>1. PICK row : row = [call[c] EXCEPT !.pc = pc]
    OBVIOUS
  <2>2. row.session = call[c].session /\ row.done = call[c].done /\ row.ttl = call[c].ttl
    BY <1>2, <2>1 DEF CallRow
  <2>3. call' = [call EXCEPT ![c] = row]
    BY <1>5, <2>1 DEF Move
  <2> QED
    BY <1>2, <1>4, <2>2, <2>3
<1>6. CASE ReadHash(c) /\ ~Absent(call[c].session)
  <2>1. PICK copy \in HashRow : copy = hash[call[c].session]
    BY <1>2
  <2>2. PICK row : row = [call[c] EXCEPT !.pc = "JUDGE", !.copy = copy]
    OBVIOUS
  <2>3. row.session = call[c].session /\ row.done = call[c].done /\ row.ttl = call[c].ttl
    BY <1>2, <2>1, <2>2 DEF CallRow
  <2>4. call' = [call EXCEPT ![c] = row]
    BY <1>6, <2>1, <2>2 DEF ReadHash
  <2> QED
    BY <1>2, <1>4, <2>3, <2>4
<1>7. CASE Judge(c) /\ call[c].copy.whole /\ clock < call[c].copy.absolute /\ clock < call[c].copy.idle
  <2>1. PICK to, ttl : /\ to = Lesser(clock + IdleTime, call[c].copy.absolute)
                       /\ ttl = to - clock
    OBVIOUS
  <2>2. to \in Int /\ ttl \in Int /\ ttl <= IdleTime
    <3>1. call[c].copy.absolute \in Int /\ clock \in Int
      BY <1>0, <1>2, <1>7, HashFacts DEF CallRow, SessionType
    <3> QED
      BY <1>0, <2>1, <3>1 DEF Lesser
  <2>3. PICK k1 \in CallRow : k1 = [call[c] EXCEPT !.pc = "SLIDE"]
    BY <1>2 DEF CallRow
  <2>4. PICK k2 \in CallRow : k2 = [k1 EXCEPT !.to = to]
    BY <2>2 DEF CallRow
  <2>5. PICK k3 \in CallRow : k3 = [k2 EXCEPT !.ttl = ttl]
    BY <2>2 DEF CallRow
  <2>6. call' = [call EXCEPT ![c] = k3]
    BY <1>7, <2>1, <2>3, <2>4, <2>5 DEF Judge
  <2>7. k1.session = call[c].session /\ k1.done = call[c].done
    BY <1>2, <2>3 DEF CallRow
  <2>8. k2.session = k1.session /\ k2.done = k1.done
    BY <2>4 DEF CallRow
  <2>9. k3.session = k2.session /\ k3.done = k2.done /\ k3.ttl = ttl
    BY <2>5 DEF CallRow
  <2> QED
    BY <1>4, <2>2, <2>6, <2>7, <2>8, <2>9
<1> QED
  BY <1>3, <1>5, <1>6, <1>7 DEF ReadHash, Judge, CheckUser, Refuse, Leave

LEMMA WritesAgree ==
  ASSUME AgreeInv, SessionInv', NEW c \in Calls, Slide(c) \/ Renew(c)
  PROVE  AgreeInv'
<1>0. /\ SessionInv /\ SessionType /\ RowAgrees(call[c]) /\ clock \in Int /\ clock <= MaxClock
      /\ MaxClock \in Nat /\ IdleTime \in Nat /\ FullTime \in Nat
  BY SessionAssumption DEF AgreeInv, SessionInv, SessionType, SessionAssumption
<1>1. /\ UNCHANGED <<clock, login, record, used>> /\ call[c] # NoCall /\ call[c].pc # "IDLE"
  BY DEF Slide, Renew, NoCall
<1>2. PICK s \in SessionIds : s = call[c].session /\ hash[s] \in HashRow
  BY <1>0, <1>1, UnderWay DEF SessionType
<1>3. call[c] \in CallRow /\ call[c].ttl <= IdleTime /\ call[c].ttl \in Int
  BY <1>0, <1>1 DEF SessionType, RowAgrees, CallRow
<1>4. CASE Slide(c)
  <2>1. PICK row : row = [call[c] EXCEPT !.pc = "EXPIRE"]
    OBVIOUS
  <2>2. row.session = call[c].session /\ row.done = call[c].done /\ row.ttl = call[c].ttl
    BY <1>3, <2>1 DEF CallRow
  <2>3. call' = [call EXCEPT ![c] = row]
    BY <1>4, <2>1 DEF Slide, Move
  <2>4. SlideField(c, hash[s]).whole => hash[s].whole /\ SlideField(c, hash[s]).dies = hash[s].dies
    BY <1>2 DEF SlideField, HashRow, WholeHash, PartHash
  <2>5. \A x \in SessionIds : hash'[x].whole => hash[x].whole /\ hash'[x].dies = hash[x].dies
    BY <1>0, <1>2, <1>4, <2>4 DEF Slide, SessionType
  <2> QED
    BY <1>1, <1>3, <2>2, <2>3, <2>5, AgreeCall
<1>5. CASE Renew(c)
  <2> DEFINE row == [call[c] EXCEPT !.pc = "USER", !.copy = Gone, !.to = 0, !.ttl = 0]
  <2>1. call' = [call EXCEPT ![c] = row]
    BY <1>5 DEF Renew
  <2>2. row.session = call[c].session /\ row.done = call[c].done /\ row.ttl = 0
    BY <1>3, Renewed
  <2>3. row.ttl <= IdleTime
    BY <1>0, <2>2
  <2>4. hash' = Limited(s, call[c].ttl)
    BY <1>2, <1>5 DEF Renew
  <2>5. clock + call[c].ttl < Never
    BY <1>0, <1>3 DEF Never
  <2>6. \A x \in SessionIds : hash'[x].whole =>
          hash[x].whole /\ (hash'[x].dies = hash[x].dies \/ hash'[x].dies < Never)
    BY <1>0, <1>3, <2>4, <2>5, LimitDies
  <2> HIDE DEF row
  <2> QED
    BY <1>1, <2>1, <2>2, <2>3, <2>6, AgreeCall
<1> QED
  BY <1>4, <1>5

LEMMA LogoutAgrees ==
  ASSUME AgreeInv, SessionInv', NEW c \in Calls, Revoke(c) \/ CommitLogout(c)
  PROVE  AgreeInv'
<1>0. /\ SessionInv /\ SessionType /\ RowAgrees(call[c]) /\ clock <= MaxClock
      /\ record \in [SessionIds -> {"NONE", "LIVE", "REVOKED"}]
      /\ UNCHANGED <<clock, login>> /\ call[c] # NoCall /\ call[c].pc # "IDLE"
  BY DEF AgreeInv, SessionInv, Revoke, CommitLogout, LogoutStep, NoCall
<1>1. PICK s \in SessionIds : s = call[c].session /\ login[s] = "DONE" /\ used[s] \in UseRow
  BY <1>0, UnderWay DEF SessionType
<1>2. call[c] \in CallRow /\ call[c].ttl <= IdleTime /\ call[c].done \in Int
  BY <1>0 DEF SessionType, RowAgrees, CallRow
<1>3. /\ used'[s].ended /\ \A x \in SessionIds \ {s} : used'[x] = used[x]
      /\ record' \in [SessionIds -> {"NONE", "LIVE", "REVOKED"}]
      /\ \A x \in SessionIds \ {s} : record'[x] = record[x]
      /\ record'[s] = record[s] \/ record'[s] = "REVOKED"
      /\ \A x \in SessionIds : hash'[x].whole => hash[x].whole /\ hash'[x].dies = hash[x].dies
  <2>1. CASE Revoke(c)
    BY <1>0, <1>1, <2>1 DEF Revoke, Remove, SessionType, UseRow, Gone
  <2>2. CASE CommitLogout(c)
    <3>1. call[c].done # 0
      BY <2>2 DEF CommitLogout, LogoutStep, LogoutSteps
    <3> QED
      BY <1>0, <1>1, <2>2, <3>1 DEF CommitLogout, RowAgrees
  <2> QED
    BY <2>1, <2>2
<1>4. \A x \in SessionIds : Agreed(x)'
  BY <1>0, <1>1, <1>3 DEF AgreeInv, Agreed
<1>5. PICK done \in Int, pc \in {"SERVED", "LOGOUT"} :
        call' = [call EXCEPT ![c] = [call[c] EXCEPT !.done = done, !.pc = pc]]
  <2>1. PICK done, pc : /\ done = call[c].done + 1
                        /\ pc = IF done = Len(LogoutSteps) THEN "SERVED" ELSE call[c].pc
    OBVIOUS
  <2>2. call' = [call EXCEPT ![c] = [call[c] EXCEPT !.done = done, !.pc = pc]]
    BY <2>1 DEF Revoke, CommitLogout, LogoutStep
  <2>3. done \in Int /\ pc \in {"SERVED", "LOGOUT"}
    BY <1>2, <2>1 DEF Revoke, CommitLogout, LogoutStep
  <2> QED
    BY <2>2, <2>3
<1>6. PICK row : row = [call[c] EXCEPT !.done = done, !.pc = pc]
  OBVIOUS
<1>7. row.session = s /\ row.ttl = call[c].ttl
  BY <1>1, <1>2, <1>6 DEF CallRow
<1>8. call'[c] = row /\ \A d \in Calls \ {c} : call'[d] = call[d]
  BY <1>0, <1>5, <1>6 DEF SessionType
<1>9. RowAgrees(call[c])'
  BY <1>2, <1>3, <1>7, <1>8 DEF RowAgrees
<1>10. \A x \in SessionIds : used[x].ended => used'[x].ended
  BY <1>3
<1> QED
  BY <1>0, <1>3, <1>4, <1>8, <1>9, <1>10, AgreeKeeps

LEMMA OthersAgree ==
  ASSUME AgreeInv, SessionInv',
         \/ \E c \in Calls, s \in SessionIds, op \in {"READ", "LOGOUT"} : Begin(c, s, op)
         \/ Deactivate \/ Elapse \/ UNCHANGED sessionVars
  PROVE  AgreeInv'
<1>0. /\ SessionType /\ clock \in Int /\ clock <= MaxClock /\ MaxClock \in Nat /\ IdleTime \in Nat
      /\ record \in [SessionIds -> {"NONE", "LIVE", "REVOKED"}]
      /\ \A s \in SessionIds : used[s] \in UseRow
  BY SessionAssumption DEF AgreeInv, SessionInv, SessionType, SessionAssumption
<1>1. ASSUME NEW c \in Calls, NEW s \in SessionIds, NEW op \in {"READ", "LOGOUT"}, Begin(c, s, op)
      PROVE  AgreeInv'
  <2>1. UNCHANGED <<clock, hash, login, record, used>>
    BY <1>1 DEF Begin
  <2>2. /\ call'[c].ttl = 0 /\ call'[c].done = 0
        /\ \A d \in Calls \ {c} : call'[d] = call[d]
    BY <1>0, <1>1 DEF Begin, SessionType
  <2>3. \A x \in SessionIds : Agreed(x)'
    BY <2>1 DEF AgreeInv, Agreed
  <2>4. RowAgrees(call[c])'
    BY <1>0, <2>2 DEF RowAgrees
  <2> QED
    BY <1>0, <2>1, <2>2, <2>3, <2>4, AgreeKeeps
<1>2. CASE Deactivate \/ UNCHANGED sessionVars
  <2>1. UNCHANGED <<clock, hash, login, record, used, call>>
    BY <1>2 DEF Deactivate, sessionVars
  <2>2. \A x \in SessionIds : Agreed(x)'
    BY <2>1 DEF AgreeInv, Agreed
  <2> QED
    BY <1>0, <2>1, <2>2, AgreeKeeps
<1>3. CASE Elapse
  <2>1. /\ UNCHANGED <<login, record, call>> /\ clock' <= MaxClock
        /\ \A s \in SessionIds : hash'[s] = hash[s] \/ hash'[s] = Gone
        /\ \A s \in SessionIds : used[s].ended => used'[s].ended
    BY <1>0, <1>3 DEF Elapse, UseRow
  <2>2. \A x \in SessionIds : Agreed(x)'
    BY <2>1 DEF AgreeInv, Agreed, Gone
  <2> QED
    BY <1>0, <2>1, <2>2, AgreeKeeps
<1> QED
  BY <1>1, <1>2, <1>3

LEMMA AgreeStep == AgreeInv /\ [SessionNext]_sessionVars => AgreeInv'
<1> SUFFICES ASSUME AgreeInv, [SessionNext]_sessionVars PROVE AgreeInv'
  OBVIOUS
<1>1. SessionInv'
  BY SessionStep DEF AgreeInv
<1>2. CASE UNCHANGED sessionVars
  BY <1>1, <1>2, OthersAgree
<1>3. CASE SessionNext
  <2> USE <1>1, <1>3
  <2>1. ASSUME NEW s \in SessionIds,
               \/ LogIn(s) \/ Store(s) \/ LimitStored(s) \/ CommitLogin(s) \/ SetCookie(s)
               \/ BreakLogin(s)
        PROVE  AgreeInv'
    BY <2>1, LoginAgrees
  <2>2. ASSUME NEW c \in Calls, NEW s \in SessionIds, NEW op \in {"READ", "LOGOUT"},
               Begin(c, s, op)
        PROVE  AgreeInv'
    BY <2>2, OthersAgree
  <2>3. ASSUME NEW c \in Calls,
               ReadHash(c) \/ Judge(c) \/ CheckUser(c) \/ Refuse(c) \/ Leave(c)
        PROVE  AgreeInv'
    BY <2>3, TouchAgrees
  <2>4. ASSUME NEW c \in Calls, Slide(c) \/ Renew(c) PROVE AgreeInv'
    BY <2>4, WritesAgree
  <2>5. ASSUME NEW c \in Calls, Revoke(c) \/ CommitLogout(c) PROVE AgreeInv'
    BY <2>5, LogoutAgrees
  <2>6. ASSUME Deactivate \/ Elapse PROVE AgreeInv'
    BY <2>6, OthersAgree
  <2> QED
    BY <2>1, <2>2, <2>3, <2>4, <2>5, <2>6 DEF SessionNext
<1> QED
  BY <1>2, <1>3

\* Wherever a login, a logout or a touch breaks off, a session whose cookie was
\* handed out has its row and a hash that goes away by itself, and none that is
\* revoked has a hash that passes for a session: login sets the TTL before it
\* commits, and logout deletes the hash before it does.
THEOREM TwoStoresAgree == SessionSpec => []StoresAgree
<1>1. SessionInit => AgreeInv
  <2> SUFFICES ASSUME SessionInit PROVE AgreeInv
    OBVIOUS
  <2>1. clock <= MaxClock /\ record \in [SessionIds -> {"NONE", "LIVE", "REVOKED"}]
    BY SessionAssumption DEF SessionInit, SessionAssumption
  <2>2. /\ \A s \in SessionIds : Agreed(s)
        /\ \A c \in Calls : RowAgrees(call[c])
    BY DEF SessionInit, Agreed, RowAgrees
  <2> QED
    BY <2>1, <2>2, SessionStart DEF AgreeInv
<1>2. AgreeInv => StoresAgree
  <2> SUFFICES ASSUME AgreeInv, NEW s \in SessionIds
               PROVE  /\ s \in cookie => record[s] # "NONE" /\ (hash[s].whole => hash[s].dies # Never)
                      /\ record[s] = "REVOKED" => ~hash[s].whole
    BY DEF StoresAgree
  <2>1. SessionOk(s) /\ Agreed(s) /\ hash[s] \in HashRow
    BY DEF AgreeInv, SessionInv, SessionType
  <2>2. hash[s].whole => hash[s].dies \in Int
    BY <2>1, HashFacts DEF WholeHash
  <2>3. Never \in Int
    BY SessionAssumption DEF SessionAssumption, Never
  <2> QED
    BY <2>1, <2>2, <2>3 DEF SessionOk, Agreed
<1> QED
  BY <1>1, <1>2, AgreeStep, PTL DEF SessionSpec
================================================================================
