-------------------------------- MODULE RowEdits --------------------------------
(***************************************************************************)
(* Edits of versioned rows outside the Task (applications_catalog): PATCH  *)
(* of an Application, a batch of one row, and PUT of the Tiers, a batch    *)
(* that is locked row by row in the order the client sent it.  Each row    *)
(* is locked FOR UPDATE, its version compared, and the whole batch         *)
(* committed at the end.                                                   *)
(*                                                                         *)
(* What the columns say, authorization and audit are left out, and so is   *)
(* a batch that names a Tier twice.                                        *)
(***************************************************************************)
EXTENDS Integers, Sequences, Functions

CONSTANTS
  Editors, Rows,
  Batches,          \* lists of rows a client sends
  MaxVersion        \* bound: versions a client has seen

ASSUME EditAssumption ==
  /\ MaxVersion \in Nat
  /\ \A b \in Batches : b \in Seq(Rows) /\ IsInjective(b)

VARIABLES
  version,     \* of each row as committed
  edit         \* the transaction of each editor

editVars == <<version, edit>>

NoEdit == [rows |-> <<>>, expected |-> <<>>, locked |-> 0]

RowsOf(r) == Range(edit[r].rows)
LockedRows(r) == {edit[r].rows[i] : i \in 1 .. edit[r].locked}
NextRow(r) == edit[r].rows[edit[r].locked + 1]
Active(r) == edit[r].rows # <<>>
Complete(r) == edit[r].locked = Len(edit[r].rows)

EndEdit(r) == edit' = [edit EXCEPT ![r] = NoEdit]

Send(r, batch, expected) ==
  /\ ~Active(r)
  /\ edit' = [edit EXCEPT ![r] = [rows |-> batch, expected |-> expected, locked |-> 0]]
  /\ UNCHANGED version

\* Mutant: the row is read without FOR UPDATE.
UnlockedRow(x, r) == x \in Rows
\* FOR UPDATE waits for the transaction that holds the row.
RowFree(x, r) == \A q \in Editors \ {r} : x \notin LockedRows(q)

\* A version that is not the row's is 409 CONCURRENCY_CONFLICT: nothing of the
\* batch is kept.
LockRow(r) ==
  /\ Active(r) /\ ~Complete(r) /\ RowFree(NextRow(r), r)
  /\ IF version[NextRow(r)] = edit[r].expected[NextRow(r)]
     THEN edit' = [edit EXCEPT ![r].locked = @ + 1]
     ELSE EndEdit(r)
  /\ UNCHANGED version

CommitEdit(r) ==
  /\ Active(r) /\ Complete(r)
  /\ version' = [x \in Rows |-> IF x \in RowsOf(r) THEN version[x] + 1 ELSE version[x]]
  /\ EndEdit(r)

\* Refused for another reason (the name is taken, no such Tier), broken off,
\* or chosen by PostgreSQL when batches wait for one another in a circle.
GiveUp(r) ==
  /\ Active(r)
  /\ EndEdit(r)
  /\ UNCHANGED version

EditInit ==
  /\ version = [x \in Rows |-> 1]
  /\ edit = [r \in Editors |-> NoEdit]

EditNext ==
  \E r \in Editors :
    \/ \E batch \in Batches :
         \E expected \in [Range(batch) -> 1 .. MaxVersion] : Send(r, batch, expected)
    \/ LockRow(r) \/ CommitEdit(r) \/ GiveUp(r)

EditSpec == EditInit /\ [][EditNext]_editVars

--------------------------------------------------------------------------------
(* Correctness                                                              *)

Wanted(r) == {<<x, edit[r].expected[x]>> : x \in RowsOf(r)}

Versioned ==
  INSTANCE VersionedRows WITH Versions <- 1 .. MaxVersion, wanted <- [r \in Editors |-> Wanted(r)]

\* No edit is lost and no batch is half done: the locks, taken one by one,
\* compared as they are taken and held until the commit, add up to one
\* compare-and-set of the whole batch (update_application, update_tiers).
EditsAreCompareAndSet == Versioned!Spec
================================================================================
