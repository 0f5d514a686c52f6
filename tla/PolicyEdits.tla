------------------------------ MODULE PolicyEdits ------------------------------
(***************************************************************************)
(* Policy values and the file policy (policies_admin/commands.py).  A new  *)
(* value supersedes the current row of its key; no index keeps a key from  *)
(* having two, so writers of a key take an advisory lock.  PUT of the file *)
(* policy locks its row and then sets the two values that mirror it, each  *)
(* under the lock of its key, in the same transaction.                     *)
(*                                                                         *)
(* Of the keys, the two mirrors, at global scope.  The other fields of the *)
(* file policy, validation, authorization and audit are left out.          *)
(***************************************************************************)
EXTENDS Integers, Sequences, FiniteSets

CONSTANTS
  Admins,                   \* requests under way
  Settings, DefaultSetting  \* values, and the one in the seed

ASSUME PolicyAssumption == DefaultSetting \in Settings

Mirrors == {"file.max_mb", "file.allowlist"}

VARIABLES
  filePolicy,   \* the row: the value of each mirrored field
  values,       \* rows of policy_values that are not superseded, by key
  change,       \* the transaction of each request
  direct        \* history: keys set by themselves since the file policy was

policyVars == <<filePolicy, values, change, direct>>

NoChange == [kind |-> "NONE"]
Todo(kind) ==
  IF kind = "FILE" THEN <<"file_policy", "file.max_mb", "file.allowlist">> ELSE <<kind>>

Running(r) == change[r].kind # "NONE"
Taken(r) == IF Running(r) THEN {Todo(change[r].kind)[i] : i \in 1 .. change[r].taken} ELSE {}
AllTaken(r) == change[r].taken = Len(Todo(change[r].kind))
EndChange(r) == change' = [change EXCEPT ![r] = NoChange]

\* PUT /admin/policies with a key, or PUT /admin/file-policy.
StartChange(r, kind, new) ==
  /\ ~Running(r)
  /\ change' = [change EXCEPT ![r] =
       [kind |-> kind, new |-> new, taken |-> 0, previous |-> [k \in Mirrors |-> {}]]]
  /\ UNCHANGED <<filePolicy, values, direct>>

\* Mutant: no lock of a key.
KeysUnlocked(x, r) == \A q \in Admins \ {r} : x = "file_policy" => x \notin Taken(q)
\* FOR UPDATE of the file policy, pg_advisory_xact_lock of a key.
LockFree(x, r) == \A q \in Admins \ {r} : x \notin Taken(q)

\* The lock, and for a key the row that is current then.
TakeLock(r) ==
  LET x == Todo(change[r].kind)[change[r].taken + 1] IN
  /\ Running(r) /\ ~AllTaken(r) /\ LockFree(x, r)
  /\ change' = [change EXCEPT ![r].taken = @ + 1,
       ![r].previous = IF x \in Mirrors THEN [@ EXCEPT ![x] = values[x]] ELSE @]
  /\ UNCHANGED <<filePolicy, values, direct>>

\* Mutant: the file policy sets the mirrors of the fields it changes.
KeysChanged(r) ==
  {k \in Taken(r) \cap Mirrors : change[r].kind = "FILE" => filePolicy[k] # change[r].new[k]}
\* The keys a transaction sets.
KeysSet(r) == Taken(r) \cap Mirrors

CommitChange(r) ==
  LET c == change[r] IN
  /\ Running(r) /\ AllTaken(r)
  /\ values' = [k \in Mirrors |->
       IF k \in KeysSet(r) THEN (values[k] \ c.previous[k]) \cup {[by |-> r, value |-> c.new[k]]}
       ELSE values[k]]
  /\ IF c.kind = "FILE" THEN filePolicy' = c.new /\ direct' = {}
     ELSE direct' = direct \cup KeysSet(r) /\ UNCHANGED filePolicy
  /\ EndChange(r)

\* Refused, or broken off: rolled back.
DropChange(r) ==
  /\ Running(r)
  /\ EndChange(r)
  /\ UNCHANGED <<filePolicy, values, direct>>

PolicyInit ==
  /\ filePolicy = [k \in Mirrors |-> DefaultSetting]
  /\ values = [k \in Mirrors |-> {}]
  /\ change = [r \in Admins |-> NoChange]
  /\ direct = {}

PolicyNext ==
  \E r \in Admins :
    \/ \E new \in [Mirrors -> Settings] : StartChange(r, "FILE", new)
    \/ \E k \in Mirrors : \E new \in [{k} -> Settings] : StartChange(r, k, new)
    \/ TakeLock(r) \/ CommitChange(r) \/ DropChange(r)

PolicySpec == PolicyInit /\ [][PolicyNext]_policyVars

--------------------------------------------------------------------------------
(* Correctness                                                              *)

\* A key has at most one current row, or every later write and read of it
\* would find two (commands.py:98-104; scalar_one_or_none would raise).
OneCurrentValue == \A k \in Mirrors : Cardinality(values[k]) <= 1

\* PolicyService.resolve at global scope.
Resolved(k) == IF values[k] = {} THEN DefaultSetting ELSE (CHOOSE v \in values[k] : TRUE).value

\* The values the policy UI shows are those of the file policy, but for keys
\* that were set by themselves afterwards: an update of the file policy that
\* overlaps with such a write or with another update leaves none behind
\* (commands.py:152-155; update_file_policy).
MirrorInStep == \A k \in Mirrors \ direct : Resolved(k) = filePolicy[k]
================================================================================
