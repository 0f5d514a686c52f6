------------------------------- MODULE OwnerEdits -------------------------------
(***************************************************************************)
(* PUT of the owners of an Application (set_application_owners): the slots *)
(* of the request replace the active ones.  The rows are read without a    *)
(* lock and without a version; of what is assigned afterwards, SQLAlchemy  *)
(* writes the columns that differ from the row as it was read.  The slots  *)
(* are written in the order of their rows, each waiting for transactions   *)
(* that have written it, so that writing and committing them is one step.  *)
(*                                                                         *)
(* The slots of one owner type; who owns a slot, whether that user is      *)
(* active, authorization and audit are left out.                           *)
(***************************************************************************)
EXTENDS Integers

CONSTANTS OwnerEditors      \* requests under way

Slots == 1..3

VARIABLES
  slot,        \* the row of each slot: ABSENT, ACTIVE or DELETED
  replacing    \* what each request wants, and the rows it has read

ownerVars == <<slot, replacing>>

NotReplacing == [wanted |-> {}, read |-> <<>>]

\* At most three slots, and the first if any.
Valid(wanted) == wanted = {} \/ 1 \in wanted

ReadOwners(r, wanted) ==
  /\ replacing[r] = NotReplacing /\ Valid(wanted)
  /\ replacing' = [replacing EXCEPT ![r] = [wanted |-> wanted, read |-> slot]]
  /\ UNCHANGED slot

\* A slot another request has inserted meanwhile.
Collides(r) ==
  \E o \in replacing[r].wanted : replacing[r].read[o] = "ABSENT" /\ slot[o] # "ABSENT"

\* deleted_at is written where it changes: from the row as it was read.
Written(r, o) ==
  LET read == replacing[r].read[o] IN
  IF o \in replacing[r].wanted
  THEN IF read = "ACTIVE" THEN slot[o] ELSE "ACTIVE"
  ELSE IF read = "ACTIVE" THEN "DELETED" ELSE slot[o]

\* application_owner_slot_unique refuses a second row, and all is rolled back.
WriteOwners(r) ==
  /\ replacing[r] # NotReplacing
  /\ slot' = IF Collides(r) THEN slot ELSE [o \in Slots |-> Written(r, o)]
  /\ replacing' = [replacing EXCEPT ![r] = NotReplacing]

BreakReplace(r) ==
  /\ replacing[r] # NotReplacing
  /\ replacing' = [replacing EXCEPT ![r] = NotReplacing]
  /\ UNCHANGED slot

OwnerInit ==
  /\ slot = [o \in Slots |-> "ABSENT"]
  /\ replacing = [r \in OwnerEditors |-> NotReplacing]

OwnerNext ==
  \E r \in OwnerEditors :
    \/ \E wanted \in SUBSET Slots : ReadOwners(r, wanted)
    \/ WriteOwners(r) \/ BreakReplace(r)

OwnerSpec == OwnerInit /\ [][OwnerNext]_ownerVars

--------------------------------------------------------------------------------
(* Correctness                                                              *)

\* Whatever requests replaced the owners, a backup has a primary beside it:
\* "Slot 1 (Primary) is required whenever any other slot for that owner type
\* is set." (commands.py:67)
PrimaryPresent == \A o \in Slots : slot[o] = "ACTIVE" => slot[1] = "ACTIVE"
================================================================================
