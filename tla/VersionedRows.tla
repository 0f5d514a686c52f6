----------------------------- MODULE VersionedRows -----------------------------
(***************************************************************************)
(* What expected_version promises (D-214, ADR-036): an edit names rows and *)
(* the versions its author has seen, and takes effect on all of them at    *)
(* once, if these are still their versions, or on none.                    *)
(***************************************************************************)
EXTENDS Naturals

CONSTANTS Editors, Rows, Versions

VARIABLES
  version,   \* of each row
  wanted     \* edits under way, as sets of pairs of a row and its version

vars == <<version, wanted>>

Init ==
  /\ version = [x \in Rows |-> 1]
  /\ wanted = [r \in Editors |-> {}]

Ask(r, want) ==
  /\ wanted[r] = {}
  /\ wanted' = [wanted EXCEPT ![r] = want]
  /\ UNCHANGED version

Apply(r) ==
  /\ \A p \in wanted[r] : version[p[1]] = p[2]
  /\ version' = [x \in Rows |->
       IF \E p \in wanted[r] : p[1] = x THEN version[x] + 1 ELSE version[x]]
  /\ wanted' = [wanted EXCEPT ![r] = {}]

Drop(r) ==
  /\ wanted' = [wanted EXCEPT ![r] = {}]
  /\ UNCHANGED version

Next ==
  \E r \in Editors :
    (\E want \in SUBSET (Rows \X Versions) : Ask(r, want)) \/ Apply(r) \/ Drop(r)

Spec == Init /\ [][Next]_vars
================================================================================
