---------------------------- MODULE MCTaskLifecycle ----------------------------
(***************************************************************************)
(* Instances of TaskLifecycle for TLC.                                     *)
(*   one Task:  the validation, evidence, blocker and assignment commands  *)
(*              in full, with a Manager and D-214                          *)
(*   a chain:   two Tasks with a gate and two Milestones                   *)
(***************************************************************************)
EXTENDS TaskLifecycle, TLC

CONSTANTS t1, t2, m1, m2

NoFunction == [t \in Tasks |-> {}]
NoMilestone == [m \in Milestones |-> {}]

\* t2 follows t1 (of another stream) and waits for m1, which t1 earns.
ChainUpstream == [t \in Tasks |-> IF t = t2 THEN {t1} ELSE {}]
ChainGates == [t \in Tasks |-> IF t = t2 THEN {m1} ELSE {}]
ChainOtherStream == ChainUpstream
\* m1 needs t1, is helped by t2 and is AUTOMATIC; m2 needs both and is timed.
ChainContributors == [m \in Milestones |-> {t1, t2}]
ChainRequired == [m \in Milestones |-> IF m = m1 THEN {t1} ELSE {t1, t2}]

Interchangeable ==
  Permutations(Blockers) \cup Permutations(Validations) \cup Permutations(Evidence)
===============================================================================
