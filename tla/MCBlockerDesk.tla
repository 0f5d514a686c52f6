----------------------------- MODULE MCBlockerDesk -----------------------------
(* A Task with two Blockers, a Coordinator, a Team with one Executor, who   *)
(* does not see the Event at first, two sweeps that may overlap.            *)
EXTENDS BlockerDesk, TLC

CONSTANTS t1, owning, c, x

MCTaskOf == 1 :> t1 @@ 2 :> t1
MCOwningTeam == t1 :> owning
MCAssigneeOf == t1 :> x
MCMembersOf == owning :> {x}
MCManagerOf == owning :> None
=============================================================================
