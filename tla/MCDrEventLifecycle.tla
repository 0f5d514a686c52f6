-------------------------- MODULE MCDrEventLifecycle --------------------------
(* Two Events of one Application each, of which either may become the       *)
(* other's child, three Users, two transactions at a time.                  *)
EXTENDS DrEventLifecycle, TLC

CONSTANTS parent, child, a1, a2, u1, u2, u3, p1, p2

MCEventOf == a1 :> parent @@ a2 :> child
Sym == Permutations(Users) \cup Permutations(Txns)
=============================================================================
