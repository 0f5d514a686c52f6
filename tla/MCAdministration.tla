--------------------------- MODULE MCAdministration ---------------------------
(***************************************************************************)
(* What surrounds the commands of a DR Event, for TLC: sessions, a local   *)
(* account, policies, versioned master data, and the Idempotency-Key.      *)
(* They share nothing: each is explored from its initial state while the   *)
(* others rest in theirs, so that the states add up and do not multiply.   *)
(***************************************************************************)
EXTENDS Sessions, LocalAccount, PolicyEdits, RowEdits, Idempotency, TLC

CONSTANTS app, tier0, tier1, c1, c2, r1, r2

\* A PATCH of an Application, and PUTs of Tiers in either order.
BatchesSent == {<<app>>, <<tier0>>, <<tier0, tier1>>, <<tier1, tier0>>}

\* Requests are alike, and the properties of this run are all of safety.
Alike == {c @@ r : c \in Permutations({c1, c2}), r \in Permutations({r1, r2})}

MCInit == SessionInit /\ AccountInit /\ PolicyInit /\ EditInit /\ KeyInit

MCNext ==
  \/ /\ SessionNext
     /\ AccountInit /\ PolicyInit /\ EditInit /\ KeyInit
     /\ UNCHANGED <<accountVars, policyVars, editVars, keyVars>>
  \/ /\ AccountNext
     /\ SessionInit /\ PolicyInit /\ EditInit /\ KeyInit
     /\ UNCHANGED <<sessionVars, policyVars, editVars, keyVars>>
  \/ /\ PolicyNext
     /\ SessionInit /\ AccountInit /\ EditInit /\ KeyInit
     /\ UNCHANGED <<sessionVars, accountVars, editVars, keyVars>>
  \/ /\ EditNext
     /\ SessionInit /\ AccountInit /\ PolicyInit /\ KeyInit
     /\ UNCHANGED <<sessionVars, accountVars, policyVars, keyVars>>
  \/ /\ KeyNext
     /\ SessionInit /\ AccountInit /\ PolicyInit /\ EditInit
     /\ UNCHANGED <<sessionVars, accountVars, policyVars, editVars>>

MCSpec ==
  MCInit /\ [][MCNext]_<<sessionVars, accountVars, policyVars, editVars, keyVars>>
===============================================================================
