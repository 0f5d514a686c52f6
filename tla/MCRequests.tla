------------------------------ MODULE MCRequests ------------------------------
(***************************************************************************)
(* Three protocols that requests and messages follow when they are cut     *)
(* short, lost or sent again, for TLC.  They share nothing: each is        *)
(* explored from its initial state while the others rest in theirs, so     *)
(* that the states add up and do not multiply.                             *)
(***************************************************************************)
EXTENDS ImportJob, EvidenceStore, Idempotency

MCInit == ImportInit /\ EvidenceInit /\ KeyInit

MCNext ==
  \/ /\ ImportNext
     /\ EvidenceInit /\ KeyInit
     /\ UNCHANGED <<evidenceVars, keyVars>>
  \/ /\ EvidenceNext
     /\ ImportInit /\ KeyInit
     /\ UNCHANGED <<importVars, keyVars>>
  \/ /\ KeyNext
     /\ ImportInit /\ EvidenceInit
     /\ UNCHANGED <<importVars, evidenceVars>>

\* What is fair in one is disabled while it rests.
MCSpec ==
  /\ MCInit /\ [][MCNext]_<<importVars, evidenceVars, keyVars>>
  /\ ImportFairness /\ EvidenceFairness /\ KeyFairness
===============================================================================
