-------------------------- MODULE MCMilestoneProgress --------------------------
\* An instance of MilestoneProgress: two Tasks behind two Milestones, 1 needing
\* both of them and 2 needing one of them and AUTOMATIC.
EXTENDS MilestoneProgress

CONSTANTS t1, t2

MCContributors == [m \in Milestones |-> {t1, t2}]
MCRequired == [m \in Milestones |-> IF m = 1 THEN {t1, t2} ELSE {t1}]
MCGated == [m \in Milestones |-> IF m = 1 THEN {} ELSE {t2}]
===============================================================================
