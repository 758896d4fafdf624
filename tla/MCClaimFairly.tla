---------------------------- MODULE MCClaimFairly -----------------------------
(* A customer with three jobs and one with a single job, whose id lies between  *)
(* the ids of the others.                                                      *)
EXTENDS ClaimFairly

CONSTANTS big, small, r1, r2

MCUserOf == [j \in Jobs |-> IF j \in {1, 2, 4} THEN big ELSE small]
===============================================================================
