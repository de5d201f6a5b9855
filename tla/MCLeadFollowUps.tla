-------------------------- MODULE MCLeadFollowUps --------------------------
(***************************************************************************)
(* Model values for the runs of LeadFollowUps.                             *)
(***************************************************************************)
EXTENDS LeadFollowUps

CONSTANTS l1, l2, t1, t2
=============================================================================
