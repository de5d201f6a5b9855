-------------------------- MODULE MCPublishPipeline --------------------------
(***************************************************************************)
(* Instances of PublishPipeline for TLC: c1 is a carousel of the slot        *)
(* account, g1 and g2 are posts of the account with post_hours; poller and   *)
(* slot run in the launcher.  The state space of all three posts is out of   *)
(* TLC's reach, so a behaviour is of two of them, the third one having been  *)
(* turned down before.                                                       *)
(***************************************************************************)
EXTENDS PublishPipeline

CONSTANTS c1, g1, g2, poller, slot

Waiting(W) == status = [p \in Posts |-> IF p \in W THEN "ready" ELSE "rejected"]

\* The carousel beside a post that has the last slot of the day, or the two posts that
\* share all slots of the day.
MCInit ==
    /\ Init /\ slotFile = due
    /\ \/ Waiting({c1, g1}) /\ due + 1 = MaxSlots
       \/ Waiting({g1, g2}) /\ due = 0

MCSpec == MCInit /\ [][Next]_vars

\* The carousel and the post, from the beginning of the day.
MCFairInit == Init /\ Waiting({c1, g1}) /\ due = 0

MCFairSpec == MCFairInit /\ [][Next]_vars /\ Fairness
=============================================================================
