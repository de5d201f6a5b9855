--------------------------- MODULE PublishContract ---------------------------
(***************************************************************************)
(* What the publishing side promises for a post, whoever drives it: it goes  *)
(* public at most once, only while its verdict is open, and the verdict      *)
(* that is written agrees with what followers can see.                       *)
(***************************************************************************)
EXTENDS Naturals

CONSTANTS
    Posts,  \* records of Instagram_Posts
    Tries   \* the attempts at publishing one record

VARIABLES
    copies,   \* the attempts that became public, per post
    verdict   \* "open", "posted" or "failed", per post

vars == <<copies, verdict>>

Init ==
    /\ copies = [p \in Posts |-> {}]
    /\ verdict \in [Posts -> {"open", "failed"}]

Publish(p) ==
    /\ verdict[p] = "open"
    /\ copies[p] = {}
    /\ \E a \in Tries : copies' = [copies EXCEPT ![p] = {a}]
    /\ UNCHANGED verdict

Settle(p) ==
    /\ verdict[p] = "open"
    /\ verdict' = [verdict EXCEPT ![p] = IF copies[p] = {} THEN "failed" ELSE "posted"]
    /\ UNCHANGED copies

\* A person gives a failed post another chance.
Reopen(p) ==
    /\ verdict[p] = "failed"
    /\ verdict' = [verdict EXCEPT ![p] = "open"]
    /\ UNCHANGED copies

Next == \E p \in Posts : Publish(p) \/ Settle(p) \/ Reopen(p)

Spec == Init /\ [][Next]_vars
=============================================================================
