------------------------ MODULE MCCommentEventInbox ------------------------
(* Instances of CommentEventInbox for TLC. *)
EXTENDS CommentEventInbox, TLC

CONSTANTS e1, e2, h1, h2, t1, t2

\* Webhook threads are interchangeable, and so are task ids.
InboxSymmetry == Permutations({h1, h2}) \cup Permutations({t1, t2})

\* So are two comments that both ask for a reply.
CommentSymmetry == Permutations({e1, e2})
=============================================================================
