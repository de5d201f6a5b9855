------------------------- MODULE MCDirectMessages -------------------------
(***************************************************************************)
(* Model values for the runs of DirectMessages.                            *)
(***************************************************************************)
EXTENDS DirectMessages

CONSTANTS m1, m2, t1, t2
=============================================================================
