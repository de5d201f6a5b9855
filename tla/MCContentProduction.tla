------------------------- MODULE MCContentProduction -------------------------
(* Bounds for ContentProduction: the scheduled job and a manual run, two      *)
(* sources over two days, so that a source is used up, comes back and is      *)
(* overtaken; two faults, so that a lost answer can be followed by a crash.   *)
EXTENDS ContentProduction

CONSTANTS launcher, manual

MCRuns    == {launcher, manual}
MCSources == 1..2
MCDays    == 1..2
=============================================================================
