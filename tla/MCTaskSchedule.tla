--------------------------- MODULE MCTaskSchedule ---------------------------
(* TaskSchedule for TLC; the cfg files give the bounds.                       *)
EXTENDS TaskSchedule
==============================================================================
