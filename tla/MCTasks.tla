------------------------------- MODULE MCTasks -------------------------------
(* Tasks for TLC; the cfg files give the bounds.                              *)
EXTENDS Tasks
==============================================================================
