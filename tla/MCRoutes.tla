------------------------------ MODULE MCRoutes ------------------------------
(* Routes for TLC; the cfg files give the bounds.                             *)
EXTENDS Routes
==============================================================================
