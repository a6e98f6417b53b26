-------------------------- MODULE MCServiceInstance --------------------------
(* ServiceInstance for TLC; the cfg files give the bounds.                   *)
EXTENDS ServiceInstance
==============================================================================
