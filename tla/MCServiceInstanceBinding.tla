---------------------- MODULE MCServiceInstanceBinding ----------------------
(* ServiceInstanceBinding with small bounds, given in the configurations.   *)
EXTENDS ServiceInstanceBinding
==============================================================================
