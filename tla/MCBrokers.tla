------------------------------ MODULE MCBrokers ------------------------------
(* Brokers for TLC; the cfg files give the bounds.                            *)
EXTENDS Brokers
==============================================================================
