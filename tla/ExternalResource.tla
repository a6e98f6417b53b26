-------------------------- MODULE ExternalResource --------------------------
(***************************************************************************)
(* What Kf promises about a resource it creates outside the cluster: the   *)
(* API object that stands for the resource carries a guard (a finalizer)   *)
(* from before the resource is first requested until the resource is known *)
(* to be gone, or until creating it was given up as failed.                *)
(*                                                                         *)
(* guard: "open"      no guard yet                                         *)
(*        "held"      the guard is on: the object cannot vanish            *)
(*        "released"  taken off because the resource is gone               *)
(*        "abandoned" taken off because its creation was reported failed   *)
(***************************************************************************)
EXTENDS OSBBroker

VARIABLES resource, guard

vars == <<resource, guard>>

TypeOK ==
    /\ resource \in Resource
    /\ guard \in {"open", "held", "released", "abandoned"}

Init == resource = "absent" /\ guard = "open"

Hold == guard = "open" /\ guard' = "held" /\ UNCHANGED resource

\* While the guard is on, the resource may change in any way.
Operate == guard = "held" /\ resource' \in Resource /\ UNCHANGED guard

Release ==
    /\ guard = "held" /\ resource = "absent"
    /\ guard' = "released"
    /\ UNCHANGED resource

Abandon == guard = "held" /\ guard' = "abandoned" /\ UNCHANGED resource

\* The broker may still finish work on an abandoned resource, but nothing asks
\* for it to be created again.
Drift ==
    /\ guard = "abandoned" /\ resource # "absent"
    /\ resource' \in Resource
    /\ UNCHANGED guard

Next == Hold \/ Operate \/ Release \/ Abandon \/ Drift

Spec == Init /\ [][Next]_vars

(* Nothing outside the cluster is left without an owner unless creating it  *)
(* was reported as failed.                                                  *)
NoLeak == resource # "absent" => guard \in {"held", "abandoned"}
==============================================================================
