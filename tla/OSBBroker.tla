------------------------------ MODULE OSBBroker ------------------------------
(***************************************************************************)
(* The Open Service Broker that Kf provisions from, seen through the five  *)
(* calls the reconcilers make (go-open-service-broker-client):             *)
(* ProvisionInstance and Bind create a resource, DeprovisionInstance and   *)
(* Unbind delete one, and PollLastOperation / PollBindingLastOperation     *)
(* follow an asynchronous operation.  The broker is external to Kf; this   *)
(* module states only what the reconcilers can observe of it.              *)
(*                                                                         *)
(* One resource (a service instance or a binding) is in one of four        *)
(* states.  Each relation below reads Step(r, a, r2): in state r the broker*)
(* may answer a and be left in state r2.  A call that returns an error may *)
(* still have been executed: the answer, not the request, was lost.        *)
(***************************************************************************)

Resource == {"absent", "creating", "present", "deleting"}

\* What the client sees: a 200/201, a 202, a 409, a 404/410, any other error.
Answer == {"ok", "async", "conflict", "gone", "error"}

\* What a poll shows: a 409/5xx, any other error, or the operation's state.
PollAnswer == {"retry", "error", "gone", "inProgress", "succeeded", "failed"}

CreateStep(r, a, r2) ==
    \/ a = "ok"       /\ r \in {"absent", "present"}  /\ r2 = "present"
    \/ a = "async"    /\ r \in {"absent", "creating"} /\ r2 = "creating"
    \/ a = "conflict" /\ r # "absent"                 /\ r2 = r
    \/ a = "error"    /\ \/ r2 = r
                         \/ r = "absent" /\ r2 \in {"creating", "present"}

DeleteStep(r, a, r2) ==
    \/ a = "gone"  /\ r = "absent"  /\ r2 = r
    \/ a = "ok"    /\ r = "present" /\ r2 = "absent"
    \/ a = "async" /\ r # "absent"  /\ r2 = "deleting"
    \/ a = "error" /\ \/ r2 = r
                      \/ r = "present" /\ r2 \in {"deleting", "absent"}

\* The operation polled is a creation.
PollCreateStep(r, a) ==
    \/ a \in {"retry", "error"}
    \/ a = "inProgress" /\ r \in {"creating", "deleting"}
    \/ a = "succeeded"  /\ r = "present"
    \/ a = "failed"     /\ r = "absent"

\* The operation polled is a deletion.
PollDeleteStep(r, a) ==
    \/ a \in {"retry", "error"}
    \/ a = "inProgress" /\ r \in {"creating", "deleting"}
    \/ a \in {"succeeded", "gone"} /\ r = "absent"
    \/ a = "failed"     /\ r = "present"

\* An asynchronous operation ends, in success or in failure.
FinishStep(r, r2) ==
    /\ r \in {"creating", "deleting"}
    /\ r2 \in {"absent", "present"}
==============================================================================
