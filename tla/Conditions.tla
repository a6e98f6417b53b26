----------------------------- MODULE Conditions -----------------------------
(***************************************************************************)
(* The status conditions of Kf's resources: each part of a resource has a  *)
(* condition that is True, False or Unknown, and the resource's own        *)
(* condition (Ready, or Succeeded for work that runs once) summarises      *)
(* them the way knative's living condition set does.                       *)
(***************************************************************************)
EXTENDS Naturals

ConditionStatus == {"True", "False", "Unknown"}

\* External (knative's recomputeHappiness): one False part makes the whole
\* False, otherwise one Unknown part makes it Unknown.
Happy(parts) ==
    IF "False" \in parts THEN "False"
    ELSE IF "Unknown" \in parts THEN "Unknown" ELSE "True"

\* The overall condition of child resources; without children it is True.
SummarizeChildConditions(cond) == Happy({cond[t] : t \in DOMAIN cond})

\* Mutant: the reason ends up as the status.
MarkReconciliationErrorReason(err) == err

\* What a failed API call does to a condition: a conflict or an "already
\* exists" only says that the informer's cache is outdated.
MarkReconciliationError(err) ==
    IF err \in {"conflict", "exists"} THEN "Unknown" ELSE "False"

IsPending(status) == status = "Unknown"
IsStatusFinal(status) == status \in {"True", "False"}
==============================================================================
