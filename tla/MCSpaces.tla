------------------------------ MODULE MCSpaces ------------------------------
(* Spaces for TLC.  Of the nine kinds of objects of a Space, all but the      *)
(* three below are reconciled alike, as the ClusterRoleBindings are.          *)
EXTENDS Spaces

MCParts == <<"Namespace", "RoleBindings", "ClusterRoleBindings">>

Script(o, f, ops) == [wi |-> TRUE, old |-> o, faults |-> f, todo |-> ops]
Do(op, s) == [op |-> op, at |-> s]

\* The first Space; one more; one that goes and comes again beside another;
\* roles that change, the namespace deleted under the Space; an object edited
\* by hand and the last Space deleted; an object of another owner in the way;
\* Spaces without Workload Identity.
MCScripts == {
    Script({}, 1, <<Do("create", "s1"), Do("roles", "s1")>>),
    Script({"s1"}, 1, <<Do("create", "s2")>>),
    Script({"s1", "s2"}, 0, <<Do("delete", "s1"), Do("create", "s1")>>),
    Script({"s1"}, 0, <<Do("roles", "s1"), Do("roles", "s1"), Do("namespace", "s1")>>),
    Script({"s1"}, 1, <<Do("edit", "s1"), Do("delete", "s1")>>),
    Script({}, 0, <<Do("foreign", "s1"), Do("create", "s1"), Do("release", "s1")>>),
    [Script({"s1"}, 0, <<Do("create", "s2"), Do("delete", "s1")>>) EXCEPT !.wi = FALSE]}
==============================================================================
