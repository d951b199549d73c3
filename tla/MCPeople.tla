------------------------------ MODULE MCPeople ------------------------------
(* A node, one organisation on it with one project, and the people who join. *)
EXTENDS People, TLC

CONSTANTS p1, p2, p3, l1, l2, r1, r2, node, tenant, project

MCPerson == {p1, p2, p3}
MCLink == {l1, l2}
MCRequest == {r1, r2}
MCTenant == {tenant}
MCProject == {project}
MCHomeOf == project :> tenant
MCForm ==
    { [role |-> "admin", scope |-> node, project |-> NoProject],
      [role |-> "admin", scope |-> tenant, project |-> NoProject],
      [role |-> "member", scope |-> tenant, project |-> project] }
MCSymmetry == Permutations(MCPerson) \cup Permutations(MCLink) \cup Permutations(MCRequest)

==============================================================================
