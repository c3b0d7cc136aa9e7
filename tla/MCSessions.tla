----------------------------- MODULE MCSessions -----------------------------
(* Sessions for TLC: requests are alike, and so are tenants. *)
EXTENDS Sessions, TLC

Interchangeable  == Permutations(Requests) \cup Permutations(Tenants)
Members          == {{"workspace_member"}}
MembersAndAdmins == {{"workspace_member"}, {"workspace_admin"}}
=============================================================================
