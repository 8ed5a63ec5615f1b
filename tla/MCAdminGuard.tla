---------------------------- MODULE MCAdminGuard ----------------------------
(* An instance of AdminGuard for TLC. *)
EXTENDS AdminGuard, TLC

CONSTANTS admin, user, custom

AllPermissions == {"roles:write", "users:assign-role", "users:write", "users:delete"}
SomeRoleLists == {{}, {admin}, {user}, {custom}}
SomePermissionLists == {{"roles:write"}, {"users:assign-role"}, AdminPermissions}

AnyRequest == Permutations(Requests)
=============================================================================
