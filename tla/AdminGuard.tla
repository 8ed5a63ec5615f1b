----------------------------- MODULE AdminGuard -----------------------------
(***************************************************************************)
(* Who holds which permission, and the changes of it that the API allows   *)
(* (user.service.ts, role.service.ts, admin-guard.ts), for requests that   *)
(* run at once.  A request is authenticated, with the permissions it has   *)
(* at that moment, then takes the advisory lock, checks and writes inside  *)
(* its transaction, asserts that an administrator remains, and commits.    *)
(* What it has written is invisible to the others until then, so that a    *)
(* request keeps what it is going to change, and the commit applies it.    *)
(* Registration and the creation of a role do not take the lock.           *)
(***************************************************************************)
EXTENDS Naturals, FiniteSets

CONSTANTS
  Users, Roles,     \* ids of rows; one that has been deleted is not used again
  SystemRoles,      \* roles with is_system set, made by the seeder
  DefaultRole,      \* the system role "user"
  Permissions,      \* permission keys
  Root,             \* the seeded administrator
  AdminRole,        \* the system role "admin"
  Staff,            \* users who have registered before
  RoleLists,        \* bound: the role sets that requests submit
  PermissionLists,  \* bound: the permission sets that requests submit
  Requests,         \* connections that serve requests
  None,
  MaxRequests       \* bound: how many requests arrive in all

\* What an administrator must hold, by assertAdminRemains.
AdminPermissions == {"roles:write", "users:assign-role"}

ASSUME RolesAssumption ==
  SystemRoles \subseteq Roles /\ {DefaultRole, AdminRole} \subseteq SystemRoles
ASSUME RootAssumption == Root \in Users
ASSUME StartAssumption == Staff \subseteq Users \ {Root}
ASSUME ListsAssumption ==
  RoleLists \subseteq SUBSET Roles /\ PermissionLists \subseteq SUBSET Permissions
ASSUME PermissionsAssumption == AdminPermissions \subseteq Permissions
ASSUME DefaultAssumption == DefaultRole # AdminRole
ASSUME MaxRequestsAssumption == MaxRequests \in Nat

VARIABLES
  db,      \* the committed tables
  req,     \* what each request is doing
  served   \* requests that have arrived, at most MaxRequests

vars == <<db, req, served>>

Tables == [account: [Users -> {"none", "active", "inactive", "deleted"}],
           role: [Roles -> {"none", "present", "deleted"}],
           user_roles: [Users -> SUBSET Roles],
           role_permissions: [Roles -> SUBSET Permissions]]

UserChanges == {"deactivate", "reactivate", "deleteUser", "assignRoles"}
RoleChanges == {"deleteRole", "setRolePermissions"}
Changes == UserChanges \cup RoleChanges

ASSUME NoneAssumption == None \notin Users \cup Roles \cup Changes

Pc == {"idle", "authenticated", "locked", "written", "asserted"}

Request == [pc: Pc,
            change: Changes \cup {None},
            held: SUBSET Permissions,    \* req.auth.permissions
            user: Users \cup {None},     \* the record to change: a user ...
            role: Roles \cup {None},     \* ... or a role
            roleIds: SUBSET Roles,
            permissionIds: SUBSET Permissions]

Idle == [pc |-> "idle", change |-> None, held |-> {}, user |-> None,
         role |-> None, roleIds |-> {}, permissionIds |-> {}]

-----------------------------------------------------------------------------
(* Reading the tables.                                                     *)

PermissionsOf(d, u) == UNION {d.role_permissions[ro] : ro \in d.user_roles[u]}

\* The query of assertAdminRemains.
IsAdmin(d, u) ==
  d.account[u] = "active" /\ AdminPermissions \subseteq PermissionsOf(d, u)
HasAdmin(d) == \E u \in Users : IsAdmin(d, u)

Exists(d, u) == d.account[u] \in {"active", "inactive"}

-----------------------------------------------------------------------------
(* What a change needs, checks and writes.                                 *)

\* requirePermission of the route, and the check in the PATCH controller.
Required(change) ==
  IF change \in {"deactivate", "reactivate"} THEN "users:write"
  ELSE IF change = "deleteUser" THEN "users:delete"
  ELSE IF change = "assignRoles" THEN "users:assign-role" ELSE "roles:write"

\* An actor's own record goes through updateSelf, and its roles are not its to assign.
NotOnSelf == {"deactivate", "reactivate", "assignRoles"}

SymmetricDifference(S, T) == (S \ T) \cup (T \ S)

\* The lookups under the lock.
Found(d, q) ==
  /\ q.change \in UserChanges => Exists(d, q.user)
  /\ q.change \in RoleChanges => d.role[q.role] = "present"
  /\ \A ro \in q.roleIds : d.role[ro] = "present"

\* Faulty variant: nothing compares what is granted with what the actor holds.
AllowedToAll(d, q) ==
  /\ Found(d, q)
  /\ q.change \in RoleChanges => q.role \notin SystemRoles

\* Faulty variant: only the roles that are added are compared.
AllowedIfAdded(d, q) ==
  /\ AllowedToAll(d, q)
  /\ q.change = "assignRoles" =>
       \A ro \in q.roleIds \ d.user_roles[q.user] : d.role_permissions[ro] \subseteq q.held

\* The lookups and the checks that follow them.
Allowed(d, q) ==
  /\ Found(d, q)
  /\ q.change \in RoleChanges => q.role \notin SystemRoles
  /\ q.change = "assignRoles" =>
       \A ro \in SymmetricDifference(q.roleIds, d.user_roles[q.user]) :
         d.role_permissions[ro] \subseteq q.held
  /\ q.change = "setRolePermissions" => q.permissionIds \subseteq q.held

\* Faulty variant: a change that does not give isActive writes it all the same.
NewAccountAlways(d, q, u) ==
  IF u # q.user THEN d.account[u]
  ELSE IF q.change = "deactivate" THEN "inactive"
  ELSE IF q.change = "reactivate" THEN "active"
  ELSE IF q.change = "deleteUser" THEN "deleted" ELSE None

\* The statements of the change; deletions cascade to the link tables.
NewAccount(d, q, u) ==
  IF u # q.user THEN d.account[u]
  ELSE IF q.change = "deactivate" THEN "inactive"
  ELSE IF q.change = "reactivate" THEN "active"
  ELSE IF q.change = "deleteUser" THEN "deleted" ELSE d.account[u]
NewUserRoles(d, q, u) ==
  IF q.change = "deleteRole" THEN d.user_roles[u] \ {q.role}
  ELSE IF u = q.user /\ q.change = "deleteUser" THEN {}
  ELSE IF u = q.user /\ q.change = "assignRoles" THEN q.roleIds ELSE d.user_roles[u]
NewRole(d, q, ro) ==
  IF ro = q.role /\ q.change = "deleteRole" THEN "deleted" ELSE d.role[ro]
NewRolePermissions(d, q, ro) ==
  IF ro = q.role /\ q.change = "deleteRole" THEN {}
  ELSE IF ro = q.role /\ q.change = "setRolePermissions" THEN q.permissionIds
  ELSE d.role_permissions[ro]

Written(d, q) ==
  [account |-> [u \in Users |-> NewAccount(d, q, u)],
   role |-> [ro \in Roles |-> NewRole(d, q, ro)],
   user_roles |-> [u \in Users |-> NewUserRoles(d, q, u)],
   role_permissions |-> [ro \in Roles |-> NewRolePermissions(d, q, ro)]]

\* Whether the change ends with assertAdminRemains.
Asserts(d, q) ==
  \/ q.change \in Changes \ {"deactivate", "reactivate"}
  \/ q.change = "deactivate" /\ d.account[q.user] = "active"

-----------------------------------------------------------------------------
\* A seeded database.
Init ==
  /\ db = [account |-> [u \in Users |->
              IF u \in Staff \cup {Root} THEN "active" ELSE "none"],
           role |-> [ro \in Roles |-> IF ro \in SystemRoles THEN "present" ELSE "none"],
           user_roles |-> [u \in Users |->
              IF u = Root THEN {AdminRole} ELSE IF u \in Staff THEN {DefaultRole} ELSE {}],
           role_permissions |->
             [ro \in Roles |-> IF ro = AdminRole THEN Permissions ELSE {}]]
  /\ req = [r \in Requests |-> Idle]
  /\ served = 0

Arrives == served < MaxRequests /\ served' = served + 1

\* register: a new account with the role "user".
register(u) ==
  /\ db.account[u] = "none"
  /\ db' = [db EXCEPT !.account[u] = "active", !.user_roles[u] = {DefaultRole}]
  /\ Arrives
  /\ UNCHANGED req

\* createRole, by an actor who holds roles:write; the role has no permissions yet.
createRole(a, ro) ==
  /\ db.account[a] = "active" /\ "roles:write" \in PermissionsOf(db, a)
  /\ db.role[ro] = "none"
  /\ db' = [db EXCEPT !.role[ro] = "present"]
  /\ Arrives
  /\ UNCHANGED req

\* authenticate and requirePermission: the permissions are those of this moment.
authenticate(r, a, q) ==
  /\ req[r].pc = "idle"
  /\ db.account[a] = "active"
  /\ Required(q.change) \in PermissionsOf(db, a)
  /\ q.change \in NotOnSelf => q.user # a
  /\ req' = [req EXCEPT ![r] = [q EXCEPT !.pc = "authenticated",
                                         !.held = PermissionsOf(db, a)]]
  /\ Arrives
  /\ UNCHANGED db

\* The requests that routes accept.
UserRequest(change, u, R) ==
  [Idle EXCEPT !.change = change, !.user = u, !.roleIds = R]
RoleRequest(change, ro, P) ==
  [Idle EXCEPT !.change = change, !.role = ro, !.permissionIds = P]
Inputs ==
  {UserRequest(c, u, {}) : c \in UserChanges \ {"assignRoles"}, u \in Users}
  \cup {UserRequest("assignRoles", u, R) : u \in Users, R \in RoleLists}
  \cup {RoleRequest("deleteRole", ro, {}) : ro \in Roles}
  \cup {RoleRequest("setRolePermissions", ro, P) : ro \in Roles, P \in PermissionLists}

HoldsGuard(q) == req[q].pc \in {"locked", "written", "asserted"}
Goto(r, pc) == req' = [req EXCEPT ![r].pc = pc] /\ UNCHANGED <<db, served>>
Answer(r) == req' = [req EXCEPT ![r] = Idle] /\ UNCHANGED served

\* Faulty variant: the transactions run at once.
lockNothing(r) == req[r].pc = "authenticated" /\ Goto(r, "locked")

\* pg_advisory_xact_lock, released when the transaction ends.
lockAdminGuard(r) ==
  /\ req[r].pc = "authenticated"
  /\ \A q \in Requests : ~HoldsGuard(q)
  /\ Goto(r, "locked")

write(r) ==
  /\ req[r].pc = "locked" /\ Allowed(db, req[r])
  /\ Goto(r, "written")

refuse(r) ==
  /\ req[r].pc = "locked" /\ ~Allowed(db, req[r])
  /\ Answer(r) /\ UNCHANGED db

\* The query sees what is committed and what the transaction has written.
assertAdminRemains(r) ==
  /\ req[r].pc = "written"
  /\ Asserts(db, req[r]) => HasAdmin(Written(db, req[r]))
  /\ Goto(r, "asserted")

noAdminRemains(r) ==
  /\ req[r].pc = "written"
  /\ Asserts(db, req[r]) /\ ~HasAdmin(Written(db, req[r]))
  /\ Answer(r) /\ UNCHANGED db

commit(r) ==
  /\ req[r].pc = "asserted"
  /\ db' = Written(db, req[r])
  /\ Answer(r)

\* An error, or a crash of the server or of the connection.
rollback(r) ==
  /\ req[r].pc # "idle"
  /\ Answer(r) /\ UNCHANGED db

Step(r) ==
  \/ lockAdminGuard(r) \/ write(r) \/ refuse(r)
  \/ assertAdminRemains(r) \/ noAdminRemains(r) \/ commit(r)

Next ==
  \/ \E u \in Users : register(u)
  \/ \E a \in Users, ro \in Roles : createRole(a, ro)
  \/ \E r \in Requests : \/ \E a \in Users, q \in Inputs : authenticate(r, a, q)
                         \/ Step(r) \/ rollback(r)

Spec == Init /\ [][Next]_vars

-----------------------------------------------------------------------------
(* Properties.                                                             *)

TypeOK ==
  /\ db \in Tables
  /\ req \in [Requests -> Request]
  /\ served \in 0..MaxRequests

\* However changes of users and roles run at once, some active user holds both
\* roles:write and users:assign-role (admin-guard.ts:13).
AdminRemains == HasAdmin(db)

\* A change gives nobody a permission that its actor did not hold when it was
\* authenticated, whatever was committed since; a new account starts with
\* those of the role "user".
GrantsAreCovered ==
  [][\A u \in Users :
       LET gained == PermissionsOf(db', u) \ PermissionsOf(db, u) IN
       \/ gained = {}
       \/ db.account[u] = "none" /\ gained \subseteq db.role_permissions[DefaultRole]
       \/ \E r \in Requests : req[r].pc = "asserted" /\ req'[r].pc = "idle"
                              /\ gained \subseteq req[r].held]_vars

\* Nor does assigning roles take a permission from a user that the actor did
\* not hold (user.service.ts:117), although roles and their permissions may
\* have changed between the page that the actor saw and the lock.
RevokesAreCovered ==
  [][\A r \in Requests, u \in Users :
       /\ req[r].pc = "asserted" /\ req'[r].pc = "idle"
       /\ req[r].change = "assignRoles" /\ req[r].user = u
       => \/ db' = db
          \/ PermissionsOf(db, u) \ PermissionsOf(db', u) \subseteq req[r].held]_vars

\* README.md:37 calls roles:write root-equivalent, as it can define any role:
\* then every permission stays within reach of somebody who holds it.
EveryPermissionIsInReach ==
  \A p \in Permissions : \E u \in Users :
    db.account[u] = "active" /\ {"roles:write", p} \subseteq PermissionsOf(db, u)
=============================================================================
