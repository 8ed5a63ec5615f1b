-------------------------- MODULE AdminGuard_proofs --------------------------
(***************************************************************************)
(* That an administrator always remains and that nobody grants what they   *)
(* do not hold, for any users, roles, permissions and requests.            *)
(***************************************************************************)
EXTENDS AdminGuard, TLAPS

\* A change of a user names a user, one of a role a role.
Named(q) ==
  /\ q.change \in UserChanges => q.user \in Users
  /\ q.change \in RoleChanges => q.role \in Roles
ChangesAreNamed == \A r \in Requests : Named(req[r])

\* A request that has written has passed its checks, and they still hold: the
\* lock keeps every other change out, and the requests that do not take it
\* only add rows.
Checked ==
  \A r \in Requests : req[r].pc \in {"written", "asserted"} => Allowed(db, req[r])

\* One transaction at a time holds the advisory lock.
GuardIsExclusive ==
  \A q1, q2 \in Requests : HoldsGuard(q1) /\ HoldsGuard(q2) => q1 = q2

\* Once the assertion has passed, committing is safe at any later moment.
AssertedIsSafe ==
  \A r \in Requests : req[r].pc = "asserted" => HasAdmin(Written(db, req[r]))

IInv == TypeOK /\ ChangesAreNamed /\ Checked /\ GuardIsExclusive /\ AssertedIsSafe /\ AdminRemains

-----------------------------------------------------------------------------
USE NoneAssumption, RolesAssumption, RootAssumption, PermissionsAssumption,
    ListsAssumption, StartAssumption, MaxRequestsAssumption

\* The tables stay tables, whatever change is applied to them.
LEMMA WrittenType ==
  ASSUME NEW d \in Tables, NEW q \in Request
  PROVE  Written(d, q) \in Tables
<1>1. ASSUME NEW u \in Users
      PROVE  NewAccount(d, q, u) \in {"none", "active", "inactive", "deleted"}
  BY DEF NewAccount, Tables
<1>2. ASSUME NEW u \in Users PROVE NewUserRoles(d, q, u) \in SUBSET Roles
  BY DEF NewUserRoles, Tables, Request
<1>3. ASSUME NEW ro \in Roles PROVE NewRole(d, q, ro) \in {"none", "present", "deleted"}
  BY DEF NewRole, Tables
<1>4. ASSUME NEW ro \in Roles
      PROVE  NewRolePermissions(d, q, ro) \in SUBSET Permissions
  BY DEF NewRolePermissions, Tables, Request
<1>5. QED
  BY <1>1, <1>2, <1>3, <1>4 DEF Written, Tables

\* Requests that routes accept are requests.
LEMMA IdleType == Idle \in Request
  BY DEF Idle, Request, Pc

\* Every request that a route accepts is in its type.
LEMMA InputsType == Inputs \subseteq Request
<1>1. ASSUME NEW c \in UserChanges, NEW u \in Users, NEW R \in SUBSET Roles
      PROVE  UserRequest(c, u, R) \in Request
  BY IdleType DEF UserRequest, Request, Changes
<1>2. ASSUME NEW c \in RoleChanges, NEW ro \in Roles, NEW P \in SUBSET Permissions
      PROVE  RoleRequest(c, ro, P) \in Request
  BY IdleType DEF RoleRequest, Request, Changes
<1>3. QED
  BY <1>1, <1>2 DEF Inputs, UserChanges, RoleChanges

\* A seeded database is well typed.
LEMMA InitTypeOK == Init => TypeOK
<1> SUFFICES ASSUME Init PROVE TypeOK
  OBVIOUS
<1>1. db \in Tables
  BY DEF Init, Tables
<1>2. QED
  BY <1>1, IdleType DEF Init, TypeOK

\* Every step keeps the tables and the requests well typed.
LEMMA NextTypeOK == TypeOK /\ [Next]_vars => TypeOK'
<1> SUFFICES ASSUME TypeOK, [Next]_vars PROVE TypeOK'
  OBVIOUS
<1>1. ASSUME NEW u \in Users, register(u) PROVE TypeOK'
  <2>1. db' \in Tables
    <3>1. DefaultRole \in Roles
      OBVIOUS
    <3>2. [db.account EXCEPT ![u] = "active"]
            \in [Users -> {"none", "active", "inactive", "deleted"}]
      BY DEF TypeOK, Tables
    <3>3. [db.user_roles EXCEPT ![u] = {DefaultRole}] \in [Users -> SUBSET Roles]
      BY <3>1 DEF TypeOK, Tables
    <3>4. QED
      BY <1>1, <3>2, <3>3 DEF TypeOK, register, Tables
  <2>2. QED
    BY <1>1, <2>1 DEF TypeOK, register, Arrives
<1>2. ASSUME NEW a \in Users, NEW ro \in Roles, createRole(a, ro) PROVE TypeOK'
  BY <1>2 DEF TypeOK, createRole, Tables, Arrives
<1>3. ASSUME NEW r \in Requests, NEW a \in Users, NEW q \in Inputs, authenticate(r, a, q)
      PROVE  TypeOK'
  <2>1. PermissionsOf(db, a) \in SUBSET Permissions
    BY DEF TypeOK, Tables, PermissionsOf
  <2>2. [q EXCEPT !.pc = "authenticated", !.held = PermissionsOf(db, a)] \in Request
    <3>1. q \in Request
      BY InputsType
    <3>2. QED
      BY <2>1, <3>1 DEF Request, Pc
  <2>3. QED
    BY <1>3, <2>2 DEF TypeOK, authenticate, Arrives
<1>4. ASSUME NEW r \in Requests, Step(r) \/ rollback(r) PROVE TypeOK'
  <2>1. Idle \in Request
    BY DEF Idle, Request, Pc
  <2>2. Written(db, req[r]) \in Tables
    BY WrittenType DEF TypeOK
  <2>3. ASSUME NEW pc \in Pc, Goto(r, pc) PROVE TypeOK'
    BY <2>3 DEF Goto, TypeOK, Request
  <2>4. ASSUME Answer(r), db' = db \/ db' = Written(db, req[r]) PROVE TypeOK'
    BY <2>1, <2>2, <2>4 DEF Answer, TypeOK
  <2>5. QED
    BY <1>4, <2>3, <2>4 DEF Step, lockAdminGuard, write, refuse, assertAdminRemains,
       noAdminRemains, commit, rollback, Pc
<1>5. CASE UNCHANGED vars
  BY <1>5 DEF TypeOK, vars
<1>6. QED
  BY <1>1, <1>2, <1>3, <1>4, <1>5 DEF Next

\* The tables and the requests keep their types.
THEOREM Typing == Spec => []TypeOK
  BY InitTypeOK, NextTypeOK, PTL DEF Spec

-----------------------------------------------------------------------------
(* What the requests that do not take the lock leave alone.                *)

\* Registration and the creation of a role leave every other user's roles and
\* every role's permissions as they are.
Adds(u) ==
  /\ u \in Users /\ db.account[u] = "none"
  /\ \A v \in Users \ {u} : /\ db'.account[v] = db.account[v]
                           /\ db'.user_roles[v] = db.user_roles[v]
  /\ db'.role_permissions = db.role_permissions
  /\ \A ro \in Roles : db.role[ro] = "present" => db'.role[ro] = "present"

\* A registration only fills an account that did not exist.
LEMMA RegisterAdds ==
  ASSUME TypeOK, NEW u \in Users, register(u) PROVE Adds(u)
  BY DEF register, Adds, TypeOK, Tables

\* The checks that a request has passed still hold afterwards.
LEMMA AllowedStays ==
  ASSUME NEW u, Adds(u), NEW q \in Request, Named(q), Allowed(db, q)
  PROVE  Allowed(db', q)
<1>1. Found(db', q)
  <2>1. q.change \in UserChanges => Exists(db', q.user)
    BY DEF Adds, Allowed, Found, Exists, Named
  <2>2. q.change \in RoleChanges => db'.role[q.role] = "present"
    BY DEF Adds, Allowed, Found, Named
  <2>3. \A ro \in q.roleIds : db'.role[ro] = "present"
    BY DEF Adds, Allowed, Found, Request
  <2>4. QED
    BY <2>1, <2>2, <2>3 DEF Found
<1>2. q.change = "assignRoles" => db'.user_roles[q.user] = db.user_roles[q.user]
  BY DEF Adds, Allowed, Found, Exists, UserChanges, Named
<1>3. QED
  BY <1>1, <1>2 DEF Adds, Allowed

\* So does what its assertion has found.
LEMMA SafeStays ==
  ASSUME NEW u, Adds(u), NEW q \in Request, Allowed(db, q), HasAdmin(Written(db, q))
  PROVE  HasAdmin(Written(db', q))
<1>1. PICK v \in Users : IsAdmin(Written(db, q), v)
  BY DEF HasAdmin
<1>2. Written(db, q).account[v] = NewAccount(db, q, v)
  BY DEF Written
<1>3. NewAccount(db, q, v) = "active"
  BY <1>1, <1>2 DEF IsAdmin
<1>4. v # u
  <2> SUFFICES ASSUME v = u PROVE FALSE
    OBVIOUS
  <2>1. q.user = u /\ q.change = "reactivate"
    BY <1>3 DEF NewAccount, Adds
  <2>2. QED
    BY <2>1 DEF Adds, Allowed, Found, Exists, UserChanges
<1>5. NewAccount(db', q, v) = NewAccount(db, q, v)
  BY <1>4 DEF NewAccount, Adds
<1>6. NewUserRoles(db', q, v) = NewUserRoles(db, q, v)
  BY <1>4 DEF NewUserRoles, Adds
<1>7. \A ro \in Roles : NewRolePermissions(db', q, ro) = NewRolePermissions(db, q, ro)
  BY DEF NewRolePermissions, Adds
<1>8. Written(db', q).role_permissions = Written(db, q).role_permissions
  BY <1>7 DEF Written
<1>9. Written(db', q).user_roles[v] = Written(db, q).user_roles[v]
  BY <1>6 DEF Written
<1>10. Written(db', q).account[v] = Written(db, q).account[v]
  BY <1>5 DEF Written
<1>11. IsAdmin(Written(db', q), v)
  BY <1>1, <1>8, <1>9, <1>10 DEF IsAdmin, PermissionsOf
<1>12. QED
  BY <1>11 DEF HasAdmin

\* Registration does not take away the administrator.
LEMMA AdminStays ==
  ASSUME NEW u, Adds(u), AdminRemains
  PROVE  AdminRemains'
<1>1. PICK v \in Users : IsAdmin(db, v)
  BY DEF AdminRemains, HasAdmin
<1>2. v # u
  BY <1>1 DEF IsAdmin, Adds
<1>3. IsAdmin(db', v)
  BY <1>1, <1>2 DEF IsAdmin, PermissionsOf, Adds
<1>4. QED
  BY <1>3 DEF AdminRemains, HasAdmin

\* A change that is not followed by the assertion takes nobody's rights away.
LEMMA UnassertedIsSafe ==
  ASSUME db \in Tables, NEW q \in Request, AdminRemains, ~Asserts(db, q)
  PROVE  HasAdmin(Written(db, q))
<1>1. PICK v \in Users : IsAdmin(db, v)
  BY DEF AdminRemains, HasAdmin
<1>2. q.change \notin Changes \ {"deactivate", "reactivate"}
  BY DEF Asserts
<1>3. q.change = "deactivate" => db.account[q.user] # "active"
  BY DEF Asserts
<1>4. NewAccount(db, q, v) = "active"
  BY <1>1, <1>2, <1>3 DEF NewAccount, IsAdmin, Changes, UserChanges, RoleChanges
<1>5. NewUserRoles(db, q, v) = db.user_roles[v]
  BY <1>2 DEF NewUserRoles, Changes, UserChanges, RoleChanges
<1>6. \A ro \in Roles : NewRolePermissions(db, q, ro) = db.role_permissions[ro]
  BY <1>2 DEF NewRolePermissions, Changes, UserChanges, RoleChanges
<1>7. db.user_roles[v] \subseteq Roles
  BY DEF Tables
<1>8. PermissionsOf(Written(db, q), v) = PermissionsOf(db, v)
  <2>1. Written(db, q).user_roles[v] = db.user_roles[v]
    BY <1>5 DEF Written
  <2>2. \A ro \in db.user_roles[v] :
          Written(db, q).role_permissions[ro] = db.role_permissions[ro]
    BY <1>6, <1>7 DEF Written
  <2>3. QED
    BY <2>1, <2>2 DEF PermissionsOf
<1>9. IsAdmin(Written(db, q), v)
  BY <1>1, <1>4, <1>8 DEF IsAdmin, Written
<1>10. QED
  BY <1>9 DEF HasAdmin

-----------------------------------------------------------------------------
(* The invariant.                                                          *)

\* A request names the record that its change is about.
LEMMA InputsNamed == \A q \in Inputs : Named(q)
<1>1. ASSUME NEW c \in UserChanges, NEW u \in Users, NEW R \in SUBSET Roles
      PROVE  Named(UserRequest(c, u, R))
  BY DEF UserRequest, Named, Idle, UserChanges, RoleChanges
<1>2. ASSUME NEW c \in RoleChanges, NEW ro \in Roles, NEW P \in SUBSET Permissions
      PROVE  Named(RoleRequest(c, ro, P))
  BY DEF RoleRequest, Named, Idle, UserChanges, RoleChanges
<1>3. QED
  BY <1>1, <1>2 DEF Inputs, UserChanges, RoleChanges

\* Each kind of step, and what it leaves of the requests.
LEMMA AddPreserves ==
  ASSUME IInv, NEW u, Adds(u), UNCHANGED req, TypeOK'
  PROVE  IInv'
<1>1. Checked'
  <2> SUFFICES ASSUME NEW r \in Requests, req[r].pc \in {"written", "asserted"}
               PROVE  Allowed(db', req[r])
    BY DEF Checked
  <2> QED
    BY AllowedStays DEF IInv, Checked, ChangesAreNamed, TypeOK
<1>2. AssertedIsSafe'
  <2> SUFFICES ASSUME NEW r \in Requests, req[r].pc = "asserted"
               PROVE  HasAdmin(Written(db', req[r]))
    BY DEF AssertedIsSafe
  <2> QED
    BY SafeStays DEF IInv, Checked, AssertedIsSafe, TypeOK
<1>3. AdminRemains'
  BY AdminStays DEF IInv
<1>4. QED
  BY <1>1, <1>2, <1>3 DEF IInv, ChangesAreNamed, GuardIsExclusive, HoldsGuard

\* A request that ends, with or without effect, disturbs no other.
LEMMA AnswerPreserves ==
  ASSUME IInv, NEW r \in Requests, Answer(r), TypeOK',
         db' = db \/ (req[r].pc = "asserted" /\ db' = Written(db, req[r]))
  PROVE  IInv'
<1>1. \A q \in Requests : req'[q] = IF q = r THEN Idle ELSE req[q]
  BY DEF Answer, IInv, TypeOK
<1>2. Named(Idle)
  BY DEF Named, Idle, Changes
<1>3. ChangesAreNamed' /\ GuardIsExclusive'
  BY <1>1, <1>2 DEF IInv, ChangesAreNamed, GuardIsExclusive, HoldsGuard, Idle
<1>4. CASE db' = db
  BY <1>1, <1>3, <1>4 DEF IInv, Checked, AssertedIsSafe, AdminRemains, Idle
<1>5. CASE req[r].pc = "asserted" /\ db' = Written(db, req[r])
  <2>1. \A q \in Requests : req'[q].pc \notin {"written", "asserted"}
    BY <1>1, <1>5 DEF IInv, GuardIsExclusive, HoldsGuard, Idle
  <2>2. AdminRemains'
    BY <1>5 DEF IInv, AssertedIsSafe, AdminRemains
  <2>3. QED
    BY <1>3, <2>1, <2>2 DEF IInv, Checked, AssertedIsSafe
<1>6. QED
  BY <1>4, <1>5

\* A request that moves on within its transaction disturbs no other.
LEMMA GotoPreserves ==
  ASSUME IInv, NEW r \in Requests, NEW pc \in Pc, Goto(r, pc), TypeOK',
         HoldsGuard(r) \/ \A q \in Requests : ~HoldsGuard(q),
         pc \in {"written", "asserted"} => Allowed(db, req[r]),
         pc = "asserted" => HasAdmin(Written(db, req[r]))
  PROVE  IInv'
<1>1. db' = db
  BY DEF Goto
<1>2. \A q \in Requests : req'[q] = IF q = r THEN [req[r] EXCEPT !.pc = pc] ELSE req[q]
  BY DEF Goto, IInv, TypeOK
<1>3. req[r] \in Request
  BY DEF IInv, TypeOK
<1>4. Named(req'[r]) /\ req'[r].pc = pc
  BY <1>2, <1>3 DEF IInv, ChangesAreNamed, Named, Request
<1>5. Allowed(db, req'[r]) <=> Allowed(db, req[r])
  BY <1>2, <1>3 DEF Allowed, Found, Request
<1>6. Written(db, req'[r]) = Written(db, req[r])
  <2>1. /\ req'[r].change = req[r].change /\ req'[r].user = req[r].user
        /\ req'[r].role = req[r].role /\ req'[r].roleIds = req[r].roleIds
        /\ req'[r].permissionIds = req[r].permissionIds
    BY <1>2, <1>3 DEF Request
  <2>2. \A u \in Users : /\ NewAccount(db, req'[r], u) = NewAccount(db, req[r], u)
                         /\ NewUserRoles(db, req'[r], u) = NewUserRoles(db, req[r], u)
    BY <2>1 DEF NewAccount, NewUserRoles
  <2>3. \A ro \in Roles :
          /\ NewRole(db, req'[r], ro) = NewRole(db, req[r], ro)
          /\ NewRolePermissions(db, req'[r], ro) = NewRolePermissions(db, req[r], ro)
    BY <2>1 DEF NewRole, NewRolePermissions
  <2>4. QED
    BY <2>2, <2>3 DEF Written
<1>7. ChangesAreNamed'
  BY <1>2, <1>4 DEF IInv, ChangesAreNamed
<1>8. Checked'
  BY <1>1, <1>2, <1>4, <1>5 DEF IInv, Checked
<1>9. AssertedIsSafe'
  BY <1>1, <1>2, <1>4, <1>6 DEF IInv, AssertedIsSafe
<1>10. GuardIsExclusive'
  BY <1>2, <1>4 DEF IInv, GuardIsExclusive, HoldsGuard
<1>11. QED
  BY <1>1, <1>7, <1>8, <1>9, <1>10 DEF IInv, AdminRemains

\* The inductive invariant holds of a seeded database.
LEMMA InitIInv == Init => IInv
<1> SUFFICES ASSUME Init PROVE IInv
  OBVIOUS
<1>1. TypeOK
  BY InitTypeOK
<1>2. Named(Idle)
  BY DEF Named, Idle, Changes
<1>3. ChangesAreNamed /\ Checked /\ GuardIsExclusive /\ AssertedIsSafe
  BY <1>2 DEF Init, ChangesAreNamed, Checked, GuardIsExclusive, HoldsGuard,
              AssertedIsSafe, Idle
<1>4. AdminRemains
  <2>1. db.account[Root] = "active" /\ PermissionsOf(db, Root) = Permissions
    BY DEF Init, PermissionsOf
  <2>2. QED
    BY <2>1 DEF AdminRemains, HasAdmin, IsAdmin
<1>5. QED
  BY <1>1, <1>3, <1>4 DEF IInv

\* Every step keeps the inductive invariant.
LEMMA NextIInv == IInv /\ [Next]_vars => IInv'
<1> SUFFICES ASSUME IInv, [Next]_vars PROVE IInv'
  OBVIOUS
<1>0. TypeOK'
  BY NextTypeOK DEF IInv
<1>1. ASSUME NEW u \in Users, register(u) PROVE IInv'
  BY <1>0, <1>1, RegisterAdds, AddPreserves DEF IInv, register
<1>2. ASSUME NEW a \in Users, NEW ro \in Roles, createRole(a, ro) PROVE IInv'
  <2>1. \A r \in Requests, q \in Request :
          Named(q) /\ Allowed(db, q) => Allowed(db', q)
    <3> SUFFICES ASSUME NEW q \in Request, Named(q), Allowed(db, q)
                 PROVE  Allowed(db', q)
      OBVIOUS
    <3>1. \A ro2 \in Roles : db.role[ro2] = "present" => db'.role[ro2] = "present"
      BY <1>2 DEF createRole, IInv, TypeOK, Tables
    <3>2. /\ db'.account = db.account /\ db'.user_roles = db.user_roles
          /\ db'.role_permissions = db.role_permissions
      BY <1>2 DEF createRole, IInv, TypeOK, Tables
    <3>3. QED
      BY <3>1, <3>2 DEF Allowed, Found, Exists, Named, Request
  <2>2. \A q \in Request : HasAdmin(Written(db, q)) => HasAdmin(Written(db', q))
    <3>1. /\ db'.account = db.account /\ db'.user_roles = db.user_roles
          /\ db'.role_permissions = db.role_permissions
      BY <1>2 DEF createRole, IInv, TypeOK, Tables
    <3>2. ASSUME NEW q \in Request
          PROVE  /\ Written(db', q).account = Written(db, q).account
                 /\ Written(db', q).user_roles = Written(db, q).user_roles
                 /\ Written(db', q).role_permissions = Written(db, q).role_permissions
      BY <3>1 DEF Written, NewAccount, NewUserRoles, NewRolePermissions
    <3>3. QED
      BY <3>2 DEF HasAdmin, IsAdmin, PermissionsOf
  <2>3. AdminRemains'
    BY <1>2 DEF createRole, IInv, TypeOK, Tables, AdminRemains, HasAdmin, IsAdmin,
       PermissionsOf
  <2>4. QED
    BY <1>0, <1>2, <2>1, <2>2, <2>3 DEF createRole, IInv, TypeOK, Checked, AssertedIsSafe,
       ChangesAreNamed, GuardIsExclusive, HoldsGuard
<1>3. ASSUME NEW r \in Requests, NEW a \in Users, NEW q \in Inputs, authenticate(r, a, q)
      PROVE  IInv'
  <2>1. q \in Request /\ Named(q)
    BY InputsType, InputsNamed
  <2>2. \A r2 \in Requests : req'[r2] = IF r2 = r THEN req'[r] ELSE req[r2]
    BY <1>3 DEF authenticate, IInv, TypeOK
  <2>3. req'[r].pc = "authenticated" /\ Named(req'[r])
    BY <1>3, <2>1 DEF authenticate, IInv, TypeOK, Named, Request
  <2>4. db' = db
    BY <1>3 DEF authenticate
  <2>5. QED
    BY <1>0, <2>2, <2>3, <2>4 DEF IInv, ChangesAreNamed, Checked, GuardIsExclusive,
       HoldsGuard, AssertedIsSafe, AdminRemains
<1>4. ASSUME NEW r \in Requests, Step(r) \/ rollback(r) PROVE IInv'
  <2>1. CASE lockAdminGuard(r)
    BY <1>0, <2>1, GotoPreserves DEF lockAdminGuard, Pc
  <2>2. CASE write(r)
    BY <1>0, <2>2, GotoPreserves DEF write, Pc, HoldsGuard
  <2>3. CASE assertAdminRemains(r)
    <3>1. Allowed(db, req[r])
      BY <2>3 DEF assertAdminRemains, IInv, Checked
    <3>2. HasAdmin(Written(db, req[r]))
      BY <2>3, UnassertedIsSafe DEF assertAdminRemains, IInv, TypeOK
    <3>3. QED
      BY <1>0, <2>3, <3>1, <3>2, GotoPreserves DEF assertAdminRemains, Pc, HoldsGuard
  <2>4. CASE refuse(r) \/ noAdminRemains(r) \/ commit(r) \/ rollback(r)
    BY <1>0, <2>4, AnswerPreserves DEF refuse, noAdminRemains, commit, rollback
  <2>5. QED
    BY <1>4, <2>1, <2>2, <2>3, <2>4 DEF Step
<1>5. CASE UNCHANGED vars
  BY <1>0, <1>5 DEF vars, IInv, ChangesAreNamed, Checked, GuardIsExclusive,
     HoldsGuard, AssertedIsSafe, AdminRemains
<1>6. QED
  BY <1>1, <1>2, <1>3, <1>4, <1>5 DEF Next

\* However registrations, role creations and administrative changes run at
\* once, an active user always holds both administrative permissions.
THEOREM AdminAlwaysRemains == Spec => []AdminRemains
<1>1. IInv => AdminRemains
  BY DEF IInv
<1>2. QED
  BY InitIInv, NextIInv, <1>1, PTL DEF Spec

-----------------------------------------------------------------------------
(* What a change grants and takes.                                         *)

\* Whatever a checked change adds to anybody's permissions, its actor holds.
LEMMA WrittenGrants ==
  ASSUME db \in Tables, NEW q \in Request, Allowed(db, q), NEW u \in Users
  PROVE  PermissionsOf(Written(db, q), u) \ PermissionsOf(db, u) \subseteq q.held
<1> SUFFICES ASSUME NEW ro \in NewUserRoles(db, q, u), ro \in Roles,
                    NEW p \in NewRolePermissions(db, q, ro),
                    p \notin PermissionsOf(db, u)
             PROVE  p \in q.held
  <2>1. \A ro \in NewUserRoles(db, q, u) : ro \in Roles
    BY DEF NewUserRoles, Tables, Request
  <2>2. Written(db, q).user_roles[u] = NewUserRoles(db, q, u)
    BY DEF Written
  <2>3. \A ro \in NewUserRoles(db, q, u) :
          Written(db, q).role_permissions[ro] = NewRolePermissions(db, q, ro)
    BY <2>1 DEF Written
  <2>4. ASSUME NEW p \in PermissionsOf(Written(db, q), u)
        PROVE  \E ro \in NewUserRoles(db, q, u) : p \in NewRolePermissions(db, q, ro)
    BY <2>2, <2>3 DEF PermissionsOf
  <2>5. QED
    BY <2>1, <2>4
<1>1. \A ro2 \in db.user_roles[u] : p \notin db.role_permissions[ro2]
  BY DEF PermissionsOf
<1>2. CASE q.change = "setRolePermissions" /\ ro = q.role
  BY <1>2 DEF NewRolePermissions, Allowed
<1>3. CASE ~(q.change = "setRolePermissions" /\ ro = q.role)
  <2>1. p \in db.role_permissions[ro]
    BY <1>3 DEF NewRolePermissions
  <2>2. ro \notin db.user_roles[u]
    BY <1>1, <2>1
  <2>3. u = q.user /\ q.change = "assignRoles" /\ ro \in q.roleIds
    BY <2>2 DEF NewUserRoles
  <2>4. QED
    BY <2>1, <2>2, <2>3 DEF Allowed, SymmetricDifference
<1>4. QED
  BY <1>2, <1>3

\* Whatever an assignment takes from a user, its actor holds.
LEMMA AssignmentTakes ==
  ASSUME db \in Tables, NEW q \in Request, Allowed(db, q), NEW u \in Users,
         q.change = "assignRoles", q.user = u
  PROVE  PermissionsOf(db, u) \ PermissionsOf(Written(db, q), u) \subseteq q.held
<1> SUFFICES ASSUME NEW ro \in db.user_roles[u], NEW p \in db.role_permissions[ro],
                    p \notin PermissionsOf(Written(db, q), u)
             PROVE  p \in q.held
  BY DEF PermissionsOf
<1>1. ro \in Roles
  BY DEF Tables
<1>2. Written(db, q).user_roles[u] = q.roleIds
  BY DEF Written, NewUserRoles
<1>3. Written(db, q).role_permissions[ro] = db.role_permissions[ro]
  BY <1>1 DEF Written, NewRolePermissions
<1>4. ro \notin q.roleIds
  BY <1>2, <1>3 DEF PermissionsOf
<1>5. QED
  BY <1>4 DEF Allowed, SymmetricDifference

\* The tables change only when a request commits or an account or role is added.
LEMMA StepsOfTables ==
  ASSUME IInv, [Next]_vars
  PROVE  \/ db' = db
         \/ \E u \in Users : register(u)
         \/ \E a \in Users, ro \in Roles : createRole(a, ro)
         \/ \E r \in Requests : commit(r)
<1>1. ASSUME NEW r \in Requests, Step(r) \/ rollback(r) PROVE db' = db \/ commit(r)
  BY <1>1 DEF Step, rollback, lockAdminGuard, write, refuse, assertAdminRemains,
     noAdminRemains, Goto
<1>2. ASSUME NEW r \in Requests, NEW a \in Users, NEW q \in Inputs, authenticate(r, a, q)
      PROVE  db' = db
  BY <1>2 DEF authenticate
<1>3. QED
  BY <1>1, <1>2 DEF Next, vars

\* Nobody is given a permission that the actor did not hold when it was
\* authenticated, at any interleaving of the changes.
THEOREM GrantsAlwaysCovered == Spec => GrantsAreCovered
<1>1. ASSUME IInv, [Next]_vars, NEW u \in Users
      PROVE  LET gained == PermissionsOf(db', u) \ PermissionsOf(db, u) IN
             \/ gained = {}
             \/ db.account[u] = "none" /\ gained \subseteq db.role_permissions[DefaultRole]
             \/ \E r \in Requests : req[r].pc = "asserted" /\ req'[r].pc = "idle"
                                    /\ gained \subseteq req[r].held
  <2>1. CASE db' = db
    BY <2>1
  <2>2. ASSUME NEW v \in Users, register(v)
        PROVE  \/ PermissionsOf(db', u) = PermissionsOf(db, u)
               \/ /\ db.account[u] = "none"
                  /\ PermissionsOf(db', u) = db.role_permissions[DefaultRole]
    <3>1. db'.role_permissions = db.role_permissions
      BY <1>1, <2>2 DEF register, IInv, TypeOK, Tables
    <3>2. CASE u = v
      <4>1. db.account[u] = "none" /\ db'.user_roles[u] = {DefaultRole}
        BY <1>1, <2>2, <3>2 DEF register, IInv, TypeOK, Tables
      <4>2. QED
        BY <3>1, <4>1 DEF PermissionsOf
    <3>3. CASE u # v
      <4>1. db'.user_roles[u] = db.user_roles[u]
        BY <1>1, <2>2, <3>3 DEF register, IInv, TypeOK, Tables
      <4>2. QED
        BY <3>1, <4>1 DEF PermissionsOf
    <3>4. QED
      BY <3>2, <3>3
  <2>3. ASSUME NEW a \in Users, NEW ro \in Roles, createRole(a, ro)
        PROVE  PermissionsOf(db', u) = PermissionsOf(db, u)
    BY <1>1, <2>3 DEF createRole, IInv, TypeOK, Tables, PermissionsOf
  <2>4. ASSUME NEW r \in Requests, commit(r)
        PROVE  /\ req[r].pc = "asserted" /\ req'[r].pc = "idle"
               /\ PermissionsOf(db', u) \ PermissionsOf(db, u) \subseteq req[r].held
    <3>1. req[r].pc = "asserted" /\ req'[r].pc = "idle" /\ db' = Written(db, req[r])
      BY <1>1, <2>4 DEF commit, Answer, Idle, IInv, TypeOK
    <3>2. Allowed(db, req[r])
      BY <1>1, <3>1 DEF IInv, Checked
    <3>3. QED
      BY <1>1, <3>1, <3>2, WrittenGrants DEF IInv, TypeOK
  <2>5. QED
    BY <1>1, <2>1, <2>2, <2>3, <2>4, StepsOfTables
<1>2. IInv /\ [Next]_vars =>
        [\A u \in Users :
           LET gained == PermissionsOf(db', u) \ PermissionsOf(db, u) IN
           \/ gained = {}
           \/ db.account[u] = "none" /\ gained \subseteq db.role_permissions[DefaultRole]
           \/ \E r \in Requests : req[r].pc = "asserted" /\ req'[r].pc = "idle"
                                  /\ gained \subseteq req[r].held]_vars
  BY <1>1
<1>3. QED
  BY InitIInv, NextIInv, <1>2, PTL DEF Spec, GrantsAreCovered

\* Nor does an assignment of roles take one that its actor did not hold.
THEOREM RevokesAlwaysCovered == Spec => RevokesAreCovered
<1>1. ASSUME IInv, [Next]_vars, NEW r \in Requests, NEW u \in Users,
             req[r].pc = "asserted", req'[r].pc = "idle",
             req[r].change = "assignRoles", req[r].user = u, db' # db
      PROVE  PermissionsOf(db, u) \ PermissionsOf(db', u) \subseteq req[r].held
  <2>1. db' = Written(db, req[r])
    <3>1. ASSUME NEW r2 \in Requests, r2 # r, Answer(r2) PROVE FALSE
      BY <1>1, <3>1 DEF Answer, IInv, TypeOK
    <3>2. \A v \in Users : ~register(v)
      BY <1>1 DEF register
    <3>3. \A a \in Users, ro \in Roles : ~createRole(a, ro)
      BY <1>1 DEF createRole
    <3>4. QED
      BY <1>1, <3>1, <3>2, <3>3, StepsOfTables DEF commit
  <2>2. Allowed(db, req[r])
    BY <1>1 DEF IInv, Checked
  <2>3. QED
    BY <1>1, <2>1, <2>2, AssignmentTakes DEF IInv, TypeOK
<1>2. IInv /\ [Next]_vars =>
        [\A r \in Requests, u \in Users :
           /\ req[r].pc = "asserted" /\ req'[r].pc = "idle"
           /\ req[r].change = "assignRoles" /\ req[r].user = u
           => \/ db' = db
              \/ PermissionsOf(db, u) \ PermissionsOf(db', u) \subseteq req[r].held]_vars
  BY <1>1
<1>3. QED
  BY InitIInv, NextIInv, <1>2, PTL DEF Spec, RevokesAreCovered
=============================================================================
