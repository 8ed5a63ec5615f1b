------------------------------ MODULE Sessions ------------------------------
(***************************************************************************)
(* Refresh-token sessions of the API server (token.service.ts, and the     *)
(* parts of auth.service.ts and user.service.ts that open or end them),    *)
(* one action per SQL statement that other connections can interleave      *)
(* with.  PostgreSQL runs at READ COMMITTED: a statement sees the state    *)
(* committed when it starts, a row lock is held until the transaction      *)
(* ends, and a multi-row UPDATE changes the rows of its starting snapshot, *)
(* after waiting for those that another transaction has locked.            *)
(*                                                                         *)
(* A request's own uncommitted writes are kept as its position (pc) until  *)
(* the action that commits, which applies them.  Token expiry is left to   *)
(* chance here: a rotation may find any token expired.                     *)
(***************************************************************************)
EXTENDS Naturals, FiniteSets

CONSTANTS
  Users,        \* rows that users may have
  Families,     \* values of refresh_tokens.family_id, numbered as they are made
  Tokens,       \* rows of refresh_tokens, numbered as they are inserted
  Requests,     \* connections that serve requests
  None,         \* no user, family or token
  MaxRequests   \* bound: how many requests arrive in all

ASSUME IdAssumption == Families \subseteq Nat /\ Tokens \subseteq Nat
ASSUME NoneAssumption == None \notin Users \cup Families \cup Tokens
ASSUME MaxRequestsAssumption == MaxRequests \in Nat

VARIABLES
  account,      \* users: "active" | "inactive" | "deleted"
  password,     \* users.password_hash, as the number of times it has changed
  rows,         \* ids present in refresh_tokens
  family,       \* refresh_tokens.family_id (None: never inserted)
  owner,        \* refresh_tokens.user_id, the same for a whole family
  used,         \* rows with used_at set
  revoked,      \* rows with revoked_at set
  replacedBy,   \* refresh_tokens.replaced_by_id
  req,          \* what each request has done and read so far
  served,       \* requests that have arrived, at most MaxRequests
  proved,       \* history: the password each session was last proved with
  ended         \* history: why each session was revoked

db == <<account, password, rows, family, owner, used, revoked, replacedBy>>
history == <<proved, ended>>
vars == <<account, password, rows, family, owner, used, revoked, replacedBy,
          req, served, proved, ended>>

Operations == {"deactivate", "reactivate", "assignRoles", "deleteUser"}
Reasons == {"revokeAll", "inactive", "reuse", "logout"}

\* Where a request is.  The names say what it has done last.
RotatePc == {"ownerRead", "shared", "missed", "reused", "reuseSnap",
             "claimed", "active", "inactive", "inactiveSnap"}
LoginPc == {"verified", "touched"}
SelfPc == {"selfVerified", "selfLocked", "selfSnap"}
AdminPc == {"begun", "guarded", "adminLocked", "adminSnap"}
Pc == {"idle", "logoutSnap"} \cup RotatePc \cup LoginPc \cup SelfPc \cup AdminPc

Request == [pc: Pc,
            op: Operations \cup {None},          \* the admin operation
            tok: Tokens \cup {None},             \* the refresh token presented
            usr: Users \cup {None},              \* the user it is about
            sid: Families \cup {None},           \* a family spared or revoked
            pw: Nat,                             \* password version verified
            targets: SUBSET Tokens,              \* snapshot of a multi-row UPDATE
            doomed: SUBSET Families]             \* history: families to be revoked

Idle == [pc |-> "idle", op |-> None, tok |-> None, usr |-> None, sid |-> None,
         pw |-> 0, targets |-> {}, doomed |-> {}]

-----------------------------------------------------------------------------
(* Locks.  Which request holds what follows from where it is.              *)

HoldsShare(q, u) ==        \* SELECT ... FROM users FOR SHARE
  req[q].usr = u /\ req[q].pc \in RotatePc \ {"ownerRead"}
HoldsNoKeyUpdate(q, u) ==  \* UPDATE users, no key column changed
  req[q].usr = u /\ req[q].pc \in {"selfLocked", "selfSnap"}
HoldsUpdate(q, u) ==       \* SELECT ... FROM users FOR UPDATE
  req[q].usr = u /\ req[q].pc \in {"adminLocked", "adminSnap"}
HoldsToken(q, t) ==        \* the claimed row, updated and not committed
  req[q].tok = t /\ req[q].pc \in {"claimed", "active", "inactive", "inactiveSnap"}
HoldsAdminGuard(q) == req[q].pc \in AdminPc \ {"begun"}

\* What FOR SHARE and a write of the users row wait for.
ShareNeverWaits(u) == TRUE    \* faulty variant: a plain SELECT

ShareIsFree(u) ==
  \A q \in Requests : ~HoldsNoKeyUpdate(q, u) /\ ~HoldsUpdate(q, u)
WriteIsFree(u) ==
  \A q \in Requests : /\ ~HoldsShare(q, u)
                      /\ ~HoldsNoKeyUpdate(q, u)
                      /\ ~HoldsUpdate(q, u)

\* The foreign key of an inserted token: its user exists and is not FOR UPDATE.
NoReference(u) == TRUE        \* faulty variant: user_id without REFERENCES

ReferenceHolds(u) ==
  account[u] # "deleted" /\ \A q \in Requests : ~HoldsUpdate(q, u)

\* Faulty variant: the UPDATE runs on another connection than the claim.
RowsAreFreeToAll(r, T) == \A q \in Requests, t \in T : ~HoldsToken(q, t)

\* r can lock every row of T: no other transaction has one of them locked.
RowsAreFree(r, T) == \A q \in Requests \ {r}, t \in T : ~HoldsToken(q, t)

-----------------------------------------------------------------------------
(* Reading the tables.                                                     *)

FamilyRows(f) == {t \in rows : family[t] = f}
UserRows(u) == {t \in rows : owner[family[t]] = u}
Live(f) == \E t \in FamilyRows(f) : t \notin revoked
Dead(f) == owner[f] # None /\ ~Live(f)
Spendable(t) == t \in rows /\ t \notin used /\ t \notin revoked

\* The next id.  The code draws random UUIDs: which of the unused ids a row
\* gets makes no difference, so they are taken in order.
FreshToken(t) ==
  /\ t \in Tokens /\ family[t] = None
  /\ \A t2 \in Tokens : t2 < t => family[t2] # None
FreshFamily(f) ==
  /\ f \in Families /\ owner[f] = None
  /\ \A f2 \in Families : f2 < f => owner[f2] # None

-----------------------------------------------------------------------------
(* A request's progress.                                                   *)

\* Steps that change nothing another connection can see.
Arrives(r, start) ==
  /\ req[r].pc = "idle"
  /\ served < MaxRequests /\ served' = served + 1
  /\ req' = [req EXCEPT ![r] = start]
  /\ UNCHANGED <<db, history>>
Proceeds(r, next) ==
  req' = [req EXCEPT ![r] = next] /\ UNCHANGED <<served, db, history>>
Goto(r, pc) == Proceeds(r, [req[r] EXCEPT !.pc = pc])
Snapshot(r, pc, T) == Proceeds(r, [req[r] EXCEPT !.pc = pc, !.targets = T])
GivesUp(r) == Proceeds(r, Idle)

\* The transaction commits (the caller says what), and the request is answered.
Answer(r) == req' = [req EXCEPT ![r] = Idle] /\ UNCHANGED served

Init ==
  /\ account = [u \in Users |-> "active"]
  /\ password = [u \in Users |-> 0]
  /\ rows = {} /\ used = {} /\ revoked = {}
  /\ family = [t \in Tokens |-> None]
  /\ owner = [f \in Families |-> None]
  /\ replacedBy = [t \in Tokens |-> None]
  /\ req = [r \in Requests |-> Idle]
  /\ served = 0
  /\ proved = [f \in Families |-> 0]
  /\ ended = [f \in Families |-> {}]

-----------------------------------------------------------------------------
(* Login.                                                                  *)

\* findOne by email and argon2 verification: active and the right password.
login(r, u) ==
  /\ account[u] = "active"
  /\ Arrives(r, [Idle EXCEPT !.pc = "verified", !.usr = u, !.pw = password[u]])

\* user.update({ lastLoginAt }): a transaction of its own; no row if deleted.
touchLastLogin(r) ==
  LET u == req[r].usr IN
  /\ req[r].pc = "verified"
  /\ account[u] = "deleted" \/ WriteIsFree(u)
  /\ Goto(r, "touched")

\* Faulty variant: the row does not get its family_id.
insertTokenAlone(t, f, u) ==
  /\ FreshToken(t) /\ ReferenceHolds(u)
  /\ rows' = rows \cup {t}
  /\ UNCHANGED family

\* The INSERT of insertToken: row t, of family f and user u.
insertToken(t, f, u) ==
  /\ FreshToken(t) /\ ReferenceHolds(u)
  /\ rows' = rows \cup {t}
  /\ family' = [family EXCEPT ![t] = f]

startSession(r, f, t) ==
  LET u == req[r].usr IN
  /\ req[r].pc = "touched"
  /\ FreshFamily(f)
  /\ insertToken(t, f, u)
  /\ owner' = [owner EXCEPT ![f] = u]
  /\ proved' = [proved EXCEPT ![f] = req[r].pw]
  /\ Answer(r)
  /\ UNCHANGED <<account, password, used, revoked, replacedBy, ended>>

\* The user has been deleted meanwhile: the foreign key refuses the row.
startSessionFails(r) ==
  /\ req[r].pc = "touched"
  /\ account[req[r].usr] = "deleted"
  /\ GivesUp(r)

-----------------------------------------------------------------------------
(* Refresh: rotateRefreshToken, one transaction.                           *)

\* SELECT user_id: an unknown token is answered at once and changes nothing.
rotateRefreshToken(r, t) ==
  /\ t \in rows
  /\ Arrives(r, [Idle EXCEPT !.pc = "ownerRead", !.tok = t,
                             !.usr = owner[family[t]], !.sid = family[t]])

\* SELECT ... FOR SHARE.
lockOwner(r) ==
  LET u == req[r].usr IN
  /\ req[r].pc = "ownerRead"
  /\ account[u] # "deleted" /\ ShareIsFree(u)
  /\ Goto(r, "shared")

\* The owner is gone and the token with it: nothing to lock, to claim or to revoke.
ownerIsGone(r) ==
  /\ req[r].pc = "ownerRead"
  /\ account[req[r].usr] = "deleted"
  /\ GivesUp(r)

\* Faulty variant: the token is read, not claimed by a conditional UPDATE.
claimByReading(r) ==
  /\ req[r].pc = "shared"
  /\ Spendable(req[r].tok)
  /\ Goto(r, "claimed")

\* Faulty variant: the UPDATE does not test revoked_at.
claimEvenRevoked(r) ==
  LET t == req[r].tok IN
  /\ req[r].pc = "shared"
  /\ t \in rows \ used /\ RowsAreFree(r, {t})
  /\ Goto(r, "claimed")

\* The conditional UPDATE claims the row, which stays locked until the commit.
claim(r) ==
  LET t == req[r].tok IN
  /\ req[r].pc = "shared"
  /\ Spendable(t) /\ RowsAreFree(r, {t})
  /\ Goto(r, "claimed")

\* The UPDATE affects no row: the token is spent, revoked or gone.
claimMisses(r) ==
  /\ req[r].pc = "shared"
  /\ ~Spendable(req[r].tok)
  /\ Goto(r, "missed")

\* The token is spent and not revoked: reuse.
seenUsed(r) ==
  LET t == req[r].tok IN
  /\ req[r].pc = "missed"
  /\ t \in rows /\ t \in used /\ t \notin revoked
  /\ Goto(r, "reused")

\* It is unknown or revoked: 401.
notSeen(r) ==
  LET t == req[r].tok IN
  /\ req[r].pc = "missed"
  /\ t \notin rows \/ t \notin used \/ t \in revoked
  /\ GivesUp(r)

\* expires_at or family_expires_at is over: no row is claimed or seen, 401.
expired(r) ==
  /\ req[r].pc \in {"shared", "missed"}
  /\ GivesUp(r)

\* Faulty variant: the claim is trusted, is_active not read.
assumeActive(r) ==
  /\ req[r].pc = "claimed"
  /\ Goto(r, "active")

\* SELECT is_active of the owner.
readActive(r) ==
  /\ req[r].pc = "claimed"
  /\ Goto(r, IF account[req[r].usr] = "active" THEN "active" ELSE "inactive")

\* Faulty variant: replaced_by_id is never set.
rotateUnlinked(r, n) ==
  LET t == req[r].tok IN
  /\ req[r].pc = "active"
  /\ insertToken(n, family[t], req[r].usr)
  /\ used' = used \cup {t}
  /\ Answer(r)
  /\ UNCHANGED <<account, password, owner, revoked, replacedBy, history>>

\* The successor is inserted, replaced_by_id set, and the transaction commits.
rotate(r, n) ==
  LET t == req[r].tok IN
  /\ req[r].pc = "active"
  /\ insertToken(n, family[t], req[r].usr)
  /\ used' = used \cup {t}
  /\ replacedBy' = [replacedBy EXCEPT ![t] = n]
  /\ Answer(r)
  /\ UNCHANGED <<account, password, owner, revoked, history>>

\* revokeFamily's UPDATE starts, in the rotation's transaction.
revokeFamilyStarts(r) ==
  LET T == FamilyRows(req[r].sid) \ revoked IN
  /\ \/ req[r].pc = "reused" /\ Snapshot(r, "reuseSnap", T)
     \/ req[r].pc = "inactive" /\ Snapshot(r, "inactiveSnap", T)

\* It has its rows, and the transaction commits (with the claim, if there is one).
revokeFamily(r) ==
  LET T == req[r].targets IN
  /\ req[r].pc \in {"reuseSnap", "inactiveSnap"}
  /\ RowsAreFree(r, T)
  /\ revoked' = revoked \cup (T \cap rows)
  /\ used' = IF req[r].pc = "inactiveSnap" THEN used \cup {req[r].tok} ELSE used
  /\ ended' = [ended EXCEPT ![req[r].sid] =
                 @ \cup {IF req[r].pc = "inactiveSnap" THEN "inactive" ELSE "reuse"}]
  /\ Answer(r)
  /\ UNCHANGED <<account, password, rows, family, owner, replacedBy, proved>>

-----------------------------------------------------------------------------
(* Logout: revokeFamilyByToken, one statement.                             *)

\* Faulty variant: only the presented token is revoked, not its family.
revokeToken(r, t) ==
  /\ t \in rows
  /\ Arrives(r, [Idle EXCEPT !.pc = "logoutSnap", !.tok = t, !.sid = family[t],
                             !.targets = {t} \ revoked])

revokeFamilyByToken(r, t) ==
  /\ t \in rows
  /\ Arrives(r, [Idle EXCEPT !.pc = "logoutSnap", !.tok = t, !.sid = family[t],
                             !.targets = FamilyRows(family[t]) \ revoked])

logout(r) ==
  LET T == req[r].targets IN
  /\ req[r].pc = "logoutSnap"
  /\ RowsAreFree(r, T)
  /\ revoked' = revoked \cup (T \cap rows)
  /\ ended' = [ended EXCEPT ![req[r].sid] = @ \cup {"logout"}]
  /\ Answer(r)
  /\ UNCHANGED <<account, password, rows, family, owner, used, replacedBy, proved>>

-----------------------------------------------------------------------------
(* revokeAllForUser, inside the transaction of a password or admin change. *)

\* The users row is locked; the live families, but the actor's own, are doomed.
LockUser(r, pc) ==
  LET u == req[r].usr IN
  /\ account[u] # "deleted" /\ WriteIsFree(u)
  /\ Proceeds(r, [req[r] EXCEPT !.pc = pc,
                    !.doomed = {f \in Families \ {req[r].sid} :
                                  owner[f] = u /\ Live(f)}])

revokeAllStarts(r, pc) ==
  Snapshot(r, pc, {t \in UserRows(req[r].usr) \ revoked : family[t] # req[r].sid})

\* It has its rows, and the transaction around it commits.
revokeAllForUser(r) ==
  /\ RowsAreFree(r, req[r].targets)
  /\ revoked' = revoked \cup (req[r].targets \cap rows)
  /\ ended' = [f \in Families |->
                 IF f \in req[r].doomed THEN ended[f] \cup {"revokeAll"} ELSE ended[f]]
  /\ Answer(r)

(* The user's own password change: updateSelf.                             *)

\* authenticate finds the session live; findByPk and argon2 accept the password.
updateSelf(r, f) ==
  /\ owner[f] # None /\ Live(f)
  /\ account[owner[f]] = "active"
  /\ Arrives(r, [Idle EXCEPT !.pc = "selfVerified", !.usr = owner[f], !.sid = f])

updatePassword(r) ==
  /\ req[r].pc = "selfVerified"
  /\ LockUser(r, "selfLocked")

revokeOthers(r) ==
  /\ req[r].pc = "selfLocked"
  /\ revokeAllStarts(r, "selfSnap")

commitPassword(r) ==
  LET u == req[r].usr IN
  /\ req[r].pc = "selfSnap"
  /\ revokeAllForUser(r)
  /\ password' = [password EXCEPT ![u] = @ + 1]
  /\ proved' = [proved EXCEPT ![req[r].sid] = password[u] + 1]
  /\ UNCHANGED <<account, rows, family, owner, used, replacedBy>>

(* An administrator's change of a user: adminUpdateUser (deactivate,       *)
(* reactivate), assignRoles, deleteUser.                                   *)

administer(r, u, op) ==
  Arrives(r, [Idle EXCEPT !.pc = "begun", !.usr = u, !.op = op])

\* pg_advisory_xact_lock: one such transaction at a time.
lockAdminGuard(r) ==
  /\ req[r].pc = "begun"
  /\ \A q \in Requests : ~HoldsAdminGuard(q)
  /\ Goto(r, "guarded")

\* findByPk with LOCK.UPDATE.
lockTarget(r) ==
  /\ req[r].pc = "guarded"
  /\ LockUser(r, "adminLocked")

\* The user a request is about no longer exists: 404 (or an UPDATE of no row).
userIsGone(r) ==
  /\ req[r].pc \in {"guarded", "selfVerified"}
  /\ account[req[r].usr] = "deleted"
  /\ GivesUp(r)

Deactivating(r) == req[r].op = "deactivate" /\ account[req[r].usr] = "active"

adminRevokes(r) ==
  /\ req[r].pc = "adminLocked"
  /\ Deactivating(r) \/ req[r].op = "assignRoles"
  /\ revokeAllStarts(r, "adminSnap")

adminCommits(r) ==
  /\ req[r].pc = "adminSnap"
  /\ revokeAllForUser(r)
  /\ account' = IF req[r].op = "deactivate"
                THEN [account EXCEPT ![req[r].usr] = "inactive"] ELSE account
  /\ UNCHANGED <<password, rows, family, owner, used, replacedBy, proved>>

\* Reactivation, or a deactivation of an inactive user: nothing is revoked.
adminUpdateUser(r) ==
  /\ req[r].pc = "adminLocked"
  /\ req[r].op \in {"deactivate", "reactivate"} /\ ~Deactivating(r)
  /\ account' = IF req[r].op = "reactivate"
                THEN [account EXCEPT ![req[r].usr] = "active"] ELSE account
  /\ Answer(r)
  /\ UNCHANGED <<password, rows, family, owner, used, revoked, replacedBy, history>>

\* user.destroy: the foreign key takes the user's tokens along.
deleteUser(r) ==
  LET u == req[r].usr IN
  /\ req[r].pc = "adminLocked" /\ req[r].op = "deleteUser"
  /\ RowsAreFree(r, UserRows(u))
  /\ account' = [account EXCEPT ![u] = "deleted"]
  /\ rows' = rows \ UserRows(u)
  /\ ended' = [f \in Families |->
                 IF f \in req[r].doomed THEN ended[f] \cup {"revokeAll"} ELSE ended[f]]
  /\ Answer(r)
  /\ UNCHANGED <<password, family, owner, used, revoked, replacedBy, proved>>

-----------------------------------------------------------------------------
\* A transaction ends without effect: a refused change (assertAdminRemains,
\* assignRoles' checks), an error, a crash of the server or of the connection.
rollback(r) ==
  /\ req[r].pc # "idle"
  /\ GivesUp(r)

Arrival(r) ==
  \/ \E u \in Users : login(r, u)
  \/ \E t \in Tokens : rotateRefreshToken(r, t)
  \/ \E t \in Tokens : revokeFamilyByToken(r, t)
  \/ \E f \in Families : updateSelf(r, f)
  \/ \E u \in Users, op \in Operations : administer(r, u, op)

Step(r) ==
  \/ touchLastLogin(r) \/ startSessionFails(r)
  \/ \E f \in Families, t \in Tokens : startSession(r, f, t)
  \/ lockOwner(r) \/ ownerIsGone(r) \/ claim(r) \/ claimMisses(r)
  \/ seenUsed(r) \/ notSeen(r) \/ readActive(r)
  \/ \E n \in Tokens : rotate(r, n)
  \/ revokeFamilyStarts(r) \/ revokeFamily(r) \/ logout(r)
  \/ updatePassword(r) \/ revokeOthers(r) \/ commitPassword(r)
  \/ lockAdminGuard(r) \/ lockTarget(r) \/ userIsGone(r) \/ adminRevokes(r)
  \/ adminCommits(r) \/ adminUpdateUser(r) \/ deleteUser(r)

Next == \E r \in Requests : Arrival(r) \/ Step(r) \/ expired(r) \/ rollback(r)

Spec == Init /\ [][Next]_vars

\* PostgreSQL and the event loop run every statement that is not blocked; time
\* need not pass and nothing need fail.
FairSpec == Spec /\ \A r \in Requests : WF_vars(Step(r))
-----------------------------------------------------------------------------
(* Properties.                                                             *)

\* Every row belongs to a family and every family to a user; only rows that
\* were inserted are marked.
TypeOK ==
  /\ account \in [Users -> {"active", "inactive", "deleted"}]
  /\ password \in [Users -> Nat]
  /\ family \in [Tokens -> Families \cup {None}]
  /\ owner \in [Families -> Users \cup {None}]
  /\ rows \subseteq {t \in Tokens : family[t] # None}
  /\ used \subseteq Tokens /\ revoked \subseteq Tokens
  /\ replacedBy \in [Tokens -> Tokens \cup {None}]
  /\ req \in [Requests -> Request]
  /\ served \in 0..MaxRequests
  /\ proved \in [Families -> Nat]
  /\ ended \in [Families -> SUBSET Reasons]

\* A live session has exactly one token that can still be spent, whatever
\* rotations, reuses and revocations of it run at once: the claim in
\* rotateRefreshToken is atomic, and a revocation never takes the newest token
\* and leaves an older one behind.
OneHead ==
  \A f \in Families : Live(f) =>
    \E t \in FamilyRows(f) :
      /\ Spendable(t)
      /\ \A t2 \in FamilyRows(f) : Spendable(t2) => t2 = t

\* A spent token that is not revoked names the row that replaced it, a row of
\* the same session, and no two tokens were exchanged for the same one.
ChainIsLinked ==
  /\ \A t \in (rows \cap used) \ revoked :
       replacedBy[t] \in rows /\ family[replacedBy[t]] = family[t]
  /\ \A t1, t2 \in Tokens :
       replacedBy[t1] = replacedBy[t2] /\ replacedBy[t1] # None => t1 = t2

\* A password change, deactivation, role change or deletion ends every session
\* that was live when it locked the user, for good: the FOR SHARE lock of the
\* rotation (token.service.ts:122) keeps it from minting a token that the
\* UPDATE of revokeAllForUser does not see.  So does a rotation that finds the
\* owner inactive.
RevokeAllIsComplete ==
  \A f \in Families : ended[f] \cap {"revokeAll", "inactive"} # {} => ~Live(f)

\* No session outlives its user: the cascade of deleteUser leaves no row behind
\* and neither a login nor a rotation adds one later.
NoOrphanSession ==
  \A f \in Families : Live(f) => account[owner[f]] # "deleted"

\* A session that has been revoked entirely never comes back: no rotation that
\* was under way, whatever it had read, adds an unrevoked row to it.
RevocationIsFinal == [][\A f \in Families : Dead(f) => Dead(f)']_vars

\* A running session is never given a new token while its user is inactive,
\* although is_active is read before the token is inserted.
NoMintForInactive ==
  [][\A f \in Families :
       /\ owner[f] # None
       /\ \E t \in rows' \ rows : family'[t] = f
       => account[owner[f]] = "active"]_vars

\* Every request is answered: the row locks never form a cycle.
EveryRequestIsAnswered ==
  \A r \in Requests : []<>(req[r].pc = "idle")

\* What the README and the tests say of logout: the session is over.
LogoutEndsSession == \A f \in Families : "logout" \in ended[f] => ~Live(f)

\* What token.service.ts:117 says of reuse: it revokes the whole family.
ReuseEndsFamily == \A f \in Families : "reuse" \in ended[f] => ~Live(f)

\* What user.service.ts:43 says of a password change: other sessions are
\* revoked, so that every live session has been proved with the new password.
PasswordChangeEndsOthers ==
  \A f \in Families : Live(f) => proved[f] = password[owner[f]]

-----------------------------------------------------------------------------
(* Refinement: rows and statements implement the session life cycle.       *)

stateBar ==
  [f \in Families |-> IF owner[f] = None THEN "none"
                      ELSE IF Live(f) THEN "live" ELSE "ended"]
headBar ==
  [f \in Families |-> IF \E t \in FamilyRows(f) : Spendable(t)
                      THEN CHOOSE t \in FamilyRows(f) : Spendable(t) ELSE None]
issuedBar == {t \in Tokens : family[t] # None}

SessionFamily == INSTANCE SessionFamily
  WITH state <- stateBar, head <- headBar, issued <- issuedBar

\* The token table, with its locks and statements, is a set of sessions that
\* are opened once, move from one fresh token to the next, and end for good.
ImplementsSessionFamily == SessionFamily!Spec
=============================================================================
