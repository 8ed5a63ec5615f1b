# TLA+ models of the starter template

This directory holds the formal models of the application in this repository: an Express and
PostgreSQL API server (`server/`), a Next.js client (`client/`) and shared contracts
(`packages/shared/`). It concentrates on what unit tests reach badly: refresh-token sessions
under concurrent requests, the permission system under concurrent administration, the client
under answers that are late or lost, and servers that start, crash and share a database.

## Inventory

Everything the server keeps is in PostgreSQL; between requests the server process keeps only
rate-limit counters. The client keeps its session in Redux, a CSRF token per tab, and cookies.

| Component | State | Operations | Hard behaviour | What makes it correct |
|---|---|---|---|---|
| Sessions (`token.service.ts`, `auth.service.ts`) | `refresh_tokens`: family, owner, used, revoked, replaced-by, expiry | login, refresh (rotation, reuse detection), logout, revoke-all, purge | every statement interleaves with other transactions; row locks; READ COMMITTED snapshots of multi-row UPDATEs | one spendable token per session; a revoked session stays revoked; revocation is complete; every request is answered |
| User administration (`user.service.ts`) | `users`, `user_roles` | own password change, (de)activation, role assignment, deletion | several tables and a revocation in one transaction; what was read before the lock is stale | sessions of a changed user end; an administrator remains; nobody exceeds their own permissions |
| Roles (`role.service.ts`, `admin-guard.ts`) | `roles`, `role_permissions` | create, rename, delete, set permissions | the last-administrator check against concurrent changes | as above |
| Authentication (`authenticate.ts`, `requirePermission.ts`) | none; one query per request | accept or refuse a request | permissions are those of the moment of the query | the guards of the operations above |
| Schema, migrations, seed (`db/`, `seed.service.ts`, `index.ts`) | `migrations`, seeded rows | migrate, seed, start, purge timer | servers that start at once; a crash in between | each migration once; one administrator; start only afterwards |
| Connection pool (`db/sequelize.ts`, `user.service.ts`) | ten connections, a queue with a timeout | lend, return, time out | a transaction that waits for a second connection while it holds locks | the pool stalls in one way only; every request ends |
| CSRF and cookies (`csrf.ts`, `cookies.ts`) | cookies | check, issue | the CSRF token is bound to a session that may change | no accepted unsafe request without a current token |
| Rate limits (`rateLimit.ts`) | counters in memory | count, give back, forget | a hit is given back when the answer ends, perhaps in another window | failures are bounded; nobody is refused for successes |
| HTTP client (`http-client.ts`) | cached CSRF token, refresh in flight | send, refresh once, retry once | several tabs share the cookies; the single flight is per tab | at most one refresh per tab; every request settles |
| Client session (`auth-slice.ts`, `use-require-auth.ts`) | Redux `auth` | bootstrap, fetchMe, login, logout | thunks complete in any order | the shown state agrees with the cookies in the end |
| Admin screens (`UsersAdmin.tsx`, `RolesAdmin.tsx`) | page, list, dialogs | load, edit | loads complete out of order | the list shown belongs to the page selected |
| Pure helpers, schemas, DTOs, logging, errors, layout | none | | | not modelled: stateless functions of one value, and output |

Interactions: the controllers call the services; `user.service` calls `revokeAllForUser` of
`token.service` inside its own transactions; every request but login, refresh, logout, register
and csrf passes `authenticate`, which reads the tables that the services write; the client meets the
server through three cookies and the `X-CSRF-Token` header. `PROJECT.json` lists every component
with its status, and the hazards at their lines.

## Modules

| Module | Models | Extends / uses |
|---|---|---|
| `SessionFamily` | abstract specification: a session is opened once, has one current token which a refresh replaces by a fresh one, and ends once | |
| `Sessions` | `token.service.ts` and what opens or ends sessions in `auth.service.ts` and `user.service.ts` | instance of `SessionFamily` with a refinement mapping |
| `MCSessions` (4 more configs) | instances for TLC | `Sessions` |
| `Sessions_proofs` | types, six safety properties, the refinement | `Sessions`, TLAPS |
| `AdminGuard` | who holds which permission, and every operation that changes it | |
| `MCAdminGuard` (2 configs) | instances for TLC | `AdminGuard` |
| `AdminGuard_proofs` | types and the three safety properties | `AdminGuard`, TLAPS |
| `TokenLifetime` | the dates of tokens and sessions, the two clocks, the purge | |
| `MCTokenLifetime` | instance for TLC | `TokenLifetime` |
| `TokenLifetime_proofs` | types, the absolute lifetime, the purge | `TokenLifetime`, TLAPS |
| `HttpClient` (`HttpClientSecret.cfg`) | `http-client.ts` in tabs that share cookies, against the authentication routes | |
| `AuthSlice` (2 configs) | `auth-slice.ts` and the screens that dispatch its thunks, composed with the client | `HttpClient` |
| `Boot` | `migrate.ts`, `seed.service.ts` and the command of the container, for several servers that crash and restart | |
| `Pool` | the connections of Sequelize and who waits for them | |
| `RateLimit` | the limiters of the login route | |
| `ServerParts_proofs` | types, the seven safety properties of the three modules above | `Boot`, `Pool`, `RateLimit`, TLAPS |
| `UsersScreen` | `UsersAdmin.tsx`, its requests, and the list that they read and change | |
| `RolesScreen` | `RolesAdmin.tsx`, likewise | |
| `Screens_proofs` | types, the three safety properties of the screens | `UsersScreen`, `RolesScreen`, TLAPS |
| `HttpClient_proofs` | types, one rotation per call, no raced rotation in one tab, no lost wake-up | `HttpClient`, TLAPS |
| `AuthSlice_proofs` | the same under the calls of the screens, and that a signed-in user has cookies | `AuthSlice`, `HttpClient_proofs` |
| `MCParts` | instance for TLC of five models, and their liveness properties | `Boot`, `Pool`, `RateLimit`, `UsersScreen`, `RolesScreen` |
| `Parts_proofs` | types and safety of the five models together | `MCParts`, `ServerParts_proofs`, `Screens_proofs` |

### Sessions: state and actions

`account`, `password`, `rows`, `family`, `owner`, `used`, `revoked`, `replacedBy` are the committed
tables. `req[r]` is what a connection has done and read so far: its position `pc`, the token, user
and session it is about, and the snapshot (`targets`) of a multi-row UPDATE. A transaction's own
uncommitted writes are never in the tables: they follow from `pc`, and the committing action applies
them. Which locks a request holds follows from `pc` too (`HoldsShare`, `HoldsNoKeyUpdate`,
`HoldsUpdate`, `HoldsToken`, `HoldsAdminGuard`). `proved` and `ended` are history: the password a
session was last proved with, and why it was revoked.

One action stands for one SQL statement, named for the function it is in. A refresh is
`rotateRefreshToken` (SELECT owner), `lockOwner` (FOR SHARE), `claim` or `claimMisses` (the conditional
UPDATE), then `readActive` and `rotate`, or `seenUsed` and `revokeFamilyStarts` / `revokeFamily`. A
multi-row UPDATE takes its snapshot in one action and gets its rows in another, which waits for the
rows that others have locked. Any transaction may end in `rollback` at any point: a refused change,
an error, a crash of the server or of the connection.

Abstractions, all on the side of more behaviour except where said:

- Expiry happens at any time (`expired`). The purge is left to `TokenLifetime`, which shows that it deletes
  no row that could still be told from an absent one.
- The statements after the last one that waits are merged with the commit. Row locks of a
  multi-row UPDATE are acquired together at its end; the code's rows of one family are acquired one by
  one, which can only deadlock where two UPDATEs overlap, and PostgreSQL then aborts one (`rollback`).
- `authenticate`, `findByPk` and the password verification of `updateSelf` are one step: all three
  only read, and none of what they read is used later but the session id.
- Ids are taken in order, where the code draws random UUIDs: which unused id a row gets makes
  no difference. This also keeps the state space small without symmetry over ids.
- Changes of names and emails touch no session and are left out, as are wrong credentials.

### AdminGuard: state and actions

`db` is the record of the committed tables (account, role, user_roles, role_permissions), `req[r]` a
change with the permissions its actor held when it was authenticated. `authenticate` combines the
middleware with the permission check of the route; then come `lockAdminGuard` (advisory lock), `write`
or `refuse` (the lookups and checks of the service), `assertAdminRemains` or `noAdminRemains`, and
`commit`, which applies `Written(db, change)`; the assertion evaluates the same expression, as the query
of assertAdminRemains sees its own transaction's writes. `register` and `createRole` do not take the
lock. Deletions cascade to the link tables. The initial state is the seeded database
(`seed.service.ts`), with some registered users.

### TokenLifetime: state and actions

The columns of `refresh_tokens` that hold dates, as integers; `now`, the database's clock, and `skew`, how
far the server's clock is ahead of it. `insertToken` computes expiry from the server's clock, the queries
(`Claims`, `Reused`, `authenticate`, `Purged`) compare with `now`. A refresh is two steps, `rotateStarts`
and `rotate` or `refuse`: the second uses the time of the first, which is what `now()` means in a
transaction, and any time may pass in between. `jwt` is the expiry of a session's newest access token.
The interleaving of the statements is left to `Sessions`; the skew does not change while the system runs.

### HttpClient and AuthSlice: state and actions

A tab has a cached `csrfToken` and its calls: one per slot for the application, and `"csrf"` and
`"refresh"`, the two shared ones (`csrfInFlight`, `refreshInFlight`). A call is `idle`, waits for the CSRF
fetch (`csrf`) or for the refresh (`refreshing`), is `sent` with the cookies and the header of that moment,
or is `answered`. `serve` is one of the controllers with its middleware; `handle` is the arrival of the
response: the browser stores its cookies, and the promise callbacks that it settles run to their next
request in the same step, as JavaScript runs them. `interceptRequests` is the request interceptor;
`refreshSession`, `sessionRefreshed`, `refreshFails`, `fulfilled` and `rejected` are the branches of the
response interceptor, `csrfFetched` and `csrfFails` those of `fetchCsrf`.

The server keeps of a session the number of its newest token (`current`), whether it is over (`over`), and how far a
revocation that has missed the newest token has marked it (`revoked`). A rotation is one step. The UPDATE with which a
logout, or the detection of a reuse, revokes a session is two, `revokeFamilyStarts` with its snapshot and
`revokeFamily` when the controller answers, because a rotation may commit in between: the session then goes on with
the token that the snapshot lacks, as in `logout_race` and `reuse_race`. The client is checked and proved against this
server. What a server promises of a session is the business of `Sessions`, which implements `SessionFamily`.

`AuthSlice` adds the Redux state of a tab. Its actions are those of `HttpClient` together with the
reducers that run in the same step; its screens restrict which calls are made when: logging out needs a user and a change
somebody who is signed in, while the login and the registration form ask nothing of the status once the page has
rendered. `loggedOut` and
`overtaken` are history: where a logout has ended, and where a login was made while the `fetchMe` of the page load
was under way, which may since have shown its user.

Abstractions:

- A response's cookies are stored when its handler runs, not when its headers arrive a moment before.
- Calls take free slots in order; nonces of CSRF tokens that nothing holds any more may be used again, as
  they cannot be told from fresh ones. Neither loses a behaviour.
- A page load forgets what is under way. The server may still have answered it (the successor of a
  refresh is then `lost`), or not have received it; a request that it handles after the page load, or a
  revocation that it commits after it, is not modelled.
- The access token expires once per issue at any time (`accessExpires`); other browsers, administrators and
  the session's age are `sessionEnds`. A change of the secret is part of `HttpClient` only.
- Of the tokens that a revocation has marked, the number of the newest is kept: it marks all that its snapshot has,
  which are those up to that number.
- Registration, and the requests of the administration screens (`change`), are calls without effect on
  the session. Answers of the rate limiter appear as failures.

### Boot: state and actions

`tables`, `ledger` (`schema_migrations`), `seedRows` and `account` (the administrator with the email of the
environment) are what is committed. `bootPc[s]` is how far the command of server `s` has come
(`docker-compose.yml`: migrate, seed, start), `done[s]` and `tx[s]` what its open transaction has gone through
and written. `lockMigrations`, `readLedger`, `applyMigration` and `commitMigrations` are `migrateUp`;
`findOrCreate` is one row of the seed, `commitSeed` its transaction; `seedAdminUser` is the lookup, `createAdmin`
the INSERT that waits for another one of the same email, `grantAdmin` the role and the commit. `crash` may
come at any time and rolls back what is open; a container that exits is restarted, one that is stopped is
not. `migrateDownLast` and `editAccount` (password, role, deletion by a person) happen in between. Which migration
`migrateDownLast` takes is left open: `applied_at` is the time at which a transaction began, before it waited
for the lock, so that the order of the list is not promised. There is one migration today.

### Pool: state and actions

`holder` says to which request a connection is lent, `queue` who waits, `pc` what a request does with its
connection, or will. A refresh begins with its transaction; every
other request authenticates first, on a connection that it then returns. A transaction waits on its
connection for the advisory lock or for the user's row (`Blocked`). `permissionKeysOf` is the query of assignRoles
that runs outside its transaction, and so needs a second connection. `acquireTimeout` is the 60 seconds after which
the pool gives up; it is possible at any time of a wait. The number of connections is a constant, ten in the code.

### RateLimit: state and actions

`hits` and `over` are the store of express-rate-limit for the address and for each email. `turnedAway` and
`limitLogin` are an arrival, in which the middleware up to the password check runs without interruption.
`loginSucceeds` gives a hit back when the response has ended, `loginLost` does not (the connection closed first).
`windowEnds` and `serverRestarts` happen at any time. `counted` and `borrowed` are history.

### UsersScreen and RolesScreen: state and actions

The state of the React components by its names, the requests under way with the answers that they have by
now, and the list on the server. A click that the screen allows sends a request; `serveRequest` handles
it; its answer arrives at any later time, and the callbacks after `await` run in one step up to the next
request. A dialog covers the page, and can be closed while its request is under way: the request is not
cancelled (`inDialog`). `excused` and `stale` are history: they say when what is shown need not be
current. A page holds one user, as nothing but the number of pages depends on it; roles are abstracted to the number of
changes they have had.

What the models show in passing, and the code accepts: a deletion that is answered late closes the
dialog that is open by then, whoever it asks about, and loads the page on which it was confirmed, not the one
that is selected (`deleted`); saved roles close whatever roles dialog is open (`rolesSaved`, `saved`).

## What is checked

| Run | Instance | Shows |
|---|---|---|
| `sessions` | 1 user, 2 sessions, 4 tokens, 3 connections, 6 requests | `OneHead`, `ChainIsLinked`, `RevokeAllIsComplete`, `NoOrphanSession`, `RevocationIsFinal`, `NoMintForInactive`, and that `Sessions` implements `SessionFamily` |
| `sessions_live` | 1 user, 4 sessions, 4 tokens, 3 connections, 4 requests | every request is answered |
| `logout_race` | as `sessions` | violation of `LogoutEndsSession` |
| `reuse_race` | as `sessions` | violation of `ReuseEndsFamily` |
| `password_race` | as `sessions` | violation of `PasswordChangeEndsOthers` |
| `admin_guard` | 3 users, 3 roles, 4 permissions, 2 connections, 5 requests | `AdminRemains`, `GrantsAreCovered`, `RevokesAreCovered` |
| `permission_reach` | as `admin_guard` | violation of `EveryPermissionIsInReach` |
| `token_lifetime` | 1 session, 3 tokens, 2 connections, time 0 to 7, skew -1 to 1; token lifetime 2, session 4, retention 2 | `AbsoluteLifetime`, `PurgeIsInvisible` |
| `client_session` | 1 tab, 2 calls at once, 4 in all, 2 sessions, 1 failure | `RotationNeverRaced`, `OneRefreshPerCall`, `LiveUserHasCookies`, `WaitersAreWoken`, `EveryCallSettles`, `LoadingEnds` |
| `secret_rotation` | 1 tab, 1 call at a time, 4 in all, one change of the secret, no failure | violation of `AuthFailureIsDefinitive` |
| `stale_identity` | as `client_session`, no failure | violation of `NoIdentitySurvivesLogout` |
| `parts` | one of five models, chosen in the initial state by `part` | |
| | boot: 2 servers, 2 migrations, 2 seeded rows, 2 crashes, 1 reverted migration, 2 edits | `LedgerMatchesSchema`, `ParallelBootsSucceed`, `ListeningIsReady`, `SeedNeverOverwrites`, `ServersListen` |
| | pool: 3 requests, 2 connections | `OnlyAssignmentStalls`, `EveryRequestEnds` |
| | rate: 4 attempts at one email, limits 3 and 1, 2 windows, 1 restart | `FailuresAreBounded`, `RefusedForFailures` |
| | users: 2 pages, 2 requests at once, 3 clicks, 1 failure | `ShownListIsCurrent`, `OneDeletionAtATime`, `ScreensSettle` |
| | roles: 2 requests at once, 3 saves, 1 failure | `ShownRolesAreCurrent`, `ScreensSettle` |

Bounds. Users do not interact but through the advisory lock, so that one is enough for `sessions`;
two sessions distinguish the one that changes the password from the others; four tokens allow a session
of four generations, or two of two; three connections allow a rotation, a revocation and another of
either to overlap; six requests are enough for login, two refreshes, a reuse, an administrator's
change and a logout. The proofs below remove these bounds for the safety properties. The
administrative instance has a root, another registered user and one who registers, the two system roles
and a custom one. The lifetimes of `token_lifetime` keep the proportions that matter (a session lasts longer
than a token, and as long as a token and the retention together, the limit of `RetentionAssumption`), and
its clock runs until the whole session may have been purged; three tokens are two rotations, the
second of which meets the cap. Two calls at once are the fewest that share a refresh or complete out of
order, and four calls make a login, a logout and two calls in between; one failure may hit any of the
requests. `client_session` is a browser with one tab on purpose: with two, `RotationNeverRaced` and
`LiveUserHasCookies` fail in the way that the repository's README describes under "Refresh reuse". The five
models of `parts` share no state; in one run they cost the sum of their states, not the product. Two servers
are the fewest that race; two crashes allow one of each, or one server to crash again after its restart. Three requests
on two connections are the fewest that stall the pool (an assignment and a transaction that waits for it, with one more to
wait in the queue). Limits of 3 and 1 let four attempts meet both limiters, and two windows let a hit be given back in
another one than it was counted in. Two pages and two requests at once are enough for answers out of
order, three clicks for a deletion, a turned page and a toggle. Deadlock checking is off because `MaxRequests` lets every model come to rest; the
liveness run shows that no request is stuck on a lock.

Fairness. `FairSpec` has weak fairness of `Step(r)` for every connection: PostgreSQL and the event loop
eventually run a statement that is not blocked. Expiry, failures and the arrival of requests are not
fair, so that answers do not depend on them. `FairAuthSpec` has weak fairness of every call of a tab: a
request is answered in the end, if only by a failure (the browser settles every request), and the event
loop handles the answer; and of the effects of the first render (`App`), which React runs. Users, page loads, expiry and failures are not fair; there is no fairness that
prefers success. In `parts` the statements of a server that do not wait are run and an exited container is restarted
(`restart: unless-stopped`), for each server; a request that waits for the pool gets a connection or times out, for each request;
a request of a screen is answered in the end, if only by a failure, and its answer is handled. Crashes,
reverted migrations, edits, clicks and arrivals are not fair. Liveness is stated as `[]<>`: whatever a
request or a screen is doing, it is idle again later.

`LoadingEnds` counts `idle` as loading too, as `use-require-auth.ts` does. The status may rest at `idle` only when the bound
`MaxCalls` is used up, which keeps a page that has just been loaded from asking.

`SYMMETRY` is over connections only, in runs without liveness properties.

### Findings

- A logout races a refresh (`logout_race`): `revokeFamilyByToken` takes no lock on the users row, and
  its UPDATE misses the successor of the token that the refresh has claimed. The session outlives the
  logout, and `RevokeAllIsComplete` shows by contrast that every revocation with the lock is complete.
- Reuse detection races a rotation (`reuse_race`) in the same way: both hold only FOR SHARE.
- A login races a password change (`password_race`): the password is verified long before the session
  is inserted, and never again.
- `roles:write` is not root-equivalent (`permission_reach`): the subset checks keep an administrator
  from defining a role beyond their own permissions, while the last-administrator rule guards two
  permissions only.

- A change of the JWT secret (`secret_rotation`): a tab with a CSRF token in memory refreshes with it, gets
  403, and shows its user as logged out, though the refresh token was good.
- A late `fetchMe` (`stale_identity`): answered before a logout and handled after it, it shows the user as
  signed in again, with no cookies; the next call fails.

`OneHead`, `RevocationIsFinal` and the refinement hold in spite of the first two: a session that such a
race leaves live is still a proper session with one spendable token.

## What is proved

TLAPS proves the following for every value of the constants, from the assumptions that the modules
name: ids of sessions and tokens are numbers, `None` is none of them, `MaxRequests` is a number
(`Sessions`); the system roles, the seeded administrator and the administrative permissions exist,
`user` is not `admin` (`AdminGuard`); there is a connection (`Pool`); attempts are finite (`RateLimit`); `None` is neither a
session nor a refresh token, the two shared calls are no slots (`HttpClient`). There is no
bound on users, sessions, tokens, requests, servers, migrations, connections or attempts in them.

`Sessions_proofs`: `Typing`, `OneHeadAlways`, `ChainAlwaysLinked`, `RevokeAllAlwaysComplete`,
`NeverOrphaned`, `RevocationAlwaysFinal`, `NeverMintsForInactive`, `Refinement`. None of the properties
is inductive, as each depends on what requests in progress have read. The inductive invariant `IInv`
adds:

- `Local`: what a position guarantees. A claimed token stays spendable until the claim commits; the
  owner of a session that is about to be rotated is active; a snapshot that has a session's head has all
  of its unrevoked rows (`Covers`, which is why a revocation never leaves an older token behind); the
  snapshot of revoke-all has all rows of the sessions that were live when the user was locked
  (`CoversDoomed`, which is where the FOR SHARE lock matters).
- `Exclusive`: no two requests have claimed one token, and none rotates or writes a user's row while
  another writes it.
- `Tables`: one spendable token per live session at most and at least, marks only on inserted rows.

`Moves` collects the steps that change no table: for these only the request's new record needs an
argument. The eight committing steps have a lemma each, the four revocations sharing one.
`SessionsOnlyEnd` gives the two action properties. For the refinement, `HeadsAre` identifies what the
mapping chooses, and each committing step is an `Open`, an `Advance` or an `End`.

`AdminGuard_proofs`: `Typing`, `AdminAlwaysRemains`, `GrantsAlwaysCovered`, `RevokesAlwaysCovered`. The
inductive invariant says that what a request has checked still holds until it commits, because the
holder of the advisory lock is alone among those that take something away, and registration and
role creation add only.

`TokenLifetime_proofs`: `Typing`, `LifetimeIsAbsolute`, `PurgeNeverSeen`, for all lifetimes with
`FAMILY_MAX <= REFRESH_TTL + RETENTION` (in the code 30 days against 7 and 30), any skew and any number of
sessions and tokens. The invariant `Ends` ties every row to the login of its session: it carries the
session's end, and expires neither after it nor by more than the retention before it. That is why a
row which the purge deletes belongs to a session that is over (`PurgedIsOver`), even a spent one that
reuse detection would otherwise have needed.

`ServerParts_proofs`, on `Boot`: `LedgerMatchesSchemaAlways`, `ParallelBootsSucceedAlways`, `ListeningIsReadyAlways`,
`SeedNeverOverwritesAlways`. The invariant has two halves. `Transactions` is the exclusion: one server migrates, from the
ledger as it is, and one creates the account, which is not there. `Stage` is what a server has reached, as
long as nothing is reverted: past its migration the tables are there, past its seed the rows, past the lookup the
account, unless a person has changed it.

On `Pool`: `PoolTyping`, `OnlyAssignmentStallsAlways`. The invariant `Sane` says who may wait for a connection while
holding one (an assignRoles that reads its keys, and nobody else) and that whoever has a lock has a connection; with
the exclusion of the advisory lock, in a stall the holders of all other connections can only be waiting for the
locks of that one assignment.

On `RateLimit`: `FailuresAreBoundedAlways`, `RefusedForFailuresAlways`. The invariant `Counts` ties the hits of a
bucket to the attempts of its window that did not succeed: no more hits than those, and fewer only by what
successes of earlier windows gave back. Cardinalities come from the library's theorems on finite sets.

`Screens_proofs`: `OneDeletionAlways`, `ShownListAlwaysCurrent`, `ShownRolesAlwaysCurrent`, for lists of any length and any
number of requests under way; the only assumption is that some call has the lowest number. What is shown
at rest does not say what an answer under way will do to it, so the invariants do: as long as nothing excuses the users
screen (`excused`), one request is under way at a time, and handling its answer will leave the screen current
(`Fresh`: a load carries the selected page, a change of a row carries what the server now has of it). `Deletion`
says that a deletion, or the reload after it, keeps `isDeleting` set, which a reload of an earlier deletion
could otherwise reset. For the roles screen, a load answered on a screen that is not `stale` has seen the
roles as they still are.

`HttpClient_proofs`: `OneRefreshPerCallAlways`, `RotationNeverRacedInOneTab`, `WaitersAreWokenAlways`, `ClientTypes`, for any
number of sessions, calls, failures and secrets. `Base` is common to them: which fields a call has, and that every token that
is anywhere is one that its session has had. `Marks` types the snapshots and the marks of revocations.

- `OneRefreshPerCall` follows from `Paid`: the number of a session's token, and the calls that may still
  cause a rotation (`Credit`: not retried, or a refresh not served yet), together never exceed the calls made. A step
  of the client moves credit from the call that found its token expired to the refresh it starts, and from there the
  server takes it.
- `RotationNeverRaced` holds under `OneTab` only; two tabs may show one token, each in its own refresh. `TokensNewest`
  says that a token is the current one wherever it is, but in the cookies while the refresh's answer with its successor
  is on the way: the next refresh starts only when that answer has been stored or lost. `LoginsApart` keeps an overlapping
  login out of the way of that answer.
- `WaitersAreWoken` is proved for any number of tabs from `Woken`, which is the same with the positions that a
  call may be in. What matters is the order inside one step: a refresh that starts without a CSRF token starts the
  fetch that it waits for (`SendingWakes`), and what settles a shared call settles or sends all that wait for it
  (`SettlingWakes`), those included that wait for a refresh which waits for the fetch.
- `TypeOK` needs `Typed`, which types what waits in answers too, and a nonce for each new CSRF token: the hypothesis
  `MoreNonces` says that there are more nonces than places that may hold one (in the code they are random numbers of 256
  bits, never the same twice). The nine nonces of the runs are enough for the states that TLC reaches, though not for every
  place at once.

`AuthSlice_proofs`: `ScreensRefreshOnce`, `ScreensNeverRace`, `ScreensWake`, `ScreensKeepCookies`, `ScreensTypes`, under
the specification that the run `client_session` checks. Every step of a tab is one of `HttpClient` but `App`, which sends
several calls in one step; `AppStep` says what it does to each call, and the invariants above are carried over. `FiniteSlots`
says that a tab has finitely many calls under way (their number is added to `issued`). `LiveUserHasCookies`, under `OneTab`, is
far from inductive, and rests on four invariants:

- `Paired`: the access cookie and the refresh cookie, in the jar, in a request and in an answer, are of one session or
  absent together, as `setAuthCookies` and `clearAuthCookies` write both.
- `Viewed` and `Unasked`: the slice has a user exactly while its status is `authenticated`, and while it is `idle` the
  tab has asked nothing yet.
- `InSession`: as long as the tab asks who it is (`Asking`) and no login has overtaken that call, the cookies, what every
  call has sent and every answer on the way are of one session, or absent because it has been ended, or somebody has
  tried to (`Ended`: over or marked). The user that the answer brings is then a user whose cookies are there.
- `UserServed`: the property itself, for users that were shown otherwise.

Together these say when a late answer that clears the cookies is harmless: it comes with the end of the session, or with
the step that takes the user off the screen. It is not when a revocation has missed a token, which the property leaves out
by `revoked`; see below.


`Parts_proofs`: `PartsTypes`, `PartsAreSafe`. A behaviour of `MCParts` is one of each of its parts (`PartsAlone`), so that what is
proved of them holds of the specification that the run `parts` checks.

Only model-checked: `EveryRequestIsAnswered`, `EveryCallSettles`, `LoadingEnds`, `ServersListen`, `EveryRequestEnds` and
`ScreensSettle`, as liveness is beyond this prover. Every invariant and every action property of a passing run is proved. The
violations are counterexamples of TLC.

### What the proofs found

`LiveUserHasCookies` without `overtaken` holds in the instance of `client_session` and is false of the code: the proof does not
go through, and an instance of three calls at once and five in all has a counterexample. The login form asks
nothing of the status (`LoginForm.tsx`), so that a login may overtake the `fetchMe` of the page load. After a login and a logout in the
meantime, the late answer of that `fetchMe` shows the user of the first session, which is live, and there are no cookies. With
the exception stated, the larger instance (1.7 million states) passes and the proof goes through.

The other exception is `revoked`. When the UPDATE of a logout misses the successor of a concurrent refresh, the session stays
live (the finding of `logout_race`), the answer of the logout clears the cookies and the user, and a second `fetchMe` of the
page load, answered before all this and handled after it, shows that user again: of a live session, without cookies. A server
that ends a session in one step hides this, because the session then counts as over. With the two steps of the UPDATE, an
instance of three calls at once, six in all, one session and no failures violates the property when the exception is left
out, and passes (1.5 million states) with it. The proof needs the exception in `InSession`: cookies may be absent without the
session being over.

A refresh that is under way at a login is not given up either (`http-client.ts:95`): its answer replaces the cookies
of the new session by those of the earlier one, while the screen shows the user of the new one. No comment or test says what should
happen in any of these cases; they are listed as hazards.

## What is not modelled, and the plan

Still open, in this order:

1. Names: `updateRole`, names and emails of users, and the conflicts of two requests for one name.
2. What a screen shows against whose cookies it sends, stated as a property once the code or a document says which is meant.

Left out for good: `safeNextPath` and pagination arithmetic (functions of one value, without state), schemas
and DTO mapping, logging, the response envelope, layout and forms, Docker and build files: they keep no
state that a property could be about. `limiters.general` and the limits of the other routes are `limiters.auth` with other
numbers.
