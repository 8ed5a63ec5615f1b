-------------------------------- MODULE Boot --------------------------------
(***************************************************************************)
(* Servers that start: each container runs migrate && seed && start        *)
(* (docker-compose.yml), is restarted when it exits, and finds a database  *)
(* that others are migrating and seeding at the same time (migrate.ts,     *)
(* seed.service.ts, scripts/, index.ts).  One action is one statement, or  *)
(* the statements of a transaction that nobody waits for.  What a          *)
(* transaction has written stays in tx until its commit, and is gone when  *)
(* its server crashes.                                                     *)
(***************************************************************************)
EXTENDS Naturals

CONSTANTS
  Servers,
  NumMigrations,  \* MIGRATIONS is the list 1 .. NumMigrations; 1 is 001-init
  NumSeedRows,    \* the rows of seedRolesAndPermissions, in its order
  MaxCrashes,     \* bound: crashes, and statements that fail for want of a database
  MaxDowns,       \* bound: migrateDownLast
  MaxEdits        \* bound: changes that people make to the seeded account

ASSUME BootAssumption ==
  /\ NumMigrations \in Nat \ {0} /\ NumSeedRows \in Nat
  /\ MaxCrashes \in Nat /\ MaxDowns \in Nat /\ MaxEdits \in Nat

VARIABLES
  tables,    \* migrations whose tables exist
  ledger,    \* names in schema_migrations
  seedRows,  \* permissions, system roles and role_permissions that exist
  account,   \* the users row with SEED_ADMIN_EMAIL
  bootPc,    \* where each server is
  done,      \* what its transaction has found done or has done
  tx,        \* what its transaction has written
  crashes, downs, edits

bootDb == <<tables, ledger, seedRows, account>>
bootCounts == <<crashes, downs, edits>>
bootVars == <<bootDb, bootPc, done, tx, bootCounts>>

MIGRATIONS == 1 .. NumMigrations
SeedRows == 1 .. NumSeedRows

NoAccount == [password |-> "none", admin |-> FALSE]
SeededAccount == [password |-> "seeded", admin |-> TRUE]
Accounts == [password: {"none", "seeded", "changed"}, admin: BOOLEAN]

BootPcs == {"migrate", "ledger", "up", "count", "seed", "find", "create", "grant",
            "recount", "start", "listening", "exited", "stopped"}

BootTypeOK ==
  /\ tables \subseteq MIGRATIONS /\ ledger \subseteq MIGRATIONS
  /\ seedRows \subseteq SeedRows /\ account \in Accounts
  /\ bootPc \in [Servers -> BootPcs]
  /\ done \in [Servers -> SUBSET (MIGRATIONS \cup SeedRows)]
  /\ tx \in [Servers -> SUBSET (MIGRATIONS \cup SeedRows)]
  /\ crashes \in 0 .. MaxCrashes /\ downs \in 0 .. MaxDowns /\ edits \in 0 .. MaxEdits

BootInit ==
  /\ tables = {} /\ ledger = {} /\ seedRows = {} /\ account = NoAccount
  /\ bootPc = [s \in Servers |-> "migrate"]
  /\ done = [s \in Servers |-> {}] /\ tx = [s \in Servers |-> {}]
  /\ crashes = 0 /\ downs = 0 /\ edits = 0

\* A transaction of s is open between two actions.
Migrating(s) == bootPc[s] \in {"ledger", "up"}
Seeding(s) == bootPc[s] = "seed" /\ done[s] # {}
InTransaction(s) == Migrating(s) \/ Seeding(s) \/ bootPc[s] = "grant"

\* 001-init creates every table that the seeder uses.
HasTables == 1 \in tables

Remaining(s, all) == all \ done[s]
IsNext(i, S) == i \in S /\ \A j \in S : i <= j

\* The transaction of s ends, committed or rolled back, and s goes on at pc.
Leave(s, pc) ==
  /\ bootPc' = [bootPc EXCEPT ![s] = pc]
  /\ done' = [done EXCEPT ![s] = {}]
  /\ tx' = [tx EXCEPT ![s] = {}]

\* An error reaches main().catch, which exits with 1: the shell stops at &&.
fails(s) == Leave(s, "exited") /\ UNCHANGED <<bootDb, bootCounts>>

-----------------------------------------------------------------------------
(* migrateUp.                                                              *)

\* Faulty variant: there is no advisory lock.
lockMigrationsNever(s) ==
  /\ bootPc[s] = "migrate"
  /\ bootPc' = [bootPc EXCEPT ![s] = "ledger"]
  /\ UNCHANGED <<bootDb, done, tx, bootCounts>>

\* pg_advisory_xact_lock waits for the migration of another server.
lockMigrations(s) ==
  /\ bootPc[s] = "migrate" /\ \A o \in Servers : ~Migrating(o)
  /\ bootPc' = [bootPc EXCEPT ![s] = "ledger"]
  /\ UNCHANGED <<bootDb, done, tx, bootCounts>>

\* CREATE TABLE IF NOT EXISTS schema_migrations, SELECT name.
readLedger(s) ==
  /\ bootPc[s] = "ledger"
  /\ bootPc' = [bootPc EXCEPT ![s] = "up"]
  /\ done' = [done EXCEPT ![s] = ledger]
  /\ UNCHANGED <<bootDb, tx, bootCounts>>

\* Faulty variant: m.up runs outside the transaction t.
applyMigrationAtOnce(s) ==
  /\ bootPc[s] = "up"
  /\ \E m \in MIGRATIONS :
       /\ IsNext(m, Remaining(s, MIGRATIONS))
       /\ IF m \in tables THEN fails(s)
          ELSE /\ done' = [done EXCEPT ![s] = @ \cup {m}]
               /\ tx' = [tx EXCEPT ![s] = @ \cup {m}]
               /\ tables' = tables \cup {m}
               /\ UNCHANGED <<ledger, seedRows, account, bootPc, bootCounts>>

\* One round of the loop.  m.up has no IF NOT EXISTS: it fails when its tables are
\* there, and waits for a transaction that is creating them.
applyMigration(s) ==
  /\ bootPc[s] = "up"
  /\ \E m \in MIGRATIONS :
       /\ IsNext(m, Remaining(s, MIGRATIONS))
       /\ \A o \in Servers : Migrating(o) => m \notin tx[o]
       /\ IF m \in tables \cup ledger THEN fails(s)
          ELSE /\ done' = [done EXCEPT ![s] = @ \cup {m}]
               /\ tx' = [tx EXCEPT ![s] = @ \cup {m}]
               /\ UNCHANGED <<bootDb, bootPc, bootCounts>>

commitMigrations(s) ==
  /\ bootPc[s] = "up" /\ Remaining(s, MIGRATIONS) = {}
  /\ tables' = tables \cup tx[s] /\ ledger' = ledger \cup tx[s]
  /\ Leave(s, "count")
  /\ UNCHANGED <<seedRows, account, bootCounts>>

\* migrateDownLast, one transaction under the same lock; DROP TABLE also waits for
\* whoever uses the tables.  Which entry is the last is left open: applied_at is the
\* time at which its transaction began, before the wait for the lock.
migrateDownLast ==
  /\ downs < MaxDowns /\ \A s \in Servers : ~InTransaction(s)
  /\ \E m \in ledger :
       /\ tables' = tables \ {m} /\ ledger' = ledger \ {m}
       /\ IF m = 1 THEN seedRows' = {} /\ account' = NoAccount
                   ELSE UNCHANGED <<seedRows, account>>
  /\ downs' = downs + 1
  /\ UNCHANGED <<bootPc, done, tx, crashes, edits>>

-----------------------------------------------------------------------------
(* scripts/seed.ts and seed.service.ts.                                    *)

\* The script counts rows before and after; a missing table is an error.
rowCounts(s) ==
  /\ bootPc[s] \in {"count", "recount"}
  /\ IF HasTables
     THEN Leave(s, IF bootPc[s] = "count" THEN "seed" ELSE "start")
          /\ UNCHANGED <<bootDb, bootCounts>>
     ELSE fails(s)

\* findOrCreate of the next row: found, or inserted.  The unique index makes an
\* insert wait for the transaction of another that has inserted the same row.
findOrCreate(s) ==
  /\ bootPc[s] = "seed"
  /\ \E r \in SeedRows :
       /\ IsNext(r, Remaining(s, SeedRows))
       /\ IF ~HasTables THEN fails(s)
          ELSE /\ r \in seedRows \/ \A o \in Servers : Seeding(o) => r \notin tx[o]
               /\ done' = [done EXCEPT ![s] = @ \cup {r}]
               /\ tx' = [tx EXCEPT ![s] = IF r \in seedRows THEN @ ELSE @ \cup {r}]
               /\ UNCHANGED <<bootDb, bootPc, bootCounts>>

commitSeed(s) ==
  /\ bootPc[s] = "seed" /\ Remaining(s, SeedRows) = {}
  /\ seedRows' = seedRows \cup tx[s]
  /\ Leave(s, "find")
  /\ UNCHANGED <<tables, ledger, account, bootCounts>>

\* Faulty variant: an existing account is an error.
seedAdminUserOnce(s) ==
  /\ bootPc[s] = "find"
  /\ IF HasTables /\ account = NoAccount
     THEN Leave(s, "create") /\ UNCHANGED <<bootDb, bootCounts>>
     ELSE fails(s)

\* User.findOne, outside any transaction, then the slow hash of the password.
seedAdminUser(s) ==
  /\ bootPc[s] = "find"
  /\ IF HasTables
     THEN Leave(s, IF account = NoAccount THEN "create" ELSE "recount")
          /\ UNCHANGED <<bootDb, bootCounts>>
     ELSE fails(s)

\* Faulty variant: the insert overwrites the row that is there.
createAdminUpserts(s) ==
  /\ bootPc[s] = "create" /\ \A o \in Servers : bootPc[o] # "grant"
  /\ IF HasTables THEN Leave(s, "grant") /\ UNCHANGED <<bootDb, bootCounts>>
                  ELSE fails(s)

\* Faulty variant: the account is created outside the transaction t.
createAdminAtOnce(s) ==
  /\ bootPc[s] = "create" /\ HasTables
  /\ IF account = NoAccount
     THEN Leave(s, "grant") /\ account' = [SeededAccount EXCEPT !.admin = FALSE]
     ELSE Leave(s, "recount") /\ UNCHANGED account
  /\ UNCHANGED <<tables, ledger, seedRows, bootCounts>>

\* User.create: users_email_uq waits for the transaction of another seeder, and a
\* UniqueConstraintError means 'exists'.
createAdmin(s) ==
  /\ bootPc[s] = "create" /\ \A o \in Servers : bootPc[o] # "grant"
  /\ IF HasTables
     THEN Leave(s, IF account = NoAccount THEN "grant" ELSE "recount")
          /\ UNCHANGED <<bootDb, bootCounts>>
     ELSE fails(s)

\* Role.findOne, which throws without the rows of seedRolesAndPermissions,
\* UserRole.create and the commit of the account.
grantAdmin(s) ==
  /\ bootPc[s] = "grant"
  /\ IF SeedRows \subseteq seedRows
     THEN /\ account' = SeededAccount
          /\ Leave(s, "recount")
          /\ UNCHANGED <<tables, ledger, seedRows, bootCounts>>
     ELSE fails(s)

-----------------------------------------------------------------------------
(* index.ts, the container, and what happens to both.                      *)

\* authenticate (which only needs a database), the first purge, whose errors are
\* logged, and app.listen.
listen(s) ==
  /\ bootPc[s] = "start" /\ Leave(s, "listening")
  /\ UNCHANGED <<bootDb, bootCounts>>

\* SIGTERM or SIGINT; the container has been stopped on purpose and stays so.
shutdown(s) ==
  /\ bootPc[s] = "listening" /\ Leave(s, "stopped")
  /\ UNCHANGED <<bootDb, bootCounts>>

\* restart: unless-stopped.
restart(s) ==
  /\ bootPc[s] = "exited" /\ Leave(s, "migrate")
  /\ UNCHANGED <<bootDb, bootCounts>>

crash(s) ==
  /\ bootPc[s] \notin {"exited", "stopped"} /\ crashes < MaxCrashes
  /\ crashes' = crashes + 1
  /\ Leave(s, "exited")
  /\ UNCHANGED <<bootDb, downs, edits>>

\* What people do through a server that listens: they give the seeded account another
\* password, demote it, or let it go (deleted, or with another email); and when it is
\* gone anybody may register its email, once no seeder's insert of it is open.
editAccount ==
  /\ \E s \in Servers : bootPc[s] = "listening"
  /\ HasTables /\ edits < MaxEdits
  /\ IF account # NoAccount
     THEN account' \in {[account EXCEPT !.password = "changed"],
                        [account EXCEPT !.admin = FALSE], NoAccount}
     ELSE /\ \A s \in Servers : bootPc[s] # "grant"
          /\ account' = [password |-> "changed", admin |-> FALSE]
  /\ edits' = edits + 1
  /\ UNCHANGED <<tables, ledger, seedRows, bootPc, done, tx, crashes, downs>>

migrate(s) == lockMigrations(s) \/ readLedger(s) \/ applyMigration(s) \/ commitMigrations(s)
seed(s) == \/ rowCounts(s) \/ findOrCreate(s) \/ commitSeed(s)
           \/ seedAdminUser(s) \/ createAdmin(s) \/ grantAdmin(s)
Boots(s) == migrate(s) \/ seed(s) \/ listen(s) \/ restart(s)

BootNext ==
  \/ \E s \in Servers : Boots(s) \/ shutdown(s) \/ crash(s)
  \/ migrateDownLast
  \/ editAccount

BootSpec == BootInit /\ [][BootNext]_bootVars

-----------------------------------------------------------------------------
(* Properties.                                                             *)

\* The ledger names exactly the migrations whose tables exist, whoever crashes in
\* between: "Applies all pending migrations in ONE transaction" (migrate.ts).
LedgerMatchesSchema == ledger = tables

\* Servers that start at once do not make one another fail ("safe for parallel
\* boots"): a server has exited only if something crashed or was reverted.
ParallelBootsSucceed ==
  (\E s \in Servers : bootPc[s] = "exited") => crashes + downs > 0

\* Whoever listens finds the whole schema, every seeded row and, unless people have
\* changed it, an account that really is an administrator; a migration that was
\* reverted since is the one exception.
ListeningIsReady ==
  (\E s \in Servers : bootPc[s] = "listening") /\ downs = 0 =>
     /\ tables = MIGRATIONS /\ seedRows = SeedRows
     /\ edits = 0 => account = SeededAccount

\* The seeder never gives an existing account its password back, however long it has
\* hashed since it looked ("never overwrites a password", seed.service.ts).
SeedNeverOverwrites ==
  [][account.password = "changed" => account' = NoAccount \/ account'.password = "changed"]_bootVars
=============================================================================
