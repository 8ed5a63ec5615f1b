-------------------------- MODULE ServerParts_proofs --------------------------
(***************************************************************************)
(* Proofs about the parts of the server that share no state: Boot, for any *)
(* number of servers, migrations, seeded rows, crashes, reverted           *)
(* migrations and changes of the account; Pool, for any number of          *)
(* connections and of requests; RateLimit, for any limits and any finite   *)
(* set of attempts.                                                        *)
(***************************************************************************)
EXTENDS Boot, Pool, RateLimit, TLAPS, SequenceTheorems, FiniteSetTheorems

-----------------------------------------------------------------------------
(* The start of the servers.                                               *)
Migrated == {"count", "seed", "find", "create", "grant", "recount", "start", "listening"}
Seeded == {"find", "create", "grant", "recount", "start", "listening"}
Ready == {"recount", "start", "listening"}

\* One server migrates, from the ledger as it is; one creates the account, which is not
\* there; a transaction writes what belongs to it.
Transactions ==
  /\ \A s, o \in Servers : Migrating(s) /\ Migrating(o) => s = o
  /\ \A s, o \in Servers : bootPc[s] = "grant" /\ bootPc[o] = "grant" => s = o
  /\ \A s \in Servers :
       /\ bootPc[s] \in {"migrate", "ledger"} => tx[s] = {}
       /\ bootPc[s] = "up" => /\ done[s] = ledger \cup tx[s]
                              /\ tx[s] \subseteq MIGRATIONS
       /\ bootPc[s] = "seed" => tx[s] \subseteq SeedRows
       /\ bootPc[s] = "grant" => account = NoAccount

\* What a server has done stays done, as long as no migration is reverted and, for the
\* account, people leave it alone.
Stage(s) ==
  /\ bootPc[s] \in Migrated => tables = MIGRATIONS
  /\ bootPc[s] = "seed" => done[s] \subseteq seedRows \cup tx[s]
  /\ bootPc[s] \in Seeded => seedRows = SeedRows
  /\ bootPc[s] \in Ready /\ edits = 0 => account = SeededAccount
  /\ bootPc[s] = "exited" => crashes > 0

\* The inductive invariant.  LedgerMatchesSchema needs the exclusion of migrations, the
\* other properties need the stages too.
BootInv ==
  /\ BootTypeOK /\ LedgerMatchesSchema /\ Transactions
  /\ edits = 0 => account \in {NoAccount, SeededAccount}
  /\ downs = 0 => \A s \in Servers : Stage(s)

-----------------------------------------------------------------------------
\* A server that goes on at p, with the database as it is, keeps the invariant if p is a
\* stage that it has reached.
LEMMA LeaveKeeps ==
  ASSUME BootInv, NEW s \in Servers, NEW p \in BootPcs \ {"ledger", "up"},
         Leave(s, p), UNCHANGED <<bootDb, downs, edits>>,
         crashes' \in 0 .. MaxCrashes, crashes' >= crashes,
         p = "grant" => account = NoAccount /\ \A o \in Servers : bootPc[o] # "grant",
         downs = 0 => /\ p \in Migrated => tables = MIGRATIONS
                      /\ p \in Seeded => seedRows = SeedRows
                      /\ p \in Ready /\ edits = 0 => account = SeededAccount
                      /\ p = "exited" => crashes' > 0
  PROVE  BootInv'
<1>1. /\ bootPc' \in [Servers -> BootPcs] /\ bootPc'[s] = p
      /\ done'[s] = {} /\ tx'[s] = {}
      /\ \A o \in Servers \ {s} : bootPc'[o] = bootPc[o] /\ done'[o] = done[o] /\ tx'[o] = tx[o]
  BY DEF Leave, BootInv, BootTypeOK
<1>2. BootTypeOK'
  BY <1>1 DEF Leave, BootInv, BootTypeOK, bootDb
<1>3. LedgerMatchesSchema'
  BY DEF BootInv, LedgerMatchesSchema, bootDb
<1>4. Transactions'
  BY <1>1 DEF BootInv, Transactions, Migrating, bootDb
<1>5. (edits = 0 => account \in {NoAccount, SeededAccount})'
  BY DEF BootInv, bootDb, NoAccount, SeededAccount
<1>6. ASSUME downs' = 0, NEW o \in Servers PROVE Stage(o)'
  <2>1. CASE o = s
    BY <1>1, <1>6, <2>1 DEF Stage, bootDb, SeededAccount, MIGRATIONS, SeedRows
  <2>2. CASE o # s
    <3>1. Stage(o)
      BY <1>6 DEF BootInv
    <3>2. crashes > 0 => crashes' > 0
      BY DEF BootInv, BootTypeOK
    <3> QED
      BY <1>1, <2>2, <3>1, <3>2 DEF Stage, bootDb, SeededAccount, MIGRATIONS, SeedRows
  <2> QED
    BY <2>1, <2>2
<1> QED
  BY <1>2, <1>3, <1>4, <1>5, <1>6 DEF BootInv

\* An error keeps the invariant when something has crashed or been reverted before.
LEMMA FailsKeeps ==
  ASSUME BootInv, NEW s \in Servers, fails(s), downs = 0 => crashes > 0
  PROVE  BootInv'
<1>1. /\ Leave(s, "exited") /\ UNCHANGED <<bootDb, downs, edits>> /\ crashes' = crashes
  BY DEF fails, bootCounts
<1>2. crashes' \in 0 .. MaxCrashes /\ crashes' >= crashes
  BY <1>1 DEF BootInv, BootTypeOK
<1>3. "exited" \in BootPcs \ {"ledger", "up"}
  BY DEF BootPcs
<1> QED
  BY <1>1, <1>2, <1>3, LeaveKeeps DEF Migrated, Seeded, Ready

-----------------------------------------------------------------------------
(* migrateUp and migrateDownLast.                                          *)

LEMMA MigrateKeeps ==
  ASSUME BootInv, NEW s \in Servers, migrate(s)
  PROVE  BootInv'
<1>1. CASE lockMigrations(s)
  BY <1>1 DEF lockMigrations, BootInv, BootTypeOK, BootPcs, LedgerMatchesSchema, Transactions,
     Migrating, Stage, Migrated, Seeded, Ready, bootDb, bootCounts, NoAccount,
     SeededAccount, MIGRATIONS, SeedRows
<1>2. CASE readLedger(s)
  BY <1>2 DEF readLedger, BootInv, BootTypeOK, BootPcs, LedgerMatchesSchema, Transactions,
     Migrating, Stage, Migrated, Seeded, Ready, bootDb, bootCounts, NoAccount,
     SeededAccount, MIGRATIONS, SeedRows
<1>3. CASE applyMigration(s)
  <2>1. PICK m \in MIGRATIONS :
          /\ m \notin done[s]
          /\ IF m \in tables \cup ledger THEN fails(s)
             ELSE /\ done' = [done EXCEPT ![s] = @ \cup {m}]
                  /\ tx' = [tx EXCEPT ![s] = @ \cup {m}]
                  /\ UNCHANGED <<bootDb, bootPc, bootCounts>>
    BY <1>3 DEF applyMigration, IsNext, Remaining
  <2>2. bootPc[s] = "up"
    BY <1>3 DEF applyMigration
  <2>3. m \notin tables \cup ledger
    BY <2>1, <2>2 DEF BootInv, Transactions, LedgerMatchesSchema
  <2>4. /\ done' = [done EXCEPT ![s] = @ \cup {m}]
        /\ tx' = [tx EXCEPT ![s] = @ \cup {m}]
        /\ UNCHANGED <<bootDb, bootPc, bootCounts>>
    BY <2>1, <2>3
  <2>5. BootTypeOK'
    BY <2>4 DEF BootInv, BootTypeOK, bootDb, bootCounts
  <2> QED
    BY <2>2, <2>4, <2>5 DEF BootInv, BootTypeOK, LedgerMatchesSchema, Transactions, Migrating,
       Stage, Migrated, Seeded, Ready, bootDb, bootCounts, NoAccount, SeededAccount,
       MIGRATIONS, SeedRows
<1>4. CASE commitMigrations(s)
  <2>1. /\ bootPc[s] = "up" /\ tables' = tables \cup tx[s] /\ ledger' = ledger \cup tx[s]
        /\ Leave(s, "count") /\ UNCHANGED <<seedRows, account, bootCounts>>
        /\ MIGRATIONS \subseteq done[s]
    BY <1>4 DEF commitMigrations, Remaining
  <2>2. tables' = MIGRATIONS /\ ledger' = MIGRATIONS
    BY <2>1 DEF BootInv, BootTypeOK, Transactions, LedgerMatchesSchema
  <2>3. /\ bootPc'[s] = "count" /\ done'[s] = {} /\ tx'[s] = {}
        /\ \A o \in Servers \ {s} : /\ bootPc'[o] = bootPc[o]
                                    /\ done'[o] = done[o] /\ tx'[o] = tx[o]
    BY <2>1 DEF Leave, BootInv, BootTypeOK
  <2>4. BootTypeOK'
    BY <2>1, <2>2 DEF Leave, BootInv, BootTypeOK, BootPcs, bootCounts
  <2>5. \A o \in Servers \ {s} : bootPc[o] # "up"
    BY <2>1 DEF BootInv, Transactions, Migrating
  <2>6. Transactions'
    BY <2>1, <2>3, <2>5 DEF BootInv, Transactions, Migrating
  <2> QED
    BY <2>1, <2>2, <2>3, <2>4, <2>6 DEF BootInv, LedgerMatchesSchema, Stage, Migrated, Seeded,
       Ready, bootCounts, NoAccount, SeededAccount, MIGRATIONS, SeedRows
<1> QED
  BY <1>1, <1>2, <1>3, <1>4 DEF migrate

LEMMA MigrateDownKeeps ==
  ASSUME BootInv, migrateDownLast
  PROVE  BootInv'
<1>1. PICK m \in ledger :
        /\ tables' = tables \ {m} /\ ledger' = ledger \ {m}
        /\ \/ seedRows' = {} /\ account' = NoAccount
           \/ UNCHANGED <<seedRows, account>>
  BY DEF migrateDownLast
<1>2. /\ downs' = downs + 1 /\ downs < MaxDowns
      /\ UNCHANGED <<bootPc, done, tx, crashes, edits>>
      /\ \A s \in Servers : bootPc[s] \notin {"up", "grant"}
  BY DEF migrateDownLast, InTransaction, Migrating
<1>3. downs' \in 0 .. MaxDowns /\ downs' # 0
  BY <1>2, BootAssumption DEF BootInv, BootTypeOK
<1>a. NoAccount \in Accounts
  BY DEF NoAccount, Accounts
<1>4. BootTypeOK'
  BY <1>1, <1>2, <1>3, <1>a DEF BootInv, BootTypeOK
<1>5. Transactions'
  BY <1>1, <1>2 DEF BootInv, Transactions, Migrating
<1> QED
  BY <1>1, <1>2, <1>3, <1>4, <1>5 DEF BootInv, LedgerMatchesSchema, NoAccount, SeededAccount

-----------------------------------------------------------------------------
(* The seeder.                                                             *)

\* A server past its migration finds the tables, unless something was reverted.
LEMMA MigratedHasTables ==
  ASSUME BootInv, NEW s \in Servers, bootPc[s] \in Migrated, downs = 0
  PROVE  HasTables
BY BootAssumption DEF BootInv, Stage, HasTables, MIGRATIONS

LEMMA SeedKeeps ==
  ASSUME BootInv, NEW s \in Servers, seed(s)
  PROVE  BootInv'
<1>1. CASE fails(s) /\ ~HasTables /\ bootPc[s] \in Migrated
  BY <1>1, MigratedHasTables, FailsKeeps
<1>a. crashes \in 0 .. MaxCrashes /\ crashes >= crashes
  BY DEF BootInv, BootTypeOK
<1>b. bootPc[s] \in Migrated
  BY DEF seed, rowCounts, findOrCreate, commitSeed, seedAdminUser, createAdmin, grantAdmin,
     Migrated
<1>c. downs = 0 => Stage(s)
  BY DEF BootInv
<1>2. CASE rowCounts(s) /\ HasTables
  <2>1. PICK p \in {"seed", "start"} :
          /\ Leave(s, p) /\ UNCHANGED <<bootDb, downs, edits>> /\ crashes' = crashes
          /\ p = "start" => bootPc[s] = "recount"
    BY <1>2 DEF rowCounts, bootCounts
  <2>2. p \in BootPcs \ {"ledger", "up"}
    BY DEF BootPcs
  <2> QED
    BY <2>1, <2>2, <1>a, <1>b, <1>c, LeaveKeeps DEF Stage, Migrated, Seeded, Ready
<1>3. CASE findOrCreate(s) /\ HasTables
  <2>1. PICK r \in SeedRows :
          /\ done' = [done EXCEPT ![s] = @ \cup {r}]
          /\ tx' = [tx EXCEPT ![s] = IF r \in seedRows THEN @ ELSE @ \cup {r}]
          /\ UNCHANGED <<bootDb, bootPc, bootCounts>>
    BY <1>3 DEF findOrCreate
  <2>2. bootPc[s] = "seed"
    BY <1>3 DEF findOrCreate
  <2>3. /\ done'[s] = done[s] \cup {r}
        /\ tx'[s] = IF r \in seedRows THEN tx[s] ELSE tx[s] \cup {r}
        /\ \A o \in Servers \ {s} : done'[o] = done[o] /\ tx'[o] = tx[o]
    BY <2>1 DEF BootInv, BootTypeOK
  <2>4. BootTypeOK'
    BY <2>1 DEF BootInv, BootTypeOK, bootDb, bootCounts
  <2>5. Transactions'
    BY <2>1, <2>2, <2>3 DEF BootInv, Transactions, Migrating, bootDb
  <2>6. ASSUME downs' = 0, NEW o \in Servers PROVE Stage(o)'
    BY <2>1, <2>2, <2>3, <2>6 DEF BootInv, Stage, Migrated, Seeded, Ready, bootDb, bootCounts,
       SeededAccount, MIGRATIONS, SeedRows
  <2> QED
    BY <2>1, <2>4, <2>5, <2>6 DEF BootInv, LedgerMatchesSchema, bootDb, bootCounts, NoAccount,
       SeededAccount
<1>4. CASE commitSeed(s)
  <2>1. /\ bootPc[s] = "seed" /\ seedRows' = seedRows \cup tx[s]
        /\ Leave(s, "find") /\ UNCHANGED <<tables, ledger, account, bootCounts>>
        /\ SeedRows \subseteq done[s]
    BY <1>4 DEF commitSeed, Remaining
  <2>2. /\ seedRows' \subseteq SeedRows
        /\ downs = 0 => seedRows' = SeedRows
    BY <2>1, <1>c DEF BootInv, BootTypeOK, Transactions, Stage
  <2>3. /\ bootPc'[s] = "find" /\ done'[s] = {} /\ tx'[s] = {}
        /\ \A o \in Servers \ {s} : /\ bootPc'[o] = bootPc[o]
                                    /\ done'[o] = done[o] /\ tx'[o] = tx[o]
    BY <2>1 DEF Leave, BootInv, BootTypeOK
  <2>4. BootTypeOK'
    BY <2>1, <2>2 DEF Leave, BootInv, BootTypeOK, BootPcs, bootCounts, SeedRows, MIGRATIONS
  <2>5. Transactions'
    BY <2>1, <2>3 DEF BootInv, Transactions, Migrating
  <2>6. ASSUME downs' = 0, NEW o \in Servers PROVE Stage(o)'
    <3>1. Stage(o) /\ seedRows' = SeedRows
      BY <2>1, <2>2, <2>6 DEF BootInv, bootCounts
    <3> QED
      BY <2>1, <2>3, <3>1 DEF Stage, Migrated, Seeded, Ready, bootCounts, SeededAccount,
         MIGRATIONS, SeedRows
  <2> QED
    BY <2>1, <2>4, <2>5, <2>6 DEF BootInv, LedgerMatchesSchema, bootCounts, NoAccount,
       SeededAccount
<1>5. CASE seedAdminUser(s) /\ HasTables
  <2>1. PICK p \in {"create", "recount"} :
          /\ Leave(s, p) /\ UNCHANGED <<bootDb, downs, edits>> /\ crashes' = crashes
          /\ p = "recount" => account # NoAccount
    BY <1>5 DEF seedAdminUser, bootCounts
  <2>2. p \in BootPcs \ {"ledger", "up"} /\ bootPc[s] = "find"
    BY <1>5 DEF BootPcs, seedAdminUser
  <2>3. p = "recount" /\ edits = 0 => account = SeededAccount
    BY <2>1 DEF BootInv
  <2> QED
    BY <2>1, <2>2, <2>3, <1>a, <1>b, <1>c, LeaveKeeps DEF Stage, Migrated, Seeded, Ready
<1>6. CASE createAdmin(s) /\ HasTables
  <2>1. PICK p \in {"grant", "recount"} :
          /\ Leave(s, p) /\ UNCHANGED <<bootDb, downs, edits>> /\ crashes' = crashes
          /\ IF p = "recount" THEN account # NoAccount ELSE account = NoAccount
    BY <1>6 DEF createAdmin, bootCounts
  <2>2. /\ p \in BootPcs \ {"ledger", "up"} /\ bootPc[s] = "create"
        /\ \A o \in Servers : bootPc[o] # "grant"
    BY <1>6 DEF BootPcs, createAdmin
  <2>3. p = "recount" /\ edits = 0 => account = SeededAccount
    BY <2>1 DEF BootInv
  <2> QED
    BY <2>1, <2>2, <2>3, <1>a, <1>b, <1>c, LeaveKeeps DEF Stage, Migrated, Seeded, Ready
<1>7. CASE grantAdmin(s) /\ SeedRows \subseteq seedRows
  <2>1. /\ bootPc[s] = "grant" /\ account' = SeededAccount
        /\ Leave(s, "recount") /\ UNCHANGED <<tables, ledger, seedRows, bootCounts>>
    BY <1>7 DEF grantAdmin
  <2>2. /\ bootPc'[s] = "recount" /\ done'[s] = {} /\ tx'[s] = {}
        /\ \A o \in Servers \ {s} : /\ bootPc'[o] = bootPc[o]
                                    /\ done'[o] = done[o] /\ tx'[o] = tx[o]
    BY <2>1 DEF Leave, BootInv, BootTypeOK
  <2>3. SeededAccount \in Accounts
    BY DEF SeededAccount, Accounts
  <2>4. BootTypeOK'
    BY <2>1, <2>3 DEF Leave, BootInv, BootTypeOK, BootPcs, bootCounts, Accounts, SeededAccount,
       SeedRows, MIGRATIONS
  <2>5. \A o \in Servers \ {s} : bootPc[o] # "grant"
    BY <2>1 DEF BootInv, Transactions
  <2>6. Transactions'
    BY <2>1, <2>2, <2>5 DEF BootInv, Transactions, Migrating
  <2>7. ASSUME downs' = 0, NEW o \in Servers PROVE Stage(o)'
    <3>1. Stage(o) /\ Stage(s)
      BY <2>1, <2>7 DEF BootInv, bootCounts
    <3> QED
      BY <2>1, <2>2, <3>1 DEF Stage, Migrated, Seeded, Ready, bootCounts, SeededAccount,
         MIGRATIONS, SeedRows
  <2> QED
    BY <2>1, <2>4, <2>6, <2>7 DEF BootInv, LedgerMatchesSchema, bootCounts, NoAccount,
       SeededAccount
<1>8. CASE grantAdmin(s) /\ ~(SeedRows \subseteq seedRows)
  <2>1. bootPc[s] = "grant" /\ fails(s)
    BY <1>8 DEF grantAdmin
  <2>2. downs # 0
    BY <1>8, <2>1, <1>c DEF Stage, Seeded
  <2> QED
    BY <2>1, <2>2, FailsKeeps
<1> QED
  BY <1>1, <1>2, <1>3, <1>4, <1>5, <1>6, <1>7, <1>8, <1>b
     DEF seed, rowCounts, findOrCreate, seedAdminUser, createAdmin

-----------------------------------------------------------------------------
(* The rest, and the theorems.                                             *)

LEMMA ListenKeeps ==
  ASSUME BootInv, NEW s \in Servers, listen(s) \/ shutdown(s) \/ restart(s) \/ crash(s)
  PROVE  BootInv'
<1>1. PICK p \in {"listening", "stopped", "migrate", "exited"} :
        /\ Leave(s, p) /\ UNCHANGED <<bootDb, downs, edits>>
        /\ p = "listening" => bootPc[s] = "start"
        /\ \/ crashes' = crashes /\ p # "exited"
           \/ crashes < MaxCrashes /\ crashes' = crashes + 1
  BY DEF listen, shutdown, restart, crash, bootCounts
<1>2. p \in BootPcs \ {"ledger", "up"}
  BY DEF BootPcs
<1>3. crashes' \in 0 .. MaxCrashes /\ crashes' >= crashes /\ (p = "exited" => crashes' > 0)
  BY <1>1, BootAssumption DEF BootInv, BootTypeOK
<1>4. downs = 0 => Stage(s)
  BY DEF BootInv
<1> QED
  BY <1>1, <1>2, <1>3, <1>4, LeaveKeeps DEF Stage, Migrated, Seeded, Ready

LEMMA EditKeeps ==
  ASSUME BootInv, editAccount
  PROVE  BootInv'
<1>1. /\ edits < MaxEdits /\ edits' = edits + 1
      /\ UNCHANGED <<tables, ledger, seedRows, bootPc, done, tx, crashes, downs>>
      /\ account = NoAccount => \A s \in Servers : bootPc[s] # "grant"
  BY DEF editAccount
<1>2. edits' \in 0 .. MaxEdits /\ edits' # 0
  BY <1>1, BootAssumption DEF BootInv, BootTypeOK
<1>3. account' \in Accounts
  <2>1. /\ [account EXCEPT !.password = "changed"] \in Accounts
        /\ [account EXCEPT !.admin = FALSE] \in Accounts
        /\ NoAccount \in Accounts
        /\ [password |-> "changed", admin |-> FALSE] \in Accounts
    BY DEF BootInv, BootTypeOK, Accounts, NoAccount
  <2> QED
    BY <2>1 DEF editAccount
<1>4. BootTypeOK'
  BY <1>1, <1>2, <1>3 DEF BootInv, BootTypeOK
<1>5. \A s \in Servers : bootPc[s] # "grant"
  BY <1>1 DEF BootInv, Transactions
<1>6. Transactions'
  BY <1>1, <1>5 DEF BootInv, Transactions, Migrating
<1> QED
  BY <1>1, <1>2, <1>4, <1>6 DEF BootInv, LedgerMatchesSchema, Stage, Migrated, Seeded, Ready,
     MIGRATIONS, SeedRows

LEMMA BootInitHolds == BootInit => BootInv
<1> SUFFICES ASSUME BootInit PROVE BootInv
  OBVIOUS
<1>1. NoAccount \in Accounts
  BY DEF NoAccount, Accounts
<1>2. BootTypeOK
  BY <1>1, BootAssumption DEF BootInit, BootTypeOK, BootPcs
<1> QED
  BY <1>2 DEF BootInit, BootInv, LedgerMatchesSchema, Transactions, Migrating, Stage, Migrated,
     Seeded, Ready

LEMMA BootNextKeeps == BootInv /\ [BootNext]_bootVars => BootInv'
<1> SUFFICES ASSUME BootInv, [BootNext]_bootVars PROVE BootInv'
  OBVIOUS
<1>1. CASE UNCHANGED bootVars
  BY <1>1 DEF bootVars, bootDb, bootCounts, BootInv, BootTypeOK, LedgerMatchesSchema,
     Transactions, Migrating, Stage
<1>2. CASE \E s \in Servers : Boots(s) \/ shutdown(s) \/ crash(s)
  BY <1>2, MigrateKeeps, SeedKeeps, ListenKeeps DEF Boots
<1> QED
  BY <1>1, <1>2, MigrateDownKeeps, EditKeeps DEF BootNext

THEOREM BootInvariance == BootSpec => []BootInv
BY BootInitHolds, BootNextKeeps, PTL DEF BootSpec

\* The tables of the database are those that the ledger names, whoever crashes when
\* (migrateUp, migrateDownLast).
THEOREM LedgerMatchesSchemaAlways == BootSpec => [](BootTypeOK /\ LedgerMatchesSchema)
<1>1. BootInv => BootTypeOK /\ LedgerMatchesSchema
  BY DEF BootInv
<1> QED
  BY <1>1, BootInvariance, PTL

\* Servers that start together never make one another fail: without a crash or a
\* reverted migration none of them exits (migrate.ts, seed.service.ts).
THEOREM ParallelBootsSucceedAlways == BootSpec => []ParallelBootsSucceed
<1>1. BootInv => ParallelBootsSucceed
  BY DEF BootInv, ParallelBootsSucceed, BootTypeOK, Stage
<1> QED
  BY <1>1, BootInvariance, PTL

\* Whoever listens finds the schema, the seeded rows and an administrator (index.ts after
\* migrate and seed).
THEOREM ListeningIsReadyAlways == BootSpec => []ListeningIsReady
<1>1. BootInv => ListeningIsReady
  BY DEF BootInv, ListeningIsReady, Stage, Migrated, Seeded, Ready
<1> QED
  BY <1>1, BootInvariance, PTL

\* The seeder never overwrites a password (seedAdminUser).
THEOREM SeedNeverOverwritesAlways == BootSpec => SeedNeverOverwrites
<1> DEFINE Kept == account.password = "changed" =>
                     account' = NoAccount \/ account'.password = "changed"
<1>1. BootInv /\ [BootNext]_bootVars => [Kept]_bootVars
  <2> SUFFICES ASSUME BootInv, BootNext, account.password = "changed"
               PROVE  account' = NoAccount \/ account'.password = "changed"
    BY DEF bootVars
  <2>1. account # NoAccount
    BY DEF NoAccount
  <2>2. CASE \E s \in Servers : Boots(s) \/ shutdown(s) \/ crash(s)
    <3>1. PICK s \in Servers : Boots(s) \/ shutdown(s) \/ crash(s)
      BY <2>2
    <3>2. bootPc[s] # "grant"
      BY <2>1 DEF BootInv, Transactions
    <3>3. UNCHANGED account
      BY <3>1, <3>2 DEF Boots, migrate, seed, lockMigrations, readLedger, applyMigration,
         commitMigrations, rowCounts, findOrCreate, commitSeed, seedAdminUser, createAdmin,
         grantAdmin, listen, shutdown, restart, crash, fails, bootDb
    <3> QED
      BY <3>3
  <2>3. CASE migrateDownLast
    BY <2>3 DEF migrateDownLast
  <2>4. CASE editAccount
    <3>1. account \in [password: {"none", "seeded", "changed"}, admin: BOOLEAN]
      BY DEF BootInv, BootTypeOK, Accounts
    <3> QED
      BY <2>1, <2>4, <3>1 DEF editAccount
  <2> QED
    BY <2>2, <2>3, <2>4 DEF BootNext
<1> QED
  BY <1>1, BootInvariance, PTL DEF BootSpec, SeedNeverOverwrites

-----------------------------------------------------------------------------
(* The connection pool.                                                    *)
Once(q) == \A i, j \in 1 .. Len(q) : q[i] = q[j] => i = j

\* What a request holds where it is: only an assignRoles that reads its keys waits for a
\* connection while it has one; whoever has a lock has a connection.
Sane(r) ==
  /\ Waits(r) => pc[r] \in {"authenticate", "read", "begin", "keys"}
  /\ Waits(r) /\ pc[r] # "keys" => Held(r) = {}
  /\ pc[r] = "idle" => Held(r) = {}
  /\ pc[r] = "begin" /\ ~Waits(r) => Held(r) # {}
  /\ pc[r] \in {"rotating", "guarded", "locked", "keys", "checked"} => Held(r) # {}
  /\ pc[r] = "keys" /\ ~Waits(r) => \E c, d \in Held(r) : c # d
  /\ pc[r] = "keys" => kind[r] = "assignRoles"
  /\ HoldsAdvisoryLock(r) => kind[r] # "rotate"

\* The inductive invariant: OnlyAssignmentStalls needs to know who may wait, and that the
\* advisory lock has one holder.
PoolInv ==
  /\ PoolTypeOK /\ Once(queue)
  /\ \A r \in Clients : Sane(r)
  /\ \A r, o \in Clients : HoldsAdvisoryLock(r) /\ HoldsAdvisoryLock(o) => r = o

-----------------------------------------------------------------------------
(* The queue and the connections.                                          *)

LEMMA AppendWaits ==
  ASSUME NEW q \in Seq(Clients), Once(q), NEW r \in Clients, ~Contains(q, r)
  PROVE  /\ Append(q, r) \in Seq(Clients) /\ Once(Append(q, r))
         /\ \A o \in Clients : Contains(Append(q, r), o) <=> Contains(q, o) \/ o = r
<1>1. /\ Append(q, r) \in Seq(Clients) /\ Len(Append(q, r)) = Len(q) + 1 /\ Len(q) \in Nat
      /\ \A i \in 1 .. Len(q) : Append(q, r)[i] = q[i]
      /\ Append(q, r)[Len(q) + 1] = r
  BY AppendProperties
<1>2. \A i \in 1 .. Len(q) : q[i] # r
  BY DEF Contains
<1>3. 1 .. (Len(q) + 1) = (1 .. Len(q)) \cup {Len(q) + 1}
  BY <1>1
<1>4. Once(Append(q, r))
  <2> SUFFICES ASSUME NEW i \in 1 .. Len(q) + 1, NEW j \in 1 .. Len(q) + 1,
                      Append(q, r)[i] = Append(q, r)[j]
               PROVE  i = j
    BY <1>1 DEF Once
  <2> QED
    BY <1>1, <1>2, <1>3 DEF Once
<1>5. \A o \in Clients : Contains(Append(q, r), o) <=> Contains(q, o) \/ o = r
  BY <1>1, <1>3 DEF Contains
<1> QED
  BY <1>1, <1>4, <1>5

LEMMA TailWaits ==
  ASSUME NEW q \in Seq(Clients), Once(q), q # <<>>
  PROVE  /\ Head(q) \in Clients /\ Tail(q) \in Seq(Clients) /\ Once(Tail(q))
         /\ Contains(q, Head(q))
         /\ \A o \in Clients : Contains(Tail(q), o) <=> Contains(q, o) /\ o # Head(q)
<1>1. /\ Head(q) \in Clients /\ Tail(q) \in Seq(Clients) /\ Len(Tail(q)) = Len(q) - 1
      /\ \A i \in 1 .. Len(q) - 1 : Tail(q)[i] = q[i + 1]
      /\ Len(q) \in Nat \ {0} /\ Head(q) = q[1]
  BY HeadTailProperties, EmptySeq
<1>2. Once(Tail(q))
  BY <1>1 DEF Once
<1>3. Contains(q, Head(q))
  BY <1>1 DEF Contains
<1>4. ASSUME NEW o \in Clients
      PROVE  Contains(Tail(q), o) <=> Contains(q, o) /\ o # Head(q)
  <2>1. ASSUME Contains(Tail(q), o) PROVE Contains(q, o) /\ o # Head(q)
    <3>1. PICK i \in 1 .. Len(q) - 1 : q[i + 1] = o
      BY <1>1, <2>1 DEF Contains
    <3>2. i + 1 \in 1 .. Len(q) /\ i + 1 # 1 /\ 1 \in 1 .. Len(q)
      BY <1>1
    <3> QED
      BY <1>1, <3>1, <3>2 DEF Contains, Once
  <2>2. ASSUME Contains(q, o), o # Head(q) PROVE Contains(Tail(q), o)
    <3>1. PICK i \in 1 .. Len(q) : q[i] = o
      BY <2>2 DEF Contains
    <3>2. i - 1 \in 1 .. Len(q) - 1 /\ (i - 1) + 1 = i
      BY <1>1, <2>2, <3>1
    <3>3. Tail(q)[i - 1] = o
      BY <1>1, <3>1, <3>2
    <3> QED
      BY <1>1, <3>2, <3>3 DEF Contains
  <2> QED
    BY <2>1, <2>2
<1> QED
  BY <1>1, <1>2, <1>3, <1>4

LEMMA RemoveWaits ==
  ASSUME NEW q \in Seq(Clients), Once(q), NEW i \in 1 .. Len(q)
  PROVE  /\ RemoveAt(q, i) \in Seq(Clients) /\ Once(RemoveAt(q, i))
         /\ \A o \in Clients : Contains(RemoveAt(q, i), o) <=> Contains(q, o) /\ o # q[i]
<1> DEFINE n == Len(q)
           a == SubSeq(q, 1, i - 1)
           b == SubSeq(q, i + 1, n)
           t == RemoveAt(q, i)
<1>1. n \in Nat /\ \A j \in 1 .. n : q[j] \in Clients
  BY ElementOfSeq
<1>2. /\ a \in Seq(Clients) /\ Len(a) = i - 1
      /\ \A j \in 1 .. i - 1 : a[j] = q[j]
  <2>1. /\ a \in Seq(Clients) /\ Len(a) = IF 1 <= i - 1 THEN (i - 1) - 1 + 1 ELSE 0
        /\ \A j \in 1 .. (i - 1) - 1 + 1 : a[j] = q[1 + j - 1]
    <3>1. 1 \in Int /\ i - 1 \in Int /\ \A j \in 1 .. i - 1 : q[j] \in Clients
      BY <1>1
    <3> QED
      BY <3>1, SubSeqProperties
  <2> QED
    BY <2>1, <1>1
<1>3. /\ b \in Seq(Clients) /\ Len(b) = n - i
      /\ \A j \in 1 .. n - i : b[j] = q[i + j]
  <2>1. /\ b \in Seq(Clients) /\ Len(b) = IF i + 1 <= n THEN n - (i + 1) + 1 ELSE 0
        /\ \A j \in 1 .. n - (i + 1) + 1 : b[j] = q[i + 1 + j - 1]
    <3>1. i + 1 \in Int /\ n \in Int /\ \A j \in i + 1 .. n : q[j] \in Clients
      BY <1>1
    <3> QED
      BY <3>1, SubSeqProperties
  <2> QED
    BY <2>1, <1>1
<1> HIDE DEF a, b
<1>4. /\ t \in Seq(Clients) /\ Len(t) = n - 1
      /\ \A j \in 1 .. n - 1 : t[j] = IF j < i THEN q[j] ELSE q[j + 1]
  <2>1. t = a \o b
    BY DEF RemoveAt, a, b
  <2>2. /\ a \o b \in Seq(Clients) /\ Len(a \o b) = Len(a) + Len(b)
        /\ \A j \in 1 .. Len(a) + Len(b) :
             (a \o b)[j] = IF j <= Len(a) THEN a[j] ELSE b[j - Len(a)]
    BY <1>2, <1>3, ConcatProperties
  <2>3. Len(a) + Len(b) = n - 1
    BY <1>1, <1>2, <1>3
  <2>4. ASSUME NEW j \in 1 .. n - 1 PROVE (a \o b)[j] = IF j < i THEN q[j] ELSE q[j + 1]
    <3>1. CASE j < i
      BY <3>1, <2>2, <2>3, <1>1, <1>2
    <3>2. CASE ~(j < i)
      <4>1. j - (i - 1) \in 1 .. n - i /\ i + (j - (i - 1)) = j + 1 /\ ~(j <= i - 1)
        BY <3>2, <1>1
      <4>2. (a \o b)[j] = b[j - (i - 1)]
        BY <4>1, <2>2, <2>3, <1>2
      <4>3. b[j - (i - 1)] = q[i + (j - (i - 1))]
        BY <4>1, <1>3
      <4> QED
        BY <3>2, <4>1, <4>2, <4>3
    <3> QED
      BY <3>1, <3>2
  <2> QED
    BY <2>1, <2>2, <2>3, <2>4
<1> HIDE DEF t
<1>5. Once(t)
  BY <1>1, <1>4 DEF Once
<1>6. ASSUME NEW o \in Clients PROVE Contains(t, o) <=> Contains(q, o) /\ o # q[i]
  <2>1. ASSUME Contains(t, o) PROVE Contains(q, o) /\ o # q[i]
    <3>1. PICK j \in 1 .. n - 1 : t[j] = o
      BY <1>4, <2>1 DEF Contains
    <3>2. PICK k \in 1 .. n : q[k] = o /\ k # i
      BY <1>1, <1>4, <3>1
    <3> QED
      BY <3>2 DEF Contains, Once
  <2>2. ASSUME Contains(q, o), o # q[i] PROVE Contains(t, o)
    <3>1. PICK k \in 1 .. n : q[k] = o /\ k # i
      BY <2>2 DEF Contains
    <3>2. PICK j \in 1 .. n - 1 : t[j] = o
      <4>1. CASE k < i
        BY <1>1, <1>4, <3>1, <4>1
      <4>2. CASE k > i
        <5>1. k - 1 \in 1 .. n - 1 /\ ~(k - 1 < i) /\ (k - 1) + 1 = k
          BY <1>1, <4>2
        <5> QED
          BY <1>4, <3>1, <5>1
      <4> QED
        BY <1>1, <3>1, <4>1, <4>2
    <3> QED
      BY <1>4, <3>2 DEF Contains
  <2> QED
    BY <2>1, <2>2
<1> QED
  BY <1>4, <1>5, <1>6 DEF t

LEMMA AnyOfIsOne ==
  ASSUME NEW C, C # {}
  PROVE  AnyOf(C) \in C
BY DEF AnyOf

-----------------------------------------------------------------------------
(* Steps.                                                                  *)

\* A step of r that leaves the others where they are, with what they hold and wait for.
LEMMA StepKeeps ==
  ASSUME PoolInv, NEW r \in Clients, PoolTypeOK', Once(queue)',
         \A o \in Clients \ {r} : /\ pc'[o] = pc[o] /\ kind'[o] = kind[o]
                                  /\ (Waits(o)' <=> Waits(o)) /\ Held(o)' = Held(o),
         Sane(r)',
         HoldsAdvisoryLock(r)' => \A o \in Clients \ {r} : ~HoldsAdvisoryLock(o)
  PROVE  PoolInv'
<1>1. ASSUME NEW o \in Clients \ {r}
      PROVE  Sane(o)' /\ (HoldsAdvisoryLock(o)' <=> HoldsAdvisoryLock(o))
  <2>1. Sane(o)
    BY DEF PoolInv
  <2>2. /\ pc'[o] = pc[o] /\ kind'[o] = kind[o]
        /\ (Waits(o)' <=> Waits(o)) /\ Held(o)' = Held(o)
    OBVIOUS
  <2>3. HoldsAdvisoryLock(o)' <=> HoldsAdvisoryLock(o)
    BY <2>2 DEF HoldsAdvisoryLock, HoldsRow
  <2> QED
    BY <2>1, <2>2, <2>3 DEF Sane
<1>2. \A o \in Clients : Sane(o)'
  BY <1>1
<1>3. \A o, x \in Clients : HoldsAdvisoryLock(o)' /\ HoldsAdvisoryLock(x)' => o = x
  BY <1>1 DEF PoolInv
<1> QED
  BY <1>2, <1>3 DEF PoolInv

\* Asking puts r at the end of the queue; releasing what r has leaves the others what
\* they have.
LEMMA AskKeeps ==
  ASSUME PoolInv, NEW r \in Clients, NEW p \in PoolPcs, Asks(r, p), ~Waits(r)
  PROVE  /\ pc' \in [Clients -> PoolPcs] /\ queue' \in Seq(Clients) /\ Once(queue)'
         /\ pc'[r] = p /\ Waits(r)'
         /\ \A o \in Clients \ {r} : pc'[o] = pc[o] /\ (Waits(o)' <=> Waits(o))
<1>1. pc' = [pc EXCEPT ![r] = p] /\ queue' = Append(queue, r)
  BY DEF Asks
<1>2. queue \in Seq(Clients) /\ Once(queue) /\ pc \in [Clients -> PoolPcs]
  BY DEF PoolInv, PoolTypeOK
<1> QED
  BY <1>1, <1>2, AppendWaits DEF Waits, Once

LEMMA ReleaseKeeps ==
  ASSUME PoolInv, NEW r \in Clients, NEW C \in SUBSET Held(r), Releases(C)
  PROVE  /\ holder' \in [Conns -> Clients \cup {Free}]
         /\ Held(r)' = Held(r) \ C
         /\ \A o \in Clients \ {r} : Held(o)' = Held(o)
BY PoolAssumption DEF Releases, Held, PoolInv, PoolTypeOK

LEMMA RemoveKeeps ==
  ASSUME PoolInv, NEW r \in Clients, NEW i \in 1 .. Len(queue), queue[i] = r,
         queue' = RemoveAt(queue, i)
  PROVE  /\ queue' \in Seq(Clients) /\ Once(queue)' /\ ~Waits(r)'
         /\ \A o \in Clients \ {r} : Waits(o)' <=> Waits(o)
<1>1. queue \in Seq(Clients) /\ Once(queue)
  BY DEF PoolInv, PoolTypeOK
<1> QED
  BY <1>1, RemoveWaits DEF Waits, Once

LEMMA RequestKeeps ==
  ASSUME PoolInv, NEW r \in Clients, NEW k \in Kinds, arrive(r, k)
  PROVE  PoolInv'
<1>1. /\ pc[r] = "idle" /\ kind' = [kind EXCEPT ![r] = k] /\ holder' = holder
      /\ arrived < MaxArrivals /\ arrived' = arrived + 1
  BY DEF arrive
<1>p. PICK p \in {"begin", "authenticate"} : Asks(r, p)
  BY DEF arrive
<1>2. ~Waits(r) /\ Held(r) = {}
  BY <1>1 DEF PoolInv, Sane
<1>3. p \in PoolPcs
  BY DEF PoolPcs
<1>4. /\ pc' \in [Clients -> PoolPcs] /\ queue' \in Seq(Clients) /\ Once(queue)'
      /\ pc'[r] = p /\ Waits(r)'
      /\ \A o \in Clients \ {r} : pc'[o] = pc[o] /\ (Waits(o)' <=> Waits(o))
  BY <1>p, <1>2, <1>3, AskKeeps
<1>5. PoolTypeOK'
  <2>1. arrived' \in 0 .. MaxArrivals
    BY <1>1, PoolAssumption DEF PoolInv, PoolTypeOK
  <2>2. kind' \in [Clients -> Kinds] /\ holder' \in [Conns -> Clients \cup {Free}]
    BY <1>1 DEF PoolInv, PoolTypeOK
  <2> QED
    BY <1>4, <2>1, <2>2 DEF PoolTypeOK
<1>6. \A o \in Clients : Held(o)' = Held(o)
  BY <1>1 DEF Held
<1>7. \A o \in Clients \ {r} : kind'[o] = kind[o]
  BY <1>1 DEF PoolInv, PoolTypeOK
<1>8. Sane(r)' /\ ~HoldsAdvisoryLock(r)'
  BY <1>2, <1>4, <1>6 DEF Sane, HoldsAdvisoryLock, HoldsRow
<1> QED
  BY <1>4, <1>5, <1>6, <1>7, <1>8, StepKeeps

LEMMA DispenseKeeps ==
  ASSUME PoolInv, dispense
  PROVE  PoolInv'
<1>1. /\ queue # <<>> /\ queue' = Tail(queue) /\ UNCHANGED <<pc, kind, arrived>>
      /\ queue \in Seq(Clients) /\ Once(queue)
      /\ holder \in [Conns -> Clients \cup {Free}]
  BY DEF dispense, PoolInv, PoolTypeOK
<1>2. /\ Head(queue) \in Clients /\ queue' \in Seq(Clients) /\ Once(queue)'
      /\ Waits(Head(queue))
      /\ \A o \in Clients : Waits(o)' <=> Waits(o) /\ o # Head(queue)
  BY <1>1, TailWaits DEF Waits, Once
<1>3. PICK r \in Clients : r = Head(queue)
  BY <1>2
<1>4. PICK c \in Conns : holder[c] = Free /\ holder' = [holder EXCEPT ![c] = r]
  <2>1. AnyOf(Held(Free)) \in Held(Free)
    BY AnyOfIsOne DEF dispense
  <2> QED
    BY <1>3, <2>1 DEF dispense, Held
<1>5. /\ Waits(r) /\ ~Waits(r)'
      /\ \A o \in Clients \ {r} : Waits(o)' <=> Waits(o)
  BY <1>2, <1>3
<1>6. /\ Held(r)' = Held(r) \cup {c} /\ c \notin Held(r)
      /\ \A o \in Clients \ {r} : Held(o)' = Held(o)
  BY <1>1, <1>4, PoolAssumption DEF Held
<1>7. PoolTypeOK'
  BY <1>1, <1>2, <1>4 DEF PoolInv, PoolTypeOK
<1>8. Sane(r) /\ (HoldsAdvisoryLock(r)' <=> HoldsAdvisoryLock(r))
  BY <1>1 DEF PoolInv, HoldsAdvisoryLock, HoldsRow
<1>9. Sane(r)'
  <2>1. pc[r] = "keys" => \E d \in Held(r) : d # c
    BY <1>6, <1>8 DEF Sane
  <2> QED
    BY <1>1, <1>5, <1>6, <1>8, <2>1 DEF Sane
<1> QED
  BY <1>1, <1>2, <1>5, <1>6, <1>7, <1>8, <1>9, StepKeeps DEF PoolInv

LEMMA RunKeeps ==
  ASSUME PoolInv, NEW r \in Clients, Runs(r)
  PROVE  PoolInv'
<1>a. Sane(r) /\ PoolTypeOK /\ Once(queue)
  BY DEF PoolInv
<1>1. CASE authenticated(r) \/ commitChange(r)
  <2>1. PICK p \in {"read", "begin"} :
          Asks(r, p) /\ Releases(Held(r)) /\ UNCHANGED <<kind, arrived>>
    BY <1>1 DEF authenticated, commitChange
  <2>2. ~Waits(r)
    BY <1>1, <1>a DEF authenticated, commitChange, Sane
  <2>3. p \in PoolPcs
    BY DEF PoolPcs
  <2>4. /\ pc' \in [Clients -> PoolPcs] /\ queue' \in Seq(Clients) /\ Once(queue)'
        /\ pc'[r] = p /\ Waits(r)'
        /\ \A o \in Clients \ {r} : pc'[o] = pc[o] /\ (Waits(o)' <=> Waits(o))
    BY <2>1, <2>2, <2>3, AskKeeps
  <2>5. /\ holder' \in [Conns -> Clients \cup {Free}] /\ Held(r)' = {}
        /\ \A o \in Clients \ {r} : Held(o)' = Held(o)
    BY <2>1, ReleaseKeeps
  <2>6. PoolTypeOK'
    BY <2>1, <2>4, <2>5, <1>a DEF PoolTypeOK
  <2>7. Sane(r)' /\ ~HoldsAdvisoryLock(r)'
    BY <2>4, <2>5 DEF Sane, HoldsAdvisoryLock, HoldsRow
  <2> QED
    BY <2>1, <2>4, <2>5, <2>6, <2>7, StepKeeps
<1>2. CASE finish(r)
  <2>1. /\ ~Waits(r) /\ pc' = [pc EXCEPT ![r] = "idle"] /\ Releases(Held(r))
        /\ kind' = [kind EXCEPT ![r] = "read"] /\ UNCHANGED <<queue, arrived>>
    BY <1>2 DEF finish
  <2>2. /\ holder' \in [Conns -> Clients \cup {Free}] /\ Held(r)' = {}
        /\ \A o \in Clients \ {r} : Held(o)' = Held(o)
    BY <2>1, ReleaseKeeps
  <2>3. "idle" \in PoolPcs /\ "read" \in Kinds
    BY DEF PoolPcs, Kinds
  <2>4. PoolTypeOK' /\ Once(queue)'
    BY <2>1, <2>2, <2>3, <1>a DEF PoolTypeOK, Once
  <2>5. \A o \in Clients : Waits(o)' <=> Waits(o)
    BY <2>1 DEF Waits
  <2>6. /\ pc'[r] = "idle"
        /\ \A o \in Clients \ {r} : pc'[o] = pc[o] /\ kind'[o] = kind[o]
    BY <2>1, <1>a DEF PoolTypeOK
  <2>7. Sane(r)' /\ ~HoldsAdvisoryLock(r)'
    BY <2>1, <2>2, <2>5, <2>6 DEF Sane, HoldsAdvisoryLock, HoldsRow
  <2> QED
    BY <2>2, <2>4, <2>5, <2>6, <2>7, StepKeeps
<1>3. CASE locks(r)
  <2>1. /\ pc[r] \in {"begin", "guarded"} /\ ~Waits(r) /\ ~Blocked(r)
        /\ pc' = [pc EXCEPT ![r] = IF kind[r] = "rotate" THEN "rotating"
                                   ELSE IF pc[r] = "begin" THEN "guarded" ELSE "locked"]
        /\ UNCHANGED <<kind, holder, queue, arrived>>
    BY <1>3 DEF locks
  <2>2. /\ pc'[r] = IF kind[r] = "rotate" THEN "rotating"
                    ELSE IF pc[r] = "begin" THEN "guarded" ELSE "locked"
        /\ \A o \in Clients \ {r} : pc'[o] = pc[o]
    BY <2>1, <1>a DEF PoolTypeOK
  <2>3. PoolTypeOK' /\ Once(queue)'
    BY <2>1, <1>a DEF PoolTypeOK, PoolPcs, Once
  <2>4. \A o \in Clients : (Waits(o)' <=> Waits(o)) /\ Held(o)' = Held(o)
    BY <2>1 DEF Waits, Held
  <2>5. Sane(r)'
    BY <2>1, <2>2, <2>4, <1>a DEF Sane, HoldsAdvisoryLock, HoldsRow
  <2>6. HoldsAdvisoryLock(r)' => \A o \in Clients \ {r} : ~HoldsAdvisoryLock(o)
    <3>1. CASE pc[r] = "begin"
      BY <3>1, <2>1, <2>2 DEF Blocked, HoldsAdvisoryLock, HoldsRow
    <3>2. CASE pc[r] = "guarded"
      BY <3>2 DEF PoolInv, HoldsAdvisoryLock
    <3> QED
      BY <2>1, <3>1, <3>2
  <2> QED
    BY <2>1, <2>2, <2>3, <2>4, <2>5, <2>6, StepKeeps
<1>4. CASE permissionKeysOf(r) /\ Asks(r, "keys")
  <2>1. /\ pc[r] = "locked" /\ kind[r] = "assignRoles" /\ UNCHANGED <<kind, holder, arrived>>
        /\ Asks(r, "keys")
    BY <1>4 DEF permissionKeysOf
  <2>2. ~Waits(r) /\ Held(r) # {} /\ HoldsAdvisoryLock(r) /\ "keys" \in PoolPcs
    BY <2>1, <1>a DEF Sane, HoldsAdvisoryLock, HoldsRow, PoolPcs
  <2>3. /\ pc' \in [Clients -> PoolPcs] /\ queue' \in Seq(Clients) /\ Once(queue)'
        /\ pc'[r] = "keys" /\ Waits(r)'
        /\ \A o \in Clients \ {r} : pc'[o] = pc[o] /\ (Waits(o)' <=> Waits(o))
    BY <2>1, <2>2, AskKeeps
  <2>4. PoolTypeOK'
    BY <2>1, <2>3, <1>a DEF PoolTypeOK
  <2>5. \A o \in Clients : Held(o)' = Held(o)
    BY <2>1 DEF Held
  <2>6. Sane(r)'
    BY <2>1, <2>2, <2>3, <2>5 DEF Sane, HoldsAdvisoryLock, HoldsRow
  <2> QED
    BY <2>1, <2>2, <2>3, <2>4, <2>5, <2>6, StepKeeps DEF PoolInv
<1>5. CASE \/ permissionKeysOf(r) /\ pc' = [pc EXCEPT ![r] = "checked"] /\ UNCHANGED queue
           \/ keysRead(r)
  <2>1. PICK C \in SUBSET Held(r) :
          /\ pc' = [pc EXCEPT ![r] = "checked"] /\ UNCHANGED <<kind, queue, arrived>>
          /\ Releases(C) /\ Held(r) \ C # {}
          /\ ~Waits(r) /\ HoldsAdvisoryLock(r)
    <3>1. CASE keysRead(r)
      <4>1. Held(r) # {}
        BY <3>1, <1>a DEF keysRead, Sane
      <4>2. {AnyOf(Held(r))} \in SUBSET Held(r)
        BY <4>1, AnyOfIsOne
      <4>3. Held(r) \ {AnyOf(Held(r))} # {}
        BY <3>1, <1>a DEF keysRead, Sane
      <4> QED
        BY <3>1, <4>2, <4>3 DEF keysRead, HoldsAdvisoryLock, HoldsRow
    <3>2. CASE permissionKeysOf(r) /\ pc' = [pc EXCEPT ![r] = "checked"] /\ UNCHANGED queue
      <4>1. Held(r) # {} /\ ~Waits(r) /\ UNCHANGED <<kind, holder, arrived>>
        BY <3>2, <1>a DEF permissionKeysOf, Sane
      <4>2. Releases({})
        BY <4>1, <1>a DEF Releases, PoolTypeOK
      <4> QED
        BY <3>2, <4>1, <4>2 DEF permissionKeysOf, HoldsAdvisoryLock, HoldsRow
    <3> QED
      BY <1>5, <3>1, <3>2
  <2>2. /\ holder' \in [Conns -> Clients \cup {Free}] /\ Held(r)' # {}
        /\ \A o \in Clients \ {r} : Held(o)' = Held(o)
    BY <2>1, ReleaseKeeps
  <2>3. PoolTypeOK' /\ Once(queue)'
    BY <2>1, <2>2, <1>a DEF PoolTypeOK, PoolPcs, Once
  <2>4. \A o \in Clients : Waits(o)' <=> Waits(o)
    BY <2>1 DEF Waits
  <2>5. pc'[r] = "checked" /\ \A o \in Clients \ {r} : pc'[o] = pc[o]
    BY <2>1, <1>a DEF PoolTypeOK
  <2>6. Sane(r)'
    BY <2>1, <2>2, <2>4, <2>5, <1>a DEF Sane, HoldsAdvisoryLock, HoldsRow
  <2> QED
    BY <2>1, <2>2, <2>3, <2>4, <2>5, <2>6, StepKeeps DEF PoolInv
<1> QED
  BY <1>1, <1>2, <1>3, <1>4, <1>5 DEF Runs, permissionKeysOf

LEMMA TimeoutKeeps ==
  ASSUME PoolInv, NEW r \in Clients, acquireTimeout(r)
  PROVE  PoolInv'
<1>1. PICK i \in 1 .. Len(queue) : queue[i] = r /\ queue' = RemoveAt(queue, i)
  BY DEF acquireTimeout
<1>2. /\ pc' = [pc EXCEPT ![r] = "idle"] /\ Releases(Held(r))
      /\ kind' = [kind EXCEPT ![r] = "read"] /\ UNCHANGED arrived
  BY DEF acquireTimeout
<1>3. /\ queue' \in Seq(Clients) /\ Once(queue)' /\ ~Waits(r)'
      /\ \A o \in Clients \ {r} : Waits(o)' <=> Waits(o)
  BY <1>1, RemoveKeeps
<1>4. /\ holder' \in [Conns -> Clients \cup {Free}] /\ Held(r)' = {}
      /\ \A o \in Clients \ {r} : Held(o)' = Held(o)
  BY <1>2, ReleaseKeeps
<1>5. "idle" \in PoolPcs /\ "read" \in Kinds
  BY DEF PoolPcs, Kinds
<1>6. PoolTypeOK'
  BY <1>2, <1>3, <1>4, <1>5 DEF PoolInv, PoolTypeOK
<1>7. /\ pc'[r] = "idle"
      /\ \A o \in Clients \ {r} : pc'[o] = pc[o] /\ kind'[o] = kind[o]
  BY <1>2 DEF PoolInv, PoolTypeOK
<1>8. Sane(r)' /\ ~HoldsAdvisoryLock(r)'
  BY <1>3, <1>4, <1>7 DEF Sane, HoldsAdvisoryLock, HoldsRow
<1> QED
  BY <1>3, <1>4, <1>6, <1>7, <1>8, StepKeeps

-----------------------------------------------------------------------------
(* The theorems.                                                           *)

LEMMA PoolInitHolds == PoolInit => PoolInv
<1> SUFFICES ASSUME PoolInit PROVE PoolInv
  OBVIOUS
<1>1. queue = <<>> /\ <<>> \in Seq(Clients) /\ Len(<<>>) = 0
  BY EmptySeq DEF PoolInit
<1>2. PoolTypeOK
  BY <1>1, PoolAssumption DEF PoolInit, PoolTypeOK, PoolPcs, Kinds
<1>3. Once(queue) /\ \A r \in Clients : ~Waits(r)
  BY <1>1 DEF Once, Waits, Contains
<1>4. \A r \in Clients : pc[r] = "idle" /\ Held(r) = {}
  BY PoolAssumption DEF PoolInit, Held
<1> QED
  BY <1>2, <1>3, <1>4 DEF PoolInv, Sane, HoldsAdvisoryLock, HoldsRow

LEMMA PoolNextKeeps == PoolInv /\ [PoolNext]_poolVars => PoolInv'
<1> SUFFICES ASSUME PoolInv, [PoolNext]_poolVars PROVE PoolInv'
  OBVIOUS
<1>1. CASE UNCHANGED poolVars
  BY <1>1 DEF poolVars, PoolInv, PoolTypeOK, Once, Sane, Waits, Held, HoldsAdvisoryLock, HoldsRow
<1> QED
  BY <1>1, RunKeeps, TimeoutKeeps, RequestKeeps, DispenseKeeps DEF PoolNext

THEOREM PoolInvariance == PoolSpec => []PoolInv
BY PoolInitHolds, PoolNextKeeps, PTL DEF PoolSpec

\* The variables keep their types, whatever requests arrive (sequelize.ts).
THEOREM PoolTyping == PoolSpec => []PoolTypeOK
<1>1. PoolInv => PoolTypeOK
  BY DEF PoolInv
<1> QED
  BY <1>1, PoolInvariance, PTL

LEMMA StallsByAssignment == PoolInv => OnlyAssignmentStalls
<1> SUFFICES ASSUME PoolInv, Stalled
             PROVE  \E a \in Clients :
                      /\ kind[a] = "assignRoles" /\ pc[a] = "keys" /\ Waits(a)
                      /\ \A c \in Conns : \/ holder[c] = a
                                          \/ pc[holder[c]] = "begin" /\ ~Waits(holder[c])
  BY DEF OnlyAssignmentStalls
<1>1. \A c \in Conns : holder[c] \in Clients /\ (Waits(holder[c]) \/ Blocked(holder[c]))
  BY DEF Stalled, PoolInv, PoolTypeOK
<1>2. \A r \in Clients : Held(r) # {} => Waits(r) \/ Blocked(r)
  BY <1>1 DEF Held
<1>3. \A c \in Conns : c \in Held(holder[c])
  BY DEF Held
<1>4. ASSUME NEW a \in Clients, Held(a) # {}, Waits(a)
      PROVE  /\ kind[a] = "assignRoles" /\ pc[a] = "keys"
             /\ \A c \in Conns : \/ holder[c] = a
                                 \/ pc[holder[c]] = "begin" /\ ~Waits(holder[c])
  <2>1. kind[a] = "assignRoles" /\ pc[a] = "keys" /\ HoldsAdvisoryLock(a)
    BY <1>4 DEF PoolInv, Sane, HoldsAdvisoryLock, HoldsRow
  <2>2. ASSUME NEW c \in Conns, holder[c] # a
        PROVE  pc[holder[c]] = "begin" /\ ~Waits(holder[c])
    <3>1. holder[c] \in Clients /\ Held(holder[c]) # {} /\ Sane(holder[c])
      BY <1>1, <1>3 DEF PoolInv
    <3>2. ~HoldsAdvisoryLock(holder[c])
      BY <2>1, <2>2, <3>1 DEF PoolInv
    <3>3. ~Waits(holder[c])
      BY <3>1, <3>2 DEF Sane, HoldsAdvisoryLock, HoldsRow
    <3> QED
      BY <1>1, <3>2, <3>3 DEF Blocked, HoldsAdvisoryLock
  <2> QED
    BY <2>1, <2>2
<1>5. ASSUME \A r \in Clients : Held(r) # {} => ~Waits(r)
      PROVE  FALSE
  <2>1. PICK c \in Conns : TRUE
    BY PoolAssumption
  <2>2. holder[c] \in Clients /\ Blocked(holder[c])
    BY <1>1, <1>3, <1>5, <2>1
  <2>3. \A q \in Clients : pc[q] # "rotating"
    BY <1>2, <1>5 DEF PoolInv, Sane, Blocked
  <2>4. \A o \in Clients : ~HoldsAdvisoryLock(o)
    <3>1. \A o \in Clients : HoldsAdvisoryLock(o) => Held(o) # {}
      BY DEF PoolInv, Sane, HoldsAdvisoryLock, HoldsRow
    <3>2. \A o \in Clients : HoldsAdvisoryLock(o) => Blocked(o)
      BY <3>1, <1>2, <1>5
    <3> QED
      BY <3>2, <2>3 DEF Blocked, HoldsAdvisoryLock, HoldsRow
  <2> QED
    BY <2>2, <2>3, <2>4 DEF Blocked, HoldsAdvisoryLock
<1> QED
  BY <1>4, <1>5

\* Whatever the size of the pool and the number of requests, the pool stalls in one way
\* only: an assignRoles waits for its second connection while all the others are held
\* by transactions that wait for its locks (permissionKeysOf in user.service.ts).
THEOREM OnlyAssignmentStallsAlways == PoolSpec => []OnlyAssignmentStalls
BY StallsByAssignment, PoolInvariance, PTL

-----------------------------------------------------------------------------
(* The rate limiter.                                                       *)
Open == {"checking", "failed", "lost"}
Unsuccessful(e) == CountedAs(e, Fates \ {"succeeded"})

\* The count of an email's bucket: the attempts of its window that did not succeed, but
\* for what successes of earlier windows gave back.
Counts(e) ==
  /\ \A a \in counted[e] : EmailOf[a] = e /\ attempt[a] # "none"
  /\ hits[e] <= Cardinality(Unsuccessful(e))
  /\ Cardinality(Unsuccessful(e)) <= hits[e] + borrowed[e]
  /\ Cardinality(CountedAs(e, Open)) <= LoginMax + borrowed[e]

\* The inductive invariant.  FailuresAreBounded alone is not inductive: it says nothing of
\* the hits by which the next attempt is judged.
RateInv == RateTypeOK /\ \A e \in Emails : Counts(e)

-----------------------------------------------------------------------------
(* Sets of attempts.                                                       *)

LEMMA Sizes ==
  ASSUME NEW S \in SUBSET Attempts
  PROVE  /\ Cardinality(S) \in Nat
         /\ \A T \in SUBSET S : Cardinality(T) <= Cardinality(S)
         /\ \A a \in Attempts \ S : Cardinality(S \cup {a}) = Cardinality(S) + 1
         /\ \A a \in S : Cardinality(S \ {a}) = Cardinality(S) - 1
<1>1. IsFiniteSet(S)
  BY FS_Subset, RateAssumption
<1> QED
  BY <1>1, FS_CardinalityType, FS_Subset, FS_AddElement, FS_RemoveElement

LEMMA SmallSizes == Cardinality({}) = 0 /\ \A a : Cardinality({a}) = 1
BY FS_EmptySet, FS_Singleton

LEMMA CountedAreAttempts ==
  ASSUME RateTypeOK, NEW e \in Emails, NEW F
  PROVE  CountedAs(e, F) \in SUBSET Attempts
BY DEF RateTypeOK, CountedAs, Buckets

-----------------------------------------------------------------------------
(* Steps.                                                                  *)

\* A bucket that no step of the store touches, while its attempts fail or get lost.
LEMMA UntouchedCounts ==
  ASSUME RateInv, NEW e \in Emails,
         hits'[e] = hits[e], counted'[e] = counted[e], borrowed'[e] = borrowed[e],
         \A a \in counted[e] : \/ attempt'[a] = attempt[a]
                               \/ attempt[a] \in Open /\ attempt'[a] \in Open
  PROVE  Counts(e)'
<1>1. Counts(e)
  BY DEF RateInv
<1>2. Unsuccessful(e)' = Unsuccessful(e) /\ CountedAs(e, Open)' = CountedAs(e, Open)
  BY DEF Unsuccessful, CountedAs, Open, Fates
<1>3. \A a \in counted[e] : attempt'[a] # "none"
  BY <1>1 DEF Counts, Open
<1> QED
  BY <1>1, <1>2, <1>3 DEF Counts

LEMMA IncrementTypes ==
  ASSUME RateInv, NEW a \in Attempts, NEW B \in SUBSET Buckets, NEW fate \in Fates,
         Increment(B, a), Becomes(a, fate), UNCHANGED <<windows, restarts>>
  PROVE  /\ RateTypeOK'
         /\ attempt'[a] = fate /\ \A o \in Attempts \ {a} : attempt'[o] = attempt[o]
         /\ \A e \in Emails \ B : /\ hits'[e] = hits[e] /\ counted'[e] = counted[e]
                                  /\ borrowed'[e] = borrowed[e]
<1>1. RateTypeOK
  BY DEF RateInv
<1>2. \A b \in Buckets : HitsAfter(b) \in Nat
  BY <1>1 DEF RateTypeOK, HitsAfter
<1>3. hits' \in [Buckets -> Nat] /\ over' \in [Buckets -> BOOLEAN]
  BY <1>1, <1>2 DEF Increment, RateTypeOK
<1>4. counted' \in [Buckets -> SUBSET Attempts] /\ borrowed' \in [Buckets -> Nat]
  BY <1>1 DEF Increment, RateTypeOK
<1>5. attempt' \in [Attempts -> Fates]
  BY <1>1 DEF Becomes, RateTypeOK
<1>6. RateTypeOK'
  BY <1>1, <1>3, <1>4, <1>5 DEF RateTypeOK
<1>7. attempt'[a] = fate /\ \A o \in Attempts \ {a} : attempt'[o] = attempt[o]
  BY <1>1 DEF Becomes, RateTypeOK
<1> QED
  BY <1>6, <1>7 DEF Increment, Buckets

\* An attempt that is counted, and then let through or refused.
LEMMA IncrementCounts ==
  ASSUME RateInv, NEW a \in Attempts, attempt[a] = "none", NEW fate \in {"checking", "refused"},
         Increment({Address, EmailOf[a]}, a), RateTypeOK',
         attempt'[a] = fate, \A o \in Attempts \ {a} : attempt'[o] = attempt[o],
         fate = "checking" => HitsAfter(EmailOf[a]) <= LoginMax
  PROVE  Counts(EmailOf[a])' /\ Cardinality(Unsuccessful(EmailOf[a]))' >= HitsAfter(EmailOf[a])
<1>1. PICK e \in Emails : e = EmailOf[a]
  BY RateAssumption
<1>2. /\ RateTypeOK /\ Counts(e) /\ e \in Buckets /\ a \notin counted[e]
      /\ counted[e] \subseteq Attempts /\ LoginMax \in Nat
      /\ hits[e] \in Nat /\ borrowed[e] \in Nat
  BY <1>1, RateAssumption DEF RateInv, Counts, RateTypeOK, Buckets
<1>3. /\ hits'[e] = HitsAfter(e)
      /\ counted'[e] = IF over[e] THEN {a} ELSE counted[e] \cup {a}
      /\ borrowed'[e] = IF over[e] THEN 0 ELSE borrowed[e]
  BY <1>1, <1>2 DEF Increment
<1>4. \A o \in counted'[e] : EmailOf[o] = e /\ attempt'[o] # "none"
  BY <1>1, <1>2, <1>3 DEF Counts
<1>5. CASE over[e]
  <2>1. /\ Unsuccessful(e)' = {a} /\ hits'[e] = 1 /\ borrowed'[e] = 0 /\ HitsAfter(e) = 1
        /\ CountedAs(e, Open)' = IF fate = "checking" THEN {a} ELSE {}
    BY <1>3, <1>5 DEF Unsuccessful, CountedAs, Open, Fates, HitsAfter
  <2>2. Cardinality(Unsuccessful(e)') = 1
    BY <2>1, SmallSizes
  <2>3. Cardinality(CountedAs(e, Open)') <= LoginMax
    <3>1. CASE fate = "checking"
      <4>1. Cardinality(CountedAs(e, Open)') = 1 /\ 1 <= LoginMax
        BY <1>1, <2>1, <3>1, SmallSizes
      <4> QED
        BY <4>1
    <3>2. CASE fate # "checking"
      <4>1. Cardinality(CountedAs(e, Open)') = 0
        BY <2>1, <3>2, SmallSizes
      <4> QED
        BY <1>2, <4>1
    <3> QED
      BY <3>1, <3>2
  <2> QED
    BY <1>1, <1>2, <1>4, <2>1, <2>2, <2>3 DEF Counts
<1>6. CASE ~over[e]
  <2>1. /\ Unsuccessful(e)' = Unsuccessful(e) \cup {a} /\ a \notin Unsuccessful(e)
        /\ hits'[e] = hits[e] + 1 /\ borrowed'[e] = borrowed[e] /\ HitsAfter(e) = hits[e] + 1
        /\ fate = "refused" => CountedAs(e, Open)' = CountedAs(e, Open)
        /\ CountedAs(e, Open)' \in SUBSET Unsuccessful(e)'
    BY <1>2, <1>3, <1>6 DEF Unsuccessful, CountedAs, Open, Fates, HitsAfter
  <2>2. Unsuccessful(e) \in SUBSET Attempts /\ Unsuccessful(e)' \in SUBSET Attempts
    BY <1>2, <2>1, CountedAreAttempts DEF Unsuccessful
  <2>3. /\ Cardinality(Unsuccessful(e)') = Cardinality(Unsuccessful(e)) + 1
        /\ Cardinality(Unsuccessful(e)) \in Nat
    BY <2>1, <2>2, Sizes
  <2>4. /\ Cardinality(CountedAs(e, Open)') <= Cardinality(Unsuccessful(e)')
        /\ Cardinality(CountedAs(e, Open)') \in Nat
    <3>1. CountedAs(e, Open)' \in SUBSET Attempts
      BY <2>1, <2>2
    <3> QED
      BY <2>1, <2>2, <3>1, Sizes
  <2>5. Cardinality(CountedAs(e, Open)') <= LoginMax + borrowed[e]
    BY <1>1, <1>2, <2>1, <2>3, <2>4 DEF Counts
  <2> QED
    BY <1>1, <1>2, <1>4, <2>1, <2>3, <2>5 DEF Counts
<1> QED
  BY <1>5, <1>6

\* A success gives its hit back, or one of the window that is there by now.
LEMMA SuccessKeeps ==
  ASSUME RateInv, NEW a \in Attempts, loginSucceeds(a)
  PROVE  RateInv'
<1>1. PICK e \in Emails : e = EmailOf[a]
  BY RateAssumption
<1>2. /\ attempt[a] = "checking" /\ attempt' = [attempt EXCEPT ![a] = "succeeded"]
      /\ hits' = [hits EXCEPT ![e] = IF hits[e] > 0 THEN hits[e] - 1 ELSE hits[e]]
      /\ borrowed' = [borrowed EXCEPT ![e] = IF a \in counted[e] THEN borrowed[e]
                                             ELSE borrowed[e] + 1]
      /\ UNCHANGED <<over, counted, windows, restarts>>
  BY <1>1 DEF loginSucceeds, Decrement, Becomes
<1>3. /\ RateTypeOK /\ Counts(e) /\ e \in Buckets
      /\ hits[e] \in Nat /\ borrowed[e] \in Nat /\ LoginMax \in Nat
  BY RateAssumption DEF RateInv, RateTypeOK, Buckets
<1>4. /\ hits'[e] = IF hits[e] > 0 THEN hits[e] - 1 ELSE 0
      /\ borrowed'[e] = IF a \in counted[e] THEN borrowed[e] ELSE borrowed[e] + 1
      /\ attempt'[a] = "succeeded" /\ \A o \in Attempts \ {a} : attempt'[o] = attempt[o]
      /\ \A x \in Emails \ {e} : hits'[x] = hits[x] /\ borrowed'[x] = borrowed[x]
  BY <1>2, <1>3 DEF RateTypeOK, Buckets
<1>5. RateTypeOK'
  <2>1. hits' \in [Buckets -> Nat] /\ borrowed' \in [Buckets -> Nat]
    BY <1>2, <1>3 DEF RateTypeOK
  <2>2. attempt' \in [Attempts -> Fates]
    BY <1>2, <1>3 DEF RateTypeOK, Fates
  <2> QED
    BY <1>2, <1>3, <2>1, <2>2 DEF RateTypeOK
<1>6. ASSUME NEW x \in Emails \ {e} PROVE Counts(x)'
  <2>1. counted[x] \subseteq Attempts \ {a}
    BY <1>1, <1>3 DEF RateInv, Counts, RateTypeOK, Buckets
  <2> QED
    BY <1>2, <1>4, <2>1, UntouchedCounts
<1>7. Counts(e)'
  <2>1. counted[e] \subseteq Attempts /\ counted'[e] = counted[e]
    BY <1>2, <1>3 DEF RateTypeOK
  <2>2. Unsuccessful(e)' = Unsuccessful(e) \ {a} /\ CountedAs(e, Open)' = CountedAs(e, Open) \ {a}
    BY <1>4, <2>1 DEF Unsuccessful, CountedAs, Open
  <2>3. a \in Unsuccessful(e) <=> a \in counted[e]
    BY <1>2 DEF Unsuccessful, CountedAs, Fates
  <2>4. Unsuccessful(e) \in SUBSET Attempts /\ CountedAs(e, Open) \in SUBSET Attempts
    BY <1>3, CountedAreAttempts DEF Unsuccessful
  <2>5. /\ Cardinality(Unsuccessful(e)) \in Nat
        /\ Cardinality(Unsuccessful(e)') = IF a \in counted[e] THEN Cardinality(Unsuccessful(e)) - 1
                                           ELSE Cardinality(Unsuccessful(e))
    <3>1. a \notin counted[e] => Unsuccessful(e)' = Unsuccessful(e)
      BY <2>2, <2>3
    <3> QED
      BY <2>2, <2>3, <2>4, <3>1, Sizes
  <2>6. /\ Cardinality(CountedAs(e, Open)) \in Nat
        /\ Cardinality(CountedAs(e, Open)') <= Cardinality(CountedAs(e, Open))
        /\ Cardinality(CountedAs(e, Open)') \in Nat
    <3>1. CountedAs(e, Open)' \in SUBSET Attempts
      BY <2>2, <2>4
    <3> QED
      BY <2>2, <2>4, <3>1, Sizes
  <2>7. \A o \in counted'[e] : EmailOf[o] = e /\ attempt'[o] # "none"
    BY <1>3, <1>4, <2>1 DEF Counts
  <2>8. /\ hits'[e] <= Cardinality(Unsuccessful(e)')
        /\ Cardinality(Unsuccessful(e)') <= hits'[e] + borrowed'[e]
    <3>1. /\ hits[e] <= Cardinality(Unsuccessful(e))
          /\ Cardinality(Unsuccessful(e)) <= hits[e] + borrowed[e]
      BY <1>3 DEF Counts
    <3>2. CASE a \in counted[e]
      <4>1. /\ Cardinality(Unsuccessful(e)') = Cardinality(Unsuccessful(e)) - 1
            /\ borrowed'[e] = borrowed[e]
            /\ a \in Unsuccessful(e)
        BY <1>4, <2>3, <2>5, <3>2
      <4>2. Cardinality(Unsuccessful(e)) > 0
        BY <2>2, <2>4, <2>5, <4>1, Sizes
      <4> QED
        BY <1>3, <1>4, <2>5, <3>1, <4>1, <4>2
    <3>3. CASE a \notin counted[e]
      <4>1. /\ Cardinality(Unsuccessful(e)') = Cardinality(Unsuccessful(e))
            /\ borrowed'[e] = borrowed[e] + 1
        BY <1>4, <2>5, <3>3
      <4> QED
        BY <1>3, <1>4, <2>5, <3>1, <4>1
    <3> QED
      BY <3>2, <3>3
  <2>9. Cardinality(CountedAs(e, Open)') <= LoginMax + borrowed'[e]
    BY <1>3, <1>4, <2>6 DEF Counts
  <2> QED
    BY <2>7, <2>8, <2>9 DEF Counts
<1> QED
  BY <1>5, <1>6, <1>7 DEF RateInv

LEMMA ArrivalKeeps ==
  ASSUME RateInv, NEW a \in Attempts, turnedAway(a) \/ limitLogin(a)
  PROVE  RateInv'
<1>1. attempt[a] = "none" /\ \A e \in Emails : a \notin counted[e]
  BY DEF turnedAway, limitLogin, Arrives, RateInv, Counts
<1>2. PICK fate \in {"turned", "checking", "refused"}, B \in {{Address}, {Address, EmailOf[a]}} :
        /\ Increment(B, a) /\ Becomes(a, fate) /\ UNCHANGED <<windows, restarts>>
        /\ fate # "turned" => B = {Address, EmailOf[a]}
        /\ fate = "turned" => B = {Address}
        /\ fate = "checking" => HitsAfter(EmailOf[a]) <= LoginMax
  BY DEF turnedAway, limitLogin
<1>3. B \in SUBSET Buckets /\ fate \in Fates
  BY RateAssumption DEF Buckets, Fates
<1>4. /\ RateTypeOK'
      /\ attempt'[a] = fate /\ \A o \in Attempts \ {a} : attempt'[o] = attempt[o]
      /\ \A e \in Emails \ B : /\ hits'[e] = hits[e] /\ counted'[e] = counted[e]
                               /\ borrowed'[e] = borrowed[e]
  BY <1>2, <1>3, IncrementTypes
<1>5. ASSUME NEW e \in Emails \ B PROVE Counts(e)'
  <2>1. counted[e] \subseteq Attempts \ {a}
    BY <1>1 DEF RateInv, RateTypeOK, Buckets
  <2> QED
    BY <1>4, <2>1, UntouchedCounts
<1>6. ASSUME fate # "turned" PROVE Counts(EmailOf[a])'
  BY <1>1, <1>2, <1>4, <1>6, IncrementCounts
<1>7. \A e \in Emails : e \in B => e = EmailOf[a] /\ fate # "turned"
  BY <1>2, RateAssumption
<1> QED
  BY <1>4, <1>5, <1>6, <1>7 DEF RateInv

\* Everything else leaves the counts alone, or forgets them.
LEMMA OtherKeeps ==
  ASSUME RateInv,
         \/ \E a \in Attempts : loginFails(a) \/ loginLost(a)
         \/ \E b \in Buckets : windowEnds(b)
         \/ UNCHANGED rateVars
  PROVE  RateInv'
<1>1. UNCHANGED <<hits, counted, borrowed, restarts>>
  BY DEF loginFails, loginLost, windowEnds, rateVars
<1>2. \A o \in Attempts : \/ attempt'[o] = attempt[o]
                          \/ attempt[o] \in Open /\ attempt'[o] \in Open
  BY DEF loginFails, loginLost, windowEnds, rateVars, Becomes, Open, RateInv, RateTypeOK
<1>3. attempt' \in [Attempts -> Fates]
  BY DEF loginFails, loginLost, windowEnds, rateVars, Becomes, Fates, RateInv, RateTypeOK
<1>4. over' \in [Buckets -> BOOLEAN] /\ windows' \in 0 .. MaxWindows
  <2>1. over \in [Buckets -> BOOLEAN] /\ windows \in 0 .. MaxWindows /\ MaxWindows \in Nat
    BY RateAssumption DEF RateInv, RateTypeOK
  <2>2. CASE \E b \in Buckets : windowEnds(b)
    BY <2>1, <2>2 DEF windowEnds
  <2>3. CASE UNCHANGED <<over, windows>>
    BY <2>1, <2>3
  <2> QED
    BY <2>2, <2>3 DEF loginFails, loginLost, rateVars
<1>5. RateTypeOK'
  BY <1>1, <1>3, <1>4 DEF RateInv, RateTypeOK
<1>6. ASSUME NEW e \in Emails PROVE Counts(e)'
  <2>1. counted[e] \subseteq Attempts
    BY DEF RateInv, RateTypeOK, Buckets
  <2> QED
    BY <1>1, <1>2, <2>1, UntouchedCounts
<1> QED
  BY <1>5, <1>6 DEF RateInv

\* Buckets without a count.
LEMMA EmptyCounts ==
  ASSUME NEW e \in Emails, hits[e] = 0, counted[e] = {}, borrowed[e] = 0
  PROVE  Counts(e)
<1>1. Unsuccessful(e) = {} /\ CountedAs(e, Open) = {}
  BY DEF Unsuccessful, CountedAs
<1>2. /\ Cardinality(Unsuccessful(e)) = 0 /\ Cardinality(CountedAs(e, Open)) = 0
      /\ LoginMax \in Nat
  BY <1>1, SmallSizes, RateAssumption
<1> QED
  BY <1>2 DEF Counts

LEMMA RestartKeeps ==
  ASSUME RateInv, serverRestarts
  PROVE  RateInv'
<1>1. RateTypeOK'
  <2>1. attempt' \in [Attempts -> Fates]
    BY DEF serverRestarts, RateInv, RateTypeOK, Fates
  <2>2. restarts' \in 0 .. MaxRestarts /\ windows' \in 0 .. MaxWindows
    BY RateAssumption DEF serverRestarts, RateInv, RateTypeOK
  <2> QED
    BY <2>1, <2>2 DEF serverRestarts, RateTypeOK
<1>2. ASSUME NEW e \in Emails PROVE Counts(e)'
  <2>1. hits'[e] = 0 /\ counted'[e] = {} /\ borrowed'[e] = 0
    BY DEF serverRestarts, Buckets
  <2>2. Unsuccessful(e)' = {} /\ CountedAs(e, Open)' = {}
    BY <2>1 DEF Unsuccessful, CountedAs
  <2>3. /\ Cardinality(Unsuccessful(e)') = 0 /\ Cardinality(CountedAs(e, Open)') = 0
        /\ LoginMax \in Nat
    BY <2>2, SmallSizes, RateAssumption
  <2> QED
    BY <2>1, <2>3 DEF Counts
<1> QED
  BY <1>1, <1>2 DEF RateInv

-----------------------------------------------------------------------------
(* The theorems.                                                           *)

LEMMA RateInitHolds == RateInit => RateInv
<1> SUFFICES ASSUME RateInit PROVE RateInv
  OBVIOUS
<1>1. RateTypeOK
  BY RateAssumption DEF RateInit, RateTypeOK, Fates
<1>2. ASSUME NEW e \in Emails PROVE Counts(e)
  BY EmptyCounts DEF RateInit, Buckets
<1> QED
  BY <1>1, <1>2 DEF RateInv

LEMMA RateNextKeeps == RateInv /\ [RateNext]_rateVars => RateInv'
BY ArrivalKeeps, SuccessKeeps, OtherKeeps, RestartKeeps DEF RateNext

THEOREM RateInvariance == RateSpec => []RateInv
BY RateInitHolds, RateNextKeeps, PTL DEF RateSpec

\* In one window an email has no more attempts at its password that did not succeed than
\* the limit, but for the successes of earlier windows (limiters.login of rateLimit.ts).
THEOREM FailuresAreBoundedAlways == RateSpec => [](RateTypeOK /\ FailuresAreBounded)
<1>1. RateInv => RateTypeOK /\ FailuresAreBounded
  BY DEF RateInv, Counts, FailuresAreBounded, Open
<1> QED
  BY <1>1, RateInvariance, PTL

\* Whoever is refused has more attempts in the window than the limit, none of which
\* succeeded (skipSuccessfulRequests).
THEOREM RefusedForFailuresAlways == RateSpec => RefusedForFailures
<1> DEFINE Fair == \A a \in Attempts :
                     attempt[a] = "none" /\ attempt'[a] = "refused" =>
                       Cardinality(CountedAs(EmailOf[a], Fates \ {"succeeded"})') > LoginMax
<1>1. RateInv /\ [RateNext]_rateVars => [Fair]_rateVars
  <2> SUFFICES ASSUME RateInv, RateNext, NEW a \in Attempts,
                      attempt[a] = "none", attempt'[a] = "refused"
               PROVE  Cardinality(CountedAs(EmailOf[a], Fates \ {"succeeded"})') > LoginMax
    BY DEF rateVars
  <2>1. limitLogin(a)
    BY DEF RateNext, turnedAway, limitLogin, loginFails, loginSucceeds, loginLost, windowEnds,
       serverRestarts, Becomes, RateInv, RateTypeOK
  <2>2. /\ Increment({Address, EmailOf[a]}, a) /\ UNCHANGED <<windows, restarts>>
        /\ Becomes(a, "refused") /\ ~(HitsAfter(EmailOf[a]) <= LoginMax)
    BY <2>1 DEF limitLogin, Becomes, RateInv, RateTypeOK
  <2>3. /\ {Address, EmailOf[a]} \in SUBSET Buckets /\ "refused" \in Fates
        /\ EmailOf[a] \in Emails
    BY RateAssumption DEF Buckets, Fates
  <2>4. /\ RateTypeOK' /\ attempt'[a] = "refused"
        /\ \A o \in Attempts \ {a} : attempt'[o] = attempt[o]
    BY <2>2, <2>3, IncrementTypes
  <2>5. Cardinality(Unsuccessful(EmailOf[a]))' >= HitsAfter(EmailOf[a])
    BY <2>2, <2>4, IncrementCounts
  <2>6. /\ HitsAfter(EmailOf[a]) \in Nat /\ LoginMax \in Nat
        /\ Cardinality(Unsuccessful(EmailOf[a])') \in Nat
    <3>1. Unsuccessful(EmailOf[a])' \in SUBSET Attempts
      BY <2>3, <2>4 DEF RateTypeOK, Unsuccessful, CountedAs, Buckets
    <3> QED
      BY <3>1, <2>3, Sizes, RateAssumption DEF RateInv, RateTypeOK, HitsAfter, Buckets
  <2> QED
    BY <2>2, <2>5, <2>6 DEF Unsuccessful
<1> QED
  BY <1>1, RateInvariance, PTL DEF RateSpec, RefusedForFailures
=============================================================================
