--------------------------- MODULE DeploymentProofs ---------------------------
(* However often the database is migrated, downgraded and seeded, by however many  *)
(* seeders at once and wherever they die: the API is not served on half a schema,  *)
(* no table and no demo row is without what it refers to, a seeding that ended     *)
(* well left everything, and a command fails only for the two known reasons.       *)
EXTENDS Deployment, TLAPS

ServerStates == [pc : {"down", "upgrading", "serving", "exited", "downgrading"},
                 todo : SUBSET (1..10)]
SeederStates ==
    {state \in [pc : {"idle", "creating", "seeding", "done", "failed"},
               todo : SUBSET (1..10), absent : BOOLEAN] :
        state.pc = "seeding" => state.todo \subseteq 1..8}

TypeOK ==
    /\ kind \in {"postgresql", "sqlite"}
    /\ tables \subseteq Tables
    /\ rows \subseteq Range(SeedRows)
    /\ stamped \in BOOLEAN /\ early \in BOOLEAN /\ cut \subseteq {"upgrading", "downgrading"}
    /\ server \in ServerStates
    /\ seeder \in [Seeders -> SeederStates]

\* What a script has created when todo is left of it, what it has dropped, and what is
\* still there to be dropped.
Made(todo) == {Upgrade[i] : i \in 1..10 \ todo}
Gone(todo) == {Downgrade[i] : i \in 1..10 \ todo}
Left(todo) == {Downgrade[i] : i \in todo}
Sown(todo) == {SeedRows[i] : i \in 1..8 \ todo}

Closed(T) == \A t \in T : References[t] \subseteq T

\* Every table and row has what it refers to.
Sound ==
    /\ Closed(tables)
    /\ \A row \in rows : row[1] \in tables /\ <<"organizations", Belongs(row)>> \in rows

\* SQLite after a downgrade was cut short may keep a revision its tables do not match; an
\* upgrade cut short leaves it tables without the revision.
Trusted == ~(kind = "sqlite" /\ "downgrading" \in cut)
Uncut   == ~(kind = "sqlite" /\ cut # {})

Upgrading ==
    /\ server.todo # {} => ~stamped
    /\ ~stamped => Made(server.todo) \subseteq tables
    /\ kind = "postgresql" /\ ~stamped => server.todo = 1..10

Downgrading ==
    /\ Gone(server.todo) \cap tables = {}
    /\ Trusted => tables = Left(server.todo)
    /\ kind = "postgresql" => server.todo = IF stamped THEN 1..10 ELSE {}
    /\ \A s \in Seeders : seeder[s].pc \in {"idle", "failed"}

\* Where the server is in its script, and what that says of the tables.
ServerInv ==
    /\ server.pc = "upgrading" => Upgrading
    /\ server.pc = "downgrading" => Downgrading
    /\ server.pc = "serving" => stamped

\* The revision is there only with all tables, and PostgreSQL has all or none.
SchemaInv ==
    /\ stamped /\ server.pc # "downgrading" /\ Trusted => tables = Tables
    /\ kind = "postgresql" => tables \in {{}, Tables}

\* A seeder's tables and rows are there as far as it got.
SeederInv == \A s \in Seeders :
    /\ seeder[s].pc = "creating" => Made(seeder[s].todo) \subseteq tables
    /\ seeder[s].pc = "seeding"  => tables = Tables /\ Sown(seeder[s].todo) \subseteq rows
    /\ seeder[s].pc = "done"     => Range(SeedRows) \subseteq rows

\* A database that no seeder touched too early has exactly the migration's tables.
Untouched ==
    /\ server.pc # "exited"
    /\ \A s \in Seeders : seeder[s].pc = "creating" => seeder[s].todo = {}
    /\ ~stamped => tables = CASE server.pc = "upgrading"   -> Made(server.todo)
                              [] server.pc = "downgrading" -> Left(server.todo)
                              [] OTHER                     -> {}

IInv == /\ TypeOK /\ Sound /\ ServerInv /\ SchemaInv /\ SeederInv
        /\ ~early /\ Uncut => Untouched

-----------------------------------------------------------------------------
(* The scripts *)

\* The migration creates every table once, after the tables it refers to.
LEMMA UpgradeFacts ==
  /\ DOMAIN Upgrade = 1..10
  /\ \A i \in 1..10 : Upgrade[i] \in Tables
  /\ \A t \in Tables : \E i \in 1..10 : Upgrade[i] = t
  /\ \A i, j \in 1..10 : Upgrade[i] = Upgrade[j] => i = j
  /\ \A i \in 1..10 : \A t \in References[Upgrade[i]] :
        \E j \in 1..10 : j < i /\ Upgrade[j] = t
<1>1. DOMAIN Upgrade = 1..10
  BY DEF Upgrade
<1>2. \A i \in 1..10 : i \in {1, 2, 3, 4, 5, 6, 7, 8, 9, 10}
  OBVIOUS
<1>3. \A i \in 1..10 : Upgrade[i] \in Tables
  BY <1>2 DEF Upgrade, Tables
<1>4. \A t \in Tables : \E i \in 1..10 : Upgrade[i] = t
  BY DEF Upgrade, Tables
<1>5. \A i, j \in 1..10 : Upgrade[i] = Upgrade[j] => i = j
  BY <1>2 DEF Upgrade
<1>6. \A i \in 1..10 : \A t \in References[Upgrade[i]] :
         \E j \in 1..10 : j < i /\ Upgrade[j] = t
  BY <1>2 DEF Upgrade, References, Tables
<1> QED
  BY <1>1, <1>3, <1>4, <1>5, <1>6

\* The downgrade drops every table once, after the tables that refer to it.
LEMMA DowngradeFacts ==
  /\ DOMAIN Downgrade = 1..10
  /\ \A i \in 1..10 : Downgrade[i] \in Tables
  /\ \A t \in Tables : \E i \in 1..10 : Downgrade[i] = t
  /\ \A i, j \in 1..10 : Downgrade[i] = Downgrade[j] => i = j
  /\ \A i \in 1..10 : \A t \in Tables : Downgrade[i] \in References[t] =>
        \E j \in 1..10 : j < i /\ Downgrade[j] = t
<1>1. DOMAIN Downgrade = 1..10
  BY DEF Downgrade
<1>2. \A i \in 1..10 : i \in {1, 2, 3, 4, 5, 6, 7, 8, 9, 10}
  OBVIOUS
<1>3. \A i \in 1..10 : Downgrade[i] \in Tables
  BY <1>2 DEF Downgrade, Tables
<1>4. \A t \in Tables : \E i \in 1..10 : Downgrade[i] = t
  BY DEF Downgrade, Tables
<1>5. \A i, j \in 1..10 : Downgrade[i] = Downgrade[j] => i = j
  BY <1>2 DEF Downgrade
<1>6. \A i \in 1..10 : \A t \in Tables : Downgrade[i] \in References[t] =>
         \E j \in 1..10 : j < i /\ Downgrade[j] = t
  BY <1>2 DEF Downgrade, References, Tables
<1> QED
  BY <1>1, <1>3, <1>4, <1>5, <1>6

\* seed-demo writes an organisation before what belongs to it, and only to tables that
\* stand or fall with the organisations'.
LEMMA SeedFacts ==
  /\ DOMAIN SeedRows = 1..8
  /\ Range(SeedRows) = {SeedRows[i] : i \in 1..8}
  /\ \A i \in 1..8 : \E j \in 1..8 :
        j <= i /\ SeedRows[j] = <<"organizations", Belongs(SeedRows[i])>>
  /\ \A i \in 1..8 : /\ SeedRows[i][1] \in Tables
                      /\ \/ SeedRows[i][1] = "organizations"
                         \/ "organizations" \in References[SeedRows[i][1]]
<1>1. DOMAIN SeedRows = 1..8 /\ Range(SeedRows) = {SeedRows[i] : i \in 1..8}
  BY DEF SeedRows, Range
<1>2. \A i \in 1..8 : i \in {1, 2, 3, 4, 5, 6, 7, 8}
  OBVIOUS
<1>3. \A i \in 1..8 : \E j \in 1..8 :
         j <= i /\ SeedRows[j] = <<"organizations", Belongs(SeedRows[i])>>
  BY <1>2 DEF SeedRows, Belongs
<1>4. \A i \in 1..8 : /\ SeedRows[i][1] \in Tables
                      /\ \/ SeedRows[i][1] = "organizations"
                         \/ "organizations" \in References[SeedRows[i][1]]
  BY <1>2 DEF SeedRows, References, Tables
<1> QED
  BY <1>1, <1>3, <1>4

\* Whose turn it is comes before everything else that is left.
LEMMA FirstFacts ==
  ASSUME NEW todo \in SUBSET (1..10), NEW i \in First(todo)
  PROVE  i \in todo /\ \A j \in 1..10 : j < i => j \notin todo
  BY DEF First

\* What is done at once is left, and so is nothing before it that is not done as well.
LEMMA ChunkFacts ==
  ASSUME NEW todo \in SUBSET (1..10)
  PROVE  /\ Chunk(todo) \subseteq todo
         /\ \A i \in Chunk(todo), j \in 1..10 : j < i => j \notin todo \/ j \in Chunk(todo)
<1>1. CASE kind = "postgresql"
  BY <1>1 DEF Chunk
<1>2. CASE kind # "postgresql"
  BY <1>2, FirstFacts DEF Chunk
<1> QED
  BY <1>1, <1>2

\* Creating the next tables leaves none without those it refers to.
LEMMA CreationSound ==
  ASSUME NEW todo \in SUBSET (1..10), tables \subseteq Tables, Closed(tables),
         Made(todo) \subseteq tables,
         tables' = tables \cup {Upgrade[i] : i \in Chunk(todo)}
  PROVE  /\ Closed(tables') /\ tables' \subseteq Tables
         /\ Made(todo \ Chunk(todo)) \subseteq tables'
<1>1. ASSUME NEW i \in Chunk(todo)
      PROVE  i \in 1..10 /\ References[Upgrade[i]] \subseteq tables'
  <2>1. i \in todo /\ i \in 1..10
    BY ChunkFacts
  <2>2. ASSUME NEW t \in References[Upgrade[i]] PROVE t \in tables'
    <3>1. PICK j \in 1..10 : j < i /\ Upgrade[j] = t
      BY <2>1, UpgradeFacts
    <3>2. j \notin todo \/ j \in Chunk(todo)
      BY <3>1, ChunkFacts
    <3> QED
      BY <3>1, <3>2 DEF Made
  <2> QED
    BY <2>1, <2>2
<1>2. Closed(tables')
  BY <1>1 DEF Closed
<1>3. tables' \subseteq Tables
  BY <1>1, UpgradeFacts
<1>4. Made(todo \ Chunk(todo)) \subseteq tables'
  BY DEF Made
<1> QED
  BY <1>2, <1>3, <1>4

\* Dropping the next tables leaves none without those it refers to.
LEMMA DropSound ==
  ASSUME NEW todo \in SUBSET (1..10), tables \subseteq Tables, Closed(tables),
         Gone(todo) \cap tables = {},
         tables' = tables \ {Downgrade[i] : i \in Chunk(todo)}
  PROVE  Closed(tables') /\ Gone(todo \ Chunk(todo)) \cap tables' = {}
<1>1. ASSUME NEW t \in tables', NEW u \in References[t], u \notin tables'
      PROVE  FALSE
  <2>1. u \in tables
    BY <1>1 DEF Closed
  <2>2. PICK i \in Chunk(todo) : Downgrade[i] = u
    BY <1>1, <2>1
  <2>3. PICK j \in 1..10 : j < i /\ Downgrade[j] = t
    BY <1>1, <2>2, ChunkFacts, DowngradeFacts
  <2> QED
    BY <1>1, <2>2, <2>3, ChunkFacts DEF Gone
<1>2. Closed(tables')
  BY <1>1 DEF Closed
<1>3. Gone(todo \ Chunk(todo)) \cap tables' = {}
  BY DEF Gone
<1> QED
  BY <1>2, <1>3
-----------------------------------------------------------------------------
(* The inductive invariant *)

\* One seeder changes, the others keep their state.
LEMMA SeederMoves ==
  ASSUME TypeOK, NEW s \in Seeders, NEW pc, NEW todo, NEW absent,
         SeederGoes(s, pc, todo, absent)
  PROVE  /\ seeder'[s].pc = pc /\ seeder'[s].todo = todo /\ seeder'[s].absent = absent
         /\ \A u \in Seeders : u # s => seeder'[u] = seeder[u]
  BY DEF SeederGoes, TypeOK

\* A seeder that goes on with values of the types, and a server that does.
LEMMA SeederTyped ==
  ASSUME TypeOK, NEW s \in Seeders,
         NEW pc \in {"idle", "creating", "seeding", "done", "failed"},
         NEW todo \in SUBSET (1..10), NEW absent \in BOOLEAN,
         pc = "seeding" => todo \subseteq 1..8, SeederGoes(s, pc, todo, absent)
  PROVE  seeder' \in [Seeders -> SeederStates]
  BY DEF SeederGoes, TypeOK, SeederStates

LEMMA ServerTyped ==
  ASSUME NEW pc \in {"down", "upgrading", "serving", "exited", "downgrading"},
         NEW todo \in SUBSET (1..10), ServerGoes(pc, todo)
  PROVE  server' \in ServerStates /\ server'.pc = pc /\ server'.todo = todo
  BY DEF ServerGoes, ServerStates

\* Every step keeps the types.
LEMMA TypeInductive ==
  ASSUME TypeOK, [Next]_vars
  PROVE  TypeOK'
<1>1. CASE Up
  BY <1>1, UpgradeFacts, ServerTyped DEF TypeOK, schema, history, Up
<1>2. CASE UpgradeStatement
  <2>1. /\ server.todo \in SUBSET (1..10) /\ Chunk(server.todo) \subseteq server.todo
        /\ server.todo \ Chunk(server.todo) \in SUBSET (1..10)
    BY ChunkFacts DEF TypeOK, ServerStates
  <2>2. tables' \subseteq Tables
    BY <1>2, <2>1, UpgradeFacts DEF UpgradeStatement, TypeOK
  <2> QED
    BY <1>2, <2>1, <2>2, ServerTyped DEF UpgradeStatement, TypeOK, given, history
<1>3. CASE Stamp
  BY <1>3, ServerTyped DEF TypeOK, given, schema, history, Stamp
<1>4. CASE Serve
  BY <1>4, ServerTyped DEF TypeOK, given, schema, history, Serve
<1>5. CASE UpgradeFails
  BY <1>5, ServerTyped DEF TypeOK, given, schema, history, UpgradeFails
<1>6. CASE DowngradeStart
  <2>1. seeder' \in [Seeders -> SeederStates]
    BY <1>6 DEF DowngradeStart, Idle, SeederStates
  <2> QED
    BY <1>6, <2>1, DowngradeFacts, ServerTyped DEF DowngradeStart, TypeOK, schema, history
<1>7. CASE DowngradeStatement
  <2>1. server.todo \ Chunk(server.todo) \in SUBSET (1..10)
    BY DEF TypeOK, ServerStates
  <2>2. tables' \subseteq Tables /\ rows' \subseteq Range(SeedRows)
    BY <1>7 DEF DowngradeStatement, TypeOK
  <2>3. stamped' \in BOOLEAN
    BY <1>7 DEF DowngradeStatement, TypeOK
  <2> QED
    BY <1>7, <2>1, <2>2, <2>3, ServerTyped DEF DowngradeStatement, TypeOK, given, history
<1>8. CASE Unstamp
  BY <1>8, ServerTyped DEF TypeOK, given, schema, history, Unstamp
<1>9. CASE DowngradeFails
  BY <1>9, ServerTyped DEF TypeOK, given, schema, history, DowngradeFails
<1>10. ASSUME NEW s \in Seeders, Seed(s) PROVE TypeOK'
  <2>1. seeder' \in [Seeders -> SeederStates]
    BY <1>10, UpgradeFacts, SeederTyped DEF Seed
  <2> QED
    BY <1>10, <2>1 DEF Seed, TypeOK, schema, Command
<1>11. ASSUME NEW s \in Seeders, CreateTables(s) PROVE TypeOK'
  <2>1. /\ seeder[s].todo \in SUBSET (1..10)
        /\ seeder[s].todo \ Chunk(seeder[s].todo) \in SUBSET (1..10)
        /\ Chunk(seeder[s].todo) \subseteq 1..10
    BY ChunkFacts DEF TypeOK, SeederStates
  <2>2. tables' \subseteq Tables
    <3>1. \A i \in Chunk(seeder[s].todo) : Upgrade[i] \in Tables
      BY <2>1, UpgradeFacts
    <3>2. \/ UNCHANGED tables
          \/ tables' = tables \cup {Upgrade[i] : i \in Chunk(seeder[s].todo)}
      BY <1>11 DEF CreateTables
    <3> QED
      BY <3>1, <3>2 DEF TypeOK
  <2>3. seeder' \in [Seeders -> SeederStates]
    BY <1>11, <2>1, SeederTyped DEF CreateTables
  <2> QED
    BY <1>11, <2>2, <2>3 DEF CreateTables, TypeOK, given, history
<1>12. ASSUME NEW s \in Seeders, StartSeeding(s) PROVE TypeOK'
  <2>1. seeder' \in [Seeders -> SeederStates]
    <3>1. DOMAIN SeedRows \in SUBSET (1..10) /\ DOMAIN SeedRows \subseteq 1..8
      BY SeedFacts
    <3> QED
      BY <1>12, <3>1, SeederTyped DEF StartSeeding
  <2> QED
    BY <1>12, <2>1 DEF StartSeeding, TypeOK, given, schema, history
<1>13. ASSUME NEW s \in Seeders, Look(s) PROVE TypeOK'
  <2>1. /\ seeder[s].todo \in SUBSET (1..10)
        /\ seeder[s].pc = "seeding" => seeder[s].todo \subseteq 1..8
    BY DEF TypeOK, SeederStates
  <2>2. seeder' \in [Seeders -> SeederStates]
    BY <1>13, <2>1, SeederTyped DEF Look
  <2> QED
    BY <1>13, <2>2 DEF Look, TypeOK, given, schema, history
<1>14. ASSUME NEW s \in Seeders, Insert(s) PROVE TypeOK'
  <2>1. /\ seeder[s].todo \in SUBSET (1..10)
        /\ seeder[s].pc = "seeding" => seeder[s].todo \subseteq 1..8
    BY DEF TypeOK, SeederStates
  <2>2. seeder' \in [Seeders -> SeederStates]
    BY <1>14, <2>1, SeederTyped DEF Insert
  <2>3. \A i \in First(seeder[s].todo) : i \in seeder[s].todo /\ i \in 1..8
    BY <1>14, <2>1 DEF First, Insert
  <2>4. rows' \subseteq Range(SeedRows)
    BY <1>14, <2>1, <2>3, SeedFacts DEF Insert, TypeOK
  <2> QED
    BY <1>14, <2>2, <2>4 DEF Insert, TypeOK, given, schema, history
<1>15. ASSUME NEW s \in Seeders, FinishSeeding(s) PROVE TypeOK'
  BY <1>15, SeederTyped DEF TypeOK, given, schema, history, FinishSeeding
<1>16. CASE Crash
  <2>1. seeder' \in [Seeders -> SeederStates]
    BY <1>16 DEF Crash, Idle, TypeOK, SeederStates
  <2> QED
    BY <1>16, <2>1, ServerTyped DEF Crash, TypeOK, schema
<1>17. CASE UNCHANGED vars
  BY <1>17 DEF TypeOK, given, schema, history, vars, given, schema, history
<1> QED
  BY <1>1, <1>2, <1>3, <1>4, <1>5, <1>6, <1>7, <1>8, <1>9, <1>10, <1>11, <1>12,
     <1>13, <1>14, <1>15, <1>16, <1>17 DEF Next, Migrate, RunSeeder

\* No step leaves a table or a row without what it refers to.
LEMMA SoundInductive ==
  ASSUME IInv, [Next]_vars
  PROVE  Sound'
<1>1. CASE Up
  BY <1>1 DEF IInv, Sound, schema, Up
<1>2. CASE UpgradeStatement
  <2>1. Closed(tables') /\ tables \subseteq tables'
    BY <1>2, CreationSound DEF UpgradeStatement, IInv, TypeOK, Sound, ServerInv, Upgrading,
       ServerStates
  <2> QED
    BY <1>2, <2>1 DEF UpgradeStatement, IInv, Sound
<1>3. CASE Stamp
  BY <1>3 DEF IInv, Sound, schema, Stamp
<1>4. CASE Serve
  BY <1>4 DEF IInv, Sound, schema, Serve
<1>5. CASE UpgradeFails
  BY <1>5 DEF IInv, Sound, schema, UpgradeFails
<1>6. CASE DowngradeStart
  BY <1>6 DEF IInv, Sound, schema, DowngradeStart
<1>7. CASE DowngradeStatement
  <2>1. Closed(tables')
    BY <1>7, DropSound DEF DowngradeStatement, IInv, TypeOK, Sound, ServerInv, Downgrading,
       ServerStates
  <2>2. ASSUME NEW row \in rows'
        PROVE  row[1] \in tables' /\ <<"organizations", Belongs(row)>> \in rows'
    <3>1. row \in rows /\ row[1] \in tables'
      BY <1>7, <2>2 DEF DowngradeStatement
    <3>2. PICK i \in 1..8 : row = SeedRows[i]
      BY <3>1, SeedFacts DEF IInv, TypeOK
    <3>3. "organizations" \in tables'
      BY <2>1, <3>1, <3>2, SeedFacts DEF Closed
    <3>4. <<"organizations", Belongs(row)>> \in rows
      BY <3>1 DEF IInv, Sound
    <3> QED
      BY <1>7, <3>1, <3>3, <3>4 DEF DowngradeStatement
  <2> QED
    BY <2>1, <2>2 DEF Sound
<1>8. CASE Unstamp
  BY <1>8 DEF IInv, Sound, schema, Unstamp
<1>9. CASE DowngradeFails
  BY <1>9 DEF IInv, Sound, schema, DowngradeFails
<1>10. ASSUME NEW s \in Seeders, Seed(s) PROVE Sound'
  BY <1>10 DEF IInv, Sound, schema, Seed
<1>11. ASSUME NEW s \in Seeders, CreateTables(s) PROVE Sound'
  <2>1. Closed(tables') /\ tables \subseteq tables'
    <3>1. CASE UNCHANGED tables
      BY <3>1 DEF IInv, Sound
    <3>2. CASE tables' = tables \cup {Upgrade[i] : i \in Chunk(seeder[s].todo)}
      BY <1>11, <3>2, CreationSound DEF CreateTables, IInv, TypeOK, Sound, SeederInv,
         SeederStates
    <3> QED
      BY <1>11, <3>1, <3>2 DEF CreateTables
  <2> QED
    BY <1>11, <2>1 DEF CreateTables, IInv, Sound
<1>12. ASSUME NEW s \in Seeders, StartSeeding(s) PROVE Sound'
  BY <1>12 DEF IInv, Sound, schema, StartSeeding
<1>13. ASSUME NEW s \in Seeders, Look(s) PROVE Sound'
  BY <1>13 DEF IInv, Sound, schema, Look
<1>14. ASSUME NEW s \in Seeders, Insert(s) PROVE Sound'
  <2>1. CASE UNCHANGED rows
    BY <1>14, <2>1 DEF Insert, schema, IInv, Sound
  <2>2. ASSUME NEW i \in First(seeder[s].todo), rows' = rows \cup {SeedRows[i]}
        PROVE  Sound'
    <3>1. /\ i \in 1..8 /\ \A j \in 1..8 : j < i => SeedRows[j] \in rows
          /\ tables = Tables
      BY <1>14, FirstFacts DEF Insert, IInv, TypeOK, SeederStates, SeederInv, Sown
    <3>2. <<"organizations", Belongs(SeedRows[i])>> \in rows' /\ SeedRows[i][1] \in Tables
      <4>1. PICK j \in 1..8 : j <= i /\ SeedRows[j] = <<"organizations", Belongs(SeedRows[i])>>
        BY <3>1, SeedFacts
      <4>2. j < i \/ j = i
        BY <3>1, <4>1
      <4> QED
        BY <2>2, <3>1, <4>1, <4>2, SeedFacts
    <3> QED
      BY <1>14, <2>2, <3>1, <3>2 DEF Insert, schema, IInv, Sound
  <2> QED
    BY <1>14, <2>1, <2>2 DEF Insert
<1>15. ASSUME NEW s \in Seeders, FinishSeeding(s) PROVE Sound'
  BY <1>15 DEF IInv, Sound, schema, FinishSeeding
<1>16. CASE Crash
  BY <1>16 DEF IInv, Sound, schema, Crash
<1>17. CASE UNCHANGED vars
  BY <1>17 DEF IInv, Sound, schema, vars, given, schema, history
<1> QED
  BY <1>1, <1>2, <1>3, <1>4, <1>5, <1>6, <1>7, <1>8, <1>9, <1>10, <1>11, <1>12,
     <1>13, <1>14, <1>15, <1>16, <1>17 DEF Next, Migrate, RunSeeder

\* Every step fits the place of the server in its script.
LEMMA ServerInductive ==
  ASSUME IInv, [Next]_vars
  PROVE  ServerInv'
<1>1. CASE Up
  <2>1. server'.pc = "upgrading" /\ server'.todo = IF stamped THEN {} ELSE 1..10
    BY <1>1, UpgradeFacts DEF Up, ServerGoes
  <2> QED
    BY <1>1, <2>1 DEF Up, schema, ServerInv, Upgrading, Made
<1>2. CASE UpgradeStatement
  <2>1. /\ server.todo \in SUBSET (1..10) /\ Upgrading
        /\ server'.pc = "upgrading" /\ server'.todo = server.todo \ Chunk(server.todo)
    BY <1>2 DEF UpgradeStatement, ServerGoes, IInv, TypeOK, ServerStates, ServerInv
  <2>2. Made(server'.todo) \subseteq tables'
    BY <1>2, <2>1, CreationSound DEF UpgradeStatement, IInv, TypeOK, Sound, Upgrading
  <2>3. kind = "postgresql" => server'.todo = {}
    BY <2>1 DEF Chunk
  <2> QED
    BY <1>2, <2>1, <2>2, <2>3 DEF UpgradeStatement, given, ServerInv, Upgrading, Made
<1>3. CASE Stamp
  <2>1. server' = server /\ server.pc = "upgrading" /\ server.todo = {} /\ stamped'
    BY <1>3 DEF Stamp
  <2> QED
    BY <2>1 DEF ServerInv, Upgrading
<1>4. CASE Serve
  BY <1>4 DEF MayServe, schema, ServerGoes, ServerInv, Serve
<1>5. CASE UpgradeFails
  BY <1>5 DEF ServerGoes, ServerInv, UpgradeFails
<1>6. CASE DowngradeStart
  <2>1. server'.pc = "downgrading" /\ server'.todo = 1..10
    BY <1>6, DowngradeFacts DEF DowngradeStart, ServerGoes
  <2>2. Gone(1..10) = {} /\ Left(1..10) = Tables
    BY DowngradeFacts DEF Gone, Left
  <2>3. \A s \in Seeders : seeder'[s].pc = "idle"
    BY <1>6 DEF DowngradeStart, Idle
  <2>4. stamped /\ (Trusted => tables = Tables)
    BY <1>6 DEF DowngradeStart, IInv, SchemaInv
  <2>5. Gone(server'.todo) \cap tables = {} /\ (Trusted => tables = Left(server'.todo))
    BY <2>1, <2>2, <2>4
  <2> QED
    BY <1>6, <2>1, <2>3, <2>4, <2>5
    DEF DowngradeStart, schema, history, ServerInv, Downgrading, Gone, Left, Trusted
<1>7. CASE DowngradeStatement
  <2>1. /\ server.todo \in SUBSET (1..10) /\ Downgrading
        /\ server'.pc = "downgrading" /\ server'.todo = server.todo \ Chunk(server.todo)
    BY <1>7 DEF DowngradeStatement, ServerGoes, IInv, TypeOK, ServerStates, ServerInv
  <2>2. Gone(server'.todo) \cap tables' = {}
    BY <1>7, <2>1, DropSound DEF DowngradeStatement, IInv, TypeOK, Sound, Downgrading
  <2>3. kind = "postgresql" => server'.todo = {} /\ ~stamped'
    BY <1>7, <2>1 DEF DowngradeStatement, Chunk
  <2>4. tables = Left(server.todo) => tables' = Left(server'.todo)
    BY <1>7, <2>1, ChunkFacts, DowngradeFacts DEF DowngradeStatement, Left
  <2> QED
    BY <1>7, <2>1, <2>2, <2>3, <2>4
    DEF DowngradeStatement, given, history, ServerInv, Downgrading, Gone, Left, Trusted
<1>8. CASE Unstamp
  BY <1>8 DEF ServerGoes, ServerInv, Unstamp
<1>9. CASE DowngradeFails
  BY <1>9 DEF ServerGoes, ServerInv, DowngradeFails
<1>10. ASSUME NEW s \in Seeders, Seed(s) PROVE ServerInv'
  <2>1. server.pc # "downgrading"
    BY <1>10 DEF Seed
  <2> QED
    BY <1>10, <2>1 DEF Seed, schema, IInv, ServerInv, Upgrading, Made
<1>11. ASSUME NEW s \in Seeders, CreateTables(s) PROVE ServerInv'
  <2>1. server.pc # "downgrading"
    BY <1>11 DEF CreateTables, IInv, ServerInv, Downgrading
  <2> QED
    BY <1>11, <2>1 DEF CreateTables, given, schema, IInv, ServerInv, Upgrading, Made
<1>12. ASSUME NEW s \in Seeders, StartSeeding(s) PROVE ServerInv'
  <2>1. server.pc # "downgrading"
    BY <1>12 DEF StartSeeding, IInv, ServerInv, Downgrading
  <2> QED
    BY <1>12, <2>1 DEF StartSeeding, given, schema, IInv, ServerInv, Upgrading, Made
<1>13. ASSUME NEW s \in Seeders, Look(s) PROVE ServerInv'
  <2>1. server.pc # "downgrading"
    BY <1>13 DEF Look, IInv, ServerInv, Downgrading
  <2> QED
    BY <1>13, <2>1 DEF Look, given, schema, IInv, ServerInv, Upgrading, Made
<1>14. ASSUME NEW s \in Seeders, Insert(s) PROVE ServerInv'
  <2>1. server.pc # "downgrading"
    BY <1>14 DEF Insert, IInv, ServerInv, Downgrading
  <2> QED
    BY <1>14, <2>1 DEF Insert, given, schema, IInv, ServerInv, Upgrading, Made
<1>15. ASSUME NEW s \in Seeders, FinishSeeding(s) PROVE ServerInv'
  <2>1. server.pc # "downgrading"
    BY <1>15 DEF FinishSeeding, IInv, ServerInv, Downgrading
  <2> QED
    BY <1>15, <2>1 DEF FinishSeeding, given, schema, IInv, ServerInv, Upgrading, Made
<1>16. CASE Crash
  BY <1>16 DEF Crash, ServerGoes, ServerInv
<1>17. CASE UNCHANGED vars
  BY <1>17 DEF given, schema, history, ServerGoes, IInv, ServerInv, Upgrading,
     Downgrading, Made, Gone, Left, Trusted, vars, given, schema, history
<1> QED
  BY <1>1, <1>2, <1>3, <1>4, <1>5, <1>6, <1>7, <1>8, <1>9, <1>10, <1>11, <1>12,
     <1>13, <1>14, <1>15, <1>16, <1>17 DEF Next, Migrate, RunSeeder

\* A downgrade of a database to be trusted never fails.
LEMMA DowngradeAlwaysWorks ==
  ASSUME IInv, Downgrading, Trusted, server.pc = "downgrading"
  PROVE  Drops(server.todo)
<1>1. server.todo \in SUBSET (1..10) /\ tables = Left(server.todo) /\ tables \subseteq Tables
  BY DEF IInv, TypeOK, ServerStates, Downgrading
<1>2. ASSUME NEW i \in Chunk(server.todo) PROVE Downgrade[i] \in tables
  BY <1>1, ChunkFacts DEF Left
<1>3. ASSUME NEW i \in Chunk(server.todo), kind = "postgresql",
             NEW t \in tables, Downgrade[i] \in References[t]
      PROVE  \E j \in Chunk(server.todo) \cap 1..i : Downgrade[j] = t
  <2>1. Chunk(server.todo) = server.todo /\ i \in 1..10
    BY <1>1, <1>3 DEF Chunk
  <2>2. PICK j \in 1..10 : j < i /\ Downgrade[j] = t
    BY <1>1, <1>3, <2>1, DowngradeFacts
  <2>3. j \in server.todo
    BY <1>1, <2>2, DowngradeFacts DEF Left
  <2> QED
    BY <2>1, <2>2, <2>3
<1> QED
  BY <1>2, <1>3 DEF Drops

\* The revision is there only with all tables, unless SQLite was cut short in a downgrade.
LEMMA SchemaInductive ==
  ASSUME IInv, [Next]_vars
  PROVE  SchemaInv'
<1>1. CASE Up
  BY <1>1 DEF given, schema, history, ServerGoes, IInv, SchemaInv, Trusted, Up
<1>2. CASE UpgradeStatement
  <2>1. /\ server.todo \in SUBSET (1..10) /\ Upgrading /\ ~stamped
        /\ tables \subseteq Tables /\ kind \in {"postgresql", "sqlite"}
    BY <1>2 DEF UpgradeStatement, IInv, TypeOK, ServerStates, ServerInv, Upgrading
  <2>2. CASE kind = "postgresql"
    <3>1. Chunk(server.todo) = 1..10
      BY <2>1, <2>2 DEF Chunk, Upgrading
    <3>2. tables' = Tables
      BY <1>2, <2>1, <3>1, UpgradeFacts DEF UpgradeStatement
    <3> QED
      BY <3>2 DEF SchemaInv
  <2>3. CASE kind = "sqlite"
    BY <1>2, <2>3 DEF UpgradeStatement, given, SchemaInv
  <2> QED
    BY <2>1, <2>2, <2>3
<1>3. CASE Stamp
  <2>1. Made({}) \subseteq tables
    BY <1>3 DEF Stamp, IInv, ServerInv, Upgrading
  <2>2. tables = Tables
    BY <2>1, UpgradeFacts DEF Made, IInv, TypeOK
  <2> QED
    BY <1>3, <2>2 DEF Stamp, SchemaInv
<1>4. CASE Serve
  BY <1>4 DEF MayServe, given, schema, history, ServerGoes, IInv, SchemaInv, Trusted,
     Serve
<1>5. CASE UpgradeFails
  BY <1>5 DEF given, schema, history, ServerGoes, IInv, SchemaInv, Trusted,
     UpgradeFails
<1>6. CASE DowngradeStart
  BY <1>6 DEF given, schema, history, ServerGoes, IInv, SchemaInv, Trusted,
     DowngradeStart
<1>7. CASE DowngradeStatement
  <2>1. server'.pc = "downgrading" /\ server.pc = "downgrading"
    BY <1>7 DEF DowngradeStatement, ServerGoes
  <2>2. CASE kind = "postgresql"
    <3>1. stamped /\ server.todo = 1..10
      BY <1>7, <2>1, <2>2 DEF DowngradeStatement, IInv, ServerInv, Downgrading
    <3>2. tables' = {}
      BY <1>7, <2>2, <3>1, DowngradeFacts DEF DowngradeStatement, Chunk, IInv, TypeOK
    <3> QED
      BY <2>1, <3>2 DEF SchemaInv
  <2>3. CASE kind # "postgresql"
    BY <1>7, <2>1, <2>3 DEF DowngradeStatement, given, SchemaInv
  <2> QED
    BY <2>2, <2>3
<1>8. CASE Unstamp
  BY <1>8 DEF given, schema, history, ServerGoes, IInv, SchemaInv, Trusted, Unstamp
<1>9. CASE DowngradeFails
  <2>1. server.todo \in SUBSET (1..10) /\ Downgrading
    BY <1>9 DEF DowngradeFails, IInv, TypeOK, ServerStates, ServerInv
  <2>2. ~Trusted
    BY <1>9, <2>1, DowngradeAlwaysWorks DEF DowngradeFails
  <2> QED
    BY <1>9, <2>2 DEF DowngradeFails, given, schema, history, Trusted, IInv, SchemaInv
<1>10. ASSUME NEW s \in Seeders, Seed(s) PROVE SchemaInv'
  BY <1>10 DEF given, schema, history, ServerGoes, IInv, SchemaInv, Trusted, Seed
<1>11. ASSUME NEW s \in Seeders, CreateTables(s) PROVE SchemaInv'
  <2>1. /\ seeder[s].todo \in SUBSET (1..10) /\ Made(seeder[s].todo) \subseteq tables
        /\ tables \subseteq Tables
    BY <1>11 DEF CreateTables, IInv, TypeOK, SeederStates, SeederInv
  <2>2. CASE UNCHANGED tables
    BY <1>11, <2>2 DEF CreateTables, given, history, Trusted, IInv, SchemaInv
  <2>3. CASE tables' = tables \cup {Upgrade[i] : i \in Chunk(seeder[s].todo)}
    <3>1. tables \subseteq tables' /\ tables' \subseteq Tables
      BY <2>1, <2>3, ChunkFacts, UpgradeFacts
    <3>2. kind = "postgresql" => tables' = Tables
      BY <2>1, <2>3, UpgradeFacts DEF Chunk, Made
    <3> QED
      BY <1>11, <3>1, <3>2 DEF CreateTables, given, history, Trusted, IInv, SchemaInv
  <2> QED
    BY <1>11, <2>2, <2>3 DEF CreateTables
<1>12. ASSUME NEW s \in Seeders, StartSeeding(s) PROVE SchemaInv'
  BY <1>12 DEF given, schema, history, ServerGoes, IInv, SchemaInv, Trusted,
     StartSeeding
<1>13. ASSUME NEW s \in Seeders, Look(s) PROVE SchemaInv'
  BY <1>13 DEF given, schema, history, ServerGoes, IInv, SchemaInv, Trusted, Look
<1>14. ASSUME NEW s \in Seeders, Insert(s) PROVE SchemaInv'
  BY <1>14 DEF given, schema, history, ServerGoes, IInv, SchemaInv, Trusted, Insert
<1>15. ASSUME NEW s \in Seeders, FinishSeeding(s) PROVE SchemaInv'
  BY <1>15 DEF given, schema, history, ServerGoes, IInv, SchemaInv, Trusted,
     FinishSeeding
<1>16. CASE Crash
  <2>1. CASE Trusted' /\ stamped /\ server.pc = "downgrading"
    <3>1. kind = "postgresql" /\ Trusted /\ Downgrading /\ kind' = kind /\ tables' = tables
      BY <1>16, <2>1 DEF Crash, schema, IInv, TypeOK, ServerInv, Trusted
    <3>2. tables = Left(1..10)
      BY <2>1, <3>1 DEF Downgrading
    <3> QED
      BY <3>1, <3>2, DowngradeFacts DEF Left, SchemaInv
  <2>2. CASE ~(Trusted' /\ stamped /\ server.pc = "downgrading")
    BY <1>16, <2>2 DEF Crash, schema, IInv, SchemaInv, Trusted
  <2> QED
    BY <2>1, <2>2
<1>17. CASE UNCHANGED vars
  BY <1>17 DEF given, schema, history, ServerGoes, IInv, SchemaInv, Trusted, vars,
     given, schema, history
<1> QED
  BY <1>1, <1>2, <1>3, <1>4, <1>5, <1>6, <1>7, <1>8, <1>9, <1>10, <1>11, <1>12,
     <1>13, <1>14, <1>15, <1>16, <1>17 DEF Next, Migrate, RunSeeder

\* A seeder that a step leaves alone keeps its place while tables and rows only grow.
LEMMA SeederStays ==
  ASSUME TypeOK, TypeOK', SeederInv, NEW u \in Seeders, seeder'[u] = seeder[u],
         tables \subseteq tables', rows \subseteq rows'
  PROVE  /\ seeder'[u].pc = "creating" => Made(seeder'[u].todo) \subseteq tables'
         /\ seeder'[u].pc = "seeding" => /\ tables' = Tables
                                         /\ Sown(seeder'[u].todo) \subseteq rows'
         /\ seeder'[u].pc = "done" => Range(SeedRows) \subseteq rows'
  BY DEF SeederInv, TypeOK

\* All of them, when the step is the server's.
LEMMA SeedersStay ==
  ASSUME TypeOK, TypeOK', SeederInv, seeder' = seeder, tables \subseteq tables',
         rows \subseteq rows'
  PROVE  SeederInv'
  BY SeederStays DEF SeederInv

\* One seeder goes on, the others stay.
LEMMA SeederGoesOn ==
  ASSUME TypeOK, TypeOK', SeederInv, NEW s \in Seeders, NEW pc, NEW todo, NEW absent,
         SeederGoes(s, pc, todo, absent), tables \subseteq tables', rows \subseteq rows',
         pc = "creating" => Made(todo) \subseteq tables',
         pc = "seeding" => tables' = Tables /\ Sown(todo) \subseteq rows',
         pc = "done" => Range(SeedRows) \subseteq rows'
  PROVE  SeederInv'
<1> SUFFICES ASSUME NEW u \in Seeders
             PROVE  /\ seeder'[u].pc = "creating" => Made(seeder'[u].todo) \subseteq tables'
                    /\ seeder'[u].pc = "seeding" =>
                          tables' = Tables /\ Sown(seeder'[u].todo) \subseteq rows'
                    /\ seeder'[u].pc = "done" => Range(SeedRows) \subseteq rows'
  BY DEF SeederInv
<1>1. CASE u = s
  BY <1>1, SeederMoves
<1>2. CASE u # s
  <2>1. seeder'[u] = seeder[u]
    BY <1>2, SeederMoves
  <2> QED
    BY <2>1, SeederStays
<1> QED
  BY <1>1, <1>2

\* What a seeder wrote or found stays as long as it needs it.
LEMMA SeederInductive ==
  ASSUME IInv, TypeOK', [Next]_vars
  PROVE  SeederInv'
<1>1. CASE Up
  BY <1>1, SeedersStay DEF Up, schema, IInv
<1>2. CASE UpgradeStatement
  BY <1>2, SeedersStay DEF UpgradeStatement, IInv
<1>3. CASE Stamp
  BY <1>3, SeedersStay DEF Stamp, IInv
<1>4. CASE Serve
  BY <1>4, SeedersStay DEF Serve, schema, IInv
<1>5. CASE UpgradeFails
  BY <1>5, SeedersStay DEF UpgradeFails, schema, IInv
<1>6. CASE DowngradeStart
  BY <1>6 DEF DowngradeStart, Idle, SeederInv
<1>7. CASE DowngradeStatement
  <2>1. \A s \in Seeders : seeder'[s].pc \in {"idle", "failed"}
    BY <1>7 DEF DowngradeStatement, IInv, ServerInv, Downgrading
  <2> QED
    BY <2>1 DEF SeederInv
<1>8. CASE Unstamp
  BY <1>8, SeedersStay DEF Unstamp, IInv
<1>9. CASE DowngradeFails
  BY <1>9, SeedersStay DEF DowngradeFails, schema, IInv
<1>10. ASSUME NEW s \in Seeders, Seed(s) PROVE SeederInv'
  <2>1. Made({i \in DOMAIN Upgrade : Upgrade[i] \notin tables}) \subseteq tables'
    BY <1>10, UpgradeFacts DEF Seed, schema, Made
  <2> QED
    BY <1>10, <2>1, SeederGoesOn DEF Seed, schema, IInv
<1>11. ASSUME NEW s \in Seeders, CreateTables(s) PROVE SeederInv'
  <2>1. CASE SeederGoes(s, "failed", {}, FALSE) /\ UNCHANGED tables
    BY <1>11, <2>1, SeederGoesOn DEF CreateTables, IInv
  <2>2. CASE /\ tables' = tables \cup {Upgrade[i] : i \in Chunk(seeder[s].todo)}
             /\ SeederGoes(s, "creating", seeder[s].todo \ Chunk(seeder[s].todo), FALSE)
    <3>1. Made(seeder[s].todo \ Chunk(seeder[s].todo)) \subseteq tables'
      BY <1>11, <2>2, CreationSound
      DEF CreateTables, IInv, TypeOK, Sound, SeederInv, SeederStates
    <3> QED
      BY <1>11, <2>2, <3>1, SeederGoesOn DEF CreateTables, IInv
  <2> QED
    BY <1>11, <2>1, <2>2 DEF CreateTables
<1>12. ASSUME NEW s \in Seeders, StartSeeding(s) PROVE SeederInv'
  <2>1. tables' = Tables
    <3>1. Made({}) \subseteq tables /\ tables \subseteq Tables /\ tables' = tables
      BY <1>12 DEF StartSeeding, schema, IInv, TypeOK, SeederInv
    <3> QED
      BY <3>1, UpgradeFacts DEF Made
  <2>2. Sown(DOMAIN SeedRows) = {}
    BY SeedFacts DEF Sown
  <2> QED
    BY <1>12, <2>1, <2>2, SeederGoesOn DEF StartSeeding, schema, IInv
<1>13. ASSUME NEW s \in Seeders, Look(s) PROVE SeederInv'
  <2>1. tables' = Tables /\ Sown(seeder[s].todo) \subseteq rows'
    BY <1>13 DEF Look, schema, IInv, SeederInv
  <2>2. ASSUME NEW i \in First(seeder[s].todo), Found(SeedRows[i]),
               SeederGoes(s, "seeding", seeder[s].todo \ {i}, FALSE)
        PROVE  SeederInv'
    <3>1. Sown(seeder[s].todo \ {i}) \subseteq rows'
      BY <1>13, <2>1, <2>2 DEF Look, Found, Sown
    <3> QED
      BY <1>13, <2>1, <2>2, <3>1, SeederGoesOn DEF Look, schema, IInv
  <2>3. CASE SeederGoes(s, "seeding", seeder[s].todo, TRUE)
    BY <1>13, <2>1, <2>3, SeederGoesOn DEF Look, schema, IInv
  <2> QED
    BY <1>13, <2>2, <2>3 DEF Look
<1>14. ASSUME NEW s \in Seeders, Insert(s) PROVE SeederInv'
  <2>1. CASE SeederGoes(s, "failed", {}, FALSE) /\ UNCHANGED rows
    BY <1>14, <2>1, SeederGoesOn DEF Insert, schema, IInv
  <2>2. ASSUME NEW i \in First(seeder[s].todo), rows' = rows \cup {SeedRows[i]},
               SeederGoes(s, "seeding", seeder[s].todo \ {i}, FALSE)
        PROVE  SeederInv'
    <3>1. tables' = Tables /\ Sown(seeder[s].todo) \subseteq rows
      BY <1>14 DEF Insert, schema, IInv, SeederInv
    <3>2. Sown(seeder[s].todo \ {i}) \subseteq rows'
      BY <2>2, <3>1 DEF Sown
    <3> QED
      BY <1>14, <2>2, <3>1, <3>2, SeederGoesOn DEF Insert, schema, IInv
  <2> QED
    BY <1>14, <2>1, <2>2 DEF Insert
<1>15. ASSUME NEW s \in Seeders, FinishSeeding(s) PROVE SeederInv'
  <2>1. Sown({}) \subseteq rows
    BY <1>15 DEF FinishSeeding, IInv, SeederInv
  <2>2. Range(SeedRows) \subseteq rows
    BY <2>1, SeedFacts DEF Sown
  <2> QED
    BY <1>15, <2>2, SeederGoesOn DEF FinishSeeding, schema, IInv
<1>16. CASE Crash
  <2>1. \A s \in Seeders : seeder'[s] = seeder[s] \/ seeder'[s].pc = "idle"
    BY <1>16 DEF Crash, Idle
  <2>2. tables' = tables /\ rows' = rows
    BY <1>16 DEF Crash, schema
  <2> QED
    BY <2>1, <2>2, SeederStays DEF SeederInv, IInv
<1>17. CASE UNCHANGED vars
  BY <1>17, SeedersStay DEF vars, schema, IInv
<1> QED
  BY <1>1, <1>2, <1>3, <1>4, <1>5, <1>6, <1>7, <1>8, <1>9, <1>10, <1>11, <1>12,
     <1>13, <1>14, <1>15, <1>16, <1>17 DEF Next, Migrate, RunSeeder

\* An upgrade fails only over a table that is there already.
LEMMA UpgradeFailsOver ==
  ASSUME IInv, Upgrading, server.pc = "upgrading", ~Creates(server.todo)
  PROVE  tables # Made(server.todo)
<1>1. server.todo \in SUBSET (1..10)
  BY DEF IInv, TypeOK, ServerStates
<1> SUFFICES ASSUME tables = Made(server.todo) PROVE Creates(server.todo)
  OBVIOUS
<1>2. ASSUME NEW i \in Chunk(server.todo) PROVE Upgrade[i] \notin tables
  BY <1>1, ChunkFacts, UpgradeFacts DEF Made
<1>3. ASSUME NEW i \in Chunk(server.todo), NEW t \in References[Upgrade[i]]
      PROVE  t \in tables \cup {Upgrade[j] : j \in Chunk(server.todo) \cap 1..(i - 1)}
  <2>1. i \in 1..10
    BY <1>1, ChunkFacts
  <2>2. PICK j \in 1..10 : j < i /\ Upgrade[j] = t
    BY <2>1, UpgradeFacts
  <2>3. j \notin server.todo \/ j \in Chunk(server.todo)
    BY <1>1, <2>2, ChunkFacts
  <2> QED
    BY <2>1, <2>2, <2>3 DEF Made
<1> QED
  BY <1>2, <1>3 DEF Creates

\* A database that was not seeded too early keeps exactly the tables of its
\* migration.
LEMMA UntouchedInductive ==
  ASSUME IInv, ServerInv', ~early', Uncut', [Next]_vars
  PROVE  Untouched'
<1>1. CASE Up
  <2>1. Untouched
    BY <1>1 DEF Up, history, IInv, Uncut, Trusted
  <2>2. server'.pc = "upgrading" /\ server'.todo = IF stamped THEN {} ELSE 1..10
    BY <1>1, UpgradeFacts DEF Up, ServerGoes
  <2> QED
    BY <1>1, <2>1, <2>2 DEF Up, schema, Untouched, Made
<1>2. CASE UpgradeStatement
  <2>1. Untouched
    BY <1>2 DEF UpgradeStatement, given, history, IInv, Uncut, Trusted
  <2>2. /\ server.todo \in SUBSET (1..10) /\ ~stamped /\ server.pc = "upgrading"
        /\ server'.pc = "upgrading" /\ server'.todo = server.todo \ Chunk(server.todo)
    BY <1>2 DEF UpgradeStatement, ServerGoes, IInv, TypeOK, ServerStates, ServerInv, Upgrading
  <2>3. tables' = Made(server'.todo)
    BY <1>2, <2>1, <2>2, ChunkFacts DEF UpgradeStatement, Untouched, Made
  <2> QED
    BY <1>2, <2>1, <2>2, <2>3 DEF UpgradeStatement, Untouched, Made
<1>3. CASE Stamp
  <2>1. Untouched
    BY <1>3 DEF Stamp, given, history, IInv, Uncut, Trusted
  <2> QED
    BY <1>3, <2>1 DEF Stamp, Untouched
<1>4. CASE Serve
  <2>1. Untouched
    BY <1>4 DEF Serve, given, history, IInv, Uncut, Trusted
  <2> QED
    BY <1>4, <2>1 DEF Serve, MayServe, ServerGoes, schema, Untouched
<1>5. CASE UpgradeFails
  <2>1. Untouched
    BY <1>5 DEF UpgradeFails, given, history, IInv, Uncut, Trusted
  <2>2. server.pc = "upgrading" /\ Upgrading /\ ~stamped
    BY <1>5 DEF UpgradeFails, IInv, ServerInv, Upgrading
  <2>3. tables = Made(server.todo)
    BY <2>1, <2>2 DEF Untouched
  <2> QED
    BY <1>5, <2>2, <2>3, UpgradeFailsOver DEF UpgradeFails
<1>6. CASE DowngradeStart
  <2>1. server'.pc = "downgrading" /\ stamped'
    BY <1>6 DEF DowngradeStart, ServerGoes, schema
  <2>2. \A s \in Seeders : seeder'[s].pc = "idle"
    BY <1>6 DEF DowngradeStart, Idle
  <2> QED
    BY <2>1, <2>2 DEF Untouched
<1>7. CASE DowngradeStatement
  <2>1. Untouched
    BY <1>7 DEF DowngradeStatement, given, history, IInv, Uncut, Trusted
  <2>2. server'.pc = "downgrading" /\ tables' = Left(server'.todo)
    BY <1>7 DEF DowngradeStatement, ServerGoes, ServerInv, Downgrading, Uncut, Trusted
  <2> QED
    BY <1>7, <2>1, <2>2 DEF DowngradeStatement, Untouched, Left
<1>8. CASE Unstamp
  <2>1. Untouched
    BY <1>8 DEF Unstamp, given, history, IInv, Uncut, Trusted
  <2>2. tables = {} /\ server'.pc = "down"
    BY <1>8 DEF Unstamp, ServerGoes, given, history, Uncut, Trusted, IInv, ServerInv,
       Downgrading, Left
  <2> QED
    BY <1>8, <2>1, <2>2 DEF Unstamp, Untouched
<1>9. CASE DowngradeFails
  <2>1. Downgrading /\ Trusted /\ server.pc = "downgrading"
    BY <1>9 DEF DowngradeFails, given, history, Uncut, Trusted, IInv, ServerInv
  <2> QED
    BY <1>9, <2>1, DowngradeAlwaysWorks DEF DowngradeFails
<1>10. ASSUME NEW s \in Seeders, Seed(s) PROVE Untouched'
  <2>1. Untouched
    BY <1>10 DEF Seed, IInv, Uncut, Trusted
  <2>2. tables = Tables /\ stamped
    BY <1>10 DEF Seed, IInv, SchemaInv, Uncut, Trusted
  <2>3. {i \in DOMAIN Upgrade : Upgrade[i] \notin tables} = {}
    BY <2>2, UpgradeFacts
  <2>4. SeederGoes(s, "creating", {}, FALSE)
    BY <1>10, <2>3 DEF Seed
  <2>5. \A u \in Seeders : u = s \/ seeder'[u] = seeder[u]
    BY <2>4, SeederMoves DEF IInv
  <2>6. seeder'[s].todo = {}
    BY <2>4, SeederMoves DEF IInv
  <2> QED
    BY <1>10, <2>1, <2>2, <2>5, <2>6 DEF Seed, schema, Untouched
<1>11. ASSUME NEW s \in Seeders, CreateTables(s) PROVE Untouched'
  <2>1. Untouched
    BY <1>11 DEF CreateTables, given, history, IInv, Uncut, Trusted
  <2> QED
    BY <1>11, <2>1 DEF CreateTables, Untouched
<1>12. ASSUME NEW s \in Seeders, StartSeeding(s) PROVE Untouched'
  <2>1. Untouched
    BY <1>12 DEF StartSeeding, given, history, IInv, Uncut, Trusted
  <2>2. \A u \in Seeders : seeder'[u] = seeder[u] \/ seeder'[u].pc = "seeding"
    BY <1>12, SeederMoves DEF StartSeeding, IInv
  <2> QED
    BY <1>12, <2>1, <2>2 DEF StartSeeding, schema, Untouched, Made, Left
<1>13. ASSUME NEW s \in Seeders, Look(s) PROVE Untouched'
  <2>1. Untouched
    BY <1>13 DEF Look, given, history, IInv, Uncut, Trusted
  <2>2. \A u \in Seeders : \/ seeder'[u] = seeder[u]
                         \/ seeder'[u].pc \in {"seeding", "failed"}
    BY <1>13, SeederMoves DEF Look, IInv
  <2> QED
    BY <1>13, <2>1, <2>2 DEF Look, schema, Untouched, Made, Left
<1>14. ASSUME NEW s \in Seeders, Insert(s) PROVE Untouched'
  <2>1. Untouched
    BY <1>14 DEF Insert, given, history, IInv, Uncut, Trusted
  <2>2. \A u \in Seeders : \/ seeder'[u] = seeder[u]
                         \/ seeder'[u].pc \in {"seeding", "failed"}
    BY <1>14, SeederMoves DEF Insert, IInv
  <2> QED
    BY <1>14, <2>1, <2>2 DEF Insert, schema, Untouched, Made, Left
<1>15. ASSUME NEW s \in Seeders, FinishSeeding(s) PROVE Untouched'
  <2>1. Untouched
    BY <1>15 DEF FinishSeeding, given, history, IInv, Uncut, Trusted
  <2>2. \A u \in Seeders : seeder'[u] = seeder[u] \/ seeder'[u].pc = "done"
    BY <1>15, SeederMoves DEF FinishSeeding, IInv
  <2> QED
    BY <1>15, <2>1, <2>2 DEF FinishSeeding, schema, Untouched, Made, Left
<1>16. CASE Crash
  <2>1. Untouched
    BY <1>16 DEF Crash, IInv, Uncut, Trusted
  <2>2. \A u \in Seeders : seeder'[u] = seeder[u] \/ seeder'[u].pc = "idle"
    BY <1>16 DEF Crash, Idle
  <2>3. server'.pc = "down" /\ tables' = tables /\ stamped' = stamped
    BY <1>16 DEF Crash, ServerGoes, schema
  <2>4. ~stamped => tables = {}
    <3>1. ASSUME ~stamped, server.pc = "upgrading" PROVE tables = {}
      <4>1. kind = "postgresql"
        BY <1>16, <3>1 DEF Crash, Uncut, Trusted, IInv, TypeOK
      <4>2. server.todo = 1..10
        BY <3>1, <4>1 DEF IInv, ServerInv, Upgrading
      <4> QED
        BY <2>1, <3>1, <4>2 DEF Untouched, Made
    <3>2. ASSUME ~stamped, server.pc = "downgrading" PROVE tables = {}
      <4>1. kind = "postgresql"
        BY <1>16, <3>2 DEF Crash, Uncut, Trusted, IInv, TypeOK
      <4>2. server.todo = {}
        BY <3>2, <4>1 DEF IInv, ServerInv, Downgrading
      <4> QED
        BY <2>1, <3>2, <4>2 DEF Untouched, Left
    <3> QED
      BY <2>1, <3>1, <3>2 DEF Untouched
  <2> QED
    BY <2>1, <2>2, <2>3, <2>4 DEF Untouched
<1>17. CASE UNCHANGED vars
  BY <1>17 DEF vars, given, schema, history, IInv, Uncut, Trusted, Untouched, Made, Left
<1> QED
  BY <1>1, <1>2, <1>3, <1>4, <1>5, <1>6, <1>7, <1>8, <1>9, <1>10, <1>11, <1>12,
     <1>13, <1>14, <1>15, <1>16, <1>17 DEF Next, Migrate, RunSeeder

\* The invariant is inductive, and holds at first.
LEMMA Inductive == IInv /\ [Next]_vars => IInv'
  BY TypeInductive, SoundInductive, ServerInductive, SchemaInductive, SeederInductive,
     UntouchedInductive DEF IInv

LEMMA AtFirst == Init => IInv
<1> SUFFICES ASSUME Init PROVE IInv
  OBVIOUS
<1>1. TypeOK
  BY DeploymentAssumption DEF Init, Idle, TypeOK, ServerStates, SeederStates
<1> QED
  BY <1>1 DEF Init, Idle, IInv, Sound, Closed, ServerInv, SchemaInv, SeederInv, Untouched

LEMMA Invariance == Spec => []IInv
  BY AtFirst, Inductive, PTL DEF Spec

-----------------------------------------------------------------------------
(* The theorems *)

\* Tables, rows and what server and seeders have left to do are of the program's types.
THEOREM DeploymentTypeCorrect == Spec => []TypeOK
<1>1. IInv => TypeOK
  BY DEF IInv
<1> QED
  BY <1>1, Invariance, PTL

\* "alembic upgrade head && uvicorn" never serves on half a schema, however many seeders
\* create tables past the migration and wherever upgrades die, unless SQLite was cut short
\* in a downgrade.
THEOREM ServedSchemaIsCompleteHolds == Spec => []ServedSchemaIsComplete
<1>1. IInv => ServedSchemaIsComplete
  BY DEF IInv, ServerInv, SchemaInv, Trusted, ServedSchemaIsComplete
<1> QED
  BY <1>1, Invariance, PTL

\* A migration fails only if seed-demo came before it or SQLite was cut short.
THEOREM FailuresAreExplainedHolds == Spec => []FailuresAreExplained
<1>1. IInv => FailuresAreExplained
  BY DEF IInv, Untouched, Uncut, FailuresAreExplained
<1> QED
  BY <1>1, Invariance, PTL

\* No moment of a migration or a seeding leaves a table or row without what it refers to.
THEOREM NoDanglingReferenceHolds == Spec => []NoDanglingReference
<1>1. IInv => NoDanglingReference
  BY DEF IInv, Sound, Closed, NoDanglingReference
<1> QED
  BY <1>1, Invariance, PTL

\* Whoever's seed-demo ends well finds all the demo data there, however many ran at once.
THEOREM SeedIsCompleteHolds == Spec => []SeedIsComplete
<1>1. IInv => SeedIsComplete
  BY DEF IInv, SeederInv, SeedIsComplete
<1> QED
  BY <1>1, Invariance, PTL
=============================================================================
