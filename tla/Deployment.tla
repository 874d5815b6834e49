------------------------------ MODULE Deployment ------------------------------
(***************************************************************************)
(* Bringing the system up: the migration (alembic/versions, run by         *)
(* "alembic upgrade head && uvicorn" in docker-compose.yml or by hand),    *)
(* its downgrade, and the demo data (scripts/seed_demo.py), which creates  *)
(* missing tables itself, past the migration.  PostgreSQL runs a migration *)
(* and create_all in one transaction each; SQLite commits every statement. *)
(* A table stands for itself and its indexes.                              *)
(***************************************************************************)
EXTENDS Naturals, Functions

CONSTANTS
    Kinds,          \* databases to consider, of {"postgresql", "sqlite"}
    Seeders,        \* runs of seed-demo that may overlap
    MaxCommands,    \* bound: commands the operators give
    MaxCrashes      \* bound: crashes

ASSUME DeploymentAssumption == /\ Kinds \subseteq {"postgresql", "sqlite"}
                               /\ MaxCommands \in Nat /\ MaxCrashes \in Nat

\* Mutant: drafts are created before the suppliers they refer to.
UpgradeDraftsFirst ==
    <<"organizations", "app_users", "finance_documents", "finance_document_versions",
      "agent_runs", "approval_requests", "draft_pre_entries", "suppliers",
      "tool_executions", "llm_executions">>

\* The tables, in the order upgrade() creates them.
Upgrade ==
    <<"organizations", "app_users", "suppliers", "finance_documents",
      "finance_document_versions", "agent_runs", "approval_requests",
      "draft_pre_entries", "tool_executions", "llm_executions">>

\* In the order downgrade() drops them.
Downgrade ==
    <<"llm_executions", "tool_executions", "draft_pre_entries", "approval_requests",
      "agent_runs", "finance_document_versions", "finance_documents", "suppliers",
      "app_users", "organizations">>

Tables == {"organizations", "app_users", "suppliers", "finance_documents",
           "finance_document_versions", "agent_runs", "approval_requests",
           "draft_pre_entries", "tool_executions", "llm_executions"}

\* Foreign keys between tables.
References ==
    [t \in Tables |->
       CASE t = "organizations" -> {}
         [] t \in {"app_users", "suppliers"} -> {"organizations"}
         [] t = "finance_documents" -> {"organizations", "app_users"}
         [] t = "finance_document_versions" ->
              {"organizations", "app_users", "finance_documents"}
         [] t = "agent_runs" ->
              {"organizations", "app_users", "finance_documents",
               "finance_document_versions"}
         [] t = "approval_requests" -> {"organizations", "app_users", "agent_runs"}
         [] t = "draft_pre_entries" -> {"organizations", "agent_runs", "suppliers"}
         [] t = "tool_executions" -> {"organizations", "agent_runs"}
         [] t = "llm_executions" ->
              {"organizations", "app_users", "finance_documents", "agent_runs"}]

\* Mutant: the people come before the organisations.
SeedUsersFirst ==
    <<<<"app_users", "ana@acme.demo">>, <<"app_users", "bruno@northwind.demo">>,
      <<"organizations", "acme-finance">>, <<"organizations", "northwind-ops">>,
      <<"suppliers", "SUP-001">>, <<"suppliers", "SUP-002">>,
      <<"suppliers", "SUP-003">>, <<"suppliers", "SUP-900">>>>

\* The demo data, in the order the script looks for it.
SeedRows ==
    <<<<"organizations", "acme-finance">>, <<"organizations", "northwind-ops">>,
      <<"app_users", "ana@acme.demo">>, <<"app_users", "bruno@northwind.demo">>,
      <<"suppliers", "SUP-001">>, <<"suppliers", "SUP-002">>,
      <<"suppliers", "SUP-003">>, <<"suppliers", "SUP-900">>>>

Belongs(row) == IF row[2] \in {"northwind-ops", "bruno@northwind.demo", "SUP-900"}
                THEN "northwind-ops" ELSE "acme-finance"

VARIABLES
    kind,       \* the database
    tables,     \* tables committed
    stamped,    \* alembic_version names the revision
    rows,       \* demo rows committed
    server,     \* the api container, or the operator's alembic command
    seeder,     \* the runs of seed-demo; todo is what is left of a script, as positions
    commands, crashes,
    early,      \* history: seed-demo was started on a database not migrated
    cut         \* history: what the server was at when it was cut short

schema  == <<tables, stamped>>
given   == <<kind, commands, crashes>>
history == <<early, cut>>
vars    == <<given, schema, rows, server, seeder, history>>

Idle == [pc |-> "idle", todo |-> {}, absent |-> FALSE]

Init ==
    /\ kind \in Kinds
    /\ tables = {} /\ stamped = FALSE /\ rows = {}
    /\ server = [pc |-> "down", todo |-> {}]
    /\ seeder = [s \in Seeders |-> Idle]
    /\ commands = 0 /\ crashes = 0
    /\ early = FALSE /\ cut = {}

\* Somebody gives a command.
Command == commands < MaxCommands /\ commands' = commands + 1

ServerGoes(pc, todo) == server' = [pc |-> pc, todo |-> todo]

Working(s) == seeder[s].pc \in {"creating", "seeding"}

-----------------------------------------------------------------------------
(* Statements *)

\* Whose turn it is, and what becomes visible at once: PostgreSQL commits the whole
\* script.
First(todo) == {i \in todo : \A j \in todo : i <= j}
Chunk(todo) == IF kind = "postgresql" THEN todo ELSE First(todo)

\* CREATE TABLE: the table is new, and PostgreSQL wants the tables it refers to.
Creates(todo) == \A i \in Chunk(todo) :
    /\ Upgrade[i] \notin tables
    /\ kind = "postgresql" =>
          References[Upgrade[i]] \subseteq
              tables \cup {Upgrade[j] : j \in Chunk(todo) \cap 1..(i - 1)}

\* DROP TABLE: the table is there, and for PostgreSQL nothing refers to it.
Drops(todo) == \A i \in Chunk(todo) :
    /\ Downgrade[i] \in tables
    /\ kind = "postgresql" =>
          \A t \in tables \ {Downgrade[j] : j \in Chunk(todo) \cap 1..i} :
             Downgrade[i] \notin References[t]

-----------------------------------------------------------------------------
(* alembic upgrade head && uvicorn *)

\* A database that carries the revision is left alone.
Up ==
    /\ server.pc \in {"down", "exited"}
    /\ Command
    /\ ServerGoes("upgrading", IF stamped THEN {} ELSE DOMAIN Upgrade)
    /\ UNCHANGED <<kind, schema, rows, seeder, crashes, history>>

UpgradeStatement ==
    /\ server.pc = "upgrading" /\ server.todo # {}
    /\ Creates(server.todo)
    /\ tables' = tables \cup {Upgrade[i] : i \in Chunk(server.todo)}
    /\ stamped' = (kind = "postgresql")
    /\ ServerGoes("upgrading", server.todo \ Chunk(server.todo))
    /\ UNCHANGED <<given, rows, seeder, history>>

\* SQLite: the revision is written last, in a statement of its own.
Stamp ==
    /\ server.pc = "upgrading" /\ server.todo = {} /\ ~stamped
    /\ stamped' = TRUE
    /\ UNCHANGED <<given, tables, rows, server, seeder, history>>

\* Mutant: "alembic upgrade head; uvicorn".
ServeAnyway == server.pc \in {"upgrading", "exited"}

MayServe == server.pc = "upgrading" /\ server.todo = {} /\ stamped

Serve ==
    /\ MayServe
    /\ ServerGoes("serving", {})
    /\ UNCHANGED <<given, schema, rows, seeder, history>>

UpgradeFails ==
    /\ server.pc = "upgrading" /\ server.todo # {}
    /\ ~Creates(server.todo)
    /\ ServerGoes("exited", {})
    /\ UNCHANGED <<given, schema, rows, seeder, history>>

-----------------------------------------------------------------------------
(* alembic downgrade base; who gives it stops the API first, and nothing else *)
(* uses the database                                                          *)

DowngradeStart ==
    /\ server.pc \in {"down", "exited", "serving"} /\ stamped
    /\ \A s \in Seeders : ~Working(s)
    /\ Command
    /\ ServerGoes("downgrading", DOMAIN Downgrade)
    /\ seeder' = [s \in Seeders |-> Idle]
    /\ UNCHANGED <<kind, schema, rows, crashes, history>>

DowngradeStatement ==
    /\ server.pc = "downgrading" /\ server.todo # {}
    /\ Drops(server.todo)
    /\ tables' = tables \ {Downgrade[i] : i \in Chunk(server.todo)}
    /\ rows' = {row \in rows : row[1] \in tables'}
    /\ stamped' = (stamped /\ kind # "postgresql")
    /\ ServerGoes("downgrading", server.todo \ Chunk(server.todo))
    /\ UNCHANGED <<given, seeder, history>>

\* SQLite removes the revision last.
Unstamp ==
    /\ server.pc = "downgrading" /\ server.todo = {}
    /\ stamped' = FALSE
    /\ ServerGoes("down", {})
    /\ UNCHANGED <<given, tables, rows, seeder, history>>

DowngradeFails ==
    /\ server.pc = "downgrading" /\ server.todo # {}
    /\ ~Drops(server.todo)
    /\ ServerGoes("exited", {})
    /\ UNCHANGED <<given, schema, rows, seeder, history>>

-----------------------------------------------------------------------------
(* seed-demo *)

SeederGoes(s, pc, todo, absent) ==
    seeder' = [seeder EXCEPT ![s] = [pc |-> pc, todo |-> todo, absent |-> absent]]

\* create_all looks for the tables first, and goes on with those it did not find.
Seed(s) ==
    /\ ~Working(s) /\ server.pc # "downgrading"
    /\ Command
    /\ SeederGoes(s, "creating", {i \in DOMAIN Upgrade : Upgrade[i] \notin tables}, FALSE)
    /\ early' = (early \/ ~stamped)
    /\ UNCHANGED <<kind, schema, rows, server, crashes, cut>>

CreateTables(s) ==
    LET todo == seeder[s].todo IN
    /\ seeder[s].pc = "creating" /\ todo # {}
    /\ IF Creates(todo)
       THEN /\ tables' = tables \cup {Upgrade[i] : i \in Chunk(todo)}
            /\ SeederGoes(s, "creating", todo \ Chunk(todo), FALSE)
       ELSE /\ SeederGoes(s, "failed", {}, FALSE)
            /\ UNCHANGED tables
    /\ UNCHANGED <<given, stamped, rows, server, history>>

StartSeeding(s) ==
    /\ seeder[s].pc = "creating" /\ seeder[s].todo = {}
    /\ SeederGoes(s, "seeding", DOMAIN SeedRows, FALSE)
    /\ UNCHANGED <<given, schema, rows, server, history>>

\* Mutant: a user or supplier is not looked for when its organisation was there.
FoundWithOrganization(row) ==
    row \in rows \/ (row[1] # "organizations" /\ <<"organizations", Belongs(row)>> \in rows)

\* get_by_slug, get_by_org_and_email, list_by_organization.
Found(row) == row \in rows

Look(s) ==
    LET todo == seeder[s].todo IN
    /\ seeder[s].pc = "seeding" /\ ~seeder[s].absent
    /\ \E i \in First(todo) : IF Found(SeedRows[i])
                              THEN SeederGoes(s, "seeding", todo \ {i}, FALSE)
                              ELSE SeederGoes(s, "seeding", todo, TRUE)
    /\ UNCHANGED <<given, schema, rows, server, history>>

\* create and commit; a row another seeder wrote meanwhile violates its unique
\* constraint, and the script ends with the error.
Insert(s) ==
    LET todo == seeder[s].todo IN
    /\ seeder[s].pc = "seeding" /\ seeder[s].absent
    /\ \E i \in First(todo) :
          IF SeedRows[i] \in rows
          THEN SeederGoes(s, "failed", {}, FALSE) /\ UNCHANGED rows
          ELSE /\ rows' = rows \cup {SeedRows[i]}
               /\ SeederGoes(s, "seeding", todo \ {i}, FALSE)
    /\ UNCHANGED <<given, schema, server, history>>

FinishSeeding(s) ==
    /\ seeder[s].pc = "seeding" /\ seeder[s].todo = {}
    /\ SeederGoes(s, "done", {}, FALSE)
    /\ UNCHANGED <<given, schema, rows, server, history>>

-----------------------------------------------------------------------------

\* The container dies, and whatever docker compose exec runs in it.
Crash ==
    /\ crashes < MaxCrashes /\ crashes' = crashes + 1
    /\ ServerGoes("down", {})
    /\ seeder' = [s \in Seeders |-> IF Working(s) THEN Idle ELSE seeder[s]]
    /\ cut' = cut \cup ({server.pc} \cap {"upgrading", "downgrading"})
    /\ UNCHANGED <<kind, schema, rows, commands, early>>

Migrate == \/ Up \/ UpgradeStatement \/ Stamp \/ Serve \/ UpgradeFails
           \/ DowngradeStart \/ DowngradeStatement \/ Unstamp \/ DowngradeFails

RunSeeder(s) == \/ Seed(s) \/ CreateTables(s) \/ StartSeeding(s)
                \/ Look(s) \/ Insert(s) \/ FinishSeeding(s)

Next == Migrate \/ (\E s \in Seeders : RunSeeder(s)) \/ Crash

Spec == Init /\ [][Next]_vars

-----------------------------------------------------------------------------
(* Properties *)

\* The API never serves on half a schema, whatever was started in which order and
\* wherever it died: an upgrade cut short is not served.  Only SQLite, which keeps
\* the revision of a downgrade cut short, can be served so after one.
ServedSchemaIsComplete ==
    server.pc = "serving" => tables = Tables \/ (kind = "sqlite" /\ "downgrading" \in cut)

\* An upgrade or a downgrade fails only on a database that seed-demo was let loose on
\* before its migration, or on SQLite after a migration was cut short.
FailuresAreExplained == server.pc = "exited" => early \/ (kind = "sqlite" /\ cut # {})

\* No moment, no crash in the middle of a script, leaves a table without one it refers
\* to, or a user or supplier without its organisation.
NoDanglingReference ==
    /\ \A t \in tables : References[t] \subseteq tables
    /\ \A row \in rows : row[1] \in tables /\ <<"organizations", Belongs(row)>> \in rows

\* A seed-demo that ran to its end leaves all the demo data, also when an earlier run
\* died half way or another one ran into it.
SeedIsComplete == \A s \in Seeders : seeder[s].pc = "done" => Range(SeedRows) \subseteq rows

=============================================================================
