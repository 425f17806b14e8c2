------------------------------ MODULE Registry ------------------------------
(***************************************************************************)
(* The tenant registry (app/tenancy/registry.py) under the processes that  *)
(* call it: the seeding script, requests that update a configuration, and  *)
(* runs that load one.                                                     *)
(*                                                                         *)
(* Every registry function first calls init_db, whose statements commit    *)
(* one by one and so interleave with those of other callers: it creates    *)
(* the tables, looks at the columns of tenant_configs, and adds            *)
(* embedding_provider to a table of an older version. Creating and looking *)
(* are one step here: what another caller does in between it may as well   *)
(* do before. The function's own statements are one transaction. One       *)
(* tenant stands for all: no statement touches the rows of two. Keys are   *)
(* in TenantGate.                                                          *)
(***************************************************************************)
EXTENDS Integers, Sequences

CONSTANTS
    Seeders,       \* processes that execute seed_demo_data(reset=True)
    Admins,        \* requests that execute set_tenant_config
    Loaders,       \* runs that execute get_tenant_config
    Thresholds,    \* confidence_review_threshold, in thousandths
    Preferences,   \* model_provider and embedding_provider
    Default,       \* the columns' defaults, and those of TenantConfig
    Seeded,        \* what the seeding script sets
    Updates,       \* what a configuration update gives
    Databases,     \* what the database file may hold at the start
    Null

Callers == Seeders \cup Admins \cup Loaders

Config == [threshold : Thresholds, provider : Preferences \cup {Null},
           embedding : Preferences \cup {Null}]
Columns == DOMAIN Default

\* Keyword arguments: a value for some of the columns, which may be None.
Given == {[c \in S |-> row[c]] : S \in SUBSET Columns, row \in Config}

\* The schema of the file, whether the tenant is in it, and its configuration.
Database == [schema : {"none", "old", "new"}, tenant : BOOLEAN, row : Config \cup {Null}]

ASSUME RegistryAssumption ==
    /\ Seeders \cap Admins = {}
    /\ Loaders \cap (Seeders \cup Admins) = {}
    /\ Default \in Config
    /\ Seeded \in Config
    /\ Updates \subseteq Given
    /\ Null \notin Config \cup Given
    /\ Databases \subseteq Database
    /\ \A d \in Databases : (d.schema = "none" => ~ d.tenant) /\ (d.row # Null <=> d.tenant)

VARIABLES
    db,      \* the database file
    task     \* what each caller is executing, and how its last task ended

registryVars == <<db, task>>

\* What the callers execute, as lists of registry functions. set_tenant_config
\* reads the row with get_tenant_config and writes it in a transaction of its own.
Seed == <<"init", "remove", "init", "create", "init", "get", "set">>
Update == <<"init", "get", "set">>
Load == <<"get">>

Operations == {"init", "remove", "create", "get", "set"}

\* "unlinked": the connection is to a file that was removed since. "alone": no
\* other caller was active at any time of the task.
NoTask == [todo |-> <<>>, at |-> "init", given |-> Null, row |-> Null,
           unlinked |-> FALSE, alone |-> TRUE, outcome |-> "none"]

Task == [todo : Seq(Operations),
         at : {"init", "alter", "query"},
         given : Given \cup {Null}, row : Config \cup {Null},
         unlinked : BOOLEAN, alone : BOOLEAN, outcome : {"none", "ok", "raised"}]

RegistryTypeOK ==
    /\ db \in Database
    /\ task \in [Callers -> Task]

RegistryInit ==
    /\ db \in Databases
    /\ task = [c \in Callers |-> NoTask]

-----------------------------------------------------------------------------

Active(c) == task[c].todo # <<>>
Doing(c, op) == Active(c) /\ Head(task[c].todo) = op
Step(c, at) == Active(c) /\ ~ Doing(c, "remove") /\ task[c].at = at

Begin(c, program, given) ==
    /\ ~ Active(c)
    /\ task' = [d \in Callers |->
                  IF d = c
                  THEN [NoTask EXCEPT !.todo = program, !.given = given,
                                      !.alone = \A e \in Callers : ~ Active(e)]
                  ELSE [task[d] EXCEPT !.alone = @ /\ ~ Active(d)]]
    /\ UNCHANGED db

\* The function returned, with the row it read if it is get_tenant_config.
Return(c, row) ==
    LET rest == Tail(task[c].todo)
    IN  task' = [task EXCEPT ![c] =
          IF rest = <<>>
          THEN [NoTask EXCEPT !.row = row, !.outcome = "ok", !.alone = task[c].alone]
          ELSE [@ EXCEPT !.todo = rest, !.row = row,
                         !.at = IF rest = <<"set">> THEN "query" ELSE "init"]]

Raise(c) ==
    /\ task' = [task EXCEPT ![c] = [NoTask EXCEPT !.outcome = "raised",
                                                  !.alone = task[c].alone]]
    /\ UNCHANGED db

\* Mutant: the column is added to every table.
AfterColumnsAlways == "alter"

AfterColumns == IF db.schema = "old" THEN "alter" ELSE "query"

\* CREATE TABLE IF NOT EXISTS, in a file that connecting creates, and PRAGMA
\* table_info.
CreateTables(c) ==
    /\ Step(c, "init")
    /\ db' = [db EXCEPT !.schema = IF @ = "none" THEN "new" ELSE @]
    /\ task' = [task EXCEPT ![c].at = AfterColumns]

\* ALTER TABLE raises if another caller has added the column in between. Of a file
\* that is removed the model does not know: either may be.
AddColumn(c) ==
    /\ Step(c, "alter")
    /\ \/ /\ task[c].unlinked \/ db.schema = "old"
          /\ db' = IF task[c].unlinked THEN db ELSE [db EXCEPT !.schema = "new"]
          /\ task' = [task EXCEPT ![c].at = "query", ![c].unlinked = FALSE]
       \/ (task[c].unlinked \/ db.schema # "old") /\ Raise(c)

InitReturns(c) ==
    /\ Step(c, "query") /\ Doing(c, "init")
    /\ Return(c, Null)
    /\ UNCHANGED db

RemoveFile(c) ==
    /\ Doing(c, "remove")
    /\ db' = [schema |-> "none", tenant |-> FALSE, row |-> Null]
    /\ task' = [d \in Callers |->
                  IF d = c THEN [task[c] EXCEPT !.todo = Tail(@)]
                  ELSE [task[d] EXCEPT !.unlinked = Step(d, "alter")]]

\* Mutant: the tenant's configuration is left to its first update.
CreateTenantAlone(c) ==
    /\ Step(c, "query") /\ Doing(c, "create")
    /\ IF db.schema = "none" THEN Raise(c)
       ELSE db' = [db EXCEPT !.tenant = TRUE] /\ Return(c, Null)

\* Both inserts ignore a row that is there; they are one transaction.
CreateTenant(c) ==
    /\ Step(c, "query") /\ Doing(c, "create")
    /\ IF db.schema = "none" THEN Raise(c)
       ELSE /\ db' = [db EXCEPT !.tenant = TRUE, !.row = IF @ = Null THEN Default ELSE @]
            /\ Return(c, Null)

GetConfig(c) ==
    /\ Step(c, "query") /\ Doing(c, "get")
    /\ IF db.schema = "none" THEN Raise(c)
       ELSE Return(c, db.row) /\ UNCHANGED db

\* Mutant: what is not given is not written.
MergedGivenOnly(row, given) == given

\* Mutant: the defaults are updated, not the row that was read.
MergedWithDefault(row, given) ==
    [k \in Columns |-> IF k \in DOMAIN given THEN given[k] ELSE Default[k]]

Merged(row, given) ==
    [k \in Columns |-> IF k \in DOMAIN given THEN given[k]
                       ELSE IF row = Null THEN Default[k] ELSE row[k]]

\* The upsert of all columns; the foreign key refuses the row of no tenant.
SetConfig(c) ==
    /\ Step(c, "query") /\ Doing(c, "set")
    /\ IF db.schema = "none" \/ ~ db.tenant THEN Raise(c)
       ELSE /\ db' = [db EXCEPT !.row = Merged(task[c].row, task[c].given)]
            /\ Return(c, Null)

\* The process of c stops; what was committed stays.
Stop(c) ==
    /\ Active(c)
    /\ task' = [task EXCEPT ![c] = NoTask]
    /\ UNCHANGED db

Execute(c) ==
    \/ CreateTables(c)
    \/ AddColumn(c)
    \/ InitReturns(c)
    \/ RemoveFile(c)
    \/ CreateTenant(c)
    \/ GetConfig(c)
    \/ SetConfig(c)

-----------------------------------------------------------------------------
(* Properties *)

\* A task that no other overlaps does what it says whatever the file held, an
\* empty file, one of the older version or one half seeded: it fails only to
\* update the configuration of no tenant; a seeding leaves exactly the seeded
\* configuration, an update changes the columns it gives and no other
\* (registry.py, 48-87 and 133-150).
AloneExact ==
    [][\A c \in Callers : Active(c) /\ task[c].alone =>
          /\ task'[c].outcome = "raised" => Doing(c, "set") /\ ~ db.tenant
          /\ c \in Seeders /\ task'[c].outcome = "ok" => db'.tenant /\ db'.row = Seeded
          /\ c \in Admins /\ task'[c].outcome = "ok" =>
                \A k \in Columns :
                    db'.row[k] = IF k \in DOMAIN task[c].given THEN task[c].given[k]
                                 ELSE db.row[k]]_registryVars

\* Two tables in step, at every commit: a configuration belongs to a tenant, and
\* a tenant has one; a script that stops between two functions, or a file that
\* is removed under a request, leaves no half of either (registry.py, 94-107).
RowsTogether == db.tenant <=> db.row # Null
=============================================================================
