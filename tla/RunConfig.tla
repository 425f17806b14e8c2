----------------------------- MODULE RunConfig -----------------------------
(***************************************************************************)
(* Which configuration, which model and which retrieval back end a run     *)
(* works with: load_config, match_tables and match_fields of               *)
(* app/graph/nodes.py over the registry, get_provider of                   *)
(* app/providers/factory.py, get_embedding_provider of                     *)
(* app/providers/embeddings.py and SchemaRetriever of                      *)
(* app/retrieval/retriever.py.                                             *)
(*                                                                         *)
(* load_config stores what it read and the names it chose in the graph     *)
(* state. Every later node chooses again, from the stored names and the    *)
(* environment of the process that executes it, which a restart may        *)
(* change. One source field stands for all of them.                        *)
(***************************************************************************)
EXTENDS Registry

CONSTANTS
    Run,            \* the run, a loader
    Environments,   \* for which services a process may have credentials
    Confidences     \* of a proposal, in thousandths

Vendors == {"anthropic", "azure_ai_foundry"}
Services == Vendors \cup {"embeddings"}
Providers == Vendors \cup {"offline"}

ASSUME RunConfigAssumption ==
    /\ Run \in Loaders
    /\ Environments \subseteq SUBSET Services
    /\ Confidences \subseteq Int
    /\ Null \notin Providers
    /\ Null \notin Confidences

VARIABLES
    env,      \* the services the API process has credentials for
    run,      \* the run's graph state, and what happened to it
    held      \* history: the configurations the registry has held before the load

vars == <<db, task, env, run, held>>

NewRun ==
    [next |-> "load_config", config |-> Default, loaded |-> "none",
     resolved |-> "offline",            \* resolved_provider_name
     asked |-> {},                      \* the providers that were called
     source |-> "tfidf", dest |-> "tfidf",  \* the retriever's two matrices
     accepted |-> Null,                 \* confidence of a proposal nobody reviews
     restarted |-> FALSE,               \* the process was, after load_config
     document |-> Null]                 \* model_provider of the document

TypeOK ==
    /\ RegistryTypeOK
    /\ env \in SUBSET Services
    /\ run \in [next : {"load_config", "match_tables", "match_fields", "assemble", "end"},
                config : Config, loaded : {"none", "row", "defaults", "raised"},
                resolved : Providers, asked : SUBSET Providers,
                source : {"tfidf", "embeddings"},
                dest : {"tfidf", "embeddings"}, accepted : Confidences \cup {Null},
                restarted : BOOLEAN, document : Providers \cup {Null}]
    /\ held \in SUBSET Config

Init ==
    /\ RegistryInit
    /\ env \in Environments
    /\ run = NewRun
    /\ held = {db.row} \ {Null}

-----------------------------------------------------------------------------
(* Selection *)

Available(name) == name = "offline" \/ name \in env

\* Mutant: the vendors are tried before what the caller prefers.
GetProviderByVendor(preferred) ==
    IF Available("anthropic") THEN "anthropic"
    ELSE IF Available("azure_ai_foundry") THEN "azure_ai_foundry"
    ELSE "offline"

\* A preference that is unknown, or not available here, is passed over.
GetProvider(preferred) ==
    IF preferred \in Providers /\ Available(preferred) THEN preferred
    ELSE IF Available("anthropic") THEN "anthropic"
    ELSE IF Available("azure_ai_foundry") THEN "azure_ai_foundry"
    ELSE "offline"

HasEmbeddings(preferred) == preferred # "tfidf" /\ "embeddings" \in env

\* Mutant: each matrix falls back on its own.
RetrieverOneByOne(preferred, sourceOk, destOk) ==
    [source |-> IF HasEmbeddings(preferred) /\ sourceOk THEN "embeddings" ELSE "tfidf",
     dest   |-> IF HasEmbeddings(preferred) /\ destOk THEN "embeddings" ELSE "tfidf"]

\* The source and the destination texts are embedded in two calls, each of which
\* may fail.
Retriever(preferred, sourceOk, destOk) ==
    LET space == IF HasEmbeddings(preferred) /\ sourceOk /\ destOk
                 THEN "embeddings" ELSE "tfidf"
    IN  [source |-> space, dest |-> space]

-----------------------------------------------------------------------------
(* Nodes *)

BeginLoad ==
    /\ run.next = "load_config"
    /\ task[Run].outcome = "none"
    /\ Begin(Run, Load, Null)
    /\ UNCHANGED <<env, run>>

\* Mutant: the provider pin is not taken over.
LoadedThreshold ==
    IF task[Run].outcome = "ok" /\ task[Run].row # Null
    THEN [Default EXCEPT !.threshold = task[Run].row.threshold] ELSE Default

\* What get_tenant_config returned; the defaults if it has no row or raised.
LoadedConfig ==
    IF task[Run].outcome = "ok" /\ task[Run].row # Null THEN task[Run].row ELSE Default

LoadConfig ==
    /\ run.next = "load_config"
    /\ task[Run].outcome # "none"
    /\ run' = [run EXCEPT !.next = "match_tables",
                          !.config = LoadedConfig,
                          !.loaded = IF task[Run].outcome = "raised" THEN "raised"
                                     ELSE IF task[Run].row = Null THEN "defaults" ELSE "row",
                          !.resolved = GetProvider(LoadedConfig.provider)]
    /\ UNCHANGED <<db, task, env>>

\* The model is asked about one item after the other; the retriever is built anew.
Asking(next, sourceOk, destOk) ==
    LET retriever == Retriever(run.config.embedding, sourceOk, destOk)
    IN  [run EXCEPT !.next = next,
                    !.source = retriever.source,
                    !.dest = retriever.dest,
                    !.asked = @ \cup {GetProvider(run.resolved)}]

MatchTables ==
    /\ run.next = "match_tables"
    /\ \E sourceOk, destOk \in BOOLEAN :
          run' = Asking("match_fields", sourceOk, destOk)
    /\ UNCHANGED <<db, task, env>>

MatchFields ==
    /\ run.next = "match_fields"
    /\ \E sourceOk, destOk \in BOOLEAN, conf \in Confidences :
          run' = [Asking("assemble", sourceOk, destOk) EXCEPT
                    !.accepted = IF conf < run.config.threshold THEN Null ELSE conf]
    /\ UNCHANGED <<db, task, env>>

\* The nodes from here on, and a review before them, choose nothing.
Assemble ==
    /\ run.next = "assemble"
    /\ run' = [run EXCEPT !.next = "end", !.document = run.resolved]
    /\ UNCHANGED <<db, task, env>>

Node == BeginLoad \/ LoadConfig \/ MatchTables \/ MatchFields \/ Assemble

-----------------------------------------------------------------------------

\* The API process is started again, perhaps with other credentials; the run is
\* resumed from its checkpoint.
Restart ==
    /\ env' \in Environments
    /\ task' = [c \in Callers |-> IF c \in Seeders \/ (c = Run /\ run.next # "load_config")
                                  THEN task[c] ELSE NoTask]
    /\ run' = [run EXCEPT !.restarted = run.next # "load_config"]
    /\ UNCHANGED db

Call ==
    \/ \E c \in Seeders : Begin(c, Seed, Seeded)
    \/ \E c \in Admins, given \in Updates : Begin(c, Update, given)
    \/ \E c \in Callers : Execute(c)
    \/ \E c \in Seeders : Stop(c)

\* Bound: the registry rests once the run has loaded its configuration; no node
\* reads it afterwards.
RegistryWatched == run.next = "load_config"

Next ==
    /\ \/ RegistryWatched /\ Call /\ UNCHANGED <<env, run>>
       \/ Node
       \/ Restart
    /\ held' = IF run.next = "load_config" THEN held \cup ({db'.row} \ {Null}) ELSE held

Spec == Init /\ [][Next]_vars

-----------------------------------------------------------------------------
(* Properties *)

\* A run works with one configuration as the registry held it, or with the
\* defaults: never with columns of two, however updates, seeding, restarts and
\* its own nodes interleave (nodes.py, 57-97).
SnapshotWhole ==
    run.next # "load_config" =>
        run.config \in held \cup {Default}

\* The defaults replace a configuration that is there only if another caller
\* was using the registry at the same time (nodes.py, 69-79).
DefaultsOnlyByRace ==
    run.loaded = "raised" => ~ task[Run].alone

\* A run that began offline sends no field to a vendor, whatever credentials a
\* later process has (factory.py, 33-44).
OfflineStays ==
    run.next # "load_config" /\ run.resolved = "offline" => run.asked \subseteq {"offline"}

\* In one process the provider that is asked is the one the document names, and
\* the tenant's pin if the pin is available (factory.py, 33-44; nodes.py, 100-103).
RecordedUnlessRestarted ==
    ~ run.restarted =>
        /\ run.document # Null => run.asked = {run.document}
        /\ run.config.provider \in Providers /\ Available(run.config.provider)
             => run.asked \subseteq {run.config.provider}

\* Source and destination vectors are always of the same space, also when one
\* of the two requests fails; a tenant's pin to tfidf holds for every node, in
\* whatever process it runs (retriever.py, 83-101; embeddings.py, 105-112).
OneSpace ==
    /\ run.source = run.dest
    /\ run.config.embedding = "tfidf" => run.source = "tfidf"

-----------------------------------------------------------------------------
(* What comments of the repository say, and the code does not                *)

\* nodes.py:11-13: anything below the tenant's confidence_review_threshold is not
\* silently accepted. Here: below every threshold the tenant ever had.
NotBelowEveryThreshold ==
    run.accepted # Null /\ held # {} => \E c \in held : run.accepted >= c.threshold
=============================================================================
