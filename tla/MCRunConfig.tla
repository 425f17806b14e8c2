----------------------------- MODULE MCRunConfig -----------------------------
(* Small instances of RunConfig: one seeding script, one administrator, one run. *)
EXTENDS RunConfig

Row(threshold, provider, embedding) ==
    [threshold |-> threshold, provider |-> provider, embedding |-> embedding]

MCDefault == Row(850, Null, Null)
MCSeeded == Row(920, "azure_ai_foundry", Null)
MCUpdates == {[provider |-> "offline", embedding |-> "tfidf"]}

\* No file, and one of the older version.
MCDatabases ==
    {[schema |-> "none", tenant |-> FALSE, row |-> Null],
     [schema |-> "old", tenant |-> TRUE, row |-> MCSeeded]}

MCEnvironments == {{}, {"azure_ai_foundry", "embeddings"}, {"anthropic"}}
=============================================================================
