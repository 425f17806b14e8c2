---------------------------- MODULE MCCliSession ----------------------------
(***************************************************************************)
(* Small instances of CliSession: a table with its primary key and one     *)
(* column, which may be proposed the key's destination or a free one.      *)
(***************************************************************************)
EXTENDS CliSession, TLC

CONSTANTS k, a, t1, full, unknown, id, p

MCTableOf == [f \in {k, a} |-> t1]

MCDestFields == (full :> {id, p}) @@ (unknown :> {})

MCTransform == [f \in {k, a} |-> [d \in {id, p} |-> "to_string"]]

Table(collection, conf) == [collection |-> collection, conf |-> conf, reasoned |-> TRUE]

Match(dst, conf) ==
    [by |-> "llm", dst |-> dst, conf |-> conf, reasoned |-> TRUE, shared |-> FALSE]

Verdict1(approved, override) == [approved |-> approved, override |-> override]

SomeTableMatches == {Table(full, 900)}

\* Accepted, and up for review.
SomeFieldMatches == {Match(id, 904), Match(p, 600)}

SomeChoices == {Verdict1(TRUE, Null), Verdict1(FALSE, Null)}

\* What an API client sends: a field decided on twice.
SomeReviews ==
    {(k :> <<>>) @@ (a :> <<Verdict1(FALSE, Null), Verdict1(TRUE, Null)>>)}
=============================================================================
