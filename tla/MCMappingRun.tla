---------------------------- MODULE MCMappingRun ----------------------------
(***************************************************************************)
(* Small instances of MappingRun: one source table with its primary key    *)
(* and two more columns; a collection with the fields "_id", p and q, one  *)
(* without q, and a name no collection has.                                *)
(***************************************************************************)
EXTENDS MappingRun, TypeTransforms, TLC

CONSTANTS k, a, b, t1, full, partial, unknown, id, p, q, ghost

MCTableOf == [f \in {k, a, b} |-> t1]

MCDestFields == (full :> {id, p, q}) @@ (partial :> {id, p}) @@ (unknown :> {})

\* A key, a text and a status code; an identifier, two declared types, and a path
\* that is not in the schema.
SqlType == (k :> "INT") @@ (a :> "VARCHAR(20)") @@ (b :> "CHAR(1)")
Code == (k :> "none") @@ (a :> "none") @@ (b :> "boolean")
BsonType == (id :> "ObjectId") @@ (p :> "String") @@ (q :> "Boolean") @@ (ghost :> "String")

MCTransform ==
    [f \in {k, a, b} |-> [d \in {id, p, q, ghost} |->
        InferTypeTransform(Code[f], SqlType[f], d = id, BsonType[d])]]

MCTransforms == {MCTransform[f][d] : f \in {k, a, b}, d \in {id, p, q, ghost}}

Table(collection, conf, reasoned) ==
    [collection |-> collection, conf |-> conf, reasoned |-> reasoned]

Match(by, dst, conf, reasoned, shared) ==
    [by |-> by, dst |-> dst, conf |-> conf, reasoned |-> reasoned, shared |-> shared]

Approve == [approved |-> TRUE, override |-> Null]
Reject == [approved |-> FALSE, override |-> Null]
Override(dst) == [approved |-> TRUE, override |-> dst]

\* Every way a node can go: well-formed answers and unusable ones.
AllTableMatches ==
    {Table(full, 900, TRUE), Table(partial, 1200, TRUE), Table(full, 900, FALSE),
     Table(unknown, 800, TRUE), Null}

AllFieldMatches ==
    {Match("llm", p, 904, TRUE, FALSE), Match("llm", q, 846, TRUE, FALSE),
     Match("llm", q, 1200, FALSE, FALSE), Match("llm", ghost, 900, TRUE, FALSE),
     Match("fallback", p, 700, TRUE, TRUE), Match("fallback", p, 700, TRUE, FALSE), Null}

Review(vk, va, vb) == (k :> vk) @@ (a :> va) @@ (b :> vb)

AllReviews ==
    {Review(<<>>, va, vb) :
        va \in {<<>>, <<Approve>>, <<Reject>>, <<Override(q)>>, <<Reject, Approve>>},
        vb \in {<<>>, <<Approve>>, <<Approve, Override(q)>>}}
    \cup {Review(<<Reject>>, <<Override(ghost)>>, <<Reject>>)}
=============================================================================
