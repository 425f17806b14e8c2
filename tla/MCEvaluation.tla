---------------------------- MODULE MCEvaluation ----------------------------
(***************************************************************************)
(* Small instances of Evaluation: two tables, with two columns and with   *)
(* one, and documents a run can publish.                                   *)
(***************************************************************************)
EXTENDS Evaluation, TLC

CONSTANTS a, b, l, t1, t2, c1, c2, unknown, id, p, q, ghost

MCTableOf == [f \in {a, b, l} |-> IF f = l THEN t2 ELSE t1]

MCDestFields == (c1 :> {id, p, q}) @@ (c2 :> {id, p}) @@ (unknown :> {})

MCTransform ==
    [f \in {a, b, l} |-> [d \in {id, p, q, ghost} |->
        IF d = q THEN "to_number" ELSE "to_string"]]

To(dst, transform) == [dst |-> dst, transform |-> transform, conf |-> 900, reasoned |-> TRUE]
Nowhere == ToSpec(Unmapped)

Matched(collection) == [collection |-> collection, conf |-> 900, reasoned |-> TRUE]

Doc(va, vb, vl) ==
    [tables |-> (t1 :> Matched(c1)) @@ (t2 :> Matched(c2)),
     ledger |-> (a :> va) @@ (b :> vb) @@ (l :> vl),
     unclaimed |-> [t \in {t1, t2} |-> {}]]

\* Everything mapped, and one field left out.
MCGoldens ==
    {Doc(<<To(p, "to_string")>>, <<To(q, "to_number")>>, <<To(id, "to_string")>>),
     Doc(<<To(p, "to_string")>>, <<Nowhere>>, <<To(id, "to_string")>>)}

\* Swapped, left out, overridden with the transform of the proposal or to a field
\* that is not there, decided on twice.
MCCandidates ==
    {Doc(va, vb, vl) :
        va \in {<<To(p, "to_string")>>, <<To(q, "to_string")>>, <<Nowhere>>},
        vb \in {<<To(q, "to_number")>>, <<To(q, "to_string")>>, <<To(p, "to_number")>>,
                <<Nowhere>>},
        vl \in {<<To(id, "to_string")>>, <<To(ghost, "to_string")>>,
               <<Nowhere, To(id, "to_string")>>}}
=============================================================================
