------------------------------ MODULE Scoring ------------------------------
(***************************************************************************)
(* The regression score of app/evals/metrics.py: a candidate document      *)
(* against the golden one. Both are documents of GraphNodes. Scores are    *)
(* integers in thousandths; round(x, 3) is rounding half up, which differs *)
(* from Python's only for ratios whose denominator is a multiple of 16.    *)
(***************************************************************************)
EXTENDS GraphNodes, FiniteSetsExt

MappedAt(doc, f) == {i \in DOMAIN doc.ledger[f] : IsMapped(doc.ledger[f][i])}

\* Indexed by source field: of several mappings of a field the last one counts.
MappingOf(doc, f) == IF MappedAt(doc, f) = {} THEN Null ELSE doc.ledger[f][Max(MappedAt(doc, f))]

MappedFields(doc) == {f \in Fields : MappingOf(doc, f) # Null}
UnmappedFields(doc) == {f \in Fields : MappedAt(doc, f) # DOMAIN doc.ledger[f]}

\* Tables are compared by name, fields by the path they go to: the collection of a
\* table does not count.
Correct(candidate, golden) ==
    {f \in MappedFields(candidate) \cap MappedFields(golden) :
        MappingOf(candidate, f).dst = MappingOf(golden, f).dst}

SameTransform(candidate, golden) ==
    {f \in Correct(candidate, golden) :
        MappingOf(candidate, f).transform = MappingOf(golden, f).transform}

Extra(candidate, golden) == MappedFields(candidate) \cap UnmappedFields(golden)

\* Mutant: what golden leaves unmapped is not looked at.
FalsePositivesLeftOut(candidate, golden) ==
    Cardinality(UnmappedFields(candidate) \cap MappedFields(golden))

\* Also what the candidate leaves out, which is a false negative already.
FalsePositives(candidate, golden) ==
    Cardinality(UnmappedFields(candidate) \cap MappedFields(golden))
      + Cardinality(Extra(candidate, golden))

\* Mutant: what golden leaves unmapped is not looked at.
MismatchesOfMapped(candidate, golden) ==
    MappedFields(golden) \ Correct(candidate, golden)

Mismatches(candidate, golden) ==
    (MappedFields(golden) \ Correct(candidate, golden)) \cup Extra(candidate, golden)

Ratio(n, m) == IF m = 0 THEN 1000 ELSE (2000 * n + m) \div (2 * m)

Precision(candidate, golden) ==
    LET right == Cardinality(Correct(candidate, golden))
    IN  Ratio(right, right + FalsePositives(candidate, golden))

\* Every field of golden is either right or a false negative, so that recall and
\* accuracy are the same number.
Accuracy(candidate, golden) ==
    Ratio(Cardinality(Correct(candidate, golden)), Cardinality(MappedFields(golden)))

TableAccuracy(candidate, golden, t) ==
    Ratio(Cardinality(Correct(candidate, golden) \cap FieldsOf(t)),
          Cardinality(MappedFields(golden) \cap FieldsOf(t)))

\* From the two rounded numbers.
F1(precision, recall) ==
    IF precision + recall = 0 THEN 0
    ELSE (4 * precision * recall + precision + recall) \div (2 * (precision + recall))

TransformAgreement(candidate, golden) ==
    Ratio(Cardinality(SameTransform(candidate, golden)),
          Cardinality(Correct(candidate, golden)))

ScoreAgainstGolden(candidate, golden) ==
    [accuracy   |-> Accuracy(candidate, golden),
     perTable   |-> [t \in Tables |-> TableAccuracy(candidate, golden, t)],
     precision  |-> Precision(candidate, golden),
     recall     |-> Accuracy(candidate, golden),
     f1         |-> F1(Precision(candidate, golden), Accuracy(candidate, golden)),
     transforms |-> TransformAgreement(candidate, golden),
     mismatches |-> Mismatches(candidate, golden)]

Marks == {"accuracy", "precision", "recall", "f1", "transforms"}

FullMarks(report) == \A score \in Marks : report[score] = 1000
=============================================================================
