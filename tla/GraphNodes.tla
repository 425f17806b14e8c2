----------------------------- MODULE GraphNodes -----------------------------
(***************************************************************************)
(* The nodes of the mapping graph (app/graph/nodes.py) as operators on the *)
(* graph state, with the schema they work on, the reasoning helpers they   *)
(* call (app/graph/reasoning.py) and the coverage check they end in        *)
(* (app/core/validation.py).                                               *)
(*                                                                         *)
(* A table's field_mappings and unmapped_source_fields lists are kept as   *)
(* one ledger: per source field, the outcomes recorded for it, in order.   *)
(* The order between different fields of a table is abstracted away.       *)
(* Confidences are integers in thousandths; strings are model values.      *)
(***************************************************************************)
EXTENDS Integers, Sequences, FiniteSets

CONSTANTS
    Fields,       \* source fields, i.e. (table, column) pairs
    Tables,       \* source tables
    TableOf,      \* the table of each field
    PrimaryKeys,  \* fields whose constraints contain "PRIMARY KEY"
    Collections,  \* collection names an answer may name, known or not
    Paths,        \* destination paths an answer or a reviewer may name
    Id,           \* the path "_id"
    DestFields,   \* paths of each collection; none for an unknown one
    Transforms,   \* type_transform strings
    Transform,    \* infer_type_transform: what the rules layer gives a pair
    Null          \* None, and an answer the code cannot read

ASSUME SchemaAssumption ==
    /\ IsFiniteSet(Fields)
    /\ TableOf \in [Fields -> Tables]
    /\ PrimaryKeys \subseteq Fields
    /\ DestFields \in [Collections -> SUBSET Paths]
    /\ Id \in Paths
    /\ Transform \in [Fields -> [Paths -> Transforms]]
    /\ Null \notin Paths \cup Collections \cup Transforms
    /\ \A c \in Collections : DestFields[c] # {} => Id \in DestFields[c]
    /\ \E c \in Collections : DestFields[c] = {}

Nodes == {"load_config", "match_tables", "match_fields", "human_review",
          "apply_rules", "assemble", "validate"}

FieldsOf(t) == {f \in Fields : TableOf[f] = t}

-----------------------------------------------------------------------------
(* Values *)

\* What reason_table_match returns and a TableSkeleton keeps.
TableMatch == [collection : Collections, conf : Int, reasoned : BOOLEAN]

\* What reason_field_match returns. "shared" is what the node then finds of a
\* fallback match: the two names have a business token in common.
FieldMatch == [by : {"llm", "fallback"}, dst : Paths, conf : Int,
               reasoned : BOOLEAN, shared : BOOLEAN]

\* A review item, keyed by its field in pending_reviews.
Proposal == [dst : Paths, transform : Transforms, conf : Int, reasoned : BOOLEAN]

\* A reviewer's decision on one field.
Verdict == [approved : BOOLEAN, override : Paths \cup {Null}]

\* An entry of field_mappings, or of unmapped_source_fields.
Mapping == [dst : Paths, transform : Transforms, conf : Int, reasoned : BOOLEAN,
            by : {"llm", "fallback", "structural_rule", "human_override"}]
Unmapped == [dst |-> Null, transform |-> Null, conf |-> 0, reasoned |-> TRUE,
             by |-> "unmapped"]
Outcome == Mapping \cup {Unmapped}

IsMapped(o) == o.dst # Null

\* The same entry in to_spec_json(), which drops match_source.
Entry == [dst : Paths \cup {Null}, transform : Transforms \cup {Null},
          conf : Int, reasoned : BOOLEAN]

Document == [tables : [Tables -> TableMatch], ledger : [Fields -> Seq(Entry)],
             unclaimed : [Tables -> SUBSET Paths]]
\* A document that assemble made: an entry for every field, and a path has a
\* transform.
Published(doc) ==
    \A f \in Fields :
        /\ doc.ledger[f] # <<>>
        /\ \A i \in DOMAIN doc.ledger[f] :
             IsMapped(doc.ledger[f][i]) <=> doc.ledger[f][i].transform # Null

Report == [ok : BOOLEAN, problems : SUBSET ({"count", "duplicate"} \X Tables)]

GraphState ==
    [threshold : Int,
     tables    : [Tables -> TableMatch],
     ledger    : [Fields -> Seq(Outcome)],
     pending   : [Fields -> Proposal \cup {Null}],
     decisions : [Fields -> Seq(Verdict)],
     unclaimed : [Tables -> SUBSET Paths],
     document  : Document \cup {Null},
     report    : Report \cup {Null}]

\* None is none of the values it stands beside.
ASSUME NullAssumption ==
    Null \notin Proposal \cup FieldMatch \cup TableMatch \cup Document \cup Report

NoPending == [f \in Fields |-> Null]
NoVerdicts == [f \in Fields |-> <<>>]

NoMatch == [collection |-> CHOOSE c \in Collections : DestFields[c] = {},
            conf |-> 0, reasoned |-> FALSE]

\* The state of a run before its first node; keys not set yet hold defaults.
Fresh ==
    [threshold |-> 0,
     tables    |-> [t \in Tables |-> NoMatch],
     ledger    |-> [f \in Fields |-> <<>>],
     pending   |-> NoPending,
     decisions |-> NoVerdicts,
     unclaimed |-> [t \in Tables |-> {}],
     document  |-> Null,
     report    |-> Null]

\* round(c, 2)
RoundConf(c) == 10 * ((c + 5) \div 10)

-----------------------------------------------------------------------------
(* load_config and match_tables *)

LoadConfig(s, threshold) == [s EXCEPT !.threshold = threshold]

\* float() of a non-number, or .get on JSON that is not an object, raises.
MatchTablesRaises(matches) == \E t \in Tables : matches[t] = Null

MatchTables(s, matches) ==
    [s EXCEPT !.tables = [t \in Tables |->
                            [matches[t] EXCEPT !.conf = RoundConf(@)]],
              !.ledger = [f \in Fields |-> <<>>]]

-----------------------------------------------------------------------------
(* match_fields *)

CollectionOf(s, f) == s.tables[TableOf[f]].collection

HasCandidates(s, f) == DestFields[CollectionOf(s, f)] # {}

\* A fallback match is the retriever's best candidate, so one of the collection.
CanAnswer(s, f, m) ==
    m # Null /\ m.by = "fallback" => m.dst \in DestFields[CollectionOf(s, f)]

MatchFieldsRaises(s, matches) ==
    \E f \in Fields :
        IF f \in PrimaryKeys THEN Id \notin DestFields[CollectionOf(s, f)]
        ELSE HasCandidates(s, f) /\ matches[f] = Null

\* No candidate, a path the collection does not have, or a fallback match
\* without a shared business token.
IsUnmatched(s, f, m) ==
    \/ ~ HasCandidates(s, f)
    \/ m.dst \notin DestFields[CollectionOf(s, f)]
    \/ m.by = "fallback" /\ ~ m.shared

\* Mutant: the default threshold is used, not the tenant's.
BelowDefaultThreshold(s, m) == m.conf < 850

BelowThreshold(s, m) == m.conf < s.threshold

NeedsReview(s, f, m) ==
    f \notin PrimaryKeys /\ ~ IsUnmatched(s, f, m) /\ BelowThreshold(s, m)

StructuralMapping(f) ==
    [dst |-> Id, transform |-> Transform[f][Id], conf |-> 930,
     reasoned |-> TRUE, by |-> "structural_rule"]

Accepted(f, m) ==
    [dst |-> m.dst, transform |-> Transform[f][m.dst], conf |-> RoundConf(m.conf),
     reasoned |-> m.reasoned, by |-> m.by]

\* Mutant: a proposal does not keep what a reviewer's approval will need.
ProposedBare(f, m) == [dst |-> m.dst, conf |-> m.conf]

Proposed(f, m) ==
    [dst |-> m.dst, transform |-> Transform[f][m.dst], conf |-> RoundConf(m.conf),
     reasoned |-> m.reasoned]

\* Mutant: a field sent to review is reported unmapped at the same time.
RecordedTwice(s, f, m) ==
    IF f \in PrimaryKeys THEN <<StructuralMapping(f)>>
    ELSE IF IsUnmatched(s, f, m) \/ BelowThreshold(s, m) THEN <<Unmapped>>
    ELSE <<Accepted(f, m)>>

Recorded(s, f, m) ==
    IF f \in PrimaryKeys THEN <<StructuralMapping(f)>>
    ELSE IF IsUnmatched(s, f, m) THEN <<Unmapped>>
    ELSE IF BelowThreshold(s, m) THEN <<>>
    ELSE <<Accepted(f, m)>>

MatchFields(s, matches) ==
    [s EXCEPT !.ledger  = [f \in Fields |-> Recorded(s, f, matches[f])],
              !.pending = [f \in Fields |-> IF NeedsReview(s, f, matches[f])
                                            THEN Proposed(f, matches[f]) ELSE Null]]

-----------------------------------------------------------------------------
(* human_review: every decision given for a pending field is recorded, in    *)
(* order; a pending field without one is reported unmapped; a decision for   *)
(* any other field is ignored.                                               *)

\* Mutant: an override is dropped in favour of the proposal.
DecidedAsProposed(p, v) ==
    IF ~ v.approved THEN Unmapped
    ELSE [dst |-> p.dst, transform |-> p.transform, conf |-> p.conf,
          reasoned |-> p.reasoned, by |-> "human_override"]

Decided(p, v) ==
    IF ~ v.approved THEN Unmapped
    ELSE IF v.override = Null
    THEN [dst |-> p.dst, transform |-> p.transform, conf |-> p.conf,
          reasoned |-> p.reasoned, by |-> "human_override"]
    ELSE [dst |-> v.override, transform |-> p.transform, conf |-> 990,
          reasoned |-> v.override # p.dst \/ p.reasoned, by |-> "human_override"]

\* Mutant: a pending field nobody decided on is left out.
DecisionsOnly(p, vs) == [i \in 1 .. Len(vs) |-> Decided(p, vs[i])]

Decisions(p, vs) ==
    IF vs = <<>> THEN <<Unmapped>>
    ELSE [i \in 1 .. Len(vs) |-> Decided(p, vs[i])]

\* Mutant: the lists of the tables are rebuilt from the decisions alone.
HumanReviewRebuilds(s, verdicts) ==
    [s EXCEPT !.ledger = [f \in Fields |->
                            IF s.pending[f] # Null
                            THEN Decisions(s.pending[f], verdicts[f]) ELSE <<>>],
              !.decisions = verdicts,
              !.pending = NoPending]

HumanReview(s, verdicts) ==
    [s EXCEPT !.ledger = [f \in Fields |->
                            IF s.pending[f] # Null
                            THEN s.ledger[f] \o Decisions(s.pending[f], verdicts[f])
                            ELSE s.ledger[f]],
              !.decisions = verdicts,
              !.pending = NoPending]

-----------------------------------------------------------------------------
(* apply_rules, assemble, validate *)

ClaimedIn(ledger, t) ==
    (UNION {{ledger[f][i].dst : i \in DOMAIN ledger[f]} : f \in FieldsOf(t)}) \ {Null}

\* Mutant: only the first entry of each field counts as a claim.
ApplyRulesToAccepted(s) ==
    [s EXCEPT !.unclaimed = [t \in Tables |->
        DestFields[s.tables[t].collection] \
            {s.ledger[f][1].dst : f \in {g \in FieldsOf(t) : s.ledger[g] # <<>>}}]]

ApplyRules(s) ==
    [s EXCEPT !.unclaimed = [t \in Tables |->
        DestFields[s.tables[t].collection] \ ClaimedIn(s.ledger, t)]]

\* FieldMapping and TableMapping reject a confidence outside [0, 1].
AssembleRaises(s) ==
    \/ \E t \in Tables : s.tables[t].conf \notin 0 .. 1000
    \/ \E f \in Fields : \E i \in DOMAIN s.ledger[f] :
           s.ledger[f][i].conf \notin 0 .. 1000

ToSpec(o) ==
    [dst |-> o.dst, transform |-> o.transform, conf |-> RoundConf(o.conf),
     reasoned |-> o.reasoned]

Assemble(s) ==
    [s EXCEPT !.document =
        [tables    |-> s.tables,
         ledger    |-> [f \in Fields |->
                          [i \in 1 .. Len(s.ledger[f]) |-> ToSpec(s.ledger[f][i])]],
         unclaimed |-> s.unclaimed]]

\* validate_mapping_document: an empty reasoning violates minLength.
ValidateRaises(doc) ==
    \/ \E t \in Tables : ~ doc.tables[t].reasoned
    \/ \E f \in Fields : \E i \in DOMAIN doc.ledger[f] : ~ doc.ledger[f][i].reasoned

\* The entries of a table's two lists, as (field, position) pairs.
Slots(doc, t) == UNION {{f} \X DOMAIN doc.ledger[f] : f \in FieldsOf(t)}

MappedSlots(doc, t) == {x \in Slots(doc, t) : IsMapped(doc.ledger[x[1]][x[2]])}

ClaimedTwice(doc, t) ==
    \E x, y \in MappedSlots(doc, t) :
        x # y /\ doc.ledger[x[1]][x[2]].dst = doc.ledger[y[1]][y[2]].dst

\* Mutant: the duplicate destination check is gone.
ProblemsOfCount(doc) ==
    {"count"} \X {t \in Tables : Cardinality(Slots(doc, t)) # Cardinality(FieldsOf(t))}

\* validate_coverage compares numbers of entries, never which fields they name.
Problems(doc) ==
    {"count"} \X {t \in Tables : Cardinality(Slots(doc, t)) # Cardinality(FieldsOf(t))}
    \cup {"duplicate"} \X {t \in Tables : ClaimedTwice(doc, t)}

Validate(s) ==
    [s EXCEPT !.report = [ok |-> Problems(s.document) = {},
                          problems |-> Problems(s.document)]]
=============================================================================
