-------------------------- MODULE MappingRunProofs --------------------------
(***************************************************************************)
(* Type correctness of MappingRun and its invariants NoFieldLost,          *)
(* CoverageSound, NotSilentlyAccepted, VerdictsHonoured and                *)
(* DestinationsAccounted, for any number of workers, any schema and any    *)
(* answers and decisions.                                                  *)
(*                                                                         *)
(* The inductive invariant says of every graph state in existence, in the  *)
(* checkpoint or in the memory of an invocation, what the nodes executed   *)
(* so far guarantee of it (Sound). A node turns a sound state into a state *)
(* that is sound for its successor, so overlapping invocations, crashes    *)
(* and resumes, which only copy states, cannot break it.                   *)
(*                                                                         *)
(* Two theorems go beyond the runs: which transforms alone can differ from *)
(* their pair's (Paired), and that an invocation only goes forward.        *)
(***************************************************************************)
EXTENDS MappingRun, GraphNodesProofs

\* What was accepted without a reviewer reaches the threshold.
Thresholded(s) ==
    \A f \in Fields : \A i \in DOMAIN s.ledger[f] :
        s.ledger[f][i].by \in {"llm", "fallback"} =>
            s.ledger[f][i].conf >= RoundConf(s.threshold)

\* Field f has an outcome of a reviewer.
Overridden(s, f) == \E i \in DOMAIN s.ledger[f] : s.ledger[f][i].by = "human_override"

\* The outcomes are those of the decisions on f, one by one.
Honours(outcomes, verdicts) ==
    /\ Len(outcomes) = Len(verdicts)
    /\ \A i \in DOMAIN outcomes :
         /\ IsMapped(outcomes[i]) <=> verdicts[i].approved
         /\ verdicts[i].approved /\ verdicts[i].override # Null =>
              outcomes[i].dst = verdicts[i].override

Honoured(s) == \A f \in Fields : Overridden(s, f) => Honours(s.ledger[f], s.decisions[f])

\* Each destination of a table is claimed or unclaimed, never both.
Accounted(doc) ==
    \A t \in Tables :
        /\ ClaimedIn(doc.ledger, t) \cap doc.unclaimed[t] = {}
        /\ DestFields[doc.tables[t].collection]
             \subseteq ClaimedIn(doc.ledger, t) \cup doc.unclaimed[t]

\* What holds of a graph state s when `node` is next.
Sound(node, s) ==
    /\ s \in GraphState
    /\ node = "human_review" =>
         \A f \in Fields : IF s.pending[f] # Null
                           THEN s.ledger[f] = <<>>
                           ELSE Len(s.ledger[f]) = 1
    /\ node \in Reviewed => \A f \in Fields : s.ledger[f] # <<>>
    /\ node \in {"validate", "end"} =>
         /\ s.document \in Document
         /\ Published(s.document)
    /\ node = "end" =>
         (s.report.ok => Problems(s.document) = {})
    /\ node = "match_fields" => \A f \in Fields : s.ledger[f] = <<>>
    /\ node \in Reviewed \cup {"human_review"} => Thresholded(s)
    /\ Honoured(s)
    /\ node = "human_review" => \A f \in Fields : ~ Overridden(s, f)
    /\ node = "assemble" => Accounted(s)
    /\ node \in {"validate", "end"} => Accounted(s.document)

IInv ==
    /\ TypeOK
    /\ Sound(checkpoint.next, checkpoint.state)
    /\ \A w \in Workers : Sound(invocation[w].at, invocation[w].state)

-----------------------------------------------------------------------------
(* Values *)

LEMMA EmptyLedger ==
    ASSUME NEW s, \A f \in Fields : s.ledger[f] = <<>>
    PROVE  Thresholded(s) /\ Honoured(s) /\ \A f \in Fields : ~ Overridden(s, f)
BY DEF Thresholded, Honoured, Overridden

LEMMA FreshSound ==
    ASSUME NEW node \in {"none", "idle", "load_config"}
    PROVE  Sound(node, Fresh)
<1>1. PICK c \in Collections : DestFields[c] = {}
  BY SchemaAssumption
<1>2. NoMatch \in TableMatch
  BY <1>1 DEF NoMatch, TableMatch
<1>3. Fresh \in GraphState
  <2>1. /\ [f \in Fields |-> <<>>] \in [Fields -> Seq(Outcome)]
        /\ NoVerdicts \in [Fields -> Seq(Verdict)]
        /\ NoPending \in [Fields -> Proposal \cup {Null}]
    BY DEF NoVerdicts, NoPending
  <2> QED
    BY <1>2, <2>1 DEF Fresh, GraphState
<1>4. Honoured(Fresh)
  <2>1. \A f \in Fields : Fresh.ledger[f] = <<>>
    BY DEF Fresh
  <2> QED
    BY <2>1, EmptyLedger
<1> QED
  BY <1>3, <1>4 DEF Sound, Reviewed

LEMMA RoundConfInt ==
    ASSUME NEW c \in Int
    PROVE  RoundConf(c) \in Int
BY DEF RoundConf

\* A field that is not a primary key is recorded once or put up for review.
LEMMA RecordedType ==
    ASSUME NEW s \in GraphState, NEW f \in Fields, NEW m \in FieldMatch \cup {Null},
           f \notin PrimaryKeys => ~ HasCandidates(s, f) \/ m # Null
    PROVE  /\ Recorded(s, f, m) \in Seq(Outcome)
           /\ IF NeedsReview(s, f, m)
              THEN Recorded(s, f, m) = <<>> /\ Proposed(f, m) \in Proposal
              ELSE Len(Recorded(s, f, m)) = 1
<1>1. CASE f \in PrimaryKeys
  <2>1. StructuralMapping(f) \in Outcome
    BY SchemaAssumption DEF StructuralMapping, Outcome, Mapping
  <2> QED
    BY <1>1, <2>1 DEF Recorded, NeedsReview
<1>2. CASE f \notin PrimaryKeys /\ IsUnmatched(s, f, m)
  BY <1>2 DEF Recorded, NeedsReview, Outcome
<1>3. CASE f \notin PrimaryKeys /\ ~ IsUnmatched(s, f, m)
  <2>1. m \in FieldMatch
    BY <1>3 DEF IsUnmatched
  <2>2. /\ m.dst \in Paths
        /\ m.conf \in Int
        /\ m.reasoned \in BOOLEAN
        /\ m.by \in {"llm", "fallback"}
        /\ Transform[f][m.dst] \in Transforms
        /\ RoundConf(m.conf) \in Int
    BY <2>1, SchemaAssumption, RoundConfInt DEF FieldMatch
  <2>3. Accepted(f, m) \in Outcome
    BY <2>2 DEF Accepted, Outcome, Mapping
  <2>4. Proposed(f, m) \in Proposal
    BY <2>2 DEF Proposed, Proposal
  <2> QED
    BY <1>3, <2>3, <2>4 DEF Recorded, NeedsReview
<1> QED
  BY <1>1, <1>2, <1>3

\* Nothing is recorded for a reviewer, and nothing accepted below the threshold,
\* also once both are rounded.
LEMMA RecordedJudged ==
    ASSUME NEW s \in GraphState, NEW f \in Fields, NEW m \in FieldMatch \cup {Null},
           f \notin PrimaryKeys => ~ HasCandidates(s, f) \/ m # Null,
           NEW i \in DOMAIN Recorded(s, f, m)
    PROVE  /\ Recorded(s, f, m)[i].by # "human_override"
           /\ Recorded(s, f, m)[i].by \in {"llm", "fallback"} =>
                Recorded(s, f, m)[i].conf >= RoundConf(s.threshold)
<1>1. CASE f \in PrimaryKeys
  BY <1>1 DEF Recorded, StructuralMapping
<1>2. CASE f \notin PrimaryKeys /\ IsUnmatched(s, f, m)
  BY <1>2 DEF Recorded, Unmapped
<1>3. CASE f \notin PrimaryKeys /\ ~ IsUnmatched(s, f, m)
  <2>1. m \in FieldMatch
    BY <1>3 DEF IsUnmatched
  <2>2. m.conf \in Int /\ s.threshold \in Int /\ m.by \in {"llm", "fallback"}
    BY <2>1 DEF FieldMatch, GraphState
  <2>3. CASE BelowThreshold(s, m)
    BY <1>3, <2>3 DEF Recorded
  <2>4. CASE ~ BelowThreshold(s, m)
    <3>1. m.conf >= s.threshold
      BY <2>2, <2>4 DEF BelowThreshold
    <3>2. RoundConf(m.conf) >= RoundConf(s.threshold)
      BY <2>2, <3>1 DEF RoundConf
    <3>3. Recorded(s, f, m)[i] = Accepted(f, m)
      BY <1>3, <2>4 DEF Recorded
    <3> QED
      BY <2>2, <3>2, <3>3 DEF Accepted
  <2> QED
    BY <2>3, <2>4
<1> QED
  BY <1>1, <1>2, <1>3

\* What a reviewer decided of a pending field is what is recorded for it.
LEMMA DecisionsHonour ==
    ASSUME NEW p \in Proposal, NEW vs \in Seq(Verdict)
    PROVE  /\ \A i \in DOMAIN Decisions(p, vs) :
                Decisions(p, vs)[i].by \notin {"llm", "fallback"}
           /\ (\E i \in DOMAIN Decisions(p, vs) :
                 Decisions(p, vs)[i].by = "human_override")
                => Honours(Decisions(p, vs), vs)
<1>1. CASE vs = <<>>
  BY <1>1 DEF Decisions, Unmapped
<1>2. CASE vs # <<>>
  <2>1. Decisions(p, vs) = [i \in 1 .. Len(vs) |-> Decided(p, vs[i])]
    BY <1>2 DEF Decisions
  <2>2. Len(Decisions(p, vs)) = Len(vs) /\ DOMAIN Decisions(p, vs) = 1 .. Len(vs)
    BY <2>1
  <2>3. ASSUME NEW v \in Verdict
        PROVE  /\ Decided(p, v).by \notin {"llm", "fallback"}
               /\ IsMapped(Decided(p, v)) <=> v.approved
               /\ v.approved /\ v.override # Null => Decided(p, v).dst = v.override
    BY SchemaAssumption DEF Decided, Unmapped, IsMapped, Verdict, Proposal
  <2>4. \A i \in 1 .. Len(vs) : vs[i] \in Verdict
    OBVIOUS
  <2>5. \A i \in 1 .. Len(vs) : Decisions(p, vs)[i] = Decided(p, vs[i])
    BY <2>1
  <2> QED
    BY <2>2, <2>3, <2>4, <2>5 DEF Honours
<1> QED
  BY <1>1, <1>2

\* A pending field gets at least one outcome, whatever was decided of it.
LEMMA DecisionsType ==
    ASSUME NEW p \in Proposal, NEW vs \in Seq(Verdict)
    PROVE  Decisions(p, vs) \in Seq(Outcome) /\ Len(Decisions(p, vs)) >= 1
<1>1. CASE vs = <<>>
  BY <1>1 DEF Decisions, Outcome
<1>2. CASE vs # <<>>
  <2>1. \A i \in 1 .. Len(vs) : vs[i] \in Verdict
    OBVIOUS
  <2>2. \A v \in Verdict : Decided(p, v) \in Outcome
    BY DEF Decided, Outcome, Mapping, Verdict, Proposal
  <2>3. Len(vs) \in Nat /\ Len(vs) >= 1
    BY <1>2
  <2>4. Decisions(p, vs) = [i \in 1 .. Len(vs) |-> Decided(p, vs[i])]
    BY <1>2 DEF Decisions
  <2>5. Decisions(p, vs) \in [1 .. Len(vs) -> Outcome]
    BY <2>1, <2>2, <2>4
  <2> QED
    BY <2>3, <2>5
<1> QED
  BY <1>1, <1>2

-----------------------------------------------------------------------------
(* Nodes: each turns a sound state into one that is sound for its successor  *)

LEMMA LoadConfigSound ==
    ASSUME NEW s, Sound("load_config", s), NEW threshold \in Int
    PROVE  Sound("match_tables", LoadConfig(s, threshold))
<1>1. LoadConfig(s, threshold) \in GraphState
  BY DEF Sound, LoadConfig, GraphState
<1>2. Honoured(LoadConfig(s, threshold))
  BY DEF Sound, LoadConfig, GraphState, Honoured, Overridden
<1> QED
  BY <1>1, <1>2 DEF Sound, Reviewed

LEMMA MatchTablesSound ==
    ASSUME NEW s, Sound("match_tables", s),
           NEW matches \in [Tables -> TableMatch \cup {Null}],
           ~ MatchTablesRaises(matches)
    PROVE  Sound("match_fields", MatchTables(s, matches))
<1>1. \A t \in Tables : [matches[t] EXCEPT !.conf = RoundConf(@)] \in TableMatch
  BY RoundConfInt DEF MatchTablesRaises, TableMatch
<1>2. [f \in Fields |-> <<>>] \in [Fields -> Seq(Outcome)]
  OBVIOUS
<1>3. MatchTables(s, matches) \in GraphState
  BY <1>1, <1>2 DEF Sound, MatchTables, GraphState
<1>4. \A f \in Fields : MatchTables(s, matches).ledger[f] = <<>>
  BY DEF Sound, MatchTables, GraphState
<1>5. Honoured(MatchTables(s, matches))
  BY <1>4, EmptyLedger
<1> QED
  BY <1>3, <1>4, <1>5 DEF Sound, Reviewed

LEMMA MatchFieldsSound ==
    ASSUME NEW s, Sound("match_fields", s),
           NEW matches \in [Fields -> FieldMatch \cup {Null}],
           ~ MatchFieldsRaises(s, matches)
    PROVE  Sound(RouteAfterMatchFields(MatchFields(s, matches)), MatchFields(s, matches))
<1> DEFINE r == MatchFields(s, matches)
<1>1. s \in GraphState
  BY DEF Sound
<1>2. ASSUME NEW f \in Fields
      PROVE  /\ Recorded(s, f, matches[f]) \in Seq(Outcome)
             /\ IF NeedsReview(s, f, matches[f])
                THEN /\ Recorded(s, f, matches[f]) = <<>>
                     /\ Proposed(f, matches[f]) \in Proposal
                ELSE Len(Recorded(s, f, matches[f])) = 1
  BY <1>1, <1>2, RecordedType DEF MatchFieldsRaises
<1>3. r \in GraphState
  <2>1. r.ledger \in [Fields -> Seq(Outcome)]
    BY <1>1, <1>2 DEF MatchFields, GraphState
  <2>2. r.pending \in [Fields -> Proposal \cup {Null}]
    BY <1>1, <1>2 DEF MatchFields, GraphState
  <2> QED
    BY <1>1, <2>1, <2>2 DEF MatchFields, GraphState
<1>4. \A f \in Fields : /\ r.ledger[f] = Recorded(s, f, matches[f])
                        /\ r.pending[f] # Null <=> NeedsReview(s, f, matches[f])
  BY <1>1, <1>2, NullAssumption DEF MatchFields, GraphState
<1>5. \A f \in Fields : IF r.pending[f] # Null THEN r.ledger[f] = <<>>
                        ELSE Len(r.ledger[f]) = 1
  BY <1>2, <1>4
<1>8. /\ Thresholded(r)
      /\ \A f \in Fields : ~ Overridden(r, f)
      /\ Honoured(r)
  <2>1. r.threshold = s.threshold
    BY <1>1 DEF MatchFields, GraphState
  <2>2. ASSUME NEW f \in Fields, NEW i \in DOMAIN Recorded(s, f, matches[f])
        PROVE  /\ Recorded(s, f, matches[f])[i].by # "human_override"
               /\ Recorded(s, f, matches[f])[i].by \in {"llm", "fallback"} =>
                    Recorded(s, f, matches[f])[i].conf >= RoundConf(s.threshold)
    BY <1>1, <2>2, RecordedJudged DEF MatchFieldsRaises
  <2> HIDE DEF r
  <2> QED
    BY <1>4, <2>1, <2>2 DEF Thresholded, Overridden, Honoured
<1>6. CASE r.pending # NoPending
  BY <1>3, <1>5, <1>6, <1>8 DEF Sound, Reviewed, RouteAfterMatchFields
<1>7. CASE r.pending = NoPending
  <2> HIDE DEF r
  <2>1. \A f \in Fields : Len(r.ledger[f]) = 1
    BY <1>5, <1>7 DEF NoPending
  <2>2. \A f \in Fields : r.ledger[f] # <<>>
    BY <2>1
  <2> QED
    BY <1>3, <1>7, <1>8, <2>2 DEF r, Sound, Reviewed, RouteAfterMatchFields
<1> QED
  BY <1>6, <1>7

LEMMA HumanReviewSound ==
    ASSUME NEW s, Sound("human_review", s), NEW verdicts \in AllVerdicts
    PROVE  Sound("apply_rules", HumanReview(s, verdicts))
<1> DEFINE r == HumanReview(s, verdicts)
<1>1. s \in GraphState
  BY DEF Sound
<1>2. ASSUME NEW f \in Fields
      PROVE  r.ledger[f] \in Seq(Outcome) /\ r.ledger[f] # <<>>
  <2>1. s.ledger[f] \in Seq(Outcome) /\ verdicts[f] \in Seq(Verdict)
    BY <1>1 DEF GraphState, AllVerdicts
  <2>2. CASE s.pending[f] = Null
    <3>1. r.ledger[f] = s.ledger[f] /\ Len(s.ledger[f]) = 1
      BY <1>1, <2>2 DEF HumanReview, GraphState, Sound
    <3>2. s.ledger[f] # <<>>
      BY <3>1
    <3> QED
      BY <2>1, <3>1, <3>2
  <2>3. CASE s.pending[f] # Null
    <3>1. s.pending[f] \in Proposal
      BY <1>1, <2>3 DEF GraphState
    <3>2. /\ Decisions(s.pending[f], verdicts[f]) \in Seq(Outcome)
          /\ Len(Decisions(s.pending[f], verdicts[f])) >= 1
      BY <2>1, <3>1, DecisionsType
    <3>3. r.ledger[f] = s.ledger[f] \o Decisions(s.pending[f], verdicts[f])
      BY <1>1, <2>3 DEF HumanReview, GraphState
    <3>4. ASSUME NEW x \in Seq(Outcome), NEW y \in Seq(Outcome), Len(y) >= 1
          PROVE  x \o y \in Seq(Outcome) /\ x \o y # <<>>
      <4>1. Len(x \o y) >= 1
        BY <3>4
      <4> QED
        BY <4>1
    <3> QED
      BY <2>1, <3>2, <3>3, <3>4
  <2> QED
    BY <2>2, <2>3
<1>4. r.threshold = s.threshold /\ r.decisions = verdicts
  BY <1>1 DEF HumanReview, GraphState
<1>5. ASSUME NEW f \in Fields
      PROVE  /\ \A i \in DOMAIN r.ledger[f] :
                  r.ledger[f][i].by \in {"llm", "fallback"} =>
                    r.ledger[f][i].conf >= RoundConf(r.threshold)
             /\ Overridden(r, f) => Honours(r.ledger[f], r.decisions[f])
  <2>1. CASE s.pending[f] = Null
    <3>1. r.ledger[f] = s.ledger[f]
      BY <1>1, <2>1 DEF HumanReview, GraphState
    <3>2. ~ Overridden(s, f) /\ Thresholded(s)
      BY DEF Sound
    <3> HIDE DEF r
    <3> QED
      BY <1>4, <3>1, <3>2 DEF Thresholded, Overridden
  <2>2. CASE s.pending[f] # Null
    <3>1. s.pending[f] \in Proposal /\ verdicts[f] \in Seq(Verdict)
      BY <1>1, <2>2 DEF GraphState, AllVerdicts
    <3>2. r.ledger[f] = <<>> \o Decisions(s.pending[f], verdicts[f])
      BY <1>1, <2>2 DEF HumanReview, GraphState, Sound
    <3>3. r.ledger[f] = Decisions(s.pending[f], verdicts[f])
      BY <3>1, <3>2, DecisionsType
    <3> HIDE DEF r
    <3> QED
      BY <1>4, <3>1, <3>3, DecisionsHonour DEF Overridden
  <2> QED
    BY <2>1, <2>2
<1>6. Thresholded(r) /\ Honoured(r)
  <2> HIDE DEF r
  <2> QED
    BY <1>5 DEF Thresholded, Honoured
<1>3. r \in GraphState
  <2>1. r.ledger \in [Fields -> Seq(Outcome)]
    BY <1>1, <1>2 DEF HumanReview, GraphState
  <2>2. NoPending \in [Fields -> Proposal \cup {Null}]
    BY DEF NoPending
  <2> QED
    BY <1>1, <2>1, <2>2 DEF HumanReview, GraphState, AllVerdicts
<1> QED
  BY <1>2, <1>3, <1>6 DEF Sound, Reviewed

LEMMA ApplyRulesSound ==
    ASSUME NEW s, Sound("apply_rules", s)
    PROVE  Sound("assemble", ApplyRules(s))
<1>1. s \in GraphState
  BY DEF Sound
<1>2. \A t \in Tables :
         DestFields[s.tables[t].collection] \ ClaimedIn(s.ledger, t) \in SUBSET Paths
  BY <1>1, SchemaAssumption DEF GraphState, TableMatch
<1>3. ApplyRules(s) \in GraphState
  BY <1>1, <1>2 DEF ApplyRules, GraphState
<1> DEFINE r == ApplyRules(s)
<1>4. /\ r.ledger = s.ledger /\ r.threshold = s.threshold
      /\ r.decisions = s.decisions /\ r.tables = s.tables
      /\ r.unclaimed = [t \in Tables |->
           DestFields[s.tables[t].collection] \ ClaimedIn(s.ledger, t)]
  BY <1>1 DEF ApplyRules, GraphState
<1>5. Thresholded(r) /\ Honoured(r)
  <2> HIDE DEF r
  <2> QED
    BY <1>4 DEF Sound, Reviewed, Thresholded, Honoured, Overridden
<1>6. Accounted(r)
  <2> HIDE DEF r
  <2> QED
    BY <1>4 DEF Accounted
<1>7. r \in GraphState /\ \A f \in Fields : r.ledger[f] # <<>>
  BY <1>3, <1>4 DEF Sound, Reviewed
<1> HIDE DEF r
<1> QED
  BY <1>5, <1>6, <1>7 DEF r, Sound, Reviewed

LEMMA AssembleSound ==
    ASSUME NEW s, Sound("assemble", s)
    PROVE  Sound("validate", Assemble(s))
<1> DEFINE entries == [f \in Fields |->
                         [i \in 1 .. Len(s.ledger[f]) |-> ToSpec(s.ledger[f][i])]]
<1>1. s \in GraphState /\ \A f \in Fields : s.ledger[f] # <<>>
  BY DEF Sound, Reviewed
<1>2. ASSUME NEW o \in Outcome
      PROVE  ToSpec(o) \in Entry
  <2>1. /\ o.dst \in Paths \cup {Null}
        /\ o.transform \in Transforms \cup {Null}
        /\ o.conf \in Int
        /\ o.reasoned \in BOOLEAN
    <3>1. CASE o \in Mapping
      BY <3>1 DEF Mapping
    <3>2. CASE o = Unmapped
      BY <3>2 DEF Unmapped
    <3> QED
      BY <1>2, <3>1, <3>2 DEF Outcome
  <2>2. RoundConf(o.conf) \in Int
    BY <2>1, RoundConfInt
  <2> QED
    BY <2>1, <2>2 DEF ToSpec, Entry
<1>3. ASSUME NEW f \in Fields
      PROVE  entries[f] \in Seq(Entry) /\ entries[f] # <<>>
  <2>1. /\ s.ledger[f] \in Seq(Outcome)
        /\ s.ledger[f] # <<>>
    BY <1>1 DEF GraphState
  <2>2. Len(s.ledger[f]) \in Nat /\ Len(s.ledger[f]) >= 1
    BY <2>1
  <2>3. \A i \in 1 .. Len(s.ledger[f]) : ToSpec(s.ledger[f][i]) \in Entry
    BY <1>2, <2>1
  <2>4. entries[f] \in [1 .. Len(s.ledger[f]) -> Entry]
    BY <2>3
  <2>5. entries[f] \in Seq(Entry) /\ Len(entries[f]) = Len(s.ledger[f])
    BY <2>2, <2>4
  <2> QED
    BY <2>2, <2>5
<1>4. Assemble(s).document = [tables |-> s.tables, ledger |-> entries,
                              unclaimed |-> s.unclaimed]
  BY <1>1 DEF Assemble, GraphState
<1>5. Assemble(s).document \in Document
  BY <1>1, <1>3, <1>4 DEF Document, GraphState
<1>6. Assemble(s) \in GraphState
  BY <1>1, <1>5 DEF Assemble, GraphState
<1> DEFINE r == Assemble(s)
<1>7. /\ r.ledger = s.ledger /\ r.threshold = s.threshold /\ r.decisions = s.decisions
      /\ r.document.tables = s.tables /\ r.document.ledger = entries
      /\ r.document.unclaimed = s.unclaimed
  BY <1>1, <1>4 DEF Assemble, GraphState
<1>8. \A t \in Tables : ClaimedIn(entries, t) = ClaimedIn(s.ledger, t)
  <2> DEFINE Dsts(ledger, f) == {ledger[f][i].dst : i \in DOMAIN ledger[f]}
  <2>1. ASSUME NEW f \in Fields
        PROVE  Dsts(entries, f) = Dsts(s.ledger, f)
    <3>1. DOMAIN s.ledger[f] = 1 .. Len(s.ledger[f])
      BY <1>1 DEF GraphState
    <3> QED
      BY <3>1 DEF ToSpec
  <2> SUFFICES ASSUME NEW t \in Tables PROVE ClaimedIn(entries, t) = ClaimedIn(s.ledger, t)
    OBVIOUS
  <2>2. /\ ClaimedIn(entries, t) = (UNION {Dsts(entries, f) : f \in FieldsOf(t)}) \ {Null}
        /\ ClaimedIn(s.ledger, t) = (UNION {Dsts(s.ledger, f) : f \in FieldsOf(t)}) \ {Null}
    BY Zenon DEF ClaimedIn
  <2> HIDE DEF Dsts, entries
  <2>3. {Dsts(entries, f) : f \in FieldsOf(t)} = {Dsts(s.ledger, f) : f \in FieldsOf(t)}
    BY <2>1 DEF FieldsOf
  <2> QED
    BY <2>2, <2>3
<1>9. Accounted(r.document)
  <2>1. Accounted(s)
    BY DEF Sound
  <2> HIDE DEF r, entries
  <2> QED
    BY <1>7, <1>8, <2>1 DEF Accounted
<1>10. Thresholded(r) /\ Honoured(r)
  <2> HIDE DEF r
  <2> QED
    BY <1>7 DEF Sound, Reviewed, Thresholded, Honoured, Overridden
<1>11. Published(r.document)
  <2>1. ASSUME NEW o \in Outcome
        PROVE  IsMapped(ToSpec(o)) <=> ToSpec(o).transform # Null
    <3>1. CASE o \in Mapping
      BY <3>1, SchemaAssumption DEF Mapping, ToSpec, IsMapped
    <3>2. CASE o = Unmapped
      BY <3>2 DEF Unmapped, ToSpec, IsMapped
    <3> QED
      BY <2>1, <3>1, <3>2 DEF Outcome
  <2>2. ASSUME NEW f \in Fields, NEW i \in DOMAIN entries[f]
        PROVE  IsMapped(entries[f][i]) <=> entries[f][i].transform # Null
    <3>1. /\ i \in 1 .. Len(s.ledger[f]) /\ entries[f][i] = ToSpec(s.ledger[f][i])
          /\ s.ledger[f][i] \in Outcome
      BY <1>1, <2>2 DEF GraphState
    <3> QED
      BY <2>1, <3>1
  <2> HIDE DEF r, entries
  <2> QED
    BY <1>3, <1>7, <2>2 DEF Published
<1>12. /\ r \in GraphState
       /\ \A f \in Fields : r.ledger[f] # <<>>
       /\ r.document \in Document
       /\ Published(r.document)
  BY <1>1, <1>5, <1>6, <1>7, <1>11
<1> HIDE DEF r
<1> QED
  BY <1>9, <1>10, <1>12 DEF r, Sound, Reviewed

LEMMA ValidateSound ==
    ASSUME NEW s, Sound("validate", s)
    PROVE  Sound("end", Validate(s))
<1>1. s \in GraphState
  BY DEF Sound
<1>2. Validate(s).report = [ok |-> Problems(s.document) = {},
                            problems |-> Problems(s.document)]
  BY <1>1 DEF Validate, GraphState
<1>3. Problems(s.document) \in SUBSET ({"count", "duplicate"} \X Tables)
  BY DEF Problems
<1>4. Validate(s).report \in Report
  BY <1>2, <1>3 DEF Report
<1> DEFINE r == Validate(s)
<1>5. r \in GraphState
  BY <1>1, <1>4 DEF Validate, GraphState
<1>6. /\ r.ledger = s.ledger /\ r.threshold = s.threshold
      /\ r.decisions = s.decisions /\ r.document = s.document
  BY <1>1 DEF Validate, GraphState
<1>7. Thresholded(r) /\ Honoured(r)
  <2> HIDE DEF r
  <2> QED
    BY <1>6 DEF Sound, Reviewed, Thresholded, Honoured, Overridden
<1>8. /\ r \in GraphState
      /\ \A f \in Fields : r.ledger[f] # <<>>
      /\ r.document \in Document /\ Accounted(r.document)
      /\ Published(r.document)
      /\ r.report.ok => Problems(r.document) = {}
  <2>1. r.report.ok => Problems(s.document) = {}
    BY <1>1, <1>2 DEF Validate, GraphState
  <2> HIDE DEF r
  <2> QED
    BY <1>5, <1>6, <2>1 DEF Sound, Reviewed
<1> HIDE DEF r
<1> QED
  BY <1>7, <1>8 DEF r, Sound, Reviewed

-----------------------------------------------------------------------------
(* Steps: checkpoints and invocations only hold states that nodes returned   *)

LEMMA FreshIdle ==
    /\ NoCheckpoint \in [next : Nodes \cup {"none", "end"}, state : GraphState,
                         writer : Workers \cup {Null}, interrupted : BOOLEAN]
    /\ Idle \in [at : Nodes \cup {"idle"}, state : GraphState,
                 verdicts : AllVerdicts \cup {Null}]
    /\ Sound(NoCheckpoint.next, NoCheckpoint.state)
    /\ Sound(Idle.at, Idle.state)
BY FreshSound DEF NoCheckpoint, Idle, Sound

LEMMA ProceedStep ==
    ASSUME IInv, NEW w \in Workers, NEW s, Proceed(w, s),
           Successor(invocation[w].at, s) \in Nodes \cup {"end"},
           Sound(Successor(invocation[w].at, s), s)
    PROVE  IInv'
<1> DEFINE next == Successor(invocation[w].at, s)
<1>1. s \in GraphState
  BY DEF Sound
<1>2. checkpoint' = [next |-> next, state |-> s, writer |-> w, interrupted |-> FALSE]
  BY DEF Proceed
<1>3. \E i : /\ invocation' = [invocation EXCEPT ![w] = i]
            /\ i \in [at : Nodes \cup {"idle"}, state : GraphState,
                     verdicts : AllVerdicts \cup {Null}]
            /\ Sound(i.at, i.state)
  <2>1. CASE next = "end"
    BY <2>1, FreshIdle DEF Proceed, Answer
  <2>2. CASE next # "end"
    <3>1. invocation' = [invocation EXCEPT ![w] =
                           [at |-> next, state |-> s, verdicts |-> Null]]
      BY <2>2 DEF Proceed
    <3> DEFINE i == [at |-> next, state |-> s, verdicts |-> Null]
    <3>2. next \in Nodes /\ Sound(next, s)
      BY <2>2
    <3> HIDE DEF next
    <3>3. /\ i \in [at : Nodes \cup {"idle"}, state : GraphState,
                  verdicts : AllVerdicts \cup {Null}]
          /\ Sound(i.at, i.state)
      BY <1>1, <3>2
    <3> QED
      BY <3>1, <3>3
  <2> QED
    BY <2>1, <2>2
<1>4. reply' \in [Workers -> {"none", "pending_review", "completed", "failed"}]
  BY DEF IInv, TypeOK, Proceed, Answer
<1>5. TypeOK'
  <2>1. checkpoint' \in [next : Nodes \cup {"none", "end"}, state : GraphState,
                         writer : Workers \cup {Null}, interrupted : BOOLEAN]
    BY <1>1, <1>2
  <2>2. invocation' \in [Workers -> [at : Nodes \cup {"idle"}, state : GraphState,
                                     verdicts : AllVerdicts \cup {Null}]]
    BY <1>3 DEF IInv, TypeOK
  <2> QED
    BY <2>1, <2>2, <1>4 DEF TypeOK
<1>6. Sound(checkpoint'.next, checkpoint'.state)
  BY <1>2
<1>7. \A v \in Workers : Sound(invocation'[v].at, invocation'[v].state)
  BY <1>3 DEF IInv, TypeOK
<1> QED
  BY <1>5, <1>6, <1>7 DEF IInv, Sound

LEMMA RaiseStep ==
    ASSUME IInv, NEW w \in Workers, Raise(w)
    PROVE  IInv'
<1>1. /\ checkpoint' = checkpoint
      /\ invocation' = [invocation EXCEPT ![w] = Idle]
      /\ reply' = [reply EXCEPT ![w] = "failed"]
  BY DEF Raise, Answer
<1>2. TypeOK'
  BY <1>1, FreshIdle DEF IInv, TypeOK
<1>3. \A v \in Workers : Sound(invocation'[v].at, invocation'[v].state)
  BY <1>1, FreshIdle DEF IInv, TypeOK
<1> QED
  BY <1>1, <1>2, <1>3 DEF IInv, Sound

LEMMA NodeStep ==
    ASSUME IInv, NEW w \in Workers, Node(w)
    PROVE  IInv'
<1>1. Sound(invocation[w].at, State(w)) /\ State(w) \in GraphState
  BY DEF IInv, State, Sound
<1>2. CASE LoadConfigNode(w)
  <2>1. PICK threshold \in Thresholds : Proceed(w, LoadConfig(State(w), threshold))
    BY <1>2 DEF LoadConfigNode
  <2>2. threshold \in Int
    BY RunAssumption
  <2> QED
    BY <1>1, <1>2, <2>1, <2>2, LoadConfigSound, ProceedStep
    DEF LoadConfigNode, At, Successor, Nodes
<1>3. CASE MatchTablesNode(w)
  <2>1. PICK matches \in [Tables -> TableMatches] :
          IF MatchTablesRaises(matches) THEN Raise(w)
          ELSE Proceed(w, MatchTables(State(w), matches))
    BY <1>3 DEF MatchTablesNode
  <2>2. matches \in [Tables -> TableMatch \cup {Null}]
    BY RunAssumption
  <2>3. CASE MatchTablesRaises(matches)
    BY <2>1, <2>3, RaiseStep
  <2>4. CASE ~ MatchTablesRaises(matches)
    BY <1>1, <1>3, <2>1, <2>2, <2>4, MatchTablesSound, ProceedStep
    DEF MatchTablesNode, At, Successor, Nodes
  <2> QED
    BY <2>3, <2>4
<1>4. CASE MatchFieldsNode(w)
  <2>1. PICK matches \in [Fields -> FieldMatches] :
          IF MatchFieldsRaises(State(w), matches) THEN Raise(w)
          ELSE Proceed(w, MatchFields(State(w), matches))
    BY <1>4 DEF MatchFieldsNode
  <2>2. matches \in [Fields -> FieldMatch \cup {Null}]
    BY RunAssumption
  <2>3. CASE MatchFieldsRaises(State(w), matches)
    BY <2>1, <2>3, RaiseStep
  <2>4. CASE ~ MatchFieldsRaises(State(w), matches)
    <3>1. invocation[w].at = "match_fields"
      BY <1>4 DEF MatchFieldsNode, At
    <3>2. Successor(invocation[w].at, MatchFields(State(w), matches))
            = RouteAfterMatchFields(MatchFields(State(w), matches))
      BY <3>1 DEF Successor
    <3>3. Successor(invocation[w].at, MatchFields(State(w), matches)) \in Nodes
      BY <3>2 DEF RouteAfterMatchFields, Nodes
    <3> QED
      BY <1>1, <2>1, <2>2, <2>4, <3>1, <3>2, <3>3, MatchFieldsSound, ProceedStep
  <2> QED
    BY <2>3, <2>4
<1>5. CASE PauseForReview(w)
  <2>1. /\ checkpoint' = checkpoint \/ checkpoint' = [checkpoint EXCEPT !.interrupted = TRUE]
        /\ invocation' = [invocation EXCEPT ![w] = Idle]
        /\ reply' = [reply EXCEPT ![w] = "pending_review"]
    BY <1>5 DEF PauseForReview, Answer
  <2>2. TypeOK'
    BY <2>1, FreshIdle DEF IInv, TypeOK
  <2>3. checkpoint'.next = checkpoint.next /\ checkpoint'.state = checkpoint.state
    BY <2>1 DEF IInv, TypeOK
  <2>4. \A v \in Workers : Sound(invocation'[v].at, invocation'[v].state)
    BY <2>1, FreshIdle DEF IInv, TypeOK
  <2> QED
    BY <2>2, <2>3, <2>4 DEF IInv, Sound
<1>6. CASE HumanReviewNode(w)
  <2>1. invocation[w].verdicts \in AllVerdicts
    BY <1>6 DEF HumanReviewNode, IInv, TypeOK
  <2> QED
    BY <1>1, <1>6, <2>1, HumanReviewSound, ProceedStep
    DEF HumanReviewNode, At, Successor, Nodes
<1>7. CASE ApplyRulesNode(w)
  BY <1>1, <1>7, ApplyRulesSound, ProceedStep DEF ApplyRulesNode, At, Successor, Nodes
<1>8. CASE AssembleNode(w)
  BY <1>1, <1>8, AssembleSound, ProceedStep, RaiseStep
  DEF AssembleNode, At, Successor, Nodes
<1>9. CASE ValidateNode(w)
  BY <1>1, <1>9, ValidateSound, ProceedStep, RaiseStep
  DEF ValidateNode, At, Successor, Nodes
<1> QED
  BY <1>2, <1>3, <1>4, <1>5, <1>6, <1>7, <1>8, <1>9 DEF Node

\* Any decisions of the right type will do, also those entered at a prompt.
LEMMA ResumeStep ==
    ASSUME IInv, NEW w \in Workers, NEW verdicts \in AllVerdicts,
           ResumeMapping(w, verdicts)
    PROVE  IInv'
<1>1. /\ checkpoint' = checkpoint
      /\ checkpoint.next \in Nodes
      /\ invocation' = [invocation EXCEPT ![w] =
                          [at |-> checkpoint.next, state |-> checkpoint.state,
                           verdicts |-> verdicts]]
      /\ reply' = [reply EXCEPT ![w] = NoReply]
  BY DEF ResumeMapping
<1>2. TypeOK'
  BY <1>1 DEF IInv, TypeOK, NoReply
<1>3. \A v \in Workers : Sound(invocation'[v].at, invocation'[v].state)
  BY <1>1 DEF IInv, TypeOK
<1> QED
  BY <1>1, <1>2, <1>3 DEF IInv, Sound

LEMMA RequestStep ==
    ASSUME IInv, NEW w \in Workers, Request(w)
    PROVE  IInv'
<1>1. CASE RunMapping(w)
  <2>1. Sound("load_config", Fresh) /\ Fresh \in GraphState
    BY FreshSound DEF Sound
  <2>2. /\ checkpoint' = [next |-> "load_config", state |-> Fresh, writer |-> w,
                          interrupted |-> FALSE]
        /\ invocation' = [invocation EXCEPT ![w] =
                            [at |-> "load_config", state |-> Fresh, verdicts |-> Null]]
        /\ reply' = [reply EXCEPT ![w] = NoReply]
    BY <1>1 DEF RunMapping
  <2>3. TypeOK'
    BY <2>1, <2>2 DEF IInv, TypeOK, Nodes, NoReply
  <2>4. \A v \in Workers : Sound(invocation'[v].at, invocation'[v].state)
    BY <2>1, <2>2 DEF IInv, TypeOK
  <2> QED
    BY <2>1, <2>2, <2>3, <2>4 DEF IInv, Sound
<1>2. ASSUME NEW verdicts \in Reviews, ResumeMapping(w, verdicts)
      PROVE  IInv'
  <2>1. verdicts \in AllVerdicts
    BY RunAssumption DEF AllVerdicts
  <2> QED
    BY <1>2, <2>1, ResumeStep
<1>3. CASE ResumeCompleted(w)
  <2>1. /\ UNCHANGED <<checkpoint, invocation>>
        /\ reply' = [reply EXCEPT ![w] = "completed"]
    BY <1>3 DEF ResumeCompleted
  <2>2. TypeOK'
    BY <2>1 DEF IInv, TypeOK
  <2>3. /\ Sound(checkpoint'.next, checkpoint'.state)
        /\ \A v \in Workers : Sound(invocation'[v].at, invocation'[v].state)
    BY <2>1 DEF IInv
  <2> QED
    BY <2>2, <2>3 DEF IInv, Sound
<1> QED
  BY <1>1, <1>2, <1>3 DEF Request

LEMMA CrashStep == IInv /\ Crash => IInv'
<1> SUFFICES ASSUME IInv, Crash PROVE IInv'
  OBVIOUS
<1>1. /\ checkpoint' = checkpoint
      /\ invocation' = [w \in Workers |-> Idle]
      /\ reply' = [w \in Workers |-> NoReply]
  BY DEF Crash
<1>2. TypeOK'
  BY <1>1, FreshIdle DEF IInv, TypeOK, NoReply
<1>3. \A v \in Workers : Sound(invocation'[v].at, invocation'[v].state)
  BY <1>1, FreshIdle
<1> QED
  BY <1>1, <1>2, <1>3 DEF IInv, Sound

LEMMA InitSound == Init => IInv
BY FreshIdle DEF Init, IInv, TypeOK, NoReply

\* Every state in the checkpoint, in the memory of an invocation or behind a pause
\* is sound for the node that comes next, in every behaviour.
THEOREM Inductive == Spec => []IInv
<1>1. Init => IInv
  BY InitSound
<1>2. IInv /\ [Next]_vars => IInv'
  <2> SUFFICES ASSUME IInv, [Next]_vars PROVE IInv'
    OBVIOUS
  <2>1. CASE UNCHANGED vars
    <3>1. TypeOK'
      BY <2>1 DEF vars, IInv, TypeOK
    <3>2. /\ Sound(checkpoint'.next, checkpoint'.state)
          /\ \A v \in Workers : Sound(invocation'[v].at, invocation'[v].state)
      BY <2>1 DEF vars, IInv
    <3> QED
      BY <3>1, <3>2 DEF IInv, Sound
  <2> QED
    BY <2>1, NodeStep, RequestStep, CrashStep DEF Next
<1> QED
  BY <1>1, <1>2, PTL DEF Spec

-----------------------------------------------------------------------------
(* What the inductive invariant gives                                        *)

\* Every value of the model's variables has its type, in every behaviour: no
\* node leaves a state a later node, a resume or a crash could not handle.
THEOREM TypeCorrect == Spec => []TypeOK
BY Inductive, PTL DEF IInv

LEMMA SoundNoFieldLost == IInv => NoFieldLost
<1> SUFFICES ASSUME IInv, NEW live \in Live
             PROVE  /\ live.at = "human_review" =>
                         \A f \in Fields : IF live.state.pending[f] # Null
                                           THEN live.state.ledger[f] = <<>>
                                           ELSE Len(live.state.ledger[f]) = 1
                    /\ live.at \in Reviewed =>
                         \A f \in Fields : live.state.ledger[f] # <<>>
  BY DEF NoFieldLost
<1>1. Sound(live.at, live.state)
  BY DEF IInv, Live
<1> QED
  BY <1>1 DEF Sound

\* No overlap of invocations, crash, failing node or decision list loses a
\* source field (nodes.py, 144-220 and 263-296).
THEOREM FieldsKept == Spec => []NoFieldLost
BY SoundNoFieldLost, Inductive, PTL

LEMMA SoundCoverage == IInv => CoverageSound
<1> SUFFICES ASSUME IInv, NEW live \in Live, live.at = "end", live.state.report.ok
             PROVE  /\ \A f \in Fields : Len(live.state.document.ledger[f]) = 1
                    /\ \A f, g \in Fields :
                         /\ f # g
                         /\ TableOf[f] = TableOf[g]
                         /\ IsMapped(live.state.document.ledger[f][1])
                         => live.state.document.ledger[f][1].dst
                              # live.state.document.ledger[g][1].dst
  BY DEF CoverageSound
<1>1. /\ live.state.document \in Document
      /\ \A f \in Fields : live.state.document.ledger[f] # <<>>
      /\ Problems(live.state.document) = {}
  BY DEF IInv, Live, Sound, Published
<1> QED
  BY <1>1, NoProblems

\* A report that says ok is right: the counts of validate_coverage cannot be
\* met by one field recorded twice and another forgotten (validation.py, 75-92).
THEOREM CoverageIsSound == Spec => []CoverageSound
BY SoundCoverage, Inductive, PTL

\* What the evaluation takes for granted of the documents it compares holds of
\* every document of a complete run, also of one that validation rejects: an entry
\* for each field, and a transform where there is a path (nodes.py, 329-353).
THEOREM DocumentsArePublished ==
    Spec => [](\A live \in Live :
                 live.at = "end" => live.state.document \in Document
                                      /\ Published(live.state.document))
<1>1. IInv => \A live \in Live :
                live.at = "end" => live.state.document \in Document
                                     /\ Published(live.state.document)
  BY DEF IInv, Live, Sound
<1> QED
  BY <1>1, Inductive, PTL

-----------------------------------------------------------------------------
(* Outcomes                                                                  *)

LEMMA SoundVerdicts == IInv => VerdictsHonoured
<1> SUFFICES ASSUME IInv, NEW live \in Live, NEW f \in Fields,
                    \E i \in DOMAIN live.state.ledger[f] :
                       live.state.ledger[f][i].by = "human_override"
             PROVE  Honours(live.state.ledger[f], live.state.decisions[f])
  BY DEF VerdictsHonoured, Honours
<1>1. Honoured(live.state)
  BY DEF IInv, Live, Sound
<1> QED
  BY <1>1 DEF Honoured, Overridden

\* What is recorded for a reviewer's decision is that decision, whatever other
\* invocations did to the run meanwhile (nodes.py, 263-289).
THEOREM VerdictsAreHonoured == Spec => []VerdictsHonoured
BY SoundVerdicts, Inductive, PTL

LEMMA SoundDestinations == IInv => DestinationsAccounted
<1> SUFFICES ASSUME IInv, NEW live \in Live, live.at = "end"
             PROVE  Accounted(live.state.document)
  BY DEF DestinationsAccounted, Accounted
<1> QED
  BY DEF IInv, Live, Sound

\* A published document says of every destination of a table's collection that
\* it is claimed or that it is not (nodes.py, 306-326).
THEOREM DestinationsAreAccounted == Spec => []DestinationsAccounted
BY SoundDestinations, Inductive, PTL

\* Until match_fields has run, nothing is recorded in s.
BlankIn(at, s) ==
    at \in {"none", "idle", "load_config", "match_tables"} =>
        \A f \in Fields : s.ledger[f] = <<>>

Blank ==
    /\ BlankIn(checkpoint.next, checkpoint.state)
    /\ \A w \in Workers : BlankIn(invocation[w].at, invocation[w].state)

LEMMA FreshBlank == \A at : BlankIn(at, Fresh)
BY DEF BlankIn, Fresh

LEMMA BlankProceed ==
    ASSUME IInv, Blank, NEW w \in Workers, NEW s, Proceed(w, s),
           BlankIn(Successor(invocation[w].at, s), s)
    PROVE  Blank'
<1> DEFINE next == Successor(invocation[w].at, s)
<1> HIDE DEF next
<1>1. checkpoint'.next = next /\ checkpoint'.state = s
  BY DEF Proceed, next
<1>2. \/ invocation' = [invocation EXCEPT ![w] = Idle]
      \/ invocation' = [invocation EXCEPT ![w] =
                          [at |-> next, state |-> s, verdicts |-> Null]]
  BY DEF Proceed, Answer, next
<1>3. \A v \in Workers : BlankIn(invocation'[v].at, invocation'[v].state)
  <2>1. BlankIn(Idle.at, Idle.state)
    BY FreshBlank DEF Idle
  <2>2. BlankIn(next, s)
    BY DEF next
  <2> QED
    BY <1>2, <2>1, <2>2 DEF IInv, TypeOK, Blank
<1>4. BlankIn(checkpoint'.next, checkpoint'.state)
  BY <1>1 DEF next
<1> QED
  BY <1>3, <1>4 DEF Blank, BlankIn

LEMMA BlankNode ==
    ASSUME IInv, Blank, NEW w \in Workers, Node(w)
    PROVE  Blank'
<1> DEFINE next(s) == Successor(invocation[w].at, s)
<1>1. invocation[w].state \in GraphState
  BY DEF IInv, TypeOK
<1>2. CASE PauseForReview(w) \/ Raise(w)
  <2>1. /\ checkpoint'.next = checkpoint.next /\ checkpoint'.state = checkpoint.state
        /\ invocation' = [invocation EXCEPT ![w] = Idle]
    BY <1>2 DEF PauseForReview, Raise, Answer, IInv, TypeOK
  <2>2. \A v \in Workers : BlankIn(invocation'[v].at, invocation'[v].state)
    BY <2>1, FreshBlank DEF Idle, IInv, TypeOK, Blank
  <2> QED
    BY <2>1, <2>2 DEF Blank, BlankIn
<1>3. CASE LoadConfigNode(w)
  <2>1. PICK threshold \in Thresholds : Proceed(w, LoadConfig(State(w), threshold))
    BY <1>3 DEF LoadConfigNode
  <2>2. \A f \in Fields : State(w).ledger[f] = <<>>
    BY <1>3 DEF LoadConfigNode, At, State, Blank, BlankIn
  <2>3. LoadConfig(State(w), threshold).ledger = State(w).ledger
    BY <1>1 DEF LoadConfig, State, GraphState
  <2>4. BlankIn(next(LoadConfig(State(w), threshold)), LoadConfig(State(w), threshold))
    BY <2>2, <2>3 DEF BlankIn
  <2> QED
    BY <2>1, <2>4, BlankProceed
<1>4. ASSUME NEW s, Proceed(w, s), invocation[w].at \in Nodes \ {"load_config", "match_tables"}
      PROVE  Blank'
  <2>1. next(s) \in {"human_review", "apply_rules", "assemble", "validate", "end"}
    BY <1>4 DEF Nodes, Successor, RouteAfterMatchFields
  <2>2. BlankIn(next(s), s)
    BY <2>1 DEF BlankIn
  <2> QED
    BY <1>4, <2>2, BlankProceed
<1>5. ASSUME NEW s, Proceed(w, s), invocation[w].at = "match_tables"
      PROVE  Blank'
  <2>1. next(s) = "match_fields"
    BY <1>5 DEF Successor
  <2>2. BlankIn(next(s), s)
    BY <2>1 DEF BlankIn
  <2> QED
    BY <1>5, <2>2, BlankProceed
<1> QED
  BY <1>2, <1>3, <1>4, <1>5 DEF Node, At, Nodes, MatchTablesNode, MatchFieldsNode,
     HumanReviewNode, ApplyRulesNode, AssembleNode, ValidateNode

LEMMA BlankNext == IInv /\ Blank /\ [Next]_vars => Blank'
<1> SUFFICES ASSUME IInv, Blank, [Next]_vars PROVE Blank'
  OBVIOUS
<1>1. CASE UNCHANGED vars
  BY <1>1 DEF vars, Blank, BlankIn
<1>2. CASE Crash
  <2>1. checkpoint' = checkpoint /\ invocation' = [w \in Workers |-> Idle]
    BY <1>2 DEF Crash
  <2> QED
    BY <2>1, FreshBlank DEF Blank, BlankIn, Idle
<1>3. ASSUME NEW w \in Workers, Request(w)
      PROVE  Blank'
  <2>1. CASE RunMapping(w)
    <3>1. /\ checkpoint'.next = "load_config" /\ checkpoint'.state = Fresh
          /\ invocation' = [invocation EXCEPT ![w] =
                              [at |-> "load_config", state |-> Fresh, verdicts |-> Null]]
      BY <2>1 DEF RunMapping
    <3>2. \A v \in Workers : BlankIn(invocation'[v].at, invocation'[v].state)
      BY <3>1, FreshBlank DEF IInv, TypeOK, Blank
    <3> QED
      BY <3>1, <3>2, FreshBlank DEF Blank, BlankIn
  <2>2. ASSUME NEW verdicts \in Reviews, ResumeMapping(w, verdicts)
        PROVE  Blank'
    <3>1. /\ checkpoint' = checkpoint
          /\ invocation' = [invocation EXCEPT ![w] =
                              [at |-> checkpoint.next, state |-> checkpoint.state,
                               verdicts |-> verdicts]]
      BY <2>2 DEF ResumeMapping
    <3>2. \A v \in Workers : BlankIn(invocation'[v].at, invocation'[v].state)
      BY <3>1 DEF IInv, TypeOK, Blank
    <3> QED
      BY <3>1, <3>2 DEF Blank, BlankIn
  <2>3. CASE ResumeCompleted(w)
    BY <2>3 DEF ResumeCompleted, Blank, BlankIn
  <2> QED
    BY <1>3, <2>1, <2>2, <2>3 DEF Request
<1> QED
  BY <1>1, <1>2, <1>3, BlankNode DEF Next

\* Nothing that a model or the fallback proposed below the tenant's threshold is
\* recorded without a reviewer, rounding included (nodes.py, 186-204).
THEOREM NothingSilentlyAccepted == Spec => []NotSilentlyAccepted
<1>1. Init => Blank
  BY FreshBlank DEF Init, Blank, NoCheckpoint, Idle
<1>2. IInv /\ Blank => NotSilentlyAccepted
  <2> SUFFICES ASSUME IInv, Blank, NEW live \in Live PROVE Thresholded(live.state)
    BY DEF NotSilentlyAccepted, Thresholded
  <2>1. Sound(live.at, live.state) /\ BlankIn(live.at, live.state)
    BY DEF IInv, Blank, Live
  <2>2. live.at \in Nodes \cup {"none", "idle", "end"}
    BY DEF IInv, TypeOK, Live
  <2>3. CASE live.at \in Reviewed \cup {"human_review"}
    BY <2>1, <2>3 DEF Sound
  <2>4. CASE live.at \notin Reviewed \cup {"human_review"}
    <3>1. \A f \in Fields : live.state.ledger[f] = <<>>
      BY <2>1, <2>2, <2>4 DEF Sound, BlankIn, Nodes, Reviewed
    <3> QED
      BY <3>1, EmptyLedger
  <2> QED
    BY <2>3, <2>4
<1> QED
  BY <1>1, <1>2, BlankNext, Inductive, PTL DEF Spec

-----------------------------------------------------------------------------
(* Where a transform can come from another pair                              *)

\* A reviewer approved entry i of field f, and gave it another destination.
Redirected(s, f, i) ==
    /\ s.ledger[f][i].by = "human_override"
    /\ i \in DOMAIN s.decisions[f]
    /\ s.decisions[f][i].approved
    /\ s.decisions[f][i].override = s.ledger[f][i].dst

\* The transforms of s follow from their pairs, those of redirected fields aside.
Paired(s) ==
    \A f \in Fields :
        /\ s.pending[f] # Null => s.pending[f].transform = Transform[f][s.pending[f].dst]
        /\ \A i \in DOMAIN s.ledger[f] :
             IsMapped(s.ledger[f][i]) =>
                \/ s.ledger[f][i].transform = Transform[f][s.ledger[f][i].dst]
                \/ Redirected(s, f, i)

AllPaired ==
    /\ Paired(checkpoint.state)
    /\ \A w \in Workers : Paired(invocation[w].state)

LEMMA FreshPaired == Paired(Fresh)
BY DEF Fresh, Paired, NoPending

\* A state with the same proposals and, as far as there are entries, the same
\* ledger and decisions is paired as well.
LEMMA PairedKept ==
    ASSUME NEW s, NEW r, Paired(s), r.pending = s.pending, r.decisions = s.decisions,
           \A f \in Fields : r.ledger[f] = s.ledger[f] \/ r.ledger[f] = <<>>
    PROVE  Paired(r)
<1> SUFFICES ASSUME NEW f \in Fields
             PROVE  /\ r.pending[f] # Null => r.pending[f].transform = Transform[f][r.pending[f].dst]
                    /\ \A i \in DOMAIN r.ledger[f] :
                         IsMapped(r.ledger[f][i]) =>
                            \/ r.ledger[f][i].transform = Transform[f][r.ledger[f][i].dst]
                            \/ Redirected(r, f, i)
  BY DEF Paired
<1>1. r.pending[f] # Null => r.pending[f].transform = Transform[f][r.pending[f].dst]
  BY DEF Paired
<1>2. CASE r.ledger[f] = <<>>
  BY <1>1, <1>2
<1>3. CASE r.ledger[f] = s.ledger[f]
  BY <1>1, <1>3 DEF Paired, Redirected
<1> QED
  BY <1>2, <1>3

LEMMA MatchFieldsPaired ==
    ASSUME NEW s \in GraphState, NEW matches
    PROVE  Paired(MatchFields(s, matches))
<1> DEFINE r == MatchFields(s, matches)
<1>1. /\ r.ledger = [f \in Fields |-> Recorded(s, f, matches[f])]
      /\ r.pending = [f \in Fields |-> IF NeedsReview(s, f, matches[f])
                                       THEN Proposed(f, matches[f]) ELSE Null]
  BY DEF MatchFields, GraphState
<1> HIDE DEF r
<1> SUFFICES ASSUME NEW f \in Fields
             PROVE  /\ r.pending[f] # Null => r.pending[f].transform = Transform[f][r.pending[f].dst]
                    /\ \A i \in DOMAIN r.ledger[f] :
                         IsMapped(r.ledger[f][i]) =>
                            r.ledger[f][i].transform = Transform[f][r.ledger[f][i].dst]
  BY DEF Paired, r
<1>2. r.pending[f] # Null => r.pending[f].transform = Transform[f][r.pending[f].dst]
  BY <1>1 DEF Proposed
<1>3. \/ r.ledger[f] = <<>>
      \/ \E o : /\ r.ledger[f] = <<o>>
               /\ o \in {Unmapped, StructuralMapping(f), Accepted(f, matches[f])}
  BY <1>1 DEF Recorded
<1>4. \A o \in {Unmapped, StructuralMapping(f), Accepted(f, matches[f])} :
        IsMapped(o) => o.transform = Transform[f][o.dst]
  BY DEF Unmapped, StructuralMapping, Accepted, IsMapped
<1> QED
  BY <1>2, <1>3, <1>4

LEMMA HumanReviewPaired ==
    ASSUME NEW s, Sound("human_review", s), Paired(s), NEW verdicts \in AllVerdicts
    PROVE  Paired(HumanReview(s, verdicts))
<1> DEFINE r == HumanReview(s, verdicts)
<1>1. s \in GraphState
  BY DEF Sound
<1>2. /\ r.ledger = [f \in Fields |-> IF s.pending[f] # Null
                                     THEN s.ledger[f] \o Decisions(s.pending[f], verdicts[f])
                                     ELSE s.ledger[f]]
      /\ r.decisions = verdicts /\ r.pending = NoPending
  BY <1>1 DEF HumanReview, GraphState
<1> HIDE DEF r
<1> SUFFICES ASSUME NEW f \in Fields, NEW i \in DOMAIN r.ledger[f], IsMapped(r.ledger[f][i])
             PROVE  \/ r.ledger[f][i].transform = Transform[f][r.ledger[f][i].dst]
                    \/ Redirected(r, f, i)
  BY <1>2 DEF Paired, NoPending, r
<1>3. CASE s.pending[f] = Null
  <2>1. r.ledger[f] = s.ledger[f] /\ s.ledger[f][i].by # "human_override"
    BY <1>2, <1>3 DEF Sound, Overridden
  <2> QED
    BY <2>1 DEF Paired, Redirected
<1>4. CASE s.pending[f] # Null
  <2> DEFINE p == s.pending[f]
             vs == verdicts[f]
  <2>1. /\ s.ledger[f] = <<>> /\ p \in Proposal /\ p.transform = Transform[f][p.dst]
        /\ vs \in Seq(Verdict)
    BY <1>1, <1>4 DEF Sound, GraphState, Paired, AllVerdicts
  <2> HIDE DEF p, vs
  <2>2. r.ledger[f] = Decisions(p, vs)
    <3>1. r.ledger[f] = <<>> \o Decisions(p, vs)
      BY <1>2, <1>4, <2>1 DEF p, vs
    <3>2. Decisions(p, vs) \in Seq(Outcome)
      BY <2>1, DecisionsType
    <3> QED
      BY <3>1, <3>2
  <2>3. vs # <<>>
    BY <2>2 DEF Decisions, Unmapped, IsMapped
  <2>4. /\ i \in DOMAIN vs /\ r.ledger[f][i] = Decided(p, vs[i]) /\ vs[i] \in Verdict
    BY <2>1, <2>2, <2>3 DEF Decisions
  <2>5. vs[i].approved
    BY <2>4 DEF Decided, Unmapped, IsMapped
  <2>6. CASE vs[i].override = Null
    BY <2>1, <2>4, <2>5, <2>6 DEF Decided
  <2>7. CASE vs[i].override # Null
    <3>1. r.ledger[f][i].dst = vs[i].override /\ r.ledger[f][i].by = "human_override"
      BY <2>4, <2>5, <2>7 DEF Decided
    <3>2. r.decisions[f] = vs
      BY <1>2 DEF vs
    <3> QED
      BY <2>4, <2>5, <3>1, <3>2 DEF Redirected
  <2> QED
    BY <2>6, <2>7
<1> QED
  BY <1>3, <1>4

LEMMA PairedProceed ==
    ASSUME IInv, AllPaired, NEW w \in Workers, NEW s, Proceed(w, s), Paired(s)
    PROVE  AllPaired'
<1>1. checkpoint'.state = s
  BY DEF Proceed
<1>2. \/ invocation' = [invocation EXCEPT ![w] = Idle]
      \/ \E next : invocation' = [invocation EXCEPT ![w] =
                                   [at |-> next, state |-> s, verdicts |-> Null]]
  BY DEF Proceed, Answer
<1>3. \A v \in Workers : Paired(invocation'[v].state)
  BY <1>2, FreshPaired DEF IInv, TypeOK, AllPaired, Idle
<1>4. Paired(checkpoint'.state)
  BY <1>1
<1> QED
  BY <1>3, <1>4 DEF AllPaired, Paired, Redirected, IsMapped

LEMMA PairedNode ==
    ASSUME IInv, AllPaired, NEW w \in Workers, Node(w)
    PROVE  AllPaired'
<1>1. /\ State(w) \in GraphState /\ Paired(State(w))
      /\ Sound(invocation[w].at, State(w))
  BY DEF IInv, TypeOK, State, AllPaired
<1>2. CASE PauseForReview(w) \/ Raise(w)
  <2>1. /\ checkpoint'.state = checkpoint.state
        /\ invocation' = [invocation EXCEPT ![w] = Idle]
    BY <1>2 DEF PauseForReview, Raise, Answer, IInv, TypeOK
  <2>2. \A v \in Workers : Paired(invocation'[v].state)
    BY <2>1, FreshPaired DEF Idle, IInv, TypeOK, AllPaired
  <2>3. Paired(checkpoint'.state)
    BY <2>1 DEF AllPaired
  <2> QED
    BY <2>2, <2>3 DEF AllPaired, Paired, Redirected, IsMapped
<1>3. CASE LoadConfigNode(w)
  <2>1. PICK threshold \in Thresholds : Proceed(w, LoadConfig(State(w), threshold))
    BY <1>3 DEF LoadConfigNode
  <2> DEFINE r == LoadConfig(State(w), threshold)
  <2>2. r.pending = State(w).pending /\ r.ledger = State(w).ledger
          /\ r.decisions = State(w).decisions
    BY <1>1 DEF LoadConfig, GraphState
  <2>3. Paired(r)
    <3> HIDE DEF r
    <3> QED
      BY <1>1, <2>2, PairedKept
  <2> QED
    BY <2>1, <2>3, PairedProceed
<1>4. CASE MatchTablesNode(w) /\ ~ Raise(w)
  <2>1. PICK matches : Proceed(w, MatchTables(State(w), matches))
    BY <1>4 DEF MatchTablesNode
  <2> DEFINE r == MatchTables(State(w), matches)
  <2>2. r.pending = State(w).pending /\ r.decisions = State(w).decisions
          /\ \A f \in Fields : r.ledger[f] = <<>>
    BY <1>1 DEF MatchTables, GraphState
  <2>3. Paired(r)
    <3> HIDE DEF r
    <3> QED
      BY <1>1, <2>2, PairedKept
  <2> QED
    BY <2>1, <2>3, PairedProceed
<1>5. CASE MatchFieldsNode(w) /\ ~ Raise(w)
  <2>1. PICK matches : Proceed(w, MatchFields(State(w), matches))
    BY <1>5 DEF MatchFieldsNode
  <2> QED
    BY <1>1, <2>1, MatchFieldsPaired, PairedProceed
<1>6. CASE HumanReviewNode(w)
  <2>1. /\ Proceed(w, HumanReview(State(w), invocation[w].verdicts))
        /\ invocation[w].verdicts \in AllVerdicts /\ invocation[w].at = "human_review"
    BY <1>6 DEF HumanReviewNode, At, IInv, TypeOK
  <2> QED
    BY <1>1, <2>1, HumanReviewPaired, PairedProceed
<1>7. ASSUME NEW r, Proceed(w, r), r.pending = State(w).pending,
             r.ledger = State(w).ledger, r.decisions = State(w).decisions
      PROVE  AllPaired'
  BY <1>1, <1>7, PairedKept, PairedProceed
<1>8. CASE ApplyRulesNode(w)
  <2>1. Proceed(w, ApplyRules(State(w)))
    BY <1>8 DEF ApplyRulesNode
  <2>2. /\ ApplyRules(State(w)).pending = State(w).pending
        /\ ApplyRules(State(w)).ledger = State(w).ledger
        /\ ApplyRules(State(w)).decisions = State(w).decisions
    BY <1>1 DEF ApplyRules, GraphState
  <2> QED
    BY <1>7, <2>1, <2>2
<1>9. CASE AssembleNode(w) /\ ~ Raise(w)
  <2>1. Proceed(w, Assemble(State(w)))
    BY <1>9 DEF AssembleNode
  <2>2. /\ Assemble(State(w)).pending = State(w).pending
        /\ Assemble(State(w)).ledger = State(w).ledger
        /\ Assemble(State(w)).decisions = State(w).decisions
    BY <1>1 DEF Assemble, GraphState
  <2> QED
    BY <1>7, <2>1, <2>2
<1>10. CASE ValidateNode(w) /\ ~ Raise(w)
  <2>1. Proceed(w, Validate(State(w)))
    BY <1>10 DEF ValidateNode
  <2>2. /\ Validate(State(w)).pending = State(w).pending
        /\ Validate(State(w)).ledger = State(w).ledger
        /\ Validate(State(w)).decisions = State(w).decisions
    BY <1>1 DEF Validate, GraphState
  <2> QED
    BY <1>7, <2>1, <2>2
<1> QED
  BY <1>2, <1>3, <1>4, <1>5, <1>6, <1>8, <1>9, <1>10 DEF Node

LEMMA PairedNext == IInv /\ AllPaired /\ [Next]_vars => AllPaired'
<1> SUFFICES ASSUME IInv, AllPaired, [Next]_vars PROVE AllPaired'
  OBVIOUS
<1>1. CASE UNCHANGED vars
  <2>1. Paired(checkpoint'.state) /\ \A w \in Workers : Paired(invocation'[w].state)
    BY <1>1 DEF vars, AllPaired
  <2> QED
    BY <2>1 DEF AllPaired, Paired, Redirected, IsMapped
<1>2. CASE Crash
  <2>1. checkpoint' = checkpoint /\ \A w \in Workers : invocation'[w].state = Fresh
    BY <1>2 DEF Crash, Idle
  <2>2. Paired(checkpoint'.state) /\ \A w \in Workers : Paired(invocation'[w].state)
    BY <2>1, FreshPaired DEF AllPaired
  <2> QED
    BY <2>2 DEF AllPaired, Paired, Redirected, IsMapped
<1>3. ASSUME NEW w \in Workers, Request(w)
      PROVE  AllPaired'
  <2> DEFINE Joins(i) == invocation' = [invocation EXCEPT ![w] = i]
  <2>1. /\ Paired(checkpoint'.state)
        /\ invocation' = invocation \/ \E i : Joins(i) /\ Paired(i.state)
    <3>1. CASE RunMapping(w)
      <4>1. /\ checkpoint'.state = Fresh
            /\ Joins([at |-> "load_config", state |-> Fresh, verdicts |-> Null])
        BY <3>1 DEF RunMapping
      <4> HIDE DEF Joins
      <4> QED
        BY <4>1, FreshPaired
    <3>2. CASE \E verdicts \in Reviews : ResumeMapping(w, verdicts)
      <4>1. PICK verdicts \in Reviews : ResumeMapping(w, verdicts)
        BY <3>2
      <4>2. /\ checkpoint' = checkpoint
            /\ Joins([at |-> checkpoint.next, state |-> checkpoint.state, verdicts |-> verdicts])
        BY <4>1 DEF ResumeMapping
      <4>3. Paired(checkpoint.state)
        BY DEF AllPaired
      <4> HIDE DEF Joins
      <4> QED
        BY <4>2, <4>3
    <3>3. CASE ResumeCompleted(w)
      BY <3>3 DEF ResumeCompleted, AllPaired
    <3> QED
      BY <1>3, <3>1, <3>2, <3>3 DEF Request
  <2>2. \A v \in Workers : Paired(invocation'[v].state)
    BY <2>1 DEF IInv, TypeOK, AllPaired
  <2> QED
    BY <2>1, <2>2 DEF AllPaired, Paired, Redirected, IsMapped
<1> QED
  BY <1>1, <1>2, <1>3, PairedNode DEF Next

\* That a transform belongs to another pair comes of a reviewer's other destination
\* alone: what models, the fallback and the structural rule say keeps to
\* type_transforms.py:4-6, and so does a plain approval (nodes.py, 156-218 and
\* 263-296).
THEOREM OnlyRedirectedDiffer ==
    Spec => [](\A live \in Live : \A f \in Fields :
                 \A i \in DOMAIN live.state.ledger[f] :
                    LET o == live.state.ledger[f][i]
                    IN  IsMapped(o) /\ o.transform # Transform[f][o.dst]
                          => Redirected(live.state, f, i))
<1>1. Init => AllPaired
  BY FreshPaired DEF Init, AllPaired, NoCheckpoint, Idle
<1>2. AllPaired => \A live \in Live : \A f \in Fields :
                     \A i \in DOMAIN live.state.ledger[f] :
                        LET o == live.state.ledger[f][i]
                        IN  IsMapped(o) /\ o.transform # Transform[f][o.dst]
                              => Redirected(live.state, f, i)
  <2> SUFFICES ASSUME AllPaired, NEW live \in Live, NEW f \in Fields,
                      NEW i \in DOMAIN live.state.ledger[f],
                      IsMapped(live.state.ledger[f][i])
               PROVE  \/ live.state.ledger[f][i].transform
                            = Transform[f][live.state.ledger[f][i].dst]
                      \/ Redirected(live.state, f, i)
    OBVIOUS
  <2>1. Paired(live.state)
    BY DEF AllPaired, Live
  <2> QED
    BY <2>1 DEF Paired
<1> QED
  BY <1>1, <1>2, PairedNext, Inductive, PTL DEF Spec

-----------------------------------------------------------------------------
(* The graph has no way back                                                 *)

\* The nodes an invocation may still execute, the one it is at included.
NodesLeft(at) ==
    CASE at = "load_config"  -> 7
      [] at = "match_tables" -> 6
      [] at = "match_fields" -> 5
      [] at = "human_review" -> 4
      [] at = "apply_rules"  -> 3
      [] at = "assemble"     -> 2
      [] at = "validate"     -> 1
      [] OTHER               -> 0

\* Nothing is executed before the first checkpoint.
Begun == checkpoint.next = "none" => \A w \in Workers : invocation[w].at = "idle"

LEMMA NodeNearer ==
    ASSUME IInv, NEW w \in Workers, Node(w)
    PROVE  /\ NodesLeft(invocation'[w].at) < NodesLeft(invocation[w].at)
           /\ \A v \in Workers \ {w} : invocation'[v] = invocation[v]
           /\ checkpoint'.next = "none" => checkpoint.next = "none"
<1>1. /\ invocation[w].at \in Nodes
      /\ invocation[w].at # "idle"
  BY DEF Node, LoadConfigNode, MatchTablesNode, MatchFieldsNode, PauseForReview,
     HumanReviewNode, ApplyRulesNode, AssembleNode, ValidateNode, At, Nodes
<1>2. NodesLeft("idle") = 0 /\ NodesLeft("idle") < NodesLeft(invocation[w].at)
  BY <1>1 DEF NodesLeft, Nodes
<1>3. /\ DOMAIN invocation = Workers
      /\ checkpoint = [next |-> checkpoint.next, state |-> checkpoint.state,
                       writer |-> checkpoint.writer, interrupted |-> checkpoint.interrupted]
  BY DEF IInv, TypeOK
<1>4. CASE Raise(w)
  <2>1. UNCHANGED checkpoint /\ invocation' = [invocation EXCEPT ![w] = Idle]
    BY <1>4 DEF Raise, Answer
  <2> QED
    BY <1>2, <1>3, <2>1 DEF Idle
<1>5. CASE PauseForReview(w)
  <2>1. /\ invocation' = [invocation EXCEPT ![w] = Idle]
        /\ \/ checkpoint' = [checkpoint EXCEPT !.interrupted = TRUE] /\ checkpoint.writer = w
           \/ checkpoint' = checkpoint
    BY <1>5 DEF PauseForReview, Answer
  <2>2. checkpoint'.next = checkpoint.next
    BY <1>3, <2>1
  <2> QED
    BY <1>2, <1>3, <2>1, <2>2 DEF Idle
<1>6. ASSUME NEW s, Proceed(w, s)
      PROVE  /\ NodesLeft(invocation'[w].at) < NodesLeft(invocation[w].at)
             /\ \A v \in Workers \ {w} : invocation'[v] = invocation[v]
             /\ checkpoint'.next # "none"
  <2> DEFINE next == Successor(invocation[w].at, s)
  <2>1. /\ next \in Nodes \cup {"end"}
        /\ NodesLeft(next) < NodesLeft(invocation[w].at)
    BY <1>1 DEF Successor, RouteAfterMatchFields, Nodes, NodesLeft
  <2>2. checkpoint'.next = next
    BY <1>6 DEF Proceed
  <2>3. \/ invocation' = [invocation EXCEPT ![w] = Idle]
        \/ invocation' = [invocation EXCEPT ![w] = [at |-> next, state |-> s, verdicts |-> Null]]
    BY <1>6 DEF Proceed, Answer
  <2> HIDE DEF next
  <2>4. next # "none"
    BY <2>1 DEF Nodes
  <2> QED
    BY <1>2, <1>3, <2>1, <2>2, <2>3, <2>4 DEF Idle
<1> QED
  BY <1>4, <1>5, <1>6 DEF Node, LoadConfigNode, MatchTablesNode, MatchFieldsNode,
     HumanReviewNode, ApplyRulesNode, AssembleNode, ValidateNode

\* An invocation only goes forward: a node is executed once in it, and after at
\* most seven it is over, whatever the answers, the decisions and the other
\* invocations are (build_graph.py, 37-58).
THEOREM InvocationsGoForward ==
    Spec => [][\A w \in Workers :
                 invocation[w].at # "idle" /\ invocation'[w] # invocation[w] =>
                    NodesLeft(invocation'[w].at) < NodesLeft(invocation[w].at)]_vars
<1> DEFINE Forward == \A w \in Workers :
                        invocation[w].at # "idle" /\ invocation'[w] # invocation[w] =>
                           NodesLeft(invocation'[w].at) < NodesLeft(invocation[w].at)
<1>1. Init => Begun
  BY DEF Init, Begun, Idle
<1>2. IInv /\ Begun /\ [Next]_vars => Begun' /\ [Forward]_vars
  <2> SUFFICES ASSUME IInv, Begun, [Next]_vars PROVE Begun' /\ [Forward]_vars
    OBVIOUS
  <2>1. DOMAIN invocation = Workers /\ \A w \in Workers : invocation[w].at \in Nodes \cup {"idle"}
    BY DEF IInv, TypeOK
  <2>2. CASE UNCHANGED vars
    BY <2>2 DEF vars, Begun
  <2>3. CASE Crash
    <3>1. /\ UNCHANGED checkpoint
          /\ \A w \in Workers : invocation'[w].at = "idle"
      BY <2>3 DEF Crash, Idle
    <3>2. \A w \in Workers : invocation[w].at # "idle" =>
            NodesLeft("idle") < NodesLeft(invocation[w].at)
      BY <2>1 DEF NodesLeft, Nodes
    <3> QED
      BY <3>1, <3>2 DEF Begun
  <2>4. ASSUME NEW w \in Workers, Node(w)
        PROVE  Begun' /\ Forward
    <3>1. invocation[w].at # "idle"
      BY <2>4 DEF Node, LoadConfigNode, MatchTablesNode, MatchFieldsNode, PauseForReview,
         HumanReviewNode, ApplyRulesNode, AssembleNode, ValidateNode, At
    <3>2. checkpoint.next # "none"
      BY <3>1 DEF Begun
    <3> QED
      BY <2>4, <3>2, NodeNearer DEF Begun
  <2>5. ASSUME NEW w \in Workers, Request(w)
        PROVE  Begun' /\ Forward
    <3>1. CASE RunMapping(w)
      <4>1. \A v \in Workers : invocation[v].at = "idle"
        BY <3>1 DEF RunMapping, NoCheckpoint, Begun
      <4> QED
        BY <3>1, <4>1 DEF RunMapping, Begun
    <3>2. CASE \E verdicts \in Reviews : ResumeMapping(w, verdicts)
      BY <2>1, <3>2 DEF ResumeMapping, Begun, Nodes
    <3>3. CASE ResumeCompleted(w)
      BY <3>3 DEF ResumeCompleted, Begun
    <3> QED
      BY <2>5, <3>1, <3>2, <3>3 DEF Request
  <2> QED
    BY <2>2, <2>3, <2>4, <2>5 DEF Next
<1> QED
  BY <1>1, <1>2, Inductive, PTL DEF Spec
=============================================================================
