------------------------ MODULE ReviewPromiseProofs ------------------------
(***************************************************************************)
(* What a run promises its clients when it has one request thread, for any *)
(* schema and any answers and decisions: MappingRun implements             *)
(* ReviewPromise, a complete run stays complete, what is recorded stays    *)
(* recorded, a lost run stays lost. With any number of threads, the items  *)
(* a client is shown are the fields that are open.                         *)
(*                                                                         *)
(* What one thread adds to the invariant of MappingRunProofs is that an    *)
(* invocation always works on the latest checkpoint (Following): every     *)
(* step that writes one then continues the run the clients have seen.      *)
(***************************************************************************)
EXTENDS MappingRunProofs

OneThread == \A v, w \in Workers : v = w

\* The invocation of w works on the latest checkpoint.
Follows(w) ==
    invocation[w].at = checkpoint.next /\ invocation[w].state = checkpoint.state

Following == \A w \in Workers : invocation[w].at # "idle" => Follows(w)

\* What is recorded in s is in r.
Keeps(s, r) == \A f \in Fields : s.ledger[f] = <<>> \/ r.ledger[f] = s.ledger[f]

\* What node `at` makes of s, as far as the promise can tell.
Moves(at, s, r) ==
    /\ at \in Nodes
    /\ Sound(Successor(at, r), r)
    /\ Keeps(s, r)
    /\ at \notin {"match_fields", "human_review"} => r.ledger = s.ledger
    /\ at = "match_fields" => \A f \in PrimaryKeys : r.ledger[f] # <<>>

\* A node that raised or paused: the values in the checkpoint stay, and only the
\* one who wrote it stores an interrupt with it.
Stays(w) ==
    /\ checkpoint'.next = checkpoint.next
    /\ checkpoint'.state = checkpoint.state
    /\ checkpoint'.writer = checkpoint.writer
    /\ checkpoint'.interrupted =>
         \/ checkpoint.interrupted
         \/ At(w, "human_review") /\ checkpoint.writer = w
    /\ invocation' = [invocation EXCEPT ![w] = Idle]

-----------------------------------------------------------------------------
(* Nodes *)

LEMMA RaiseStays ==
    ASSUME NEW w \in Workers, Raise(w)
    PROVE  Stays(w)
BY DEF Raise, Answer, Stays

LEMMA MatchTablesMoves ==
    ASSUME NEW s, Sound("match_tables", s), BlankIn("match_tables", s),
           NEW matches \in [Tables -> TableMatch \cup {Null}], ~ MatchTablesRaises(matches)
    PROVE  Moves("match_tables", s, MatchTables(s, matches))
<1> DEFINE r == MatchTables(s, matches)
<1>1. Sound("match_fields", r)
  BY MatchTablesSound
<1>2. s \in GraphState /\ r \in GraphState
  BY <1>1 DEF Sound
<1>3. \A f \in Fields : s.ledger[f] = <<>> /\ r.ledger[f] = <<>>
  BY <1>1 DEF BlankIn, Sound
<1> HIDE DEF r
<1>4. r.ledger = s.ledger
  <2>1. r.ledger \in [Fields -> Seq(Outcome)] /\ s.ledger \in [Fields -> Seq(Outcome)]
    BY <1>2 DEF GraphState
  <2> QED
    BY <1>3, <2>1
<1>5. Successor("match_tables", r) = "match_fields"
  BY DEF Successor
<1> QED
  BY <1>1, <1>3, <1>4, <1>5 DEF Moves, Keeps, Nodes, r

LEMMA MatchFieldsMoves ==
    ASSUME NEW s, Sound("match_fields", s),
           NEW matches \in [Fields -> FieldMatch \cup {Null}], ~ MatchFieldsRaises(s, matches)
    PROVE  Moves("match_fields", s, MatchFields(s, matches))
<1> DEFINE r == MatchFields(s, matches)
<1>1. Sound(RouteAfterMatchFields(r), r)
  BY MatchFieldsSound
<1>2. \A f \in Fields : s.ledger[f] = <<>>
  BY DEF Sound
<1>3. \A f \in PrimaryKeys : r.ledger[f] # <<>>
  <2>1. s \in GraphState
    BY DEF Sound
  <2>2. ASSUME NEW f \in PrimaryKeys PROVE r.ledger[f] = <<StructuralMapping(f)>>
    <3>1. f \in Fields
      BY SchemaAssumption
    <3>2. r.ledger = [g \in Fields |-> Recorded(s, g, matches[g])]
      BY <2>1 DEF MatchFields, GraphState
    <3>3. r.ledger[f] = Recorded(s, f, matches[f])
      BY <3>1, <3>2
    <3> QED
      BY <3>3 DEF Recorded
  <2> QED
    BY <2>2
<1>4. Successor("match_fields", r) = RouteAfterMatchFields(r)
  BY DEF Successor
<1> HIDE DEF r
<1> QED
  BY <1>1, <1>2, <1>3, <1>4 DEF Moves, Keeps, Nodes, r

LEMMA HumanReviewMoves ==
    ASSUME NEW s, Sound("human_review", s), NEW verdicts \in AllVerdicts
    PROVE  Moves("human_review", s, HumanReview(s, verdicts))
<1> DEFINE r == HumanReview(s, verdicts)
<1>1. Sound("apply_rules", r)
  BY HumanReviewSound
<1>2. s \in GraphState
  BY DEF Sound
<1>3. ASSUME NEW f \in Fields PROVE s.ledger[f] = <<>> \/ r.ledger[f] = s.ledger[f]
  <2>1. s.pending[f] # Null => s.ledger[f] = <<>>
    BY DEF Sound
  <2>2. r.ledger = [g \in Fields |->
                      IF s.pending[g] # Null
                      THEN s.ledger[g] \o Decisions(s.pending[g], verdicts[g])
                      ELSE s.ledger[g]]
    BY <1>2 DEF HumanReview, GraphState
  <2> HIDE DEF r
  <2> QED
    BY <2>1, <2>2
<1>4. Successor("human_review", r) = "apply_rules"
  BY DEF Successor
<1> HIDE DEF r
<1> QED
  BY <1>1, <1>3, <1>4 DEF Moves, Keeps, Nodes, r

\* The nodes that record nothing.
LEMMA SameLedgerMoves ==
    ASSUME NEW s, NEW r, NEW at \in Nodes \ {"match_fields", "human_review"},
           r.ledger = s.ledger, Sound(Successor(at, r), r)
    PROVE  Moves(at, s, r)
BY DEF Moves, Keeps

LEMMA NodeMoves ==
    ASSUME IInv, Blank, NEW w \in Workers, Node(w)
    PROVE  \/ Stays(w)
           \/ \E s : Proceed(w, s) /\ Moves(invocation[w].at, State(w), s)
<1>1. /\ Sound(invocation[w].at, State(w)) /\ State(w) \in GraphState
      /\ BlankIn(invocation[w].at, State(w))
  BY DEF IInv, Blank, State, Sound
<1>2. CASE LoadConfigNode(w)
  <2>1. PICK threshold \in Thresholds : Proceed(w, LoadConfig(State(w), threshold))
    BY <1>2 DEF LoadConfigNode
  <2>2. invocation[w].at = "load_config" /\ threshold \in Int
    BY <1>2, RunAssumption DEF LoadConfigNode, At
  <2>3. LoadConfig(State(w), threshold).ledger = State(w).ledger
    BY <1>1 DEF LoadConfig, GraphState
  <2>4. Sound("match_tables", LoadConfig(State(w), threshold))
    BY <1>1, <2>2, LoadConfigSound
  <2>5. Moves("load_config", State(w), LoadConfig(State(w), threshold))
    BY <2>3, <2>4, SameLedgerMoves DEF Successor, Nodes
  <2> QED
    BY <2>1, <2>2, <2>5
<1>3. CASE MatchTablesNode(w)
  <2>1. PICK matches \in [Tables -> TableMatches] :
          IF MatchTablesRaises(matches) THEN Raise(w)
          ELSE Proceed(w, MatchTables(State(w), matches))
    BY <1>3 DEF MatchTablesNode
  <2>2. matches \in [Tables -> TableMatch \cup {Null}] /\ invocation[w].at = "match_tables"
    BY <1>3, RunAssumption DEF MatchTablesNode, At
  <2> QED
    BY <1>1, <2>1, <2>2, RaiseStays, MatchTablesMoves
<1>4. CASE MatchFieldsNode(w)
  <2>1. PICK matches \in [Fields -> FieldMatches] :
          IF MatchFieldsRaises(State(w), matches) THEN Raise(w)
          ELSE Proceed(w, MatchFields(State(w), matches))
    BY <1>4 DEF MatchFieldsNode
  <2>2. matches \in [Fields -> FieldMatch \cup {Null}] /\ invocation[w].at = "match_fields"
    BY <1>4, RunAssumption DEF MatchFieldsNode, At
  <2> QED
    BY <1>1, <2>1, <2>2, RaiseStays, MatchFieldsMoves
<1>5. CASE PauseForReview(w)
  BY <1>5 DEF PauseForReview, Answer, Stays, IInv, TypeOK
<1>6. CASE HumanReviewNode(w)
  <2>1. /\ invocation[w].verdicts \in AllVerdicts /\ invocation[w].at = "human_review"
        /\ Proceed(w, HumanReview(State(w), invocation[w].verdicts))
    BY <1>6 DEF HumanReviewNode, At, IInv, TypeOK
  <2> QED
    BY <1>1, <2>1, HumanReviewMoves
<1>7. CASE ApplyRulesNode(w)
  <2>1. invocation[w].at = "apply_rules" /\ Proceed(w, ApplyRules(State(w)))
    BY <1>7 DEF ApplyRulesNode, At
  <2>2. ApplyRules(State(w)).ledger = State(w).ledger
    BY <1>1 DEF ApplyRules, GraphState
  <2>3. Moves("apply_rules", State(w), ApplyRules(State(w)))
    BY <1>1, <2>1, <2>2, ApplyRulesSound, SameLedgerMoves DEF Successor, Nodes
  <2> QED
    BY <2>1, <2>3
<1>8. CASE AssembleNode(w)
  <2>1. invocation[w].at = "assemble" /\ (Raise(w) \/ Proceed(w, Assemble(State(w))))
    BY <1>8 DEF AssembleNode, At
  <2>2. Assemble(State(w)).ledger = State(w).ledger
    BY <1>1 DEF Assemble, GraphState
  <2>3. Moves("assemble", State(w), Assemble(State(w)))
    BY <1>1, <2>1, <2>2, AssembleSound, SameLedgerMoves DEF Successor, Nodes
  <2> QED
    BY <2>1, <2>3, RaiseStays
<1>9. CASE ValidateNode(w)
  <2>1. invocation[w].at = "validate" /\ (Raise(w) \/ Proceed(w, Validate(State(w))))
    BY <1>9 DEF ValidateNode, At
  <2>2. Validate(State(w)).ledger = State(w).ledger
    BY <1>1 DEF Validate, GraphState
  <2>3. Moves("validate", State(w), Validate(State(w)))
    BY <1>1, <2>1, <2>2, ValidateSound, SameLedgerMoves DEF Successor, Nodes
  <2> QED
    BY <2>1, <2>3, RaiseStays
<1> QED
  BY <1>2, <1>3, <1>4, <1>5, <1>6, <1>7, <1>8, <1>9 DEF Node

-----------------------------------------------------------------------------
(* One thread *)

LEMMA FollowingNode ==
    ASSUME OneThread, IInv, NEW w \in Workers,
           Stays(w) \/ \E s : Proceed(w, s)
    PROVE  Following'
<1>1. \A v \in Workers : v = w
  BY DEF OneThread
<1>2. CASE Stays(w)
  BY <1>1, <1>2 DEF Stays, Following, Idle, IInv, TypeOK
<1>3. ASSUME NEW s, Proceed(w, s)
      PROVE  Following'
  <2> DEFINE next == Successor(invocation[w].at, s)
  <2> HIDE DEF next
  <2>1. checkpoint'.next = next /\ checkpoint'.state = s
    BY <1>3 DEF Proceed, next
  <2>2. \/ invocation'[w] = Idle
        \/ invocation'[w] = [at |-> next, state |-> s, verdicts |-> Null]
    BY <1>3 DEF Proceed, Answer, next, IInv, TypeOK
  <2>3. invocation'[w].at # "idle" =>
          invocation'[w].at = checkpoint'.next /\ invocation'[w].state = checkpoint'.state
    BY <2>1, <2>2 DEF Idle
  <2> QED
    BY <1>1, <2>3 DEF Following, Follows
<1> QED
  BY <1>2, <1>3

LEMMA FollowingNext ==
    ASSUME OneThread, IInv, Blank, Following, [Next]_vars
    PROVE  Following'
<1>1. CASE UNCHANGED vars
  BY <1>1 DEF vars, Following, Follows
<1>2. CASE Crash
  <2>1. invocation' = [w \in Workers |-> Idle]
    BY <1>2 DEF Crash
  <2> QED
    BY <2>1 DEF Following, Idle
<1>3. ASSUME NEW w \in Workers, Node(w)
      PROVE  Following'
  BY <1>3, NodeMoves, FollowingNode
<1>4. ASSUME NEW w \in Workers, Request(w)
      PROVE  Following'
  <2>1. \A v \in Workers : v = w
    BY DEF OneThread
  <2>2. CASE RunMapping(w)
    <3>1. /\ checkpoint'.next = "load_config" /\ checkpoint'.state = Fresh
          /\ invocation'[w] = [at |-> "load_config", state |-> Fresh, verdicts |-> Null]
      BY <2>2 DEF RunMapping, IInv, TypeOK
    <3> QED
      BY <2>1, <3>1 DEF Following, Follows
  <2>3. ASSUME NEW verdicts \in Reviews, ResumeMapping(w, verdicts)
        PROVE  Following'
    <3>1. /\ checkpoint' = checkpoint
          /\ invocation'[w] = [at |-> checkpoint.next, state |-> checkpoint.state,
                               verdicts |-> verdicts]
      BY <2>3 DEF ResumeMapping, IInv, TypeOK
    <3> QED
      BY <2>1, <3>1 DEF Following, Follows
  <2>4. CASE ResumeCompleted(w)
    BY <2>4 DEF ResumeCompleted, Following, Follows
  <2> QED
    BY <1>4, <2>2, <2>3, <2>4 DEF Request
<1> QED
  BY <1>1, <1>2, <1>3, <1>4 DEF Next

\* What a step does to the values that are checkpointed.
SameValues ==
    checkpoint'.next = checkpoint.next /\ checkpoint'.state = checkpoint.state

Starts ==
    checkpoint = NoCheckpoint /\ checkpoint'.next = "load_config" /\ checkpoint'.state = Fresh

Continues ==
    /\ checkpoint'.next = Successor(checkpoint.next, checkpoint'.state)
    /\ Moves(checkpoint.next, checkpoint.state, checkpoint'.state)

LEMMA Steps ==
    ASSUME IInv, Blank, Following, [Next]_vars
    PROVE  SameValues \/ Starts \/ Continues
<1>1. CASE UNCHANGED vars \/ Crash
  BY <1>1 DEF vars, Crash, SameValues
<1>2. ASSUME NEW w \in Workers, Request(w)
      PROVE  SameValues \/ Starts
  <2>1. CASE RunMapping(w)
    BY <2>1 DEF RunMapping, Starts
  <2>2. ASSUME NEW verdicts \in Reviews, ResumeMapping(w, verdicts)
        PROVE  SameValues
    BY <2>2 DEF ResumeMapping, SameValues
  <2>3. CASE ResumeCompleted(w)
    BY <2>3 DEF ResumeCompleted, SameValues
  <2> QED
    BY <1>2, <2>1, <2>2, <2>3 DEF Request
<1>3. ASSUME NEW w \in Workers, Node(w)
      PROVE  SameValues \/ Continues
  <2>1. CASE Stays(w)
    BY <2>1 DEF Stays, SameValues
  <2>2. ASSUME NEW s, Proceed(w, s), Moves(invocation[w].at, State(w), s)
        PROVE  Continues
    <3>1. invocation[w].at \in Nodes
      BY <2>2 DEF Moves
    <3>2. invocation[w].at = checkpoint.next /\ State(w) = checkpoint.state
      BY <3>1 DEF Nodes, Following, Follows, State
    <3>3. checkpoint'.next = Successor(invocation[w].at, s) /\ checkpoint'.state = s
      BY <2>2 DEF Proceed
    <3> QED
      BY <2>2, <3>2, <3>3 DEF Continues
  <2> QED
    BY <1>3, <2>1, <2>2, NodeMoves
<1> QED
  BY <1>1, <1>2, <1>3 DEF Next

\* With one thread every invocation works on the latest checkpoint.
THEOREM WorksOnLatest == ASSUME OneThread PROVE Spec => [](IInv /\ Blank /\ Following)
<1>1. Init => Blank /\ Following
  BY FreshBlank DEF Init, Blank, Following, NoCheckpoint, Idle
<1>2. IInv /\ Blank /\ Following /\ [Next]_vars => Following'
  BY FollowingNext
<1> QED
  BY <1>1, <1>2, BlankNext, Inductive, PTL DEF Spec

LEMMA StepCompletedStays ==
    ASSUME IInv, Blank, Following, [Next]_vars
    PROVE  checkpoint.next = "end" => UNCHANGED checkpoint
<1> SUFFICES ASSUME checkpoint.next = "end" PROVE UNCHANGED checkpoint
  OBVIOUS
<1>1. \A w \in Workers : invocation[w].at \notin Nodes
  BY DEF Following, Follows, Nodes
<1>2. \A w \in Workers : ~ Node(w)
  BY <1>1 DEF Node, At, Nodes, LoadConfigNode, MatchTablesNode, MatchFieldsNode,
     PauseForReview, HumanReviewNode, ApplyRulesNode, AssembleNode, ValidateNode
<1>3. checkpoint # NoCheckpoint
  BY DEF NoCheckpoint
<1> QED
  BY <1>2, <1>3 DEF Next, Crash, Request, RunMapping, ResumeMapping, ResumeCompleted, vars

\* With one thread a run a client has seen complete stays as it is
\* (main.py, 128-138).
THEOREM CompletedIsFinal == ASSUME OneThread PROVE Spec => CompletedStays
BY StepCompletedStays, WorksOnLatest, PTL DEF Spec, CompletedStays

LEMMA StepRecordedStays ==
    ASSUME IInv, Blank, Following, [Next]_vars
    PROVE  \A f \in Fields : \A i \in DOMAIN checkpoint.state.ledger[f] :
             /\ i \in DOMAIN checkpoint'.state.ledger[f]
             /\ checkpoint'.state.ledger[f][i] = checkpoint.state.ledger[f][i]
<1>1. CASE SameValues
  BY <1>1 DEF SameValues
<1>2. CASE Starts
  BY <1>2 DEF Starts, NoCheckpoint, Fresh
<1>3. CASE Continues
  <2>1. \A f \in Fields : \/ checkpoint.state.ledger[f] = <<>>
                          \/ checkpoint'.state.ledger[f] = checkpoint.state.ledger[f]
    BY <1>3 DEF Continues, Moves, Keeps
  <2> QED
    BY <2>1
<1> QED
  BY <1>1, <1>2, <1>3, Steps

\* With one thread an outcome once checkpointed is neither dropped nor replaced
\* (nodes.py, 144-220 and 263-296).
THEOREM RecordedIsFinal == ASSUME OneThread PROVE Spec => RecordedStays
BY StepRecordedStays, WorksOnLatest, PTL DEF Spec, RecordedStays

-----------------------------------------------------------------------------
(* A lost run *)

LEMMA SameValuesRaise ==
    ASSUME NEW s, NEW r, r.tables = s.tables, r.ledger = s.ledger, AssembleRaises(s)
    PROVE  AssembleRaises(r)
<1>1. \A t \in Tables : r.tables[t] = s.tables[t]
  OBVIOUS
<1>2. \A f \in Fields : r.ledger[f] = s.ledger[f]
  OBVIOUS
<1> DEFINE Bad(c) == c \notin 0 .. 1000
<1>3. \/ \E t \in Tables : Bad(s.tables[t].conf)
      \/ \E f \in Fields : \E i \in DOMAIN s.ledger[f] : Bad(s.ledger[f][i].conf)
  BY DEF AssembleRaises
<1>4. SUFFICES \/ \E t \in Tables : Bad(r.tables[t].conf)
               \/ \E f \in Fields : \E i \in DOMAIN r.ledger[f] : Bad(r.ledger[f][i].conf)
  BY Zenon DEF AssembleRaises
<1> HIDE DEF Bad
<1> QED
  BY <1>1, <1>2, <1>3

LEMMA NodeDoomedStays ==
    ASSUME IInv, Blank, Following, Doomed, NEW w \in Workers, Node(w)
    PROVE  Doomed'
<1>1. /\ invocation[w].at = checkpoint.next
      /\ State(w) = checkpoint.state
  BY DEF Node, At, State, Following, Follows, LoadConfigNode, MatchTablesNode,
     MatchFieldsNode, PauseForReview, HumanReviewNode, ApplyRulesNode, AssembleNode,
     ValidateNode
<1>2. CASE Stays(w)
  BY <1>2 DEF Stays, Doomed
<1>3. CASE MatchFieldsNode(w)
  <2>1. PICK matches \in [Fields -> FieldMatches] :
          IF MatchFieldsRaises(State(w), matches) THEN Raise(w)
          ELSE Proceed(w, MatchFields(State(w), matches))
    BY <1>3 DEF MatchFieldsNode
  <2>2. MatchFieldsRaises(State(w), matches)
    <3>1. checkpoint.next = "match_fields"
      BY <1>1, <1>3 DEF MatchFieldsNode, At
    <3>2. PICK f \in PrimaryKeys : Id \notin DestFields[CollectionOf(State(w), f)]
      BY <1>1, <3>1 DEF Doomed
    <3> QED
      BY <3>2, SchemaAssumption DEF MatchFieldsRaises
  <2> QED
    BY <1>2, <2>1, <2>2, RaiseStays
<1>4. CASE ApplyRulesNode(w)
  <2>1. invocation[w].at = "apply_rules" /\ Proceed(w, ApplyRules(State(w)))
    BY <1>4 DEF ApplyRulesNode, At
  <2>2. AssembleRaises(State(w))
    BY <1>1, <2>1 DEF Doomed
  <2>3. State(w) \in GraphState
    BY DEF IInv, TypeOK, State
  <2>4. PICK r : r = ApplyRules(State(w))
    OBVIOUS
  <2>5. r.tables = State(w).tables /\ r.ledger = State(w).ledger
    BY <2>3, <2>4 DEF ApplyRules, GraphState
  <2>6. AssembleRaises(r)
    BY <2>2, <2>5, SameValuesRaise
  <2>7. checkpoint'.next = "assemble" /\ checkpoint'.state = r
    BY <2>1, <2>4 DEF Proceed, Successor
  <2> QED
    <3>1. AssembleRaises(checkpoint'.state)
      BY <2>6, <2>7
    <3>2. AssembleRaises(checkpoint.state)'
      BY <3>1, Zenon DEF AssembleRaises
    <3> QED
      BY <2>7, <3>2 DEF Doomed
<1>5. CASE AssembleNode(w)
  <2>1. AssembleRaises(State(w))
    BY <1>1, <1>5 DEF Doomed, AssembleNode, At
  <2> QED
    BY <1>2, <1>5, <2>1, RaiseStays DEF AssembleNode
<1>6. CASE ValidateNode(w)
  <2>1. ValidateRaises(State(w).document)
    BY <1>1, <1>6 DEF Doomed, ValidateNode, At
  <2> QED
    BY <1>2, <1>6, <2>1, RaiseStays DEF ValidateNode
<1> QED
  BY <1>1, <1>3, <1>4, <1>5, <1>6 DEF Doomed, Node, At, LoadConfigNode, MatchTablesNode,
     PauseForReview, HumanReviewNode

LEMMA StepDoomedStays ==
    ASSUME IInv, Blank, Following, [Next]_vars
    PROVE  Doomed => Doomed'
<1> SUFFICES ASSUME Doomed PROVE Doomed'
  OBVIOUS
<1>1. ASSUME checkpoint' = checkpoint PROVE Doomed'
  BY <1>1 DEF Doomed
<1>2. checkpoint # NoCheckpoint
  BY DEF Doomed, NoCheckpoint
<1>3. ASSUME NEW w \in Workers, Request(w)
      PROVE  checkpoint' = checkpoint
  BY <1>2, <1>3 DEF Request, RunMapping, ResumeMapping, ResumeCompleted
<1> QED
  BY <1>1, <1>3, NodeDoomedStays DEF Next, Crash, vars

\* With one thread a run that took an unusable answer into its state stays lost,
\* whatever the reviewer decides (nodes.py, 148-149 and 329-370).
THEOREM LostStaysLost == ASSUME OneThread PROVE Spec => DoomedStays
BY StepDoomedStays, WorksOnLatest, PTL DEF Spec, DoomedStays

-----------------------------------------------------------------------------
(* The promise *)

Open(s) == {f \in Fields : s.ledger[f] = <<>>}

LEMMA StartIsBegin ==
    ASSUME Starts
    PROVE  Promise!Begin
<1>1. Phase = "absent" /\ checkpoint.state = Fresh
  BY DEF Starts, NoCheckpoint, Phase
<1>2. Phase' = "working"
  BY DEF Starts, Phase
<1>3. Open(checkpoint'.state) = Open(checkpoint.state)
  BY <1>1 DEF Starts
<1> QED
  BY <1>1, <1>2, <1>3 DEF Promise!Begin, Open

LEMMA WorkIsStutter ==
    ASSUME Continues, checkpoint.next \in {"load_config", "match_tables"}
    PROVE  UNCHANGED Promise!promiseVars
<1>1. Phase = "working"
  BY DEF Phase
<1>2. checkpoint'.next \in {"match_tables", "match_fields"}
  BY DEF Continues, Successor
<1>3. Phase' = "working"
  BY <1>2 DEF Phase
<1>4. Open(checkpoint'.state) = Open(checkpoint.state)
  BY DEF Continues, Moves, Open
<1> QED
  BY <1>1, <1>3, <1>4 DEF Promise!promiseVars, Open

LEMMA MatchFieldsIsSettle ==
    ASSUME Continues, checkpoint.next = "match_fields"
    PROVE  Promise!Settle
<1> DEFINE r == checkpoint'.state
<1>1. /\ checkpoint'.next = RouteAfterMatchFields(r)
      /\ Sound(RouteAfterMatchFields(r), r)
      /\ \A f \in PrimaryKeys : r.ledger[f] # <<>>
  BY DEF Continues, Moves, Successor
<1>2. Phase = "working"
  BY DEF Phase
<1> HIDE DEF r
<1>3. Open(r) \in SUBSET (Fields \ PrimaryKeys)
  BY <1>1 DEF Open
<1>4. CASE r.pending # NoPending
  <2>1. RouteAfterMatchFields(r) = "human_review" /\ r \in GraphState
    BY <1>1, <1>4 DEF RouteAfterMatchFields, Sound
  <2>2. r.pending \in [Fields -> Proposal \cup {Null}]
    BY <2>1 DEF GraphState
  <2>3. PICK f \in Fields : r.pending[f] # Null
    BY <1>4, <2>2 DEF NoPending
  <2>4. f \in Open(r)
    BY <1>1, <2>1, <2>3 DEF Sound, Open
  <2>5. Phase' = "waiting"
    BY <1>1, <2>1 DEF Phase
  <2> QED
    BY <1>2, <1>3, <2>4, <2>5 DEF Promise!Settle, Open, r
<1>5. CASE r.pending = NoPending
  <2>1. RouteAfterMatchFields(r) = "apply_rules"
    BY <1>5 DEF RouteAfterMatchFields
  <2>2. Open(r) = {}
    BY <1>1, <2>1 DEF Sound, Reviewed, Open
  <2>3. Phase' = "reviewed"
    BY <1>1, <2>1 DEF Phase
  <2> QED
    BY <1>2, <1>3, <2>2, <2>3 DEF Promise!Settle, Open, r
<1> QED
  BY <1>4, <1>5

LEMMA HumanReviewIsReview ==
    ASSUME Continues, checkpoint.next = "human_review"
    PROVE  Promise!Review
<1>1. checkpoint'.next = "apply_rules" /\ Sound("apply_rules", checkpoint'.state)
  BY DEF Continues, Moves, Successor
<1>2. Phase = "waiting"
  BY DEF Phase
<1>3. Phase' = "reviewed"
  BY <1>1 DEF Phase
<1>4. Open(checkpoint'.state) = {}
  BY <1>1 DEF Sound, Reviewed, Open
<1> QED
  BY <1>2, <1>3, <1>4 DEF Promise!Review, Open

LEMMA TailIsPublish ==
    ASSUME Continues, checkpoint.next \in {"apply_rules", "assemble", "validate"}
    PROVE  Promise!Publish \/ UNCHANGED Promise!promiseVars
<1>1. Phase = "reviewed"
  BY DEF Phase
<1>2. \/ checkpoint'.next \in {"assemble", "validate"}
      \/ checkpoint'.next = "end"
  BY DEF Continues, Successor
<1>3. Phase' = "reviewed" \/ Phase' = "published"
  BY <1>2 DEF Phase
<1>4. Open(checkpoint'.state) = Open(checkpoint.state)
  BY DEF Continues, Moves, Open
<1> QED
  BY <1>1, <1>3, <1>4 DEF Promise!Publish, Promise!promiseVars, Open

LEMMA StepKeepsPromise ==
    ASSUME IInv, Blank, Following, [Next]_vars
    PROVE  [Promise!Next]_(Promise!promiseVars)
<1>1. CASE SameValues
  BY <1>1 DEF SameValues, Promise!promiseVars, Phase
<1>2. CASE Starts
  BY <1>2, StartIsBegin DEF Promise!Next
<1>3. CASE Continues
  <2>1. checkpoint.next \in Nodes
    BY <1>3 DEF Continues, Moves
  <2> QED
    BY <1>3, <2>1, WorkIsStutter, MatchFieldsIsSettle, HumanReviewIsReview, TailIsPublish
       DEF Nodes, Promise!Next
<1> QED
  BY <1>1, <1>2, <1>3, Steps

\* With one thread MappingRun implements ReviewPromise: one review, which every
\* open field waits for and which leaves none open, and one publication
\* (build_graph.py, 37-58).
THEOREM PromiseKept == ASSUME OneThread PROVE Spec => KeepsPromise
<1>1. Init => Promise!Init
  BY DEF Init, Promise!Init, NoCheckpoint, Fresh, Phase
<1> QED
  BY <1>1, StepKeepsPromise, WorksOnLatest, PTL DEF Spec, KeepsPromise, Promise!Spec

-----------------------------------------------------------------------------
(* What clients are shown *)

\* An interrupt is stored at human_review only, and whoever wrote the latest
\* checkpoint works on it.
Marked ==
    /\ checkpoint.interrupted => checkpoint.next = "human_review"
    /\ \A w \in Workers :
         invocation[w].at # "idle" /\ checkpoint.writer = w => Follows(w)

LEMMA MarkedNode ==
    ASSUME IInv, Marked, NEW w \in Workers, Stays(w) \/ \E s : Proceed(w, s)
    PROVE  Marked'
<1>1. CASE Stays(w)
  <2>1. \A v \in Workers : invocation'[v] = invocation[v] \/ invocation'[v] = Idle
    BY <1>1 DEF Stays, IInv, TypeOK
  <2>2. \A v \in Workers :
          invocation'[v].at # "idle" /\ checkpoint'.writer = v =>
            /\ invocation'[v].at = checkpoint'.next
            /\ invocation'[v].state = checkpoint'.state
    BY <1>1, <2>1 DEF Stays, Marked, Follows, Idle
  <2>3. checkpoint'.interrupted => checkpoint'.next = "human_review"
    BY <1>1 DEF Stays, Marked, At, Follows
  <2> QED
    BY <2>2, <2>3 DEF Marked, Follows
<1>2. ASSUME NEW s, Proceed(w, s)
      PROVE  Marked'
  <2> DEFINE next == Successor(invocation[w].at, s)
  <2> HIDE DEF next
  <2>1. checkpoint' = [next |-> next, state |-> s, writer |-> w, interrupted |-> FALSE]
    BY <1>2 DEF Proceed, next
  <2>2. \/ invocation'[w] = Idle
        \/ invocation'[w] = [at |-> next, state |-> s, verdicts |-> Null]
    BY <1>2 DEF Proceed, Answer, next, IInv, TypeOK
  <2> QED
    BY <2>1, <2>2 DEF Marked, Follows, Idle
<1> QED
  BY <1>1, <1>2

LEMMA MarkedNext == IInv /\ Blank /\ Marked /\ [Next]_vars => Marked'
<1> SUFFICES ASSUME IInv, Blank, Marked, [Next]_vars PROVE Marked'
  OBVIOUS
<1>1. CASE UNCHANGED vars
  BY <1>1 DEF vars, Marked, Follows
<1>2. CASE Crash
  <2>1. checkpoint' = checkpoint /\ invocation' = [w \in Workers |-> Idle]
    BY <1>2 DEF Crash
  <2> QED
    BY <2>1 DEF Marked, Idle
<1>3. ASSUME NEW w \in Workers, Node(w)
      PROVE  Marked'
  BY <1>3, NodeMoves, MarkedNode
<1>4. ASSUME NEW w \in Workers, Request(w)
      PROVE  Marked'
  <2>1. CASE RunMapping(w)
    <3>1. /\ checkpoint' = [next |-> "load_config", state |-> Fresh, writer |-> w,
                            interrupted |-> FALSE]
          /\ invocation'[w] = [at |-> "load_config", state |-> Fresh, verdicts |-> Null]
      BY <2>1 DEF RunMapping, IInv, TypeOK
    <3> QED
      BY <3>1 DEF Marked, Follows
  <2>2. ASSUME NEW verdicts \in Reviews, ResumeMapping(w, verdicts)
        PROVE  Marked'
    <3>1. /\ checkpoint' = checkpoint
          /\ invocation' = [invocation EXCEPT ![w] =
                              [at |-> checkpoint.next, state |-> checkpoint.state,
                               verdicts |-> verdicts]]
      BY <2>2 DEF ResumeMapping
    <3>2. \A v \in Workers : invocation'[v] = invocation[v] \/ v = w
      BY <3>1 DEF IInv, TypeOK
    <3>3. invocation'[w].at = checkpoint'.next /\ invocation'[w].state = checkpoint'.state
      BY <3>1 DEF IInv, TypeOK
    <3> QED
      BY <3>1, <3>2, <3>3 DEF Marked, Follows
  <2>3. CASE ResumeCompleted(w)
    BY <2>3 DEF ResumeCompleted, Marked, Follows
  <2> QED
    BY <1>4, <2>1, <2>2, <2>3 DEF Request
<1> QED
  BY <1>1, <1>2, <1>3, <1>4 DEF Next

\* The items shown to a reviewer are the fields that lack an outcome, whatever
\* other invocations do to the run (main.py, 116-120).
THEOREM ShownIsOpen == Spec => []ItemsAreWhatIsOpen
<1>1. Init => Blank /\ Marked
  BY FreshBlank DEF Init, Blank, Marked, NoCheckpoint, Idle
<1>2. IInv /\ Marked => ItemsAreWhatIsOpen
  <2> SUFFICES ASSUME IInv, Marked, GetMapping.items # {}
               PROVE  GetMapping.items = {f \in Fields : checkpoint.state.ledger[f] = <<>>}
    BY DEF ItemsAreWhatIsOpen
  <2>1. checkpoint.interrupted
    BY DEF GetMapping
  <2>2. checkpoint.next = "human_review" /\ Sound("human_review", checkpoint.state)
    BY <2>1 DEF Marked, IInv
  <2>3. GetMapping.items = {f \in Fields : checkpoint.state.pending[f] # Null}
    BY <2>1, <2>2 DEF GetMapping
  <2>4. \A f \in Fields : checkpoint.state.pending[f] # Null
                            <=> checkpoint.state.ledger[f] = <<>>
    <3>1. \A f \in Fields : IF checkpoint.state.pending[f] # Null
                            THEN checkpoint.state.ledger[f] = <<>>
                            ELSE Len(checkpoint.state.ledger[f]) = 1
      BY <2>2 DEF Sound
    <3>2. Len(<<>>) # 1
      OBVIOUS
    <3> QED
      BY <3>1, <3>2
  <2> QED
    BY <2>3, <2>4
<1> QED
  BY <1>1, <1>2, BlankNext, MarkedNext, Inductive, PTL DEF Spec
=============================================================================
