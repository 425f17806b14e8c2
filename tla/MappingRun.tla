----------------------------- MODULE MappingRun -----------------------------
(***************************************************************************)
(* One mapping run, i.e. one thread_id, and the requests that drive it:    *)
(* POST /run, POST /resume and GET of app/api/main.py over the checkpointed*)
(* graph of app/graph/build_graph.py.                                      *)
(*                                                                         *)
(* Requests run in a thread pool, so several invocations of the graph may  *)
(* be in flight on the same thread. Each reads the latest checkpoint when  *)
(* it starts, keeps its own graph state in memory, and persists it after   *)
(* every node; the checkpoint written last is the latest. A node that      *)
(* raises ends its invocation and persists nothing. A process crash ends   *)
(* all of them; the checkpoint survives.                                   *)
(***************************************************************************)
EXTENDS GraphNodes

CONSTANTS
    Workers,       \* request threads
    Thresholds,    \* confidence_review_threshold of the tenant, in thousandths
    TableMatches,  \* what reason_table_match may return, or Null: it raises
    FieldMatches,  \* what reason_field_match may return, or Null: it raises
    Reviews        \* the decision lists reviewers send, split by field

ASSUME RunAssumption ==
    /\ Thresholds \subseteq Int
    /\ TableMatches \subseteq TableMatch \cup {Null}
    /\ FieldMatches \subseteq FieldMatch \cup {Null}
    /\ Reviews \subseteq [Fields -> Seq(Verdict)]

VARIABLES
    checkpoint,    \* the latest checkpoint: next node, graph state, its writer,
                   \* and whether the next node has stored an interrupt with it
    invocation,    \* what each worker is executing
    reply          \* the status of the last answer each worker gave

vars == <<checkpoint, invocation, reply>>

NoCheckpoint == [next |-> "none", state |-> Fresh, writer |-> Null, interrupted |-> FALSE]
Idle == [at |-> "idle", state |-> Fresh, verdicts |-> Null]
NoReply == "none"

AllVerdicts == [Fields -> Seq(Verdict)]

TypeOK ==
    /\ checkpoint \in [next : Nodes \cup {"none", "end"}, state : GraphState,
                       writer : Workers \cup {Null}, interrupted : BOOLEAN]
    /\ invocation \in [Workers -> [at : Nodes \cup {"idle"}, state : GraphState,
                                   verdicts : AllVerdicts \cup {Null}]]
    /\ reply \in [Workers -> {"none", "pending_review", "completed", "failed"}]

Init ==
    /\ checkpoint = NoCheckpoint
    /\ invocation = [w \in Workers |-> Idle]
    /\ reply = [w \in Workers |-> NoReply]

-----------------------------------------------------------------------------
(* The graph: which node follows which *)

\* Mutant: a table with something accepted needs no review.
RouteByAccepted(s) ==
    IF \A f \in Fields \ PrimaryKeys : s.ledger[f] = <<>>
    THEN "human_review" ELSE "apply_rules"

RouteAfterMatchFields(s) ==
    IF s.pending # NoPending THEN "human_review" ELSE "apply_rules"

\* Mutant: a document with problems is sent back to match_fields.
SuccessorRetrying(node, s) ==
    CASE node = "load_config"  -> "match_tables"
      [] node = "match_tables" -> "match_fields"
      [] node = "match_fields" -> RouteAfterMatchFields(s)
      [] node = "human_review" -> "apply_rules"
      [] node = "apply_rules"  -> "assemble"
      [] node = "assemble"     -> "validate"
      [] node = "validate"     -> IF s.report.ok THEN "end" ELSE "match_fields"

Successor(node, s) ==
    CASE node = "load_config"  -> "match_tables"
      [] node = "match_tables" -> "match_fields"
      [] node = "match_fields" -> RouteAfterMatchFields(s)
      [] node = "human_review" -> "apply_rules"
      [] node = "apply_rules"  -> "assemble"
      [] node = "assemble"     -> "validate"
      [] node = "validate"     -> "end"

\* The invocation of w answers its client and ends.
Answer(w, status) ==
    /\ invocation' = [invocation EXCEPT ![w] = Idle]
    /\ reply' = [reply EXCEPT ![w] = status]

\* Node `at` of w returned s: the checkpoint is written and w moves on, without
\* the resume value, which belongs to the node it resumed.
Proceed(w, s) ==
    LET next == Successor(invocation[w].at, s)
    IN  /\ checkpoint' = [next |-> next, state |-> s, writer |-> w, interrupted |-> FALSE]
        /\ IF next = "end"
           THEN Answer(w, "completed")
           ELSE /\ invocation' = [invocation EXCEPT ![w] =
                                    [at |-> next, state |-> s, verdicts |-> Null]]
                /\ UNCHANGED reply

\* Mutant: a node that raises sends the run back to match_tables.
RaiseAndRestart(w) ==
    /\ Answer(w, "failed")
    /\ checkpoint' = [checkpoint EXCEPT !.next = "match_tables"]

\* Node `at` of w raised: the request fails, the checkpoint stays.
Raise(w) ==
    /\ Answer(w, "failed")
    /\ UNCHANGED checkpoint

-----------------------------------------------------------------------------
(* Requests *)

\* Mutant: a run that is over is run again on its thread.
RunMappingAgain(w) ==
    /\ invocation[w].at = "idle"
    /\ checkpoint.next \in {"none", "end"}
    /\ checkpoint' = [next |-> "load_config", state |-> Fresh, writer |-> w,
                      interrupted |-> FALSE]
    /\ invocation' = [invocation EXCEPT ![w] =
                        [at |-> "load_config", state |-> Fresh, verdicts |-> Null]]
    /\ reply' = [reply EXCEPT ![w] = NoReply]

\* POST /v1/mappings/run: a new run_id, so a new thread.
RunMapping(w) ==
    /\ checkpoint = NoCheckpoint
    /\ checkpoint' = [next |-> "load_config", state |-> Fresh, writer |-> w,
                      interrupted |-> FALSE]
    /\ invocation' = [invocation EXCEPT ![w] =
                        [at |-> "load_config", state |-> Fresh, verdicts |-> Null]]
    /\ reply' = [reply EXCEPT ![w] = NoReply]

\* POST /v1/mappings/{run_id}/resume of a run that is not complete: the graph
\* goes on from the latest checkpoint, whichever node that is.
ResumeMapping(w, verdicts) ==
    /\ invocation[w].at = "idle"
    /\ checkpoint.next \in Nodes
    /\ invocation' = [invocation EXCEPT ![w] =
                        [at |-> checkpoint.next, state |-> checkpoint.state,
                         verdicts |-> verdicts]]
    /\ reply' = [reply EXCEPT ![w] = NoReply]
    /\ UNCHANGED checkpoint

\* The same of a complete run: nothing to execute, the stored values are the
\* answer and the decisions are dropped.
ResumeCompleted(w) ==
    /\ invocation[w].at = "idle"
    /\ checkpoint.next = "end"
    /\ reply' = [reply EXCEPT ![w] = "completed"]
    /\ UNCHANGED <<checkpoint, invocation>>

\* GET /v1/mappings/{run_id}, as a function of the latest checkpoint.
GetMapping ==
    CASE checkpoint.next = "none" -> [status |-> "not_found", items |-> {}]
      [] checkpoint.next = "end"  -> [status |-> "completed", items |-> {}]
      [] OTHER -> [status |-> "pending_review",
                   items |-> IF checkpoint.interrupted
                             THEN {f \in Fields : checkpoint.state.pending[f] # Null}
                             ELSE {}]

-----------------------------------------------------------------------------
(* Nodes, executed by the invocation of worker w *)

At(w, node) == invocation[w].at = node

State(w) == invocation[w].state

LoadConfigNode(w) ==
    /\ At(w, "load_config")
    /\ \E threshold \in Thresholds : Proceed(w, LoadConfig(State(w), threshold))

MatchTablesNode(w) ==
    /\ At(w, "match_tables")
    /\ \E matches \in [Tables -> TableMatches] :
          IF MatchTablesRaises(matches)
          THEN Raise(w)
          ELSE Proceed(w, MatchTables(State(w), matches))

MatchFieldsNode(w) ==
    /\ At(w, "match_fields")
    /\ \E matches \in [Fields -> FieldMatches] :
          /\ \A f \in Fields : CanAnswer(State(w), f, matches[f])
          /\ IF MatchFieldsRaises(State(w), matches)
             THEN Raise(w)
             ELSE Proceed(w, MatchFields(State(w), matches))

\* interrupt() without a resume value: the interrupt is stored with the
\* checkpoint this invocation wrote last, and the request returns the items.
PauseForReview(w) ==
    /\ At(w, "human_review")
    /\ invocation[w].verdicts = Null
    /\ checkpoint' = IF checkpoint.writer = w
                     THEN [checkpoint EXCEPT !.interrupted = TRUE]
                     ELSE checkpoint
    /\ Answer(w, "pending_review")

\* Mutant: the decisions are applied to the latest checkpoint, not to the graph
\* state this invocation started from.
HumanReviewOnLatest(w) ==
    /\ At(w, "human_review")
    /\ invocation[w].verdicts # Null
    /\ Proceed(w, HumanReview(checkpoint.state, invocation[w].verdicts))

HumanReviewNode(w) ==
    /\ At(w, "human_review")
    /\ invocation[w].verdicts # Null
    /\ Proceed(w, HumanReview(State(w), invocation[w].verdicts))

ApplyRulesNode(w) ==
    /\ At(w, "apply_rules")
    /\ Proceed(w, ApplyRules(State(w)))

AssembleNode(w) ==
    /\ At(w, "assemble")
    /\ IF AssembleRaises(State(w)) THEN Raise(w) ELSE Proceed(w, Assemble(State(w)))

ValidateNode(w) ==
    /\ At(w, "validate")
    /\ IF ValidateRaises(State(w).document)
       THEN Raise(w)
       ELSE Proceed(w, Validate(State(w)))

Node(w) ==
    \/ LoadConfigNode(w)
    \/ MatchTablesNode(w)
    \/ MatchFieldsNode(w)
    \/ PauseForReview(w)
    \/ HumanReviewNode(w)
    \/ ApplyRulesNode(w)
    \/ AssembleNode(w)
    \/ ValidateNode(w)

-----------------------------------------------------------------------------

\* The process stops; clients get no answer and the threads restart idle.
Crash ==
    /\ \E w \in Workers : ~ At(w, "idle")
    /\ invocation' = [w \in Workers |-> Idle]
    /\ reply' = [w \in Workers |-> NoReply]
    /\ UNCHANGED checkpoint

Request(w) ==
    \/ RunMapping(w)
    \/ \E verdicts \in Reviews : ResumeMapping(w, verdicts)
    \/ ResumeCompleted(w)

Next == Crash \/ \E w \in Workers : Request(w) \/ Node(w)

Spec == Init /\ [][Next]_vars

-----------------------------------------------------------------------------
(* Properties *)

Reviewed == {"apply_rules", "assemble", "validate", "end"}

\* The graph states in existence, each with the node that comes next: the
\* checkpointed one and the one each invocation holds in memory.
Live == {[at |-> checkpoint.next, state |-> checkpoint.state]}
          \cup {[at |-> invocation[w].at, state |-> invocation[w].state] : w \in Workers}

\* Every source field is on exactly one side at the review: waiting for a
\* decision or recorded once; and after it no field is without an outcome,
\* whatever decisions came, from whichever invocation (nodes.py, 144-220 and
\* 263-296).
NoFieldLost ==
    \A live \in Live :
        LET s == live.state
        IN  /\ live.at = "human_review" =>
                 \A f \in Fields : IF s.pending[f] # Null
                                   THEN s.ledger[f] = <<>>
                                   ELSE Len(s.ledger[f]) = 1
            /\ live.at \in Reviewed => \A f \in Fields : s.ledger[f] # <<>>

\* A report that says ok can be trusted although validate_coverage only counts
\* entries: every source field is in the document exactly once, and no two
\* fields of a table have the same destination (validation.py, 8-9).
CoverageSound ==
    \A live \in Live :
        LET entries == live.state.document.ledger
        IN  live.at = "end" /\ live.state.report.ok =>
                /\ \A f \in Fields : Len(entries[f]) = 1
                /\ \A f, g \in Fields :
                     f # g /\ TableOf[f] = TableOf[g] /\ IsMapped(entries[f][1])
                         => entries[f][1].dst # entries[g][1].dst

\* What a model or the fallback proposed below the tenant's threshold never
\* becomes a mapping without a reviewer, also after the confidence is rounded
\* and whatever is resumed or re-executed (nodes.py, 186-204).
NotSilentlyAccepted ==
    \A live \in Live : \A f \in Fields :
        LET outcomes == live.state.ledger[f]
        IN  \A i \in DOMAIN outcomes :
                outcomes[i].by \in {"llm", "fallback"} =>
                    outcomes[i].conf >= RoundConf(live.state.threshold)

\* The entries attributed to a reviewer are those of one decision list, as it
\* was sent: as many as it has decisions on the field, mapped where it
\* approves, to the override where it gives one; two overlapping resumes never
\* mix (nodes.py, 263-289).
VerdictsHonoured ==
    \A live \in Live : \A f \in Fields :
        LET outcomes == live.state.ledger[f]
            verdicts == live.state.decisions[f]
        IN  (\E i \in DOMAIN outcomes : outcomes[i].by = "human_override") =>
                /\ Len(outcomes) = Len(verdicts)
                /\ \A i \in DOMAIN outcomes :
                     /\ IsMapped(outcomes[i]) <=> verdicts[i].approved
                     /\ verdicts[i].approved /\ verdicts[i].override # Null =>
                          outcomes[i].dst = verdicts[i].override

\* A client that is shown items to review is shown all the fields that still
\* lack an outcome, and only those (main.py, 116-120).
ItemsAreWhatIsOpen ==
    GetMapping.items # {} =>
        GetMapping.items = {f \in Fields : checkpoint.state.ledger[f] = <<>>}

\* In a published document every field of a table's collection is either
\* claimed by a source field or listed as unmapped, never both, also when the
\* claim came out of the review (nodes.py, 306-326).
DestinationsAccounted ==
    \A live \in Live : live.at = "end" => \A t \in Tables :
        LET document == live.state.document
            claimed == ClaimedIn(document.ledger, t)
        IN  /\ claimed \cap document.unclaimed[t] = {}
            /\ DestFields[document.tables[t].collection]
                 \subseteq claimed \cup document.unclaimed[t]

\* A run a client has seen complete stays as it is. Not so when two resumes of
\* it overlap: the later one writes its own checkpoints (main.py, 128-138).
CompletedStays ==
    [][checkpoint.next = "end" => UNCHANGED checkpoint]_vars

\* An outcome once checkpointed is never dropped or replaced, through crashes,
\* failing nodes and retries.
RecordedStays ==
    [][\A f \in Fields : \A i \in DOMAIN checkpoint.state.ledger[f] :
          /\ i \in DOMAIN checkpoint'.state.ledger[f]
          /\ checkpoint'.state.ledger[f][i] = checkpoint.state.ledger[f][i]]_vars

\* The next node raises on the values that are checkpointed.
Doomed ==
    \/ checkpoint.next = "match_fields" /\ \E f \in PrimaryKeys :
           Id \notin DestFields[CollectionOf(checkpoint.state, f)]
    \/ checkpoint.next \in {"apply_rules", "assemble"} /\ AssembleRaises(checkpoint.state)
    \/ checkpoint.next = "validate" /\ ValidateRaises(checkpoint.state.document)

\* A run that took an unusable answer into its state is lost: resuming it
\* executes the failing node again on the same values, whatever the reviewer
\* decides (nodes.py, 148-149 and 329-370).
DoomedStays == [][Doomed => Doomed']_vars

\* Where the latest checkpoint stands in the terms of ReviewPromise.
Phase ==
    CASE checkpoint.next = "none" -> "absent"
      [] checkpoint.next \in {"load_config", "match_tables", "match_fields"} -> "working"
      [] checkpoint.next = "human_review" -> "waiting"
      [] checkpoint.next \in {"apply_rules", "assemble", "validate"} -> "reviewed"
      [] checkpoint.next = "end" -> "published"

Promise == INSTANCE ReviewPromise WITH
    Certain <- PrimaryKeys,
    phase <- Phase,
    open <- {f \in Fields : checkpoint.state.ledger[f] = <<>>}

\* With one request at a time a run keeps the promise: one review, which every
\* open field waits for, and one publication, through failures and crashes
\* (build_graph.py, 37-58).
KeepsPromise == Promise!Spec

-----------------------------------------------------------------------------
(* What comments and documents of the repository say, and the code does not  *)

\* type_transforms.py:4-6: the type_transform follows mechanically from the
\* pair of source and destination field.
TransformFollowsPair ==
    \A f \in Fields : \A i \in DOMAIN checkpoint.state.ledger[f] :
        LET o == checkpoint.state.ledger[f][i]
        IN  IsMapped(o) => o.transform = Transform[f][o.dst]
=============================================================================
