----------------------------- MODULE Evaluation -----------------------------
(***************************************************************************)
(* Evaluations of a document: app/evals/run_eval.py and the evaluation     *)
(* endpoint of app/api/main.py, with the two engines of quality scores,    *)
(* score_quality_deepeval of app/evals/deepeval_metrics.py and             *)
(* score_quality of app/evals/metrics.py.                                  *)
(*                                                                         *)
(* A judge scores one mapping at a time and may fail at each. What a judge *)
(* scores is a free choice; the mappings are taken in some fixed order.     *)
(***************************************************************************)
EXTENDS Scoring

CONSTANTS
    Goldens,       \* documents the golden file may hold
    Candidates,    \* documents that are evaluated
    Judgements     \* scores a judge or a heuristic may give, in thousandths

ASSUME EvaluationAssumption ==
    /\ Goldens \subseteq Document
    /\ Candidates \subseteq Document
    /\ \A doc \in Goldens \cup Candidates : Published(doc)
    /\ Judgements \subseteq Int
    /\ Null \notin Judgements

VARIABLES
    golden,        \* the golden file
    evaluation     \* the evaluation that is going on, or went on last

vars == <<golden, evaluation>>

Slot == Fields \X Nat
Aspects == {"relevance", "faithfulness"}

NoEvaluation ==
    [step |-> "idle", candidate |-> Null, regression |-> Null, live |-> FALSE,
     engine |-> "heuristic", judged |-> <<>>, mean |-> Null]

\* The mappings of a document whose two ends are in the schema: an override may
\* have made up the destination.
Judgeable(doc) ==
    UNION {{x \in MappedSlots(doc, t) :
               doc.ledger[x[1]][x[2]].dst \in DestFields[doc.tables[t].collection]} :
           t \in Tables}

TypeOK ==
    /\ golden \in Goldens
    /\ evaluation.step \in {"idle", "judging", "reported", "failed"}
    /\ evaluation.step # "idle" =>
          /\ evaluation.candidate \in Candidates
          /\ evaluation.engine \in {"heuristic", "deepeval"}
          /\ evaluation.live \in BOOLEAN
          /\ DOMAIN evaluation.judged \subseteq Slot
          /\ \A x \in DOMAIN evaluation.judged :
                evaluation.judged[x] \in [Aspects -> Judgements \cup {Null}]
    /\ evaluation.step = "reported" => evaluation.mean \in [Aspects -> Int]

Init ==
    /\ golden \in Goldens
    /\ evaluation = NoEvaluation

-----------------------------------------------------------------------------

Judging == evaluation.step = "judging"
Left == Judgeable(evaluation.candidate) \ DOMAIN evaluation.judged
Following(x) == Left # {} /\ x = CHOOSE y \in Left : TRUE

\* The regression score needs no model; DeepEval is used by the script only, and
\* only with a live provider.
Evaluate(candidate, live, script) ==
    /\ evaluation.step = "idle"
    /\ evaluation' = [NoEvaluation EXCEPT
          !.step = "judging", !.candidate = candidate, !.live = live,
          !.engine = IF script /\ live THEN "deepeval" ELSE "heuristic",
          !.regression = ScoreAgainstGolden(candidate, golden)]
    /\ UNCHANGED golden

\* Mutant: one of the aspects is not kept.
JudgeRelevance(x, judgement) ==
    evaluation' = [evaluation EXCEPT
        !.judged = [y \in DOMAIN @ \cup {x} |->
            IF y = x THEN [aspect \in {"relevance"} |-> judgement[aspect]] ELSE @[y]]]

Judge(x, judgement) ==
    evaluation' = [evaluation EXCEPT
        !.judged = [y \in DOMAIN @ \cup {x} |-> IF y = x THEN judgement ELSE @[y]]]

\* A failing judge leaves no score; the other aspect is judged all the same.
JudgeDeepEval(x) ==
    /\ Judging /\ evaluation.engine = "deepeval" /\ Following(x)
    /\ \E judgement \in [Aspects -> Judgements \cup {Null}] : Judge(x, judgement)
    /\ UNCHANGED golden

\* Each aspect has the model's score, or the heuristic one if there is no answer.
JudgeHeuristic(x) ==
    /\ Judging /\ evaluation.engine = "heuristic" /\ Following(x)
    /\ \E judgement \in [Aspects -> Judgements] : Judge(x, judgement)
    /\ UNCHANGED golden

\* A score that is not a number raises out of score_quality.
JudgeRaises ==
    /\ Judging /\ evaluation.engine = "heuristic" /\ evaluation.live /\ Left # {}
    /\ evaluation' = [evaluation EXCEPT !.step = "failed"]
    /\ UNCHANGED golden

\* Mutant: what DeepEval has scored is kept.
FallBackKeeping ==
    /\ Judging /\ evaluation.engine = "deepeval"
    /\ evaluation' = [evaluation EXCEPT !.engine = "heuristic"]
    /\ UNCHANGED golden

\* Mutant: DeepEval is tried again.
FallBackToItself ==
    /\ Judging /\ evaluation.engine = "deepeval"
    /\ evaluation' = [evaluation EXCEPT !.judged = <<>>]
    /\ UNCHANGED golden

\* What raises in DeepEval outside the two judge calls; the list starts over.
FallBack ==
    /\ Judging /\ evaluation.engine = "deepeval"
    /\ evaluation' = [evaluation EXCEPT !.engine = "heuristic", !.judged = <<>>]
    /\ UNCHANGED golden

Scored(judged, aspect) == {x \in DOMAIN judged : judged[x][aspect] # Null}

\* Mutant: a failed judge counts as a zero.
MeanOfAll(judged, aspect) ==
    LET total == MapThenSumSet(LAMBDA x : judged[x][aspect], Scored(judged, aspect))
        n == Cardinality(DOMAIN judged)
    IN  IF n = 0 THEN 0 ELSE (2 * total + n) \div (2 * n)

Mean(judged, aspect) ==
    LET total == MapThenSumSet(LAMBDA x : judged[x][aspect], Scored(judged, aspect))
        n == Cardinality(Scored(judged, aspect))
    IN  IF n = 0 THEN 0 ELSE (2 * total + n) \div (2 * n)

WriteReport ==
    /\ Judging /\ Left = {}
    /\ evaluation' = [evaluation EXCEPT
          !.step = "reported",
          !.mean = [aspect \in Aspects |-> Mean(evaluation.judged, aspect)]]
    /\ UNCHANGED golden

\* The next evaluation may meet a golden file that was built again.
Rebuild ==
    /\ evaluation.step \in {"reported", "failed"}
    /\ golden' \in Goldens
    /\ evaluation' = NoEvaluation

Working ==
    /\ Judging
    /\ \/ \E x \in Left : JudgeDeepEval(x) \/ JudgeHeuristic(x)
       \/ JudgeRaises
       \/ WriteReport

Next ==
    \/ \E candidate \in Candidates, live, script \in BOOLEAN : Evaluate(candidate, live, script)
    \/ Working
    \/ FallBack
    \/ Rebuild

Spec == Init /\ [][Next]_vars

\* The evaluation is a sequential program: it does not stop by itself.
FairSpec == Spec /\ WF_vars(Working)

-----------------------------------------------------------------------------
(* Properties *)

\* Both documents have each field once, as the coverage check demands.
Comparable ==
    /\ evaluation.step # "idle"
    /\ Problems(evaluation.candidate) = {}
    /\ Problems(golden) = {}

\* Full marks can be trusted: every field goes where golden has it go, with the
\* same transform; and no mismatch is listed only if the marks for where it goes
\* are full, although scores and mismatches are counted apart (metrics.py, 62-109).
NothingSlips ==
    Comparable =>
        LET report == evaluation.regression
            candidate == evaluation.candidate
        IN  /\ FullMarks(report) => \A f \in Fields :
                 /\ candidate.ledger[f][1].dst = golden.ledger[f][1].dst
                 /\ candidate.ledger[f][1].transform = golden.ledger[f][1].transform
            /\ report.mismatches = {} <=> report.accuracy = 1000 /\ report.precision = 1000
            /\ report.accuracy = 1000 <=> \A t \in Tables : report.perTable[t] = 1000

\* The scores once a field has the mapping golden has for it.
Repaired(f) ==
    ScoreAgainstGolden([evaluation.candidate EXCEPT !.ledger[f] = golden.ledger[f]], golden)

NoScoreFalls(f) == \A score \in Marks : evaluation.regression[score] <= Repaired(f)[score]

\* To give a field the mapping golden has for it lowers no score, whatever the other
\* fields are and although F1 is taken of rounded numbers, and it shows: in accuracy
\* if the field did not go where golden has it go, in the agreement of transforms if
\* only its transform was another one, and in precision if golden does not map it
\* and another field is right (metrics.py, 62-109).
FixShows ==
    Comparable /\ evaluation.judged = <<>> => \A f \in Fields :
        LET candidate == evaluation.candidate
            before == evaluation.regression
            after == Repaired(f)
            right == Correct(candidate, golden)
        IN  /\ NoScoreFalls(f)
            /\ f \in MappedFields(golden) \ right => after.accuracy > before.accuracy
            /\ f \in right \ SameTransform(candidate, golden) =>
                 after.transforms > before.transforms
            /\ f \in Extra(candidate, golden) /\ right # {} =>
                 after.precision > before.precision

\* A report of the heuristic engine has both scores of every mapping, also when
\* it stands in for DeepEval after some judges had failed (run_eval.py, 138-154).
HeuristicComplete ==
    evaluation.step = "reported" /\ evaluation.engine = "heuristic" =>
        \A x \in Judgeable(evaluation.candidate) : \A aspect \in Aspects :
            evaluation.judged[x][aspect] # Null

\* A mean lies among the scores that were given: a judge that failed does not
\* count as a zero (deepeval_metrics.py, 137-141).
MeanWithin ==
    evaluation.step = "reported" => \A aspect \in Aspects :
        LET scores == {evaluation.judged[x][aspect] : x \in Scored(evaluation.judged, aspect)}
        IN  scores # {} => Min(scores) <= evaluation.mean[aspect]
                           /\ evaluation.mean[aspect] <= Max(scores)

\* Every evaluation ends, with a report or an error (run_eval.py, 125-171).
EvaluationEnds == Judging ~> ~ Judging

-----------------------------------------------------------------------------
(* What a document of the repository says, and the code does not             *)

\* README.md:221-225: if a provider is still unreachable after its retries, the
\* eval judges fall back to the heuristic quality metrics. Here: a report whose
\* judges gave no score at all is not one of DeepEval.
OutageFallsBack ==
    evaluation.step = "reported" /\ Judgeable(evaluation.candidate) # {}
    /\ (\A aspect \in Aspects : Scored(evaluation.judged, aspect) = {})
        => evaluation.engine = "heuristic"
=============================================================================
