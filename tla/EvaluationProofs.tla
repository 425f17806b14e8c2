-------------------------- MODULE EvaluationProofs --------------------------
(***************************************************************************)
(* Type correctness of Evaluation and its invariants HeuristicComplete,    *)
(* MeanWithin, NothingSlips and FixShows, for any documents and judgements.*)
(*                                                                         *)
(* The inductive invariant says what an evaluation keeps of its documents  *)
(* and what an engine has left out. The rest is about two computations:    *)
(* the mean, a sum over a set, whose recursion is resolved by induction on *)
(* the subsets of the set (SmallestSubset), and the regression score, a    *)
(* handful of ratios of numbers of fields, rounded to thousandths. The     *)
(* rounding is why two theorems bound the number of fields. A measure that *)
(* every step lowers (StepsLeft) is what liveness needs besides fairness.  *)
(***************************************************************************)
EXTENDS Evaluation, GraphNodesProofs

-----------------------------------------------------------------------------
(* Arithmetic                                                                *)

LEMMA Quotient ==
    ASSUME NEW a \in Int, NEW b \in Nat, b > 0
    PROVE  /\ a \div b \in Int
           /\ b * (a \div b) <= a
           /\ a < b * (a \div b) + b
OBVIOUS

LEMMA TimesMonotone ==
    ASSUME NEW n \in Int, n > 0, NEW x \in Int, NEW y \in Int
    PROVE  x <= y <=> n * x <= n * y
OBVIOUS

LEMMA TimesNext ==
    ASSUME NEW x \in Int, NEW n \in Int
    PROVE  x * (n + 1) = x * n + x /\ x * n \in Int
OBVIOUS

\* A number is at most a quotient if it is as a multiple.
LEMMA QuotientAtLeast ==
    ASSUME NEW a \in Int, NEW b \in Nat, b > 0, NEW k \in Int
    PROVE  k <= a \div b <=> k * b <= a
<1> DEFINE q == a \div b
<1>1. q \in Int /\ b * q <= a /\ a < b * q + b
  BY Quotient
<1> HIDE DEF q
<1>2. k <= q => b * k <= b * q
  BY <1>1, TimesMonotone
<1>3. b * k <= b * q + b - 1 => k <= q
  <2>1. SUFFICES ASSUME k >= q + 1 PROVE b * k >= b * q + b
    BY <1>1
  <2>2. b * (q + 1) <= b * k
    BY <1>1, <2>1, TimesMonotone
  <2>3. b * (q + 1) = b * q + b
    BY <1>1, TimesNext
  <2> QED
    BY <1>1, <2>2, <2>3
<1>4. k * b = b * k /\ b * k \in Int /\ b * q \in Int
  BY <1>1
<1> QED
  BY <1>1, <1>2, <1>3, <1>4 DEF q

\* Products of natural numbers grow with their factors.
LEMMA ProductsGrow ==
    ASSUME NEW a \in Nat, NEW b \in Nat, NEW c \in Nat, NEW d \in Nat, a <= b, c <= d
    PROVE  a * c <= b * d
<1>1. a * c <= a * d
  BY TimesMonotone
<1>2. a * d <= b * d
  <2>1. d * a <= d * b
    BY TimesMonotone
  <2> QED
    BY <2>1
<1>3. a * c \in Int /\ a * d \in Int /\ b * d \in Int
  OBVIOUS
<1> QED
  BY <1>1, <1>2, <1>3

LEMMA RoundedMean ==
    ASSUME NEW lo \in Int, NEW hi \in Int, NEW n \in Nat, n > 0, NEW total \in Int,
           lo * n <= total, total <= hi * n
    PROVE  lo <= (2 * total + n) \div (2 * n) /\ (2 * total + n) \div (2 * n) <= hi
<1> DEFINE q == (2 * total + n) \div (2 * n)
<1>1. q \in Int /\ 2 * n * q <= 2 * total + n /\ 2 * total + n < 2 * n * q + 2 * n
  BY Quotient
<1> HIDE DEF q
<1>2. n * (2 * lo) < n * (2 * q + 2)
  BY <1>1
<1>3. n * (2 * q) < n * (2 * hi + 2)
  BY <1>1
<1>4. 2 * lo < 2 * q + 2 /\ 2 * q < 2 * hi + 2
  BY <1>1, <1>2, <1>3, TimesMonotone
<1> QED
  BY <1>1, <1>4 DEF q

-----------------------------------------------------------------------------
(* Finite sets                                                               *)

\* Induction on finite sets: among subsets of a finite set there is one that
\* has no other of them inside.
LEMMA SmallestSubset ==
    ASSUME NEW S, IsFiniteSet(S), NEW D, D \subseteq SUBSET S, D # {}
    PROVE  \E T \in D : \A U \in D : U \subseteq T => U = T
<1> DEFINE R == StrictSubsetOrdering(S)
<1>1. IsWellFoundedOn(R, SUBSET S)
  BY FS_StrictSubsetOrderingWellFounded, FS_FiniteSubsetsOfFinite
<1>2. \E T \in D : \A U \in D : ~ (<<U, T>> \in R)
  <2> HIDE DEF R
  <2> QED
    BY <1>1, WFMin
<1> QED
  BY <1>2 DEF StrictSubsetOrdering

\* A finite set of integers that is not empty has a least and a greatest element.
LEMMA Extremes ==
    ASSUME NEW S, IsFiniteSet(S), \A x \in S : x \in Int, S # {}
    PROVE  /\ Min(S) \in S /\ \A x \in S : Min(S) <= x
           /\ Max(S) \in S /\ \A x \in S : x <= Max(S)
<1> DEFINE Above(x) == {y \in S : y > x}
           Below(x) == {y \in S : y < x}
           Up == {U \in SUBSET S : \E x \in S : U = Above(x)}
           Down == {U \in SUBSET S : \E x \in S : U = Below(x)}
<1>1. \E x \in S : \A y \in S : x >= y
  <2>1. PICK T \in Up : \A U \in Up : U \subseteq T => U = T
    <3>1. Up \subseteq SUBSET S
      OBVIOUS
    <3>2. \A x \in S : Above(x) \in Up
      OBVIOUS
    <3>3. Up # {}
      BY <3>2
    <3> HIDE DEF Up
    <3> QED
      BY <3>1, <3>3, SmallestSubset
  <2>2. PICK x \in S : T = Above(x)
    OBVIOUS
  <2>3. ASSUME NEW y \in S, y > x PROVE FALSE
    <3>0. x \in Int /\ y \in Int
      OBVIOUS
    <3>1. Above(y) \subseteq Above(x) /\ y \in Above(x) /\ y \notin Above(y)
      <4>1. \A z \in S : z > y => z > x
        BY <2>3
      <4>2. ~ (y > y)
        BY <3>0
      <4> QED
        BY <2>3, <4>1, <4>2
    <3>2. Above(y) \in Up
      OBVIOUS
    <3> QED
      BY <2>1, <2>2, <3>1, <3>2
  <2> QED
    BY <2>3
<1>2. \E x \in S : \A y \in S : x <= y
  <2>1. PICK T \in Down : \A U \in Down : U \subseteq T => U = T
    <3>1. Down \subseteq SUBSET S
      OBVIOUS
    <3>2. \A x \in S : Below(x) \in Down
      OBVIOUS
    <3>3. Down # {}
      BY <3>2
    <3> HIDE DEF Down
    <3> QED
      BY <3>1, <3>3, SmallestSubset
  <2>2. PICK x \in S : T = Below(x)
    OBVIOUS
  <2>3. ASSUME NEW y \in S, y < x PROVE FALSE
    <3>0. x \in Int /\ y \in Int
      OBVIOUS
    <3>1. Below(y) \subseteq Below(x) /\ y \in Below(x) /\ y \notin Below(y)
      <4>1. \A z \in S : z < y => z < x
        BY <2>3
      <4>2. ~ (y < y)
        BY <3>0
      <4> QED
        BY <2>3, <4>1, <4>2
    <3>2. Below(y) \in Down
      OBVIOUS
    <3> QED
      BY <2>1, <2>2, <3>1, <3>2
  <2> QED
    BY <2>3
<1>3. Max(S) \in S /\ \A y \in S : Max(S) >= y
  BY <1>1 DEF Max
<1>4. Min(S) \in S /\ \A y \in S : Min(S) <= y
  BY <1>2 DEF Min
<1> QED
  BY <1>3, <1>4

-----------------------------------------------------------------------------
(* The sum of the scores                                                     *)

Total(judged, aspect, S) == MapThenSumSet(LAMBDA x : judged[x][aspect], S)

Pick(s) == CHOOSE x \in s : TRUE

\* What the recursion of MapThenFoldSet says of the function it defines.
Sums(g, judged, aspect, S) ==
    g = [s \in SUBSET S |->
           IF s = {} THEN 0 ELSE judged[Pick(s)][aspect] + g[s \ {Pick(s)}]]

LEMMA Picked == \A s : s # {} => Pick(s) \in s
BY DEF Pick

LEMMA TotalIsChosen ==
    ASSUME NEW judged, NEW aspect, NEW S
    PROVE  Total(judged, aspect, S) = (CHOOSE g : Sums(g, judged, aspect, S))[S]
BY DEF Total, MapThenSumSet, MapThenFoldSet, Sums, Pick

LEMMA SumsAt ==
    ASSUME NEW judged, NEW aspect, NEW S, NEW g, Sums(g, judged, aspect, S), NEW s \in SUBSET S
    PROVE  g[s] = IF s = {} THEN 0 ELSE judged[Pick(s)][aspect] + g[s \ {Pick(s)}]
BY DEF Sums

\* Two such functions agree where both are defined.
LEMMA SumsAgree ==
    ASSUME NEW judged, NEW aspect, NEW S, NEW T, IsFiniteSet(S),
           NEW g, Sums(g, judged, aspect, S), NEW h, Sums(h, judged, aspect, T)
    PROVE  \A s \in SUBSET (S \cap T) : g[s] = h[s]
<1> DEFINE D == {s \in SUBSET (S \cap T) : g[s] # h[s]}
<1> SUFFICES ASSUME D # {} PROVE FALSE
  OBVIOUS
<1>1. PICK s \in D : \A u \in D : u \subseteq s => u = s
  <2>1. D \subseteq SUBSET S
    OBVIOUS
  <2> HIDE DEF D
  <2> QED
    BY <2>1, SmallestSubset
<1>2. s \in SUBSET S /\ s \in SUBSET T /\ g[s] # h[s]
  OBVIOUS
<1>3. /\ g[s] = IF s = {} THEN 0 ELSE judged[Pick(s)][aspect] + g[s \ {Pick(s)}]
      /\ h[s] = IF s = {} THEN 0 ELSE judged[Pick(s)][aspect] + h[s \ {Pick(s)}]
  BY <1>2, SumsAt
<1>4. s # {}
  BY <1>2, <1>3
<1>5. s \ {Pick(s)} \notin D
  BY <1>1, <1>4, Picked
<1>6. g[s \ {Pick(s)}] = h[s \ {Pick(s)}]
  BY <1>2, <1>5
<1> QED
  BY <1>2, <1>3, <1>4, <1>6, Zenon

\* There is one for every finite set.
LEMMA SumsExist ==
    ASSUME NEW judged, NEW aspect, NEW S, IsFiniteSet(S)
    PROVE  \E g : Sums(g, judged, aspect, S)
<1> DEFINE Bad(T) == ~ \E g : Sums(g, judged, aspect, T)
           D == {T \in SUBSET S : Bad(T)}
<1> SUFFICES ASSUME D # {} PROVE FALSE
  OBVIOUS
<1>1. PICK T \in D : \A U \in D : U \subseteq T => U = T
  <2>1. D \subseteq SUBSET S
    OBVIOUS
  <2> HIDE DEF D
  <2> QED
    BY <2>1, SmallestSubset
<1> DEFINE sums(U) == CHOOSE g : Sums(g, judged, aspect, U)
           value(U) == sums(U)[U]
<1>2. \A U \in SUBSET T : U # T => Sums(sums(U), judged, aspect, U)
  <2> SUFFICES ASSUME NEW U \in SUBSET T, U # T
               PROVE  Sums(sums(U), judged, aspect, U)
    OBVIOUS
  <2>1. U \notin D /\ U \in SUBSET S
    BY <1>1
  <2>2. \E g : Sums(g, judged, aspect, U)
    BY <2>1
  <2> QED
    BY <2>2, Zenon
<1>3. ASSUME NEW U \in SUBSET T, U # T
      PROVE  value(U) = IF U = {} THEN 0
                        ELSE judged[Pick(U)][aspect] + value(U \ {Pick(U)})
  <2>1. value(U) = IF U = {} THEN 0
                   ELSE judged[Pick(U)][aspect] + sums(U)[U \ {Pick(U)}]
    <3>1. Sums(sums(U), judged, aspect, U)
      BY <1>2, <1>3
    <3> HIDE DEF sums
    <3> QED
      BY <3>1, SumsAt
  <2>2. U # {} => sums(U)[U \ {Pick(U)}] = value(U \ {Pick(U)})
    <3> SUFFICES ASSUME U # {} PROVE sums(U)[U \ {Pick(U)}] = value(U \ {Pick(U)})
      OBVIOUS
    <3> DEFINE V == U \ {Pick(U)}
    <3>1. V \in SUBSET T /\ V # T /\ V \subseteq U
      BY <1>3
    <3>2. Sums(sums(U), judged, aspect, U) /\ Sums(sums(V), judged, aspect, V)
      BY <1>2, <1>3, <3>1
    <3>3. IsFiniteSet(U)
      BY FS_Subset
    <3>4. V \in SUBSET (U \cap V)
      OBVIOUS
    <3> HIDE DEF V, sums
    <3>5. sums(U)[V] = sums(V)[V]
      BY <3>2, <3>3, <3>4, SumsAgree
    <3> QED
      BY <3>5 DEF V
  <2> HIDE DEF value
  <2>3. CASE U = {}
    BY <2>1, <2>3
  <2>4. CASE U # {}
    BY <2>1, <2>2, <2>4
  <2> QED
    BY <2>3, <2>4
<1> DEFINE g == [s \in SUBSET T |->
                   IF s = {} THEN 0 ELSE judged[Pick(s)][aspect] + value(s \ {Pick(s)})]
<1>4. \A U \in SUBSET T : U # T => g[U] = value(U)
  <2> SUFFICES ASSUME NEW U \in SUBSET T, U # T PROVE g[U] = value(U)
    OBVIOUS
  <2>1. g[U] = IF U = {} THEN 0 ELSE judged[Pick(U)][aspect] + value(U \ {Pick(U)})
    <3> HIDE DEF value
    <3> QED
      OBVIOUS
  <2> QED
    BY <2>1, <1>3, Zenon
<1>5. \A s \in SUBSET T : s # {} => g[s \ {Pick(s)}] = value(s \ {Pick(s)})
  <2> SUFFICES ASSUME NEW s \in SUBSET T, s # {}
               PROVE  g[s \ {Pick(s)}] = value(s \ {Pick(s)})
    OBVIOUS
  <2>1. s \ {Pick(s)} \in SUBSET T /\ s \ {Pick(s)} # T
    BY Picked
  <2> HIDE DEF value, g
  <2> QED
    BY <1>4, <2>1
<1>6. Sums(g, judged, aspect, T)
  <2>1. g = [s \in SUBSET T |->
               IF s = {} THEN 0 ELSE judged[Pick(s)][aspect] + g[s \ {Pick(s)}]]
    <3>1. \A s \in SUBSET T :
            (IF s = {} THEN 0 ELSE judged[Pick(s)][aspect] + value(s \ {Pick(s)}))
            = (IF s = {} THEN 0 ELSE judged[Pick(s)][aspect] + g[s \ {Pick(s)}])
      <4> HIDE DEF g, value
      <4> QED
        BY <1>5
    <3> HIDE DEF value
    <3> QED
      BY <3>1
  <2> HIDE DEF g
  <2> QED
    BY <2>1 DEF Sums
<1> QED
  <2> HIDE DEF g
  <2> QED
    BY <1>1, <1>6

\* Every score of an aspect lies between two numbers.
Within(judged, aspect, S, lo, hi) ==
    \A x \in S : /\ judged[x][aspect] \in Int
                /\ lo <= judged[x][aspect] /\ judged[x][aspect] <= hi

\* Sums of integers are integers, between as many least and greatest ones.
LEMMA SumsBounded ==
    ASSUME NEW judged, NEW aspect, NEW S, IsFiniteSet(S),
           NEW g, Sums(g, judged, aspect, S),
           NEW lo \in Int, NEW hi \in Int
    PROVE  Within(judged, aspect, S, lo, hi)
             => \A s \in SUBSET S :
                  /\ g[s] \in Int
                  /\ lo * Cardinality(s) <= g[s] /\ g[s] <= hi * Cardinality(s)
<1> DEFINE Good(s) == /\ g[s] \in Int
                      /\ lo * Cardinality(s) <= g[s] /\ g[s] <= hi * Cardinality(s)
           D == {s \in SUBSET S : ~ Good(s)}
<1>0. \A s \in SUBSET S :
        g[s] = IF s = {} THEN 0 ELSE judged[Pick(s)][aspect] + g[s \ {Pick(s)}]
  BY DEF Sums
<1> SUFFICES ASSUME Within(judged, aspect, S, lo, hi), D # {} PROVE FALSE
  OBVIOUS
<1>1. PICK s \in D : \A u \in D : u \subseteq s => u = s
  <2>1. D \subseteq SUBSET S
    OBVIOUS
  <2> HIDE DEF D
  <2> QED
    BY <2>1, SmallestSubset
<1>2. s \in SUBSET S /\ ~ Good(s)
  OBVIOUS
<1>3. g[s] = IF s = {} THEN 0 ELSE judged[Pick(s)][aspect] + g[s \ {Pick(s)}]
  BY <1>0, <1>2
<1>4. CASE s = {}
  <2>1. g[s] = 0 /\ Cardinality(s) = 0
    BY <1>3, <1>4, FS_EmptySet
  <2> QED
    BY <1>2, <2>1
<1>5. CASE s # {}
  <2> DEFINE x == Pick(s)
             u == s \ {x}
             n == Cardinality(u)
             w == judged[x][aspect]
  <2>1. x \in s /\ x \in S /\ u \in SUBSET S /\ u \subseteq s /\ u # s
    BY <1>2, <1>5, Picked
  <2>2. Good(u)
    BY <1>1, <2>1
  <2>3. n \in Nat /\ Cardinality(s) = n + 1
    <3>1. IsFiniteSet(s)
      BY <1>2, FS_Subset
    <3>2. IsFiniteSet(u) /\ Cardinality(u) = Cardinality(s) - 1
      BY <2>1, <3>1, FS_RemoveElement
    <3> QED
      BY <3>1, <3>2, FS_CardinalityType
  <2>4. g[s] = w + g[u]
    BY <1>3, <1>5
  <2>5. w \in Int /\ lo <= w /\ w <= hi
    BY <2>1 DEF Within
  <2>6. g[u] \in Int /\ lo * n <= g[u] /\ g[u] <= hi * n
    BY <2>2
  <2>7. /\ lo * Cardinality(s) = lo * n + lo /\ lo * n \in Int
        /\ hi * Cardinality(s) = hi * n + hi /\ hi * n \in Int
    <3> HIDE DEF n
    <3> QED
      BY <2>3, TimesNext
  <2> HIDE DEF n, u, w, x
  <2>8. Good(s)
    BY <2>4, <2>5, <2>6, <2>7
  <2> QED
    BY <1>2, <2>8
<1> QED
  BY <1>4, <1>5

LEMMA TotalBounded ==
    ASSUME NEW judged, NEW aspect, NEW S, IsFiniteSet(S),
           NEW lo \in Int, NEW hi \in Int, Within(judged, aspect, S, lo, hi)
    PROVE  /\ Total(judged, aspect, S) \in Int
           /\ lo * Cardinality(S) <= Total(judged, aspect, S)
           /\ Total(judged, aspect, S) <= hi * Cardinality(S)
<1> DEFINE g == CHOOSE h : Sums(h, judged, aspect, S)
<1>1. Sums(g, judged, aspect, S)
  BY SumsExist
<1>2. Total(judged, aspect, S) = g[S]
  BY TotalIsChosen
<1> HIDE DEF g
<1>3. \A s \in SUBSET S : /\ g[s] \in Int
                         /\ lo * Cardinality(s) <= g[s] /\ g[s] <= hi * Cardinality(s)
  BY <1>1, SumsBounded
<1>4. g[S] \in Int /\ lo * Cardinality(S) <= g[S] /\ g[S] <= hi * Cardinality(S)
  BY <1>3
<1> QED
  BY <1>2, <1>4

-----------------------------------------------------------------------------
(* The inductive invariant                                                   *)

\* The evaluation is a record with these fields.
Shaped ==
    evaluation = [step |-> evaluation.step, candidate |-> evaluation.candidate,
                  regression |-> evaluation.regression, live |-> evaluation.live,
                  engine |-> evaluation.engine, judged |-> evaluation.judged,
                  mean |-> evaluation.mean]

\* The regression score is of these two documents; the heuristic leaves no score
\* out; a report is written when no mapping is left.
Scores ==
    evaluation.step # "idle" =>
        /\ evaluation.regression = ScoreAgainstGolden(evaluation.candidate, golden)
        /\ IsFiniteSet(DOMAIN evaluation.judged)
        /\ evaluation.engine = "heuristic" =>
             \A x \in DOMAIN evaluation.judged :
                evaluation.judged[x] \in [Aspects -> Judgements]
        /\ evaluation.step = "reported" =>
             /\ Judgeable(evaluation.candidate) \subseteq DOMAIN evaluation.judged
             /\ evaluation.mean = [aspect \in Aspects |-> Mean(evaluation.judged, aspect)]

EInv == TypeOK /\ Shaped /\ Scores

LEMMA InitEInv == Init => EInv
BY DEF Init, NoEvaluation, EInv, TypeOK, Shaped, Scores

LEMMA EvaluateStep ==
    ASSUME EInv, NEW candidate \in Candidates, NEW live \in BOOLEAN, NEW script \in BOOLEAN,
           Evaluate(candidate, live, script)
    PROVE  EInv'
<1>1. evaluation' =
        [step |-> "judging", candidate |-> candidate,
         regression |-> ScoreAgainstGolden(candidate, golden), live |-> live,
         engine |-> IF script /\ live THEN "deepeval" ELSE "heuristic",
         judged |-> <<>>, mean |-> Null]
  BY DEF Evaluate, NoEvaluation
<1>2. golden' = golden
  BY DEF Evaluate
<1>3. DOMAIN <<>> = {} /\ IsFiniteSet({})
  BY FS_EmptySet
<1>4. TypeOK'
  BY <1>1, <1>2, <1>3 DEF EInv, TypeOK
<1>5. Shaped'
  BY <1>1 DEF Shaped
<1>6. Scores'
  BY <1>1, <1>2, <1>3 DEF Scores
<1> QED
  BY <1>4, <1>5, <1>6 DEF EInv

LEMMA JudgeableSlots ==
    ASSUME NEW doc \in Document
    PROVE  Judgeable(doc) \subseteq Slot
<1>1. \A f \in Fields : DOMAIN doc.ledger[f] \subseteq Nat
  BY DEF Document
<1>2. \A t \in Tables : Slots(doc, t) \subseteq Slot
  BY <1>1 DEF Slots, Slot, FieldsOf
<1> QED
  BY <1>2 DEF Judgeable, MappedSlots

\* One more mapping is judged, by either engine.
LEMMA JudgeStep ==
    ASSUME EInv, Judging, NEW x, Following(x), golden' = golden,
           NEW judgement \in [Aspects -> Judgements \cup {Null}],
           evaluation.engine = "heuristic" => judgement \in [Aspects -> Judgements],
           Judge(x, judgement)
    PROVE  EInv'
<1> DEFINE e == evaluation
           after == [y \in DOMAIN e.judged \cup {x} |->
                       IF y = x THEN judgement ELSE e.judged[y]]
<1>1. evaluation' = [step |-> e.step, candidate |-> e.candidate, regression |-> e.regression,
                     live |-> e.live, engine |-> e.engine, judged |-> after, mean |-> e.mean]
  BY DEF EInv, Shaped, Judge
<1>2. e.step = "judging" /\ e.candidate \in Candidates
  BY DEF EInv, TypeOK, Judging
<1>3. x \in Slot
  <2>1. x \in Left
    BY DEF Following
  <2>2. e.candidate \in Document
    BY <1>2, EvaluationAssumption
  <2> QED
    BY <2>1, <2>2, JudgeableSlots DEF Left
<1>4. DOMAIN after = DOMAIN e.judged \cup {x}
  OBVIOUS
<1>5. \A y \in DOMAIN after : after[y] = IF y = x THEN judgement ELSE e.judged[y]
  OBVIOUS
<1> HIDE DEF after
<1>6. TypeOK'
  <2>1. /\ DOMAIN e.judged \subseteq Slot
        /\ \A y \in DOMAIN e.judged : e.judged[y] \in [Aspects -> Judgements \cup {Null}]
    BY <1>2 DEF EInv, TypeOK
  <2>2. DOMAIN after \subseteq Slot
    BY <1>3, <1>4, <2>1
  <2>3. \A y \in DOMAIN after : after[y] \in [Aspects -> Judgements \cup {Null}]
    BY <1>4, <1>5, <2>1
  <2> QED
    BY <1>1, <1>2, <2>2, <2>3 DEF EInv, TypeOK
<1>7. Shaped'
  BY <1>1 DEF Shaped
<1>8. Scores'
  <2>1. IsFiniteSet(DOMAIN after)
    BY <1>2, <1>4, FS_AddElement DEF EInv, Scores
  <2>2. e.engine = "heuristic" =>
          \A y \in DOMAIN after : after[y] \in [Aspects -> Judgements]
    BY <1>2, <1>4, <1>5 DEF EInv, Scores
  <2>3. e.regression = ScoreAgainstGolden(e.candidate, golden)
    BY <1>2 DEF EInv, Scores
  <2> QED
    BY <1>1, <1>2, <2>1, <2>2, <2>3 DEF Scores
<1> QED
  BY <1>6, <1>7, <1>8 DEF EInv

LEMMA RaiseStep ==
    ASSUME EInv, JudgeRaises
    PROVE  EInv'
<1> DEFINE e == evaluation
<1>1. evaluation' = [step |-> "failed", candidate |-> e.candidate, regression |-> e.regression,
                     live |-> e.live, engine |-> e.engine, judged |-> e.judged, mean |-> e.mean]
  BY DEF EInv, Shaped, JudgeRaises
<1>2. e.step = "judging" /\ golden' = golden
  BY DEF JudgeRaises, Judging
<1>3. TypeOK'
  BY <1>1, <1>2 DEF EInv, TypeOK
<1>4. Shaped'
  BY <1>1 DEF Shaped
<1>5. Scores'
  BY <1>1, <1>2 DEF EInv, Scores
<1> QED
  BY <1>3, <1>4, <1>5 DEF EInv

LEMMA FallBackStep ==
    ASSUME EInv, FallBack
    PROVE  EInv'
<1> DEFINE e == evaluation
<1>1. evaluation' = [step |-> e.step, candidate |-> e.candidate, regression |-> e.regression,
                     live |-> e.live, engine |-> "heuristic", judged |-> <<>>, mean |-> e.mean]
  BY DEF EInv, Shaped, FallBack
<1>2. e.step = "judging" /\ golden' = golden
  BY DEF FallBack, Judging
<1>3. DOMAIN <<>> = {} /\ IsFiniteSet({})
  BY FS_EmptySet
<1>4. TypeOK'
  BY <1>1, <1>2, <1>3 DEF EInv, TypeOK
<1>5. Shaped'
  BY <1>1 DEF Shaped
<1>6. Scores'
  BY <1>1, <1>2, <1>3 DEF EInv, Scores
<1> QED
  BY <1>4, <1>5, <1>6 DEF EInv

LEMMA RebuildStep ==
    ASSUME EInv, Rebuild
    PROVE  EInv'
BY DEF Rebuild, NoEvaluation, EInv, TypeOK, Shaped, Scores

\* The scores of an aspect are integers, those of failed judges aside.
LEMMA ScoredType ==
    ASSUME EInv, evaluation.step # "idle", NEW aspect \in Aspects
    PROVE  /\ IsFiniteSet(Scored(evaluation.judged, aspect))
           /\ \A x \in Scored(evaluation.judged, aspect) :
                evaluation.judged[x][aspect] \in Judgements
<1>1. \A x \in DOMAIN evaluation.judged : evaluation.judged[x][aspect] \in Judgements \cup {Null}
  BY DEF EInv, TypeOK
<1>2. Scored(evaluation.judged, aspect) \subseteq DOMAIN evaluation.judged
  BY DEF Scored
<1>3. IsFiniteSet(Scored(evaluation.judged, aspect))
  BY <1>2, FS_Subset DEF EInv, Scores
<1> QED
  BY <1>1, <1>3 DEF Scored

\* A mean lies between the least and the greatest score, and is 0 if there is none.
LEMMA MeanOfScores ==
    ASSUME EInv, evaluation.step # "idle", NEW aspect \in Aspects
    PROVE  LET judged == evaluation.judged
               scores == {judged[x][aspect] : x \in Scored(judged, aspect)}
           IN  /\ Mean(judged, aspect) \in Int
               /\ scores # {} => /\ Min(scores) <= Mean(judged, aspect)
                                 /\ Mean(judged, aspect) <= Max(scores)
<1> DEFINE judged == evaluation.judged
           S == Scored(judged, aspect)
           n == Cardinality(S)
           scores == {judged[x][aspect] : x \in S}
           total == Total(judged, aspect, S)
<1>1. IsFiniteSet(S) /\ \A x \in S : judged[x][aspect] \in Int
  BY ScoredType, EvaluationAssumption
<1>2. n \in Nat /\ (n = 0 <=> S = {})
  BY <1>1, FS_CardinalityType, FS_EmptySet
<1>3. Mean(judged, aspect) = IF n = 0 THEN 0 ELSE (2 * total + n) \div (2 * n)
  BY DEF Mean, Total
<1>4. CASE S = {}
  <2>1. scores = {}
    BY <1>4
  <2>2. Mean(judged, aspect) = 0
    BY <1>2, <1>3, <1>4
  <2>3. Mean(judged, aspect) \in Int
    BY <2>2
  <2> QED
    BY <2>1, <2>3
<1>5. CASE S # {}
  <2>1. IsFiniteSet(scores)
    <3> DEFINE score == [x \in S |-> judged[x][aspect]]
    <3>1. score \in Surjection(S, scores)
      BY DEF Surjection
    <3> HIDE DEF S, score, scores
    <3> QED
      BY <1>1, <3>1, FS_Surjection
  <2>2. scores # {} /\ \A y \in scores : y \in Int
    BY <1>1, <1>5
  <2>3. /\ Min(scores) \in Int /\ \A y \in scores : Min(scores) <= y
        /\ Max(scores) \in Int /\ \A y \in scores : y <= Max(scores)
    <3> HIDE DEF scores
    <3> QED
      BY <2>1, <2>2, Extremes
  <2>4. Within(judged, aspect, S, Min(scores), Max(scores))
    <3>1. \A x \in S : judged[x][aspect] \in scores
      OBVIOUS
    <3> HIDE DEF scores, S
    <3> QED
      BY <1>1, <2>3, <3>1 DEF Within
  <2> HIDE DEF scores, S
  <2>5. /\ total \in Int
        /\ Min(scores) * n <= total /\ total <= Max(scores) * n
    BY <1>1, <2>3, <2>4, TotalBounded
  <2>6. n > 0
    BY <1>2, <1>5
  <2> DEFINE mean == (2 * total + n) \div (2 * n)
  <2> HIDE DEF total, n
  <2>7. Min(scores) <= mean /\ mean <= Max(scores)
    BY <1>2, <2>3, <2>5, <2>6, RoundedMean
  <2>8. mean \in Int
    BY <1>2, <2>5, <2>6, Quotient
  <2>9. Mean(judged, aspect) = mean
    BY <1>3, <2>6
  <2> HIDE DEF mean
  <2> QED
    BY <2>7, <2>8, <2>9 DEF scores, S
<1> QED
  BY <1>4, <1>5

LEMMA ReportStep ==
    ASSUME EInv, WriteReport
    PROVE  EInv'
<1> DEFINE e == evaluation
           means == [aspect \in Aspects |-> Mean(e.judged, aspect)]
<1>1. evaluation' = [step |-> "reported", candidate |-> e.candidate,
                     regression |-> e.regression, live |-> e.live, engine |-> e.engine,
                     judged |-> e.judged, mean |-> means]
  BY DEF EInv, Shaped, WriteReport
<1>2. e.step = "judging" /\ golden' = golden /\ Left = {}
  BY DEF WriteReport, Judging
<1>3. means \in [Aspects -> Int]
  BY <1>2, MeanOfScores
<1>4. means = [aspect \in Aspects |-> Mean(e.judged, aspect)]
  OBVIOUS
<1> HIDE DEF means
<1>5. TypeOK'
  BY <1>1, <1>2, <1>3 DEF EInv, TypeOK
<1>6. Shaped'
  BY <1>1 DEF Shaped
<1>7. Scores'
  <2>1. Judgeable(e.candidate) \subseteq DOMAIN e.judged
    BY <1>2 DEF Left
  <2>2. evaluation'.mean = [aspect \in Aspects |-> Mean(evaluation'.judged, aspect)]
    BY <1>1, <1>4
  <2> QED
    BY <1>1, <1>2, <2>1, <2>2 DEF EInv, Scores
<1> QED
  BY <1>5, <1>6, <1>7 DEF EInv

LEMMA NextEInv == EInv /\ [Next]_vars => EInv'
<1> SUFFICES ASSUME EInv, [Next]_vars PROVE EInv'
  OBVIOUS
<1>1. CASE UNCHANGED vars
  BY <1>1 DEF vars, EInv, TypeOK, Shaped, Scores
<1>2. CASE \E candidate \in Candidates, live, script \in BOOLEAN :
             Evaluate(candidate, live, script)
  BY <1>2, EvaluateStep
<1>3. CASE \E x \in Left : JudgeDeepEval(x)
  <2>1. PICK x \in Left : JudgeDeepEval(x)
    BY <1>3
  <2>2. PICK judgement \in [Aspects -> Judgements \cup {Null}] : Judge(x, judgement)
    BY <2>1 DEF JudgeDeepEval
  <2>3. Judging /\ Following(x) /\ golden' = golden /\ evaluation.engine # "heuristic"
    BY <2>1 DEF JudgeDeepEval
  <2> QED
    BY <2>2, <2>3, JudgeStep
<1>4. CASE \E x \in Left : JudgeHeuristic(x)
  <2>1. PICK x \in Left : JudgeHeuristic(x)
    BY <1>4
  <2>2. PICK judgement \in [Aspects -> Judgements] : Judge(x, judgement)
    BY <2>1 DEF JudgeHeuristic
  <2>3. Judging /\ Following(x) /\ golden' = golden
    BY <2>1 DEF JudgeHeuristic
  <2>4. judgement \in [Aspects -> Judgements \cup {Null}]
    OBVIOUS
  <2> QED
    BY <2>2, <2>3, <2>4, JudgeStep
<1>5. CASE JudgeRaises
  BY <1>5, RaiseStep
<1>6. CASE WriteReport
  BY <1>6, ReportStep
<1>7. CASE FallBack
  BY <1>7, FallBackStep
<1>8. CASE Rebuild
  BY <1>8, RebuildStep
<1> QED
  BY <1>1, <1>2, <1>3, <1>4, <1>5, <1>6, <1>7, <1>8 DEF Next, Working

THEOREM Inductive == Spec => []EInv
BY InitEInv, NextEInv, PTL DEF Spec

\* What an evaluation holds has its type at every step; the means, sums over the
\* judged mappings divided and rounded, are integers (metrics.py, 205-213).
THEOREM TypeCorrect == Spec => []TypeOK
<1>1. EInv => TypeOK
  BY DEF EInv
<1> QED
  BY <1>1, Inductive, PTL

\* A report of the heuristic engine has every score, whatever DeepEval had judged
\* or failed to judge before it fell back (run_eval.py, 138-154).
THEOREM HeuristicReportsAreComplete == Spec => []HeuristicComplete
<1>1. EInv => HeuristicComplete
  <2> SUFFICES ASSUME EInv, evaluation.step = "reported", evaluation.engine = "heuristic",
                      NEW x \in Judgeable(evaluation.candidate), NEW aspect \in Aspects
               PROVE  evaluation.judged[x][aspect] # Null
    BY DEF HeuristicComplete
  <2>1. evaluation.judged[x] \in [Aspects -> Judgements]
    BY DEF EInv, Scores
  <2> QED
    BY <2>1, EvaluationAssumption
<1> QED
  BY <1>1, Inductive, PTL

\* A mean lies between the least and the greatest of the scores that were given,
\* for any number of mappings and of failed judges (deepeval_metrics.py, 137-141).
THEOREM MeansAreWithin == Spec => []MeanWithin
<1>1. EInv => MeanWithin
  <2> SUFFICES ASSUME EInv, evaluation.step = "reported"
               PROVE  MeanWithin
    BY DEF MeanWithin
  <2>1. \A aspect \in Aspects : evaluation.mean[aspect] = Mean(evaluation.judged, aspect)
    BY DEF EInv, Scores
  <2> QED
    BY <2>1, MeanOfScores DEF MeanWithin
<1> QED
  BY <1>1, Inductive, PTL

-----------------------------------------------------------------------------
(* An evaluation is short                                                    *)

\* The steps an evaluation may still take: a mapping each and the end; and, while
\* DeepEval is used, the change of engines and all mappings again.
StepsLeft ==
    IF ~ Judging THEN 0
    ELSE Cardinality(Left) + 1
           + (IF evaluation.engine = "deepeval"
              THEN Cardinality(Judgeable(evaluation.candidate)) + 1 ELSE 0)

LEMMA JudgeableFinite ==
    ASSUME NEW doc \in Document
    PROVE  IsFiniteSet(Judgeable(doc))
<1>1. Judgeable(doc) \subseteq UNION {{f} \X DOMAIN doc.ledger[f] : f \in Fields}
  BY DEF Judgeable, MappedSlots, Slots, FieldsOf
<1> QED
  BY <1>1, EntriesFinite, FS_Subset

LEMMA LeftCounts ==
    ASSUME EInv, Judging
    PROVE  /\ evaluation.engine \in {"heuristic", "deepeval"}
           /\ IsFiniteSet(Left) /\ Cardinality(Left) \in Nat
           /\ Cardinality(Judgeable(evaluation.candidate)) \in Nat
           /\ StepsLeft \in Nat /\ StepsLeft > 0
<1>1. evaluation.candidate \in Document /\ evaluation.engine \in {"heuristic", "deepeval"}
  BY EvaluationAssumption DEF EInv, TypeOK, Judging
<1>2. IsFiniteSet(Judgeable(evaluation.candidate)) /\ IsFiniteSet(Left)
  BY <1>1, JudgeableFinite, FS_Subset DEF Left
<1>3. /\ Cardinality(Left) \in Nat
      /\ Cardinality(Judgeable(evaluation.candidate)) \in Nat
  BY <1>2, FS_CardinalityType
<1> QED
  BY <1>1, <1>2, <1>3 DEF StepsLeft

\* A mapping that is judged is not judged again by the same engine.
LEMMA JudgeNearer ==
    ASSUME EInv, Judging, NEW x, Following(x), NEW judgement, Judge(x, judgement)
    PROVE  StepsLeft' < StepsLeft
<1>1. /\ evaluation'.step = "judging" /\ evaluation'.candidate = evaluation.candidate
      /\ evaluation'.engine = evaluation.engine
      /\ DOMAIN evaluation'.judged = DOMAIN evaluation.judged \cup {x}
  BY DEF EInv, Shaped, Judge, Judging
<1>2. Judging' /\ Left' = Left \ {x}
  BY <1>1 DEF Judging, Left
<1>3. x \in Left
  BY DEF Following
<1>4. Cardinality(Left') = Cardinality(Left) - 1
  BY <1>2, <1>3, LeftCounts, FS_RemoveElement
<1>5. Judgeable(evaluation'.candidate) = Judgeable(evaluation.candidate)
  BY <1>1
<1> DEFINE l == Cardinality(Left)
           again == IF evaluation.engine = "deepeval"
                    THEN Cardinality(Judgeable(evaluation.candidate)) + 1 ELSE 0
<1>6. StepsLeft = l + 1 + again /\ StepsLeft' = (l - 1) + 1 + again
  BY <1>1, <1>2, <1>4, <1>5 DEF StepsLeft
<1>7. l \in Nat /\ again \in Nat
  BY LeftCounts
<1> HIDE DEF l, again
<1> QED
  BY <1>6, <1>7

\* An evaluation is over after as many steps as StepsLeft says: no mapping is
\* judged twice by an engine, and DeepEval is left once (run_eval.py, 138-171).
THEOREM EvaluationsAreShort ==
    Spec => [][Judging => StepsLeft \in Nat /\ StepsLeft' < StepsLeft]_vars
<1> DEFINE Nearer == StepsLeft \in Nat /\ StepsLeft' < StepsLeft
<1>1. EInv /\ [Next]_vars => [Judging => Nearer]_vars
  <2> SUFFICES ASSUME EInv, Next, Judging PROVE StepsLeft' < StepsLeft
    BY LeftCounts
  <2>1. StepsLeft \in Nat /\ StepsLeft > 0
    BY LeftCounts
  <2>2. ASSUME NEW x, JudgeDeepEval(x) \/ JudgeHeuristic(x)
        PROVE  StepsLeft' < StepsLeft
    <3>1. PICK judgement : Judge(x, judgement)
      BY <2>2 DEF JudgeDeepEval, JudgeHeuristic
    <3>2. Following(x)
      BY <2>2 DEF JudgeDeepEval, JudgeHeuristic
    <3> QED
      BY <3>1, <3>2, JudgeNearer
  <2>3. CASE JudgeRaises \/ WriteReport
    <3>1. evaluation'.step # "judging"
      BY <2>3 DEF JudgeRaises, WriteReport, EInv, Shaped
    <3>2. StepsLeft' = 0
      BY <3>1 DEF StepsLeft, Judging
    <3> QED
      BY <2>1, <3>2
  <2>4. CASE FallBack
    <3>1. /\ evaluation'.step = "judging" /\ evaluation'.engine = "heuristic"
          /\ evaluation'.candidate = evaluation.candidate /\ evaluation'.judged = <<>>
          /\ evaluation.engine = "deepeval"
      BY <2>4 DEF FallBack, EInv, Shaped, Judging
    <3>2. Left' = Judgeable(evaluation.candidate)
      BY <3>1 DEF Left
    <3>3. StepsLeft' = Cardinality(Judgeable(evaluation.candidate)) + 1
      BY <3>1, <3>2, LeftCounts DEF StepsLeft, Judging
    <3>4. StepsLeft = Cardinality(Left) + 1 + (Cardinality(Judgeable(evaluation.candidate)) + 1)
      BY <3>1 DEF StepsLeft
    <3> QED
      BY <3>3, <3>4, LeftCounts
  <2>5. ~ Rebuild /\ \A candidate, live, script : ~ Evaluate(candidate, live, script)
    BY DEF Rebuild, Evaluate, Judging
  <2> QED
    BY <2>2, <2>3, <2>4, <2>5 DEF Next, Working
<1> QED
  BY <1>1, Inductive, PTL DEF Spec

-----------------------------------------------------------------------------
(* Ratios in thousandths                                                     *)

LEMMA RatioAtLeast ==
    ASSUME NEW n \in Nat, NEW m \in Nat, m > 0, NEW k \in Int
    PROVE  /\ Ratio(n, m) \in Int
           /\ k <= Ratio(n, m) <=> (2 * k - 1) * m <= 2000 * n
<1>1. Ratio(n, m) = (2000 * n + m) \div (2 * m)
  BY DEF Ratio
<1>2. 2 * m \in Nat /\ 2 * m > 0 /\ 2000 * n + m \in Int
  OBVIOUS
<1>3. k <= Ratio(n, m) <=> k * (2 * m) <= 2000 * n + m
  BY <1>1, <1>2, QuotientAtLeast
<1>4. k * (2 * m) - m = (2 * k - 1) * m
  OBVIOUS
<1>5. Ratio(n, m) \in Int
  BY <1>1, <1>2, Quotient
<1> QED
  BY <1>2, <1>3, <1>4, <1>5

\* Rounded to thousandths, a ratio of less than 2000 things is full only if all count.
LEMMA RatioFull ==
    ASSUME NEW n \in Nat, NEW m \in Nat, n <= m, m < 2000
    PROVE  Ratio(n, m) = 1000 <=> n = m
<1>1. CASE m = 0
  BY <1>1 DEF Ratio
<1>2. CASE m > 0
  <2>1. /\ Ratio(n, m) \in Int
        /\ 1000 <= Ratio(n, m) <=> 1999 * m <= 2000 * n
        /\ 1001 <= Ratio(n, m) <=> 2001 * m <= 2000 * n
    <3>1. /\ Ratio(n, m) \in Int
          /\ 1000 <= Ratio(n, m) <=> (2 * 1000 - 1) * m <= 2000 * n
      BY <1>2, RatioAtLeast
    <3>2. 1001 <= Ratio(n, m) <=> (2 * 1001 - 1) * m <= 2000 * n
      BY <1>2, RatioAtLeast
    <3> QED
      BY <3>1, <3>2
  <2> QED
    BY <1>2, <2>1
<1> QED
  BY <1>1, <1>2

\* A greater ratio is not rounded to less.
LEMMA RatioMonotone ==
    ASSUME NEW n \in Nat, NEW m \in Nat, m > 0, NEW i \in Nat, NEW j \in Nat, j > 0,
           n * j <= i * m
    PROVE  Ratio(n, m) <= Ratio(i, j)
<1> DEFINE k == Ratio(n, m)
<1>1. k \in Int /\ (2 * k - 1) * m <= 2000 * n
  <2>1. Ratio(n, m) \in Int
    BY RatioAtLeast
  <2> QED
    BY <2>1, RatioAtLeast
<1> HIDE DEF k
<1>2. j * ((2 * k - 1) * m) <= j * (2000 * n)
  <2>1. (2 * k - 1) * m \in Int /\ 2000 * n \in Int
    BY <1>1
  <2> HIDE DEF k
  <2> QED
    BY <1>1, <2>1, TimesMonotone
<1>3. j * (2000 * n) = 2000 * (n * j) /\ m * (2000 * i) = 2000 * (i * m)
  OBVIOUS
<1>4. j * ((2 * k - 1) * m) = m * ((2 * k - 1) * j)
  <2>1. \A x \in Int : j * (x * m) = m * (x * j)
    OBVIOUS
  <2>2. 2 * k - 1 \in Int
    BY <1>1
  <2> QED
    BY <2>1, <2>2
<1>5. n * j \in Int /\ i * m \in Int
  OBVIOUS
<1>6. 2000 * (n * j) <= 2000 * (i * m)
  BY <1>5
<1>7. m * ((2 * k - 1) * j) <= m * (2000 * i)
  <2> DEFINE left == j * ((2 * k - 1) * m)
             right == 2000 * (i * m)
             middle == 2000 * (n * j)
  <2>1. left \in Int /\ middle \in Int /\ right \in Int
    BY <1>1
  <2>2. left <= middle /\ middle <= right
    BY <1>2, <1>3, <1>6
  <2>3. left = m * ((2 * k - 1) * j) /\ right = m * (2000 * i)
    BY <1>3, <1>4
  <2> HIDE DEF left, middle, right
  <2>4. left <= right
    BY <2>1, <2>2
  <2> QED
    BY <2>3, <2>4
<1>8. (2 * k - 1) * j <= 2000 * i
  <2>1. (2 * k - 1) * j \in Int /\ 2000 * i \in Int
    BY <1>1
  <2> QED
    BY <1>7, <2>1, TimesMonotone
<1>9. k <= Ratio(i, j)
  BY <1>1, <1>8, RatioAtLeast
<1> QED
  BY <1>9 DEF k

\* One more of at most 1000 shows.
LEMMA RatioOneMore ==
    ASSUME NEW n \in Nat, NEW m \in Nat, m > 0, m <= 1000
    PROVE  Ratio(n, m) < Ratio(n + 1, m)
<1> DEFINE k == Ratio(n, m)
<1>1. k \in Int /\ (2 * k - 1) * m <= 2000 * n
  <2>1. Ratio(n, m) \in Int
    BY RatioAtLeast
  <2> QED
    BY <2>1, RatioAtLeast
<1> HIDE DEF k
<1>2. (2 * (k + 1) - 1) * m = (2 * k - 1) * m + 2 * m
  BY <1>1
<1>3. (2 * k - 1) * m \in Int
  BY <1>1
<1>4. (2 * (k + 1) - 1) * m <= 2000 * (n + 1)
  BY <1>1, <1>2, <1>3
<1>5. /\ Ratio(n + 1, m) \in Int
      /\ k + 1 <= Ratio(n + 1, m)
  BY <1>1, <1>4, RatioAtLeast
<1> QED
  BY <1>1, <1>5 DEF k

\* One fewer in the denominator shows, of at most 34.
LEMMA RatioOneFewer ==
    ASSUME NEW n \in Nat, n > 0, NEW m \in Nat, m >= 2, m <= 34
    PROVE  Ratio(n, m) < Ratio(n, m - 1)
<1> DEFINE k == Ratio(n, m)
<1>1. CASE n > 1 \/ m <= 31
  <2>1. k \in Int /\ (2 * k - 1) * m <= 2000 * n
    <3>1. Ratio(n, m) \in Int
      BY RatioAtLeast
    <3> QED
      BY <3>1, RatioAtLeast
  <2>2. (2 * m - 1) * m <= 2000 * n
    <3>1. CASE m <= 31
      <4>1. m * (2 * m - 1) <= m * 61 /\ m * 61 <= 2000
        <5>1. 2 * m - 1 <= 61
          BY <3>1
        <5> QED
          BY <3>1, <5>1, TimesMonotone
      <4> QED
        BY <4>1
    <3>2. CASE n > 1
      <4>1. m * (2 * m - 1) <= m * 67 /\ m * 67 <= 4000
        <5>1. 2 * m - 1 <= 67
          OBVIOUS
        <5> QED
          BY <5>1, TimesMonotone
      <4> QED
        BY <3>2, <4>1
    <3> QED
      BY <1>1, <3>1, <3>2
  <2>3. m <= k
    BY <2>2, RatioAtLeast
  <2> HIDE DEF k
  <2>4. (2 * (k + 1) - 1) * (m - 1) = (2 * k - 1) * m + (2 * m - 2 * k - 1)
    BY <2>1
  <2>5. (2 * k - 1) * m \in Int
    BY <2>1
  <2>6. (2 * (k + 1) - 1) * (m - 1) <= 2000 * n
    BY <2>1, <2>3, <2>4, <2>5
  <2>7. k + 1 <= Ratio(n, m - 1) /\ Ratio(n, m - 1) \in Int
    BY <2>1, <2>6, RatioAtLeast
  <2> QED
    BY <2>1, <2>7 DEF k
<1>2. CASE n = 1 /\ m > 31
  <2>1. m = 32 \/ m = 33 \/ m = 34
    BY <1>2
  <2>2. /\ Ratio(1, 31) = 32 /\ Ratio(1, 32) = 31
        /\ Ratio(1, 33) = 30 /\ Ratio(1, 34) = 29
    BY DEF Ratio
  <2> QED
    BY <1>2, <2>1, <2>2
<1> QED
  BY <1>1, <1>2

LEMMA F1AtLeast ==
    ASSUME NEW p \in Nat, NEW r \in Nat, p + r > 0, NEW k \in Int
    PROVE  /\ F1(p, r) \in Int
           /\ k <= F1(p, r) <=> (2 * k - 1) * (p + r) <= 4 * (p * r)
<1> DEFINE pr == p * r
           s == p + r
<1>1. F1(p, r) = (4 * pr + s) \div (2 * s)
  <2>1. 4 * p * r + p + r = 4 * pr + s
    OBVIOUS
  <2> QED
    BY <2>1 DEF F1
<1>2. pr \in Nat /\ s \in Nat /\ s > 0
  OBVIOUS
<1> HIDE DEF pr, s
<1>3. 2 * s \in Nat /\ 2 * s > 0 /\ 4 * pr + s \in Int
  BY <1>2
<1>4. k <= F1(p, r) <=> k * (2 * s) <= 4 * pr + s
  BY <1>1, <1>3, QuotientAtLeast
<1>5. k * (2 * s) - s = (2 * k - 1) * s
  BY <1>2
<1>6. k * (2 * s) \in Int /\ (2 * k - 1) * s \in Int
  BY <1>2
<1>7. F1(p, r) \in Int
  BY <1>1, <1>3, Quotient
<1>8. k <= F1(p, r) <=> (2 * k - 1) * s <= 4 * pr
  BY <1>2, <1>4, <1>5, <1>6
<1> QED
  BY <1>7, <1>8 DEF pr, s

LEMMA RatioType ==
    ASSUME NEW n \in Nat, NEW m \in Nat
    PROVE  Ratio(n, m) \in Nat
<1>1. CASE m = 0
  BY <1>1 DEF Ratio
<1>2. CASE m > 0
  <2>1. (2 * 0 - 1) * m <= 2000 * n
    OBVIOUS
  <2>2. Ratio(n, m) \in Int /\ 0 <= Ratio(n, m)
    BY <1>2, <2>1, RatioAtLeast
  <2> QED
    BY <2>2
<1> QED
  BY <1>1, <1>2

LEMMA RatioOfAll ==
    ASSUME NEW n \in Nat
    PROVE  Ratio(n, n) = 1000
<1> SUFFICES ASSUME n > 0 PROVE Ratio(n, n) = 1000
  BY DEF Ratio
<1>1. /\ Ratio(n, n) \in Int
      /\ 1000 <= Ratio(n, n) <=> (2 * 1000 - 1) * n <= 2000 * n
  BY RatioAtLeast
<1>2. 1001 <= Ratio(n, n) <=> (2 * 1001 - 1) * n <= 2000 * n
  BY RatioAtLeast
<1> QED
  BY <1>1, <1>2

\* Nor is a greater part of what is counted, nothing of nothing being all of it.
LEMMA PartMonotone ==
    ASSUME NEW n \in Nat, NEW m \in Nat, NEW i \in Nat, NEW j \in Nat,
           n <= m, i <= j, n * j <= i * m, m = 0 => i = j
    PROVE  Ratio(n, m) <= Ratio(i, j)
<1>1. CASE m = 0
  <2>1. Ratio(n, m) = 1000
    BY <1>1 DEF Ratio
  <2>2. Ratio(i, j) = 1000
    BY <1>1, RatioOfAll
  <2> QED
    BY <2>1, <2>2
<1>2. CASE m > 0 /\ j = 0
  <2>1. Ratio(i, j) = Ratio(m, m)
    BY <1>2, RatioOfAll DEF Ratio
  <2>2. n * m <= m * m
    BY TimesMonotone, <1>2
  <2> QED
    BY <1>2, <2>1, <2>2, RatioMonotone
<1>3. CASE m > 0 /\ j > 0
  BY <1>3, RatioMonotone
<1> QED
  BY <1>1, <1>2, <1>3

\* F1 does not fall as precision rises from p to j and recall from r to i.
LEMMA F1Monotone ==
    ASSUME NEW p \in Nat, NEW r \in Nat, NEW j \in Nat, NEW i \in Nat, p <= j, r <= i
    PROVE  F1(p, r) <= F1(j, i)
<1>1. CASE p + r = 0
  <2>1. F1(p, r) = 0
    BY <1>1 DEF F1
  <2>2. CASE j + i = 0
    BY <2>1, <2>2 DEF F1
  <2>3. CASE j + i > 0
    <3>1. (2 * 0 - 1) * (j + i) <= 4 * (j * i)
      <4>1. j * i \in Nat
        OBVIOUS
      <4> QED
        BY <4>1
    <3>2. 0 <= F1(j, i)
      BY <2>3, <3>1, F1AtLeast
    <3> QED
      BY <2>1, <3>2
  <2> QED
    BY <2>2, <2>3
<1>2. CASE p + r > 0
  <2> DEFINE k == F1(p, r)
             s == p + r
             z == j + i
  <2>1. k \in Int /\ (2 * k - 1) * s <= 4 * (p * r)
    <3>1. F1(p, r) \in Int
      BY <1>2, F1AtLeast
    <3> QED
      BY <1>2, <3>1, F1AtLeast
  <2>2. s \in Nat /\ s > 0 /\ z \in Nat /\ z > 0
    BY <1>2
  <2>3. (p * r) * z <= (j * i) * s
    <3>1. (p * r) * z = r * (p * j) + p * (r * i)
      OBVIOUS
    <3>2. (j * i) * s = i * (p * j) + j * (r * i)
      OBVIOUS
    <3>3. p * j \in Nat /\ r * i \in Nat
      OBVIOUS
    <3>4. r * (p * j) <= i * (p * j) /\ p * (r * i) <= j * (r * i)
      BY <3>3, ProductsGrow
    <3>5. /\ r * (p * j) \in Int /\ i * (p * j) \in Int
          /\ p * (r * i) \in Int /\ j * (r * i) \in Int
      BY <3>3
    <3> HIDE DEF s, z
    <3> QED
      BY <3>1, <3>2, <3>4, <3>5
  <2> DEFINE h == 2 * k - 1
             pr == p * r
             ji == j * i
  <2>4. h \in Int /\ pr \in Nat /\ ji \in Nat /\ h * s <= 4 * pr /\ pr * z <= ji * s
    BY <2>1, <2>3
  <2> HIDE DEF k, s, z, h, pr, ji
  <2>5. s * (h * z) <= s * (4 * ji)
    <3>1. z * (h * s) <= z * (4 * pr)
      <4>1. h * s \in Int /\ 4 * pr \in Int
        BY <2>2, <2>4
      <4> QED
        BY <2>2, <2>4, <4>1, TimesMonotone
    <3>2. z * (h * s) = s * (h * z) /\ z * (4 * pr) = 4 * (pr * z) /\ s * (4 * ji) = 4 * (ji * s)
      BY <2>2, <2>4
    <3>3. pr * z \in Int /\ ji * s \in Int /\ s * (h * z) \in Int
      BY <2>2, <2>4
    <3> QED
      BY <2>4, <3>1, <3>2, <3>3
  <2>6. h * z <= 4 * ji
    <3>1. h * z \in Int /\ 4 * ji \in Int
      BY <2>2, <2>4
    <3> QED
      BY <2>2, <2>5, <3>1, TimesMonotone
  <2>7. k <= F1(j, i)
    BY <2>1, <2>2, <2>6, F1AtLeast DEF h, z, ji
  <2> QED
    BY <2>7 DEF k
<1> QED
  BY <1>1, <1>2

-----------------------------------------------------------------------------
(* What is counted                                                           *)

\* A document that has each field once.
Once(doc) ==
    doc \in Document /\ Published(doc) /\ \A f \in Fields : Len(doc.ledger[f]) = 1

\* What it says of a field.
Said(doc, f) == doc.ledger[f][1]

\* The coverage check is enough to know that a published document is one.
LEMMA CheckedOnce ==
    ASSUME NEW doc \in Document, Published(doc), Problems(doc) = {}
    PROVE  Once(doc)
<1>1. \A f \in Fields : doc.ledger[f] # <<>>
  BY DEF Published
<1> QED
  BY <1>1, NoProblems DEF Once

LEMMA MappingSaid ==
    ASSUME NEW doc, Once(doc), NEW f \in Fields
    PROVE  /\ MappingOf(doc, f) = IF IsMapped(Said(doc, f)) THEN Said(doc, f) ELSE Null
           /\ IsMapped(Said(doc, f)) => Said(doc, f) # Null
           /\ UnmappedFields(doc) = Fields \ {g \in Fields : IsMapped(Said(doc, g))}
<1>1. \A g \in Fields : /\ doc.ledger[g] \in Seq(Entry) /\ Len(doc.ledger[g]) = 1
                        /\ DOMAIN doc.ledger[g] = {1} /\ Said(doc, g) \in Entry
  <2> SUFFICES ASSUME NEW g \in Fields
               PROVE  /\ doc.ledger[g] \in Seq(Entry) /\ Len(doc.ledger[g]) = 1
                      /\ DOMAIN doc.ledger[g] = {1} /\ Said(doc, g) \in Entry
    OBVIOUS
  <2>1. doc.ledger[g] \in Seq(Entry) /\ Len(doc.ledger[g]) = 1
    BY DEF Once, Document
  <2> QED
    BY <2>1 DEF Said
<1>2. \A g \in Fields : MappedAt(doc, g) = IF IsMapped(Said(doc, g)) THEN {1} ELSE {}
  BY <1>1 DEF MappedAt, Said
<1>3. IsMapped(Said(doc, f)) => Said(doc, f) # Null
  <2> SUFFICES ASSUME IsMapped(Said(doc, f)) PROVE Said(doc, f) # Null
    OBVIOUS
  <2>1. 1 \in DOMAIN doc.ledger[f] /\ Said(doc, f) \in Entry
    BY <1>1
  <2>2. Said(doc, f).transform # Null /\ Said(doc, f).dst # Null
    BY <2>1 DEF Once, Published, Said, IsMapped
  <2>3. Said(doc, f) \in Proposal
    BY <2>1, <2>2 DEF Entry, Proposal
  <2> QED
    BY <2>3, NullAssumption
<1>4. Max({1}) = 1
  BY DEF Max
<1>5. MappingOf(doc, f) = IF IsMapped(Said(doc, f)) THEN Said(doc, f) ELSE Null
  <2>1. CASE IsMapped(Said(doc, f))
    <3>1. MappedAt(doc, f) = {1}
      BY <1>2, <2>1
    <3> QED
      BY <1>4, <2>1, <3>1 DEF MappingOf, Said
  <2>2. CASE ~ IsMapped(Said(doc, f))
    <3>1. MappedAt(doc, f) = {}
      BY <1>2, <2>2
    <3> QED
      BY <2>2, <3>1 DEF MappingOf
  <2> QED
    BY <2>1, <2>2
<1>6. UnmappedFields(doc) = Fields \ {g \in Fields : IsMapped(Said(doc, g))}
  BY <1>1, <1>2 DEF UnmappedFields
<1> QED
  BY <1>3, <1>5, <1>6

\* In such a document the two lists of a table are complements, and what is right
\* is what both documents map to the same path.
LEMMA OnceFields ==
    ASSUME NEW doc, Once(doc)
    PROVE  /\ MappedFields(doc) = {f \in Fields : IsMapped(Said(doc, f))}
           /\ UnmappedFields(doc) = Fields \ MappedFields(doc)
<1>1. MappedFields(doc) = {f \in Fields : IsMapped(Said(doc, f))}
  BY MappingSaid DEF MappedFields
<1>2. CASE Fields = {}
  BY <1>2 DEF UnmappedFields, MappedFields
<1>3. CASE Fields # {}
  <2>1. PICK f \in Fields : TRUE
    BY <1>3
  <2> QED
    BY <1>1, <2>1, MappingSaid
<1> QED
  BY <1>1, <1>2, <1>3

LEMMA OnceCorrect ==
    ASSUME NEW candidate, Once(candidate), NEW document, Once(document)
    PROVE  /\ Correct(candidate, document) =
                {f \in MappedFields(candidate) \cap MappedFields(document) :
                    Said(candidate, f).dst = Said(document, f).dst}
           /\ SameTransform(candidate, document) =
                {f \in Correct(candidate, document) :
                    Said(candidate, f).transform = Said(document, f).transform}
<1>1. \A f \in MappedFields(candidate) \cap MappedFields(document) :
        /\ MappingOf(candidate, f) = Said(candidate, f)
        /\ MappingOf(document, f) = Said(document, f)
  BY OnceFields, MappingSaid
<1>2. Correct(candidate, document) =
        {f \in MappedFields(candidate) \cap MappedFields(document) :
            Said(candidate, f).dst = Said(document, f).dst}
  BY <1>1 DEF Correct
<1>3. Correct(candidate, document) \subseteq MappedFields(candidate) \cap MappedFields(document)
  BY <1>2
<1>4. SameTransform(candidate, document) =
        {f \in Correct(candidate, document) :
            Said(candidate, f).transform = Said(document, f).transform}
  BY <1>1, <1>3 DEF SameTransform
<1> QED
  BY <1>2, <1>4

\* The sets that are counted: of the fields that a candidate (M) and golden (G) map,
\* what is right, what the candidate leaves out and what it adds.
Counts(M, G, C, U, E) ==
    /\ M \subseteq Fields /\ G \subseteq Fields /\ C \subseteq M \cap G
    /\ U = (Fields \ M) \cap G
    /\ E = M \cap (Fields \ G)

\* They are apart, so that together they are no more than the fields.
LEMMA Counted ==
    ASSUME NEW M, NEW G, NEW C, NEW U, NEW E, Counts(M, G, C, U, E)
    PROVE  /\ IsFiniteSet(M) /\ IsFiniteSet(G) /\ IsFiniteSet(C)
           /\ IsFiniteSet(U) /\ IsFiniteSet(E)
           /\ Cardinality(C) \in Nat /\ Cardinality(G) \in Nat
           /\ Cardinality(U) \in Nat /\ Cardinality(E) \in Nat
           /\ Cardinality(C) <= Cardinality(G)
           /\ (Cardinality(C) = Cardinality(G)) <=> (C = G)
           /\ (Cardinality(U) + Cardinality(E) = 0) <=> (U = {} /\ E = {})
           /\ Cardinality(G) <= Cardinality(Fields)
           /\ Cardinality(C) + Cardinality(U) + Cardinality(E) <= Cardinality(Fields)
<1>1. /\ IsFiniteSet(M) /\ IsFiniteSet(G) /\ IsFiniteSet(C)
      /\ IsFiniteSet(U) /\ IsFiniteSet(E) /\ IsFiniteSet(C \cup U) /\ IsFiniteSet(C \cup U \cup E)
  <2>1. /\ M \in SUBSET Fields /\ G \in SUBSET Fields /\ C \in SUBSET Fields
        /\ U \in SUBSET Fields /\ E \in SUBSET Fields
        /\ C \cup U \in SUBSET Fields /\ C \cup U \cup E \in SUBSET Fields
    BY DEF Counts
  <2>2. \A S \in SUBSET Fields : IsFiniteSet(S)
    BY SchemaAssumption, FS_Subset
  <2> QED
    BY <2>1, <2>2
<1>2. /\ Cardinality(C) \in Nat /\ Cardinality(G) \in Nat
      /\ Cardinality(U) \in Nat /\ Cardinality(E) \in Nat
      /\ Cardinality(Fields) \in Nat
  <2> QED
    BY <1>1, SchemaAssumption, FS_CardinalityType
<1>3. Cardinality(C) <= Cardinality(G) /\ (Cardinality(C) = Cardinality(G) <=> C = G)
  <2>1. C \in SUBSET G
    BY DEF Counts
  <2> QED
    BY <1>1, <2>1, FS_Subset
<1>4. (Cardinality(U) + Cardinality(E) = 0) <=> (U = {} /\ E = {})
  <2>1. (Cardinality(U) = 0 <=> U = {}) /\ (Cardinality(E) = 0 <=> E = {})
      <3> QED
      BY <1>1, FS_EmptySet
  <2> QED
    BY <1>2, <2>1
<1>5. Cardinality(G) <= Cardinality(Fields)
  <2>1. G \in SUBSET Fields
    BY DEF Counts
  <2> QED
    BY <2>1, SchemaAssumption, FS_Subset
<1>6. Cardinality(C) + Cardinality(U) + Cardinality(E) <= Cardinality(Fields)
  <2>1. C \cap U = {} /\ (C \cup U) \cap E = {} /\ C \cup U \cup E \in SUBSET Fields
    BY DEF Counts
  <2>2. Cardinality(C \cup U) = Cardinality(C) + Cardinality(U) - Cardinality({})
    BY <1>1, <2>1, FS_Union
  <2>3. Cardinality((C \cup U) \cup E) = Cardinality(C \cup U) + Cardinality(E) - Cardinality({})
    BY <1>1, <2>1, FS_Union
  <2>4. Cardinality({}) = 0
    BY FS_EmptySet
  <2>5. Cardinality(C \cup U \cup E) <= Cardinality(Fields)
    BY <2>1, SchemaAssumption, FS_Subset
  <2> QED
    BY <1>2, <2>2, <2>3, <2>4, <2>5
<1> QED
  BY <1>1, <1>2, <1>3, <1>4, <1>5, <1>6

\* What full marks mean, for each of the scores, as long as the ratios are of less
\* than 2000 fields.
LEMMA FullScores ==
    ASSUME NEW candidate, Once(candidate), NEW document, Once(document),
           Cardinality(Fields) < 2000
    PROVE  LET report == ScoreAgainstGolden(candidate, document)
               right == Correct(candidate, document)
               mapped == MappedFields(document)
               left == UnmappedFields(candidate) \cap mapped
               extra == Extra(candidate, document)
           IN  /\ report.accuracy = 1000 <=> right = mapped
               /\ report.precision = 1000 <=> left = {} /\ extra = {}
               /\ report.transforms = 1000 => SameTransform(candidate, document) = right
               /\ \A t \in Tables : report.perTable[t] = 1000 <=>
                    right \cap FieldsOf(t) = mapped \cap FieldsOf(t)
               /\ report.mismatches = {} <=> right = mapped /\ extra = {}
<1> DEFINE report == ScoreAgainstGolden(candidate, document)
           C == Correct(candidate, document)
           S == SameTransform(candidate, document)
           M == MappedFields(candidate)
           G == MappedFields(document)
           U == UnmappedFields(candidate) \cap G
           E == Extra(candidate, document)
           T(t) == FieldsOf(t)
<1>1. /\ M \subseteq Fields /\ G \subseteq Fields /\ C \subseteq M \cap G /\ S \subseteq C
      /\ U = (Fields \ M) \cap G /\ E = M \cap (Fields \ G)
  <2>1. M \subseteq Fields /\ G \subseteq Fields
    BY DEF MappedFields
  <2>2. C \subseteq M \cap G /\ S \subseteq C
    BY DEF Correct, SameTransform
  <2> QED
    BY <2>1, <2>2, OnceFields DEF Extra
<1>2. /\ report.accuracy = Ratio(Cardinality(C), Cardinality(G))
      /\ report.precision =
           Ratio(Cardinality(C), Cardinality(C) + (Cardinality(U) + Cardinality(E)))
      /\ report.transforms = Ratio(Cardinality(S), Cardinality(C))
      /\ \A t \in Tables :
           report.perTable[t] = Ratio(Cardinality(C \cap T(t)), Cardinality(G \cap T(t)))
      /\ report.mismatches = (G \ C) \cup E
  BY DEF ScoreAgainstGolden, Accuracy, Precision, FalsePositives, TransformAgreement,
     TableAccuracy, Mismatches
<1> HIDE DEF report, C, S, M, G, U, E, T
<1>3. Cardinality(Fields) \in Nat
  BY SchemaAssumption, FS_CardinalityType
<1> DEFINE c == Cardinality(C)
           g == Cardinality(G)
           wrong == Cardinality(U) + Cardinality(E)
<1>4. /\ c \in Nat /\ g \in Nat /\ wrong \in Nat /\ IsFiniteSet(C) /\ IsFiniteSet(G)
      /\ c <= g /\ (c = g <=> C = G) /\ (wrong = 0 <=> U = {} /\ E = {})
      /\ g < 2000 /\ c + wrong < 2000
  <2>1. /\ IsFiniteSet(C) /\ IsFiniteSet(G)
        /\ Cardinality(C) \in Nat /\ Cardinality(G) \in Nat
        /\ Cardinality(U) \in Nat /\ Cardinality(E) \in Nat
        /\ Cardinality(C) <= Cardinality(G)
        /\ (Cardinality(C) = Cardinality(G)) <=> (C = G)
        /\ (Cardinality(U) + Cardinality(E) = 0) <=> (U = {} /\ E = {})
        /\ Cardinality(G) <= Cardinality(Fields)
        /\ Cardinality(C) + Cardinality(U) + Cardinality(E) <= Cardinality(Fields)
    <3>1. Counts(M, G, C, U, E)
      BY <1>1 DEF Counts
    <3> QED
      BY <3>1, Counted
  <2>2. c \in Nat /\ g \in Nat /\ wrong \in Nat /\ g < 2000 /\ c + wrong < 2000
    BY <1>3, <2>1
  <2>3. c <= g /\ (c = g <=> C = G) /\ (wrong = 0 <=> U = {} /\ E = {})
    BY <2>1
  <2> HIDE DEF c, g, wrong
  <2> QED
    BY <2>1, <2>2, <2>3
<1>5. report.accuracy = 1000 <=> C = G
  BY <1>2, <1>4, RatioFull
<1>6. report.precision = 1000 <=> U = {} /\ E = {}
  <2>1. c + wrong \in Nat /\ c <= c + wrong
    BY <1>4
  <2> HIDE DEF c, wrong
  <2>2. Ratio(c, c + wrong) = 1000 <=> c = c + wrong
    BY <1>4, <2>1, RatioFull
  <2>3. report.precision = Ratio(c, c + wrong)
    BY <1>2 DEF c, wrong
  <2> QED
    BY <1>4, <2>2, <2>3
<1>7. report.transforms = 1000 => S = C
  <2>1. S \in SUBSET C
    BY <1>1
  <2>2. Cardinality(S) <= c /\ (c = Cardinality(S) => S = C) /\ IsFiniteSet(S)
    BY <1>4, <2>1, FS_Subset
  <2>3. Cardinality(S) \in Nat
    BY <2>2, FS_CardinalityType
  <2>4. c < 2000
    BY <1>4
  <2>5. Ratio(Cardinality(S), c) = 1000 <=> Cardinality(S) = c
    <3> HIDE DEF c
    <3> QED
      BY <1>4, <2>2, <2>3, <2>4, RatioFull
  <2>6. report.transforms = Ratio(Cardinality(S), c)
    BY <1>2
  <2> HIDE DEF c
  <2> QED
    BY <2>2, <2>5, <2>6
<1>8. ASSUME NEW t \in Tables
      PROVE  report.perTable[t] = 1000 <=> C \cap T(t) = G \cap T(t)
  <2> DEFINE Ct == C \cap T(t)
             Gt == G \cap T(t)
  <2>1. Ct \in SUBSET Gt /\ Gt \in SUBSET G
    BY <1>1
  <2>2. report.perTable[t] = Ratio(Cardinality(Ct), Cardinality(Gt))
    BY <1>2
  <2> HIDE DEF Ct, Gt
  <2>3. IsFiniteSet(Gt) /\ Cardinality(Gt) <= g
    BY <1>4, <2>1, FS_Subset
  <2>4. /\ IsFiniteSet(Ct) /\ Cardinality(Ct) <= Cardinality(Gt)
        /\ Cardinality(Gt) = Cardinality(Ct) => Ct = Gt
    BY <2>1, <2>3, FS_Subset
  <2>5. Cardinality(Ct) \in Nat /\ Cardinality(Gt) \in Nat
    BY <2>3, <2>4, FS_CardinalityType
  <2>6. Cardinality(Gt) < 2000
    BY <1>4, <2>3, <2>5
  <2>7. report.perTable[t] = 1000 <=> Cardinality(Ct) = Cardinality(Gt)
    BY <2>2, <2>4, <2>5, <2>6, RatioFull
  <2>8. report.perTable[t] = 1000 <=> Ct = Gt
    BY <2>4, <2>7
  <2> QED
    BY <2>8 DEF Ct, Gt
<1>9. report.mismatches = {} <=> C = G /\ E = {}
  BY <1>1, <1>2
<1> QED
  BY <1>5, <1>6, <1>7, <1>8, <1>9 DEF report, C, S, G, U, E, T

\* Documents with the same mapped fields, all to the same path with the same
\* transform, say the same of every field.
LEMMA SameSaid ==
    ASSUME NEW candidate, Once(candidate), NEW document, Once(document),
           Correct(candidate, document) = MappedFields(document),
           Extra(candidate, document) = {},
           SameTransform(candidate, document) = Correct(candidate, document),
           NEW f \in Fields
    PROVE  /\ Said(candidate, f).dst = Said(document, f).dst
           /\ Said(candidate, f).transform = Said(document, f).transform
<1>1. CASE f \in MappedFields(document)
  <2>1. f \in Correct(candidate, document) /\ f \in SameTransform(candidate, document)
    BY <1>1
  <2> QED
    BY <2>1, OnceCorrect
<1>2. CASE f \notin MappedFields(document)
  <2>1. f \notin MappedFields(candidate)
    BY <1>2, OnceFields DEF Extra
  <2>2. ~ IsMapped(Said(candidate, f)) /\ ~ IsMapped(Said(document, f))
    BY <1>2, <2>1, OnceFields
  <2>3. \A doc : Once(doc) /\ ~ IsMapped(Said(doc, f))
          => Said(doc, f).dst = Null /\ Said(doc, f).transform = Null
    <3> SUFFICES ASSUME NEW doc, Once(doc), ~ IsMapped(Said(doc, f))
                 PROVE  Said(doc, f).dst = Null /\ Said(doc, f).transform = Null
      OBVIOUS
    <3>1. doc.ledger[f] \in Seq(Entry) /\ Len(doc.ledger[f]) = 1
      BY DEF Once, Document
    <3>2. 1 \in DOMAIN doc.ledger[f]
      BY <3>1
    <3> QED
      BY <3>2 DEF Once, Published, Said, IsMapped
  <2> QED
    BY <2>2, <2>3
<1> QED
  BY <1>1, <1>2

LEMMA TableByTable ==
    ASSUME NEW C \in SUBSET Fields, NEW G \in SUBSET Fields
    PROVE  C = G <=> \A t \in Tables : C \cap FieldsOf(t) = G \cap FieldsOf(t)
<1>1. \A f \in Fields : TableOf[f] \in Tables /\ f \in FieldsOf(TableOf[f])
  BY SchemaAssumption DEF FieldsOf
<1> QED
  BY <1>1

LEMMA SlipsNot ==
    ASSUME NEW candidate, Once(candidate), NEW document, Once(document),
           Cardinality(Fields) < 2000
    PROVE  LET report == ScoreAgainstGolden(candidate, document)
           IN  /\ FullMarks(report) => \A f \in Fields :
                    /\ candidate.ledger[f][1].dst = document.ledger[f][1].dst
                    /\ candidate.ledger[f][1].transform = document.ledger[f][1].transform
               /\ report.mismatches = {} <=> report.accuracy = 1000 /\ report.precision = 1000
               /\ report.accuracy = 1000 <=> \A t \in Tables : report.perTable[t] = 1000
<1> DEFINE report == ScoreAgainstGolden(candidate, document)
           C == Correct(candidate, document)
           G == MappedFields(document)
           U == UnmappedFields(candidate) \cap G
           E == Extra(candidate, document)
<1>1. /\ report.accuracy = 1000 <=> C = G
      /\ report.precision = 1000 <=> U = {} /\ E = {}
      /\ report.transforms = 1000 => SameTransform(candidate, document) = C
      /\ \A t \in Tables : report.perTable[t] = 1000 <=> C \cap FieldsOf(t) = G \cap FieldsOf(t)
      /\ report.mismatches = {} <=> C = G /\ E = {}
  BY FullScores
<1>2. ASSUME FullMarks(report), NEW f \in Fields
      PROVE  /\ candidate.ledger[f][1].dst = document.ledger[f][1].dst
             /\ candidate.ledger[f][1].transform = document.ledger[f][1].transform
  <2>1. report.accuracy = 1000 /\ report.precision = 1000 /\ report.transforms = 1000
    BY <1>2 DEF FullMarks, Marks, ScoreAgainstGolden
  <2>2. C = G /\ E = {} /\ SameTransform(candidate, document) = C
    BY <1>1, <2>1
  <2> QED
    BY <2>2, SameSaid DEF Said
<1>3. C = G => U = {}
  BY OnceCorrect, OnceFields DEF MappedFields
<1>4. C \in SUBSET Fields /\ G \in SUBSET Fields
  BY DEF Correct, MappedFields
<1>5. C = G <=> \A t \in Tables : C \cap FieldsOf(t) = G \cap FieldsOf(t)
  <2> HIDE DEF C, G
  <2> QED
    BY <1>4, TableByTable
<1> HIDE DEF report, C, G, U, E
<1>6. report.mismatches = {} <=> report.accuracy = 1000 /\ report.precision = 1000
  BY <1>1, <1>3
<1>7. report.accuracy = 1000 <=> \A t \in Tables : report.perTable[t] = 1000
  BY <1>1, <1>5
<1> QED
  BY <1>2, <1>6, <1>7 DEF report

\* One field is given the mapping that golden has for it.
Fixed(candidate, document, f) == [candidate EXCEPT !.ledger[f] = document.ledger[f]]

LEMMA FixedOnce ==
    ASSUME NEW candidate, Once(candidate), NEW document, Once(document), NEW f \in Fields
    PROVE  /\ Once(Fixed(candidate, document, f))
           /\ \A g \in Fields : Said(Fixed(candidate, document, f), g) =
                IF g = f THEN Said(document, f) ELSE Said(candidate, g)
<1> DEFINE fixed == Fixed(candidate, document, f)
<1>1. candidate \in Document /\ document \in Document
  BY DEF Once
<1>2. fixed \in Document
  BY <1>1 DEF Document, Fixed
<1>3. \A g \in Fields :
        fixed.ledger[g] = IF g = f THEN document.ledger[f] ELSE candidate.ledger[g]
  BY <1>1 DEF Document, Fixed
<1> HIDE DEF fixed
<1>4. Published(fixed) /\ \A g \in Fields : Len(fixed.ledger[g]) = 1
  BY <1>3 DEF Once, Published
<1>5. \A g \in Fields :
        Said(fixed, g) = IF g = f THEN Said(document, f) ELSE Said(candidate, g)
  BY <1>3 DEF Said
<1> QED
  BY <1>2, <1>4, <1>5 DEF fixed, Once

\* What is counted then: only f changes its place.
LEMMA FixedCounts ==
    ASSUME NEW candidate, Once(candidate), NEW document, Once(document), NEW f \in Fields
    PROVE  LET fixed == Fixed(candidate, document, f)
               G == MappedFields(document)
               C == Correct(candidate, document)
               S == SameTransform(candidate, document)
               U == UnmappedFields(candidate) \cap G
               E == Extra(candidate, document)
           IN  /\ Correct(fixed, document) = IF f \in G THEN C \cup {f} ELSE C
               /\ SameTransform(fixed, document) = IF f \in G THEN S \cup {f} ELSE S
               /\ UnmappedFields(fixed) \cap G = U \ {f}
               /\ Extra(fixed, document) = E \ {f}
<1> DEFINE fixed == Fixed(candidate, document, f)
           G == MappedFields(document)
           C == Correct(candidate, document)
           S == SameTransform(candidate, document)
           U == UnmappedFields(candidate) \cap G
           E == Extra(candidate, document)
<1>1. /\ Once(fixed)
      /\ \A g \in Fields :
           Said(fixed, g) = IF g = f THEN Said(document, f) ELSE Said(candidate, g)
  BY FixedOnce
<1> HIDE DEF fixed
<1>2. /\ MappedFields(fixed) = {g \in Fields : IsMapped(Said(fixed, g))}
      /\ MappedFields(candidate) = {g \in Fields : IsMapped(Said(candidate, g))}
      /\ MappedFields(document) = {g \in Fields : IsMapped(Said(document, g))}
      /\ UnmappedFields(fixed) = Fields \ MappedFields(fixed)
      /\ UnmappedFields(candidate) = Fields \ MappedFields(candidate)
      /\ UnmappedFields(document) = Fields \ MappedFields(document)
  <2>1. /\ MappedFields(fixed) = {g \in Fields : IsMapped(Said(fixed, g))}
        /\ UnmappedFields(fixed) = Fields \ MappedFields(fixed)
    BY <1>1, OnceFields
  <2>2. /\ MappedFields(candidate) = {g \in Fields : IsMapped(Said(candidate, g))}
        /\ UnmappedFields(candidate) = Fields \ MappedFields(candidate)
    BY OnceFields
  <2>3. /\ MappedFields(document) = {g \in Fields : IsMapped(Said(document, g))}
        /\ UnmappedFields(document) = Fields \ MappedFields(document)
    BY OnceFields
  <2> QED
    BY <2>1, <2>2, <2>3
<1>3. \A g \in Fields : g \in MappedFields(fixed) <=>
        IF g = f THEN f \in G ELSE g \in MappedFields(candidate)
  BY <1>1, <1>2
<1>4. UnmappedFields(fixed) \cap G = U \ {f}
  BY <1>2, <1>3
<1>5. Extra(fixed, document) = E \ {f}
  BY <1>2, <1>3 DEF Extra
<1>6. Correct(fixed, document) = IF f \in G THEN C \cup {f} ELSE C
  <2>1. Correct(fixed, document) =
          {g \in MappedFields(fixed) \cap G : Said(fixed, g).dst = Said(document, g).dst}
    BY <1>1, OnceCorrect
  <2>2. C = {g \in MappedFields(candidate) \cap G :
               Said(candidate, g).dst = Said(document, g).dst}
    BY OnceCorrect
  <2>3. G \subseteq Fields
    BY DEF MappedFields
  <2> HIDE DEF G, C
  <2>4. \A g \in G : g \in Correct(fixed, document) <=> g = f \/ g \in C
    BY <1>1, <1>3, <2>1, <2>2, <2>3
  <2>5. Correct(fixed, document) \subseteq G /\ C \subseteq G
    BY <2>1, <2>2
  <2> QED
    BY <2>4, <2>5
<1>7. SameTransform(fixed, document) = IF f \in G THEN S \cup {f} ELSE S
  <2>1. SameTransform(fixed, document) =
          {g \in Correct(fixed, document) :
             Said(fixed, g).transform = Said(document, g).transform}
    BY <1>1, OnceCorrect
  <2>2. S = {g \in C : Said(candidate, g).transform = Said(document, g).transform}
    BY OnceCorrect
  <2>3. C \subseteq G /\ G \subseteq Fields
    BY DEF Correct, MappedFields
  <2> HIDE DEF G, C, S
  <2>4. \A g \in Fields : g \in SameTransform(fixed, document) <=>
          (IF f \in G THEN g = f \/ g \in S ELSE g \in S)
    BY <1>1, <1>6, <2>1, <2>2, <2>3
  <2>5. SameTransform(fixed, document) \subseteq Fields /\ S \subseteq Fields
    BY <1>6, <2>1, <2>2, <2>3
  <2> QED
    BY <2>4, <2>5
<1> QED
  BY <1>4, <1>5, <1>6, <1>7 DEF fixed

\* The numbers the scores are taken of.
Due(document) == Cardinality(MappedFields(document))
Right(candidate, document) == Cardinality(Correct(candidate, document))
Alike(candidate, document) == Cardinality(SameTransform(candidate, document))
Missed(candidate, document) ==
    Cardinality(UnmappedFields(candidate) \cap MappedFields(document))
Added(candidate, document) == Cardinality(Extra(candidate, document))

LEMMA MarksOf ==
    ASSUME NEW candidate, NEW document
    PROVE  LET report == ScoreAgainstGolden(candidate, document)
               m == Due(document)
               c == Right(candidate, document)
               a == c + (Missed(candidate, document) + Added(candidate, document))
           IN  /\ report.accuracy = Ratio(c, m) /\ report.recall = Ratio(c, m)
               /\ report.precision = Ratio(c, a)
               /\ report.f1 = F1(Ratio(c, a), Ratio(c, m))
               /\ report.transforms = Ratio(Alike(candidate, document), c)
BY DEF ScoreAgainstGolden, Accuracy, Precision, FalsePositives, TransformAgreement,
   Due, Right, Alike, Missed, Added

\* How they change (x, z, v and y after c, s, u and e) as a field is given the mapping
\* of golden: one more is right, or one more has its transform, or one less is added, or
\* nothing changes.
Changed(m, c, s, u, e, x, z, v, y, wrong, other, extra) ==
    /\ m \in Nat /\ c \in Nat /\ s \in Nat /\ u \in Nat /\ e \in Nat
    /\ s <= c /\ c <= m
    /\ \/ wrong /\ ~ other /\ ~ extra /\ c < m /\ x = c + 1 /\ z = s + 1
          /\ (v = u \/ (u > 0 /\ v = u - 1)) /\ y = e
       \/ ~ wrong /\ other /\ ~ extra /\ s < c /\ x = c /\ z = s + 1 /\ v = u /\ y = e
       \/ ~ wrong /\ ~ other /\ extra /\ e > 0 /\ x = c /\ z = s /\ v = u /\ y = e - 1
       \/ ~ wrong /\ ~ other /\ ~ extra /\ x = c /\ z = s /\ v = u /\ y = e

LEMMA FixedNumbers ==
    ASSUME NEW candidate, Once(candidate), NEW document, Once(document), NEW f \in Fields
    PROVE  LET fixed == Fixed(candidate, document, f)
               c == Right(candidate, document)
               u == Missed(candidate, document)
               e == Added(candidate, document)
           IN  /\ Changed(Due(document), c, Alike(candidate, document), u, e,
                          Right(fixed, document), Alike(fixed, document),
                          Missed(fixed, document), Added(fixed, document),
                          f \in MappedFields(document) \ Correct(candidate, document),
                          f \in Correct(candidate, document) \ SameTransform(candidate, document),
                          f \in Extra(candidate, document))
               /\ Due(document) <= Cardinality(Fields)
               /\ c + u + e <= Cardinality(Fields)
               /\ Correct(candidate, document) # {} => c > 0
<1> DEFINE fixed == Fixed(candidate, document, f)
           M == MappedFields(candidate)
           G == MappedFields(document)
           C == Correct(candidate, document)
           S == SameTransform(candidate, document)
           U == UnmappedFields(candidate) \cap G
           E == Extra(candidate, document)
           m == Cardinality(G)
           c == Cardinality(C)
           s == Cardinality(S)
           u == Cardinality(U)
           e == Cardinality(E)
<1>1. Counts(M, G, C, U, E) /\ S \subseteq C
  <2>1. M \subseteq Fields /\ G \subseteq Fields /\ C \subseteq M \cap G /\ S \subseteq C
    BY DEF MappedFields, Correct, SameTransform
  <2>2. UnmappedFields(candidate) = Fields \ M
    BY OnceFields
  <2>3. UnmappedFields(document) = Fields \ G
    BY OnceFields
  <2> QED
    BY <2>1, <2>2, <2>3 DEF Counts, Extra
<1>2. /\ Correct(fixed, document) = IF f \in G THEN C \cup {f} ELSE C
      /\ SameTransform(fixed, document) = IF f \in G THEN S \cup {f} ELSE S
      /\ UnmappedFields(fixed) \cap G = U \ {f}
      /\ Extra(fixed, document) = E \ {f}
  BY FixedCounts
<1>3. /\ Due(document) = m /\ Right(candidate, document) = c /\ Alike(candidate, document) = s
      /\ Missed(candidate, document) = u /\ Added(candidate, document) = e
  BY DEF Due, Right, Alike, Missed, Added
<1>4. /\ Right(fixed, document) = Cardinality(IF f \in G THEN C \cup {f} ELSE C)
      /\ Alike(fixed, document) = Cardinality(IF f \in G THEN S \cup {f} ELSE S)
      /\ Missed(fixed, document) = Cardinality(U \ {f})
      /\ Added(fixed, document) = Cardinality(E \ {f})
  BY <1>2 DEF Right, Alike, Missed, Added
<1> HIDE DEF fixed, M, G, C, S, U, E
<1>5. /\ IsFiniteSet(C) /\ IsFiniteSet(U) /\ IsFiniteSet(E)
      /\ c \in Nat /\ m \in Nat /\ u \in Nat /\ e \in Nat
      /\ c <= m /\ (c = m <=> C = G)
      /\ m <= Cardinality(Fields)
      /\ c + u + e <= Cardinality(Fields)
  BY <1>1, Counted
<1>6. IsFiniteSet(S) /\ s \in Nat /\ s <= c /\ (s = c <=> S = C)
  <2>1. S \in SUBSET C
    BY <1>1
  <2> QED
    BY <1>5, <2>1, FS_Subset, FS_CardinalityType
<1>7. /\ Cardinality(C \cup {f}) = IF f \in C THEN c ELSE c + 1
      /\ Cardinality(S \cup {f}) = IF f \in S THEN s ELSE s + 1
      /\ Cardinality(U \ {f}) = IF f \in U THEN u - 1 ELSE u
      /\ Cardinality(E \ {f}) = IF f \in E THEN e - 1 ELSE e
  BY <1>5, <1>6, FS_AddElement, FS_RemoveElement
<1>8. (f \in U => u > 0) /\ (f \in E => e > 0) /\ (C # {} => c > 0)
  BY <1>5, FS_EmptySet
<1>9. /\ C \subseteq G /\ S \subseteq C /\ U \cap C = {} /\ E \cap G = {} /\ U \subseteq G
  BY <1>1 DEF Counts
<1> HIDE DEF c, m, s, u, e
<1> DEFINE wrong == f \in G \ C
           other == f \in C \ S
           extra == f \in E
<1>10. Changed(m, c, s, u, e, Right(fixed, document), Alike(fixed, document),
               Missed(fixed, document), Added(fixed, document), wrong, other, extra)
  <2>1. CASE wrong
    <3>1. /\ c < m /\ ~ other /\ ~ extra
          /\ Right(fixed, document) = c + 1 /\ Alike(fixed, document) = s + 1
          /\ Added(fixed, document) = e
          /\ Missed(fixed, document) = IF f \in U THEN u - 1 ELSE u
      BY <1>4, <1>5, <1>7, <1>9, <2>1
    <3> QED
      BY <1>5, <1>6, <1>8, <2>1, <3>1 DEF Changed
  <2>2. CASE other
    <3>1. /\ s < c /\ ~ wrong /\ ~ extra
          /\ Right(fixed, document) = c /\ Alike(fixed, document) = s + 1
          /\ Missed(fixed, document) = u /\ Added(fixed, document) = e
      BY <1>4, <1>5, <1>6, <1>7, <1>9, <2>2
    <3> QED
      BY <1>5, <1>6, <2>2, <3>1 DEF Changed
  <2>3. CASE extra
    <3>1. /\ ~ wrong /\ ~ other /\ e > 0
          /\ Right(fixed, document) = c /\ Alike(fixed, document) = s
          /\ Missed(fixed, document) = u /\ Added(fixed, document) = e - 1
      BY <1>4, <1>7, <1>8, <1>9, <2>3 DEF c, s
    <3> QED
      BY <1>5, <1>6, <2>3, <3>1 DEF Changed
  <2>4. CASE ~ wrong /\ ~ other /\ ~ extra
    <3>1. f \notin U /\ (f \in G => f \in C /\ f \in S)
      BY <1>9, <2>4
    <3>2. /\ Right(fixed, document) = c /\ Alike(fixed, document) = s
          /\ Missed(fixed, document) = u /\ Added(fixed, document) = e
      BY <1>4, <1>7, <2>4, <3>1 DEF c, s
    <3> QED
      BY <1>5, <1>6, <2>4, <3>2 DEF Changed
  <2> QED
    BY <2>1, <2>2, <2>3, <2>4
<1> QED
  BY <1>3, <1>5, <1>8, <1>10 DEF fixed, G, C, S, E

\* None of the scores falls.
LEMMA FixedNotWorse ==
    ASSUME NEW candidate, Once(candidate), NEW document, Once(document), NEW f \in Fields
    PROVE  LET before == ScoreAgainstGolden(candidate, document)
               after == ScoreAgainstGolden(Fixed(candidate, document, f), document)
           IN  \A score \in Marks : before[score] <= after[score]
<1> DEFINE fixed == Fixed(candidate, document, f)
           before == ScoreAgainstGolden(candidate, document)
           after == ScoreAgainstGolden(fixed, document)
           m == Due(document)
           c == Right(candidate, document)
           s == Alike(candidate, document)
           u == Missed(candidate, document)
           e == Added(candidate, document)
           x == Right(fixed, document)
           z == Alike(fixed, document)
           a == c + (u + e)
           b == x + (Missed(fixed, document) + Added(fixed, document))
<1>1. /\ m \in Nat /\ c \in Nat /\ s \in Nat /\ u \in Nat /\ e \in Nat
      /\ s <= c /\ c <= m
      /\ \/ c < m /\ x = c + 1 /\ z = s + 1 /\ (b = a + 1 \/ (b = a /\ u > 0))
         \/ x = c /\ z = s + 1 /\ b = a /\ s < c
         \/ x = c /\ z = s /\ b = a - 1 /\ e > 0
         \/ x = c /\ z = s /\ b = a
  <2> DEFINE v == Missed(fixed, document)
             y == Added(fixed, document)
             wrong == f \in MappedFields(document) \ Correct(candidate, document)
             other == f \in Correct(candidate, document) \ SameTransform(candidate, document)
             extra == f \in Extra(candidate, document)
  <2>1. Changed(m, c, s, u, e, x, z, v, y, wrong, other, extra)
    BY FixedNumbers
  <2> HIDE DEF v, y, m, c, s, u, e, x, z, wrong, other, extra
  <2> QED
    BY <2>1 DEF Changed, v, y
<1>2. /\ before.accuracy = Ratio(c, m) /\ before.recall = Ratio(c, m)
      /\ before.precision = Ratio(c, a) /\ before.f1 = F1(Ratio(c, a), Ratio(c, m))
      /\ before.transforms = Ratio(s, c)
  BY MarksOf
<1>3. /\ after.accuracy = Ratio(x, m) /\ after.recall = Ratio(x, m)
      /\ after.precision = Ratio(x, b) /\ after.f1 = F1(Ratio(x, b), Ratio(x, m))
      /\ after.transforms = Ratio(z, x)
  BY MarksOf
<1>4. c <= a /\ a \in Nat
  BY <1>1
<1>5. x \in Nat /\ z \in Nat /\ b \in Nat /\ x <= m /\ z <= x /\ x <= b
  BY <1>1
<1> HIDE DEF fixed, before, after, m, c, s, u, e, x, z, a, b
<1>6. Ratio(c, m) <= Ratio(x, m)
  <2>1. c * m <= x * m
    BY <1>1, <1>5, ProductsGrow
  <2>2. m = 0 => x = m
    BY <1>1, <1>5
  <2> QED
    BY <1>1, <1>5, <2>1, <2>2, PartMonotone
<1>7. Ratio(c, a) <= Ratio(x, b)
  <2>1. c * b <= x * a
    <3>1. CASE x = c + 1 /\ b = a + 1
      <4>1. c * (a + 1) = c * a + c /\ (c + 1) * a = c * a + a /\ c * a \in Int
        BY <1>1, <1>4
      <4> QED
        BY <1>1, <1>4, <3>1, <4>1
    <3>2. CASE c <= x /\ b <= a
      BY <1>1, <1>4, <1>5, <3>2, ProductsGrow
    <3> QED
      BY <1>1, <1>4, <3>1, <3>2
  <2>2. a = 0 => x = b
    BY <1>1, <1>4, <1>5 DEF a
  <2> QED
    BY <1>1, <1>4, <1>5, <2>1, <2>2, PartMonotone
<1>8. Ratio(s, c) <= Ratio(z, x)
  <2>1. s * x <= z * c
    <3>1. CASE x = c + 1 /\ z = s + 1
      <4>1. s * (c + 1) = s * c + s /\ (s + 1) * c = s * c + c /\ s * c \in Int
        BY <1>1
      <4> QED
        BY <1>1, <3>1, <4>1
    <3>2. CASE x = c /\ s <= z
      BY <1>1, <1>5, <3>2, ProductsGrow
    <3> QED
      BY <1>1, <3>1, <3>2
  <2>2. c = 0 => z = x
    BY <1>1
  <2> QED
    BY <1>1, <1>5, <2>1, <2>2, PartMonotone
<1>9. F1(Ratio(c, a), Ratio(c, m)) <= F1(Ratio(x, b), Ratio(x, m))
  <2>1. /\ Ratio(c, a) \in Nat /\ Ratio(c, m) \in Nat
        /\ Ratio(x, b) \in Nat /\ Ratio(x, m) \in Nat
    BY <1>1, <1>4, <1>5, RatioType
  <2> QED
    BY <1>6, <1>7, <2>1, F1Monotone
<1>10. \A score \in Marks : before[score] <= after[score]
  BY <1>2, <1>3, <1>6, <1>7, <1>8, <1>9 DEF Marks
<1> QED
  BY <1>10 DEF before, after, fixed

\* That it shows, one more or less of the numbers not being rounded away.
LEMMA FixedShows ==
    ASSUME NEW candidate, Once(candidate), NEW document, Once(document), NEW f \in Fields,
           Cardinality(Fields) <= 34
    PROVE  LET before == ScoreAgainstGolden(candidate, document)
               after == ScoreAgainstGolden(Fixed(candidate, document, f), document)
               right == Correct(candidate, document)
           IN  /\ f \in MappedFields(document) \ right => after.accuracy > before.accuracy
               /\ f \in right \ SameTransform(candidate, document) =>
                    after.transforms > before.transforms
               /\ f \in Extra(candidate, document) /\ right # {} =>
                    after.precision > before.precision
<1> DEFINE fixed == Fixed(candidate, document, f)
           before == ScoreAgainstGolden(candidate, document)
           after == ScoreAgainstGolden(fixed, document)
           m == Due(document)
           c == Right(candidate, document)
           s == Alike(candidate, document)
           u == Missed(candidate, document)
           e == Added(candidate, document)
           x == Right(fixed, document)
           z == Alike(fixed, document)
           a == c + (u + e)
           b == x + (Missed(fixed, document) + Added(fixed, document))
           wrong == f \in MappedFields(document) \ Correct(candidate, document)
           other == f \in Correct(candidate, document) \ SameTransform(candidate, document)
           extra == f \in Extra(candidate, document)
<1>1. Cardinality(Fields) \in Nat
  BY SchemaAssumption, FS_CardinalityType
<1>2. /\ m \in Nat /\ c \in Nat /\ s \in Nat /\ u \in Nat /\ e \in Nat
      /\ s <= c /\ c <= m /\ m <= 34 /\ a <= 34
      /\ Correct(candidate, document) # {} => c > 0
      /\ wrong => c < m /\ x = c + 1
      /\ other => s < c /\ x = c /\ z = s + 1
      /\ extra => x = c /\ b = a - 1 /\ e > 0
  <2> DEFINE v == Missed(fixed, document)
             y == Added(fixed, document)
  <2>1. /\ Changed(m, c, s, u, e, x, z, v, y, wrong, other, extra)
        /\ m <= Cardinality(Fields) /\ c + u + e <= Cardinality(Fields)
        /\ Correct(candidate, document) # {} => c > 0
    BY FixedNumbers
  <2> HIDE DEF v, y, m, c, s, u, e, x, z, wrong, other, extra
  <2> QED
    BY <1>1, <2>1 DEF Changed, v, y
<1>3. /\ before.accuracy = Ratio(c, m) /\ before.precision = Ratio(c, a)
      /\ before.transforms = Ratio(s, c)
  BY MarksOf
<1>4. /\ after.accuracy = Ratio(x, m) /\ after.precision = Ratio(x, b)
      /\ after.transforms = Ratio(z, x)
  BY MarksOf
<1>5. a \in Nat /\ c + e <= a
  BY <1>2
<1> HIDE DEF fixed, before, after, m, c, s, u, e, x, z, a, b
<1>6. wrong => after.accuracy > before.accuracy
  <2> SUFFICES ASSUME c < m PROVE Ratio(c, m) < Ratio(c + 1, m)
    BY <1>2, <1>3, <1>4, RatioType
  <2> QED
    BY <1>2, RatioOneMore
<1>7. other => after.transforms > before.transforms
  <2> SUFFICES ASSUME s < c PROVE Ratio(s, c) < Ratio(s + 1, c)
    BY <1>2, <1>3, <1>4, RatioType
  <2> QED
    BY <1>2, RatioOneMore
<1>8. extra /\ Correct(candidate, document) # {} => after.precision > before.precision
  <2> SUFFICES ASSUME c > 0, e > 0 PROVE Ratio(c, a) < Ratio(c, a - 1)
    BY <1>2, <1>3, <1>4, RatioType
  <2> QED
    BY <1>2, <1>5, RatioOneFewer
<1> QED
  BY <1>6, <1>7, <1>8 DEF before, after, fixed

-----------------------------------------------------------------------------
(* The score of an evaluation                                                *)

LEMMA ComparableOnce ==
    ASSUME EInv, Comparable
    PROVE  /\ Once(evaluation.candidate) /\ Once(golden)
           /\ evaluation.regression = ScoreAgainstGolden(evaluation.candidate, golden)
<1>1. evaluation.candidate \in Candidates /\ golden \in Goldens
  BY DEF EInv, TypeOK, Comparable
<1>2. /\ evaluation.candidate \in Document /\ Published(evaluation.candidate)
      /\ golden \in Document /\ Published(golden)
  BY <1>1, EvaluationAssumption
<1>3. evaluation.regression = ScoreAgainstGolden(evaluation.candidate, golden)
  BY DEF EInv, Scores, Comparable
<1> QED
  BY <1>2, <1>3, CheckedOnce DEF Comparable

\* Full marks can be trusted, an empty list of mismatches says so, and accuracy is
\* full if it is in each table, for documents of less than 2000 fields: of 2000,
\* one that is wrong is rounded away (metrics.py, 62-109).
THEOREM NothingSlipsThrough ==
    ASSUME Cardinality(Fields) < 2000
    PROVE  Spec => []NothingSlips
<1>1. EInv => NothingSlips
  <2> SUFFICES ASSUME EInv, Comparable
               PROVE  NothingSlips
    BY DEF NothingSlips
  <2> QED
    BY ComparableOnce, SlipsNot DEF NothingSlips
<1> QED
  BY <1>1, Inductive, PTL

\* To give a field the mapping golden has for it lowers no score, for any number of
\* fields, rounded as they are (metrics.py, 62-109).
THEOREM FixesLowerNothing == Spec => [](Comparable => \A f \in Fields : NoScoreFalls(f))
<1>1. EInv => (Comparable => \A f \in Fields : NoScoreFalls(f))
  <2> SUFFICES ASSUME EInv, Comparable, NEW f \in Fields
               PROVE  NoScoreFalls(f)
    OBVIOUS
  <2> QED
    BY ComparableOnce, FixedNotWorse DEF NoScoreFalls, Repaired, Fixed
<1> QED
  BY <1>1, Inductive, PTL

\* And it shows, whatever the other fields are, for documents of at most 34 fields: the
\* number the repository's own source schema has. With 35, precision may round away
\* that one field less is mapped which golden does not map (metrics.py, 62-109).
THEOREM FixesShow ==
    ASSUME Cardinality(Fields) <= 34
    PROVE  Spec => []FixShows
<1>1. EInv => FixShows
  <2> SUFFICES ASSUME EInv, Comparable, NEW f \in Fields
               PROVE  LET candidate == evaluation.candidate
                          before == evaluation.regression
                          after == Repaired(f)
                          right == Correct(candidate, golden)
                      IN  /\ NoScoreFalls(f)
                          /\ f \in MappedFields(golden) \ right =>
                               after.accuracy > before.accuracy
                          /\ f \in right \ SameTransform(candidate, golden) =>
                               after.transforms > before.transforms
                          /\ f \in Extra(candidate, golden) /\ right # {} =>
                               after.precision > before.precision
    BY DEF FixShows
  <2>1. NoScoreFalls(f)
    BY ComparableOnce, FixedNotWorse DEF NoScoreFalls, Repaired, Fixed
  <2> QED
    BY <2>1, ComparableOnce, FixedShows DEF Repaired, Fixed
<1> QED
  BY <1>1, Inductive, PTL

\* A document without problems scores full marks against itself, of any number of
\* fields: run_eval.py on the golden file reports no regression.
THEOREM GoldenAgainstItself ==
    ASSUME NEW doc \in Document, Published(doc), Problems(doc) = {}
    PROVE  LET report == ScoreAgainstGolden(doc, doc)
           IN  /\ FullMarks(report) /\ report.mismatches = {}
               /\ \A t \in Tables : report.perTable[t] = 1000
<1> DEFINE report == ScoreAgainstGolden(doc, doc)
           G == MappedFields(doc)
<1>1. Once(doc)
  BY CheckedOnce
<1>2. Correct(doc, doc) = G /\ SameTransform(doc, doc) = G
  BY <1>1, OnceCorrect
<1>3. UnmappedFields(doc) \cap G = {} /\ Extra(doc, doc) = {}
  BY <1>1, OnceFields DEF Extra
<1>4. \A n \in Nat : Ratio(n, n) = 1000
  BY RatioOfAll
<1>5. \A S \in SUBSET Fields : Cardinality(S) \in Nat
  BY SchemaAssumption, FS_Subset, FS_CardinalityType
<1>6. Ratio(Cardinality(G), Cardinality(G)) = 1000
  BY <1>4, <1>5 DEF MappedFields
<1>7. report.accuracy = 1000 /\ report.recall = 1000 /\ report.transforms = 1000
  BY <1>2, <1>6 DEF ScoreAgainstGolden, Accuracy, TransformAgreement
<1>8. Cardinality({}) = 0 /\ Cardinality(G) \in Nat
  BY <1>5, FS_EmptySet DEF MappedFields
<1>9. Precision(doc, doc) = 1000
  <2>1. FalsePositives(doc, doc) = 0
    <3>1. FalsePositives(doc, doc) = Cardinality({}) + Cardinality({})
      BY <1>3, Zenon DEF FalsePositives
    <3> QED
      BY <1>8, <3>1
  <2>2. Precision(doc, doc) = Ratio(Cardinality(G), Cardinality(G) + 0)
    BY <1>2, <2>1 DEF Precision
  <2>3. Cardinality(G) + 0 = Cardinality(G)
    BY <1>8
  <2> HIDE DEF G
  <2> QED
    BY <1>6, <2>2, <2>3
<1>10. F1(1000, 1000) = 1000
  BY DEF F1
<1>11. report.precision = 1000 /\ report.f1 = 1000
  BY <1>7, <1>9, <1>10 DEF ScoreAgainstGolden
<1>12. report.mismatches = {}
  BY <1>2, <1>3 DEF ScoreAgainstGolden, Mismatches
<1>13. \A t \in Tables : report.perTable[t] = 1000
  <2> SUFFICES ASSUME NEW t \in Tables PROVE report.perTable[t] = 1000
    OBVIOUS
  <2>1. Cardinality(G \cap FieldsOf(t)) \in Nat
    BY <1>5 DEF MappedFields
  <2> QED
    BY <1>2, <1>4, <2>1 DEF ScoreAgainstGolden, TableAccuracy
<1> HIDE DEF report
<1> QED
  BY <1>7, <1>11, <1>12, <1>13 DEF report, FullMarks, Marks
=============================================================================
