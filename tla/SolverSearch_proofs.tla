--------------------------- MODULE SolverSearch_proofs ---------------------------
(***************************************************************************)
(* The sidecar's search for every request with finitely many participants, *)
(* whatever the limit does: an optimal answer is lexicographically best    *)
(* among all assignments the hard rules admit, and every answer is one of  *)
(* those that SolverSidecar promises to a solve run.                       *)
(***************************************************************************)
EXTENDS SolverSearch, FiniteSetTheorems, TLAPS

\* How many students an assignment leaves at a level.
Count(a, i) == CountAt(document, a, QualityLevels[i])

\* Whether two assignments do not differ before a level, or the first one wins there.
Same(a, b, n) == \A j \in 1..(n - 1) : Count(a, j) = Count(b, j)
Wins(a, b, n) == \E i \in 1..(n - 1) : Count(a, i) < Count(b, i) /\ Same(a, b, i)

\* What the constraints admit is never beaten at a level before the next one:
\* whatever equals it there is admitted as well.
Unbeaten(a) ==
    \A b \in Feasible(document) : (b \in optima /\ Same(a, b, level)) \/ Wins(a, b, level)

\* The answer as a solve run receives it: it is not told whether a search that
\* found an assignment had ended.
Outcome == IF response.status \in {"optimal", "feasible"} THEN "solved" ELSE response.status

\* Every response is an answer of SolverSidecar.
ResponsesAreAnswers ==
    response # NoResponse =>
        [status |-> Outcome, assignments |-> response.assignments] \in Answers(document)

\* The inductive invariant.
SearchInv ==
    /\ IsFiniteSet(Participants(document))
    /\ level \in 0..6
    /\ level < 6 => response = NoResponse
    /\ level \in 1..5 => /\ ~Diagnosed(document)
                         /\ optima \subseteq Feasible(document)
                         /\ \A a \in optima : Unbeaten(a)
    /\ level = 1 => optima = Feasible(document)
    /\ ResponsesAreAnswers
    /\ OptimaAreLexicographic

\* There are four levels of quality.
LEMMA FourLevels == DOMAIN QualityLevels = 1..4
BY DEF QualityLevels

\* The objective counts, so that of two assignments one is no worse.
LEMMA CountsAreNumbers ==
    ASSUME IsFiniteSet(Participants(document))
    PROVE  \A a, i : Count(a, i) \in Nat
<1> SUFFICES ASSUME NEW a, NEW i PROVE Count(a, i) \in Nat
  OBVIOUS
<1> DEFINE there == {s \in Participants(document) :
                       RealizedQuality(document, s, a[s]) = QualityLevels[i]}
<1>1. there \subseteq Participants(document)
  OBVIOUS
<1>2. IsFiniteSet(there)
  BY <1>1, FS_Subset
<1>3. QED
  BY <1>2, FS_CardinalityType DEF Count, CountAt

\* A request that is received is not answered yet.
LEMMA ReceivedKeepsInv ==
    ASSUME NEW request, IsFiniteSet(Participants(request)), Received(request)
    PROVE  SearchInv
<1>1. document = request /\ level = 0 /\ response = NoResponse
  BY DEF Received
<1>2. response.status = "none"
  BY <1>1 DEF NoResponse
<1>3. QED
  BY <1>1, <1>2 DEF SearchInv, ResponsesAreAnswers, OptimaAreLexicographic

\* The model admits what the hard rules admit.
LEMMA ModelKeepsInv ==
    ASSUME SearchInv, BuildModel
    PROVE  SearchInv'
<1>1. /\ level' = 1 /\ document' = document /\ response' = response
      /\ optima' = Feasible(document) /\ ~Diagnosed(document) /\ level = 0
  BY DEF BuildModel
<1>2. response = NoResponse /\ response.status = "none"
  BY <1>1 DEF SearchInv, NoResponse
<1>3. \A a \in optima' : Unbeaten(a)'
  BY <1>1 DEF Unbeaten, Same
<1>4. QED
  BY <1>1, <1>2, <1>3 DEF SearchInv, ResponsesAreAnswers, OptimaAreLexicographic

\* The optimum of a level joins those that were fixed before it.
LEMMA MinimumKeepsInv ==
    ASSUME SearchInv, Minimize
    PROVE  SearchInv'
<1>1. /\ level \in 1..4 /\ level' = level + 1
      /\ document' = document /\ response' = response
      /\ optima' = {a \in optima : \A b \in optima : Count(a, level) <= Count(b, level)}
  BY FourLevels DEF Minimize, Fix, Count
<1>2. response = NoResponse /\ response.status = "none"
  BY <1>1 DEF SearchInv, NoResponse
<1>3. \A a, i : Count(a, i) \in Nat /\ Count(a, i)' = Count(a, i)
  BY <1>1, CountsAreNumbers DEF SearchInv, Count
<1>4. \A a \in optima' : Unbeaten(a)'
  <2> SUFFICES ASSUME NEW a \in optima', NEW b \in Feasible(document)
               PROVE  \/ b \in optima' /\ Same(a, b, level + 1)
                      \/ Wins(a, b, level + 1)
    BY <1>1, <1>3 DEF Unbeaten, Same, Wins
  <2>1. CASE Wins(a, b, level)
    BY <1>1, <2>1 DEF Wins
  <2>2. CASE b \in optima /\ Same(a, b, level) /\ Count(a, level) < Count(b, level)
    BY <1>1, <2>2 DEF Wins
  <2>3. CASE b \in optima /\ Same(a, b, level) /\ Count(a, level) = Count(b, level)
    <3>1. b \in optima'
      BY <1>1, <2>3
    <3>2. Same(a, b, level + 1)
      BY <1>1, <2>3 DEF Same
    <3>3. QED
      BY <3>1, <3>2
  <2>4. Unbeaten(a) /\ a \in optima
    BY <1>1 DEF SearchInv
  <2>5. b \in optima => Count(a, level) <= Count(b, level)
    BY <1>1
  <2>6. QED
    BY <1>3, <2>1, <2>2, <2>3, <2>4, <2>5 DEF Unbeaten
<1>5. QED
  BY <1>1, <1>2, <1>4 DEF SearchInv, ResponsesAreAnswers, OptimaAreLexicographic

\* Whoever wins at a level is better, and is not beaten by the one it beats.
LEMMA WinnersAreBetter ==
    ASSUME IsFiniteSet(Participants(document)), NEW a, NEW b
    PROVE  /\ Wins(a, b, 5) => Better(a, b) /\ ~Better(b, a)
           /\ Same(a, b, 5) => ~Better(b, a)
<1>1. \A x, i : Count(x, i) \in Nat
  BY CountsAreNumbers
<1>2. \A x, y : Better(x, y) <=> \E i \in 1..4 : Count(x, i) < Count(y, i) /\ Same(x, y, i)
  BY FourLevels DEF Better, Same, Count
<1>3. ASSUME Same(a, b, 5) PROVE ~Better(b, a)
  BY <1>1, <1>2, <1>3 DEF Same
<1>4. ASSUME Wins(a, b, 5) PROVE Better(a, b) /\ ~Better(b, a)
  <2>1. PICK i \in 1..4 : Count(a, i) < Count(b, i) /\ Same(a, b, i)
    BY <1>4 DEF Wins
  <2>2. ASSUME NEW k \in 1..4, Count(b, k) < Count(a, k), Same(b, a, k) PROVE FALSE
    <3>1. CASE k < i
      BY <1>1, <2>1, <2>2, <3>1 DEF Same
    <3>2. CASE i < k
      BY <1>1, <2>1, <2>2, <3>2 DEF Same
    <3>3. CASE i = k
      BY <1>1, <2>1, <2>2, <3>3
    <3>4. QED
      BY <3>1, <3>2, <3>3
  <2>3. QED
    BY <1>2, <2>1, <2>2
<1>5. QED
  BY <1>3, <1>4

\* Stability decides among those that no quality tells apart.
LEMMA RetentionKeepsInv ==
    ASSUME SearchInv, Retain
    PROVE  SearchInv'
<1> PICK a \in optima :
        /\ \A b \in optima : Retained(document, b) <= Retained(document, a)
        /\ Respond("optimal", a, {})
  BY DEF Retain
<1>1. /\ level = 5 /\ level' = 6 /\ document' = document
      /\ response' = [status |-> "optimal", assignments |-> a, explanation |-> {}]
  BY DEF Retain, Respond
<1>2. response'.status = "optimal" /\ response'.assignments = a
  BY <1>1
<1>3. a \in Feasible(document) /\ Unbeaten(a) /\ ~Diagnosed(document)
  BY <1>1 DEF SearchInv
<1>4. ResponsesAreAnswers'
  BY <1>1, <1>2, <1>3 DEF ResponsesAreAnswers, Outcome, Answers
<1>5. \A b \in Feasible(document) :
        /\ ~Better(b, a)
        /\ Retained(document, b) > Retained(document, a) => Better(a, b)
  <2> SUFFICES ASSUME NEW b \in Feasible(document)
               PROVE  /\ ~Better(b, a)
                      /\ Retained(document, b) > Retained(document, a) => Better(a, b)
    OBVIOUS
  <2>1. (b \in optima /\ Same(a, b, 5)) \/ Wins(a, b, 5)
    BY <1>1, <1>3 DEF Unbeaten
  <2>2. CASE Wins(a, b, 5)
    BY <2>2, WinnersAreBetter DEF SearchInv
  <2>3. CASE b \in optima /\ Same(a, b, 5)
    <3>1. ~Better(b, a)
      BY <2>3, WinnersAreBetter DEF SearchInv
    <3>2. Retained(document, b) <= Retained(document, a)
      BY <2>3
    <3>3. Retained(document, a) \in Int /\ Retained(document, b) \in Int
      <4>1. \A x : IsFiniteSet({s \in Participants(document) \ DOMAIN document.pins :
                                   <<s, x[s]>> \in document.prior})
        BY FS_Subset DEF SearchInv
      <4>2. QED
        BY <4>1, FS_CardinalityType DEF Retained
    <3>4. QED
      BY <3>1, <3>2, <3>3
  <2>4. QED
    BY <2>1, <2>2, <2>3
<1>6. OptimaAreLexicographic'
  BY <1>1, <1>2, <1>5 DEF OptimaAreLexicographic, Better
<1>7. QED
  BY <1>1, <1>4, <1>6 DEF SearchInv

\* What is answered without an optimum is what the constraints admit, or nothing.
LEMMA OtherAnswersKeepInv ==
    ASSUME SearchInv, Reject \/ StopAtLimit \/ Explain
    PROVE  SearchInv'
<1>1. ASSUME NEW status, NEW assignments, NEW explanation,
             Respond(status, assignments, explanation), status # "optimal",
             [status |-> IF status = "feasible" THEN "solved" ELSE status,
              assignments |-> assignments] \in Answers(document)
      PROVE  SearchInv'
  <2>1. /\ level' = 6 /\ document' = document
        /\ response' = [status |-> status, assignments |-> assignments,
                        explanation |-> explanation]
    BY <1>1 DEF Respond
  <2>2. response'.status = status /\ response'.assignments = assignments
    BY <2>1
  <2>3. ResponsesAreAnswers'
    BY <1>1, <2>1, <2>2 DEF ResponsesAreAnswers, Outcome
  <2>4. OptimaAreLexicographic'
    BY <1>1, <2>2 DEF OptimaAreLexicographic
  <2>5. QED
    BY <2>1, <2>3, <2>4 DEF SearchInv
<1>2. CASE Reject
  <2>1. Diagnosed(document) /\ Respond("infeasible", NoAssignments, {})
    BY <1>2 DEF Reject
  <2>2. [status |-> "infeasible", assignments |-> NoAssignments] \in Answers(document)
    BY <2>1 DEF Answers
  <2>3. QED
    BY <1>1, <2>1, <2>2
<1>3. CASE StopAtLimit
  <2>1. level \in 1..5 /\ ~Diagnosed(document) /\ optima \subseteq Feasible(document)
    BY <1>3 DEF StopAtLimit, SearchInv
  <2>2. ASSUME NEW a \in optima, Respond("feasible", a, {}) PROVE SearchInv'
    <3>1. [status |-> "solved", assignments |-> a] \in Answers(document)
      BY <2>1 DEF Answers
    <3>2. QED
      BY <1>1, <2>2, <3>1
  <2>3. CASE Respond("unknown", NoAssignments, {})
    <3>1. [status |-> "unknown", assignments |-> NoAssignments] \in Answers(document)
      BY <2>1 DEF Answers
    <3>2. QED
      BY <1>1, <2>3, <3>1
  <2>4. QED
    BY <1>3, <2>2, <2>3 DEF StopAtLimit
<1>4. CASE Explain
  <2>1. /\ ~Diagnosed(document) /\ Feasible(document) = {}
        /\ Respond("infeasible", NoAssignments, Explanation(document))
    BY <1>4 DEF Explain, SearchInv
  <2>2. [status |-> "infeasible", assignments |-> NoAssignments] \in Answers(document)
    BY <2>1 DEF Answers
  <2>3. QED
    BY <1>1, <2>1, <2>2
<1>5. QED
  BY <1>2, <1>3, <1>4

\* Every step keeps the invariant.
LEMMA SearchStep == SearchInv /\ [SearchNext]_searchVars => SearchInv'
<1> SUFFICES ASSUME SearchInv, [SearchNext]_searchVars PROVE SearchInv'
  OBVIOUS
<1>1. CASE UNCHANGED searchVars
  BY <1>1 DEF searchVars, SearchInv, Unbeaten, Same, Wins, Count, ResponsesAreAnswers,
     Outcome, OptimaAreLexicographic, Better
<1>2. QED
  BY <1>1, ModelKeepsInv, MinimumKeepsInv, RetentionKeepsInv, OtherAnswersKeepInv
     DEF SearchNext

\* The search keeps its invariant, level after level (solve).
THEOREM SearchInvariant ==
    ASSUME NEW CONSTANT requests, \A req \in requests : IsFiniteSet(Participants(req))
    PROVE  SearchSpec(requests) => []SearchInv
<1>1. (\E request \in requests : Received(request)) => SearchInv
  BY ReceivedKeepsInv
<1>2. QED
  BY <1>1, SearchStep, PTL DEF SearchSpec

\* An optimal answer is beaten by no assignment the hard rules admit, and retains
\* what it can of the placements before among its equals (solve).
THEOREM OptimaAreBest ==
    ASSUME NEW CONSTANT requests, \A req \in requests : IsFiniteSet(Participants(req))
    PROVE  SearchSpec(requests) => []OptimaAreLexicographic
<1>1. SearchInv => OptimaAreLexicographic
  BY DEF SearchInv
<1>2. QED
  BY <1>1, SearchInvariant, PTL

\* The search answers as SolverSidecar promises to the solve runs: however it
\* chooses and wherever it stops, it is one of Answers (solve).
THEOREM SearchImplementsAnswers ==
    ASSUME NEW CONSTANT requests, \A req \in requests : IsFiniteSet(Participants(req))
    PROVE  SearchSpec(requests) => []ResponsesAreAnswers
<1>1. SearchInv => ResponsesAreAnswers
  BY DEF SearchInv
<1>2. QED
  BY <1>1, SearchInvariant, PTL
================================================================================
