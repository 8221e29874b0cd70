------------------------------ MODULE SolverSearch ------------------------------
(***************************************************************************)
(* How the sidecar comes to its answer (solve of solver/app/server.py): it *)
(* minimizes the number of students at each quality, worst quality first,  *)
(* and fixes each optimum before it goes on to the next; then it retains   *)
(* what it can of the placements before.  How a model without a solution   *)
(* is explained is a module of its own, SolverDiagnostics.                 *)
(*                                                                         *)
(* A request is that of SolverSidecar with                                 *)
(*     ballots      the ranked choices of each participant, or NoBallot    *)
(*     profiles     the rating of each area a participant has rated        *)
(*     areas        the interest area of each offering, or NoArea          *)
(*     highRankMax  the last rank of high quality                          *)
(*     prior        the placements <<student, offering>> before the solve  *)
(* and its identifiers are numbers, for both sides go through them in      *)
(* order.  Each call of the search may end at its deterministic limit,     *)
(* with an assignment or without; the seed chooses among equals.           *)
(***************************************************************************)
EXTENDS SolverSidecar

CONSTANTS
    NoBallot, NoArea,
    Explanation(_)      \* the diagnostics of a request that has no solution

VARIABLES
    document,           \* the request being solved
    level,              \* 0 received, 1 to 4 qualities, 5 stability, 6 answered
    optima,             \* the assignments the constraints added so far admit
    response

searchVars == <<document, level, optima, response>>

NoResponse == [status |-> "none", assignments |-> NoAssignments, explanation |-> {}]

-----------------------------------------------------------------------------
(* What the objective counts.                                              *)

\* realized_quality: a ballot governs, also for the classes it leaves open.
RealizedQuality(req, s, o) ==
    IF req.ballots[s] # NoBallot
    THEN IF o \notin DOMAIN req.ballots[s] THEN "neutral"
         ELSE LET choice == req.ballots[s][o]
              IN  CASE choice.response = "not_interested" -> "unwanted"
                    [] choice.response = "interested" -> "acceptable"
                    [] choice.rank = 1 -> "top"
                    [] choice.rank \in 2..req.highRankMax -> "high"
                    [] OTHER -> "acceptable"
    ELSE IF req.areas[o] \notin DOMAIN req.profiles[s] THEN "neutral"
    ELSE CASE req.profiles[s][req.areas[o]] = "very_interested" -> "high"
           [] req.profiles[s][req.areas[o]] = "interested" -> "acceptable"
           [] OTHER -> "unwanted"

QualityLevels == <<"unwanted", "neutral", "acceptable", "high">>

CountAt(req, a, quality) ==
    Cardinality({s \in Participants(req) : RealizedQuality(req, s, a[s]) = quality})

\* Pins are no choice to retain.
Retained(req, a) ==
    Cardinality({s \in Participants(req) \ DOMAIN req.pins : <<s, a[s]>> \in req.prior})

-----------------------------------------------------------------------------
(* solve.                                                                  *)

Received(request) ==
    /\ document = request
    /\ level = 0 /\ optima = {} /\ response = NoResponse

Respond(status, assignments, explanation) ==
    /\ response' = [status |-> status, assignments |-> assignments, explanation |-> explanation]
    /\ level' = 6 /\ optima' = {}
    /\ UNCHANGED document

\* Requests with stale constraints are answered without a search; their
\* diagnostics are those of SolverSidecar, left out of the response here.
Reject ==
    /\ level = 0 /\ Diagnosed(document)
    /\ Respond("infeasible", NoAssignments, {})

BuildModel ==
    /\ level = 0 /\ ~Diagnosed(document)
    /\ optima' = Feasible(document)
    /\ level' = 1
    /\ UNCHANGED <<document, response>>

\* Mutant of Fix: a later level may undo an earlier one.
FixNothing(i) == optima' = optima

\* Adds the optimum just found as a constraint for the levels to come.
Fix(i) ==
    LET count(a) == CountAt(document, a, QualityLevels[i])
    IN  optima' = {a \in optima : \A b \in optima : count(a) <= count(b)}

Minimize ==
    /\ level \in DOMAIN QualityLevels /\ optima # {}
    /\ Fix(level)
    /\ level' = level + 1
    /\ UNCHANGED <<document, response>>

Retain ==
    /\ level = 5 /\ optima # {}
    /\ \E a \in optima :
          /\ \A b \in optima : Retained(document, b) <= Retained(document, a)
          /\ Respond("optimal", a, {})

\* The limit ends a search that has found an assignment, or one that has not,
\* whatever an earlier search had found.
StopAtLimit ==
    /\ level \in 1..5
    /\ \/ \E a \in optima : Respond("feasible", a, {})
       \/ Respond("unknown", NoAssignments, {})

Explain ==
    /\ level = 1 /\ optima = {}
    /\ Respond("infeasible", NoAssignments, Explanation(document))

SearchNext == Reject \/ BuildModel \/ Minimize \/ Retain \/ StopAtLimit \/ Explain

SearchSpec(requests) == (\E request \in requests : Received(request)) /\ [][SearchNext]_searchVars

-----------------------------------------------------------------------------
(* Properties.                                                             *)

\* Fewer students at the first quality the two assignments differ in.
Better(a, b) ==
    \E i \in DOMAIN QualityLevels :
        /\ CountAt(document, a, QualityLevels[i]) < CountAt(document, b, QualityLevels[i])
        /\ \A j \in 1..(i - 1) :
               CountAt(document, a, QualityLevels[j]) = CountAt(document, b, QualityLevels[j])

\* The worst outcome comes first, each level at its optimum under those before
\* it, and stability decides only among equals (SPEC 17.4.2, 17.9): an optimal
\* answer is beaten by no assignment the hard rules admit.
OptimaAreLexicographic ==
    response.status = "optimal" =>
        \A a \in Feasible(document) :
            /\ ~Better(a, response.assignments)
            /\ Retained(document, a) > Retained(document, response.assignments) =>
                   Better(response.assignments, a)
=============================================================================
