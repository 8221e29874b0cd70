----------------------------- MODULE SolverSidecar -----------------------------
(***************************************************************************)
(* The solver sidecar as its callers see it: which request documents it    *)
(* rejects with diagnostics, and which assignments it may answer for the   *)
(* others.  The sidecar is stateless, so everything here is an operator on *)
(* a request:                                                              *)
(*     participants  grade ordinal of each participant                     *)
(*     offerings     capacity and grade window of each offering            *)
(*     pins          offering of each pinned student                       *)
(*     exceptions    number of exception rows per pinned student and rule  *)
(*     exclusions    set of <<student, offering>>                          *)
(* Preferences, and with them the order of the optimum, are left out: the  *)
(* answer is any assignment the hard constraints of the model admit.       *)
(***************************************************************************)
EXTENDS Naturals, FiniteSets

Participants(req) == DOMAIN req.participants

PinnedTo(req, o) == {s \in DOMAIN req.pins : req.pins[s] = o}

Authorized(req, s, r) == req.exceptions[s][r] > 0

InWindow(req, s, o) == req.participants[s] \in req.offerings[o].window

Excluded(req, s, o) == <<s, o>> \in req.exclusions

--------------------------------------------------------------------------------
(* _constraint_diagnostics: any diagnostic makes the answer infeasible.    *)

\* The snapshot retains constraints the roster or the catalog has left behind.
PinIsStale(req, s) ==
    s \notin Participants(req) \/ req.pins[s] \notin DOMAIN req.offerings

ExclusionIsStale(req, e) ==
    e[1] \notin Participants(req) \/ e[2] \notin DOMAIN req.offerings

\* An exception row must be there exactly when the pinned placement needs it.
PinIsMisjudged(req, s) ==
    \/ InWindow(req, s, req.pins[s]) = Authorized(req, s, "grade-window")
    \/ Excluded(req, s, req.pins[s]) # Authorized(req, s, "exclusion")

ExceptionIsDuplicated(req, s) ==
    \E r \in DOMAIN req.exceptions[s] : req.exceptions[s][r] > 1

\* Capacity exceptions are counted per offering: one for each pin beyond the
\* capacity, no fewer and no more.  Unpinned occupants do not count.
OverflowIsMisjudged(req, o) ==
    LET pins     == PinnedTo(req, o)
        capacity == req.offerings[o].capacity
        required == IF Cardinality(pins) > capacity THEN Cardinality(pins) - capacity ELSE 0
    IN  Cardinality({s \in pins : Authorized(req, s, "capacity")}) # required

Diagnosed(req) ==
    \/ \E s \in DOMAIN req.pins : PinIsStale(req, s)
    \/ \E e \in req.exclusions : ExclusionIsStale(req, e)
    \/ \E s \in DOMAIN req.pins : PinIsMisjudged(req, s) \/ ExceptionIsDuplicated(req, s)
    \/ \E o \in DOMAIN req.offerings : OverflowIsMisjudged(req, o)

--------------------------------------------------------------------------------
(* The constraint model of solve.                                          *)

\* A decision variable exists for the placements the hard rules, or the
\* exceptions of the student's own pin, allow.
Eligible(req, s) ==
    {o \in DOMAIN req.offerings :
        LET pinnedHere == s \in DOMAIN req.pins /\ req.pins[s] = o
        IN  /\ InWindow(req, s, o) \/ (pinnedHere /\ Authorized(req, s, "grade-window"))
            /\ ~Excluded(req, s, o) \/ (pinnedHere /\ Authorized(req, s, "exclusion"))}

\* Pins beyond the capacity raise the limit by themselves only.
Seats(req, o) ==
    LET pins == Cardinality(PinnedTo(req, o))
    IN  IF pins > req.offerings[o].capacity THEN pins ELSE req.offerings[o].capacity

Feasible(req) ==
    {a \in [Participants(req) -> DOMAIN req.offerings] :
        /\ \A s \in Participants(req) : a[s] \in Eligible(req, s)
        /\ \A o \in DOMAIN req.offerings :
               Cardinality({s \in Participants(req) : a[s] = o}) <= Seats(req, o)
        /\ \A s \in DOMAIN req.pins : a[s] = req.pins[s]}

NoAssignments == <<>>

\* The answers solve may give.  A search that stops at its deterministic limit
\* answers unknown, or the best assignment it has.
Answers(req) ==
    IF Diagnosed(req) THEN [status : {"infeasible"}, assignments : {NoAssignments}]
    ELSE [status : {"solved"}, assignments : Feasible(req)]
             \cup [status : {"unknown"}, assignments : {NoAssignments}]
             \cup [status : IF Feasible(req) = {} THEN {"infeasible"} ELSE {},
                   assignments : {NoAssignments}]

================================================================================
