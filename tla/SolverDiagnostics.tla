--------------------------- MODULE SolverDiagnostics ---------------------------
(***************************************************************************)
(* How the sidecar explains a model without a solution                     *)
(* (_infeasibility_diagnostics of solver/app/server.py): by the students   *)
(* no class admits, and by a matching of the others with the seats the     *)
(* pins have left, whose unmatched students each name a group that is      *)
(* short of seats.  The value of Explanation in SolverSearch.              *)
(*                                                                         *)
(* The recursive operators are those of the code, for TLC.                 *)
(***************************************************************************)
EXTENDS SolverSearch, TLC

Unpinned(req) == Participants(req) \ DOMAIN req.pins

Stranded(req) == {s \in Unpinned(req) : Eligible(req, s) = {}}

\* Mutant of RemainingSeats: pins take no seats.
EverySeat(req, o) == req.offerings[o].capacity

\* Pins take their seats first, and those beyond the capacity no other's.
RemainingSeats(req, o) ==
    LET pins == Cardinality(PinnedTo(req, o))
    IN  IF pins < req.offerings[o].capacity THEN req.offerings[o].capacity - pins ELSE 0

Slots(req, s) ==
    UNION {{o} \X (1..RemainingSeats(req, o)) : o \in Eligible(req, s)}

FirstSlot(slots) ==
    CHOOSE x \in slots : \A y \in slots : x[1] < y[1] \/ (x[1] = y[1] /\ x[2] <= y[2])

FirstStudent(students) == CHOOSE s \in students : \A t \in students : s <= t

\* assign: s takes the first of the slots left to try that is free or whose
\* owner finds another.  No slot is tried twice for one newcomer.
RECURSIVE Assign(_, _, _, _)
Assign(req, s, rest, match) ==
    LET untried == rest \ match.visited
        slot    == FirstSlot(untried)
        seen    == [match EXCEPT !.visited = @ \cup {slot}]
        owner   == match.owner[slot]
        moved   == IF slot \notin DOMAIN match.owner THEN [seen EXCEPT !.seated = TRUE]
                   ELSE Assign(req, owner, Slots(req, owner), seen)
    IN  IF untried = {} THEN [match EXCEPT !.seated = FALSE]
        ELSE IF moved.seated THEN [moved EXCEPT !.owner = (slot :> s) @@ @]
        ELSE Assign(req, s, rest \ {slot}, moved)

\* _maximum_capacity_matching: one student after the other, in order.
RECURSIVE Matched(_, _, _)
Matched(req, seekers, match) ==
    IF seekers = {} THEN match
    ELSE LET s == FirstStudent(seekers)
         IN  Matched(req, seekers \ {s},
                     Assign(req, s, Slots(req, s), [match EXCEPT !.visited = {}]))

Seekers(req) == Unpinned(req) \ Stranded(req)

SlotOwners(req) ==
    Matched(req, Seekers(req), [owner |-> <<>>, visited |-> {}, seated |-> FALSE]).owner

\* Those whose seats the students of a set could take, and theirs, and so on.
RECURSIVE Reached(_, _, _)
Reached(req, owner, students) ==
    LET more == students \cup
            {owner[slot] : slot \in DOMAIN owner \cap UNION {Slots(req, s) : s \in students}}
    IN  IF more = students THEN students ELSE Reached(req, owner, more)

Obstacle(code, s, offerings) ==
    [code |-> code, participants |-> {s}, offerings |-> offerings, required |-> 0, available |-> 0]

Obstacles(req, s) ==
    LET late     == {o \in DOMAIN req.offerings : ~InWindow(req, s, o)}
        excluded == {o \in DOMAIN req.offerings : Excluded(req, s, o)}
    IN  {Obstacle("no-eligible-offering", s, DOMAIN req.offerings)}
          \cup {Obstacle("grade-eligibility-obstacle", s, o) : o \in {late} \ {{}}}
          \cup {Obstacle("exclusion-obstacle", s, o) : o \in {excluded} \ {{}}}

\* The classes named are those with a seat left.
Shortage(req, students) ==
    LET slots == UNION {Slots(req, s) : s \in students}
    IN  [code |-> "capacity-shortage", participants |-> students,
         offerings |-> {slot[1] : slot \in slots},
         required |-> Cardinality(students), available |-> Cardinality(slots)]

InfeasibilityDiagnostics(req) ==
    LET owner     == SlotOwners(req)
        unmatched == Seekers(req) \ {owner[slot] : slot \in DOMAIN owner}
    IN  UNION {Obstacles(req, s) : s \in Stranded(req)}
          \cup {Shortage(req, Reached(req, owner, {s})) : s \in unmatched}

-----------------------------------------------------------------------------
(* Properties.                                                             *)

\* Whether everybody in a group gets a seat the pins have left.
Seatable(students) ==
    \E seat \in [students -> DOMAIN document.offerings] :
        /\ \A s \in students : seat[s] \in Eligible(document, s)
        /\ \A o \in DOMAIN document.offerings :
               Cardinality({s \in students : seat[s] = o}) <= RemainingSeats(document, o)

\* No bare infeasibility, and no misleading one (SPEC 17.10): whenever the model
\* has no solution something is reported, a group reported short of seats has
\* too few, and it is minimal: without any one of its members it has enough.
InfeasibilityIsExplained ==
    response.status = "infeasible" /\ ~Diagnosed(document) =>
        /\ response.explanation # {}
        /\ \A e \in response.explanation : e.code = "capacity-shortage" =>
              /\ ~Seatable(e.participants)
              /\ e.available < e.required
              /\ \A s \in e.participants : Seatable(e.participants \ {s})
================================================================================
