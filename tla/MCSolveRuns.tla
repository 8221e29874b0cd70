------------------------------ MODULE MCSolveRuns ------------------------------
(* Two students of different grades and two offerings.  Either one solve meets *)
(* every kind of edit, or two solves meet each other and the edits of a draft  *)
(* whose first student has left the program.                                   *)
(*                                                                             *)
(* Or the sidecar answers a request of its own: three students and two classes *)
(* with every mix of ballots and profiles, or three classes with every number  *)
(* of seats and every choice of exclusions, with a class of another grade and  *)
(* a pin or without.                                                           *)
EXTENDS SolveRuns, SolverDiagnostics

CONSTANTS s1, s2, o1, o2, k1, k2

VARIABLE part   \* "single" or "pair" of solves, or the "search" for one answer

MCStudents == {s1, s2}
MCOfferings == {o1, o2}
MCGrade == [s \in MCStudents |-> IF s = s1 THEN 1 ELSE 2]
MCSymmetry == Permutations({o1, o2}) \cup Permutations({k1, k2})

-----------------------------------------------------------------------------
Pupils == 1..3

\* A rank of top quality, one below the high ones, and an objection.
Choices == {[response |-> "ranked", rank |-> 1], [response |-> "ranked", rank |-> 3],
            [response |-> "not_interested", rank |-> 0]}

Ballots == {b \in UNION {[answered -> Choices] : answered \in SUBSET (1..2)} :
    \A o, p \in DOMAIN b : o # p /\ b[o].rank > 0 => b[o].rank # b[p].rank}

Signals ==
    {[ballot |-> b, profile |-> <<>>] : b \in Ballots} \cup
    {[ballot |-> NoBallot, profile |-> p] :
        p \in {<<>>} \cup [{1} -> {"very_interested", "not_interested"}]}

Pins == {<<>>, 1 :> 1}

\* A pin has the exceptions it needs, or none.
Exceptions(pins, seats, exclusions, excepted) ==
    [s \in DOMAIN pins |-> [r \in Rules |->
        CASE ~excepted -> 0
          [] r = "capacity" /\ seats[pins[s]] = 0 -> 1
          [] r = "exclusion" /\ <<s, pins[s]>> \in exclusions -> 1
          [] OTHER -> 0]]

Request(seats, late, pins, exclusions, excepted, signals, prior) ==
    [participants |-> [s \in Pupils |-> 1],
     offerings    |-> [o \in DOMAIN seats |->
                         [capacity |-> seats[o], window |-> IF o \in late THEN {2} ELSE {1}]],
     pins         |-> pins,
     exceptions   |-> Exceptions(pins, seats, exclusions, excepted),
     exclusions   |-> exclusions,
     ballots      |-> [s \in Pupils |-> signals[s].ballot],
     profiles     |-> [s \in Pupils |-> signals[s].profile],
     areas        |-> [o \in DOMAIN seats |-> IF o = 1 THEN 1 ELSE NoArea],
     highRankMax  |-> 2,
     prior        |-> prior]

Silent == [s \in Pupils |-> [ballot |-> NoBallot, profile |-> <<>>]]

ReceivedPreferences ==
    \E signals \in [Pupils -> Signals], pins \in Pins :
        Received(Request(<<1, 2>>, {}, pins, {}, TRUE, signals, {<<1, 2>>, <<2, 1>>, <<3, 1>>}))

ReceivedConstraints ==
    \E seats \in [1..3 -> 0..2], late \in {{}, {3}}, pins \in Pins,
       exclusions \in SUBSET (Pupils \X (1..3)), excepted \in BOOLEAN :
        Received(Request(seats, late, pins, exclusions, excepted, Silent, {}))

NothingReceived == document = NoArea /\ level = 0 /\ optima = {} /\ response = NoResponse

-----------------------------------------------------------------------------
MCInit ==
    /\ part \in {"single", "pair", "search"}
    /\ SolveInit
    /\ IF part = "search" THEN ReceivedPreferences \/ ReceivedConstraints ELSE NothingReceived

\* The other student is all that the two solves meet, with its placements and
\* the catalog; rosters and exclusions are left to the single solve.
OneStudent ==
    /\ member' \subseteq {s2}
    /\ exclusion' = {} /\ absent' = {} /\ declaring' = {}

MCNext ==
    /\ IF part = "search" THEN SearchNext \/ (level = 6 /\ UNCHANGED searchVars)
       ELSE UNCHANGED searchVars
    /\ CASE part = "single" -> SolveNext /\ \E k \in Solves : solve'[k] = Idle
         [] part = "pair"   -> SolveNext /\ OneStudent
         [] OTHER           -> UNCHANGED solveVars
    /\ UNCHANGED part

MCSpec == MCInit /\ [][MCNext]_<<solveVars, searchVars, part>>
================================================================================
