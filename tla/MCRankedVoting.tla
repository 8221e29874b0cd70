----------------------------- MODULE MCRankedVoting ------------------------------
(* A session from four sides: its lifecycle, with an empty roster, one class    *)
(* and one solve, edit and request in progress; its meeting dates; its voting,  *)
(* with two ballots of one student while the session, the catalog and the       *)
(* roster change; and a solve that reads what one ballot says while the catalog *)
(* changes.                                                                     *)
EXTENDS MCSessionLifecycle, RankedVoting

CONSTANTS o2

VARIABLE focus

MCInit ==
    /\ VotingInit
    /\ focus \in {"lifecycle", "dates", "voting", "reading"}
    /\ focus # "dates" => dates = {d1, d2}

MCSymmetry == Permutations({o1, o2}) \cup Permutations({d1, d2})

-----------------------------------------------------------------------------
(* Bounds beyond those of the constants.                                        *)

\* The student leaves the program first and does not come back.
NobodyVotes ==
    /\ member' = {} /\ ballots' = [b \in Ballots |-> NoBallot]
    /\ Cardinality(DOMAIN catalog' \cup retired') <= 1
    /\ \A o \in DOMAIN catalog' : catalog'[o].window = {1}

CatalogEditsOnly ==
    /\ dates' = dates
    /\ \A e \in Editors : editing'[e].kind # "dates"

NoSolve == \A k \in Solves : solve'[k] = Idle

NoRequests == \A r \in Requests : request'[r] = NoRequest

LifecycleAlone == NobodyVotes /\ CatalogEditsOnly

DatesAlone == NobodyVotes /\ NoRequests /\ NoSolve

\* The draft is never solved or edited, only the catalog is.
VotingAlone ==
    /\ CatalogEditsOnly /\ NoRequests /\ NoSolve
    /\ UNCHANGED <<revision, exclusion>>
    /\ state' \notin {"published", "complete"}

ReadingAlone ==
    /\ CatalogEditsOnly /\ NoRequests
    /\ UNCHANGED <<revision, exclusion>>
    /\ state' \notin {"published", "complete"}
    /\ member' = Students /\ absent' = {} /\ declaring' = {}
    /\ ballots'[2] = NoBallot
    /\ \A k \in Solves : solve'[k].phase # "assignments"

MCNext ==
    /\ VotingNext
    /\ CASE focus = "lifecycle" -> LifecycleAlone
         [] focus = "dates" -> DatesAlone
         [] focus = "voting" -> VotingAlone
         [] focus = "reading" -> ReadingAlone
    /\ UNCHANGED focus

MCSpec == MCInit /\ [][MCNext]_<<votingVars, focus>>
==================================================================================
