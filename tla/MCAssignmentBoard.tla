--------------------------- MODULE MCAssignmentBoard ---------------------------
(* Two students of different grades and two offerings with room for one of    *)
(* them: small enough to exhaust, large enough for swaps, over-full classes,  *)
(* closed grade windows and every combination of rules.  Either no board is   *)
(* open and the draft is edited up to MaxRevision, or one board meets the     *)
(* other editors, one edit fewer and no closed grade window.                  *)
EXTENDS AssignmentBoard

CONSTANTS s1, s2

VARIABLE open   \* whether the board is used

MCStudents == {s1, s2}
MCGrade == [s \in MCStudents |-> IF s = s1 THEN 1 ELSE 2]

MCBoardInit == BoardInit /\ open \in BOOLEAN

BoardBound ==
    /\ revision' < MaxRevision
    /\ \A o \in DOMAIN catalog' : catalog'[o].window = {1, 2}

MCBoardNext ==
    /\ BoardNext
    /\ IF open THEN BoardBound ELSE UNCHANGED boardVars
    /\ UNCHANGED open

MCBoardSpec == MCBoardInit /\ [][MCBoardNext]_<<allVars, open>>
================================================================================
