SPECIFICATION MCBoardSpec
CONSTANTS
    s1 = s1
    s2 = s2
    Students <- MCStudents
    Offerings = {o1, o2}
    Unplaced = Unplaced
    Grade <- MCGrade
    Windows = {{1, 2}, {2}}
    Capacities = {1, 2}
    MaxRevision = 3
    Boards = {b1}
INVARIANTS
    NonParticipantsHoldNoPlacement
