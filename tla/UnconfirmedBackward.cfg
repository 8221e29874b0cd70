SPECIFICATION SessionSpec
CHECK_DEADLOCK FALSE
CONSTANTS
    s1 = s1
    o1 = o1
    k1 = k1
    r1 = r1
    e1 = e1
    e2 = e2
    d1 = d1
    d2 = d2
    Unplaced = Unplaced
    Grade <- MCGrade
    Students = {}
    Offerings = {}
    Capacities = {1}
    Windows = {{1}}
    MaxRevision = 0
    Solves = {}
    Dates = {d1}
    RankDepths = {1, 2}
    MaxTime = 1
    Requests = {r1}
    Editors = {}
PROPERTIES
    UnconfirmedRequestsMoveForward
