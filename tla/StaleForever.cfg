SPECIFICATION SessionSpec
CONSTANTS
    s1 = s1
    o1 = o1
    k1 = k1
    r1 = r1
    e1 = e1
    e2 = e2
    d1 = d1
    d2 = d2
    Unplaced = Unplaced
    Grade <- MCGrade
    Students = {s1}
    Offerings = {o1}
    Capacities = {1}
    Windows = {{1}}
    MaxRevision = 1
    Solves = {k1}
    Dates = {d1}
    RankDepths = {1}
    MaxTime = 0
    Requests = {}
    Editors = {e1}
INVARIANTS
    RegeneratedDraftsAreNotStale
