SPECIFICATION MCSpec
CONSTANTS
    s1 = s1
    s2 = s2
    o1 = o1
    o2 = o2
    k1 = k1
    k2 = k2
    Students <- MCStudents
    Offerings <- MCOfferings
    Unplaced = Unplaced
    Grade <- MCGrade
    Windows = {{1, 2}}
    Capacities = {1, 2}
    MaxRevision = 1
    Solves = {k1, k2}
    NoBallot = NoBallot
    NoArea = NoArea
    Explanation <- InfeasibilityDiagnostics
PROPERTIES
    AppliedRunsObeyHardRules
