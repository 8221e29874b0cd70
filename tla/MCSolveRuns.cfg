SPECIFICATION MCSpec
CONSTANTS
    s1 = s1
    s2 = s2
    o1 = o1
    o2 = o2
    k1 = k1
    k2 = k2
    Students <- MCStudents
    Offerings <- MCOfferings
    Unplaced = Unplaced
    Grade <- MCGrade
    Windows = {{2}}
    Capacities = {1}
    MaxRevision = 2
    Solves = {k1, k2}
    NoBallot = NoBallot
    NoArea = NoArea
    Explanation <- InfeasibilityDiagnostics
SYMMETRY MCSymmetry
INVARIANTS
    OptimaAreLexicographic
    InfeasibilityIsExplained
PROPERTIES
    SolvesAreAtomic
    AppliedRunsHonourExclusions
