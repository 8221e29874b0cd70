SPECIFICATION MCSpec
CHECK_DEADLOCK FALSE
CONSTANTS
    s1 = s1
    o1 = o1
    o2 = o2
    k1 = k1
    r1 = r1
    e1 = e1
    e2 = e2
    d1 = d1
    d2 = d2
    Unplaced = Unplaced
    Grade <- MCGrade
    Students = {s1}
    Offerings = {o1, o2}
    Capacities = {1}
    Windows = {{1}, {2}}
    MaxBallots = 2
    Unread = Unread
    MaxRevision = 1
    Solves = {k1}
    Dates = {d1, d2}
    RankDepths = {1, 2}
    MaxTime = 1
    Requests = {r1}
    Editors = {e1}
INVARIANTS
    VotingTypeOK
    BallotsStayWithinTheDepth
    ChoicesNameListedOfferings
    PublishedDraftsAreCurrent
    OpenVotingHasABallot
SYMMETRY MCSymmetry
PROPERTIES
    VotingResumesOnlyByTransition
    BallotsFitTheSession
