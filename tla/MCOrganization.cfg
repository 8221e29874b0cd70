SPECIFICATION MCSpec
CHECK_DEADLOCK FALSE
CONSTANTS
    Focuses = {"draft", "administrators", "year", "links", "visits", "onboarding", "mailboxes", "student", "students"}
    s1 = s1
    s2 = s2
    Unplaced = Unplaced
    page = page
    a1 = a1
    a2 = a2
    b1 = b1
    b2 = b2
    c1 = c1
    c2 = c2
    p1 = p1
    x1 = x1
    x2 = x2
    Nobody = Nobody
    Office = Office
    NoOnboarding = NoOnboarding
    NoContact = NoContact
    NoLink = NoLink
    NoDeparture = NoDeparture
    NoRequestMade = NoRequestMade
    NoInvitation = NoInvitation
    NoRow = NoRow
    DeletedMember = DeletedMember
    Grade <- MCGrade
    Students = {s1, s2}
    Offerings = {a1, a2}
    Windows = {{1, 2}, {2}}
    Capacities = {1}
    MaxRevision = 3
    Boards = {page}
    Accounts = {a1, a2, p1}
    Founders = {a1, a2}
    MemberIds = {a1, a2, b1, b2}
    Invitations = {c1, c2}
    OtherRoles = {"coordinator"}
    YearRequests = {a1, a2}
    Writers = {b1, b2}
    Links = {a1, a2}
    LinkEditors = {b1, b2}
    Visitors = {b1, b2}
    Sessions = {c1, c2}
    SessionRequests = 1
    SessionWindow = 1
    LastInstant = 2
    Mailboxes = {x1, x2}
    OnboardingIds = {a1, a2}
    InviteTokens = {b1, b2}
    Clients = {c1, c2}
    Guardians = {a1, a2}
    Pupils = {b1, b2}
    Departures = {c1, c2}
SYMMETRY PairSymmetry
INVARIANTS
    OfficeTypeOK
    OverridesSitOnPins
    ExclusionOverridesStand
    DraftNamesListedOfferings
    CurrentRevisionShowsTheDraft
    SerialAdministrationKeepsAnOwner
    PurgedYearsHoldNothing
    OneLinkIsActive
    SessionsPerLinkAreLimited
    TokensAreSpentOnce
    OneAdultIsEntered
    RosterFollowsConsent
    LastGuardianSettlesTheStudent
    MembershipsAreRetained
PROPERTIES
    NewPlacementsAreAccountedFor
    ConfirmedExclusionsWereShown
    ClaimsNeedALiveLink
    YearsFollowTheLifecycle
