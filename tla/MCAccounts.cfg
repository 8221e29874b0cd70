SPECIFICATION MCSpec
CHECK_DEADLOCK FALSE
CONSTANTS
    c1 = c1
    c2 = c2
    c3 = c3
    r1 = r1
    r2 = r2
    v1 = v1
    v2 = v2
    x1 = x1
    x2 = x2
    e1 = e1
    e2 = e2
    w1 = w1
    w2 = w2
    z1 = z1
    z2 = z2
    s1 = s1
    Codes = {c1, c2, c3}
    Requesters = {r1, r2}
    Attempters = {v1, v2}
    Contexts = {x1, x2}
    Limit = 1
    MaxAttempts = 2
    Validity = 2
    Window = 2
    MaxSessions = 2
    NoCode = NoCode
    Enrolments = {e1, e2}
    Verifications = {w1, w2}
    AdminSessionIds = {z1, z2}
    CodeNumbers = {1, 2}
    MaxGeneration = 3
    NoSession = NoSession
    Students = {s1}
    Areas = {x1, x2}
    QuestionSets = {{x1, x2}}
    Audiences = {{s1}}
    MaxTime = 2
    MaxAnswers = 2
    Workers = {w1, w2}
INVARIANTS
    AccountsTypeOK
    RequestLimitSlack
    GuessesStayBounded
    CodesSignInOnce
    SessionsProveTheSecretInForce
    CodesBelongToTheSecretInForce
    RecoveryCodesAreAcceptedOnce
    OpenedSurveysClose
    AnswersHaveProvenance
PROPERTIES
    RatingsAreKept
    RefusalsLapse
