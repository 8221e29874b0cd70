SPECIFICATION SurveySpec
CONSTANTS
    s1 = s1
    a1 = a1
    a2 = a2
    w1 = w1
    w2 = w2
    Students = {s1}
    Areas = {a1, a2}
    QuestionSets = {{a1}, {a1, a2}}
    Audiences = {{s1}}
    MaxTime = 2
    MaxAnswers = 0
    Workers = {w1, w2}
PROPERTIES
    DefinitionsLockWhenOpened
