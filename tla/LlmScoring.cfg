SPECIFICATION Spec
CONSTANTS
    m1 = m1
    m2 = m2
    j1 = j1
    j2 = j2
    Models <- MCModels
    Jobs <- MCJobs
    Earlier = Earlier
    NoBreaker = NoBreaker
    Chain <- MCChain
    LlmEnabled = {TRUE, FALSE}
    FailMax = 2
    MaxTries = 2
INVARIANTS
    TypeOK
    OpenIsEarned
    TripsInTime
    ConversationIsOwn
PROPERTIES
    ScoreSpec
    ScoringEnds
CHECK_DEADLOCK FALSE
