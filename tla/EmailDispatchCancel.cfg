SPECIFICATION Spec
CONSTANTS
    e1 = e1
    e2 = e2
    w1 = w1
    w2 = w2
    c1 = c1
    Emails <- MCEmails
    Workers <- MCWorkers
    Cancellers <- MCCancellers
    ScheduledAt <- MCScheduledAt
    Horizon = 1
    MaxAttempts = 2
    BatchLimit = 2
    EmailEnabled = TRUE
    MaxLostReplies = 1
    MaxDbErrors = 1
    MaxCrashes = 1
PROPERTY OnlyPendingIsCancelled
CHECK_DEADLOCK FALSE
