SPECIFICATION ReviewSpec
CONSTANTS
    r1 = r1
    r2 = r2
    Gate = 70
    Threshold = 5
    MaxRetries = 1
    FallbackConfidence = 50
    Budgets <- MCBudgets
    NaN = NaN
    Confidences <- MCConfidences
    CrmAnswers <- MCCrmAnswers
    Reviewers <- MCReviewers
    ReviewChoices <- MCChoices
    MaxCrashes = 1
PROPERTY AgentDecisionIsNotOverruled
CHECK_DEADLOCK FALSE
