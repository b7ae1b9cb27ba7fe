SPECIFICATION Spec
CONSTANTS
    Gate = 70
    Threshold = 5
    MaxRetries = 3
    FallbackConfidence = 50
    Budgets <- MCBudgets
    NaN = NaN
    Confidences <- MCConfidences
    CrmAnswers <- MCCrmAnswers
PROPERTY EveryRunIsRecorded
CHECK_DEADLOCK FALSE
