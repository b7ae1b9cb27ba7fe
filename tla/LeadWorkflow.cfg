SPECIFICATION Spec
CONSTANTS
    Gate = 70
    Threshold = 5
    MaxRetries = 3
    FallbackConfidence = 50
    Budgets <- MCBudgets
    NaN = NaN
    Confidences <- MCConfidences
    CrmAnswers <- MCCrmAnswers
INVARIANTS
    TypeOK
    AutonomyIsGated
    NoContactNoProcessing
    EscalationIsJustified
    StepsAreBounded
    PriorityOnlyTightens
    OverridesAreAudited
    RowsTellTheRun
    UnassignedOnlyWithoutContact
PROPERTY WorkflowEnds
CHECK_DEADLOCK FALSE
