CONSTANTS
    MaxAttempts = 5
    MaxCalls = 2
    MaxFragments = 5
SPECIFICATION Spec
CHECK_DEADLOCK FALSE
INVARIANTS
    ShownOnce
    AnswerExact
