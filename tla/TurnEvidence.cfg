CONSTANTS
    MaxIterations = 2
    MaxToolCalls = 3
    RepeatLimit = 2
    MaxBatch = 2
    MaxInterrupts = 1
    MaxEmitFailures = 1
    MaxEvidence = 3
    MaxMilestones = 1
    ViewRoom = 2
    Extracts <- MCExtracts
    Payloads <- MCPayloads
SPECIFICATION EFairSpec
CHECK_DEADLOCK FALSE
INVARIANTS
    CallsAnswered
    StopNeverCompletes
    SettledRecorded
    QuietAtEnd
    
PROPERTIES
    AnswerDecides
    StopLaunchesNothing
    TurnEnds
