SPECIFICATION WorkerSpec
CONSTANTS
    MaxIterations = 2
    MaxCalls = 1
    StreamRetries = 1
    MaxSkips = 2
    MaxNudges = 1
    MaxRetries = 1
    Texts <- MCTexts
INVARIANT CompletionsAreGrounded
INVARIANT AnswersAreHonest
PROPERTY WorkerEnds
