CONSTANTS
    MaxMessages = 3
    PicksEach = 2
    Workers = 2
    Filled <- FilledLater
SPECIFICATION Spec
INVARIANTS ApprovalsGovern CalmUserIsUnderstood
PROPERTY MessagesAnswered
CHECK_DEADLOCK FALSE
