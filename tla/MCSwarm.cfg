SPECIFICATION Spec
CONSTANTS
    N = 4
    DependsOn <- DeepDependsOn
    FileRank <- DeepFileRank
    MaxRetries = 1
    Faults = {"crash", "raise", "cancel"}
INVARIANTS ResultsAreGrounded RecoveryAgrees
PROPERTIES  RunsEnd
