SPECIFICATION Spec
CONSTANTS
  Configs <- TwoConfigs
  Execs <- OneExec
  MaxLegs = 2
  Traded <- FirstTwo
  Cancels <- FirstOrder
  Lossy = TRUE
  Prefixed = TRUE
CHECK_DEADLOCK FALSE
INVARIANTS
  OutcomesAreRecorded NothingInvented
PROPERTIES
  OutcomeArrives
