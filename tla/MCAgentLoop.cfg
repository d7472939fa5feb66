SPECIFICATION LoopFairSpec
CONSTANTS
  None = None
  Goals = {g1, g2}
  Evidence = {e1}
  Criteria = {1}
  Sessions = {"s"}
  Turns = {"me"}
  SessionOf <- MCSessionOf
  Kinds = {"turns"}
  Budgets = {0}
  MaxUsed = 3
  Settable = {"cancelled"}
  Me = "me"
  Tools = {"read", "test", "note", "compact"}
  Readonly = {"read"}
  Repeatable = {"note"}
  GoalTool = "note"
  Backtest = "test"
  Background = "test"
  Responses <- MCResponses
  MaxIterations = 3
  GoalMaxContinuations = 2
  MaxFilterSkips = 2
  MaxRuns = 1
  MaxCompactions = 1
CHECK_DEADLOCK FALSE
INVARIANT TranscriptPairs
PROPERTIES RunKeepsItsLimits RunsEnd
