SPECIFICATION Spec
CONSTANTS
  CeilingSets <- MCCeilings
  Templates <- MCTemplates
  Adjustments <- MCAdjustments
  Intents <- MCIntents
  Prices = {1}
  Calls = {1, 2}
  Proposals = {1}
  Commits = {1, 2}
  Flattens = {FALSE}
  Sentinels = {"global"}
  Lifetimes = {1}
  LedgerFails = {FALSE}
  MaxEvents = 1
CHECK_DEADLOCK FALSE
CONSTRAINT TwoAtATime
INVARIANT OrdersAreJustified
PROPERTIES KillSwitchWindow ExposureWithinCaps ImplementsContract
