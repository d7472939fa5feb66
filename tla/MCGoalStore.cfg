SPECIFICATION GoalSpec
CONSTANTS
  None = None
  Goals = {g1, g2}
  Evidence = {e1}
  Criteria = {1}
  Sessions = {s}
  Turns = {t1, t2}
  SessionOf <- MCSessionOf
  Kinds = {"turns"}
  Budgets = {0, 1}
  MaxUsed = 1
  Settable = {"active", "cancelled"}
SYMMETRY Symmetric
CHECK_DEADLOCK FALSE
INVARIANT LedgerIsSound
PROPERTY EndedGoalsAreFrozen
