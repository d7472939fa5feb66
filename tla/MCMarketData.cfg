SPECIFICATION Spec
CONSTANTS
  Callers = {a, b}
  a = a
  b = b
  Requests <- MCRequests
  Setups <- MCSetups
  Midnight = 1
  MaxNow = 1
  MinInterval = 1
  Jitters = {0, 1}
INVARIANTS CacheIsTransparent SourcesAreHonoured SlotsAreSpaced
PROPERTY RequestsEnd
