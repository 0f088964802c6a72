SPECIFICATION WorkSpec
CONSTANTS
  Letters = {m1, m2}
  SameBytes = FALSE
  MaxFetchFailures = 1
  MaxCacheStops = 1
  Callers = {w1, w2}
  Capacity = 2
  MaxRestarts = 1
  MaxCalls = 2
  MaxFaults = 2
  MaxTimeouts = 1
INVARIANTS OneOutstanding BodiesBacked
PROPERTIES RequestsAnswered 
CHECK_DEADLOCK FALSE
