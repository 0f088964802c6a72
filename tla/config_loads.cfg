SPECIFICATION ConfigSpec
CONSTANTS
  CommandIds = {1}
  MaxConfigStops = 1
INVARIANTS ConfigAlwaysLoads
CHECK_DEADLOCK FALSE
