SPECIFICATION DraftsSpec
CONSTANTS
  MaxBodies = 2
  MaxMishaps = 0
INVARIANTS PushedIsStored
CHECK_DEADLOCK FALSE
