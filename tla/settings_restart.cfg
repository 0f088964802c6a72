SPECIFICATION ConfigSpec
CONSTANTS
  CommandIds = {1}
  MaxConfigStops = 1
INVARIANTS SettingsSurviveRestart
CHECK_DEADLOCK FALSE
