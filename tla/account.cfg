SPECIFICATION AccountSpec
CONSTANTS
  MaxCycles = 4
  MaxGens = 4
  Objects = {1, 2, 3, 4}
  OldObjects = {1, 2, 3}
  QueryPage = 1
  DeltaPage = 1
  MaxServerSteps = 3
  MaxPulls = 2
  Uids = {1, 2, 3}
  FirstUids = {1, 2}
  MaxMailboxSteps = 2
  MaxEpochs = 2
  MaxImapCycles = 3
  Truncates = TRUE
  FallbackThreshold = 3
  TerminalAttempts = 3
  MaxChanges = 2
  Resolvers = {r1, r2}
  FlowIds = {1, 2, 3}
  FLOW_CAP = 2
  MaxIssued = 3
  CommandIds = {1, 2, 3}
  MaxConfigStops = 1
INVARIANTS SyncingIsReal DisabledIsShown CursorIsExact StatusSkipIsSound PushIsTrue
  GrantHolds SignInHolds ConfigSound
PROPERTIES LiveMailKept NoMassLoss
CHECK_DEADLOCK FALSE
