SPECIFICATION SuiteSpec
CONSTANTS
  MaxWrites = 2
  MaxRuns = 2
  MaxDrops = 1
  EventCapacity = 1
  WireLimit = 2
  EarlyCommands = FALSE
  Readers = {r1, r2, r3}
  MAX_READ_CONNECTIONS = 2
  MAX_IDLE_READ_CONNECTIONS = 1
  MaxReads = 2
  Calls = {c1, c2}
  BREAKER_FAILURE_THRESHOLD = 2
  DEFAULT_MAX_ATTEMPTS = 1
  MaxProviderCalls = 4
  MaxDropped = 1
  Leases = {l1, l2}
  MaxIdleRounds = 2
  Mail = {1, 2, 3}
  RuleSets = {"a", "b"}
  BatchSize = 2
  RefusedMail = {2}
  MaxFailedTicks = 2
  Snoozable = {1}
  Untils = {1, 2}
  None = None
  NoKey = NoKey
  s1 = s1
  b1 = b1
  m1 = m1
  m2 = m2
  Ops <- LiveOps
  KindOf <- LiveKinds
  EntityOf <- LiveEntities
  DraftOf <- LiveDrafts
  Clients = {k1}
  Broken = {b1}
  BatchLimit = 2
  StopThreshold = 2
  MaxEdits = 0
  MaxRetries = 0
  MaxReplays = 0
  MaxCrashes = 1
INVARIANTS EnvelopeHolds SessionInStep
PROPERTIES ViewRefines QueuedReaderServed HalfOpenResolves LeaseServed  SnoozeSound NoWedge
CHECK_DEADLOCK FALSE
