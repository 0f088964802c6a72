SPECIFICATION MailSpec
CONSTANTS
  MaxAsserts = 2
  MaxCycles = 2
  MaxRemote = 1
  MaxStops = 1
  MaxBodies = 3
  MaxMishaps = 1
  Tags = {"t1"}
  Mailboxes = {"b1", "b2"}
  MaxOps = 3
  Assertions <- MailAssertions
  MaxTrial = 3
  Windows = {w1, w2}
  Keywords = {k1}
  Boxes = {b1, b2}
  MaxRevLogHistory = 2
  MaxRevSteps = 2
  Stored = {1, 2, 3}
  FirstThread = {1, 2}
  Upgraded = FALSE
  Listed = {1, 2, 3, 4}
  DateOf <- MailDates
  ConvOf <- MailConversations
  PageLimit = 1
  MaxMoves = 2
  SmartIds = {1}
  QueryWords = {"w", "v", "yes", "no"}
  MaxDepth = 3
  MailRules <- SampleRules
  MailTexts <- SampleTexts
  MailSamples <- SampleMail
  NewWords = {n1}
  MaxOpenStops = 2
INVARIANTS ServedIsReplay DestroyedStaysHidden   AssertionAlgebra
   DerivedExact WalkSeesAll SearchIsBoolean UserWordsSurvive
CHECK_DEADLOCK FALSE
