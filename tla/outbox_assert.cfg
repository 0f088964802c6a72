SPECIFICATION Spec
CONSTANTS
  None = None
  NoKey = NoKey
  s1 = s1
  w1 = w1
  w2 = w2
  a1 = a1
  a2 = a2
  d1 = d1
  c1 = c1
  c2 = c2
  m1 = m1
  k1 = k1
  Ops <- AssertOps
  KindOf <- AssertKinds
  EntityOf <- AssertEntities
  DraftOf <- AssertDrafts
  Clients = {c1, c2}
  BatchLimit = 2
  StopThreshold = 2
  MaxEdits = 0
  MaxRetries = 0
  MaxReplays = 0
  MaxCrashes = 1
SYMMETRY ClientSymmetry
INVARIANTS PushOwnsRow
