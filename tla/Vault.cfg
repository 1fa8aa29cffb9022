SPECIFICATION Spec
CONSTANTS
  ann = ann
  secret = secret
  spoilt = spoilt
  None = None
  Scalars = {ann, secret, spoilt}
  Blobs = {b1, b2}
  Keys = {k1, k2}
  Apply <- ApplyUpdate
  Updates <- MCUpdates
  Fields = {"name"}
  Secret = secret
  FirstData <- MCData
  MaxChanges = 3
  MaxFaults = 2
SYMMETRY MCSymmetry
INVARIANTS
  NothingLost
  InStep
CHECK_DEADLOCK FALSE
