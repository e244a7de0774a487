SPECIFICATION Spec
CONSTANTS
  Devices = {d1}
  Jobs = {j1, j2}
  None = None
  MaxKey = 2
  MaxStarted = 4
  PendingTtl = 1
  DecryptGrace = 1
  StaticGrace = 1
  BootGrace = 2
  MaxReplyAttempts = 1
  IrLearning = FALSE
SYMMETRY JobSymmetry
INVARIANTS
  ActiveIsProven
