SPECIFICATION Spec
CONSTANTS
  Devices = {d1}
  Jobs = {j1, j2, j3}
  None = None
  MaxKey = 2
  MaxStarted = 3
  PendingTtl = 1
  DecryptGrace = 1
  StaticGrace = 1
  BootGrace = 2
  MaxReplyAttempts = 2
  IrLearning = TRUE
SYMMETRY JobSymmetry
INVARIANTS
  EstablishedIsInstalled
  AnsweredBeforePending
  TopicIsReleased
PROPERTIES
  ReplyIsRetried
  GraceKept
  KeysInTwoPhases
