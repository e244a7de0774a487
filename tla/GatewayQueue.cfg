SPECIFICATION Spec
CONSTANTS
  Devices = {d1}
  Threads = {t1, t2}
  None = None
  Kinds <- MixedKinds
  MaxCommandsPerDevice = 2
  ProtocolTtl = 0
  ControlTtl = 1
  MaxCommands = 3
  MaxClock = 2
SYMMETRY ThreadSymmetry
INVARIANTS
  ServiceOrder
  Accounting
PROPERTIES
  DeliveredInOrder
  PlainCommandIsQueued
  AtMostOnce
  LossHasReason
  NoStalePop
CHECK_DEADLOCK FALSE
