SPECIFICATION FairSpec
CONSTANTS
  Devices = {d1}
  TlsClients = {c1, c2}
  First = c1
  None = None
  Scripts <- Streams
  MaxEvents = 2
  MaxKeepAlive = 2
  MaxRequest = 2
  MaxOpen = 2
  MaxReports = 3
INVARIANTS
  TypeOK
  StoppedIsStopped
  AnswersInOrder
  ReportsKept
PROPERTIES
  StopReturns
  ConnectionEnds
