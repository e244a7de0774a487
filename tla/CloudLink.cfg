SPECIFICATION Spec
CONSTANTS
  Crowds = {{"alarm", "actuator", "report"}, {"command", "report"}}
  MaxPackets = 2
INVARIANTS
  TypeOK
  NothingForgotten
  ExecutedOnce
  CarriedOutOnce
PROPERTIES
  PublishSubscribed
  TurnIsReturned
