\* Two clients, at once or one after the other.
\* The emulator is idle when it is ready, and its program may end.
SPECIFICATION EmulatorFairSpec
CHECK_DEADLOCK FALSE
CONSTANTS
  MaxClients = 2
  Periods = {1}
  MaxCommands = 2
INVARIANT
  ClientsTakeTurns
PROPERTIES
  MeasurementEnds
  CommandIsAnswered
