\* Seven bytes: three samples and a byte that holds none.
\* Counts wrap at four. Pulses may cease.
SPECIFICATION FairSpec
CONSTANTS
  TableBytes = 7
  ElementBytes = 2
  Base = 2
  Channels = 2
  Word = 4
  Timers = {0, 1, 3}
  Skips = {0, 1}
  MaxConversions = 6
INVARIANT
  InBounds
PROPERTIES
  FinalTableExact
  IntermediateIsClose
  MeasurementEnds
