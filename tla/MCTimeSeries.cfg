\* A table of seven bytes: three elements and a byte that holds none.
SPECIFICATION FairSpec
CONSTANTS
  TableBytes = 7
  Timer = 2
  Base = 2
INVARIANT
  InBounds
PROPERTIES
  TimeFitsTable
  FinalTableExact
  FileTellsTruth
  MeasurementEnds
