\* A buffer of four seconds; seconds without pulses and with many.
SPECIFICATION DisplayFairSpec
CHECK_DEADLOCK FALSE
CONSTANTS
  NumMax = 4
  NumShort = 2
  NumHigh = 3
  LowHigh = 10500
  HighLow = 7000
  Base = 8
  Counts = {0, 30}
  MaxTicks = 1
INVARIANTS
  SumsAreOfNewest
  ForgetsBeforeChange
  NumbersHold
  ScreenShows
PROPERTIES
  ShowsTheNewest
  ToneEnds
