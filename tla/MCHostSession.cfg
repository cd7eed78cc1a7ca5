\* Any key, a frame, the cable or the device's power lost, or a signal.
\* The program ends where it exits or aborts.
SPECIFICATION SessionSpec
CHECK_DEADLOCK FALSE
CONSTANTS
  Durations <- MCDurations
  Keys = {"p", "m", "q", "a", "r", "E", "w", "+"}
  MaxKeys = 2
  Personalities <- MCPersonalities
  BeginsIn <- MCBeginsIn
  EepromTimers = {2}
  MaxMishaps = 1
INVARIANTS
  WaitsForWhatComes
  NothingReleasedTwice
  ParametersFit
  EarlyTableOnlyAtEnd
