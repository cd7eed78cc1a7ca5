\* The user polls, measures and quits; one thing goes wrong.
SPECIFICATION SessionFairSpec
CHECK_DEADLOCK FALSE
CONSTANTS
  Durations <- MCDurations
  Keys = {"p", "m", "q"}
  MaxKeys = 2
  Personalities <- MCGeiger
  BeginsIn <- MCReady
  EepromTimers = {100}
  MaxMishaps = 1
PROPERTIES
  FinalTableSaved
  PollingFollows
  ProgramEnds
