\* A time series of two intervals: the counter is reloaded.
SPECIFICATION FairSpec
CONSTANTS
  TimerValues = {2, 257}
  Intervals = 2
  MaxTicks = 1
INVARIANT
  FinishedIsExact
PROPERTIES
  CallReturns
  LagsByTicks
