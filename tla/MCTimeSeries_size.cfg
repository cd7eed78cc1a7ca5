\* An interval ends while an intermediate table is being sent.
SPECIFICATION FairSpec
CONSTANTS
  TableBytes = 5
  Timer = 2
  Base = 2
PROPERTY
  AnnouncedIsSent
