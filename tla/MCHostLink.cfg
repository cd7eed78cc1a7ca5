\* Two bytes at most are lost or corrupted, or frames cut short.
\* The program ends where it aborts.
SPECIFICATION LinkFairSpec
CHECK_DEADLOCK FALSE
CONSTANTS
  Magic <- MCMagic
  Base = 8
  ByteBits = 3
  AccuBits = 6
  Seed = 25
  Matches <- checksum_match
  ChecksumOf <- uart_send_checksum
  MaxErrors = 6
  Frames <- MCFrames
  Noise = {0, 1}
  MaxFaults = 2
INVARIANTS
  HandedIsSummed
  MemoryIsCounted
  IntactIsHanded
  CaughtAtEnd
PROPERTY
  Recovers
