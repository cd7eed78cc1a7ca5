\* Any EEPROM content, any command byte, any length, any power failure: what
\* the main program guarantees regardless of its surroundings.
SPECIFICATION FairSpec
CONSTANTS
  MagicLen = 2
  ParamSize = 2
  MaxParam = 3
  MinTimer = 2
  ParamBytes = {0, 2}
  LengthBytes = {0, 1, 2, 5}
  Commands <- MCAllCommands
  EepromContents <- MCAnyEeprom
  PowerFails = TRUE
INVARIANTS
  InBounds
  SwitchLockedOutsideReady
PROPERTIES
  ImplementsFairDevice
  UartPolled
