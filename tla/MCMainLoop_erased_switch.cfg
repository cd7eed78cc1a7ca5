\* The switch is pressed on a device whose EEPROM was never programmed, while a measure command arrives.
SPECIFICATION FairSpec
CONSTANTS
  MagicLen = 2
  ParamSize = 2
  MaxParam = 3
  MinTimer = 2
  ParamBytes = {2}
  LengthBytes = {2}
  Commands = {"m"}
  EepromContents <- MCErased
  PowerFails = FALSE
INVARIANT
  TableParamsInBounds
