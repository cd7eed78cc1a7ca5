\* The EEPROM was programmed before: what the main program guarantees then,
\* whatever lengths the host sends, right ones, wrong ones and 0.
SPECIFICATION Spec
CONSTANTS
  MagicLen = 2
  ParamSize = 2
  MaxParam = 4
  MinTimer = 2
  ParamBytes = {0, 2}
  LengthBytes = {0, 1, 2, 3, 4, 255}
  Commands = {"m", "e", "E", "a", "i", "r"}
  EepromContents <- MCProgrammed
  PowerFails = TRUE
INVARIANT
  TableParamsInBounds
PROPERTIES
  MeasureUsesOwnParams
  ImplementsDevice
