SPECIFICATION Spec
CONSTANTS
  Tries = 2
  MaxActions = 2
  MaxDisturbances = 0
  Texts <- MCTexts
INVARIANT KeypadTypesDigits
CHECK_DEADLOCK FALSE
