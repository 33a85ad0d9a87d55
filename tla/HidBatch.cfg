SPECIFICATION Spec
CONSTANTS
  Tries = 2
  MaxActions = 2
  MaxDisturbances = 1
  Texts <- MCTexts
INVARIANTS LetsGo ButtonsAgree TypedInFull KeypadConfirmed
CHECK_DEADLOCK FALSE
