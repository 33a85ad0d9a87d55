SPECIFICATION Spec
CONSTANTS
  Ids = {1, 2}
  NoId = NoId
  NoFile = NoFile
  Torn = Torn
  MaxSteps = 2
  MaxCrashes = 1
INVARIANTS FilesBelong StepsHaveTurns CardUsable MutexReturned
PROPERTIES KeepsStore
