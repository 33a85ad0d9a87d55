\* Two lives of the device, two profiles, a history of one or two entries.
CONSTANTS
  RetryLimit = 1
  Profiles = {laptop, phone}
  Default = laptop
  l1 = l1
  l2 = l2
  Lines = {l1, l2}
  Restates <- MCRestates
  MaxBytes = 2
  NoFile = NoFile
  NoText = NoText
  MaxTold = 3
  Configs <- MCConfigs
  DefaultLen = 2
  Budgets <- MCBudgets
SPECIFICATION Spec
INVARIANTS TypeOK NetworkTold HistoryKept ProfilesSound
PROPERTIES DeviceServes
CHECK_DEADLOCK FALSE
