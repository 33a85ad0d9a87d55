\* The httpd task alone: is every stop and emergency unwound to IDLE?
CONSTANTS
  Web = {web}
  Buttons = {}
  Sessions = {s1}
  NoSession = NoSession
  MaxActions = 1
  MaxBatch = 0
SPECIFICATION Spec
PROPERTIES StopUnwinds
