\* The httpd task and the button task issue commands concurrently.
CONSTANTS
  Web = {web}
  Buttons = {button}
  Sessions = {s1}
  NoSession = NoSession
  MaxActions = 1
  MaxBatch = 1
SPECIFICATION Spec
INVARIANTS IdleIsQuiet FailBudget OneIterationPerStep
PROPERTY CommandsServed
