\* The httpd task alone issues commands.
CONSTANTS
  Web = {web}
  Buttons = {}
  Sessions = {s1, s2}
  NoSession = NoSession
  MaxActions = 2
  MaxBatch = 1
SPECIFICATION Spec
INVARIANTS TypeOK GoalMatchesSession BudgetRespected
PROPERTIES StepsAdvance WorkIsDone KeepsPromise
