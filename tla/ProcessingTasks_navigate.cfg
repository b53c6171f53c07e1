\* The user opens another view while a task runs.
CONSTANTS
  Tasks = {t1}
  MaxCalls = 2
  MaxSessions = 1
  Navigates = TRUE
  NoTask = NoTask
SPECIFICATION Spec
INVARIANTS RunningIsOnTheCard
\* The desktop may be closed for good.
CHECK_DEADLOCK FALSE
