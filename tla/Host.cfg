\* Two tasks, two commands in flight, a crash and a second session; three windows
\* through the pool, two faults, Ctrl-C among them; two release sequences, one of
\* them issued twice, three versions, three days.
SPECIFICATION HostSpec
CONSTANTS
  Tasks = {t1, t2}
  MaxCalls = 2
  MaxSessions = 2
  Navigates = TRUE
  NoTask = NoTask
  N = 3
  MaxFaults = 2
  Interruptible = TRUE
  NoFuture = NoFuture
  Docs <- MCDocs
  Channels = {"stable", "beta"}
  Expected = "stable"
  MaxTime = 2
  MaxVersion = 3
  None = None
  Damaged = Damaged
\* The desktop may be closed for good.
CHECK_DEADLOCK FALSE
INVARIANTS OneSupervised VerdictsAreTrue
  InPlanOrder NothingLeft
PROPERTIES EndsAreNoticed LoopEnds KeepsTrust
