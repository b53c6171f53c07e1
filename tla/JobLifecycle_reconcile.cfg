\* One worker that completes while a client reconciles it.
CONSTANTS
  Workers = {w1}
  Clients = {c1}
  MaxLive = 1
  MaxLost = 0
  IncludeIncomplete = TRUE
  Nobody = Nobody
  Screen = Screen
SPECIFICATION Spec
PROPERTIES ReconcilesOnlyTheDead
\* A worker runs once, and a client may be left alone.
CHECK_DEADLOCK FALSE
