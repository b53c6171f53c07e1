\* A job started, started again or resumed: two workers, one after the other as
\* the host has it, and one client at a time, as the bridge's lock has it.
CONSTANTS
  Workers = {w1, w2}
  Clients = {c1}
  MaxLive = 1
  MaxLost = 1
  IncludeIncomplete = TRUE
  Nobody = Nobody
  Screen = Screen
SPECIFICATION FairSpec
INVARIANTS CompletedIsPublished WorkspaceIsKept
PROPERTIES DiscardsWhatItShowed OrphansSettle
\* A worker runs once, and a client may be left alone.
CHECK_DEADLOCK FALSE
