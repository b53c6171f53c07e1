\* A desktop job of three windows; the session may be closed by any of
\* three faults, the source edited and the engine upgraded between runs.
SPECIFICATION Spec
CONSTANTS
  N = 3
  Versions = {v1, v2}
  Sources = {s1, s2}
  MaxNames = 2
  MaxFaults = 3
  Normalize = TRUE
  Enhance = TRUE
  Interruptible = FALSE
  EditDuringRun = FALSE
  None = None
  Free = Free
  Reserved = Reserved
INVARIANTS
  TranscriptIntegrity
  AlwaysRestorable
  ProgressIsDurable
  NoAudioLeftBehind
  OnlyFaultsRepeat
PROPERTIES
  KeepsPromise
