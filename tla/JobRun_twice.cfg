\* Refutes that a job publishes one transcript.
SPECIFICATION Spec
CONSTANTS
  N = 2
  Versions = {v1}
  Sources = {s1}
  MaxNames = 2
  MaxFaults = 2
  Normalize = TRUE
  Enhance = TRUE
  Interruptible = FALSE
  EditDuringRun = FALSE
  None = None
  Free = Free
  Reserved = Reserved
INVARIANTS
  OneTranscriptPerJob
