\* Refutes what cli.py:613 tells the user of an interrupted job.
SPECIFICATION Spec
CONSTANTS
  N = 2
  Versions = {v1}
  Sources = {s1}
  MaxNames = 2
  MaxFaults = 2
  Normalize = TRUE
  Enhance = TRUE
  Interruptible = TRUE
  EditDuringRun = FALSE
  None = None
  Free = Free
  Reserved = Reserved
INVARIANTS
  InterruptedKeepsWork
