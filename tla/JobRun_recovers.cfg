\* Finitely many faults, Ctrl-C among them, and an owner who keeps pressing
\* Resume.
SPECIFICATION PersistentSpec
CONSTANTS
  N = 3
  Versions = {v1}
  Sources = {s1}
  MaxNames = 4
  MaxFaults = 3
  Normalize = TRUE
  Enhance = TRUE
  Interruptible = TRUE
  EditDuringRun = FALSE
  None = None
  Free = Free
  Reserved = Reserved
PROPERTIES
  EventuallyPublished
