\* The same instance: a passage opened over another, and its player.
SPECIFICATION Spec
CONSTANTS
  Docs = {a, b}
  Formats = {"txt"}
  MaxNames = 2
  MaxSessions = 1
  MaxCalls = 2
  MaxChanges = 1
  MaxFaults = 1
  None = None
SYMMETRY AnyDoc
CHECK_DEADLOCK FALSE
INVARIANTS PlaysWhatIsShown
