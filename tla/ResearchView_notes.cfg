\* A note under an open editor: ends with a counterexample.
INIT ViewInit
NEXT ViewNext
CONSTANTS
  Notes = {n}
  Searches = {}
  MaxVersion = 3
  Nothing = Nothing
CHECK_DEADLOCK FALSE
PROPERTIES DraftsReplaceWhatTheyCameFrom
