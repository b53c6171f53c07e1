\* The pages as they are, the transcription set up by a user who does not wait.
INIT DesktopInit
NEXT DesktopNext
CONSTANTS
  Docs = {a, b}
  Formats = {"txt", "srt"}
  MaxNames = 2
  MaxSessions = 1
  MaxCalls = 2
  MaxChanges = 1
  MaxFaults = 1
  None = None
  Notes = {n}
  Searches = {s}
  MaxVersion = 3
  Nothing = Nothing
  Speech = Speech
  Meeting = Meeting
  Retried = Retried
  Recordings = {Speech, Meeting}
  TracksOf <- MCTracksOf
  Jobs = {Retried}
  RecordingOf <- MCRecordingOf
  Profiles = {"balanced", "accuracy"}
  Methods = {"smallest"}
  MaxRequests = 2
  Patient = FALSE
  Unset = Unset
SYMMETRY AnyDoc
CONSTRAINTS Small OneList
CHECK_DEADLOCK FALSE
INVARIANT RunsWhatWasReviewed
