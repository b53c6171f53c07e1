\* Two transcripts, two formats under two names, one session, two calls at once;
\* a note and a saved search of up to three versions; two recordings to set up, by
\* a user who waits for each answer.
INIT DesktopInit
NEXT DesktopNext
CONSTANTS
  Docs = {a, b}
  Formats = {"txt", "srt"}
  MaxNames = 2
  MaxSessions = 1
  MaxCalls = 2
  MaxChanges = 1
  MaxFaults = 1
  None = None
  Notes = {n}
  Searches = {s}
  MaxVersion = 3
  Nothing = Nothing
  Speech = Speech
  Meeting = Meeting
  Retried = Retried
  Recordings = {Speech, Meeting}
  TracksOf <- MCTracksOf
  Jobs = {Retried}
  RecordingOf <- MCRecordingOf
  Profiles = {"balanced", "accuracy"}
  Methods = {"smallest"}
  MaxRequests = 2
  Patient = TRUE
  Unset = Unset
SYMMETRY AnyDoc
CONSTRAINTS Small OneList
CHECK_DEADLOCK FALSE
INVARIANTS ActsOnWhatIsShown RunsWhatWasReviewed
PROPERTIES PlaybackIsVerified ExportsAreWhole ReplacesWhatItLoaded
