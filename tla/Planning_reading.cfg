\* Two words in the wrong order, within the tolerance, make a span that is refused.
INIT PlanningInit
NEXT PlanningNext
CONSTANTS
  Machines <- MCMachines
  Sources <- MCSources
  Strategies <- MCStrategies
  Profiles = {"screening", "balanced", "accuracy"}
  CpuLimit = 4
  MemoryLimit = 60
  MinimumFree = 1
  MaxChanges = 3
  None = None
  Lengths = {3}
  Skews <- MCSkews
  Span = 2
  Tolerance = 1
  Raw <- MCRaw
  Turns <- MCTurns
  MaxHeard = 2
  TargetWords = 2
  MaxWords = 3
  Nobody = Nobody
  Texts <- MCTexts
  MaxSegments = 2
  Letters = {"a", "b"}
  Tongues = {"de", "en"}
  Unclear = Unclear
  Documents = {"d1", "d2"}
  Transcripts <- MCTranscripts
  Queries <- MCQueries
  RrfK = 60
  Multiplier = 2
  MinCandidates = 2
  MaxCandidates = 3
  Context = 1
  NoRank = NoRank
  Recordings <- MCRecordings
  Blocks = 2
  MaxEdits = 2
  Nothing = Nothing
CONSTRAINT FewSegments
CHECK_DEADLOCK FALSE
INVARIANT PublishedIsReadable
