\* Two generations, one export, two notes, one saved search, three changes;
\* two models of two revisions, two upgrades, one change of the cache.
INIT MCInit
NEXT MCNext
CONSTANTS
  Texts = {t1, t2}
  Exports = {"txt"}
  Notes = {n1, n2}
  Searches = {"s1"}
  Requests <- MCRequests
  MaxChanges = 3
  None = None
  Models = {small, tiny}
  Revisions = {"r1", "r2"}
  Policies <- MCPolicies
  MaxRelease = 2
  MaxFaults = 1
  NoModel = NoModel
SYMMETRY Alike
CHECK_DEADLOCK FALSE
PROPERTIES OnlyWhatWasReviewed HumanStateLast RunsWhatWasAdmitted ReceiptsAreEarned
