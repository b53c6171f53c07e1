\* Models after an upgrade of the policy: ends with a counterexample.
INIT MCInit
NEXT MCNext
CONSTANTS
  Texts = {t1}
  Exports = {"txt"}
  Notes = {n1}
  Searches = {"s1"}
  Requests <- MCRequests
  MaxChanges = 0
  None = None
  Models = {small}
  Revisions = {"r1", "r2"}
  Policies <- MCPolicies
  MaxRelease = 2
  MaxFaults = 0
  NoModel = NoModel
CHECK_DEADLOCK FALSE
INVARIANTS StaysRemovable
