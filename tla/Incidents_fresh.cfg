SPECIFICATION Spec
CONSTANTS
  None = None
  cpu = cpu
  log = log
  alice = alice
  Items <- MCItems
  Reviewers <- MCReviewers
  Requests <- MCRequests
  Calls = {c1, c2}
  HasScenarioColumn = FALSE
  MaxFaults = 0
INVARIANTS
  FailsForAReason
