SPECIFICATION FairSpec
CONSTANTS
  None = None
  cpu = cpu
  log = log
  alice = alice
  Items <- MCItems
  Reviewers <- MCReviewers
  Requests <- MCRequests
  Calls = {c1, c2}
  HasScenarioColumn = TRUE
  MaxFaults = 1
INVARIANTS
  TypeOK
  EvidenceMatchesAnalysis
  ReviewedReplyHasApproval
  FailsForAReason
PROPERTIES
  EveryCallAnswered
  ImplementsMemoryStore
