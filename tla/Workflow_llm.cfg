SPECIFICATION FairSpec
CONSTANTS
  Requests = {r1}
  UseRedis = TRUE
  Reviewers = {alice}
  Targets = {"order-api", "inventory-service"}
  Revisions = {"v0", "v1"}
  Rules = FALSE
  EvidenceEnough = TRUE
  Outcome = "recovered"
  KeepsCheckpoints = FALSE
  KeepsReceipts = FALSE
  DirectReviews = FALSE
  MaxCalls = 3
  MaxFaults = 2
  NoOwner = NoOwner
  None = None
  Diagnosis = None
  LLMPlans <- LLMAnswers
INVARIANTS
  TypeOK
  RecoveredWasRolledBack
PROPERTIES
  CallsRunDown
  EveryCallEnds
  LockIsFreed
CHECK_DEADLOCK FALSE
