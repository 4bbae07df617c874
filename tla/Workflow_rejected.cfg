SPECIFICATION Spec
CONSTANTS
  Requests = {r1, r2}
  UseRedis = TRUE
  Reviewers = {alice, bob}
  Targets = {"order-api"}
  Revisions = {"v1"}
  Rules = TRUE
  EvidenceEnough = TRUE
  Outcome = "recovered"
  KeepsCheckpoints = TRUE
  KeepsReceipts = TRUE
  DirectReviews = FALSE
  MaxCalls = 3
  MaxFaults = 1
  NoOwner = NoOwner
  None = None
  Diagnosis <- ReleasePlan
  LLMPlans = {}
PROPERTIES
  RejectionHolds
CHECK_DEADLOCK FALSE
