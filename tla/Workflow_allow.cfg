SPECIFICATION Spec
CONSTANTS
  Requests = {r1, r2}
  UseRedis = TRUE
  Reviewers = {alice, bob}
  Targets = {"order-api", "inventory-service"}
  Revisions = {"v0", "v1"}
  Rules = FALSE
  EvidenceEnough = TRUE
  Outcome = "recovered"
  KeepsCheckpoints = TRUE
  KeepsReceipts = TRUE
  DirectReviews = FALSE
  MaxCalls = 1
  MaxFaults = 0
  NoOwner = NoOwner
  None = None
  Diagnosis <- ReleasePlan
  LLMPlans <- ReleasePlanOnly
INVARIANTS
  RollbackNeedsApproval
CHECK_DEADLOCK FALSE
