SPECIFICATION FairSpec
CONSTANTS
  Requests = {r1, r2}
  UseRedis = TRUE
  Reviewers = {alice, bob}
  Targets = {"order-api"}
  Revisions = {"v1"}
  Rules = TRUE
  EvidenceEnough = TRUE
  Outcome = "recovered"
  KeepsCheckpoints = TRUE
  KeepsReceipts = TRUE
  DirectReviews = FALSE
  MaxCalls = 5
  MaxFaults = 0
  NoOwner = NoOwner
  None = None
  Diagnosis <- ReleasePlan
  LLMPlans = {}
PROPERTIES
  RejectionHolds
  ApprovalIsCarriedOut
  RunAnswerAgrees
CHECK_DEADLOCK FALSE
