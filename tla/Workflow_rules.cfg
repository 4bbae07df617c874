SPECIFICATION Spec
CONSTANTS
  Requests = {r1, r2, r3}
  UseRedis = TRUE
  Reviewers = {alice, bob}
  Targets = {"order-api"}
  Revisions = {"v1"}
  Rules = TRUE
  EvidenceEnough = TRUE
  Outcome = "recovered"
  KeepsCheckpoints = TRUE
  KeepsReceipts = TRUE
  DirectReviews = TRUE
  MaxCalls = 4
  MaxFaults = 1
  NoOwner = NoOwner
  None = None
  Diagnosis <- ReleasePlan
  LLMPlans = {}
INVARIANTS
  ExecutorApproved
  ReceiptsAgree
  PausedIsVisible
  WaitingCanResume
  OneMorePerOverrun
  RecoveredWasRolledBack
PROPERTIES
  SuccessMeansRollback
CHECK_DEADLOCK FALSE
SYMMETRY PeopleSymmetry
