SPECIFICATION FairSpec
CONSTANTS
    None = None
    Findings <- MCFindings
    PlannerAnswers <- MCPlannerAnswers
    MaxCalls = 2
    MaxFaults = 1
INVARIANTS
    TypeOK
    AuditNeverFailsTheRun
    OneVerdict
    EvidenceIsAudited
    FreshAnalysis
PROPERTIES
    ImplementsInvestigation
    EveryInvestigationEnds
CHECK_DEADLOCK FALSE
