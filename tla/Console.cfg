SPECIFICATION FairSpec
CONSTANTS
    None = None
    Incidents = {a, b}
    Flows = {f1, f2}
    MaxActions = 3
    MaxFaults = 2
INVARIANTS
    TypeOK
    PageIsOneIncident
PROPERTIES
    DecisionFitsPage
    RunButtonReturns
CHECK_DEADLOCK FALSE
