SPECIFICATION Spec
CONSTANTS
    None = None
    Incidents = {a, b}
    Flows = {f1}
    MaxActions = 3
    MaxFaults = 0
PROPERTY
    DecidesWhatWaits
CHECK_DEADLOCK FALSE
