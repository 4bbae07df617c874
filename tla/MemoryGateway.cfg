SPECIFICATION Spec
CONSTANTS
    None = None
    Gateways = {g1, g2}
    Workflows = {w1, w2, w3}
    Incidents = {i, j}
    Targets = {order_api, inventory}
    PlaybookKeys <- MCPlaybookKeys
    MaxFaults = 2
SYMMETRY MCSymmetry
INVARIANTS
    TypeOK
    OneReceiptPerLife
    RecoversAsPlanned
CHECK_DEADLOCK FALSE
