CONSTANTS
    p1 = p1
    p2 = p2
    v1 = v1
    v2 = v2
    Procs = {p1, p2}
    VMs = {v1, v2}
    Shared = {v1, v2}
    None = None

SPECIFICATION Spec

INVARIANTS
    TypeOK
    HelperServes
PROPERTIES
    CancelledReturns
