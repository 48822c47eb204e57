\* Two listings that share the lock, and a command that may keep it for ever.
CONSTANTS
    Procs = {p1}
    Ids = {i1}
    Gens = {g1}
    None = None
    ReadFaults = FALSE
    Lists = {l1, l2}

SPECIFICATION ListSpec

PROPERTIES
    InFlightHasWriter
    ListReturns

\* As in MCLifecycle.
CHECK_DEADLOCK FALSE
