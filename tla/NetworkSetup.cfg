CONSTANTS
    p1 = p1
    p2 = p2
    c1 = c1
    c2 = c2
    Procs = {p1, p2}
    Configs = {c1, c2}
    None = None

SPECIFICATION Spec

INVARIANTS
    TypeOK
PROPERTIES
    RulesReplacedSafely
    CancelledReturns
