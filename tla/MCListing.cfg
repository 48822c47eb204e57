\* A listing beside one process that runs commands one after the other
\* (commands exclude each other, see MCLifecycle), a name reused once. Reading an
\* intact record does not fail: otherwise a deletion that cannot load a ready
\* record leaves it ready over a deleted machine.
CONSTANTS
    Procs = {p1}
    Ids = {i1, i2}
    Gens = {g1, g2}
    None = None
    ReadFaults = FALSE
    Lists = {l1}

SPECIFICATION ListSpec
SYMMETRY Symmetry

INVARIANTS
    ListTypeOK
    InterruptedJustified
    ReadyIsComplete

\* As in MCLifecycle.
CHECK_DEADLOCK FALSE
