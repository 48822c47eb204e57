CONSTANTS
    Procs = {p1}
    Ids = {i1}
    Gens = {g1}
    None = None
    ReadFaults = FALSE

SPECIFICATION Spec

INVARIANT RefusedNameDeletable

CHECK_DEADLOCK FALSE
