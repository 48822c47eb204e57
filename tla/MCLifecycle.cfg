\* Two commands in competition, a name reused once, and enough generations
\* for failed updates to pile up: mounted, recorded and new.
CONSTANTS
    Procs = {p1, p2}
    Ids = {i1, i2}
    Gens = {g1, g2, g3}
    None = None
    ReadFaults = TRUE

SPECIFICATION Spec
SYMMETRY Symmetry

INVARIANTS
    TypeOK
    MachineInputsKept
    SavedGenerationKept
    BackendOwned
    HomeAccounted
PROPERTIES
    HomeRemovalRequested
    ImplementsOwnership

\* A crash can leave a state directory without an identity, and then no
\* command on the name can proceed.
CHECK_DEADLOCK FALSE
