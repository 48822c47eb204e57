\* Two files tell a mixture from a copy, two versions a replacement from the
\* original; a copier and two processes that replace the module under it, or
\* take turns with the lock while the third one waits.
CONSTANTS
    Procs = {p1, p2, p3}
    Files = {f1, f2}
    Versions = {v1, v2}
    None = None

SPECIFICATION Spec

INVARIANTS
    TypeOK
    PublishedWhole
    SnapshotWhole
PROPERTIES
    LeaseKeepsModule
    OperationsReturn
