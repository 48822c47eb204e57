SPECIFICATION Spec

INVARIANTS
    TypeOK
    CancellationStopsUnit
    RebootsOnlyBuilt
PROPERTIES
    StoppedOnlyWhenCancelled
    CancelledReturns

\* Provisioning ends.
CHECK_DEADLOCK FALSE
