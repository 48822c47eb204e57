\* Three agents: one that is asked to stop, one that opened the file before,
\* and one that comes after; any may die or end by itself. The channel of
\* run.go holds two signals.
CONSTANTS
    a1 = a1
    a2 = a2
    a3 = a3
    Agents = {a1, a2, a3}
    Asked = {a1}
    None = None
    Torn = Torn
    Signals = 2

SPECIFICATION Spec

INVARIANTS
    TypeOK
    LeaseNamesHolder
PROPERTIES
    RunningKeepsPath
    ShutdownHonoured

\* All agents may have ended.
CHECK_DEADLOCK FALSE
