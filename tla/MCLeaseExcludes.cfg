CONSTANTS
    Agents = {a1, a2, a3}
    Asked = {a1, a2, a3}
    None = None
    Torn = Torn
    Signals = 2

SPECIFICATION Spec
SYMMETRY Symmetry

INVARIANT LeaseExcludes

CHECK_DEADLOCK FALSE
