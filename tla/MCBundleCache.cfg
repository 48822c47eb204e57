SPECIFICATION Spec
CONSTANTS
    p1 = p1
    p2 = p2
    f1 = f1
    f2 = f2
    f3 = f3
    f4 = f4
    a = a
    b = b
    Procs = {p1, p2}
    Inodes = {f1, f2, f3, f4}
    Texts = {a, b}
    Archive = a
    None = None
    Torn = Torn
    Foreign = Foreign

INVARIANTS
    HandedWhole
    SuccessIsDurable
PROPERTIES
    ImplementsRegister
SYMMETRY Symmetry
