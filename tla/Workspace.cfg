SPECIFICATION Spec
CONSTANTS
    Procs = {p1, p2, p3}
    Spaces = {w1, w2}
PROPERTIES
    KeepsCustody
SYMMETRY Symmetry
CHECK_DEADLOCK FALSE
