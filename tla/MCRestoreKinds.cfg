CONSTANTS
    n1 = n1
    n2 = n2
    n3 = n3
    TopName = {n1, n2}
    SubName = {n3}
SPECIFICATION Spec
SYMMETRY Symmetry
INVARIANT RestoresDirectories
CHECK_DEADLOCK FALSE
