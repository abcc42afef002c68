SPECIFICATION Spec
CONSTANTS
    x1 = x1
    x2 = x2
    d1 = d1
    d2 = d2
    f1 = f1
    f2 = f2
    Root = Root
    Outside = Outside
    Nowhere = Nowhere
    Name <- MCName
    DirNode <- MCDirNode
    FileNode <- MCFileNode
    MaxWatches = 5
    MaxEvents = 2
    UserMay <- PatientMoves
SYMMETRY Symmetry
INVARIANTS
    Converged
CHECK_DEADLOCK FALSE
