SPECIFICATION Spec
SYMMETRY MCTrees
CONSTANTS
    t1 = t1
    t2 = t2
    Owner <- MCOwner
    Tree <- MCTree
    Bin <- MCBin
    Folding <- MCFolding
    Name <- MCName
    Lower <- MCLower
    Unsafe <- MCUnsafe
    File <- MCFile
    Release <- MCRelease
    Nothing = Nothing
    Alien = Alien
    MaxInstalls = 3
    MaxEdits = 1
INVARIANT CommandsTracked
PROPERTY OthersUntouched
CHECK_DEADLOCK FALSE
