SPECIFICATION Spec
CONSTANTS
    NumSlots = 3
    TableSize = 4
    p1 = p1
    p2 = p2
    p3 = p3
    f1 = f1
    f2 = f2
    f3 = f3
    d1 = d1
    d2 = d2
    Places <- MCPlaces
    Files <- MCFiles
    Directories <- MCDirectories
    Root = Root
    None = None
SYMMETRY Symmetry
INVARIANTS
    ListedDirectoryStays
