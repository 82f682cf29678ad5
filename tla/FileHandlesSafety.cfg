SPECIFICATION Spec
CONSTANTS
    NumSlots = 2
    GenMod = 5
    c1 = c1
    c2 = c2
    c3 = c3
    Callers <- MCCallers
SYMMETRY Symmetry
INVARIANTS
    HandlesAreExact
