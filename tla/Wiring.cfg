CONSTANTS
    Processes = {p1, p2}
    MaxStarts = 3
    Ids = {x, y}
    NoApp = NoApp
SPECIFICATION Spec
INVARIANTS
    IInv
    WrittenIsFound
    SessionsAreLocal
SYMMETRY Symmetry
CHECK_DEADLOCK FALSE
