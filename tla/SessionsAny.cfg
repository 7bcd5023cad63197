SPECIFICATION Spec
CONSTANTS
    Session = {s1, s2}
    Key = {k1, k2}
    Item = {i1, i2, i3}
    Result = {r1}
    Null = Null
    Additional = 2
    MaxItems = 2
    MaxOpen = 2
    MaxReferences = 2
    Fails = {"subscription", "table", "blocked", "item", "list"}
SYMMETRY SessionsSymmetry
\* the use of a NULL pointer ends the run
CHECK_DEADLOCK FALSE
INVARIANTS
    TypeOK
    NotFreedEarly
    TablesAgree
    IInv
