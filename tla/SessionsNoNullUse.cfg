SPECIFICATION Spec
CONSTANTS
    Session = {s1}
    Key = {k1}
    Item = {i1}
    Result = {r1, r2}
    Null = Null
    Additional = 2
    MaxItems = 1
    MaxOpen = 1
    MaxReferences = 4
    Fails = {"list"}
CHECK_DEADLOCK FALSE
INVARIANT NoNullUse
