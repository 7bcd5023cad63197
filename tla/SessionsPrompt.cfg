SPECIFICATION FairPromptSpec
CONSTANTS
    Session = {s1}
    Key = {k1, k2}
    Item = {i1, i2}
    Result = {r1, r2}
    Null = Null
    Additional = 2
    MaxItems = 2
    MaxOpen = 3
    MaxReferences = 3
    Fails = {"item"}
INVARIANTS
    NotLeaked
    ResultsAgree
    NotesAfterResult
    NoNullUse
PROPERTY ResultsEnd
