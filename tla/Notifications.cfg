SPECIFICATION FairSpec
CONSTANTS
    Session = {s1, s2}
    Item = {i1, i2}
    i1 = i1
    i2 = i2
    s1 = s1
    s2 = s2
    Owners <- Divisions
    Result = {r1}
    Block = {b1, b2}
    Null = Null
    MaxSlots = 2
    MaxAnswers = 2
INVARIANTS
    LinksSound
    ReferencesCounted
PROPERTIES
    ImplementsChannel
    BlocksEnd
