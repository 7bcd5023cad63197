SPECIFICATION Spec
CONSTANTS
    Node = {m1, m2, m3}
    PublishItem = PublishItem
    ListHead = ListHead
    MaxSlots = 2
    MaxResults = 3
    MaxNotes = 2
    MaxBlocked = 1
SYMMETRY NodeSymmetry
CHECK_DEADLOCK FALSE
INVARIANT EmptyHasNoMessage
