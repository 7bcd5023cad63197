SPECIFICATION FairOrderedSpec
CONSTANTS
    Node = {m1, m2}
    PublishItem = PublishItem
    ListHead = ListHead
    MaxSlots = 2
    MaxResults = 4
    MaxNotes = 3
    MaxBlocked = 1
INVARIANT IInv
PROPERTIES
    AnnouncedFirst
    NothingLost
    ImplementsChannel
    ResultsLeave
    NotesLeave
