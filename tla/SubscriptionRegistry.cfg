SPECIFICATION FairSpec
CONSTANTS
    Key <- Keys
    Subscription = {c1, c2, c3}
    MaxReferences = 2
INVARIANTS
    IInv
    OnePerKey
PROPERTIES
    GivesWanted
    SearchEnds
