SPECIFICATION Spec
CONSTANTS
    ADDITONAL_BYTES_1 = 5
    Width <- Widths
    Request <- Requests
    Handler <- Handlers
    Key <- Keys
    MaxCells = 14
    Name <- Names
    Null = Null
    None = None
INVARIANTS
    Owned
    NothingKept
    
    ReadsWhatWasSaid
    RefusesTheRest
    WritesWhatIsRead
    HeadsAgree
