SPECIFICATION FairSpec
CONSTANTS
    Wsi = {w1, w2}
    Thread = {t1, t2}
    Main = Main
    Null = Null
    Reverse = TRUE
    Interval = 2
CHECK_DEADLOCK FALSE
INVARIANT IInv
PROPERTIES
    Spaced
    Exits
    Reconnects
