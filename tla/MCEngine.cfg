\* The main loop and the windows, two methods; the program may end, so it may stop.
SPECIFICATION FairSpec
CONSTANTS
    Methods = {"promiscuous", "monitor"}
    Promiscuous = {"promiscuous"}
INVARIANTS
    TypeOK
    IdleIsDown
    BothOrNeither
    StopsInOrder
PROPERTIES
    WaitEnds
    
CHECK_DEADLOCK FALSE
