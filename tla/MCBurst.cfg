SPECIFICATION Spec
CONSTANTS
    Datagrams <- MCDatagrams
    MaxLength = 3
    MaxUnread = 2
    MaxPosted = 3
INVARIANT HandledIsReceived
CHECK_DEADLOCK FALSE
