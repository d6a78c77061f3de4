SPECIFICATION Spec
CONSTANTS
    Broadcast = "all"
    Contained <- MCContained
    AirFrames <- MCAirFrames
    KaiFrames <- MCKaiFrames
    Filters <- MCFilters
    HostSSIDs = {"PSP_B"}
    WhiteLists <- MCWhiteLists
    Adapter = "ad"
    Dds = "dds"
    MaxFrames = 4
INVARIANTS TypeOK NoEcho  HandshakeAnswersBroadcast SentReadsBack ForwardedIsOfToldNetwork
 
CHECK_DEADLOCK FALSE
