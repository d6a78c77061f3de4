SPECIFICATION FairSpec
CONSTANTS
    Threads = {"M", "T"}
    Air <- MCAir
    Hidden = {"hidden"}
    Faults = {}
    MaxCalls = 2
    MaxForeign = 0
PROPERTIES ScanIsNoticed
CHECK_DEADLOCK FALSE
