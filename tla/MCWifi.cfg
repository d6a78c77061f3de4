SPECIFICATION FairSpec
CONSTANTS
    Threads = {"M", "T"}
    Air <- MCAir
    Hidden = {"hidden"}
    Faults = {"send", "EIO", "aborted", "timeout"}
    MaxCalls = 2
    MaxForeign = 1
INVARIANTS TypeOK LockedAlone ConnectedFirst
PROPERTIES InStep CallsReturn
CHECK_DEADLOCK FALSE
