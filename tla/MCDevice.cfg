\* One network of our own and one of a host; a closed device stops.
SPECIFICATION FairSpec
CONSTANTS
    Networks = {"own", "host", "other"}
    Own = {"own"}
    Hosts = {"host"}
    cCanConnectWithoutScan = TRUE
INVARIANTS
    TypeOK
    AutoConnectResumes
    InterfaceOutlivesUse
    OnlyWantedNetworks
PROPERTIES
    SilenceIsNoticed
    CloseEnds
CHECK_DEADLOCK FALSE
