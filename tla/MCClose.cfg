SPECIFICATION FairSpec
CONSTANTS
    Stations = {}
    Handhelds = {}
    ConfiguredEndpoint = here
    DefaultEndpoint = here
    KaiEndpoint = here
    MaxInFlight = 1
    Faults = FALSE
    Duplicates = FALSE
    Prompt = FALSE
    UseHostSSID = FALSE
    Names = {}
    Hosting = {FALSE}
PROPERTY CloseReturns
