SPECIFICATION Spec
CONSTANTS
    Stations = {}
    Handhelds = {}
    ConfiguredEndpoint = here
    DefaultEndpoint = here
    KaiEndpoint = here
    MaxInFlight = 1
    Faults = FALSE
    Duplicates = FALSE
    Prompt = FALSE
    UseHostSSID = TRUE
    Names = {"essid"}
    Hosting = {TRUE, FALSE}
INVARIANT NamesAreTold
PROPERTY ImplementsLink
