SPECIFICATION Spec
CONSTANTS
    Stations = {s}
    Handhelds = {h}
    ConfiguredEndpoint = here
    DefaultEndpoint = here
    KaiEndpoint = here
    MaxInFlight = 1
    Faults = TRUE
    Duplicates = TRUE
    Prompt = FALSE
    UseHostSSID = FALSE
    Names = {}
    Hosting = {FALSE}
INVARIANTS TypeOK LinkIsGuarded ThreadStopsOnRequest NoEcho
