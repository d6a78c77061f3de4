\* A keypad, a signal or a kill at any moment, and a second start from what the file then holds.
SPECIFICATION FairSpec
CONSTANTS
    Keys = {"ESC", "bracket", "r", "E", "q", "timeout"}
    Edited = {"mAutoDiscoverPSPVitaNetworks"}
    Kept = {"mAutoDiscoverPSPVitaNetworks"}
    Scans = {}
    Themes <- MCThemes
 
PROPERTIES ComboIsDecided 
CHECK_DEADLOCK FALSE
