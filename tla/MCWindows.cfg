\* Every window and every way through them, with adapters that come and go between two scans.
SPECIFICATION Spec
CONSTANTS
    Keys = {"up", "down", "left", "right", "center", "digit", "back"}
    Edited = {"mConnectionMethod", "mChannel"}
    Kept = {}
    Scans <- MCScans
    Themes <- MCThemes
INVARIANTS TypeOK  ArrowsMakeProgress
PROPERTIES CheckedIsTaken
CHECK_DEADLOCK FALSE
