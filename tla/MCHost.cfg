SPECIFICATION MCHostSpec
CONSTANTS
    Platforms = {"macos", "gnome", "windows"}
    Services = {"wifi", "ethernet"}
    MaxCalls = 3
    MaxRuns = 3
    MaxCrashes = 2
    MaxRetry = 2
    Remotes = 2
INVARIANTS
    
    MachineRestored
    RetriesAreSound
PROPERTIES
    EachRunReturns
CHECK_DEADLOCK FALSE
