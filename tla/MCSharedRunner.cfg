SPECIFICATION FairSpec
CONSTANTS
    Attempts = 2
    None = None
    MaxFaults = 1
    MaxStops = 1
INVARIANTS
    EffectsOnce
    ReleasedIsDrained
    AcceptedIsRecorded
PROPERTIES
    FenceEndsExecution
    ReportSettles
