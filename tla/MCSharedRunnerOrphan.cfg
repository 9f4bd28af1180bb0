SPECIFICATION Spec
CONSTANTS
    Attempts = 1
    None = None
    MaxFaults = 1
    MaxStops = 0
INVARIANTS
    OrphanLeftAlone
