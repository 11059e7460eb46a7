SPECIFICATION Spec
CONSTANTS
    Sessions = {1, 2}
    Snapshots = {A}
    None = None
    MaxVersion = 6
    FaultKinds = {}
    MaxFaults = 0
INVARIANT TerminalOnPermanentFailureOnly
CHECK_DEADLOCK FALSE
