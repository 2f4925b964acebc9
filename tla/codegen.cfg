SPECIFICATION Spec
CONSTANTS
    c1 = c1  c2 = c2
    PipeCap = 2
    InputSize = 4
    MaxOutput = 3
    Callers = {c1, c2}
INVARIANTS SuccessIsWhole FailureReleases StartAllOrNothing WaitsAgree ClosedIsClean
PROPERTIES PluginCallEnds CloseEnds
CHECK_DEADLOCK FALSE
