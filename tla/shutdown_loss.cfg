SPECIFICATION Spec
CONSTANTS
    r1 = r1  r2 = r2  r3 = r3
    Requests = {r1}
    Docstores = {"mem"}
    MaxStarts = 2
PROPERTIES ShutdownPersists
CHECK_DEADLOCK FALSE
