SPECIFICATION Spec
CONSTANTS
    r1 = r1  r2 = r2  r3 = r3
    Requests = {r1, r2, r3}
    Docstores = {"mem", "server"}
    MaxStarts = 2
PROPERTIES DrainComplete SignalEnds UnservedEnds
CHECK_DEADLOCK FALSE
