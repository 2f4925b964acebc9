SPECIFICATION FairSpec
CONSTANTS
    r1 = r1  r2 = r2  o1 = o1  o2 = o2  x = x  y = y
    Requests = {r1, r2}
    Owners = {o1}
    Modules = {"a"}
    OwnerOf <- OneOwner
    LabelNames = {"main", "v1"}
    Paths = {"x.proto", "y.proto"}
    Contents = {x, y}
    Durable = TRUE
    PartialPublish = FALSE
    Calls <- FaultCalls
    ForeignIDs = {0}
    MaxGiven = 1
    ImportsOf <- YImportsX
    Main = "main"
    Fallible <- AllStages
    MaxCalls = 3
    MaxFaults = 2
    MaxCrashes = 1
INVARIANTS CommitsReadable LabelsResolve DepsOlder AcksKept
PROPERTIES CommitsImmutable ImplementsCatalog
