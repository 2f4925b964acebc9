SPECIFICATION FairSpec
CONSTANTS
    r1 = r1  r2 = r2  o1 = o1  o2 = o2  x = x  y = y
    Requests = {r1, r2}
    Owners = {o1}
    Modules = {"a", "b"}
    OwnerOf <- OneOwner
    LabelNames = {"main", "v1"}
    Paths = {"x.proto", "y.proto"}
    Contents = {x, y}
    Durable = TRUE
    PartialPublish = FALSE
    Calls <- PushCalls
    ForeignIDs = {}
    MaxGiven = 1
    ImportsOf <- YImportsX
    Main = "main"
    Fallible = {}
    MaxCalls = 3
    MaxFaults = 0
    MaxCrashes = 0
INVARIANTS TypeOK DigestsMatch ModulesOwned NoSpuriousErrors
PROPERTIES RequestsEnd
