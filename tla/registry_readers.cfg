SPECIFICATION RFairSpec
CONSTANTS
    r1 = r1  o1 = o1  a = a  b = b  x = x  y = y
    Requests = {r1}
    Owners = {o1}
    Modules = {a, b}
    OwnerOf <- OneOwner
    LabelNames = {"main"}
    Paths = {"x.proto", "y.proto"}
    Contents = {x, y}
    Durable = TRUE
    PartialPublish = TRUE
    Calls <- Versions
    ForeignIDs = {}
    MaxGiven = 0
    ImportsOf <- NoImports
    Main = "main"
    Fallible <- Stored
    MaxCalls = 3
    MaxFaults = 1
    MaxCrashes = 1
    Queries <- SomeQueries
    PageSize = 1
    MaxReads = 1
    MaxReadFaults = 1
INVARIANTS ReaderTypeOK CommitsStored NoDuplicates DownloadsExact ReadsSucceed PagesComplete
PROPERTIES ReadingEnds
