SPECIFICATION FairSpec
CONSTANTS
    o1 = o1
    Owners = {o1}
    Modules = {"a", "b", "c"}
    OwnerOf <- OneOwner
    LabelNames = {"main"}
    Paths = {"x.proto"}
    Contents = {1, 2, 3, 4}
    Durable = TRUE
    PartialPublish = FALSE
    MaxCommits = 4
    Histories <- AllHistories
    Asks <- SomeAsks
    Main = "main"
    MaxChanges = 0
INVARIANTS NewVersionsExpanded
