\* Removal that follows, is greedy, is a test or follows nothing; every run ends.
SPECIFICATION Spec
CONSTANTS
    a = a
    b = b
    c = c
    v = v
    d = d
    Pkg <- MCPkg
    Name <- MCName
    MaxEvr <- MCMaxEvr
    Id <- MCPkg
    PkgId <- OwnIds
    SelfCap <- MCSelfCap
    Databases <- MCDatabases
    Options <- MCOptions
INVARIANTS
    ReverseDepsFollowed
    RemovalsJustified
    RemovedIsGone
PROPERTIES
    RefinesPlan
    Terminates
