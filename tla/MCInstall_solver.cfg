SPECIFICATION Spec
CONSTANTS
    a = a
    b = b
    c = c
    d = d
    o = o
    u = u
    o1 = o1
    o2 = o2
    u1 = u1
    u2 = u2
    v = v
    w = w
    NoPkg = NoPkg
    Pkg <- MCPkg
    Name <- MCName
    MaxEvr <- MCMaxEvr
    SelfCap <- MCSelfCap
    Databases <- MCDatabases
    Options <- MCOptions
    NameRank <- MCNameRank
    Requests <- MCRequests
INVARIANTS
    HandMarkedStay
    ObsoletesAreExact
    NothingIsHidden
    OrphansKeptWhole
PROPERTY
    Terminates
