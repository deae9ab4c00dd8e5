\* Every set with every sequence of commands.
SPECIFICATION Spec
CONSTANTS
    a = a
    b = b
    k = k
    h = h
    k2 = k2
    v = v
    w = w
    u = u
    d = d
    f = f
    g = g
    s1 = s1
    s2 = s2
    Source = {s1, s2}
    NotAsked = NotAsked
    Unmet = Unmet
    MaxEvr = 2
    MultiLib = FALSE
    Skipped = {}
    Pkg <- MCPkg
    Name <- MCName
    Paths <- MCPaths
    NameRank <- MCNameRank
    Sets <- MCSets
    Commands <- MCCommands
INVARIANTS
    UnmetIsKnown
    MarksAreExact
    FilesAnswered
