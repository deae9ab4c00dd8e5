\* One session next to mkidx, or two sessions.
SPECIFICATION Spec
CONSTANTS
    a1 = a1
    a2 = a2
    a2x = a2x
    a = a
    b = b
    v = v
    d = d
    f = f
    s1 = s1
    s2 = s2
    Session = {s1, s2}
    MaxEvr = 2
    MaxBuild = 2
    MaxRuns = 2
    MaxChanges = 1
    MaxGroups = 2
    MultiLib = FALSE
    Skipped = {}
    Alike <- MCAlike
    Outside <- MCOutside
    Pkg <- MCPkg
    Name <- MCName
    Paths <- MCPaths
    NameRank <- MCNameRank
    Set <- MCSet
    Requires <- MCRequires
    Places <- MCPlaces
    Mkidx <- MCMkidx
SYMMETRY Processes
INVARIANTS
    DamageIsKnown
    SearchIsScan
PROPERTY
    SourcesIntact
