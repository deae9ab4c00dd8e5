\* Installation and removal, of all packages or of some.
SPECIFICATION Spec
CONSTANTS
    a = a
    b = b
    c = c
    v = v
    w = w
    NotAsked = NotAsked
    Pkg <- MCPkg
    Key <- MCKey
    Repositories <- MCRepositories
    OrderTypes = {"install", "uninstall"}
INVARIANTS
    EveryPackageOnce
    PrereqsFirst
    LoopsAreReal
