\* Three versions of a repository of two packages, published while a client
\* loads, updates, fails and dies.
SPECIFICATION Spec
CONSTANTS
    Pkg = {a, b}
    MaxTs = 3
    None = None
    Broken = Broken
INVARIANTS
    CacheIsAuthentic
    NoAssertionFails
    UpdatedIsCurrent
PROPERTY CommandsEnd
