SPECIFICATION Spec
CONSTANTS
    s1 = s1
    s2 = s2
    Session = {s1, s2}
    Pkg <- OnePackage
    Uses <- MCUses
    Filled <- OneOrTwo
    Outside = TRUE
    Interruptible = {s1}
    Mortal = {s2}
    MaxTime = 2
    MaxCommands = 2
    NoSession = NoSession
    NoFile = NoFile
    NoView = NoView
INVARIANTS ViewIsCurrent CacheIsCurrent NothingInvented
