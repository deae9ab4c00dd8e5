\* Two processes, one of which may die, and three calls between them.
SPECIFICATION Spec
CONSTANTS
    Proc = {p, q}
    File = {f, g, h}
    MaxCalls = 3
    MaxCrashes = 1
    NoFile = NoFile
    NoProc = NoProc
INVARIANTS
    WorksAlone
    OnlyOpendirLeaks
PROPERTY CallsEnd
