SPECIFICATION Spec
CONSTANTS
    p1 = p1
    p2 = p2
    a = a
    b = b
    Proc = {p1, p2}
    Files = {a}
    Quiet = {p2}
    Protocols = {"http", "ftp", "rsync"}
    Interruptible = {p1}
    Mortal = {p2}
    Attempts <- MCAttempts
    MaxRedirects = 0
    NoProc = NoProc
    NoFile = NoFile
    Wanted <- MCWanted
    Size <- MCSize
INVARIANTS FetchedAreThere PartsInPlace

PROPERTIES FetchesEnd
