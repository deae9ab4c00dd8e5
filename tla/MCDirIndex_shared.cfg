\* Two processes and two publications.
SPECIFICATION IndexSpec
CONSTANTS
    a = a
    a2 = a2
    b = b
    g = g
    h = h
    usr = usr
    share = share
    p1 = p1
    p2 = p2
    NoDir = NoDir
    Nobody = Nobody
    Proc = {p1, p2}
    Creating = {TRUE, FALSE}
    MaxTime = 2
    MaxRuns = 3
    MaxLosses = 1
    Package <- MCPkg
    Dir <- MCDir
    Key <- MCKey
    Files <- MCFiles
    Sources <- MCSources

INVARIANTS AnswersAreRight OpensFindIndex
PROPERTY OpensEnd
