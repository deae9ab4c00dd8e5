\* Limits of 9 and 24 bytes.
SPECIFICATION Spec
CONSTANTS
    usr = usr
    etc = etc
    opt = opt
    size = size
    recno = recno
    RecNo = recno
    Max8 = 9
    Max16 = 24
    Pkgs <- MCPkgs
    Options <- MCOptions

INVARIANTS PackageComesBack SizesFit
