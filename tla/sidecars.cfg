SPECIFICATION Spec
SYMMETRY Symmetry
CONSTANTS
    p1 = p1
    p2 = p2
    r1 = r1
    r2 = r2
    f1 = f1
    f2 = f2
    f3 = f3
    t1 = t1
    t2 = t2
    NoPort = NoPort
    NoRoot = NoRoot
    NoFile = NoFile
    Procs = {p1, p2}
    Kinds = {"php", "fb"}
    Roots = {r1, r2}
    Inodes = {f1, f2, f3}
    Mirrors = 2
    Ports = {t1, t2}
    MaxStarts = 3
    MaxOpens = 3
    MaxUpsets = 2
    MaxCrashes = 1
INVARIANTS
    TypeOK
    UrlsKeepToSite
    OneProcessPerKind
    BinaryWhole
    AdminerWhole
CHECK_DEADLOCK FALSE
