SPECIFICATION Spec
SYMMETRY Symmetry
CONSTANTS
    p1 = p1
    p2 = p2
    o1 = o1
    k1 = k1
    s1 = s1
    s2 = s2
    s3 = s3
    None = None
    Procs <- MCProcs
    Owners <- MCOwners
    Pkgs <- MCPkgs
    Ids <- MCIds
    Limits <- MCLimits
CONSTRAINT FewDatabases
INVARIANTS
    TypeOK
    SitesBounded
    DatabasesBounded
    PackageKept
