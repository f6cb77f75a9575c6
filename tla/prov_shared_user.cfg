SPECIFICATION Spec
SYMMETRY Symmetry
CONSTANTS
    d1 = d1
    d2 = d2
    u1 = u1
    u2 = u2
    p1 = p1
    p2 = p2
    s1 = s1
    s2 = s2
    s3 = s3
    NoUser = NoUser
    NoId = NoId
    NoDomain = NoDomain
    Domains <- MCDomains
    DBNameOf <- MCDBNameOf
    Procs <- MCProcs
    Ids <- TwoIds
    MaxLate = 0
    MaxCrashes = 0
    LateOps = {}
    DryRun = FALSE
    Kinds = {}
    Exclusive = FALSE
    FailingOps = {}
    Apps = {"php"}
    Users <- TwoUsers
    DBNames <- TwoUsers
    Names <- SharedNames
    Base <- SharedBase
INVARIANTS
    OneUserPerSite
