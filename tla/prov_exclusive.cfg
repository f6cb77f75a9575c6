SPECIFICATION Spec
SYMMETRY Symmetry
CONSTANTS
    d1 = d1
    d2 = d2
    u1 = u1
    u2 = u2
    p1 = p1
    p2 = p2
    s1 = s1
    s2 = s2
    s3 = s3
    NoUser = NoUser
    NoId = NoId
    NoDomain = NoDomain
    Domains <- MCDomains
    DBNameOf <- MCDBNameOf
    Procs <- MCProcs
    Ids <- MCIds
    MaxLate = 0
    MaxCrashes = 1
    LateOps = {}
    DryRun = FALSE
    Kinds = {"delete", "suspend", "resume", "quota"}
    Exclusive = TRUE
    FailingOps = {"admit", "create_site_user", "set_quota", "provision_php", "provision_nginx", "create_database", "install_app", "suspend_site", "update_site"}
    Apps = {"codeigniter"}
    Users <- TwoUsers
    DBNames <- TwoUsers
    Names <- OwnNames
    Base <- OwnBase
INVARIANTS
    TypeOK
    NoOrphans
    ServedUnlessCrashed
PROPERTIES
    LifecycleSpec
