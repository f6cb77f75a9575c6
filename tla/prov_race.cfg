SPECIFICATION Spec
SYMMETRY Symmetry
CONSTANTS
    d1 = d1
    d2 = d2
    u1 = u1
    u2 = u2
    p1 = p1
    p2 = p2
    s1 = s1
    s2 = s2
    s3 = s3
    NoUser = NoUser
    NoId = NoId
    NoDomain = NoDomain
    Domains <- MCDomains
    DBNameOf <- MCDBNameOf
    Procs <- MCProcs
    Ids <- TwoIds
    MaxLate = 1
    MaxCrashes = 0
    LateOps = {"create_site_user", "destroy_site"}
    DryRun = FALSE
    Kinds = {"delete"}
    Exclusive = FALSE
    FailingOps = {"get_site", "admit", "create_site_user", "provision_nginx", "destroy_site", "delete_site"}
    Apps = {"php"}
    Users <- TwoUsers
    DBNames <- TwoUsers
    Names <- SharedNames
    Base <- SharedBase
INVARIANTS
    OneRowPerDomain
    AccountsClaimed
    OwnedProvisioning
PROPERTIES
    NoResurrection
