SPECIFICATION OrdersSpec
CONSTANTS
    d1 = d1
    u1 = u1
    p1 = p1
    p2 = p2
    s1 = s1
    s2 = s2
    c1 = c1
    c2 = c2
    e1 = e1
    e2 = e2
    NoUser = NoUser
    NoId = NoId
    NoDomain = NoDomain
    NoSession = NoSession
    NoEmail = NoEmail
    Domains <- MCDomains
    Users <- MCUsers
    DBNames <- MCUsers
    DBNameOf <- MCDBNameOf
    Names <- MCNames
    Base <- MCBase
    Procs <- MCProcs
    Ids <- MCIds
    Apps = {"static"}
    DryRun = FALSE
    Exclusive = FALSE
    Kinds = {}
    FailingOps = {"provision_nginx"}
    LateOps = {}
    MaxLate = 0
    MaxCrashes = 0
    Sessions <- OneSession
    Emails <- MCEmails
    Staff = {}
    DomainOf <- MCDomainOf
    EmailOf <- MCEmailOf
    AppOf <- MCAppOf
    LostAnswers = FALSE
INVARIANTS
    UnchangedIsTrue
CHECK_DEADLOCK FALSE
