SPECIFICATION Spec
SYMMETRY Symmetry
CONSTRAINT Bounded
CONSTANTS
    p1 = p1
    p2 = p2
    s1 = s1
    s2 = s2
    s3 = s3
    u1 = u1
    u2 = u2
    j1 = j1
    j2 = j2
    NoSite = NoSite
    NoJob = NoJob
    Procs = {p1, p2}
    Sites = {s1, s2, s3}
    Users = {u1, u2}
    UserOf <- MCUserOf
    Entered <- MCEntered
    Jobs = {j1, j2}
    OldSites = {s1}
    OldJobs = {j1}
    MaxCrashes = 1
    DryRun = FALSE
    FailingOps = {"sync_cron", "destroy_site"}
    FailingSQL = {"probe", "clean"}
    LateOps = {"sync_cron"}
    MaxLate = 1
INVARIANTS
    TypeOK
    OnlyOwnJobs
    JobsHaveSite
    SettledAcrossStarts
    ServesSeeded
    RebuildNeverBlocked
PROPERTIES
    SitesKept
    JobsKept
    FileSpec
CHECK_DEADLOCK FALSE
