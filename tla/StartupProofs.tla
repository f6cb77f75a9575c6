---------------------------- MODULE StartupProofs ----------------------------
(***************************************************************************)
(* Starts of the API cut anywhere, any number of times, with the requests  *)
(* of CronJobs in between, for any number of these, of sites, accounts and *)
(* jobs.                                                                   *)
(*                                                                         *)
(* The properties speak of what the file holds; a step of the rebuild      *)
(* changes what the connection sees.  What ties the two together is, for   *)
(* each statement of the transaction, how its tables come from the journal *)
(* (JournalOK): so a rollback is sound at every statement, and the commit  *)
(* brings every site back.  With the requests in between that makes        *)
(* Startup an implementation of DatabaseFile (ImplementsDatabaseFile).     *)
(***************************************************************************)
EXTENDS Startup, CronJobsProofs, FiniteSetTheorems

TxStages == {"copy", "drop", "rename", "commit"}

StartTypeOK ==
    /\ stage \in Stages
    /\ table \in {"none", "old", "new"}
    /\ probe \in BOOLEAN
    /\ copy \subseteq [live : SUBSET Sites, probe : BOOLEAN]
    /\ columns \in BOOLEAN /\ admin \in BOOLEAN
    /\ packs \in 0..3
    /\ misled \in BOOLEAN
    /\ crashes \in 0..MaxCrashes

Resting == \A p \in Procs : req[p].pc = "idle"

(* The database d the transaction under way began with.                    *)
Live(d) == {s \in Sites : d.sites[s] = "live"}

RowsOf(d) == {[live |-> Live(d), probe |-> d.probe]}

(* It is sound, and knows the same jobs.                                   *)
OriginOK(d) ==
    /\ d.copy = {}
    /\ d.table \in {"old", "new"}
    /\ d.table = "old" \/ d.probe \/ misled
    /\ d.table = "old" \/ d.probe => admin /\ packs >= 1
    /\ d.table = "old" => settled = {}
    /\ \A j \in Jobs :
          /\ d.jobs[j].site = jobs[j].site /\ d.jobs[j].kind = jobs[j].kind
          /\ d.jobs[j].state = "free" <=> jobs[j].state = "free"
          /\ d.jobs[j].state = "row" => d.sites[d.jobs[j].site] = "live"
    /\ \A s, t \in Sites :
          d.sites[s] = "live" /\ d.sites[t] = "live" /\ UserOf[s] = UserOf[t] => s = t

(* What each statement has made of it.                                     *)
StatementOK(d) ==
    /\ stage \in {"copy", "drop"} =>
          sites = d.sites /\ jobs = d.jobs /\ table = d.table /\ probe = d.probe
    /\ stage \in {"drop", "rename"} => copy = RowsOf(d)
    /\ stage = "rename" =>
          sites = [s \in Sites |-> IF d.sites[s] = "live" THEN "deleted" ELSE d.sites[s]]
    /\ stage = "commit" =>
          sites = d.sites /\ table = "new" /\ probe = d.probe /\ copy = {}
    /\ stage \in {"rename", "commit"} => \A j \in Jobs : jobs[j].state # "row"

JournalOK ==
    IF stage \in TxStages
    THEN \E d \in Database : journal = {d} /\ OriginOK(d) /\ StatementOK(d)
    ELSE journal = {} /\ copy = {}

(* The table, stage by stage.                                              *)
TableOK ==
    /\ stage \notin {"schema", "rename"} => table # "none"
    /\ stage \in {"clean", "columns", "admin", "packages", "more", "up"} => table = "new"
    /\ stage = "create" => table = "old" \/ probe \/ misled
    /\ misled => "probe" \in FailingSQL
    /\ stage \notin TxStages /\ table = "old" => settled = {}
    /\ stage \notin TxStages /\ stage # "clean" /\ ~probe /\ ~misled => SettledInStep
    /\ stage = "clean" /\ ~misled => SettledInStep

(* The seeds.  An old table, and a probe row, come from a database that    *)
(* had them.                                                               *)
SeedsOK ==
    /\ table = "old" \/ probe => admin /\ packs >= 1
    /\ stage \in {"admin", "packages", "more", "up"} => columns
    /\ stage \in {"packages", "more", "up"} => admin
    /\ stage = "more" => packs \in 1..2
    /\ stage = "up" => packs >= 1

StartInv ==
    /\ CronInv
    /\ StartTypeOK
    /\ stage # "up" => Resting
    /\ JournalOK /\ TableOK /\ SeedsOK

------------------------------------------------------------------------------
(* The part of CronJobs, while no request is served.                       *)

LEMMA RestKeeps ==
    ASSUME CronAssumption, CronInv, UNCHANGED <<accounts, crontab, settled>>,
           req' \in [Procs -> Request], Resting',
           \A c \in late' :
              \/ c \in late
              \/ \E p \in Procs : /\ req[p].pc # "idle" /\ c \in Call
                                 /\ c.user = UserOf[req[p].site] /\ c.list = req[p].list,
           sites' \in [Sites -> {"free", "live", "deleted"}], jobs' \in [Jobs -> Job],
           \A j \in Jobs : /\ jobs'[j].site = jobs[j].site /\ jobs'[j].kind = jobs[j].kind
                           /\ jobs'[j].state = "free" <=> jobs[j].state = "free",
           JobsHaveSite', OneLive'
    PROVE  CronInv'
  <1>1. CronTypeOK'
    BY DEF CronInv, CronTypeOK
  <1>2. JobInv' /\ OnlyOwnJobs'
    BY DEF CronInv, CronTypeOK, JobInv, OnlyOwnJobs
  <1>3. RequestInv' /\ AloneInv'
    BY DEF Resting, RequestInv, RequestOK, AloneInv, AloneOK
  <1>4. ASSUME NEW c \in late', c \notin late
        PROVE  Known(c.user, c.list) /\ c.user \notin settled
    <2>1. PICK p \in Procs : /\ req[p].pc # "idle"
                            /\ c.user = UserOf[req[p].site] /\ c.list = req[p].list
      BY <1>4
    <2>2. Known(UserOf[req[p].site], req[p].list) /\ UserOf[req[p].site] \notin settled
      BY <2>1, Stands DEF RequestOK
    <2> QED BY <2>1, <2>2 DEF Known
  <1>5. \A c \in late' : c \in Call /\ Known(c.user, c.list)
    BY <1>4 DEF CronInv, CronTypeOK, LateInv
  <1>6. LateInv'
    BY <1>5 DEF LateInv, Known, Call
  <1>7. SettledInv'
    BY <1>4 DEF CronInv, SettledInv, NoLate, Busy, Resting
  <1> QED BY <1>1, <1>2, <1>3, <1>6, <1>7 DEF CronInv

LEMMA RestStays ==
    ASSUME CronAssumption, CronInv, Resting, UNCHANGED cronVars
    PROVE  CronInv' /\ Resting' /\ (SettledInStep => SettledInStep')
  <1>1. SettledInStep => SettledInStep'
    BY DEF cronVars, SettledInStep, Lines, JobsOf
  <1>2. Resting' /\ JobsHaveSite' /\ OneLive' /\ req' \in [Procs -> Request]
    BY DEF cronVars, Resting, CronInv, JobsHaveSite, OneLive, CronTypeOK
  <1>3. sites' \in [Sites -> {"free", "live", "deleted"}] /\ jobs' \in [Jobs -> Job]
    BY DEF cronVars, CronInv, CronTypeOK
  <1> QED BY <1>1, <1>2, <1>3, RestKeeps DEF cronVars

LEMMA NothingSettled ==
    ASSUME settled = {} PROVE SettledInStep
  BY DEF SettledInStep

------------------------------------------------------------------------------
(* The steps of a start outside the rebuild.                               *)

(* The invariant without the cron part, for steps that leave sites, jobs   *)
(* and the machine alone.                                                  *)
FileOK == StartTypeOK /\ JournalOK /\ TableOK /\ SeedsOK

LEMMA PlainStep ==
    ASSUME CronAssumption, StartInv, stage # "up", Outside, UNCHANGED <<sites, jobs>>, FileOK'
    PROVE  StartInv'
  BY RestStays DEF StartInv, FileOK, Outside, Plain, cronVars

(* What such a step need not look at.                                      *)
LEMMA SettledStays ==
    ASSUME Outside, UNCHANGED <<sites, jobs>>, SettledInStep
    PROVE  SettledInStep'
  BY DEF Outside, Plain, SettledInStep, Lines, JobsOf

LEMMA SchemaKeeps ==
    ASSUME CronAssumption, StartInv, Schema
    PROVE  StartInv'
  <1> USE DEF StartInv
  <1>1. StartTypeOK'
    BY DEF Schema, Outside, Plain, StartTypeOK, Stages
  <1>2. JournalOK' /\ SeedsOK'
    BY DEF Schema, JournalOK, SeedsOK, TxStages, StartTypeOK
  <1>3. TableOK'
    BY SettledStays DEF Schema, TableOK, TxStages, Outside, Plain, StartTypeOK
  <1> QED BY <1>1, <1>2, <1>3, PlainStep DEF Schema, Plain, FileOK

LEMMA ProbeKeeps ==
    ASSUME CronAssumption, StartInv, Probe
    PROVE  StartInv'
  <1> USE DEF StartInv
  <1>1. StartTypeOK'
    BY DEF Probe, Outside, Plain, StartTypeOK, Stages
  <1>2. JournalOK' /\ SeedsOK'
    BY DEF Probe, JournalOK, SeedsOK, TxStages, StartTypeOK
  <1>3. TableOK'
    BY SettledStays DEF Probe, TableOK, SeedsOK, TxStages, Outside, Plain, StartTypeOK
  <1> QED BY <1>1, <1>2, <1>3, PlainStep DEF Probe, FileOK

LEMMA CleanKeeps ==
    ASSUME CronAssumption, StartInv, Clean
    PROVE  StartInv'
  <1> USE DEF StartInv
  <1>1. StartTypeOK'
    BY DEF Clean, Outside, Plain, StartTypeOK, Stages
  <1>2. JournalOK' /\ SeedsOK'
    BY DEF Clean, JournalOK, SeedsOK, TableOK, TxStages, StartTypeOK
  <1>3. TableOK'
    BY SettledStays DEF Clean, TableOK, TxStages, Outside, Plain, StartTypeOK
  <1> QED BY <1>1, <1>2, <1>3, PlainStep DEF Clean, Plain, FileOK

LEMMA AddColumnsKeeps ==
    ASSUME CronAssumption, StartInv, AddColumns
    PROVE  StartInv'
  <1> USE DEF StartInv
  <1>1. StartTypeOK'
    BY DEF AddColumns, Outside, Plain, StartTypeOK, Stages
  <1>2. JournalOK' /\ SeedsOK'
    BY DEF AddColumns, JournalOK, SeedsOK, TxStages, StartTypeOK
  <1>3. TableOK'
    BY SettledStays DEF AddColumns, TableOK, TxStages, Outside, Plain, StartTypeOK
  <1> QED BY <1>1, <1>2, <1>3, PlainStep DEF AddColumns, Plain, FileOK

LEMMA SeedAdminKeeps ==
    ASSUME CronAssumption, StartInv, SeedAdmin
    PROVE  StartInv'
  <1> USE DEF StartInv
  <1>1. StartTypeOK'
    BY DEF SeedAdmin, Outside, Plain, StartTypeOK, Stages
  <1>2. JournalOK' /\ SeedsOK'
    BY DEF SeedAdmin, JournalOK, SeedsOK, TxStages, StartTypeOK
  <1>3. TableOK'
    BY SettledStays DEF SeedAdmin, TableOK, TxStages, Outside, Plain, StartTypeOK
  <1> QED BY <1>1, <1>2, <1>3, PlainStep DEF SeedAdmin, Plain, FileOK

LEMMA SeedPackagesKeeps ==
    ASSUME CronAssumption, StartInv, SeedPackages
    PROVE  StartInv'
  <1> USE DEF StartInv
  <1>1. StartTypeOK'
    BY DEF SeedPackages, Outside, Plain, StartTypeOK, Stages
  <1>2. JournalOK' /\ SeedsOK'
    BY DEF SeedPackages, JournalOK, SeedsOK, TxStages, StartTypeOK
  <1>3. TableOK'
    BY SettledStays DEF SeedPackages, TableOK, TxStages, Outside, Plain, StartTypeOK
  <1> QED BY <1>1, <1>2, <1>3, PlainStep DEF SeedPackages, Plain, FileOK

LEMMA SeedMoreKeeps ==
    ASSUME CronAssumption, StartInv, SeedMore
    PROVE  StartInv'
  <1> USE DEF StartInv
  <1>0. packs \in 1..2
    BY DEF SeedMore, SeedsOK
  <1>1. StartTypeOK'
    BY <1>0 DEF SeedMore, Outside, Plain, StartTypeOK, Stages
  <1>2. JournalOK' /\ SeedsOK'
    BY <1>0 DEF SeedMore, JournalOK, SeedsOK, TxStages, StartTypeOK
  <1>3. TableOK'
    BY SettledStays DEF SeedMore, TableOK, TxStages, Outside, Plain, StartTypeOK
  <1> QED BY <1>1, <1>2, <1>3, PlainStep DEF SeedMore, Plain, FileOK

------------------------------------------------------------------------------
(* The statements of the rebuild.                                          *)

LEMMA CreateNewKeeps ==
    ASSUME CronAssumption, StartInv, CreateNew
    PROVE  StartInv'
  <1> USE DEF StartInv
  <1>1. StartTypeOK'
    BY DEF CreateNew, Outside, Plain, StartTypeOK, Stages
  <1>2. PICK d \in Database : d = Current
    BY DEF CreateNew, Current, Database, StartTypeOK, CronInv, CronTypeOK
  <1>3. OriginOK(d)'
    <2>1. /\ d.copy = {} /\ d.sites = sites /\ d.jobs = jobs /\ d.table = table /\ d.probe = probe
      BY <1>2 DEF Current, CreateNew
    <2>2. /\ table \in {"old", "new"} /\ (table = "old" \/ probe \/ misled)
          /\ table = "old" \/ probe => admin /\ packs >= 1
          /\ table = "old" => settled = {}
      BY DEF CreateNew, TableOK, SeedsOK, StartTypeOK, TxStages
    <2> QED BY <2>1, <2>2 DEF CreateNew, Outside, Plain, OriginOK, CronInv, JobsHaveSite, OneLive
  <1>4. StatementOK(d)'
    BY <1>2 DEF CreateNew, StatementOK, Current
  <1>5. JournalOK'
    BY <1>2, <1>3, <1>4 DEF CreateNew, JournalOK, TxStages, OriginOK, StatementOK, Live, RowsOf
  <1>6. SeedsOK'
    BY DEF CreateNew, SeedsOK, TxStages
  <1>7. TableOK'
    BY DEF CreateNew, TableOK, TxStages, Plain
  <1> QED BY <1>1, <1>5, <1>6, <1>7, PlainStep DEF CreateNew, Plain, FileOK

(* In the transaction: the database it began with.                         *)
LEMMA Origin ==
    ASSUME StartInv, stage \in TxStages
    PROVE  \E d \in Database : journal = {d} /\ OriginOK(d) /\ StatementOK(d)
  BY DEF StartInv, JournalOK

LEMMA CopyRowsKeeps ==
    ASSUME CronAssumption, StartInv, CopyRows
    PROVE  StartInv'
  <1> USE DEF StartInv
  <1>1. StartTypeOK'
    BY DEF CopyRows, Outside, Plain, StartTypeOK, Stages, LiveRows
  <1>2. PICK d \in Database : journal = {d} /\ OriginOK(d) /\ StatementOK(d)
    BY Origin DEF CopyRows, TxStages
  <1>3. OriginOK(d)'
    BY <1>2 DEF CopyRows, Outside, Plain, OriginOK
  <1>4. StatementOK(d)'
    BY <1>2 DEF CopyRows, StatementOK, RowsOf, Live, LiveRows
  <1>5. JournalOK' /\ SeedsOK' /\ TableOK'
    BY <1>2, <1>3, <1>4 DEF CopyRows, JournalOK, SeedsOK, TableOK, TxStages, Plain
  <1> QED BY <1>1, <1>5, PlainStep DEF CopyRows, Plain, FileOK

LEMMA DropOldKeeps ==
    ASSUME CronAssumption, StartInv, DropOld
    PROVE  StartInv'
  <1> USE DEF StartInv
  <1>1. StartTypeOK'
    BY DEF DropOld, Outside, Plain, StartTypeOK, Stages
  <1>2. PICK d \in Database : journal = {d} /\ OriginOK(d) /\ StatementOK(d)
    BY Origin DEF DropOld, TxStages
  <1>3. /\ sites' = [s \in Sites |-> IF sites[s] = "live" THEN "deleted" ELSE sites[s]]
        /\ jobs' = [j \in Jobs |-> IF jobs[j].state = "row" /\ jobs[j].site \in LiveRows
                                   THEN [jobs[j] EXCEPT !.state = "gone"] ELSE jobs[j]]
        /\ sites \in [Sites -> {"free", "live", "deleted"}] /\ jobs \in [Jobs -> Job]
    BY DEF DropOld, Cascade, CronInv, CronTypeOK
  <1>4. sites' \in [Sites -> {"free", "live", "deleted"}] /\ \A s \in Sites : sites'[s] # "live"
    BY <1>3
  <1>5. /\ jobs' \in [Jobs -> Job]
        /\ \A j \in Jobs : /\ jobs'[j].site = jobs[j].site /\ jobs'[j].kind = jobs[j].kind
                           /\ jobs'[j].state = "free" <=> jobs[j].state = "free"
                           /\ jobs'[j].state # "row"
    <2>1. \A j \in Jobs : jobs[j].state = "row" => jobs[j].site \in LiveRows
      BY DEF CronInv, JobsHaveSite, JobInv, LiveRows
    <2> QED BY <1>3, <2>1 DEF Job
  <1>6. OriginOK(d)'
    BY <1>2, <1>5 DEF DropOld, Outside, Plain, OriginOK
  <1>7. StatementOK(d)'
    BY <1>2, <1>3, <1>5 DEF DropOld, StatementOK, RowsOf, Live
  <1>8. JournalOK' /\ SeedsOK' /\ TableOK'
    BY <1>2, <1>6, <1>7 DEF DropOld, JournalOK, SeedsOK, TableOK, TxStages, Plain
  <1>9. CronInv' /\ Resting'
    <2>1. JobsHaveSite' /\ OneLive' /\ Resting'
      BY <1>4, <1>5 DEF JobsHaveSite, OneLive, DropOld, Outside, Plain, Resting
    <2>2. req' \in [Procs -> Request] /\ UNCHANGED <<accounts, crontab, settled, late>>
      BY DEF DropOld, Outside, Plain, CronInv, CronTypeOK
    <2> QED BY <1>4, <1>5, <2>1, <2>2, RestKeeps
  <1> QED BY <1>1, <1>8, <1>9

LEMMA RenameNewKeeps ==
    ASSUME CronAssumption, StartInv, RenameNew
    PROVE  StartInv'
  <1> USE DEF StartInv
  <1>2. PICK d \in Database : journal = {d} /\ OriginOK(d) /\ StatementOK(d)
    BY Origin DEF RenameNew, TxStages
  <1>3. /\ sites = [s \in Sites |-> IF d.sites[s] = "live" THEN "deleted" ELSE d.sites[s]]
        /\ \A j \in Jobs : jobs[j].state # "row"
        /\ copy = RowsOf(d)
    BY <1>2 DEF RenameNew, StatementOK
  <1>4. /\ sites' = [s \in Sites |-> IF s \in Live(d) THEN "live" ELSE sites[s]]
        /\ probe' = d.probe /\ table' = "new" /\ copy' = {} /\ stage' = "commit"
    BY <1>3 DEF RenameNew, RowsOf
  <1>5. sites' = d.sites
    BY <1>3, <1>4 DEF Live, Database
  <1>6. StartTypeOK'
    BY <1>4 DEF RenameNew, Outside, Plain, StartTypeOK, Stages, Database
  <1>7. OriginOK(d)' /\ StatementOK(d)'
    BY <1>2, <1>3, <1>4, <1>5 DEF RenameNew, Outside, Plain, OriginOK, StatementOK
  <1>8. SeedsOK'
    BY <1>2, <1>4 DEF RenameNew, SeedsOK, OriginOK
  <1>10. JournalOK' /\ TableOK'
    BY <1>2, <1>7 DEF RenameNew, JournalOK, TableOK, TxStages, Plain
  <1>9. CronInv' /\ Resting'
    <2>1. JobsHaveSite' /\ Resting' /\ UNCHANGED <<jobs, accounts, crontab, settled, late>>
      BY <1>3 DEF JobsHaveSite, RenameNew, Outside, Plain, Resting
    <2>2. OneLive'
      BY <1>2, <1>5 DEF OneLive, OriginOK
    <2>3. /\ req' \in [Procs -> Request] /\ jobs' \in [Jobs -> Job]
          /\ sites' \in [Sites -> {"free", "live", "deleted"}]
      BY <1>5 DEF RenameNew, Outside, Plain, CronInv, CronTypeOK, Database
    <2> QED BY <2>1, <2>2, <2>3, RestKeeps
  <1> QED BY <1>6, <1>8, <1>9, <1>10

LEMMA CommitKeeps ==
    ASSUME CronAssumption, StartInv, Commit
    PROVE  StartInv'
  <1> USE DEF StartInv
  <1>1. StartTypeOK'
    BY DEF Commit, Outside, Plain, StartTypeOK, Stages
  <1>2. PICK d \in Database : journal = {d} /\ OriginOK(d) /\ StatementOK(d)
    BY Origin DEF Commit, TxStages
  <1>3. probe \/ misled \/ settled = {}
    BY <1>2 DEF Commit, OriginOK, StatementOK
  <1>4. ~probe /\ ~misled => SettledInStep'
    BY <1>3, NothingSettled, SettledStays DEF Commit, Plain
  <1>5. table = "new" /\ copy = {}
    BY <1>2 DEF Commit, StatementOK
  <1>6. JournalOK' /\ SeedsOK' /\ TableOK'
    BY <1>4, <1>5 DEF Commit, Outside, Plain, JournalOK, SeedsOK, TableOK, TxStages
  <1> QED BY <1>1, <1>6, PlainStep DEF Commit, Plain, FileOK

------------------------------------------------------------------------------
(* A crash.                                                                *)

LEMMA CommittedIs ==
    ASSUME NEW d, journal = {d}
    PROVE  Committed = d
  BY DEF Committed

LEMMA CommittedNow ==
    ASSUME journal = {}
    PROVE  Committed = Current
  BY DEF Committed

(* What the crash leaves of requests and calls.                            *)
LEMMA CrashLeaves ==
    ASSUME CronAssumption, CronInv, Crash
    PROVE  /\ req' \in [Procs -> Request] /\ Resting'
           /\ \A c \in late' :
                 \/ c \in late
                 \/ \E p \in Procs : /\ req[p].pc # "idle" /\ c \in Call
                                    /\ c.user = UserOf[req[p].site] /\ c.list = req[p].list
  <1>1. req' = [p \in Procs |-> Idle] /\ Idle \in Request /\ Idle.pc = "idle"
    BY DEF Crash, Idle, Ask, Request, PCs
  <1>2. CASE UNCHANGED late
    BY <1>1, <1>2 DEF Resting
  <1>3. CASE \E p \in Procs : req[p].pc \in DOMAIN OpOf /\ late' = late \cup {CallOf(req[p])}
    <2>1. PICK p \in Procs : req[p].pc \in DOMAIN OpOf /\ late' = late \cup {CallOf(req[p])}
      BY <1>3
    <2>2. req[p].pc \in {"sync", "useradd", "destroy"} /\ req[p].pc # "idle"
      BY <2>1 DEF OpOf
    <2>3. /\ CallOf(req[p]) \in Call
          /\ CallOf(req[p]).user = UserOf[req[p].site] /\ CallOf(req[p]).list = req[p].list
      BY <2>2, Stands, CallOfType
    <2> QED BY <1>1, <2>1, <2>2, <2>3 DEF Resting
  <1> QED BY <1>2, <1>3 DEF Crash

LEMMA CrashKeeps ==
    ASSUME CronAssumption, StartInv, Crash
    PROVE  StartInv'
  <1> USE DEF StartInv
  <1>1. /\ Rollback /\ stage' = "schema" /\ crashes' \in 0..MaxCrashes
        /\ UNCHANGED <<accounts, crontab, settled, columns, admin, packs, misled>>
    BY StartupAssumption DEF Crash, StartTypeOK
  <1>2. CASE stage \notin TxStages
    <2>1. journal = {} /\ copy = {} /\ Committed = Current
      BY <1>2, CommittedNow DEF JournalOK
    <2>2. UNCHANGED <<sites, jobs, table, probe, copy>> /\ journal' = {}
      BY <1>1, <2>1 DEF Rollback, Current
    <2>3. CronInv' /\ Resting'
      <3>1. JobsHaveSite' /\ OneLive'
        BY <2>2 DEF CronInv, JobsHaveSite, OneLive
      <3>2. sites' \in [Sites -> {"free", "live", "deleted"}] /\ jobs' \in [Jobs -> Job]
        BY <2>2 DEF CronInv, CronTypeOK
      <3> QED BY <1>1, <2>2, <3>1, <3>2, CrashLeaves, RestKeeps
    <2>4. SettledInStep => SettledInStep'
      BY <1>1, <2>2 DEF SettledInStep, Lines, JobsOf
    <2>5. StartTypeOK'
      BY <1>1, <2>2 DEF StartTypeOK, Stages
    <2>6. JournalOK' /\ SeedsOK' /\ TableOK'
      BY <1>1, <1>2, <2>1, <2>2, <2>4 DEF JournalOK, SeedsOK, TableOK, TxStages
    <2> QED BY <1>1, <2>3, <2>5, <2>6
  <1>3. CASE stage \in TxStages
    <2>1. PICK d \in Database : journal = {d} /\ OriginOK(d) /\ StatementOK(d)
      BY <1>3, Origin
    <2>2. /\ sites' = d.sites /\ jobs' = d.jobs /\ table' = d.table /\ probe' = d.probe
          /\ copy' = {} /\ journal' = {}
      BY <1>1, <2>1, CommittedIs DEF Rollback, OriginOK
    <2>3. CronInv' /\ Resting'
      <3>1. JobsHaveSite' /\ OneLive'
        BY <2>1, <2>2 DEF OriginOK, JobsHaveSite, OneLive
      <3>2. sites' \in [Sites -> {"free", "live", "deleted"}] /\ jobs' \in [Jobs -> Job]
        BY <2>2 DEF Database
      <3> QED BY <1>1, <2>1, <2>2, <3>1, <3>2, CrashLeaves, RestKeeps DEF OriginOK
    <2>4. /\ table' # "none" /\ (table' = "old" => settled = {})
          /\ ~probe' /\ ~misled => settled = {}
          /\ table' = "old" \/ probe' => admin /\ packs >= 1
      BY <2>1, <2>2 DEF OriginOK
    <2>5. ~probe' /\ ~misled => SettledInStep'
      BY <1>1, <2>4 DEF SettledInStep
    <2>6. StartTypeOK'
      BY <1>1, <2>1, <2>2 DEF StartTypeOK, Stages, Database
    <2>7. JournalOK' /\ SeedsOK' /\ TableOK'
      BY <1>1, <1>3, <2>2, <2>4, <2>5 DEF JournalOK, SeedsOK, TableOK, TxStages
    <2> QED BY <1>1, <2>3, <2>6, <2>7
  <1> QED BY <1>2, <1>3

------------------------------------------------------------------------------
(* Requests and late calls.                                                *)

LEMMA ServeKeeps ==
    ASSUME CronAssumption, StartInv, Serve
    PROVE  StartInv'
  <1> USE DEF StartInv
  <1>1. PICK p \in Procs : Handle(p)
    BY DEF Serve
  <1>2. stage = "up" /\ UNCHANGED startVars
    BY DEF Serve
  <1>3. CronInv' /\ (SettledInStep => SettledInStep')
    BY <1>1, HandleKeeps
  <1>4. StartTypeOK' /\ JournalOK' /\ SeedsOK'
    BY <1>2 DEF startVars, StartTypeOK, JournalOK, SeedsOK, TxStages
  <1>5. TableOK'
    BY <1>2, <1>3 DEF startVars, TableOK, TxStages
  <1> QED BY <1>2, <1>3, <1>4, <1>5 DEF startVars

LEMMA LateCallKeeps ==
    ASSUME CronAssumption, StartInv, LateCall
    PROVE  StartInv'
  <1> USE DEF StartInv
  <1>1. RunLate /\ UNCHANGED startVars /\ UNCHANGED <<sites, jobs, req, settled>>
    BY DEF LateCall, RunLate
  <1>2. CronInv' /\ (SettledInStep => SettledInStep')
    BY <1>1, RunLateKeeps
  <1>3. StartTypeOK' /\ SeedsOK' /\ (stage' # "up" => Resting')
    BY <1>1 DEF startVars, StartTypeOK, SeedsOK, Resting
  <1>4. JournalOK'
    BY <1>1 DEF startVars, JournalOK, OriginOK, StatementOK, RowsOf, Live
  <1>5. TableOK'
    BY <1>1, <1>2 DEF startVars, TableOK
  <1> QED BY <1>2, <1>3, <1>4, <1>5

LEMMA InitKeeps ==
    ASSUME CronAssumption, StartupAssumption, Init
    PROVE  StartInv
  <1>1. /\ stage = "schema" /\ probe = FALSE /\ columns = FALSE
        /\ copy = {} /\ journal = {} /\ misled = FALSE /\ crashes = 0
    BY DEF Init
  <1>2. /\ CronInv /\ SettledInStep /\ Resting /\ settled = {}
        /\ table \in {"none", "old"} /\ admin \in BOOLEAN /\ packs \in 0..3
        /\ table = "old" => admin /\ packs >= 1
    <2>1. CASE CronInit /\ table = "none" /\ admin = FALSE /\ packs = 0
      <3>1. CronStart({}, {})
        BY <2>1 DEF CronInit
      <3>2. CronInv /\ SettledInStep
        BY <3>1, CronStartOK
      <3>3. Resting /\ settled = {}
        BY <3>1 DEF CronStart, Resting, Idle, Ask
      <3>4. packs \in 0..3
        BY <2>1
      <3>5. admin \in BOOLEAN
        BY <2>1
      <3> QED BY <2>1, <3>2, <3>3, <3>4, <3>5
    <2>2. CASE CronStart(OldSites, OldJobs) /\ table = "old" /\ admin = TRUE /\ packs = 3
      <3>1. CronInv /\ SettledInStep
        BY <2>2, CronStartOK DEF StartupAssumption
      <3>2. Resting /\ settled = {}
        BY <2>2 DEF CronStart, Resting, Idle, Ask
      <3>3. packs \in 0..3 /\ packs >= 1
        BY <2>2
      <3>4. admin \in BOOLEAN /\ admin
        BY <2>2
      <3> QED BY <2>2, <3>1, <3>2, <3>3, <3>4
    <2> QED BY <2>1, <2>2 DEF Init
  <1>3. StartTypeOK
    <2>1. crashes \in 0..MaxCrashes
      BY <1>1, StartupAssumption
    <2>2. stage \in Stages
      BY <1>1 DEF Stages
    <2>3. probe \in BOOLEAN /\ columns \in BOOLEAN
      BY <1>1
    <2> QED BY <1>1, <1>2, <2>1, <2>2, <2>3 DEF StartTypeOK
  <1>4. JournalOK /\ TableOK /\ SeedsOK
    BY <1>1, <1>2 DEF JournalOK, TableOK, SeedsOK, TxStages
  <1> QED BY <1>2, <1>3, <1>4 DEF StartInv

LEMMA StartStepKeeps ==
    ASSUME CronAssumption, StartInv, StartStep
    PROVE  StartInv'
  BY SchemaKeeps, ProbeKeeps, CleanKeeps, CreateNewKeeps, CopyRowsKeeps, DropOldKeeps,
     RenameNewKeeps, CommitKeeps, AddColumnsKeeps, SeedAdminKeeps, SeedPackagesKeeps,
     SeedMoreKeeps DEF StartStep

LEMMA StutterKeeps ==
    ASSUME CronAssumption, StartInv, UNCHANGED vars
    PROVE  StartInv'
  <1> USE DEF StartInv
  <1>1. UNCHANGED cronVars /\ UNCHANGED startVars
    BY DEF vars
  <1>2. CronInv' /\ (SettledInStep => SettledInStep') /\ (stage' # "up" => Resting')
    <2>1. UNCHANGED <<sites, jobs, accounts, crontab, req, late, settled>>
      BY <1>1 DEF cronVars
    <2>2. CronTypeOK' /\ JobInv' /\ OnlyOwnJobs' /\ JobsHaveSite' /\ OneLive'
      BY <2>1 DEF CronInv, CronTypeOK, JobInv, OnlyOwnJobs, JobsHaveSite, OneLive
    <2>3. RequestInv' /\ AloneInv' /\ LateInv' /\ SettledInv'
      <3>1. RequestInv'
        BY <2>1 DEF CronInv, RequestInv, RequestOK, Known
      <3>2. AloneInv'
        BY <2>1 DEF CronInv, AloneInv, AloneOK, NoLate, OthersOff, JobsOf, Busy
      <3>3. LateInv'
        BY <2>1 DEF CronInv, LateInv, Known
      <3>4. SettledInv'
        BY <2>1 DEF CronInv, SettledInv, NoLate, Busy
      <3> QED BY <3>1, <3>2, <3>3, <3>4
    <2>4. SettledInStep => SettledInStep'
      BY <2>1 DEF SettledInStep, Lines, JobsOf
    <2>5. stage' # "up" => Resting'
      BY <1>1, <2>1 DEF startVars, Resting
    <2> QED BY <2>2, <2>3, <2>4, <2>5 DEF CronInv
  <1>3. StartTypeOK' /\ SeedsOK'
    BY <1>1 DEF startVars, StartTypeOK, SeedsOK
  <1>4. JournalOK'
    BY <1>1 DEF cronVars, startVars, JournalOK, OriginOK, StatementOK, RowsOf, Live
  <1>5. TableOK'
    BY <1>1, <1>2 DEF cronVars, startVars, TableOK
  <1> QED BY <1>2, <1>3, <1>4, <1>5

LEMMA NextKeeps ==
    ASSUME CronAssumption, StartInv, [Next]_vars
    PROVE  StartInv'
  BY StartStepKeeps, ServeKeeps, LateCallKeeps, CrashKeeps, StutterKeeps DEF Next

------------------------------------------------------------------------------
(* What the file holds.                                                    *)

LEMMA CommittedNext ==
    ASSUME NEW d, journal' = {d}
    PROVE  Committed' = d
  BY DEF Committed

LEMMA CommittedThen ==
    ASSUME journal' = {}
    PROVE  /\ Committed'.sites = sites' /\ Committed'.jobs = jobs'
  BY DEF Committed, Current

(* A step of a start, or a late call, leaves the sites of the file alone,  *)
(* and its jobs unless it commits a rebuild.                               *)
LEMMA StartStepHolds ==
    ASSUME StartInv, StartStep \/ LateCall
    PROVE  /\ Committed'.sites = Committed.sites
           /\ \/ Committed'.jobs = Committed.jobs
              \/ Committed.table = "old" \/ Committed.probe \/ misled
  <1> USE DEF StartInv
  <1>1. CASE Commit
    <2>1. PICK d \in Database : journal = {d} /\ OriginOK(d) /\ StatementOK(d)
      BY <1>1, Origin DEF Commit, TxStages
    <2>2. Committed = d /\ sites = d.sites /\ (d.table = "old" \/ d.probe \/ misled)
      BY <1>1, <2>1, CommittedIs DEF Commit, OriginOK, StatementOK
    <2> QED BY <1>1, <2>2, CommittedThen DEF Commit
  <1>2. CASE CreateNew
    <2>1. journal = {} /\ journal' = {Current}
      BY <1>2 DEF CreateNew, JournalOK, TxStages
    <2>2. PICK d : d = Current
      OBVIOUS
    <2>3. journal' = {d} /\ Committed = d
      BY <2>1, <2>2, CommittedNow
    <2> QED BY <2>3, CommittedNext
  <1>3. CASE UNCHANGED journal /\ stage \in TxStages
    <2>1. PICK d \in Database : journal = {d} /\ OriginOK(d) /\ StatementOK(d)
      BY <1>3, Origin
    <2>2. journal' = {d}
      BY <1>3, <2>1
    <2> QED BY <2>1, <2>2, CommittedIs, CommittedNext
  <1>4. CASE UNCHANGED <<journal, sites, jobs>> /\ stage \notin TxStages
    <2>1. journal = {} /\ journal' = {}
      BY <1>4 DEF JournalOK
    <2> QED BY <1>4, <2>1, CommittedNow, CommittedThen DEF Current
  <1>5. CASE LateCall
    <2>1. UNCHANGED <<journal, sites, jobs>>
      BY <1>5 DEF LateCall, RunLate, startVars
    <2> QED BY <2>1, <1>3, <1>4
  <1>6. CASE CopyRows \/ DropOld \/ RenameNew
    <2>1. UNCHANGED journal /\ stage \in TxStages
      BY <1>6 DEF CopyRows, DropOld, RenameNew, TxStages
    <2> QED BY <2>1, <1>3
  <1>7. CASE \/ Schema \/ Probe \/ Clean \/ AddColumns
             \/ SeedAdmin \/ SeedPackages \/ SeedMore
    <2>1. UNCHANGED <<journal, sites, jobs>> /\ stage \notin TxStages
      BY <1>7 DEF Schema, Probe, Clean, AddColumns, SeedAdmin, SeedPackages, SeedMore, TxStages
    <2> QED BY <2>1, <1>4
  <1> QED BY <1>1, <1>2, <1>5, <1>6, <1>7 DEF StartStep

LEMMA CrashHolds ==
    ASSUME Crash
    PROVE  Committed'.sites = Committed.sites /\ Committed'.jobs = Committed.jobs
  <1>1. journal' = {} /\ sites' = Committed.sites /\ jobs' = Committed.jobs
    BY DEF Crash, Rollback
  <1> QED BY <1>1, CommittedThen

LEMMA NextHolds ==
    ASSUME StartInv, Next, stage # "up"
    PROVE  /\ Committed'.sites = Committed.sites
           /\ \/ Committed'.jobs = Committed.jobs
              \/ Committed.table = "old" \/ Committed.probe \/ misled
  <1>1. ~Serve
    BY DEF Serve
  <1> QED BY <1>1, StartStepHolds, CrashHolds DEF Next

------------------------------------------------------------------------------
(* The theorems.                                                           *)

(* The invariant holds in every state, whatever start was cut where.       *)
THEOREM StartupInvariant == Spec => []StartInv
  <1>1. Init => StartInv
    BY InitKeeps, CronAssumption, StartupAssumption
  <1>2. StartInv /\ [Next]_vars => StartInv'
    BY NextKeeps, CronAssumption
  <1> QED BY <1>1, <1>2, PTL DEF Spec

(* Every variable keeps its type; the journal holds one database at most.  *)
THEOREM StartupTypeOK == Spec => []TypeOK
  <1>1. StartInv => TypeOK
    <2> SUFFICES ASSUME StartInv PROVE TypeOK
      OBVIOUS
    <2> USE DEF StartInv
    <2>1. CronTypeOK /\ StartTypeOK
      BY DEF CronInv
    <2>2. Current \in Database
      BY <2>1 DEF Current, Database, CronTypeOK, StartTypeOK
    <2>3. journal \subseteq Database /\ Cardinality(journal) <= 1
      <3>1. CASE journal = {}
        BY <3>1, FS_EmptySet
      <3>2. CASE \E d \in Database : journal = {d}
        <4>1. PICK d \in Database : journal = {d}
          BY <3>2
        <4>2. Cardinality({d}) = 1
          BY FS_Singleton
        <4> QED BY <4>1, <4>2
      <3> QED BY <3>1, <3>2 DEF JournalOK
    <2> QED BY <2>1, <2>2, <2>3 DEF TypeOK, StartTypeOK
  <1> QED BY <1>1, StartupInvariant, PTL

(* No job without its site, whatever the interleaving of requests, late    *)
(* calls, crashes and rebuilds.                                            *)
THEOREM NoStrayJob == Spec => []JobsHaveSite
  <1>1. StartInv => JobsHaveSite
    BY DEF StartInv, CronInv
  <1> QED BY <1>1, StartupInvariant, PTL

(* An account runs nothing but enabled jobs entered for its sites.         *)
THEOREM NoForeignJob == Spec => []OnlyOwnJobs
  <1>1. StartInv => OnlyOwnJobs
    BY DEF StartInv, CronInv
  <1> QED BY <1>1, StartupInvariant, PTL

(* The crontab an undisturbed request was told of stays what the table     *)
(* says, across crashes, until a start leaves its probe row or is misled   *)
(* by an INSERT that failed for a reason of its own.                       *)
THEOREM CrontabInStep == Spec => []SettledAcrossStarts
  <1>1. StartInv => SettledAcrossStarts
    <2> SUFFICES ASSUME StartInv, ~Committed.probe, ~misled PROVE SettledInStep
      BY DEF SettledAcrossStarts
    <2> USE DEF StartInv
    <2>1. CASE stage \in TxStages
      <3>1. PICK d \in Database : journal = {d} /\ OriginOK(d) /\ StatementOK(d)
        BY <2>1, Origin
      <3>2. settled = {}
        BY <3>1, CommittedIs DEF OriginOK
      <3> QED BY <3>2, NothingSettled
    <2>2. CASE stage \notin TxStages
      <3>1. ~probe
        BY <2>2, CommittedNow DEF JournalOK, Current
      <3> QED BY <2>2, <3>1 DEF TableOK
    <2> QED BY <2>1, <2>2
  <1> QED BY <1>1, StartupInvariant, PTL

(* A server that answers has its administrator, its first package, its     *)
(* columns, and no rebuild half done.                                      *)
THEOREM AlwaysSeeded == Spec => []ServesSeeded
  <1>1. StartInv => ServesSeeded
    BY DEF StartInv, ServesSeeded, SeedsOK, TableOK, JournalOK, TxStages
  <1> QED BY <1>1, StartupInvariant, PTL

(* The rebuild never meets the table of an earlier one.                    *)
THEOREM NeverBlocked == Spec => []RebuildNeverBlocked
  <1>1. StartInv => RebuildNeverBlocked
    BY DEF StartInv, RebuildNeverBlocked, JournalOK, TxStages
  <1> QED BY <1>1, StartupInvariant, PTL

(* No start loses a site, wherever it is cut.                              *)
THEOREM NoSiteLost == Spec => SitesKept
  <1>1. StartInv /\ [Next]_vars => [stage # "up" => Committed.sites' = Committed.sites]_vars
    BY NextHolds
  <1> QED BY <1>1, StartupInvariant, PTL DEF Spec, SitesKept

(* No start deletes a cron job of a current table without a probe row,     *)
(* unless an INSERT of the probe has failed for a reason of its own: not   *)
(* a start cut anywhere else, nor any request that ran before it.          *)
THEOREM NoJobLost == Spec => JobsKept
  <1>1. StartInv /\ [Next]_vars =>
           [stage # "up" /\ Committed.table = "new" /\ ~Committed.probe /\ ~misled
               => Committed.jobs' = Committed.jobs]_vars
    BY NextHolds
  <1> QED BY <1>1, StartupInvariant, PTL DEF Spec, JobsKept

------------------------------------------------------------------------------
(* What happens to the file, as DatabaseFile has it.                       *)

FileStays ==
    /\ Committed'.sites = Committed.sites /\ Committed'.jobs = Committed.jobs
    /\ Committed'.table = Committed.table /\ Committed'.probe = Committed.probe

FileStep == File!Next \/ UNCHANGED File!file

(* A request is about a site that was entered.                             *)
OnRows == \A p \in Procs : req[p].pc # "idle" => sites[req[p].site] # "free"

FileInv == StartInv /\ OnRows

(* With no transaction under way the file holds what the connection sees.  *)
LEMMA NowOnFile ==
    ASSUME journal = {}
    PROVE  /\ Committed.sites = sites /\ Committed.jobs = jobs
           /\ Committed.table = table /\ Committed.probe = probe
  BY DEF Committed, Current

LEMMA ThenOnFile ==
    ASSUME journal' = {}
    PROVE  /\ Committed'.sites = sites' /\ Committed'.jobs = jobs'
           /\ Committed'.table = table' /\ Committed'.probe = probe'
  BY DEF Committed, Current

(* What the connection changes in a transaction stays out of the file.     *)
LEMMA InTransaction ==
    ASSUME StartInv, stage \in TxStages, UNCHANGED journal
    PROVE  FileStays
  <1>1. PICK d \in Database : journal = {d}
    BY Origin
  <1>2. journal' = {d}
    BY <1>1
  <1> QED BY <1>1, <1>2, CommittedIs, CommittedNext DEF FileStays

LEMMA NothingWritten ==
    ASSUME StartInv, stage \notin TxStages, UNCHANGED <<journal, sites, jobs, table, probe>>
    PROVE  FileStays
  <1>1. journal = {} /\ journal' = {}
    BY DEF StartInv, JournalOK
  <1> QED BY <1>1, NowOnFile, ThenOnFile DEF FileStays

(* A step that leaves the file alone may open or end the server.           *)
LEMMA OnlyServer ==
    ASSUME FileStays, stage # "up" /\ stage' = "up" => Committed.table = "new"
    PROVE  FileStep
  <1>1. CASE (stage = "up") = (stage' = "up")
    BY <1>1 DEF FileStays, FileStep, File!file
  <1>2. CASE stage # "up" /\ stage' = "up"
    <2>1. File!Open
      BY <1>2 DEF FileStays, File!Open
    <2> QED BY <2>1 DEF FileStep, File!Next
  <1>3. CASE stage = "up" /\ stage' # "up"
    <2>1. File!Die
      BY <1>3 DEF FileStays, File!Die
    <2> QED BY <2>1 DEF FileStep, File!Next
  <1> QED BY <1>1, <1>2, <1>3

(* Nothing but the COMMIT of a rebuild changes the jobs or the table of a  *)
(* file that has one: every job of the database it began with is gone, and *)
(* every site there.                                                       *)
LEMMA CommitOnFile ==
    ASSUME StartInv, Commit
    PROVE  FileStep
  <1> USE DEF StartInv
  <1>1. PICK d \in Database : journal = {d} /\ OriginOK(d) /\ StatementOK(d)
    BY Origin DEF Commit, TxStages
  <1>2. Committed = d /\ journal' = {}
    BY <1>1, CommittedIs DEF Commit
  <1>3. /\ Committed'.sites = d.sites /\ Committed'.jobs = jobs
        /\ Committed'.table = "new" /\ Committed'.probe = d.probe
    BY <1>1, <1>2, ThenOnFile DEF Commit, StatementOK
  <1>4. ASSUME NEW j \in Jobs
        PROVE  jobs[j] = IF d.jobs[j].state = "row" /\ d.jobs[j].site \in Sites
                         THEN [d.jobs[j] EXCEPT !.state = "gone"] ELSE d.jobs[j]
    <2>1. jobs[j] \in Job /\ d.jobs[j] \in Job /\ jobs[j].state # "row"
      BY <1>1 DEF CronInv, CronTypeOK, Database, Commit, StatementOK
    <2>2. /\ d.jobs[j].site = jobs[j].site /\ d.jobs[j].kind = jobs[j].kind
          /\ d.jobs[j].state = "free" <=> jobs[j].state = "free"
      BY <1>1 DEF OriginOK
    <2>3. d.jobs[j].state = "row" => d.jobs[j].site \in Sites
      BY <2>1, <2>2 DEF CronInv, JobInv, Job
    <2>4. CASE d.jobs[j].state = "row"
      <3>1. jobs[j].state = "gone"
        BY <2>1, <2>2, <2>4 DEF Job
      <3> QED BY <2>1, <2>2, <2>3, <2>4, <3>1 DEF Job
    <2>5. CASE d.jobs[j].state # "row"
      <3>1. jobs[j].state = d.jobs[j].state
        BY <2>1, <2>2, <2>5 DEF Job
      <3> QED BY <2>1, <2>2, <2>5, <3>1 DEF Job
    <2> QED BY <2>4, <2>5
  <1>5. jobs = [j \in Jobs |-> IF d.jobs[j].state = "row" /\ d.jobs[j].site \in Sites
                               THEN [d.jobs[j] EXCEPT !.state = "gone"] ELSE d.jobs[j]]
    <2>1. jobs \in [Jobs -> Job]
      BY DEF CronInv, CronTypeOK
    <2> QED BY <1>4, <2>1
  <1>6. Committed'.jobs = File!JobsWithout(Sites)
    BY <1>2, <1>3, <1>5 DEF File!JobsWithout
  <1>7. d.table = "old" \/ d.probe \/ "probe" \in FailingSQL
    BY <1>1 DEF OriginOK, TableOK
  <1>8. File!Rebuild
    BY <1>2, <1>3, <1>6, <1>7 DEF File!Rebuild
  <1>9. File!Update
    BY <1>8 DEF File!Update, Commit
  <1> QED BY <1>9 DEF FileStep, File!Next

LEMMA StartOnFile ==
    ASSUME StartInv, StartStep
    PROVE  FileStep
  <1> USE DEF StartInv
  <1>1. CASE Schema
    <2>1. stage = "schema" /\ stage' = "probe" /\ journal = {} /\ journal' = {}
      BY <1>1 DEF Schema, JournalOK, TxStages
    <2>2. CASE table = "none"
      <3>1. File!Create
        BY <1>1, <2>1, <2>2, NowOnFile, ThenOnFile DEF Schema, File!Create
      <3> QED BY <2>1, <3>1 DEF File!Update, File!Next, FileStep
    <2>3. CASE table # "none"
      BY <1>1, <2>1, <2>3, NothingWritten, OnlyServer DEF Schema, TxStages
    <2> QED BY <2>2, <2>3
  <1>2. CASE Probe \/ Clean
    <2>1. /\ stage \in {"probe", "clean"} /\ stage' \notin {"up"} /\ journal = {} /\ journal' = {}
          /\ UNCHANGED <<sites, jobs, table>> /\ table \in {"old", "new"} /\ probe \in BOOLEAN
      BY <1>2 DEF Probe, Clean, JournalOK, TxStages, TableOK, StartTypeOK
    <2>2. CASE probe' = probe
      BY <2>1, <2>2, NothingWritten, OnlyServer DEF TxStages
    <2>3. CASE probe' # probe
      <3>1. table = "new" /\ probe' = ~probe
        <4>1. CASE Probe
          BY <2>1, <2>3, <4>1 DEF Probe
        <4>2. CASE Clean
          BY <2>1, <2>3, <4>2 DEF Clean, TableOK
        <4> QED BY <1>2, <4>1, <4>2
      <3>2. File!TryOut
        BY <2>1, <3>1, NowOnFile, ThenOnFile DEF File!TryOut
      <3> QED BY <2>1, <3>2 DEF File!Update, File!Next, FileStep
    <2> QED BY <2>2, <2>3
  <1>3. CASE CreateNew
    <2>1. stage' # "up" /\ journal = {} /\ journal' = {Current}
      BY <1>3 DEF CreateNew, JournalOK, TxStages
    <2>2. PICK d : d = Current
      OBVIOUS
    <2>3. FileStays
      BY <2>1, <2>2, CommittedNow, CommittedNext DEF FileStays
    <2> QED BY <2>1, <2>3, OnlyServer
  <1>4. CASE CopyRows \/ DropOld \/ RenameNew
    <2>1. UNCHANGED journal /\ stage \in TxStages /\ stage' # "up"
      BY <1>4 DEF CopyRows, DropOld, RenameNew, TxStages
    <2> QED BY <2>1, InTransaction, OnlyServer
  <1>5. CASE AddColumns \/ SeedAdmin \/ SeedPackages \/ SeedMore
    <2>1. /\ UNCHANGED <<journal, sites, jobs, table, probe>> /\ stage \notin TxStages
          /\ stage \in {"columns", "admin", "packages", "more"}
      BY <1>5 DEF AddColumns, SeedAdmin, SeedPackages, SeedMore, TxStages
    <2>2. Committed.table = "new"
      BY <2>1, NowOnFile DEF JournalOK, TableOK
    <2> QED BY <2>1, <2>2, NothingWritten, OnlyServer
  <1> QED BY <1>1, <1>2, <1>3, <1>4, <1>5, CommitOnFile DEF StartStep

(* A request writes one row, by one statement, if it writes at all.        *)
LEMMA RequestOnFile ==
    ASSUME CronAssumption, FileInv, stage = "up", UNCHANGED startVars,
           NEW p \in Procs, Handle(p)
    PROVE  FileStep
  <1> USE DEF FileInv, StartInv
  <1>1. /\ stage' = "up" /\ journal = {} /\ journal' = {}
        /\ UNCHANGED <<table, probe>>
    BY DEF startVars, JournalOK, TxStages
  <1>2. CASE UNCHANGED <<sites, jobs>>
    BY <1>1, <1>2, NothingWritten, OnlyServer DEF TxStages
  <1>3. ASSUME \/ \E s \in Sites : File!AddSite(s) \/ File!EndSite(s)
               \/ \E j \in Jobs : File!AddJob(j) \/ File!EndJob(j)
        PROVE  FileStep
    <2>1. File!Change
      BY <1>1, <1>3, NowOnFile, ThenOnFile DEF File!Change
    <2> QED BY <2>1 DEF FileStep, File!Next
  <1>4. CASE InsertJob(p)
    <2>1. CASE sites[req[p].site] = "live" /\ AddJob(req[p].site)
      <3>2. PICK j \in Jobs : j = (CHOOSE i \in FreshJobs : TRUE) /\ jobs[j].state = "free"
        BY <2>1 DEF AddJob, FreshJobs
      <3>1. PICK k \in JobKinds : jobs' = [jobs EXCEPT ![j] =
                                            [state |-> "row", site |-> req[p].site, kind |-> k]]
        BY <2>1, <3>2 DEF AddJob, CronAssumption
      <3>3. req[p].site \in Sites /\ UNCHANGED sites
        BY <1>4, Stands DEF InsertJob, RequestOK
      <3>4. /\ Committed'.jobs = [Committed.jobs EXCEPT ![j] =
                                    [state |-> "row", site |-> req[p].site, kind |-> k]]
            /\ Committed.jobs[j].state = "free" /\ Committed.sites[req[p].site] = "live"
            /\ Committed'.sites = Committed.sites
        BY <1>1, <2>1, <3>1, <3>2, <3>3, NowOnFile, ThenOnFile
      <3>5. File!AddJob(j)
        BY <3>3, <3>4 DEF File!AddJob
      <3> QED BY <3>2, <3>5, <1>3
    <2> QED BY <1>2, <1>4, <2>1 DEF InsertJob
  <1>5. CASE EraseJob(p)
    <2>1. CASE jobs[req[p].job].state = "row"
      <3>1. req[p].job \in Jobs
        BY <1>5, Stands DEF EraseJob, RequestOK
      <3>2. File!EndJob(req[p].job)
        BY <1>1, <1>5, <2>1, NowOnFile, ThenOnFile DEF EraseJob, File!EndJob
      <3> QED BY <3>1, <3>2, <1>3
    <2>2. CASE jobs[req[p].job].state # "row"
      BY <1>2, <1>5, <2>2 DEF EraseJob
    <2> QED BY <2>1, <2>2
  <1>6. CASE OrderSite(p)
    <2>1. PICK s \in Sites : sites[s] = "free" /\ sites' = [sites EXCEPT ![s] = "live"]
      BY <1>6, NextIsFree DEF OrderSite
    <2>2. File!AddSite(s)
      BY <1>1, <1>6, <2>1, NowOnFile, ThenOnFile DEF OrderSite, File!AddSite
    <2> QED BY <2>2, <1>3
  <1>7. CASE DropSite(p)
    <2>1. PICK s \in Sites : s = req[p].site /\ sites[s] \in {"live", "deleted"}
      <3>1. req[p].site \in Sites /\ req[p].pc # "idle"
        BY <1>7, Stands DEF DropSite, RequestOK
      <3> QED BY <3>1 DEF OnRows, CronInv, CronTypeOK
    <2>2. /\ sites' = [sites EXCEPT ![s] = "deleted"]
          /\ jobs' = [j \in Jobs |-> IF jobs[j].state = "row" /\ jobs[j].site \in {s}
                                     THEN [jobs[j] EXCEPT !.state = "gone"] ELSE jobs[j]]
      BY <1>7, <2>1 DEF DropSite, Cascade
    <2>3. CASE sites[s] = "live"
      <3>0. Committed'.jobs = File!JobsWithout({s})
        BY <1>1, <2>2, NowOnFile, ThenOnFile DEF File!JobsWithout
      <3>1. File!EndSite(s)
        BY <1>1, <2>2, <2>3, <3>0, NowOnFile, ThenOnFile DEF File!EndSite
      <3> QED BY <3>1, <1>3
    <2>4. CASE sites[s] = "deleted"
      <3>1. sites \in [Sites -> {"free", "live", "deleted"}] /\ jobs \in [Jobs -> Job]
        BY DEF CronInv, CronTypeOK
      <3>2. \A j \in Jobs : ~(jobs[j].state = "row" /\ jobs[j].site = s)
        BY <2>4 DEF CronInv, JobsHaveSite
      <3>3. UNCHANGED <<sites, jobs>>
        BY <2>2, <2>4, <3>1, <3>2
      <3> QED BY <3>3, <1>2
    <2> QED BY <2>1, <2>3, <2>4
  <1> QED BY <1>2, <1>4, <1>5, <1>6, <1>7
          DEF Handle, CreateCron, DeleteCron, ListJobs, Sync, MakeAccount, RemoveSite, Destroy

(* DELETE of a site leaves a row of the past; no other request frees one.  *)
LEMMA RequestOnRows ==
    ASSUME CronAssumption, FileInv, NEW p \in Procs, Handle(p)
    PROVE  OnRows'
  <1> USE DEF FileInv, StartInv
  <1>1. \A s \in Sites : sites[s] # "free" => sites'[s] # "free"
    BY DEF Handle, CreateCron, DeleteCron, ListJobs, Sync, MakeAccount, RemoveSite, Destroy,
           InsertJob, EraseJob, OrderSite, DropSite, CronInv, CronTypeOK
  <1>2. ASSUME NEW q \in Procs, req[q].pc # "idle",
               req'[q].pc = "idle" \/ req'[q].site = req[q].site
        PROVE  req'[q].pc # "idle" => sites'[req'[q].site] # "free"
    <2>1. req[q].site \in Sites
      BY <1>2, Stands DEF RequestOK
    <2> QED BY <1>1, <1>2, <2>1 DEF OnRows
  <1>3. ASSUME NEW s \in Sites, NEW q \in Request, q.pc # "idle", q.site = s, Begin(p, q), sites'[s] # "free"
        PROVE  OnRows'
    <2> SUFFICES ASSUME NEW r \in Procs, req'[r].pc # "idle" PROVE sites'[req'[r].site] # "free"
      BY DEF OnRows
    <2>1. CASE r = p
      <3>1. req'[p].site = s
        BY <1>3 DEF Begin, Request
      <3> QED BY <1>3, <2>1, <3>1
    <2>2. CASE r # p
      <3>1. req'[r].pc = req[r].pc /\ req'[r].site = req[r].site
        BY <1>3, <2>2, Stands DEF Begin, Request
      <3> QED BY <3>1, <1>2
    <2> QED BY <2>1, <2>2
  <1>4. ASSUME NEW s \in Sites, sites[s] = "live",
               NEW pc \in {"insert", "erase", "destroy"}, NEW j \in Jobs \cup {NoJob}, Begin(p, Ask(pc, s, j)),
               UNCHANGED sites
        PROVE  OnRows'
    <2>1. /\ Ask(pc, s, j).pc # "idle" /\ Ask(pc, s, j).site = s
          /\ Ask(pc, s, j) \in Request
      BY <1>4 DEF Ask, Request, PCs
    <2> QED BY <1>1, <1>3, <1>4, <2>1
  <1>5. CASE CreateCron(p)
    BY <1>4, <1>5 DEF CreateCron
  <1>6. CASE DeleteCron(p)
    <2>1. PICK j \in Jobs : /\ jobs[j].state # "free" /\ sites[jobs[j].site] = "live"
                           /\ Begin(p, Ask("erase", jobs[j].site, j))
      BY <1>6 DEF DeleteCron
    <2>2. jobs[j].site \in Sites
      BY <2>1 DEF CronInv, JobInv
    <2> QED BY <1>4, <1>6, <2>1, <2>2 DEF DeleteCron
  <1>7. CASE RemoveSite(p)
    BY <1>4, <1>7 DEF RemoveSite
  <1>8. CASE OrderSite(p)
    <2>1. PICK s \in Sites : /\ Begin(p, Ask("useradd", s, NoJob))
                            /\ sites' = [sites EXCEPT ![s] = "live"]
      BY <1>8, NextIsFree DEF OrderSite
    <2>2. sites'[s] # "free"
      BY <2>1 DEF CronInv, CronTypeOK
    <2>3. /\ Ask("useradd", s, NoJob).pc # "idle" /\ Ask("useradd", s, NoJob).site = s
          /\ Ask("useradd", s, NoJob) \in Request
      BY DEF Ask, Request, PCs
    <2> QED BY <1>3, <2>1, <2>2, <2>3
  <1>9. CASE \/ InsertJob(p) \/ EraseJob(p) \/ ListJobs(p) \/ Sync(p)
             \/ MakeAccount(p) \/ Destroy(p) \/ DropSite(p)
    <2>1. /\ req[p].pc # "idle" /\ req \in [Procs -> Request]
          /\ \/ End(p) \/ \E pc \in PCs : Goto(p, pc)
             \/ req' = [req EXCEPT ![p].pc = "sync", ![p].list = JobsOf(req[p].site)]
      BY <1>9 DEF InsertJob, EraseJob, ListJobs, Sync, MakeAccount, Destroy, DropSite, PCs,
                  CronInv, CronTypeOK
    <2>2. ASSUME NEW r \in Procs
          PROVE  req'[r].pc = "idle" \/ (req[r].pc # "idle" /\ req'[r].site = req[r].site)
      <3>1. CASE r # p
        BY <2>1, <3>1 DEF End, Goto
      <3>2. CASE r = p
        <4>1. req[p] \in Request
          BY <2>1
        <4> QED BY <2>1, <3>2, <4>1 DEF End, Goto, Idle, Ask, Request
      <3> QED BY <3>1, <3>2
    <2> QED BY <1>2, <2>2 DEF OnRows
  <1> QED BY <1>5, <1>6, <1>7, <1>8, <1>9 DEF Handle

LEMMA CrashOnFile ==
    ASSUME StartInv, Crash
    PROVE  FileStep
  <1>1. /\ journal' = {} /\ stage' = "schema"
        /\ sites' = Committed.sites /\ jobs' = Committed.jobs
        /\ table' = Committed.table /\ probe' = Committed.probe
    BY DEF Crash, Rollback
  <1>2. FileStays
    BY <1>1, ThenOnFile DEF FileStays
  <1> QED BY <1>1, <1>2, OnlyServer

LEMMA LateOnFile ==
    ASSUME FileInv, LateCall
    PROVE  FileStep /\ OnRows'
  <1>1. UNCHANGED <<stage, journal, sites, jobs, table, probe, req>>
    BY DEF LateCall, RunLate, startVars
  <1>2. FileStays
    <2>1. CASE stage \in TxStages
      BY <1>1, <2>1, InTransaction DEF FileInv
    <2>2. CASE stage \notin TxStages
      BY <1>1, <2>2, NothingWritten DEF FileInv
    <2> QED BY <2>1, <2>2
  <1> QED BY <1>1, <1>2, OnlyServer DEF FileInv, OnRows

LEMMA NextOnFile ==
    ASSUME CronAssumption, FileInv, Next
    PROVE  FileStep /\ OnRows'
  <1> USE DEF FileInv
  <1>1. CASE StartStep
    <2>1. stage # "up"
      BY <1>1 DEF StartStep, Schema, Probe, Clean, CreateNew, CopyRows, DropOld, RenameNew,
                  Commit, AddColumns, SeedAdmin, SeedPackages, SeedMore
    <2>2. Resting /\ UNCHANGED req
      BY <1>1, <2>1 DEF StartStep, Schema, Probe, Clean, CreateNew, CopyRows, DropOld, RenameNew,
                        Commit, AddColumns, SeedAdmin, SeedPackages, SeedMore, Outside, Plain, StartInv
    <2> QED BY <1>1, <2>2, StartOnFile DEF OnRows, Resting
  <1>2. CASE Serve
    <2>1. PICK p \in Procs : Handle(p)
      BY <1>2 DEF Serve
    <2> QED BY <1>2, <2>1, RequestOnFile, RequestOnRows DEF Serve
  <1>3. CASE Crash
    <2>1. OnRows'
      BY <1>3 DEF Crash, OnRows, Idle, Ask
    <2> QED BY <1>3, <2>1, CrashOnFile
  <1> QED BY <1>1, <1>2, <1>3, LateOnFile DEF Next

LEMMA InitOnFile ==
    ASSUME CronAssumption, StartupAssumption, Init
    PROVE  File!Init /\ FileInv
  <1>1. StartInv
    BY InitKeeps
  <1>2. /\ stage = "schema" /\ probe = FALSE /\ journal = {} /\ table \in {"none", "old"}
        /\ req = [p \in Procs |-> Idle]
    BY DEF Init, CronInit, CronStart
  <1>3. FileInv
    BY <1>1, <1>2 DEF FileInv, OnRows, Idle, Ask
  <1>4. ASSUME NEW live \in SUBSET Sites, NEW known \in SUBSET Jobs, CronStart(live, known)
        PROVE  /\ sites = [s \in Sites |-> IF s \in live THEN "live" ELSE "free"]
               /\ \A j \in Jobs : \/ jobs[j].state = "free"
                                  \/ jobs[j].state = "row" /\ sites[jobs[j].site] = "live"
    <2>1. PICK home \in live \cup {NoSite} :
            /\ home = NoSite => known = {}
            /\ jobs = [j \in Jobs |-> IF j \in known
                                     THEN [state |-> "row", site |-> home, kind |-> "line"]
                                     ELSE NoRow]
      BY <1>4 DEF CronStart
    <2>2. sites = [s \in Sites |-> IF s \in live THEN "live" ELSE "free"]
      BY <1>4 DEF CronStart
    <2>3. ASSUME NEW j \in Jobs
          PROVE  jobs[j].state = "free" \/ (jobs[j].state = "row" /\ sites[jobs[j].site] = "live")
      <3>1. CASE j \in known
        <4>1. home \in live
          BY <2>1, <3>1
        <4> QED BY <2>1, <2>2, <3>1, <4>1
      <3>2. CASE j \notin known
        BY <2>1, <3>2 DEF NoRow
      <3> QED BY <3>1, <3>2
    <2> QED BY <2>2, <2>3
  <1>5. /\ sites \in [Sites -> {"free", "live"}]
        /\ \A j \in Jobs : \/ jobs[j].state = "free"
                           \/ jobs[j].state = "row" /\ sites[jobs[j].site] = "live"
        /\ table = "none" => \A s \in Sites : sites[s] = "free"
    <2>1. CASE CronInit /\ table = "none"
      <3>1. CronStart({}, {})
        BY <2>1 DEF CronInit
      <3>2. {} \in SUBSET Sites /\ {} \in SUBSET Jobs
        OBVIOUS
      <3>3. sites = [s \in Sites |-> "free"]
        BY <3>1 DEF CronStart
      <3> QED BY <1>4, <2>1, <3>1, <3>2, <3>3
    <2>2. CASE CronStart(OldSites, OldJobs) /\ table = "old"
      BY <1>4, <2>2 DEF StartupAssumption
    <2> QED BY <2>1, <2>2 DEF Init
  <1>6. File!Init
    BY <1>2, <1>5, NowOnFile DEF File!Init
  <1> QED BY <1>3, <1>6

(* All that ever happens to the database file is what DatabaseFile allows, *)
(* whatever starts are cut at which statement and whatever requests, late  *)
(* calls and crashes come in between (migrate, the handlers of sites and   *)
(* cron jobs).                                                             *)
THEOREM ImplementsDatabaseFile == Spec => FileSpec
  <1>1. Init => File!Init /\ FileInv
    BY InitOnFile, CronAssumption, StartupAssumption
  <1>2. FileInv /\ [Next]_vars => FileInv' /\ [File!Next]_(File!file)
    <2> SUFFICES ASSUME FileInv, [Next]_vars PROVE FileInv' /\ FileStep
      BY DEF FileStep
    <2>1. StartInv'
      BY NextKeeps, CronAssumption DEF FileInv
    <2>2. CASE Next
      BY <2>1, <2>2, NextOnFile, CronAssumption DEF FileInv
    <2>3. CASE UNCHANGED vars
      <3>1. UNCHANGED <<stage, journal, sites, jobs, table, probe, copy, req>>
        BY <2>3 DEF vars, cronVars, startVars
      <3>2. UNCHANGED File!file
        BY <3>1 DEF File!file, Committed, Current
      <3> QED BY <2>1, <3>1, <3>2 DEF FileInv, FileStep, OnRows
    <2> QED BY <2>2, <2>3
  <1> QED BY <1>1, <1>2, PTL DEF Spec, FileSpec, File!Spec

------------------------------------------------------------------------------
(* The probe row outlives the start that inserted it only if that was cut. *)

Reliable == FailingSQL = {}

(* Starts run to their end; the server may die at any time.                *)
StartsUncut == [][Crash => stage = "up"]_vars

UncutInv == StartInv /\ (Committed.probe => stage = "clean")

LEMMA UncutStep ==
    ASSUME StartInv, Reliable, Committed.probe => stage = "clean", Next, Crash => stage = "up"
    PROVE  /\ Committed'.probe => stage' = "clean"
           /\ stage # "up" /\ Committed.table = "new" => Committed'.jobs = Committed.jobs
  <1> USE DEF StartInv
  <1>1. CASE Serve \/ LateCall
    <2>1. UNCHANGED <<stage, journal, table, probe>>
      BY <1>1 DEF Serve, LateCall, startVars
    <2>2. CASE stage = "up"
      <3>1. journal = {} /\ journal' = {}
        BY <2>1, <2>2 DEF JournalOK, TxStages
      <3> QED BY <2>1, <2>2, <3>1, NowOnFile, ThenOnFile
    <2>3. CASE stage # "up"
      <3>1. FileStays
        <4>1. UNCHANGED <<sites, jobs>>
          BY <1>1, <2>3 DEF Serve, LateCall, RunLate
        <4> QED BY <2>1, <4>1, InTransaction, NothingWritten
      <3> QED BY <2>1, <3>1 DEF FileStays
    <2> QED BY <2>2, <2>3
  <1>2. CASE Commit
    <2>1. PICK d \in Database : journal = {d} /\ OriginOK(d) /\ StatementOK(d)
      BY <1>2, Origin DEF Commit, TxStages
    <2>2. Committed = d /\ ~d.probe /\ d.table = "old" /\ ~probe
      BY <1>2, <2>1, CommittedIs DEF Commit, OriginOK, StatementOK, TableOK, Reliable
    <2> QED BY <1>2, <2>2, ThenOnFile DEF Commit
  <1>3. CASE CreateNew \/ CopyRows \/ DropOld \/ RenameNew
    <2>1. stage # "clean" /\ FileStays
      <3>1. CASE CreateNew
        <4>1. journal = {} /\ journal' = {Current}
          BY <3>1 DEF CreateNew, JournalOK, TxStages
        <4>2. PICK d : d = Current
          OBVIOUS
        <4> QED BY <3>1, <4>1, <4>2, CommittedNow, CommittedNext DEF FileStays, CreateNew
      <3>2. CASE CopyRows \/ DropOld \/ RenameNew
        BY <3>2, InTransaction DEF CopyRows, DropOld, RenameNew, TxStages
      <3> QED BY <1>3, <3>1, <3>2
    <2> QED BY <2>1 DEF FileStays
  <1>4. CASE Probe \/ Clean
    <2>1. stage \in {"probe", "clean"} /\ journal = {} /\ journal' = {} /\ UNCHANGED jobs
      BY <1>4 DEF Probe, Clean, JournalOK, TxStages
    <2>2. probe' => stage' = "clean"
      <3>1. probe => stage = "clean"
        BY <2>1, NowOnFile
      <3> QED BY <1>4, <3>1 DEF Probe, Clean, Reliable
    <2> QED BY <2>1, <2>2, NowOnFile, ThenOnFile
  <1>5. CASE Schema \/ AddColumns \/ SeedAdmin \/ SeedPackages \/ SeedMore
    <2>1. /\ stage \in {"schema", "columns", "admin", "packages", "more"}
          /\ UNCHANGED <<journal, jobs, probe>>
      BY <1>5 DEF Schema, AddColumns, SeedAdmin, SeedPackages, SeedMore
    <2>2. journal = {} /\ journal' = {}
      BY <2>1 DEF JournalOK, TxStages
    <2> QED BY <2>1, <2>2, NowOnFile, ThenOnFile
  <1>6. CASE Crash
    <2>1. Committed'.probe = Committed.probe
      <3>1. journal' = {} /\ probe' = Committed.probe
        BY <1>6 DEF Crash, Rollback
      <3> QED BY <3>1, ThenOnFile
    <2> QED BY <1>6, <2>1
  <1> QED BY <1>1, <1>2, <1>3, <1>4, <1>5, <1>6 DEF Next, StartStep

(* As long as starts run to their end and their statements only fail as    *)
(* the CHECK and the keys make them, no start rebuilds a current table,    *)
(* however often the server dies and whatever it served in between: what   *)
(* refutes RebuiltOnlyIfOld is a start that is cut (expandAppTypes).       *)
THEOREM RebuiltOnlyIfOldUncut == Reliable => (Spec /\ StartsUncut => RebuiltOnlyIfOld)
  <1> SUFFICES ASSUME Reliable PROVE Spec /\ StartsUncut => RebuiltOnlyIfOld
    OBVIOUS
  <1>1. Init => UncutInv
    <2> SUFFICES ASSUME Init PROVE UncutInv
      OBVIOUS
    <2>1. StartInv
      BY InitKeeps, CronAssumption, StartupAssumption
    <2>2. journal = {} /\ probe = FALSE
      BY DEF Init
    <2> QED BY <2>1, <2>2, NowOnFile DEF UncutInv
  <1>2. UncutInv /\ [Next]_vars /\ [Crash => stage = "up"]_vars =>
           /\ UncutInv'
           /\ [stage # "up" /\ Committed.table = "new" => Committed.jobs' = Committed.jobs]_vars
    <2> SUFFICES ASSUME UncutInv, [Next]_vars, [Crash => stage = "up"]_vars
                 PROVE  /\ UncutInv'
                        /\ [stage # "up" /\ Committed.table = "new"
                               => Committed.jobs' = Committed.jobs]_vars
      OBVIOUS
    <2>1. StartInv'
      BY NextKeeps, CronAssumption DEF UncutInv
    <2>2. CASE UNCHANGED vars
      <3>1. UNCHANGED <<stage, journal, sites, jobs, table, probe, copy>>
        BY <2>2 DEF vars, cronVars, startVars
      <3>2. UNCHANGED Committed
        BY <3>1 DEF Committed, Current
      <3> QED BY <2>1, <2>2, <3>1, <3>2 DEF UncutInv
    <2>3. CASE Next /\ (Crash => stage = "up")
      <3>1. /\ Committed'.probe => stage' = "clean"
            /\ stage # "up" /\ Committed.table = "new" => Committed'.jobs = Committed.jobs
        BY <2>3, UncutStep DEF UncutInv
      <3> QED BY <2>1, <3>1 DEF UncutInv
    <2> QED BY <2>2, <2>3
  <1> QED BY <1>1, <1>2, PTL DEF Spec, StartsUncut, RebuiltOnlyIfOld

==============================================================================
