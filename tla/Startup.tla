-------------------------------- MODULE Startup --------------------------------
(***************************************************************************)
(* The start of the API: store.Open with its migrations, the seeds, then   *)
(* the server, composed with the requests of CronJobs.  systemd starts the *)
(* program again whenever it dies, at any statement of a start or while it *)
(* serves, and the start runs again on whatever the file holds.            *)
(*                                                                         *)
(* expandAppTypes finds out whether the CHECK on sites.app_type is an old  *)
(* one by inserting a probe row in a statement of its own; when that       *)
(* fails, for whatever reason (the CHECK, a probe row that is still there, *)
(* a database that is busy, an error of the disk), one transaction         *)
(* rebuilds the table.                                                     *)
(* Foreign keys are on, so dropping the old table deletes its rows first,  *)
(* and the cron jobs with them.                                            *)
(*                                                                         *)
(* Left out: packages and accounts edited while the server runs (see       *)
(* PackageLimits), the demo data, a seed that fails without the process    *)
(* dying, whose error main only logs, and an administrator who deletes a   *)
(* probe row that was left behind, which the list of sites shows.          *)
(***************************************************************************)
EXTENDS CronJobs

CONSTANTS
    OldSites,   \* sites of the database an older version left; none: a new file
    OldJobs,    \* cron jobs in it
    FailingSQL, \* statements of expandAppTypes that may fail for reasons of their own
    MaxCrashes  \* bound on the crashes of the API

ASSUME StartupAssumption ==
    /\ OldSites \subseteq Sites /\ OldJobs \subseteq Jobs
    /\ OldJobs # {} => OldSites # {}
    /\ \A s, t \in OldSites : UserOf[s] = UserOf[t] => s = t
    /\ FailingSQL \subseteq {"probe", "clean"}
    /\ MaxCrashes \in Nat

(* What the start is about to do: schema, expandAppTypes (probe, clean,    *)
(* the four statements of the rebuild, commit), ensurePackageColumns,      *)
(* seedMinimal (admin, packages, more); then it serves.                    *)
Stages == {"schema", "probe", "clean", "create", "copy", "drop", "rename", "commit",
           "columns", "admin", "packages", "more", "up"}

VARIABLES
    stage,
    table,      \* table sites: none, or with the old or the new CHECK
    probe,      \* the probe row is in it
    copy,       \* table sites_new: the set of its rows, of which there is one at most
    columns,    \* packages.max_databases exists
    admin,      \* the account admin@hebernet.local exists
    packs,      \* how many of Starter, Pro, Business exist, in this order
    journal,    \* what ending the open transaction without COMMIT restores
    misled,     \* an INSERT of the probe failed on a table it should have passed on
    crashes

startVars == <<stage, table, probe, copy, columns, admin, packs, journal, misled, crashes>>
vars == <<cronVars, startVars>>

------------------------------------------------------------------------------
(* The database file.  A transaction in progress is undone by a crash.     *)

Database == [sites : [Sites -> {"free", "live", "deleted"}],
             jobs  : [Jobs -> Job],
             table : {"none", "old", "new"},
             probe : BOOLEAN,
             copy  : SUBSET [live : SUBSET Sites, probe : BOOLEAN]]

Current == [sites |-> sites, jobs |-> jobs, table |-> table, probe |-> probe, copy |-> copy]

Committed == IF journal = {} THEN Current ELSE CHOOSE d \in journal : TRUE

Rollback ==
    /\ sites' = Committed.sites
    /\ jobs' = Committed.jobs
    /\ table' = Committed.table
    /\ probe' = Committed.probe
    /\ copy' = Committed.copy
    /\ journal' = {}

LiveRows == {s \in Sites : sites[s] = "live"}

(* A start leaves the machine and the calls on the socket alone, and has   *)
(* no requests yet.                                                        *)
Outside == UNCHANGED <<accounts, crontab, req, late, settled, crashes>>

Plain == Outside /\ UNCHANGED misled

(* CREATE TABLE IF NOT EXISTS.                                             *)
Schema ==
    /\ stage = "schema"
    /\ stage' = "probe"
    /\ table' = IF table = "none" THEN "new" ELSE table
    /\ columns' = (columns \/ table = "none")
    /\ UNCHANGED <<sites, jobs, probe, copy, admin, packs, journal>> /\ Plain

(* Mutant: the outcome of the INSERT is not looked at.                     *)
ProbeAlwaysFails ==
    /\ stage = "probe"
    /\ stage' = IF admin /\ packs > 0 THEN "create" ELSE "clean"
    /\ UNCHANGED <<sites, jobs, table, probe, copy, columns, admin, packs, journal>> /\ Plain

(* The INSERT adds nothing while there is no user or no package.  The old  *)
(* CHECK refuses it, and so does a probe row that is still there; whatever *)
(* else makes it fail is taken for the old CHECK.                          *)
Probe ==
    /\ stage = "probe"
    /\ LET asked   == admin /\ packs > 0
           refused == asked /\ (table = "old" \/ probe)
       IN  \E failed \in BOOLEAN :
              /\ refused => failed
              /\ failed => refused \/ "probe" \in FailingSQL
              /\ stage' = IF failed THEN "create" ELSE "clean"
              /\ probe' = (probe \/ (asked /\ ~failed))
              /\ misled' = (misled \/ (failed /\ ~refused))
    /\ UNCHANGED <<sites, jobs, table, copy, columns, admin, packs, journal>> /\ Outside

(* DELETE of the probe row; its error is dropped.                          *)
Clean ==
    /\ stage = "clean"
    /\ stage' = "columns"
    /\ probe' = FALSE \/ ("clean" \in FailingSQL /\ UNCHANGED probe)
    /\ UNCHANGED <<sites, jobs, table, copy, columns, admin, packs, journal>> /\ Plain

(* Mutant: the statements of the rebuild are not in a transaction.         *)
CreateNewNoTx ==
    /\ stage = "create"
    /\ copy = {}
    /\ copy' = {[live |-> {}, probe |-> FALSE]}
    /\ stage' = "copy"
    /\ UNCHANGED <<sites, jobs, table, probe, columns, admin, packs, journal>> /\ Plain

(* BEGIN, CREATE TABLE sites_new: not IF NOT EXISTS.                       *)
CreateNew ==
    /\ stage = "create"
    /\ copy = {}
    /\ journal' = {Current}
    /\ copy' = {[live |-> {}, probe |-> FALSE]}
    /\ stage' = "copy"
    /\ UNCHANGED <<sites, jobs, table, probe, columns, admin, packs>> /\ Plain

(* INSERT INTO sites_new SELECT * FROM sites.                              *)
CopyRows ==
    /\ stage = "copy"
    /\ copy' = {[live |-> LiveRows, probe |-> probe]}
    /\ stage' = "drop"
    /\ UNCHANGED <<sites, jobs, table, probe, columns, admin, packs, journal>> /\ Plain

(* DROP TABLE sites, with foreign keys on: DELETE FROM sites, cascading to *)
(* cron_jobs, comes first.                                                 *)
DropOld ==
    /\ stage = "drop"
    /\ sites' = [s \in Sites |-> IF sites[s] = "live" THEN "deleted" ELSE sites[s]]
    /\ Cascade(LiveRows)
    /\ table' = "none"
    /\ probe' = FALSE
    /\ stage' = "rename"
    /\ UNCHANGED <<copy, columns, admin, packs, journal>> /\ Plain

(* ALTER TABLE sites_new RENAME TO sites.                                  *)
RenameNew ==
    /\ stage = "rename"
    /\ \E rows \in copy :
          /\ sites' = [s \in Sites |-> IF s \in rows.live THEN "live" ELSE sites[s]]
          /\ probe' = rows.probe
    /\ table' = "new"
    /\ copy' = {}
    /\ stage' = "commit"
    /\ UNCHANGED <<jobs, columns, admin, packs, journal>> /\ Plain

Commit ==
    /\ stage = "commit"
    /\ journal' = {}
    /\ stage' = "columns"
    /\ UNCHANGED <<sites, jobs, table, probe, copy, columns, admin, packs>> /\ Plain

(* ALTER TABLE packages ADD COLUMN; "duplicate column" is no error.        *)
AddColumns ==
    /\ stage = "columns"
    /\ columns' = TRUE
    /\ stage' = "admin"
    /\ UNCHANGED <<sites, jobs, table, probe, copy, admin, packs, journal>> /\ Plain

(* Mutant: the packages are seeded along with the administrator only.      *)
SeedAdminFirstTime ==
    /\ stage = "admin"
    /\ admin' = TRUE
    /\ stage' = IF admin THEN "up" ELSE "packages"
    /\ UNCHANGED <<sites, jobs, table, probe, copy, columns, packs, journal>> /\ Plain

(* seedMinimal.                                                            *)
SeedAdmin ==
    /\ stage = "admin"
    /\ admin' = TRUE
    /\ stage' = "packages"
    /\ UNCHANGED <<sites, jobs, table, probe, copy, columns, packs, journal>> /\ Plain

(* ListPackages, and the first CreatePackage when there is none ...        *)
SeedPackages ==
    /\ stage = "packages"
    /\ IF packs = 0 THEN packs' = 1 /\ stage' = "more"
                    ELSE stage' = "up" /\ UNCHANGED packs
    /\ UNCHANGED <<sites, jobs, table, probe, copy, columns, admin, journal>> /\ Plain

(* Mutant: one package too many.                                           *)
SeedMoreOnceMore ==
    /\ stage = "more"
    /\ packs' = packs + 1
    /\ stage' = IF packs = 3 THEN "up" ELSE "more"
    /\ UNCHANGED <<sites, jobs, table, probe, copy, columns, admin, journal>> /\ Plain

(* ... then the other two.                                                 *)
SeedMore ==
    /\ stage = "more"
    /\ packs' = packs + 1
    /\ stage' = IF packs' = 3 THEN "up" ELSE "more"
    /\ UNCHANGED <<sites, jobs, table, probe, copy, columns, admin, journal>> /\ Plain

StartStep ==
    \/ Schema \/ Probe \/ Clean
    \/ CreateNew \/ CopyRows \/ DropOld \/ RenameNew \/ Commit
    \/ AddColumns \/ SeedAdmin \/ SeedPackages \/ SeedMore

(* The process dies, by itself or on an error of a start (log.Fatal).  A   *)
(* call already on the socket may still be run.                            *)
Crash ==
    /\ crashes < MaxCrashes
    /\ crashes' = crashes + 1
    /\ stage' = "schema"
    /\ Rollback
    /\ req' = [p \in Procs |-> Idle]
    /\ \/ UNCHANGED late
       \/ /\ Cardinality(late) < MaxLate
          /\ \E p \in Procs :
                /\ req[p].pc \in DOMAIN OpOf
                /\ OpOf[req[p].pc] \in LateOps
                /\ late' = late \cup {CallOf(req[p])}
    /\ UNCHANGED <<accounts, crontab, settled, columns, admin, packs, misled>>

(* RunLate goes on while the API is down: the agent is a process of its    *)
(* own.                                                                    *)
LateCall == RunLate /\ UNCHANGED startVars

Serve == stage = "up" /\ (\E p \in Procs : Handle(p)) /\ UNCHANGED startVars

(* A new file, or one an older version left: the old CHECK, no column      *)
(* max_databases, its sites with their accounts and their crontabs.        *)
Init ==
    /\ \/ CronInit /\ table = "none" /\ admin = FALSE /\ packs = 0
       \/ CronStart(OldSites, OldJobs) /\ table = "old" /\ admin = TRUE /\ packs = 3
    /\ stage = "schema"
    /\ probe = FALSE /\ columns = FALSE
    /\ copy = {} /\ journal = {}
    /\ misled = FALSE
    /\ crashes = 0

Next == StartStep \/ Serve \/ LateCall \/ Crash

Spec == Init /\ [][Next]_vars

------------------------------------------------------------------------------
(* Properties.                                                             *)

TypeOK ==
    /\ CronTypeOK
    /\ stage \in Stages
    /\ Current \in Database
    /\ journal \subseteq Database /\ Cardinality(journal) <= 1
    /\ columns \in BOOLEAN /\ admin \in BOOLEAN
    /\ packs \in 0..3
    /\ misled \in BOOLEAN
    /\ crashes \in 0..MaxCrashes

(* Wherever a start is cut, and however often, no site is lost.  Code: the *)
(* transaction of expandAppTypes.                                          *)
SitesKept == [][stage # "up" => Committed.sites' = Committed.sites]_vars

(* A start on a current table deletes no cron job, unless a probe row was  *)
(* left in it (by a start cut between the INSERT and the DELETE, or by a   *)
(* DELETE that failed), or an INSERT of the probe failed for a reason of   *)
(* its own.  (On an old table the rebuild deletes them all, whatever       *)
(* happens.)                                                               *)
JobsKept ==
    [][stage # "up" /\ Committed.table = "new" /\ ~Committed.probe /\ ~misled
          => Committed.jobs' = Committed.jobs]_vars

(* "expandAppTypes rebuilds sites table when CHECK rejects les nouveaux    *)
(* app_type" (store.go:133): a table with the new CHECK is left alone, and *)
(* the cron jobs with it.                                                  *)
RebuiltOnlyIfOld ==
    [][stage # "up" /\ Committed.table = "new" => Committed.jobs' = Committed.jobs]_vars

(* The crontabs stay in step (SettledInStep) across restarts too, as long  *)
(* as no probe row is left behind and no INSERT of the probe misleads a    *)
(* start.                                                                  *)
SettledAcrossStarts == ~Committed.probe /\ ~misled => SettledInStep

(* Whatever a start before it was cut at, a server that answers has the    *)
(* administrator, the package Stripe orders are for (Starter, seeded       *)
(* first), every column, and no rebuild half done.  Code: seedMinimal      *)
(* looks for each of its two halves by itself.                             *)
ServesSeeded ==
    stage = "up" => /\ admin /\ packs >= 1
                    /\ table = "new" /\ columns
                    /\ copy = {} /\ journal = {}

(* The file as DatabaseFile describes it, which knows of no statement of   *)
(* the rebuild and of no journal.                                          *)
File == INSTANCE DatabaseFile WITH
    Kinds <- JobKinds, Misfires <- "probe" \in FailingSQL,
    sites <- Committed.sites, jobs <- Committed.jobs,
    table <- Committed.table, probe <- Committed.probe,
    up <- stage = "up"

(* Whatever starts are cut where, and whatever requests ran in between,    *)
(* all that ever happens to the file is what DatabaseFile allows: a        *)
(* rebuild shows whole or not at all, erases no site and every job; ids    *)
(* are used once; nothing but a request changes a site or ends one job;    *)
(* and no request is served on a table that is not up to date.  Code:      *)
(* migrate and the handlers of cron jobs and sites.                        *)
FileSpec == File!Spec

(* A start that was cut never makes the next one fail: the rebuild, whose  *)
(* CREATE TABLE sites_new is not IF NOT EXISTS, never finds such a table.  *)
RebuildNeverBlocked == stage = "create" => copy = {}
==============================================================================
