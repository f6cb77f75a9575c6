------------------------------- MODULE CronJobs -------------------------------
(***************************************************************************)
(* Scheduled tasks: the table cron_jobs and the crontab of each account.   *)
(*                                                                         *)
(* Adding or removing a job writes the table, lists the site's jobs and    *)
(* asks the agent to install the list as the account's whole crontab.      *)
(* These are three steps that any two requests may interleave, and the     *)
(* call may outlive the client's 30 s.  Sites come and go meanwhile: a     *)
(* deleted site takes its jobs with it (ON DELETE CASCADE), a new one may  *)
(* get the account name a deleted one had.                                 *)
(*                                                                         *)
(* provisionSite and handleDeleteSite are modelled in Provisioning; here   *)
(* they are the row, the account, and the order of the two.  Left out      *)
(* here: the two orders at once that get one account name (OneUserPerSite  *)
(* in Provisioning), whose sites would share a crontab.                    *)
(***************************************************************************)
EXTENDS Naturals, FiniteSets

CONSTANTS
    Procs,      \* request slots
    Sites,      \* site ids (bound on the sites ever created)
    Users,      \* Linux account names
    UserOf,     \* the account name provisionSite gives a site
    Jobs,       \* job ids (bound on the jobs ever created)
    Entered,    \* the kinds of job each id may be entered as (bound)
    NoSite, NoJob,
    DryRun,     \* the agent's -dry-run mode
    FailingOps, \* agent operations that may fail for reasons of their own
    LateOps,    \* calls that may outlive the client's deadline
    MaxLate     \* bound on the late calls outstanding

AgentOps == {"sync_cron", "create_site_user", "destroy_site"}

(* What a job is to the agent: a line of the crontab; skipped, because it  *)
(* is disabled; or refused with the whole list it is in, for a line break  *)
(* in the schedule, which handleCreateCron does not look for, or, on a     *)
(* real machine, for a schedule that crontab cannot read.                  *)
JobKinds == {"line", "disabled", "refused"}

ASSUME CronAssumption ==
    /\ UserOf \in [Sites -> Users]
    /\ Entered \in [Jobs -> (SUBSET JobKinds) \ {{}}]
    /\ NoSite \notin Sites
    /\ NoJob \notin Jobs
    /\ DryRun \in BOOLEAN
    /\ FailingOps \subseteq AgentOps
    /\ LateOps \subseteq AgentOps
    /\ MaxLate \in Nat

VARIABLES
    sites,      \* table sites: is the row there
    jobs,       \* table cron_jobs; a deleted row keeps its columns
    accounts,   \* accounts on the machine
    crontab,    \* the jobs each account's crontab runs
    req,        \* the request each slot is serving
    late,       \* calls given up by the API that the agent has yet to run
    settled     \* accounts whose last request ran alone and was answered well

cronVars == <<sites, jobs, accounts, crontab, req, late, settled>>

------------------------------------------------------------------------------
(* Rows, requests, calls.                                                  *)

Job == [state : {"free", "row", "gone"},
        site  : Sites \cup {NoSite},
        kind  : JobKinds]

NoRow == [state |-> "free", site |-> NoSite, kind |-> "line"]

PCs == {"idle", "insert", "erase", "list", "sync", "useradd", "destroy", "drop"}

Request == [pc    : PCs,
            site  : Sites \cup {NoSite},
            job   : Jobs \cup {NoJob},
            list  : SUBSET Jobs,    \* what ListCronJobs returned
            alone : BOOLEAN]        \* a cron request that met no other request or late call

Ask(pc, s, j) == [pc |-> pc, site |-> s, job |-> j, list |-> {}, alone |-> TRUE]

Idle == Ask("idle", NoSite, NoJob)

Call == [op : AgentOps, user : Users, list : SUBSET Jobs]

JobsOf(s) == {j \in Jobs : jobs[j].state = "row" /\ jobs[j].site = s}

Lines(list) == {j \in list : jobs[j].kind = "line"}

Busy(p, u) == req[p].pc # "idle" /\ UserOf[req[p].site] = u

(* Slot p starts on request q; the requests it meets on the same account   *)
(* are no longer alone.                                                    *)
Begin(p, q) ==
    LET u == UserOf[q.site]
        met == {r \in Procs \ {p} : Busy(r, u)}
    IN  /\ req[p].pc = "idle"
        /\ req' = [r \in Procs |->
                     IF r = p THEN [q EXCEPT !.alone = /\ q.pc \in {"insert", "erase"}
                                                       /\ met = {} /\ \A c \in late : c.user # u]
                     ELSE IF r \in met THEN [req[r] EXCEPT !.alone = FALSE]
                     ELSE req[r]]
        /\ settled' = settled \ {u}

Goto(p, pc) == req' = [req EXCEPT ![p].pc = pc]
End(p) == req' = [req EXCEPT ![p] = Idle]

------------------------------------------------------------------------------
(* The agent.                                                              *)

(* syncCron replaces the crontab by the enabled jobs, or changes nothing.  *)
(* crontab -u knows no account that is not there.                          *)
Installable(c) ==
    /\ \A j \in c.list : jobs[j].kind # "refused"
    /\ c.user \in accounts \/ DryRun

SyncCron(c, ok) ==
    /\ ok => Installable(c)
    /\ ok \/ ~Installable(c) \/ "sync_cron" \in FailingOps
    /\ crontab' = IF ok THEN [crontab EXCEPT ![c.user] = Lines(c.list)] ELSE crontab
    /\ UNCHANGED accounts

(* useradd refuses an account that exists.                                 *)
CreateSiteUser(c, ok) ==
    /\ ok <=> (c.user \notin accounts \/ DryRun)
    /\ accounts' = IF ok THEN accounts \cup {c.user} ELSE accounts
    /\ UNCHANGED crontab

(* destroySite never mentions the crontab.  The dry run leaves its file;   *)
(* userdel may remove the real one (USERDEL_CMD of login.defs) or not, and *)
(* its failure, for instance because a job is running, is ignored.         *)
DestroySite(c, ok) ==
    \/ /\ ok
       /\ \/ accounts' = accounts \ {c.user} /\ UNCHANGED crontab
          \/ /\ ~DryRun
             /\ accounts' = accounts \ {c.user}
             /\ crontab' = [crontab EXCEPT ![c.user] = {}]
          \/ ~DryRun /\ UNCHANGED <<accounts, crontab>>
    \/ /\ ~ok
       /\ "destroy_site" \in FailingOps
       /\ UNCHANGED <<accounts, crontab>>

Exec(c, ok) ==
    \/ c.op = "sync_cron" /\ SyncCron(c, ok)
    \/ c.op = "create_site_user" /\ CreateSiteUser(c, ok)
    \/ c.op = "destroy_site" /\ DestroySite(c, ok)

(* agentclient.Call: the agent answers, or the client gives up and the     *)
(* agent will run the call later.                                          *)
Agent(c, ok) ==
    \/ Exec(c, ok) /\ UNCHANGED late
    \/ /\ ~ok
       /\ c.op \in LateOps
       /\ Cardinality(late) < MaxLate
       /\ late' = late \cup {c}
       /\ UNCHANGED <<accounts, crontab>>

OpOf == [sync |-> "sync_cron", useradd |-> "create_site_user", destroy |-> "destroy_site"]

CallOf(q) == [op |-> OpOf[q.pc], user |-> UserOf[q.site], list |-> q.list]

------------------------------------------------------------------------------
(* handleCreateCron, handleDeleteCron, syncSiteCron.                       *)

(* GetSite, and the checks of the body.                                    *)
CreateCron(p) ==
    /\ \E s \in Sites : sites[s] = "live" /\ Begin(p, Ask("insert", s, NoJob))
    /\ UNCHANGED <<sites, jobs, accounts, crontab, late>>

FreshJobs == {j \in Jobs : jobs[j].state = "free"}

(* A new row for s.  The body was trimmed, and refused when the schedule   *)
(* or the command was empty or the command had a line break; that leaves   *)
(* every kind of job.                                                      *)
AddJob(s) ==
    /\ FreshJobs # {}
    /\ LET j == CHOOSE j \in FreshJobs : TRUE
       IN  \E k \in Entered[j] :
              jobs' = [jobs EXCEPT ![j] = [state |-> "row", site |-> s, kind |-> k]]

(* Mutant: foreign keys are not enforced.                                  *)
InsertJobUnchecked(p) ==
    /\ req[p].pc = "insert"
    /\ AddJob(req[p].site)
    /\ Goto(p, "list")
    /\ UNCHANGED <<sites, accounts, crontab, late, settled>>

(* CreateCronJob: the foreign key refuses a job of a site that is gone     *)
(* (it is also refused when the bound on ids is reached).                  *)
InsertJob(p) ==
    /\ req[p].pc = "insert"
    /\ \/ sites[req[p].site] = "live" /\ AddJob(req[p].site) /\ Goto(p, "list")
       \/ /\ sites[req[p].site] # "live" \/ FreshJobs = {}
          /\ End(p)
          /\ UNCHANGED jobs
    /\ UNCHANGED <<sites, accounts, crontab, late, settled>>

(* GetSite, for a job the client has seen on the page.                     *)
DeleteCron(p) ==
    /\ \E j \in Jobs :
          /\ jobs[j].state # "free"
          /\ sites[jobs[j].site] = "live"
          /\ Begin(p, Ask("erase", jobs[j].site, j))
    /\ UNCHANGED <<sites, jobs, accounts, crontab, late>>

(* Mutant: DELETE looks at the site only.                                  *)
EraseSiteJobs(p) ==
    /\ req[p].pc = "erase"
    /\ IF jobs[req[p].job].state = "row"
       THEN /\ jobs' = [j \in Jobs |-> IF j \in JobsOf(req[p].site)
                                       THEN [jobs[j] EXCEPT !.state = "gone"] ELSE jobs[j]]
            /\ Goto(p, "list")
       ELSE End(p) /\ UNCHANGED jobs
    /\ UNCHANGED <<sites, accounts, crontab, late, settled>>

(* DeleteCronJob; a job that is gone already is answered with 404.         *)
EraseJob(p) ==
    /\ req[p].pc = "erase"
    /\ LET j == req[p].job
       IN  IF jobs[j].state = "row"
           THEN jobs' = [jobs EXCEPT ![j].state = "gone"] /\ Goto(p, "list")
           ELSE End(p) /\ UNCHANGED jobs
    /\ UNCHANGED <<sites, accounts, crontab, late, settled>>

(* Mutant: the query has no WHERE site_id.                                 *)
ListAllJobs(p) ==
    /\ req[p].pc = "list"
    /\ req' = [req EXCEPT ![p].pc = "sync",
                          ![p].list = {j \in Jobs : jobs[j].state = "row"}]
    /\ UNCHANGED <<sites, jobs, accounts, crontab, late, settled>>

(* ListCronJobs.                                                           *)
ListJobs(p) ==
    /\ req[p].pc = "list"
    /\ req' = [req EXCEPT ![p].pc = "sync", ![p].list = JobsOf(req[p].site)]
    /\ UNCHANGED <<sites, jobs, accounts, crontab, late, settled>>

(* Mutant: the error of Agent.Call is dropped.                             *)
SyncUnchecked(p) ==
    /\ req[p].pc = "sync"
    /\ \E ok \in BOOLEAN : Agent(CallOf(req[p]), ok)
    /\ settled' = IF req[p].alone THEN settled \cup {UserOf[req[p].site]} ELSE settled
    /\ End(p)
    /\ UNCHANGED <<sites, jobs>>

(* OpSyncCron.  An error is answered with 502, and the table stays as the  *)
(* request made it.                                                        *)
Sync(p) ==
    /\ req[p].pc = "sync"
    /\ \E ok \in BOOLEAN :
          /\ Agent(CallOf(req[p]), ok)
          /\ settled' = IF ok /\ req[p].alone THEN settled \cup {UserOf[req[p].site]} ELSE settled
    /\ End(p)
    /\ UNCHANGED <<sites, jobs>>

------------------------------------------------------------------------------
(* Sites.                                                                  *)

(* The ids that can be next, one for each account name that has some left. *)
NextSites ==
    {CHOOSE s \in Sites : sites[s] = "free" /\ UserOf[s] = u :
        u \in {UserOf[s] : s \in {s \in Sites : sites[s] = "free"}}}

(* provisionSite: a row with an account name no other row has, then the    *)
(* account.                                                                *)
OrderSite(p) ==
    /\ \E s \in NextSites :
          /\ \A t \in Sites : UserOf[t] = UserOf[s] => sites[t] # "live"
          /\ Begin(p, Ask("useradd", s, NoJob))
          /\ sites' = [sites EXCEPT ![s] = "live"]
    /\ UNCHANGED <<jobs, accounts, crontab, late>>

MakeAccount(p) ==
    /\ req[p].pc = "useradd"
    /\ \E ok \in BOOLEAN : Agent(CallOf(req[p]), ok)
    /\ End(p)
    /\ UNCHANGED <<sites, jobs, settled>>

(* handleDeleteSite: the machine first, the row only if that went well.    *)
RemoveSite(p) ==
    /\ \E s \in Sites : sites[s] = "live" /\ Begin(p, Ask("destroy", s, NoJob))
    /\ UNCHANGED <<sites, jobs, accounts, crontab, late>>

Destroy(p) ==
    /\ req[p].pc = "destroy"
    /\ \E ok \in BOOLEAN :
          /\ Agent(CallOf(req[p]), ok)
          /\ IF ok THEN Goto(p, "drop") ELSE End(p)
    /\ UNCHANGED <<sites, jobs, settled>>

(* DELETE FROM sites, and ON DELETE CASCADE the site's jobs.               *)
Cascade(gone) ==
    jobs' = [j \in Jobs |-> IF jobs[j].state = "row" /\ jobs[j].site \in gone
                            THEN [jobs[j] EXCEPT !.state = "gone"] ELSE jobs[j]]

DropSite(p) ==
    /\ req[p].pc = "drop"
    /\ sites' = [sites EXCEPT ![req[p].site] = "deleted"]
    /\ Cascade({req[p].site})
    /\ End(p)
    /\ UNCHANGED <<accounts, crontab, late, settled>>

------------------------------------------------------------------------------
(* The agent gets to a call whose caller is gone.                          *)
RunLate ==
    /\ \E c \in late : /\ \E ok \in BOOLEAN : Exec(c, ok)
                       /\ late' = late \ {c}
    /\ UNCHANGED <<sites, jobs, req, settled>>

Handle(p) ==
    \/ CreateCron(p) \/ InsertJob(p)
    \/ DeleteCron(p) \/ EraseJob(p)
    \/ ListJobs(p) \/ Sync(p)
    \/ OrderSite(p) \/ MakeAccount(p)
    \/ RemoveSite(p) \/ Destroy(p) \/ DropSite(p)

(* The sites of live with their accounts; the jobs of known, all of one of *)
(* the sites and in its account's crontab.                                 *)
CronStart(live, known) ==
    /\ sites = [s \in Sites |-> IF s \in live THEN "live" ELSE "free"]
    /\ accounts = {UserOf[s] : s \in live}
    /\ \E home \in live \cup {NoSite} :
          /\ home = NoSite => known = {}
          /\ jobs = [j \in Jobs |-> IF j \in known
                                   THEN [state |-> "row", site |-> home, kind |-> "line"]
                                   ELSE NoRow]
          /\ crontab = [u \in Users |-> {j \in known : UserOf[home] = u}]
    /\ req = [p \in Procs |-> Idle]
    /\ late = {}
    /\ settled = {}

CronInit == CronStart({}, {})

CronNext == RunLate \/ \E p \in Procs : Handle(p)

CronSpec == CronInit /\ [][CronNext]_cronVars

------------------------------------------------------------------------------
(* Properties.                                                             *)

CronTypeOK ==
    /\ sites \in [Sites -> {"free", "live", "deleted"}]
    /\ jobs \in [Jobs -> Job]
    /\ accounts \subseteq Users
    /\ crontab \in [Users -> SUBSET Jobs]
    /\ req \in [Procs -> Request]
    /\ late \subseteq Call
    /\ settled \subseteq Users

(* However lists, late installs and deletions of sites interleave, an      *)
(* account only ever runs enabled jobs that were entered for a site of     *)
(* that account.  Code: syncCron's filter and the user syncSiteCron sends. *)
OnlyOwnJobs ==
    \A u \in Users : \A j \in crontab[u] :
        jobs[j].state # "free" /\ jobs[j].kind = "line" /\ UserOf[jobs[j].site] = u

(* No job outlives its site's row, or is added to one deleted since the    *)
(* handler read it.  Code: REFERENCES sites(id) ON DELETE CASCADE.         *)
JobsHaveSite == \A j \in Jobs : jobs[j].state = "row" => sites[jobs[j].site] = "live"

(* "crontab synchronisée" (SiteManage.vue:144): after a request that       *)
(* nothing overlapped and the agent answered well, the account runs        *)
(* exactly the enabled jobs of its site, until the next request.  (With    *)
(* overlap it may not: the older list can be the last one installed.)      *)
SettledInStep ==
    \A u \in settled : \A s \in Sites :
        sites[s] = "live" /\ UserOf[s] = u => crontab[u] = Lines(JobsOf(s))
==============================================================================
