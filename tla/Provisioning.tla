----------------------------- MODULE Provisioning -----------------------------
(***************************************************************************)
(* The API's site handlers: provisionSite (orders from the panel and from  *)
(* Stripe), delete, and the handlers that read a row, call the agent and   *)
(* write the whole row back (suspend, resume, SSL, quota, files).          *)
(*                                                                         *)
(* Every HTTP request is a goroutine; one step here is one statement on    *)
(* SQLite or one call of the agent, and requests interleave between any    *)
(* two of them.  No lock of the API covers more than one statement.        *)
(* A call that outlives the client's 30 s deadline is an error for the     *)
(* API while the agent still runs it, sooner or later (late).  The API may *)
(* crash at any point (systemd restarts it) and forgets its requests.      *)
(***************************************************************************)
EXTENDS HostAgent, Naturals, FiniteSets

CONSTANTS
    Procs,      \* request slots: how many requests are in flight at most
    Ids,        \* site ids (bound on the sites ever created)
    NoId, NoDomain,
    Apps,       \* application types clients order
    Names,      \* Names[d]: the accounts uniqueLinuxUser can pick for d ...
    Base,       \* ... Base[d]: the one it tries first
    Kinds,      \* row requests clients make: delete, suspend, resume, ssl, quota
    Exclusive,  \* TRUE: clients never have two requests on one domain at a time
    LateOps,    \* calls that may outlive the client's deadline
    MaxLate,    \* bound on the late calls outstanding
    MaxCrashes  \* bound on the crashes of the API

AppTypes == {"static", "php", "bludit", "hugo", "codeigniter"}
RowKinds == {"delete", "suspend", "resume", "ssl", "quota"}

ASSUME ProvisioningAssumption ==
    /\ NoId \notin Ids
    /\ NoDomain \notin Domains
    /\ Apps \subseteq AppTypes
    /\ Names \in [Domains -> SUBSET Users]
    /\ Base \in [Domains -> Users]
    /\ \A d \in Domains : Base[d] \in Names[d]
    /\ Kinds \subseteq RowKinds
    /\ Exclusive \in BOOLEAN
    /\ LateOps \subseteq Ops
    /\ MaxLate \in Nat /\ MaxCrashes \in Nat

VARIABLES
    sites,      \* table sites; a deleted row keeps its columns as a tombstone
    host,       \* the machine, as HostAgent describes it
    req,        \* the request each slot is serving
    late,       \* calls given up by the API that the agent has yet to run
    crashes     \* how often the API crashed

vars == <<sites, host, req, late, crashes>>

------------------------------------------------------------------------------
(* Rows and requests.                                                      *)

LiveStatus == {"provisioning", "active", "error", "suspended"}

Row == [status : LiveStatus \cup {"free", "deleted"},
        domain : Domains \cup {NoDomain},
        user   : Users \cup {NoUser},
        app    : AppTypes,
        hasDB  : BOOLEAN,      \* db_name <> ''
        ssl    : BOOLEAN]

Draft(d, a) == [status |-> "free", domain |-> d, user |-> NoUser, app |-> a,
                hasDB |-> FALSE, ssl |-> FALSE]

NoRow == Draft(NoDomain, "static")

BuildSteps == {"create_site_user", "set_quota", "provision_php",
               "provision_nginx", "create_database", "install_app"}

PCs == BuildSteps \cup {"idle", "redestroy", "drop", "admit", "suffix", "insert",
                        "activate", "mark_error", "destroy", "edit", "save"}

Request == [pc   : PCs,
            kind : RowKinds \cup {"create", "none"},
            id   : Ids \cup {NoId},   \* the row the request works on
            row  : Row,               \* its copy in memory
            app  : AppTypes]          \* the application ordered

Idle == [pc |-> "idle", kind |-> "none", id |-> NoId, row |-> NoRow, app |-> "static"]

Live(i) == sites[i].status \in LiveStatus
LinuxUserTaken(u) == \E i \in Ids : Live(i) /\ sites[i].user = u
DomainTaken(d) == \E i \in Ids : Live(i) /\ sites[i].domain = d

(* No other request is working on domain d, where clients are that careful. *)
Quiet(d) == Exclusive => \A q \in Procs : req[q].row.domain # d

NeedsPHP(a) == a \in {"php", "bludit", "codeigniter"}
NeedsDB(a) == a \in {"php", "codeigniter"}
NeedsInstall(a) == a \in {"bludit", "hugo", "codeigniter"}

(* The statements of the store.  UPDATE and DELETE select by id and do     *)
(* nothing when the row is gone; the handlers drop their errors.           *)
(* Mutant: INSERT OR REPLACE instead of UPDATE.                            *)
UpdateSiteUpsert(i, row) ==
    \/ sites' = [sites EXCEPT ![i] = row]
    \/ "update_site" \in FailingOps /\ UNCHANGED sites

UpdateSite(i, row) ==
    \/ sites' = IF Live(i) THEN [sites EXCEPT ![i] = row] ELSE sites
    \/ "update_site" \in FailingOps /\ UNCHANGED sites

DeleteSite(i) ==
    \/ sites' = IF Live(i) THEN [sites EXCEPT ![i].status = "deleted"] ELSE sites
    \/ "delete_site" \in FailingOps /\ UNCHANGED sites

------------------------------------------------------------------------------
(* Calling the agent.                                                      *)

OpOf(q) ==
    CASE q.pc \in {"destroy", "redestroy"} -> "destroy_site"
      [] q.pc = "edit" /\ q.kind = "suspend" -> "suspend_site"
      [] q.pc = "edit" /\ q.kind = "resume" -> "resume_site"
      [] q.pc = "edit" /\ q.kind = "ssl" -> "issue_ssl"
      [] q.pc = "edit" /\ q.kind = "quota" -> "quota_usage"
      [] OTHER -> q.pc

CallOf(q) == [op |-> OpOf(q), user |-> q.row.user, domain |-> q.row.domain,
              db |-> q.row.hasDB]

(* agentclient.Call for slot p: the request goes on as yes or as no.  After *)
(* a timeout it goes on as no, and the agent will still run the call.       *)
Ask(p, yes, no) ==
    \/ \E r \in Exec(host, CallOf(req[p])) :
          /\ host' = r.host
          /\ req' = [req EXCEPT ![p] = IF r.ok THEN yes ELSE no]
          /\ UNCHANGED late
    \/ /\ OpOf(req[p]) \in LateOps
       /\ Cardinality(late) < MaxLate
       /\ late' = late \cup {CallOf(req[p])}
       /\ req' = [req EXCEPT ![p] = no]
       /\ UNCHANGED host

------------------------------------------------------------------------------
(* provisionSite.                                                          *)

(* The row found for the domain decides: none (or the SELECT failed),      *)
(* build; active or being built, the answer is "already exists" and        *)
(* nothing happens; otherwise it is destroyed first, from the copy read    *)
(* here.                                                                   *)
Lookup(p, d, a) ==
    /\ req[p].pc = "idle"
    /\ Quiet(d)
    /\ \/ /\ ~DomainTaken(d) \/ "get_site" \in FailingOps
          /\ req' = [req EXCEPT ![p] = [pc |-> "admit", kind |-> "create", id |-> NoId,
                                        row |-> Draft(d, a), app |-> a]]
       \/ \E i \in Ids :
             /\ sites[i].domain = d
             /\ sites[i].status \in {"error", "suspended"}
             /\ req' = [req EXCEPT ![p] = [pc |-> "redestroy", kind |-> "create", id |-> i,
                                           row |-> sites[i], app |-> a]]
    /\ UNCHANGED <<sites, host, late, crashes>>

(* Mutant: the row is replaced without destroying what it stands for.      *)
RedestroySkipped(p) ==
    /\ req[p].pc = "redestroy"
    /\ req' = [req EXCEPT ![p].pc = "drop"]
    /\ UNCHANGED <<sites, host, late, crashes>>

(* The agent's answer is ignored.                                          *)
Redestroy(p) ==
    /\ req[p].pc = "redestroy"
    /\ LET on == [req[p] EXCEPT !.pc = "drop"] IN Ask(p, on, on)
    /\ UNCHANGED <<sites, crashes>>

(* DeleteSite, after redestroy and after handleDeleteSite's destroy.       *)
DropRow(p) ==
    /\ req[p].pc = "drop"
    /\ DeleteSite(req[p].id)
    /\ LET q == req[p]
       IN  req' = [req EXCEPT ![p] =
                     IF q.kind = "create"
                     THEN [q EXCEPT !.pc = "admit", !.id = NoId,
                                    !.row = Draft(q.row.domain, q.app)]
                     ELSE Idle]
    /\ UNCHANGED <<host, late, crashes>>

(* Ids of rows nobody inserted or is about to insert: uuid.NewString.      *)
FreshIds == {i \in Ids : sites[i].status = "free" /\ \A q \in Procs : req[q].id # i}

(* The owner, the package or its limits refuse the order, the last name    *)
(* that could be tried is taken (or the bound on ids or names is reached). *)
Refuse(p) ==
    /\ req[p].pc \in {"admit", "suffix"}
    /\ \/ "admit" \in FailingOps
       \/ FreshIds = {}
       \/ /\ req[p].pc = "suffix"
          /\ LET suffixed == Names[req[p].row.domain] \ {Base[req[p].row.domain]}
             IN  suffixed = {} \/ \E u \in suffixed : LinuxUserTaken(u)
    /\ req' = [req EXCEPT ![p] = Idle]
    /\ UNCHANGED <<sites, host, late, crashes>>

(* uniqueLinuxUser, one SELECT for each name: the base name is tried once, *)
(* and if a row has it ...                                                 *)
TryBase(p) ==
    /\ req[p].pc = "admit"
    /\ LinuxUserTaken(Base[req[p].row.domain])
    /\ req' = [req EXCEPT ![p].pc = "suffix"]
    /\ UNCHANGED <<sites, host, late, crashes>>

(* ... names with a random suffix are, until one is in no row.             *)
PickUser(p) ==
    /\ req[p].pc \in {"admit", "suffix"}
    /\ \E u \in Names[req[p].row.domain], i \in FreshIds :
          /\ ~LinuxUserTaken(u)
          /\ req[p].pc = "admit" <=> u = Base[req[p].row.domain]
          /\ req' = [req EXCEPT ![p].pc = "insert", ![p].id = i,
                                ![p].row = [@ EXCEPT !.status = "provisioning", !.user = u]]
    /\ UNCHANGED <<sites, host, late, crashes>>

(* Mutant: the column domain is not UNIQUE.                                *)
InsertRowNotUnique(p) ==
    /\ req[p].pc = "insert"
    /\ req' = [req EXCEPT ![p].pc = "create_site_user"]
    /\ sites' = [sites EXCEPT ![req[p].id] = req[p].row]
    /\ UNCHANGED <<host, late, crashes>>

(* Mutant: the error of the INSERT is dropped.                             *)
InsertRowUnchecked(p) ==
    /\ req[p].pc = "insert"
    /\ req' = [req EXCEPT ![p].pc = "create_site_user"]
    /\ sites' = IF DomainTaken(req[p].row.domain) THEN sites
                ELSE [sites EXCEPT ![req[p].id] = req[p].row]
    /\ UNCHANGED <<host, late, crashes>>

(* CreateSite: sites.domain is UNIQUE, and a conflict ends the request.    *)
InsertRow(p) ==
    /\ req[p].pc = "insert"
    /\ IF DomainTaken(req[p].row.domain)
       THEN /\ req' = [req EXCEPT ![p] = Idle]
            /\ UNCHANGED sites
       ELSE /\ req' = [req EXCEPT ![p].pc = "create_site_user"]
            /\ sites' = [sites EXCEPT ![req[p].id] = req[p].row]
    /\ UNCHANGED <<host, late, crashes>>

(* The step after a build step that went well.                             *)
After(step, a) ==
    IF step = "create_site_user" THEN "set_quota"
    ELSE IF step = "set_quota" /\ NeedsPHP(a) THEN "provision_php"
    ELSE IF step \in {"set_quota", "provision_php"} THEN "provision_nginx"
    ELSE IF step = "provision_nginx" /\ NeedsDB(a) THEN "create_database"
    ELSE IF step \in {"provision_nginx", "create_database"} /\ NeedsInstall(a) THEN "install_app"
    ELSE "activate"

(* The database's name reaches the copy in memory only.                    *)
Advance(q) == [q EXCEPT !.pc = After(q.pc, q.row.app),
                        !.row = [q.row EXCEPT !.hasDB = @ \/ q.pc = "create_database"]]

(* Mutant: a failed nginx -t is only logged.                               *)
GiveUpUnlessNginx(q) == IF q.pc \in {"set_quota", "provision_nginx"}
                        THEN Advance(q) ELSE [q EXCEPT !.pc = "mark_error"]

(* Mutant: the handler returns without marking the row.                    *)
GiveUpSilently(q) == IF q.pc = "set_quota" THEN Advance(q) ELSE Idle

(* What a failed build step leads to; set_quota's error is only logged.    *)
GiveUp(q) == IF q.pc = "set_quota" THEN Advance(q) ELSE [q EXCEPT !.pc = "mark_error"]

BuildStep(p) ==
    /\ req[p].pc \in BuildSteps
    /\ Ask(p, Advance(req[p]), GiveUp(req[p]))
    /\ UNCHANGED <<sites, crashes>>

(* Mutant: the copy is saved with its status as it was.                    *)
MarkErrorUnchanged(p) ==
    /\ req[p].pc = "mark_error"
    /\ UpdateSite(req[p].id, req[p].row)
    /\ req' = [req EXCEPT ![p] = Idle]
    /\ UNCHANGED <<host, late, crashes>>

MarkError(p) ==
    /\ req[p].pc = "mark_error"
    /\ UpdateSite(req[p].id, [req[p].row EXCEPT !.status = "error"])
    /\ req' = [req EXCEPT ![p] = Idle]
    /\ UNCHANGED <<host, late, crashes>>

Activate(p) ==
    /\ req[p].pc = "activate"
    /\ UpdateSite(req[p].id, [req[p].row EXCEPT !.status = "active"])
    /\ req' = [req EXCEPT ![p] = Idle]
    /\ UNCHANGED <<host, late, crashes>>

------------------------------------------------------------------------------
(* The handlers that start from a row.                                     *)

(* What the panel shows a button for: the handlers themselves accept any   *)
(* status.                                                                 *)
Offered(k) == CASE k = "suspend" -> {"active"}
                [] k = "resume"  -> {"suspended"}
                [] OTHER -> LiveStatus

(* GetSite: the whole row is copied here, before the agent is called.      *)
ReadSite(p, i, k) ==
    /\ req[p].pc = "idle"
    /\ sites[i].status \in Offered(k)
    /\ Quiet(sites[i].domain)
    /\ req' = [req EXCEPT ![p] = [pc |-> IF k = "delete" THEN "destroy" ELSE "edit",
                                  kind |-> k, id |-> i, row |-> sites[i],
                                  app |-> sites[i].app]]
    /\ UNCHANGED <<sites, host, late, crashes>>

(* handleDeleteSite keeps the row when the agent fails.                    *)
Destroy(p) ==
    /\ req[p].pc = "destroy"
    /\ Ask(p, [req[p] EXCEPT !.pc = "drop"], Idle)
    /\ UNCHANGED <<sites, crashes>>

EditCall(p) ==
    /\ req[p].pc = "edit"
    /\ Ask(p, [req[p] EXCEPT !.pc = "save"], Idle)
    /\ UNCHANGED <<sites, crashes>>

(* Mutant: a status no other handler knows.                                *)
EditedMisnamed(q) == IF q.kind = "suspend" THEN [q.row EXCEPT !.status = "disabled"]
                     ELSE q.row

(* Mutant: every edit ends by activating the site.                         *)
EditedActive(q) == [q.row EXCEPT !.status = IF q.kind = "suspend" THEN "suspended"
                                            ELSE "active"]

(* The copy with the one column the handler is about.                      *)
Edited(q) == CASE q.kind = "suspend" -> [q.row EXCEPT !.status = "suspended"]
               [] q.kind = "resume"  -> [q.row EXCEPT !.status = "active"]
               [] q.kind = "ssl"     -> [q.row EXCEPT !.ssl = TRUE]
               [] OTHER -> q.row

SaveEdit(p) ==
    /\ req[p].pc = "save"
    /\ UpdateSite(req[p].id, Edited(req[p]))
    /\ req' = [req EXCEPT ![p] = Idle]
    /\ UNCHANGED <<host, late, crashes>>

------------------------------------------------------------------------------
(* The environment.                                                        *)

(* The agent gets to a call whose caller is gone.                          *)
RunLate ==
    \E c \in late : \E r \in Exec(host, c) :
        /\ host' = r.host
        /\ late' = late \ {c}
        /\ UNCHANGED <<sites, req, crashes>>

Calling(q) == q.pc \in BuildSteps \cup {"redestroy", "destroy", "edit"}

(* The API dies with all its requests; calls already on the socket may     *)
(* still be run.                                                           *)
Crash ==
    /\ crashes < MaxCrashes
    /\ crashes' = crashes + 1
    /\ req' = [p \in Procs |-> Idle]
    /\ \E sent \in SUBSET {p \in Procs : Calling(req[p]) /\ OpOf(req[p]) \in LateOps} :
          late' = late \cup {CallOf(req[p]) : p \in sent}
    /\ UNCHANGED <<sites, host>>

Init ==
    /\ sites = [i \in Ids |-> NoRow]
    /\ host = EmptyHost
    /\ req = [p \in Procs |-> Idle]
    /\ late = {}
    /\ crashes = 0

(* A request that was received runs to its end.                            *)
Serve(p) ==
    \/ Redestroy(p) \/ DropRow(p)
    \/ Refuse(p) \/ TryBase(p) \/ PickUser(p) \/ InsertRow(p)
    \/ BuildStep(p) \/ MarkError(p) \/ Activate(p)
    \/ Destroy(p) \/ EditCall(p) \/ SaveEdit(p)

Next ==
    \/ \E p \in Procs :
          \/ \E d \in Domains, a \in Apps : Lookup(p, d, a)
          \/ \E i \in Ids, k \in Kinds : ReadSite(p, i, k)
          \/ Serve(p)
    \/ RunLate
    \/ Crash

Spec == Init /\ [][Next]_vars

(* A goroutine that was started is scheduled again and every call of the   *)
(* agent ends, by an answer or by the deadline; nobody has to order sites. *)
FairSpec == Spec /\ \A p \in Procs : WF_vars(Serve(p))

------------------------------------------------------------------------------
(* Properties.                                                             *)

TypeOK ==
    /\ sites \in [Ids -> Row]
    /\ host \in HostType
    /\ req \in [Procs -> Request]
    /\ late \subseteq Call
    /\ crashes \in 0..MaxCrashes

(* An id that was deleted stays deleted: a handler that finishes late, with *)
(* a copy read before the DELETE, must not bring the row back.  Code: the   *)
(* UPDATE ... WHERE id = ? of UpdateSite, models.go.                        *)
NoResurrection ==
    [][\A i \in Ids : sites[i].status = "deleted" => sites'[i] = sites[i]]_vars

(* However requests for one domain overlap, they never leave two rows for  *)
(* it.  Code: GetSiteByDomain then INSERT, in two statements.              *)
OneRowPerDomain ==
    \A i, j \in Ids :
        Live(i) /\ Live(j) /\ sites[i].domain = sites[j].domain => i = j

(* An account on the machine was recorded in a row before it was created:  *)
(* no crash, late call or lost race creates one the panel never knew of.   *)
(* Code: CreateSite precedes create_site_user in provisionSite.            *)
AccountsClaimed ==
    \A u \in host.accounts :
        \E i \in Ids : sites[i].status # "free" /\ sites[i].user = u

InCharge(p, i) ==
    /\ req[p].id = i
    /\ req[p].kind = "create"
    /\ req[p].pc \in BuildSteps \cup {"activate", "mark_error"}

(* While the API stays up, a row in status "provisioning" has a request    *)
(* working on it: every error path of provisionSite rewrites the status.   *)
OwnedProvisioning ==
    crashes = 0 => \A i \in Ids :
        sites[i].status = "provisioning" => \E p \in Procs : InCharge(p, i)

(* A request is going to write back a copy of row i read in the build.     *)
Revives(i) ==
    \E p \in Procs : /\ req[p].pc \in {"edit", "save"}
                     /\ req[p].id = i /\ req[p].row.status = "provisioning"

(* No site stays in "provisioning", the status that makes every later      *)
(* order for its domain answer "already exists", as long as the API stays  *)
(* up, UPDATE works and nobody asks for its SSL, quota or files before its *)
(* build is over.  (Such a request writes the whole row back: a page that  *)
(* shows the quota of a new site can leave it there for good.)             *)
NoStuckProvisioning ==
    "update_site" \notin FailingOps =>
        \A i \in Ids :
            [](crashes = 0 /\ ~Revives(i)) =>
                ((sites[i].status = "provisioning") ~> (sites[i].status # "provisioning"))

(* What the machine carries belongs to a row: a crash, between any two     *)
(* statements, leaves no account, pool or vhost that deleting or ordering  *)
(* again would not find.  Code: row before account in provisionSite,       *)
(* destroy before DELETE in handleDeleteSite.                              *)
NoOrphans ==
    LET Known(u) == LinuxUserTaken(u)
    IN  /\ \A u \in host.accounts \cup host.pools : Known(u)
        /\ \A d \in Domains : host.vhosts[d] # NoUser =>
              \E i \in Ids : Live(i) /\ sites[i].domain = d /\ sites[i].user = host.vhosts[d]

Served(row) ==
    /\ row.user \in host.accounts
    /\ host.vhosts[row.domain] = row.user
    /\ NeedsPHP(row.app) => row.user \in host.pools
    /\ NeedsDB(row.app) => row.hasDB /\ host.dbs[DBNameOf[row.user]] = row.user

(* A site shown as active or suspended has all of its pieces on the        *)
(* machine, unless a request is just taking it down: nothing another site  *)
(* goes through takes any of them away.  (A crash between destroy and      *)
(* DELETE does leave an empty active row, so this is about an API that     *)
(* stays up.)  Code: status "active" is written last in provisionSite.     *)
ServedUnlessCrashed ==
    crashes = 0 => \A i \in Ids :
        sites[i].status \in {"active", "suspended"} =>
            \/ Served(sites[i])
            \/ \E p \in Procs : req[p].id = i /\ req[p].pc = "drop"

(* A row that no request is about to delete.                               *)
Settled(i) == Live(i) /\ \A p \in Procs : req[p].id = i => req[p].pc # "drop"

(* The call c, run now, damages the site of the row.                       *)
Harms(c, row) ==
    LET sameDB == DBNameOf[c.user] = DBNameOf[row.user]
    IN  \/ c.op = "destroy_site" /\ (c.user = row.user \/ c.domain = row.domain \/ sameDB)
        \/ c.op = "provision_nginx" /\ c.domain = row.domain /\ c.user # row.user
        \/ c.op = "create_database" /\ sameDB /\ c.user # row.user

(* No call for another site, and none the API has given up, damages a site *)
(* of the table.                                                           *)
Unharmed ==
    /\ \A p \in Procs : Calling(req[p]) =>
          \A i \in Ids : Settled(i) /\ i # req[p].id => ~Harms(CallOf(req[p]), sites[i])
    /\ \A c \in late : \A i \in Ids : Settled(i) => ~Harms(c, sites[i])

(* Nothing else takes a site down: orders, retries, deletions and edits of *)
(* one site may overlap as they like, and calls may fail and come late; a  *)
(* site shown as up lacks a piece only where a call for another site, or   *)
(* one that was given up, names what has become this one's.  Code:         *)
(* provisionSite and the handlers that write a row back, where DELETE      *)
(* works.                                                                  *)
ServedUnlessHarmed ==
    "delete_site" \notin FailingOps => ([]Unharmed => []ServedUnlessCrashed)

(* The life of sites as SiteLifecycle states it.                           *)
Lifecycle == INSTANCE SiteLifecycle WITH
    site <- [i \in Ids |-> [status |-> sites[i].status, domain |-> sites[i].domain]]

(* Every statement on the table is a step of SiteLifecycle or a stutter.   *)
LifecycleSpec == Lifecycle!Spec

(* "Isolation site | user Linux + systemd" (docs/docker-portainer.md:89):  *)
(* two sites never share a Linux account.                                  *)
OneUserPerSite ==
    \A i, j \in Ids : Live(i) /\ Live(j) /\ sites[i].user = sites[j].user => i = j
==============================================================================
