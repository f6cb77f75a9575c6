------------------------------ MODULE HostAgent ------------------------------
(***************************************************************************)
(* The root agent (internal/agent) seen from the API: what one operation   *)
(* does to the machine.  server.go dispatches every operation under one    *)
(* mutex, so an operation is a single step; this module has no variable of *)
(* its own, only operators that map a host and a call to the set of        *)
(* answers the agent may give: [ok, host] pairs.                           *)
(*                                                                         *)
(* An operation listed in FailingOps may also fail, and then leaves        *)
(* whatever its first steps wrote: the handlers undo nothing.  A call that *)
(* never reaches the agent (socket down) is a failure that changes nothing.*)
(* Left out: file contents, passwords, logs, quotas (no decision reads     *)
(* them back).                                                             *)
(***************************************************************************)
CONSTANTS
    Domains,    \* domain names sites are ordered for
    Users,      \* Linux account names
    NoUser,     \* "nobody": no vhost, no database
    DBNames,    \* MariaDB database names
    DBNameOf,   \* the name provisionSite derives from an account name
    DryRun,     \* the agent's -dry-run mode: files under DataDir instead of a machine
    FailingOps  \* what may fail in this environment

ASSUME HostAssumption ==
    /\ NoUser \notin Users
    /\ DBNameOf \in [Users -> DBNames]
    /\ DryRun \in BOOLEAN

Ops == {"create_site_user", "set_quota", "provision_php", "provision_nginx",
        "create_database", "install_app", "destroy_site", "issue_ssl",
        "suspend_site", "resume_site", "quota_usage"}

(* A request on the agent's socket: the parameters the handlers read; db   *)
(* says whether destroy_site is given a database name.                     *)
Call == [op : Ops, user : Users, domain : Domains, db : BOOLEAN]

(* accounts: system users with their home; pools: php-fpm pools; vhosts:   *)
(* the account each nginx site serves; dbs: the account whose site holds   *)
(* the database's current password; certs, flags: certificates and the     *)
(* "suspended" marker files.                                               *)
HostType == [accounts : SUBSET Users,
             pools    : SUBSET Users,
             vhosts   : [Domains -> Users \cup {NoUser}],
             dbs      : [DBNames -> Users \cup {NoUser}],
             certs    : SUBSET Domains,
             flags    : SUBSET Domains]

EmptyHost == [accounts |-> {}, pools |-> {},
              vhosts |-> [d \in Domains |-> NoUser],
              dbs |-> [n \in DBNames |-> NoUser],
              certs |-> {}, flags |-> {}]

Done(h) == [ok |-> TRUE, host |-> h]
Failed(h) == [ok |-> FALSE, host |-> h]

(* The answers of a handler that turns h into made: it succeeds, or it     *)
(* stops with an error before or after its writes.                         *)
Answers(op, h, made) ==
    {Done(made)} \cup (IF op \in FailingOps THEN {Failed(h), Failed(made)} ELSE {})

(* useradd refuses an existing account; the dry run overwrites its file.   *)
CreateSiteUser(h, u) ==
    IF u \in h.accounts /\ ~DryRun
    THEN {Failed(h)}
    ELSE Answers("create_site_user", h, [h EXCEPT !.accounts = @ \cup {u}])

ProvisionPHP(h, u) == Answers("provision_php", h, [h EXCEPT !.pools = @ \cup {u}])

ProvisionNginx(h, d, u) ==
    Answers("provision_nginx", h, [h EXCEPT !.vhosts = [@ EXCEPT ![d] = u]])

(* CREATE ... IF NOT EXISTS, then ALTER USER: an existing database passes  *)
(* to whoever asks last.                                                   *)
CreateDatabase(h, u) ==
    Answers("create_database", h, [h EXCEPT !.dbs = [@ EXCEPT ![DBNameOf[u]] = u]])

(* The database goes first and its failure ends the handler with nothing   *)
(* removed; userdel's failure is ignored; only the dry run knows about     *)
(* certificates and suspension flags.                                      *)
DestroySite(h, c) ==
    LET name == DBNameOf[c.user]
        gone == [accounts |-> h.accounts \ {c.user},
                 pools    |-> h.pools \ {c.user},
                 vhosts   |-> [h.vhosts EXCEPT ![c.domain] = NoUser],
                 dbs      |-> IF c.db THEN [h.dbs EXCEPT ![name] = NoUser] ELSE h.dbs,
                 certs    |-> IF DryRun THEN h.certs \ {c.domain} ELSE h.certs,
                 flags    |-> IF DryRun THEN h.flags \ {c.domain} ELSE h.flags]
    IN  {Done(gone)}
        \cup (IF "destroy_site" \in FailingOps THEN {Failed(h)} ELSE {})
        \cup (IF "userdel" \in FailingOps
              THEN {Done([gone EXCEPT !.accounts = h.accounts])} ELSE {})

IssueSSL(h, d) == Answers("issue_ssl", h, [h EXCEPT !.certs = @ \cup {d}])

(* The flag file is written or removed and every error is dropped; a       *)
(* suspend or resume only fails when the agent cannot be reached.          *)
SuspendSite(h, d) == Answers("suspend_site", h, [h EXCEPT !.flags = @ \cup {d}])
ResumeSite(h, d) == Answers("resume_site", h, [h EXCEPT !.flags = @ \ {d}])

(* Quota, disk usage and the one-click installers write inside the home    *)
(* of an account or not at all.                                            *)
Untouched(h, op) == Answers(op, h, h)

(* dispatch: one operation, with the machine to itself.                    *)
Exec(h, c) ==
    CASE c.op = "create_site_user" -> CreateSiteUser(h, c.user)
      [] c.op = "provision_php"    -> ProvisionPHP(h, c.user)
      [] c.op = "provision_nginx"  -> ProvisionNginx(h, c.domain, c.user)
      [] c.op = "create_database"  -> CreateDatabase(h, c.user)
      [] c.op = "destroy_site"     -> DestroySite(h, c)
      [] c.op = "issue_ssl"        -> IssueSSL(h, c.domain)
      [] c.op = "suspend_site"     -> SuspendSite(h, c.domain)
      [] c.op = "resume_site"      -> ResumeSite(h, c.domain)
      [] OTHER                     -> Untouched(h, c.op)
==============================================================================
