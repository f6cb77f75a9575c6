# A formal model of Hébernet

Hébernet is a self-hosted web hosting panel: an HTTP API in Go with an SQLite
database, an agent that runs as root behind a Unix socket, a Vue panel, and a
shop window where clients pay with Stripe. This directory holds TLA+ modules
translated from the Go source (`src/internal`, `src/cmd`), the TLC
configurations that check them, and TLAPS proofs of what holds for every size.

`PROJECT.json` is the machine-readable side of this file: components, runs,
mutants, the lines each definition translates (`map`), hazards and theorems.

## 1. The system

| Part | State it keeps | Operations | Talks to |
|---|---|---|---|
| API: site handlers (`api/provision.go`, `api/handlers.go`) | none but the request's local variables | order, delete, suspend, resume, SSL, quota, files | store, agent |
| API: Stripe (`api/stripe.go`, `api/stripe_checkout.go`) | none | checkout, webhook, status poll | Stripe, store, provisionSite, Resend |
| API: packages | none | create, edit, delete | store |
| API: cron (`api/phase2.go`) | none | add/remove job | store, agent |
| API: sidecars (`tools/sidecars.go`) | one child process per kind with its port and site, under a mutex; downloaded files | open Adminer / FileBrowser | store, agent, GitHub |
| API: start (`cmd/api/main.go`, `store.Open`) | none | schema, `expandAppTypes`, columns, seeds, then it serves | SQLite |
| Store (`store/*.go`) | tables `users`, `packages`, `sites`, `sessions`, `cron_jobs`, `stripe_sessions`, `stripe_pending` | one SQL statement per method, `DeletePackage` two | SQLite |
| Agent (`agent/*.go`) | nothing in memory; accounts, homes, php-fpm pools, nginx vhosts, databases, certificates, marker files, crontabs | one operation per connection, all under one mutex | the machine |
| Panel (`ui/`), shop window (`vitrine/`) | the page | buttons; the payment page polls the status | API |
| External | Stripe's sessions and events; systemd | | API |

How they interact:

* Every request is a goroutine. No lock of the API covers more than one SQL
  statement, and there are no transactions: whatever happens between two
  statements, or between a statement and a call of the agent, interleaves.
* `agentclient.Call` gives up after 30 seconds; the agent does not notice and
  finishes the operation, or starts it when its mutex is free.
* The agent's handlers undo nothing when they fail half-way.
* When the API dies, systemd ends its children with it and starts it again: the
  migrations and seeds run on whatever the file holds. There is no recovery pass
  over rows left in status `provisioning`.
* Foreign keys are on. Deleting a site, and dropping the table `sites` in a
  migration, deletes cron jobs by cascade; nobody tells the crontabs.
* `provisionSite` is entered by the panel and by two Stripe paths, the webhook
  and the status poll, which may run for the same session at the same time.

What is hard here, then: check-then-act on the database (account names,
domains, limits, package deletion), rows copied before an agent call and written
back whole after it, partial failures, calls that take effect after they were
reported as failed, crashes between two statements, repeated and concurrent
deliveries of one payment, several payments for one domain, starts cut between
two statements, and child processes shared by all clients.
`PROJECT.json` lists 40 such hazards with their lines. For 10 of them no property
speaks: most of these simply happen, and their notes say where.

What makes each part correct:

* **Sites**: one row per domain; a row never comes back from deletion; a row in
  `provisioning` has somebody working on it and leaves that status; what the
  machine carries can be found from a row; an active site has all of its pieces;
  sites do not share accounts; deletion removes everything. (Not all of that
  holds: section 3 says under which conditions each does.)
* **Packages**: limits stay sensible numbers, are respected up to the requests
  in flight, and no site is left on a deleted package.
* **Stripe**: nothing unpaid is built; a paid order of a client is eventually
  processed and Stripe never stops repeating an event that is not; credentials go once and to
  the owner, and no site comes up without them being sent; a poll only retries
  sites in error.
* **Cron**: an account runs only enabled jobs entered for its sites; no job
  outlives its site; what a request was told it installed is what the table says.
* **Start**: wherever it is cut, and however often, no site is lost, no job
  but by a rebuild, the next start is not blocked, and what serves is complete.
* **Sidecars**: one process of a kind at most; an address does not lead to
  another site, which the code guarantees only until its port is found free and
  used again; what is run or installed was downloaded to its end.

## 2. Modules

| Module | Models | Used by |
|---|---|---|
| `HostAgent` | what one agent operation does to the machine: `Exec(host, call)` is the set of `[ok, host]` answers | `Provisioning` |
| `SiteLifecycle` | abstract specification: the life of a site with no request, agent or crash in sight | `Provisioning!Lifecycle` |
| `Provisioning` | `provisionSite`, delete, and the read-call-write handlers, timeouts, crashes | `StripeOrders` |
| `PaidSites` | abstract specification: what a client who pays is promised, with no webhook, poll, request or retry in sight | `StripeOrders!Promise` |
| `StripeOrders` | checkout, webhook, poll, `fulfillStripeOrder` | |
| `PackageLimits` | packages and the limit checks of `provisionSite` | |
| `CronJobs` | the cron handlers, `syncCron`, and the life of sites as far as jobs see it | `Startup` |
| `DatabaseFile` | abstract specification: what may ever happen to the SQLite file, with no statement, request or journal in sight | `Startup!File` |
| `Startup` | a start of the API, statement by statement, its crashes, and the requests of `CronJobs` while it serves | |
| `Sidecars` | `EnsureAdminerPHP`, `EnsureFilebrowserBin`, `StartPHP`, `StartFilebrowser` and their handlers | |
| `MCProvisioning`, `MCPackageLimits`, `MCStripeOrders`, `MCStartup`, `MCSidecars` | instances for TLC | the `.cfg` files |
| `ProvisioningProofs`, `LifecycleProofs`, `HostingProofs` | theorems about `Provisioning`, each extending the one before | |
| `PackageLimitsProofs`, `StripeOrdersProofs`, `CronJobsProofs`, `StartupProofs`, `SidecarsProofs` | theorems about the modules they are named after | |

### Correspondence

*Provisioning.* `sites` is the table; a deleted row keeps its columns as a
tombstone in status `deleted`, so that properties can speak of it, and every
query of the model looks at live rows only. `req[p]` is the goroutine of slot
`p`: `pc` is the next statement, `row` the `store.Site` in its local variable.
One action is one statement on SQLite or one call of the agent:
`Lookup` (GetSiteByDomain) → `Redestroy` → `DropRow` → `Refuse` (owner, package,
limits), or `TryBase` and `PickUser` (`uniqueLinuxUser`) → `InsertRow` (CreateSite) →
`BuildStep` (the agent calls, in the order `After` gives) → `Activate` or
`MarkError` (UpdateSite). `ReadSite` → `Destroy` → `DropRow` is handleDeleteSite;
`ReadSite` → `EditCall` → `SaveEdit` the others. `handleOpenFiles` ends with the
same whole-row UPDATE as the quota handler and is not repeated. `Ask` is
`agentclient.Call`: answered, refused, or given up with the call put in `late`.
The account-name search is one SELECT for each candidate: `PickUser` finds the base
name free, or else `TryBase` finds it taken and `PickUser` a suffixed one free. A
suffixed name found taken changes nothing, since the next one is drawn at random;
when the eight are used up the order is refused (`Refuse`). The owner, package and
limit checks, which do not change state, are the `"admit"` refusal here and modelled
in full in `PackageLimits`.

*HostAgent.* `FailingOps` names what may fail in a run: an operation then fails
before or after its writes. `DryRun` is the agent's `-dry-run`; all runs use the
real mode, the one the product is for.

*StripeOrders* extends `Provisioning` and shares its slots: `ord[p]` is the
order's side of a request, `req[p]` what the `provisionSite` it called does.
`FindUser` is everything of `fulfillStripeOrder` before `provisionSite`: it is
refused for an e-mail in `Staff`, whose account is not a client's, and when the
package or the SELECT fails. `Staff` is fixed: an administrator can create further
administrators (handleCreateUser), but no role ever changes.
Slots without an order serve the panel (`Panel`), which deletes and edits sites;
orders placed in the panel are in `Provisioning`. `pay` and `events` are Stripe.
`Promise` is `PaidSites` on the tables `sites` and `stripe_sessions`, the column
`owner_id` and the mails: a site is raised for a paid session on a domain where
none is up, belongs to that session's client for good, its passwords are mailed
once and to nobody else, and a session's record moves on but is never lost.

*PackageLimits* repeats a small part of `provisionSite` on purpose: limits are
per owner and package, need several sites per owner, and nothing of the machine.

*CronJobs.* `jobs` is the table, a deleted row keeps its columns; `crontab` is
what each account runs. A request is `GetSite` (`CreateCron`, `DeleteCron`), the
row (`InsertJob`, `EraseJob`), `ListJobs`, `Sync`; a job is reduced to what the
agent makes of it (`JobKinds`: a line, skipped, or refused with its whole list).
`provisionSite` and handleDeleteSite appear as the row and the account only;
they are in full in `Provisioning`. `alone` and `settled` are ghosts: whether
anything else worked on the account during a request, and whether the last one
ran alone and was answered well. `CronSpec` is not run by itself: `Startup`
composes its actions with restarts.

*Startup* extends `CronJobs`. `stage` is the next statement of `migrate`,
`seedMinimal` or `up`. The variables are what the connection sees; `journal`
holds what the file goes back to if the transaction of `expandAppTypes` ends
without a COMMIT, and `Committed` is what the file holds. `DropOld` deletes the
rows and, by `Cascade`, the jobs, as SQLite does with foreign keys on.
`expandAppTypes` takes any error of its INSERT to the rebuild and drops the error
of its DELETE: `FailingSQL` says which of the two may fail for reasons of their
own, and the ghost `misled` remembers that an INSERT has. `File` is
`DatabaseFile` on `Committed`: sites and jobs come and go while the server is up,
and while it is down the table is brought up to date at one stroke. The first
start is on a new file, or on one of an older version with sites, jobs and
crontabs (`OldSites`, `OldJobs`).

*Sidecars.* `mgr` is the fields of `tools.Manager`, `lock` its mutex. Starts are
numbered; `at` is the port `freePort` found for each, any one nobody listens on at
that moment (one found before, too), and `kids` the process. `taken` is the ports
of other programs. Files are inodes with the parts written so far, since
`filebrowser.tmp` is renamed while another request may have it open. `Bind`, `Die` and `Take` are the children and
the other programs of the host; `urls` remembers every address handed to a
client. `shared` is a ghost: two requests have had one download in hand.

### Assumptions about the callers

* `Offered`: suspend is asked for active sites and resume for suspended ones,
  as `SiteManage.vue:221-222` shows the buttons. The handlers check nothing.
* `Exclusive`: in `prov_exclusive` clients never have two requests on one domain
  at a time. The code does not enforce it; the other runs do without it, and the
  properties checked only under it are the ones overlap breaks.
* `CronJobs` gives a new site an account name no other row has. Two orders at
  once may get the same (`prov_shared_user`); their sites would share a crontab.

## 3. Runs

Passing:

| Run | Checks | Instance |
|---|---|---|
| `prov_exclusive` | `TypeOK`, `NoOrphans`, `ServedUnlessCrashed`, `LifecycleSpec` | 2 requests, 2 domains with own account names, 3 ids, `codeigniter`, 1 crash; every build step and UPDATE may fail |
| `prov_race` | `OneRowPerDomain`, `AccountsClaimed`, `OwnedProvisioning`, `NoResurrection` | 2 requests, 2 domains competing for 2 accounts, 2 ids, `php`, 1 late call; lookup, destroy and DELETE may fail |
| `prov_progress` | `NoStuckProvisioning`, `ServedUnlessHarmed` | 2 requests (orders, deletions, quota) on 1 domain, 2 ids, 1 late call, fair; `create_site_user`, `provision_nginx`, `destroy_site` may fail |
| `limits` | `TypeOK`, `SitesBounded`, `DatabasesBounded`, `PackageKept` | 2 requests, 1 owner, 1 package, 3 sites, limits typed as -1, 1 or 2; at most 1 database |
| `stripe_orders` | `OrdersTypeOK`, `AnsweredIsProcessed`, `OnlyPaid`, `CredentialsToOwner`, `PasswordsSent`, `PromiseSpec` | 2 sessions of 2 clients for 1 domain, 2 requests, 2 ids, 1 crash, lost answers, `provision_nginx` and the package's SELECT may fail |
| `startup` | `TypeOK`, `SitesKept`, `JobsKept`, `SettledAcrossStarts`, `OnlyOwnJobs`, `JobsHaveSite`, `ServesSeeded`, `RebuildNeverBlocked`, `FileSpec` | 2 requests, 3 sites (2 with one account name, 1 with another), 2 jobs (1 enabled, 1 not), old file with a site and a job or a new one, 1 crash, 1 late `sync_cron`; `sync_cron`, `destroy_site` and both statements of the probe may fail; no further than 1 deleted site and 1 deleted job (`Bounded`) |
| `sidecars` | `TypeOK`, `UrlsKeepToSite`, `OneProcessPerKind`, `BinaryWhole`, `AdminerWhole` | 2 requests, both kinds, 2 sites, 3 inodes, 2 mirrors, 2 ports, 3 starts, 3 openings, 2 upsets (death, port taken, download cut), 1 crash |
| `stripe_progress` | `PaidProcessed` | 2 sessions, one of them for an e-mail of the staff, 2 requests (the panel's ask for the quota), 2 ids, 1 crash, mails may be lost, fair |

Expected violations, each a disagreement between the code and what the
repository says (details under `findings`):

| Run | Property | What TLC shows |
|---|---|---|
| `prov_shared_user` | `OneUserPerSite` | two orders for `a.fr` and `a.com` both find `hb_a` free and insert it |
| `startup_rebuild` | `RebuiltOnlyIfOld` | a start on a table in use is cut between the probe's INSERT and DELETE (the second crash of the trace; the first is the restart); the next ones rebuild a current table, which erases all cron jobs |
| `stripe_suspended` | `PollRetriesErrors` | reloading the payment page of a suspended site destroys it and builds it anew, active |
| `stripe_password` | `UnchangedIsTrue` | the account is made by a first attempt that fails; the mail of the second calls a password unchanged that nobody was ever given |

Why the bounds are enough: every race of this code is between two requests (a
check of one and a write of the other), so two slots show it. Two domains let
requests disturb each other's sites; two or three ids let a domain be ordered,
fail and be ordered again (`prov_exclusive` needs the third to do so on one
domain while the other one lives). One late call or crash is enough because
neither leaves memory behind that a second could combine with, and the theorems
hold for any number. When ids run out an order is refused (`Refuse`), which only
cuts behaviours short. `limits` has a limit of one site and of one
database, so that two requests pass it with three rows, and of two sites with one
database, where the two limits differ (`FewDatabases` leaves the rest out).

`startup` has two ids for one account name, so that a site can be deleted and its
name used again, and a third for another account, so that a job may end up in the
wrong crontab; ids are taken in one order (`NextSites`), since they are random in
the code. `Entered` fixes which job is enabled, and a refused one needs no job of
its own, because `sync_cron` may fail anyway; the kinds are all there in
`startup_rebuild`. `Bounded` stops after the deletion of one site and one job, which
is where a name can be reused once and a late call can meet its new owner. A crash
can come at every statement of the rebuild of an old table, and a start that leaves
the probe row needs none, since the DELETE may fail: one crash is enough to cut the
rebuild of a current table too, and the theorems hold for any number. `sidecars` needs three starts on two ports for a
port to be found again, two upsets for both mirrors to break or for a child to die
while another finds its port taken, and three inodes for two downloads at once
next to the file in use.

Deadlock is checked in the Provisioning and PackageLimits runs. The runs of
`Startup` and `Sidecars` disable it: ids, openings, ports and crashes run out. The passing
Stripe runs, and `stripe_password`, disable it: when all sessions are processed
and nobody polls, nothing is left to do.

Symmetry (slots, ids, and the two sessions together with their clients) is used
in safety runs only.

Each property has a mutant (`PROJECT.json`, `mutants`): a variant of a
definition with a plausible bug, kept next to it and marked "Mutant", under
which TLC finds the property violated.

### Fairness

* `FairSpec`: `WF(Serve(p))` for each slot. A goroutine that was started is
  scheduled again, an SQLite statement returns, and a call of the agent ends by
  an answer or by its deadline. Clients owe nothing, and late calls need not run.
* `FairOrders`: the same for `Fulfil(p)` and the panel's requests, and strong
  fairness of delivering each outstanding event, since Stripe repeats it until it
  is answered with 2xx and a slot is free again and again. Polls are not fair.

### What the properties leave out

* `SettledAcrossStarts` is about requests on an account that nothing overlapped.
  With overlap, or after a sync reported as failed, crontab and table may differ
  until the next change of the site's jobs (`phase2.go:94`).
* `OnlyOwnJobs` speaks of the account, not of the site: `destroySite` leaves the
  crontab in the dry run, and a late sync may arrive after the name was given to
  another site.
* `JobsKept` and `SettledAcrossStarts` name the three ways a rebuild comes about:
  an old table, a probe row left by a cut start or a failed DELETE, and an INSERT
  that failed for a reason of its own (`store.go:143-148`). Then the jobs do go; the
  second is the finding of `startup_rebuild`. An administrator may also delete a
  left-over probe row, which the list of sites shows; that is not modelled.
* `ServesSeeded` is about crashes. A seed that fails by itself is only logged
  (`main.go:41`), and an administrator may delete packages later.
* `UrlsKeepToSite` is about an address until `freePort` finds its port a second
  time. Without that condition TLC refutes it on the same instance: the port of the
  child that was killed is found again for the next site.
* `AdminerWhole` and `BinaryWhole` name when they may fail: a download shared by
  two requests, and for Adminer, which is written in place and accepted by its
  size, every mirror cut or a crash.
* Certificates and databases are not part of `NoOrphans`. After a deletion the
  certificate stays on a real machine (`ops.go:93`), and so does the database if
  the API died, or `create_database` reported an error, before the row knew its
  name (`provision.go:144`); `AdminSites.vue:78` promises that both are erased.
* `ServedUnlessCrashed`, `ServedUnlessHarmed`, `OwnedProvisioning`,
  `NoStuckProvisioning` are about an API that stays up: a crash between
  `destroy_site` and DELETE leaves an active row with nothing behind it, and one
  during a build leaves `provisioning` for good, since nothing repairs it.
* `NoStuckProvisioning` is about an UPDATE that works, and a site for which no
  request is about to write back a copy read in the build (`Revives`). Such a
  request is not exotic: `SiteManage.vue:43` asks for the quota whenever a site's
  page opens, and handleSiteQuota writes the whole row back, so that a site opened
  while it is built may show `provisioning` for good. SSL and the file browser do
  the same. The run has quota requests; the property says that nothing else keeps
  a site there.
* `ServedUnlessHarmed` needs no `Exclusive`, no names of one's own and no absence
  of late calls: it says what becomes of a site as long as no call for another
  site, and none that was given up, names what is this one's (`Unharmed`). Two
  retries at once, a late `destroy_site`, two sites with one account or with one
  database name are the ways the code has of breaking that. It is about a DELETE
  that works: when handleDeleteSite's fails, the row stays and its pieces are gone.
* `PaidProcessed` leaves out e-mails of the staff (`stripe.go:171`), and everything
  that may fail for ever: a missing package (`stripe.go:128`), the agent, the table.
  Processed means on record. After a crash in a build the row stays in
  `provisioning`, the next delivery finds it there, records the session and sends
  no mail: the order counts as done and the site is not up.
* `NoOrphans` is checked with a `destroy_site` that succeeds: reordering a site
  ignores its failure (`provision.go:44`) and deletes the row anyway. The proof
  has the same hypothesis (`DestroysAll`).
* `AnsweredIsProcessed` is checked with a `MarkStripeSession` that succeeds
  (`"mark_session"` in `FailingOps` refutes it: the error is dropped).
* `PasswordsSent` is about an API that stays up and a mailer that answers. The
  passwords live in the order's local variables only: a crash between the UPDATE
  that makes the site active and the mail, or a mail that is lost, leaves a site
  whose client has no passwords, and the session is marked processed before the
  mail, so that no repetition sends them (`stripe.go:144`).
* `stripe_orders` has no panel deletes. The same run with `Kinds = {"delete"}`
  passes too but has 5.2 million states, too many to repeat with every change.

## 4. Proofs

All checked by `tlapm` to the last leaf, for every value of the constants that
the named assumptions allow (any number of requests, ids, domains, late calls,
crashes, any `FailingOps`).

`ProvisioningProofs`, from `Assumptions` (`HostAssumption` and
`ProvisioningAssumption`):

| Theorem | Property |
|---|---|
| `ProvisioningTypeOK` | `TypeOK` |
| `DomainUnique` | `OneRowPerDomain` |
| `NoUnclaimedAccount` | `AccountsClaimed` |
| `DeletedForGood` | `NoResurrection` |
| `ProvisioningOwned` | `OwnedProvisioning`, when UPDATE does not fail and requests on a domain come one at a time or the panel only deletes, suspends and resumes (`TidyEdits`) |
| `OneUserUnlessRaced` | `OneUserPerSite`, when orders come one at a time (`OneByOne`) or no two domains would try one name (`OwnNames`) |

The invariants are not inductive alone. `AccountsClaimed` needs to know that the
copy a request carries names the row's account, also for calls that run late,
and that rows never change account or domain. `IndInv` therefore joins `TypeOK`,
what a request in each `pc` may assume of its row (its id is used, its copy has
the row's domain and account, an id about to be inserted is nobody else's), what
a late call refers to, and the two properties. `ExecSound` states what an agent
operation may change whatever it answers, `AskEffect` what a call may;
`SharedPart` and `RequestPart` split the invariant into what all requests share
and what one request keeps, and each action has one lemma (`Act...`).
`OwnedProvisioning` follows by a second induction on top of the first: the
request in charge of a row either keeps it or writes another status.
Its hypotheses are needed: a failed UPDATE on the error path leaves the row in
`provisioning`, and an SSL or quota request that read the row during the build
writes that status back when the build is over. Suspending and resuming set the
status themselves, and without overlap nobody reads a row under construction
(`NotBack`).

The run `prov_shared_user` refutes `OneUserPerSite`; `OneUserUnlessRaced` says
how much it takes. With one request at a time the name `PickUser` finds free
still is when it is inserted; if the domains' names are apart, sites that share an
account share a domain, and `OneRowPerDomain` makes them one (`UserInv`).

`LifecycleProofs` and `HostingProofs`, from `Assumptions` and how clients behave:

| Theorem | Property | Hypotheses |
|---|---|---|
| `ImplementsLifecycle` | `LifecycleSpec` | `Exclusive` |
| `NothingUnknown` | `NoOrphans` | `Exclusive`, no late calls, `destroy_site` and userdel do not fail |
| `AllServed` | `ServedUnlessHarmed` | none; the property itself is about a DELETE that works |

`Exclusive` says that clients never have two requests on one domain at a time.
Without it the first two do not hold: two edits of one site write back statuses the
other has changed, and two retries destroy what the other built. `LoneInv` adds
to `IndInv` that busy requests are on different domains and that the row still
has the status the request believes it has; from it every step on the table is a
step of `SiteLifecycle` or a stutter. `TurnInv` adds that the copy a request will
destroy or edit by is the row as it is now, and that an account was chosen from
the names of its domain. With it, `Adds` and `Takes` say what an agent operation
may touch: the account, vhost and database named in the call, and these are the
request's own row's. `FoundInv` strengthens `NoOrphans` to rows no request is
about to delete (`Settled`), since DELETE comes right after `destroy_site`.
These were checked by TLC on the instance of `prov_exclusive` first.

`AllServed` needs none of this and starts from `IndInv` again. `PiecesInv` has for
each request whose row is still there what its build has made so far (`BuiltOn`,
step by step along `After`), which is the whole of `Served` when it writes `active`,
and for each copy of a site that is up, read before somebody else destroys or
rebuilds it, that the site has its pieces as long as the row is there. `Unharmed`
is used for the calls of other requests and the late ones (`HarmlessKeeps`); that a
request on the same row does no harm, whatever overlaps, is proved: it destroys a
site only when the DELETE of the row comes next.

`StripeOrdersProofs`, from `OrdersAssumptions` (those and `OrdersAssumption`):

| Theorem | Property |
|---|---|
| `OrdersProvision` | every behaviour of `OrdersSpec` is one of `Provisioning!Spec` |
| `OrdersKeepTypes` | `OrdersTypeOK` |
| `NothingUnpaid` | `OnlyPaid` |
| `MailedToOwner` | `CredentialsToOwner` |
| `NoPaidOrderForgotten` | `AnsweredIsProcessed`, when MarkStripeSession does not fail |
| `NobodyForgotten` | `PasswordsSent` |
| `ImplementsPaidSites` | `PromiseSpec` |

Since every step of an order is a step of `Provisioning`, `IndInv` carries over,
and with it the theorems above that need nothing of the clients. `OrdersInv` ties
an order to the row it is building: the row's owner is the order's client from
the INSERT on, at most one order has built a given row and not mailed it yet, no
mail about it has been sent, and a session is recorded only with a row of its
domain. The hypothesis of the last theorem is needed, because the error of
MarkStripeSession is dropped and the webhook answers 200 all the same.

`PasswordsSent` is not inductive by its own: a panel request that read the row of
a site while it was up writes that status back, also after a retry has destroyed
the site and is building it again. `ToldInv` therefore asks a mail, or an order
that is about to send one, for every site that is up *or may be brought up by such
a copy* (`Up`). Copies that show a site as up are all there are, because the panel
offers to suspend or resume no other (`EditsShown`, from `Offered`). The only way
an order stops before it mails is GetSite finding the row deleted, and a deleted
row does not come back; a retry of a site that was mailed gets a row of its own.

`PromiseSpec` is the refinement of `PaidSites`. The INSERT of an order is the one
step that raises a site (`BuildAsPromised`); DELETE removes one, whoever asked for
it; MarkStripeSession and the mail are `Enter` and `Tell`, where `BuiltOK` supplies
that the mail is the first about the site and goes to its owner. Every other step
is a stutter: an UPDATE changes nothing the client is promised, because a copy
keeps the row's domain and `UpdateSite` writes the
owner it was read with back.

`PackageLimitsProofs`, from `LimitsAssumption`:

| Theorem | Property |
|---|---|
| `LimitsTypeOK` | `TypeOK` |
| `SiteOvershootBound` | `SitesBounded` |
| `DatabaseOvershootBound` | `DatabasesBounded` |
| `NoDanglingPackage` | `PackageKept` |

They count tickets: an order past its check holds one, and sites
plus tickets stay below the peak limit plus the number of slots, because the
slot that passes its check gives up the room it had as an idle slot. For
databases a site still being built counts with its request, since the query
overlooks it. `CardPart` and `CardTrade` are the two facts about cardinalities
this takes.

`CronJobsProofs` and `StartupProofs`, from `CronAssumption` and
`StartupAssumption`:

| Theorem | Property |
|---|---|
| `StartupTypeOK` | `TypeOK` |
| `NoSiteLost` | `SitesKept` |
| `NoJobLost` | `JobsKept` |
| `CrontabInStep` | `SettledAcrossStarts` |
| `NoForeignJob` | `OnlyOwnJobs` |
| `NoStrayJob` | `JobsHaveSite` |
| `AlwaysSeeded` | `ServesSeeded` |
| `NeverBlocked` | `RebuildNeverBlocked` |
| `ImplementsDatabaseFile` | `FileSpec` |
| `RebuiltOnlyIfOldUncut` | `RebuiltOnlyIfOld`, when no start is cut (`StartsUncut`) and the probe's statements fail only as the CHECK and the keys make them (`Reliable`) |

`CronInv`, the invariant of the requests, adds to the properties what a list held
by a request or a late call may contain (jobs once entered for the account, whose
rows never change site or kind), that live sites have distinct accounts, and what
a request that is still alone knows: its site is live, nobody else is on the
account, and its list is the table's. Every action is a step on one account
(`Touches`), and what it has to ensure there is enough for the whole invariant
(`StepKeeps`). `StartInv` adds the start: `JournalOK` says how, after each
statement of the rebuild, the tables come from the database in the journal, so
that a rollback is sound at every point and the COMMIT brings back every site;
`TableOK` and `SeedsOK` go stage by stage. `StartInv` was checked by TLC on the
instance of `startup` before it was proved.

`FileSpec` is the refinement of `DatabaseFile` under the mapping to `Committed`.
Inside the transaction the mapping stands still (`InTransaction`), a rollback and
a crash are stutters but for the server, and COMMIT is `Rebuild`, because
`OriginOK` and `StatementOK` say of every job that was a row of the old database
that it is gone now and of every other that it is what it was (`CommitOnFile`). A
second deletion of a site that is gone already is a stutter too, which takes
`OnRows`: no request is about a site that was never entered.

The run `startup_rebuild` refutes `RebuiltOnlyIfOld` with a start that is cut.
`RebuiltOnlyIfOldUncut` says that it is the cut that does it: the server may die and
be started again as often as it likes, and starts then probe tables in use, but as
long as each start runs to its end the probe row is there between its INSERT and its
DELETE only (`UncutInv`), and a rebuild of a current table starts from a probe row
left behind. The hypothesis `Reliable` is needed: an INSERT or a DELETE of the
probe that fails by itself rebuilds a current table, now or at the next start, with
no start cut.

`SidecarsProofs`, from `SidecarsAssumption`:

| Theorem | Property |
|---|---|
| `SidecarsKeepTypes` | `TypeOK` |
| `AddressesKeepToSite` | `UrlsKeepToSite` |
| `OneOfEachKind` | `OneProcessPerKind` |
| `WholeBinary` | `BinaryWhole` |
| `WholeAdminer` | `AdminerWhole` |

`ProcessInv` says that one request at most holds the manager's mutex, that every
living child is the one the manager's fields name or the one the holder of the
mutex has just started, and that behind every address there is a start that is over
or has stayed with its kind and its site (`Behind`), not the one being made. Where
the address's port was found once only, whatever answers there is that start. A child that nobody names would survive
the next start; the kills before a start and after a timeout are what keeps that
from happening, and the invariant follows them statement by statement.

`FilesInv` is about who holds which file. A request holds a file from
`os.Create` until it has used it, and only its own tool's (`PlaceOK`); while no
file was used by two, it knows how much of it is written and that
`filebrowser.tmp` still names it (`OwnFileOK`). Two arguments go on from there.
When no download was cut, a file that lacks a part has somebody about to write
it (`Covered`), even if several share it, which is `BinaryWhole`'s middle way.
And each address a request tried in vain was a cut, so that as long as fewer
downloads were cut than there are addresses, the one that writes `adminer.php`
finishes it: a file accepted by its size is then whole, and nobody is
downloading it (`AdminerOK`). Both need files to be told apart, which is what
`SidecarsAssumption` says of inodes. `FilesInv` was checked by TLC on the
instance of `sidecars`, and with three requests for each tool alone, first.

Every safety property of the passing runs but `ServedUnlessCrashed` is thereby a
theorem (of that, `ServedUnlessHarmed` is the part that needs nothing of the clients),
and two of the four refuted ones hold under the hypothesis that excludes their
counterexample. Only
model-checked: the liveness properties, `NoStuckProvisioning` and
`PaidProcessed` (liveness under fairness and ENABLED are out of the prover's
reach).

## 5. Not modelled

Login sessions and roles, credential resets, logs, the demo data of
`-seed-demo`, flags and environment, the theme file and the quota probe of the
sidecars, the legacy installers (WordPress, Laravel, PrestaShop: no
handler calls them), signature checks and the keyless demo mode of checkout, the
table `stripe_pending`, page layout and the installation scripts. `PROJECT.json`
gives the reason for each.
Two simplifications inside what is modelled: every account has a database name
of its own in the runs, though `provision.go:131` drops `hb_` from the middle of
a name too, so that `hb_myhb_site` and `hb_mysite` get one database; and that a
broken nginx file makes every `nginx -t` fail until its site is deleted
(`ops.go:201`) appears as `provision_nginx` failing at any call, with or without
its file written, not as a state of the machine.

## 6. Plan

Done, in this order: `HostAgent`, `Provisioning`, `SiteLifecycle` and the
refinement, `PackageLimits`, `StripeOrders`, proofs of the core invariants;
`CronJobs`, `Startup` (the migration and the seeds composed with cron) with their
proofs, `Sidecars`; the proofs of the refinement, of `NoOrphans` and
`ServedUnlessCrashed`, of `StripeOrders` and of `Sidecars`, its files included;
`PasswordsSent`; the abstract specifications `DatabaseFile` and `PaidSites` with
their refinements; what it takes to refute `OneUserPerSite` and `RebuiltOnlyIfOld`.

Next:

1. `HostAgent`: the broken nginx file and colliding database names as state of
   the machine.
2. The table `stripe_pending` and the demo mode of checkout in `StripeOrders`.

## 7. Running

    tlc -workers 2 -config prov_race.cfg MCProvisioning
    tlapm ProvisioningProofs.tla
