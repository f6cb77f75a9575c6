-------------------------- MODULE ProvisioningProofs --------------------------
(***************************************************************************)
(* Provisioning for any number of requests, sites, domains and accounts,   *)
(* any interleaving, any failures, late calls and crashes.                 *)
(*                                                                         *)
(* The properties about sites are not inductive: a request acts on a copy  *)
(* of the row it read earlier.  What makes them so is that a row's         *)
(* identity - domain and account - is fixed by its INSERT, so that every   *)
(* copy in flight still names the right account (RequestInv).              *)
(***************************************************************************)
EXTENDS Provisioning, TLAPS

Assumptions == HostAssumption /\ ProvisioningAssumption

(* The steps at which a request holds a copy of a row that was inserted.   *)
HoldPCs == BuildSteps \cup {"activate", "mark_error", "redestroy", "drop", "destroy",
                            "edit", "save"}

(* What every request q satisfies against table t.                         *)
AdmitOK(q) ==
    q.pc \in {"admit", "suffix"} => q.row.domain \in Domains /\ q.id = NoId /\ q.kind = "create"

InsertOK(t, q) ==
    q.pc = "insert" =>
        /\ q.id \in Ids /\ t[q.id].status = "free" /\ q.kind = "create"
        /\ q.row.domain \in Domains /\ q.row.user \in Users
        /\ q.row.status = "provisioning"

HoldOK(t, q) ==
    q.pc \in HoldPCs =>
        /\ q.id \in Ids /\ t[q.id].status # "free"
        /\ q.row.domain = t[q.id].domain /\ q.row.user = t[q.id].user
        /\ q.row.status \in LiveStatus

EditOK(q) == q.pc = "edit" => q.kind \in RowKinds \ {"delete"}

RequestOK(t, q) ==
    q \in Request /\ AdmitOK(q) /\ InsertOK(t, q) /\ HoldOK(t, q) /\ EditOK(q)

(* The id of a row about to be inserted is nobody else's.                  *)
Alone(p) == req[p].pc = "insert" => \A r \in Procs : r # p => req[r].id # req[p].id

RequestInv == \A p \in Procs : RequestOK(sites, req[p]) /\ Alone(p)

SiteInv ==
    \A i \in Ids : sites[i].status # "free" =>
        sites[i].domain \in Domains /\ sites[i].user \in Users

Claimed(u) == \E i \in Ids : sites[i].status # "free" /\ sites[i].user = u

LateInv == \A c \in late : Claimed(c.user)

IndInv == TypeOK /\ RequestInv /\ SiteInv /\ LateInv /\ AccountsClaimed /\ OneRowPerDomain

------------------------------------------------------------------------------
(* The agent.                                                              *)

(* What an answer may carry: a host of the right type in which at most     *)
(* account u is new.                                                       *)
Sound(r, h, u) ==
    /\ r.ok \in BOOLEAN
    /\ r.host \in HostType
    /\ r.host.accounts \subseteq h.accounts \cup {u}

LEMMA AnswersSound ==
    ASSUME NEW op, NEW u, NEW h \in HostType, NEW made \in HostType,
           made.accounts \subseteq h.accounts \cup {u},
           NEW r \in Answers(op, h, made)
    PROVE  Sound(r, h, u)
  <1>1. r \in {Done(made), Failed(h), Failed(made)}
    BY DEF Answers
  <1>2. CASE r = Done(made)
    BY <1>2 DEF Done, Sound
  <1>3. CASE r = Failed(h)
    BY <1>3 DEF Failed, Sound
  <1>4. CASE r = Failed(made)
    BY <1>4 DEF Failed, Sound
  <1> QED BY <1>1, <1>2, <1>3, <1>4

(* An operation keeps the host's type, and only ever creates the account   *)
(* it was asked for.                                                       *)
LEMMA ExecSound ==
    ASSUME HostAssumption, NEW h \in HostType, NEW c \in Call, NEW r \in Exec(h, c)
    PROVE  Sound(r, h, c.user)
  <1>0. c.user \in Users /\ c.domain \in Domains /\ c.op \in Ops
    BY DEF Call
  <1>1. CASE c.op = "create_site_user"
    <2> DEFINE made == [h EXCEPT !.accounts = @ \cup {c.user}]
    <2>1. r \in CreateSiteUser(h, c.user)
      BY <1>1 DEF Exec
    <2>2. r = Failed(h) \/ r \in Answers("create_site_user", h, made)
      BY <2>1 DEF CreateSiteUser
    <2>3. made \in HostType /\ made.accounts \subseteq h.accounts \cup {c.user}
      BY <1>0 DEF HostType
    <2> HIDE DEF made
    <2>4. CASE r = Failed(h)
      BY <2>4 DEF Failed, Sound
    <2> QED BY <2>2, <2>3, <2>4, AnswersSound
  <1>2. CASE c.op = "provision_php"
    <2> DEFINE made == [h EXCEPT !.pools = @ \cup {c.user}]
    <2>1. r \in Answers("provision_php", h, made)
      BY <1>2 DEF Exec, ProvisionPHP
    <2>2. made \in HostType /\ made.accounts = h.accounts
      BY <1>0 DEF HostType
    <2> HIDE DEF made
    <2> QED BY <2>1, <2>2, AnswersSound
  <1>3. CASE c.op = "provision_nginx"
    <2> DEFINE made == [h EXCEPT !.vhosts = [@ EXCEPT ![c.domain] = c.user]]
    <2>1. r \in Answers("provision_nginx", h, made)
      BY <1>3 DEF Exec, ProvisionNginx
    <2>2. made \in HostType /\ made.accounts = h.accounts
      BY <1>0 DEF HostType
    <2> HIDE DEF made
    <2> QED BY <2>1, <2>2, AnswersSound
  <1>4. CASE c.op = "create_database"
    <2> DEFINE made == [h EXCEPT !.dbs = [@ EXCEPT ![DBNameOf[c.user]] = c.user]]
    <2>1. r \in Answers("create_database", h, made)
      BY <1>4 DEF Exec, CreateDatabase
    <2>2. made \in HostType /\ made.accounts = h.accounts
      BY <1>0 DEF HostType, HostAssumption
    <2> HIDE DEF made
    <2> QED BY <2>1, <2>2, AnswersSound
  <1>5. CASE c.op = "destroy_site"
    <2> DEFINE gone == [accounts |-> h.accounts \ {c.user},
                        pools    |-> h.pools \ {c.user},
                        vhosts   |-> [h.vhosts EXCEPT ![c.domain] = NoUser],
                        dbs      |-> IF c.db THEN [h.dbs EXCEPT ![DBNameOf[c.user]] = NoUser]
                                     ELSE h.dbs,
                        certs    |-> IF DryRun THEN h.certs \ {c.domain} ELSE h.certs,
                        flags    |-> IF DryRun THEN h.flags \ {c.domain} ELSE h.flags]
    <2>1. r \in DestroySite(h, c)
      BY <1>5 DEF Exec
    <2>2. r \in {Done(gone), Failed(h), Done([gone EXCEPT !.accounts = h.accounts])}
      BY <2>1 DEF DestroySite
    <2>3. gone \in HostType /\ gone.accounts \subseteq h.accounts
      BY <1>0 DEF HostType, HostAssumption
    <2>4. /\ [gone EXCEPT !.accounts = h.accounts] \in HostType
          /\ [gone EXCEPT !.accounts = h.accounts].accounts = h.accounts
      BY <2>3 DEF HostType
    <2> HIDE DEF gone
    <2>5. CASE r = Done(gone)
      BY <2>3, <2>5 DEF Done, Sound
    <2>6. CASE r = Failed(h)
      BY <2>6 DEF Failed, Sound
    <2>7. CASE r = Done([gone EXCEPT !.accounts = h.accounts])
      BY <2>4, <2>7 DEF Done, Sound
    <2> QED BY <2>2, <2>5, <2>6, <2>7
  <1>6. CASE c.op = "issue_ssl"
    <2> DEFINE made == [h EXCEPT !.certs = @ \cup {c.domain}]
    <2>1. r \in Answers("issue_ssl", h, made)
      BY <1>6 DEF Exec, IssueSSL
    <2>2. made \in HostType /\ made.accounts = h.accounts
      BY <1>0 DEF HostType
    <2> HIDE DEF made
    <2> QED BY <2>1, <2>2, AnswersSound
  <1>7. CASE c.op \in {"suspend_site", "resume_site"}
    <2>1. PICK made \in HostType :
             made.accounts = h.accounts /\ r \in Answers(c.op, h, made)
      <3>1. /\ [h EXCEPT !.flags = @ \cup {c.domain}] \in HostType
            /\ [h EXCEPT !.flags = @ \cup {c.domain}].accounts = h.accounts
            /\ [h EXCEPT !.flags = @ \ {c.domain}] \in HostType
            /\ [h EXCEPT !.flags = @ \ {c.domain}].accounts = h.accounts
        BY <1>0 DEF HostType
      <3>2. CASE c.op = "suspend_site"
        <4>1. r \in SuspendSite(h, c.domain)
          BY <3>2 DEF Exec
        <4> QED BY <3>1, <3>2, <4>1 DEF SuspendSite
      <3>3. CASE c.op = "resume_site"
        <4>1. r \in ResumeSite(h, c.domain)
          BY <3>3 DEF Exec
        <4> QED BY <3>1, <3>3, <4>1 DEF ResumeSite
      <3> QED BY <1>7, <3>2, <3>3
    <2> QED BY <2>1, AnswersSound
  <1>8. CASE c.op \in {"set_quota", "install_app", "quota_usage"}
    <2>1. r \in Answers(c.op, h, h)
      BY <1>8 DEF Exec, Untouched
    <2> QED BY <2>1, AnswersSound
  <1> QED BY <1>0, <1>1, <1>2, <1>3, <1>4, <1>5, <1>6, <1>7, <1>8 DEF Ops

------------------------------------------------------------------------------
(* What a step does to the table, to the machine and to the requests.      *)

Rewritten(i) ==
    /\ Live(i)
    /\ sites'[i].domain = sites[i].domain /\ sites'[i].user = sites[i].user
    /\ sites'[i].status \in LiveStatus \cup {"deleted"}

Inserted(i) ==
    /\ sites[i].status = "free" /\ sites'[i].status = "provisioning"
    /\ sites'[i].domain \in Domains /\ sites'[i].user \in Users
    /\ ~DomainTaken(sites'[i].domain)
    /\ \A j \in Ids : j # i => sites'[j] = sites[j]

SitesStep ==
    /\ sites' \in [Ids -> Row]
    /\ \A i \in Ids : sites'[i] = sites[i] \/ Rewritten(i) \/ Inserted(i)

(* Only the request about to insert turns a free row into a site.          *)
FreeKept(p) ==
    \A i \in Ids : sites[i].status = "free" =>
        sites'[i] = sites[i] \/ (req[p].pc = "insert" /\ i = req[p].id)

HostStep ==
    /\ host' \in HostType /\ late' \subseteq Call /\ crashes' \in 0..MaxCrashes
    /\ \A u \in host'.accounts : u \in host.accounts \/ Claimed(u)
    /\ \A c \in late' : c \in late \/ Claimed(c.user)

(* Request p becomes x.                                                    *)
RequestStep(p, x) ==
    /\ req' = [req EXCEPT ![p] = x]
    /\ RequestOK(sites', x)
    /\ x.pc = "insert" => \A q \in Procs : req[q].id # x.id
    /\ \/ x.id \in {req[p].id, NoId}
       \/ x.id \in Ids /\ sites[x.id].status # "free"
       \/ \A q \in Procs : req[q].id # x.id

(* A request about to call the agent names an account some row has.        *)
LEMMA CallSound ==
    ASSUME IndInv, NEW p \in Procs, Calling(req[p])
    PROVE  CallOf(req[p]) \in Call /\ Claimed(CallOf(req[p]).user)
  <1> DEFINE q == req[p]
  <1>1. q \in Request /\ HoldOK(sites, q) /\ EditOK(q)
    BY DEF IndInv, RequestInv, RequestOK
  <1>2. q.pc \in HoldPCs
    BY DEF Calling, HoldPCs
  <1>3. q.id \in Ids /\ q.row.domain \in Domains /\ q.row.user \in Users /\ Claimed(q.row.user)
    BY <1>1, <1>2 DEF HoldOK, IndInv, SiteInv, Claimed
  <1>4. q.row.hasDB \in BOOLEAN
    BY <1>1 DEF Request, Row
  <1>5. OpOf(q) \in Ops
    <2>1. CASE q.pc \in {"destroy", "redestroy"}
      BY <2>1 DEF OpOf, Ops
    <2>2. CASE q.pc = "edit"
      BY <1>1, <2>2 DEF OpOf, Ops, EditOK, RowKinds
    <2>3. CASE q.pc \in BuildSteps
      BY <2>3 DEF OpOf, Ops, BuildSteps
    <2> QED BY <2>1, <2>2, <2>3 DEF Calling
  <1> QED BY <1>3, <1>4, <1>5 DEF CallOf, Call

(* What a call of the agent does, whatever the answer.                     *)
LEMMA AskEffect ==
    ASSUME Assumptions, IndInv, NEW p \in Procs, Calling(req[p]), NEW yes, NEW no,
           Ask(p, yes, no), UNCHANGED crashes
    PROVE  /\ HostStep
           /\ req' = [req EXCEPT ![p] = yes] \/ req' = [req EXCEPT ![p] = no]
  <1>1. CallOf(req[p]) \in Call /\ Claimed(CallOf(req[p]).user)
    BY CallSound
  <1>2. host \in HostType /\ late \subseteq Call /\ crashes \in 0..MaxCrashes
    BY DEF IndInv, TypeOK
  <1>3. CASE /\ OpOf(req[p]) \in LateOps
             /\ Cardinality(late) < MaxLate
             /\ late' = late \cup {CallOf(req[p])}
             /\ req' = [req EXCEPT ![p] = no]
             /\ UNCHANGED host
    BY <1>1, <1>2, <1>3 DEF HostStep
  <1>4. ASSUME NEW r \in Exec(host, CallOf(req[p])), host' = r.host,
               req' = [req EXCEPT ![p] = IF r.ok THEN yes ELSE no], late' = late
        PROVE  /\ HostStep
               /\ req' = [req EXCEPT ![p] = yes] \/ req' = [req EXCEPT ![p] = no]
    <2>1. Sound(r, host, CallOf(req[p]).user)
      BY <1>1, <1>2, ExecSound DEF Assumptions
    <2>2. HostStep
      BY <1>1, <1>2, <1>4, <2>1 DEF Sound, HostStep
    <2>3. CASE r.ok
      BY <1>4, <2>2, <2>3
    <2>4. CASE ~r.ok
      BY <1>4, <2>2, <2>4
    <2> QED BY <2>3, <2>4, <2>1 DEF Sound
  <1> QED BY <1>3, <1>4 DEF Ask

LEMMA SameSites ==
    ASSUME IndInv, UNCHANGED sites
    PROVE  SitesStep /\ \A p : FreeKept(p)
  BY DEF IndInv, TypeOK, SitesStep, FreeKept

LEMMA SameHost ==
    ASSUME IndInv, UNCHANGED <<host, late, crashes>>
    PROVE  HostStep
  BY DEF IndInv, TypeOK, HostStep

LEMMA UpdateEffect ==
    ASSUME IndInv, NEW i \in Ids, NEW row \in Row, row.status \in LiveStatus,
           row.domain = sites[i].domain, row.user = sites[i].user, UpdateSite(i, row)
    PROVE  SitesStep /\ \A p : FreeKept(p)
  <1>1. CASE sites' = sites
    BY <1>1, SameSites
  <1>2. CASE Live(i) /\ sites' = [sites EXCEPT ![i] = row]
    <2>1. sites \in [Ids -> Row]
      BY DEF IndInv, TypeOK
    <2>2. Rewritten(i)
      BY <1>2, <2>1 DEF Rewritten
    <2>3. \A j \in Ids : j # i => sites'[j] = sites[j]
      BY <1>2, <2>1
    <2>4. sites[i].status # "free"
      BY <1>2 DEF Live, LiveStatus
    <2> QED BY <1>2, <2>1, <2>2, <2>3, <2>4 DEF SitesStep, FreeKept
  <1> QED BY <1>1, <1>2 DEF UpdateSite

LEMMA DeleteEffect ==
    ASSUME IndInv, NEW i \in Ids, DeleteSite(i)
    PROVE  SitesStep /\ \A p : FreeKept(p)
  <1>1. CASE sites' = sites
    BY <1>1, SameSites
  <1>2. CASE Live(i) /\ sites' = [sites EXCEPT ![i].status = "deleted"]
    <2>1. sites \in [Ids -> Row]
      BY DEF IndInv, TypeOK
    <2>2. [sites[i] EXCEPT !.status = "deleted"] \in Row
      BY <2>1 DEF Row
    <2>3. Rewritten(i) /\ sites' \in [Ids -> Row]
      BY <1>2, <2>1, <2>2 DEF Rewritten, Row
    <2>4. \A j \in Ids : j # i => sites'[j] = sites[j]
      BY <1>2, <2>1
    <2>5. sites[i].status # "free"
      BY <1>2 DEF Live, LiveStatus
    <2> QED BY <2>3, <2>4, <2>5 DEF SitesStep, FreeKept
  <1> QED BY <1>1, <1>2 DEF DeleteSite

------------------------------------------------------------------------------
(* Steps of a request preserve the invariant.                              *)

LEMMA ClaimsKept ==
    ASSUME SitesStep
    PROVE  /\ \A u : Claimed(u) => Claimed(u)'
           /\ \A i \in Ids : sites[i].status # "free" =>
                 /\ sites'[i].status # "free"
                 /\ sites'[i].domain = sites[i].domain /\ sites'[i].user = sites[i].user
  <1>1. ASSUME NEW i \in Ids, sites[i].status # "free"
        PROVE  /\ sites'[i].status # "free"
               /\ sites'[i].domain = sites[i].domain /\ sites'[i].user = sites[i].user
    BY <1>1 DEF SitesStep, Rewritten, Inserted, LiveStatus
  <1> QED BY <1>1 DEF Claimed

(* What the table and the machine do alone settles all but the requests.   *)
LEMMA SharedPart ==
    ASSUME IndInv, SitesStep, HostStep
    PROVE  SiteInv' /\ LateInv' /\ AccountsClaimed' /\ OneRowPerDomain'
  <1>1. SiteInv'
    <2>1. ASSUME NEW i \in Ids, sites'[i].status # "free"
          PROVE  sites'[i].domain \in Domains /\ sites'[i].user \in Users
      <3>1. CASE sites[i].status = "free"
        BY <2>1, <3>1 DEF SitesStep, Rewritten, Inserted, Live, LiveStatus
      <3>2. CASE sites[i].status # "free"
        BY <3>2, ClaimsKept DEF IndInv, SiteInv
      <3> QED BY <3>1, <3>2
    <2> QED BY <2>1 DEF SiteInv
  <1>2. LateInv'
    BY ClaimsKept DEF HostStep, IndInv, LateInv
  <1>3. AccountsClaimed'
    <2>1. \A u \in host'.accounts : Claimed(u)'
      BY ClaimsKept DEF HostStep, IndInv, AccountsClaimed, Claimed
    <2> QED BY <2>1 DEF AccountsClaimed, Claimed
  <1>4. OneRowPerDomain'
    <2>1. SUFFICES ASSUME NEW i \in Ids, NEW j \in Ids, Live(i)', Live(j)',
                          sites'[i].domain = sites'[j].domain, i # j
                   PROVE  FALSE
      BY DEF OneRowPerDomain
    <2>2. ASSUME NEW k \in Ids, Live(k)'
          PROVE  (Live(k) /\ sites'[k].domain = sites[k].domain) \/ Inserted(k)
      BY <2>2 DEF SitesStep, Rewritten, Live
    <2>3. ASSUME NEW k \in Ids, NEW l \in Ids, k # l, Inserted(k), Live(l)',
                 sites'[k].domain = sites'[l].domain
          PROVE  FALSE
      BY <2>3 DEF Inserted, DomainTaken, Live
    <2>4. Live(i) /\ Live(j) /\ sites[i].domain = sites[j].domain
      BY <2>1, <2>2, <2>3
    <2> QED BY <2>1, <2>4 DEF IndInv, OneRowPerDomain
  <1> QED BY <1>1, <1>2, <1>3, <1>4

LEMMA RequestPart ==
    ASSUME Assumptions, IndInv, SitesStep, NEW p \in Procs, FreeKept(p), NEW x,
           RequestStep(p, x)
    PROVE  req' \in [Procs -> Request] /\ RequestInv'
  <1>1. /\ req \in [Procs -> Request]
        /\ \A q \in Procs : RequestOK(sites, req[q]) /\ Alone(q)
    BY DEF IndInv, TypeOK, RequestInv
  <1>2. req'[p] = x /\ \A q \in Procs : q # p => req'[q] = req[q]
    BY <1>1 DEF RequestStep
  <1>3. req' \in [Procs -> Request]
    BY <1>1 DEF RequestStep, RequestOK
  <1>4. ASSUME NEW q \in Procs
        PROVE  RequestOK(sites', req'[q])
    <2>1. CASE q = p
      BY <1>2, <2>1 DEF RequestStep
    <2>2. CASE q # p
      <3>1. HoldOK(sites', req[q])
        BY <1>1, ClaimsKept DEF RequestOK, HoldOK
      <3>2. InsertOK(sites', req[q])
        BY <1>1, <2>2 DEF RequestOK, InsertOK, FreeKept, Alone
      <3> QED BY <1>1, <1>2, <2>2, <3>1, <3>2 DEF RequestOK
    <2> QED BY <2>1, <2>2
  <1>5. ASSUME NEW q \in Procs, req'[q].pc = "insert", NEW r \in Procs, r # q
        PROVE  req'[r].id # req'[q].id
    <2>1. CASE q = p
      BY <1>2, <1>5, <2>1 DEF RequestStep
    <2>2. CASE q # p /\ r # p
      BY <1>1, <1>2, <1>5, <2>2 DEF Alone
    <2>3. CASE q # p /\ r = p
      <3>1. /\ req[q].pc = "insert" /\ req[q].id \in Ids
            /\ sites[req[q].id].status = "free" /\ req[p].id # req[q].id
        BY <1>1, <1>2, <1>5, <2>3 DEF RequestOK, InsertOK, Alone
      <3>2. req[q].id # NoId
        BY <3>1 DEF Assumptions, ProvisioningAssumption
      <3>3. x.id # req[q].id
        BY <3>1, <3>2 DEF RequestStep
      <3> QED BY <1>2, <2>3, <3>3
    <2> QED BY <2>1, <2>2, <2>3
  <1>6. RequestInv'
    BY <1>4, <1>5 DEF RequestInv, Alone
  <1> QED BY <1>3, <1>6

LEMMA StepPreserves ==
    ASSUME Assumptions, IndInv, SitesStep, HostStep, NEW p \in Procs, FreeKept(p), NEW x,
           RequestStep(p, x)
    PROVE  IndInv'
  <1>1. TypeOK'
    BY RequestPart DEF TypeOK, SitesStep, HostStep
  <1> QED BY <1>1, RequestPart, SharedPart DEF IndInv

------------------------------------------------------------------------------
(* One lemma per action.                                                   *)

LEMMA DraftTyped ==
    /\ \A d \in Domains, a \in AppTypes : Draft(d, a) \in Row
    /\ NoRow \in Row
  BY DEF Draft, NoRow, Row, AppTypes

LEMMA IdleOK == \A t : RequestOK(t, Idle) /\ Idle.pc # "insert" /\ Idle.id = NoId
  BY DraftTyped DEF Idle, RequestOK, Request, PCs, AppTypes, AdmitOK, InsertOK, HoldOK,
     EditOK, HoldPCs, BuildSteps

(* A request that ends.                                                    *)
LEMMA ToIdle ==
    ASSUME NEW p \in Procs, req' = [req EXCEPT ![p] = Idle]
    PROVE  RequestStep(p, Idle)
  BY IdleOK DEF RequestStep

(* A request that keeps its row and moves to another step at which a row   *)
(* is held.                                                                *)
LEMMA HeldOn ==
    ASSUME IndInv, UNCHANGED sites, NEW p \in Procs, req[p].pc \in HoldPCs, NEW x \in Request,
           req' = [req EXCEPT ![p] = x],
           x.pc \in HoldPCs \ {"edit"}, x.id = req[p].id, x.row.domain = req[p].row.domain,
           x.row.user = req[p].row.user, x.row.status = req[p].row.status
    PROVE  RequestStep(p, x)
  <1>1. HoldOK(sites, req[p])
    BY DEF IndInv, RequestInv, RequestOK
  <1>2. x.pc \notin {"admit", "suffix", "insert", "edit"}
    BY DEF HoldPCs, BuildSteps
  <1>3. HoldOK(sites', x)
    BY <1>1 DEF HoldOK
  <1> QED BY <1>2, <1>3 DEF RequestStep, RequestOK, AdmitOK, InsertOK, EditOK

LEMMA ActLookup ==
    ASSUME Assumptions, IndInv, NEW p \in Procs, NEW d \in Domains, NEW a \in Apps,
           Lookup(p, d, a)
    PROVE  IndInv'
  <1>1. SitesStep /\ FreeKept(p) /\ HostStep
    BY SameSites, SameHost DEF Lookup
  <1>2. a \in AppTypes
    BY DEF Assumptions, ProvisioningAssumption
  <1>3. CASE req' = [req EXCEPT ![p] = [pc |-> "admit", kind |-> "create", id |-> NoId,
                                        row |-> Draft(d, a), app |-> a]]
    <2> DEFINE x == [pc |-> "admit", kind |-> "create", id |-> NoId,
                     row |-> Draft(d, a), app |-> a]
    <2>1. x \in Request /\ x.row.domain = d
      BY <1>2, DraftTyped DEF Request, PCs, Draft
    <2>2. RequestOK(sites', x)
      BY <2>1 DEF RequestOK, AdmitOK, InsertOK, HoldOK, EditOK, HoldPCs, BuildSteps
    <2>3. RequestStep(p, x)
      BY <1>3, <2>2 DEF RequestStep
    <2> QED BY <1>1, <2>3, StepPreserves
  <1>4. ASSUME NEW i \in Ids, sites[i].status \in {"error", "suspended"},
               req' = [req EXCEPT ![p] = [pc |-> "redestroy", kind |-> "create", id |-> i,
                                          row |-> sites[i], app |-> a]]
        PROVE  IndInv'
    <2> DEFINE x == [pc |-> "redestroy", kind |-> "create", id |-> i,
                     row |-> sites[i], app |-> a]
    <2>1. x \in Request
      BY <1>2 DEF Request, PCs, IndInv, TypeOK
    <2>2. sites' = sites
      BY DEF Lookup
    <2>3. RequestOK(sites', x)
      BY <1>4, <2>1, <2>2 DEF RequestOK, AdmitOK, InsertOK, HoldOK, EditOK, LiveStatus
    <2>4. RequestStep(p, x)
      BY <1>4, <2>3 DEF RequestStep
    <2> QED BY <1>1, <2>4, StepPreserves
  <1> QED BY <1>3, <1>4 DEF Lookup

LEMMA ActReadSite ==
    ASSUME Assumptions, IndInv, NEW p \in Procs, NEW i \in Ids, NEW k \in Kinds,
           ReadSite(p, i, k)
    PROVE  IndInv'
  <1> DEFINE x == [pc |-> IF k = "delete" THEN "destroy" ELSE "edit", kind |-> k, id |-> i,
                   row |-> sites[i], app |-> sites[i].app]
  <1>1. SitesStep /\ FreeKept(p) /\ HostStep
    BY SameSites, SameHost DEF ReadSite
  <1>2. k \in RowKinds /\ sites[i] \in Row
    BY DEF Assumptions, ProvisioningAssumption, IndInv, TypeOK
  <1>3. sites[i].status \in LiveStatus /\ sites' = sites
    BY DEF ReadSite, Offered, LiveStatus
  <1>4. x \in Request /\ (x.pc = "edit" => k # "delete") /\ x.pc \in {"destroy", "edit"}
    BY <1>2 DEF Request, PCs, Row
  <1>5. RequestOK(sites', x)
    BY <1>2, <1>3, <1>4 DEF RequestOK, AdmitOK, InsertOK, HoldOK, EditOK, LiveStatus
  <1>6. RequestStep(p, x)
    BY <1>3, <1>4, <1>5 DEF RequestStep, ReadSite, LiveStatus
  <1> QED BY <1>1, <1>6, StepPreserves

LEMMA ActRedestroy ==
    ASSUME Assumptions, IndInv, NEW p \in Procs, Redestroy(p)
    PROVE  IndInv'
  <1> DEFINE x == [req[p] EXCEPT !.pc = "drop"]
  <1>1. SitesStep /\ FreeKept(p) /\ UNCHANGED <<sites, crashes>>
    BY SameSites DEF Redestroy
  <1>2. Calling(req[p]) /\ req[p].pc \in HoldPCs /\ Ask(p, x, x)
    BY DEF Redestroy, Calling, HoldPCs
  <1>3. HostStep /\ req' = [req EXCEPT ![p] = x]
    BY <1>1, <1>2, AskEffect
  <1>4. req[p] \in Request
    BY DEF IndInv, TypeOK
  <1>5. /\ x \in Request /\ x.pc = "drop" /\ x.id = req[p].id /\ x.row = req[p].row
    BY <1>4 DEF Request, PCs
  <1>6. RequestStep(p, x)
    BY <1>1, <1>2, <1>3, <1>5, HeldOn DEF HoldPCs
  <1> QED BY <1>1, <1>3, <1>6, StepPreserves

(* The copy a request holds: its domain and account exist, and saving it   *)
(* with another status leaves the row's identity alone.                    *)
LEMMA Copy ==
    ASSUME IndInv, NEW p \in Procs, req[p].pc \in HoldPCs
    PROVE  /\ req[p] \in Request /\ req[p].id \in Ids /\ req[p].row \in Row
           /\ req[p].row.domain \in Domains /\ req[p].row.user \in Users
           /\ req[p].row.domain = sites[req[p].id].domain
           /\ req[p].row.user = sites[req[p].id].user
           /\ req[p].row.status \in LiveStatus
  <1>1. req[p] \in Request /\ req[p].row \in Row
    BY DEF IndInv, TypeOK, Request
  <1> QED BY <1>1 DEF IndInv, RequestInv, RequestOK, HoldOK, SiteInv

LEMMA ActDropRow ==
    ASSUME Assumptions, IndInv, NEW p \in Procs, DropRow(p)
    PROVE  IndInv'
  <1>1. req[p].pc \in HoldPCs
    BY DEF DropRow, HoldPCs
  <1>2. SitesStep /\ FreeKept(p) /\ HostStep
    BY <1>1, Copy, DeleteEffect, SameHost DEF DropRow
  <1>3. CASE req[p].kind = "create"
    <2> DEFINE x == [req[p] EXCEPT !.pc = "admit", !.id = NoId,
                                   !.row = Draft(req[p].row.domain, req[p].app)]
    <2>1. req' = [req EXCEPT ![p] = x]
      BY <1>3 DEF DropRow
    <2>2. /\ x \in Request /\ x.pc = "admit" /\ x.id = NoId /\ x.kind = "create"
          /\ x.row.domain = req[p].row.domain
      BY <1>1, <1>3, Copy, DraftTyped DEF Request, PCs, Draft
    <2>3. RequestOK(sites', x)
      BY <1>1, <2>2, Copy DEF RequestOK, AdmitOK, InsertOK, HoldOK, EditOK, HoldPCs, BuildSteps
    <2>4. RequestStep(p, x)
      BY <2>1, <2>2, <2>3 DEF RequestStep
    <2> QED BY <1>2, <2>4, StepPreserves
  <1>4. CASE req[p].kind # "create"
    <2>1. RequestStep(p, Idle)
      BY <1>4, ToIdle DEF DropRow
    <2> QED BY <1>2, <2>1, StepPreserves
  <1> QED BY <1>3, <1>4

LEMMA ActRefuse ==
    ASSUME Assumptions, IndInv, NEW p \in Procs, Refuse(p)
    PROVE  IndInv'
  <1>1. SitesStep /\ FreeKept(p) /\ HostStep /\ RequestStep(p, Idle)
    BY SameSites, SameHost, ToIdle DEF Refuse
  <1> QED BY <1>1, StepPreserves

LEMMA ActTryBase ==
    ASSUME Assumptions, IndInv, NEW p \in Procs, TryBase(p)
    PROVE  IndInv'
  <1>1. SitesStep /\ FreeKept(p) /\ HostStep /\ sites' = sites
    BY SameSites, SameHost DEF TryBase
  <1>2. req[p] \in Request /\ req \in [Procs -> Request] /\ AdmitOK(req[p]) /\ req[p].pc = "admit"
    BY DEF IndInv, TypeOK, RequestInv, RequestOK, TryBase
  <1> DEFINE x == [req[p] EXCEPT !.pc = "suffix"]
  <1>3. /\ x \in Request /\ x.pc = "suffix" /\ x.id = req[p].id /\ x.kind = req[p].kind
        /\ x.row = req[p].row
    BY <1>2 DEF Request, PCs
  <1>4. req' = [req EXCEPT ![p] = x]
    BY <1>2 DEF TryBase
  <1> HIDE DEF x
  <1>5. RequestOK(sites', x)
    BY <1>2, <1>3 DEF RequestOK, AdmitOK, InsertOK, HoldOK, EditOK, HoldPCs, BuildSteps
  <1>6. RequestStep(p, x)
    BY <1>3, <1>4, <1>5 DEF RequestStep
  <1> QED BY <1>1, <1>6, StepPreserves

LEMMA ActPickUser ==
    ASSUME Assumptions, IndInv, NEW p \in Procs, PickUser(p)
    PROVE  IndInv'
  <1>1. SitesStep /\ FreeKept(p) /\ HostStep /\ sites' = sites
    BY SameSites, SameHost DEF PickUser
  <1>2. /\ req[p] \in Request /\ req[p].row \in Row /\ req[p].row.domain \in Domains
        /\ req[p].kind = "create"
    <2>1. req[p] \in Request /\ AdmitOK(req[p])
      BY DEF IndInv, RequestInv, RequestOK
    <2> QED BY <2>1 DEF PickUser, AdmitOK, Request
  <1>3. PICK u \in Names[req[p].row.domain], i \in Ids :
           /\ sites[i].status = "free"
           /\ \A q \in Procs : req[q].id # i
           /\ req' = [req EXCEPT ![p].pc = "insert", ![p].id = i,
                                 ![p].row = [@ EXCEPT !.status = "provisioning", !.user = u]]
    BY DEF PickUser, FreshIds
  <1>4. u \in Users
    BY <1>2 DEF Assumptions, ProvisioningAssumption
  <1> DEFINE y == [req[p].row EXCEPT !.status = "provisioning", !.user = u]
             x == [req[p] EXCEPT !.pc = "insert", !.id = i, !.row = y]
  <1>5. /\ y \in Row /\ y.status = "provisioning" /\ y.user = u
        /\ y.domain = req[p].row.domain
    BY <1>2, <1>4 DEF Row, LiveStatus
  <1> HIDE DEF y
  <1>6. x \in Request /\ x.pc = "insert" /\ x.id = i /\ x.kind = "create" /\ x.row = y
    BY <1>2, <1>5 DEF Request, PCs
  <1>7. req' = [req EXCEPT ![p] = x]
    BY <1>3 DEF IndInv, TypeOK, y
  <1> HIDE DEF x
  <1>8. RequestOK(sites', x)
    BY <1>1, <1>2, <1>3, <1>4, <1>5, <1>6
    DEF RequestOK, AdmitOK, InsertOK, HoldOK, EditOK, HoldPCs, BuildSteps
  <1>9. RequestStep(p, x)
    BY <1>3, <1>6, <1>7, <1>8 DEF RequestStep
  <1> QED BY <1>1, <1>9, StepPreserves

(* The table after the INSERT.                                             *)
LEMMA InsertTable ==
    ASSUME IndInv, NEW p \in Procs, InsertRow(p)
    PROVE  SitesStep /\ FreeKept(p)
  <1> DEFINE i == req[p].id
  <1>1. CASE UNCHANGED sites
    BY <1>1, SameSites
  <1>2. CASE /\ ~DomainTaken(req[p].row.domain)
             /\ sites' = [sites EXCEPT ![i] = req[p].row]
    <2>1. /\ req[p].pc = "insert" /\ req[p].row \in Row
          /\ i \in Ids /\ sites[i].status = "free"
          /\ req[p].row.domain \in Domains /\ req[p].row.user \in Users
          /\ req[p].row.status = "provisioning"
      <3>1. req[p] \in Request /\ InsertOK(sites, req[p])
        BY DEF IndInv, RequestInv, RequestOK
      <3> QED BY <3>1 DEF InsertRow, InsertOK, Request
    <2>2. sites \in [Ids -> Row]
      BY DEF IndInv, TypeOK
    <2>3. sites'[i] = req[p].row /\ \A j \in Ids : j # i => sites'[j] = sites[j]
      BY <1>2, <2>1, <2>2
    <2>4. Inserted(i)
      BY <1>2, <2>1, <2>3 DEF Inserted
    <2> QED BY <1>2, <2>1, <2>2, <2>3, <2>4 DEF SitesStep, FreeKept
  <1> QED BY <1>1, <1>2 DEF InsertRow

LEMMA ActInsertRow ==
    ASSUME Assumptions, IndInv, NEW p \in Procs, InsertRow(p)
    PROVE  IndInv'
  <1>1. HostStep /\ SitesStep /\ FreeKept(p)
    BY SameHost, InsertTable DEF InsertRow
  <1>2. CASE req' = [req EXCEPT ![p] = Idle]
    BY <1>1, <1>2, ToIdle, StepPreserves
  <1>3. CASE /\ req' = [req EXCEPT ![p].pc = "create_site_user"]
             /\ sites' = [sites EXCEPT ![req[p].id] = req[p].row]
    <2> DEFINE x == [req[p] EXCEPT !.pc = "create_site_user"]
    <2>1. req[p] \in Request /\ req[p].row \in Row /\ InsertOK(sites, req[p])
      BY DEF IndInv, RequestInv, RequestOK, Request
    <2>2. sites \in [Ids -> Row] /\ req \in [Procs -> Request]
      BY DEF IndInv, TypeOK
    <2>3. req[p].id \in Ids /\ req[p].row.status = "provisioning"
      BY <2>1 DEF InsertOK, InsertRow
    <2>4. sites'[req[p].id] = req[p].row
      BY <1>3, <2>2, <2>3
    <2>5. /\ x \in Request /\ x.pc = "create_site_user" /\ x.id = req[p].id
          /\ x.row = req[p].row
      BY <2>1 DEF Request, PCs, BuildSteps
    <2>6. RequestOK(sites', x)
      BY <2>3, <2>4, <2>5 DEF RequestOK, AdmitOK, InsertOK, HoldOK, EditOK, LiveStatus
    <2>7. RequestStep(p, x)
      BY <1>3, <2>2, <2>5, <2>6 DEF RequestStep
    <2> QED BY <1>1, <2>7, StepPreserves
  <1> QED BY <1>2, <1>3 DEF InsertRow

LEMMA AdvanceTyped ==
    ASSUME NEW q \in Request, q.row \in Row
    PROVE  /\ Advance(q) \in Request /\ Advance(q).id = q.id
           /\ Advance(q).pc \in BuildSteps \cup {"activate"}
           /\ Advance(q).row.domain = q.row.domain /\ Advance(q).row.user = q.row.user
           /\ Advance(q).row.status = q.row.status
  <1> DEFINE y == [q.row EXCEPT !.hasDB = @ \/ q.pc = "create_database"]
  <1>1. After(q.pc, q.row.app) \in BuildSteps \cup {"activate"}
    BY DEF After, BuildSteps
  <1>2. (q.row.hasDB \/ q.pc = "create_database") \in BOOLEAN
    OBVIOUS
  <1>3. /\ y \in Row /\ y.domain = q.row.domain /\ y.user = q.row.user
        /\ y.status = q.row.status
    <2>1. ASSUME NEW b \in BOOLEAN
          PROVE  /\ [q.row EXCEPT !.hasDB = b] \in Row
                 /\ [q.row EXCEPT !.hasDB = b].domain = q.row.domain
                 /\ [q.row EXCEPT !.hasDB = b].user = q.row.user
                 /\ [q.row EXCEPT !.hasDB = b].status = q.row.status
      BY DEF Row
    <2> QED BY <1>2, <2>1
  <1> HIDE DEF y
  <1>4. Advance(q) = [q EXCEPT !.pc = After(q.pc, q.row.app), !.row = y]
    BY Zenon DEF Advance, y
  <1>5. /\ Advance(q) \in Request /\ Advance(q).id = q.id /\ Advance(q).row = y
        /\ Advance(q).pc = After(q.pc, q.row.app)
    BY <1>1, <1>3, <1>4 DEF Request, PCs
  <1> QED BY <1>1, <1>3, <1>5

LEMMA ActBuildStep ==
    ASSUME Assumptions, IndInv, NEW p \in Procs, BuildStep(p)
    PROVE  IndInv'
  <1>1. SitesStep /\ FreeKept(p) /\ UNCHANGED <<sites, crashes>>
    BY SameSites DEF BuildStep
  <1>2. Calling(req[p]) /\ req[p].pc \in HoldPCs /\ Ask(p, Advance(req[p]), GiveUp(req[p]))
    BY DEF BuildStep, Calling, HoldPCs
  <1>3. req[p] \in Request /\ req[p].row \in Row
    BY <1>2, Copy
  <1>4. /\ HostStep
        /\ \/ req' = [req EXCEPT ![p] = Advance(req[p])]
           \/ req' = [req EXCEPT ![p] = GiveUp(req[p])]
    BY <1>1, <1>2, AskEffect
  <1>5. CASE req' = [req EXCEPT ![p] = Advance(req[p])]
    <2>1. Advance(req[p]).pc \in HoldPCs \ {"edit"}
      BY <1>3, AdvanceTyped DEF HoldPCs, BuildSteps
    <2>2. RequestStep(p, Advance(req[p]))
      BY <1>1, <1>2, <1>3, <1>5, <2>1, AdvanceTyped, HeldOn
    <2> QED BY <1>1, <1>4, <2>2, StepPreserves
  <1>6. CASE req' = [req EXCEPT ![p] = [req[p] EXCEPT !.pc = "mark_error"]]
    <2> DEFINE x == [req[p] EXCEPT !.pc = "mark_error"]
    <2>1. x \in Request /\ x.pc = "mark_error" /\ x.id = req[p].id /\ x.row = req[p].row
      BY <1>3 DEF Request, PCs
    <2>2. RequestStep(p, x)
      BY <1>1, <1>2, <1>6, <2>1, HeldOn DEF HoldPCs
    <2> QED BY <1>1, <1>4, <2>2, StepPreserves
  <1> QED BY <1>4, <1>5, <1>6 DEF GiveUp

(* The handlers that end by saving their copy as row, and nothing else.    *)
SavableAs(p, row) ==
    /\ row \in Row /\ row.status \in LiveStatus
    /\ row.domain = req[p].row.domain /\ row.user = req[p].row.user

LEMMA SavedTable ==
    ASSUME IndInv, NEW p \in Procs, req[p].pc \in HoldPCs, NEW row, SavableAs(p, row),
           UpdateSite(req[p].id, row)
    PROVE  SitesStep /\ FreeKept(p)
  BY Copy, UpdateEffect DEF SavableAs

LEMMA MarkedCopy ==
    ASSUME IndInv, NEW p \in Procs, req[p].pc \in HoldPCs, NEW st \in LiveStatus
    PROVE  SavableAs(p, [req[p].row EXCEPT !.status = st])
  BY Copy DEF SavableAs, Row

LEMMA EditedCopy ==
    ASSUME IndInv, NEW p \in Procs, req[p].pc \in HoldPCs
    PROVE  SavableAs(p, Edited(req[p]))
  <1> DEFINE y == Edited(req[p])
  <1>1. \/ y = [req[p].row EXCEPT !.status = "suspended"]
        \/ y = [req[p].row EXCEPT !.status = "active"]
        \/ y = [req[p].row EXCEPT !.ssl = TRUE]
        \/ y = req[p].row
    BY DEF Edited
  <1>2. req[p].row \in Row /\ req[p].row.status \in LiveStatus
    BY Copy
  <1> HIDE DEF y
  <1>3. SavableAs(p, y)
    BY <1>1, <1>2 DEF SavableAs, Row, LiveStatus
  <1> QED BY <1>3 DEF y

LEMMA Saved ==
    ASSUME Assumptions, IndInv, NEW p \in Procs, req[p].pc \in HoldPCs, NEW row,
           SavableAs(p, row), UpdateSite(req[p].id, row),
           req' = [req EXCEPT ![p] = Idle], UNCHANGED <<host, late, crashes>>
    PROVE  IndInv'
  BY SavedTable, SameHost, ToIdle, StepPreserves

LEMMA ActMarkError ==
    ASSUME Assumptions, IndInv, NEW p \in Procs, MarkError(p)
    PROVE  IndInv'
  <1>1. req[p].pc \in HoldPCs /\ SavableAs(p, [req[p].row EXCEPT !.status = "error"])
    BY MarkedCopy DEF MarkError, HoldPCs, LiveStatus
  <1> QED BY <1>1, Saved DEF MarkError

LEMMA ActActivate ==
    ASSUME Assumptions, IndInv, NEW p \in Procs, Activate(p)
    PROVE  IndInv'
  <1>1. req[p].pc \in HoldPCs /\ SavableAs(p, [req[p].row EXCEPT !.status = "active"])
    BY MarkedCopy DEF Activate, HoldPCs, LiveStatus
  <1> QED BY <1>1, Saved DEF Activate

LEMMA ActSaveEdit ==
    ASSUME Assumptions, IndInv, NEW p \in Procs, SaveEdit(p)
    PROVE  IndInv'
  <1>1. req[p].pc \in HoldPCs /\ SavableAs(p, Edited(req[p]))
    BY EditedCopy DEF SaveEdit, HoldPCs
  <1> QED BY <1>1, Saved DEF SaveEdit

(* The calls of handleDeleteSite and of the editing handlers: on to x, or  *)
(* the request ends.                                                       *)
LEMMA Asked ==
    ASSUME Assumptions, IndInv, NEW p \in Procs, Calling(req[p]), req[p].pc \in HoldPCs,
           NEW pc \in {"drop", "save"},
           Ask(p, [req[p] EXCEPT !.pc = pc], Idle), UNCHANGED <<sites, crashes>>
    PROVE  IndInv'
  <1> DEFINE x == [req[p] EXCEPT !.pc = pc]
  <1>1. SitesStep /\ FreeKept(p)
    BY SameSites
  <1>2. HostStep /\ (req' = [req EXCEPT ![p] = x] \/ req' = [req EXCEPT ![p] = Idle])
    BY AskEffect
  <1>3. x \in Request /\ x.pc = pc /\ x.id = req[p].id /\ x.row = req[p].row
    BY Copy DEF Request, PCs
  <1>4. CASE req' = [req EXCEPT ![p] = x]
    <2>1. RequestStep(p, x)
      BY <1>3, <1>4, HeldOn DEF HoldPCs
    <2> QED BY <1>1, <1>2, <2>1, StepPreserves
  <1>5. CASE req' = [req EXCEPT ![p] = Idle]
    BY <1>1, <1>2, <1>5, ToIdle, StepPreserves
  <1> QED BY <1>2, <1>4, <1>5

LEMMA ActDestroy ==
    ASSUME Assumptions, IndInv, NEW p \in Procs, Destroy(p)
    PROVE  IndInv'
  BY Asked DEF Destroy, Calling, HoldPCs

LEMMA ActEditCall ==
    ASSUME Assumptions, IndInv, NEW p \in Procs, EditCall(p)
    PROVE  IndInv'
  BY Asked DEF EditCall, Calling, HoldPCs

LEMMA ActRunLate ==
    ASSUME Assumptions, IndInv, RunLate
    PROVE  IndInv'
  <1>1. PICK c \in late : \E r \in Exec(host, c) :
           host' = r.host /\ late' = late \ {c} /\ UNCHANGED <<sites, req, crashes>>
    BY DEF RunLate
  <1>2. PICK r \in Exec(host, c) :
           host' = r.host /\ late' = late \ {c} /\ UNCHANGED <<sites, req, crashes>>
    BY <1>1
  <1>3. c \in Call /\ Claimed(c.user) /\ Sound(r, host, c.user)
    BY ExecSound DEF IndInv, TypeOK, LateInv, Assumptions
  <1>4. HostStep
    BY <1>2, <1>3 DEF HostStep, Sound, IndInv, TypeOK
  <1>5. SitesStep
    BY <1>2, SameSites
  <1>6. TypeOK'
    BY <1>2, <1>4, <1>5 DEF TypeOK, HostStep, SitesStep, IndInv
  <1>7. RequestInv'
    BY <1>2 DEF IndInv, RequestInv, RequestOK, HoldOK, InsertOK, Alone
  <1> QED BY <1>4, <1>5, <1>6, <1>7, SharedPart DEF IndInv

LEMMA ActCrash ==
    ASSUME Assumptions, IndInv, Crash
    PROVE  IndInv'
  <1>1. PICK sent \in SUBSET {p \in Procs : Calling(req[p]) /\ OpOf(req[p]) \in LateOps} :
           late' = late \cup {CallOf(req[p]) : p \in sent}
    BY DEF Crash
  <1>2. \A c \in late' : c \in late \/ (c \in Call /\ Claimed(c.user))
    BY <1>1, CallSound
  <1>3. HostStep
    <2>1. host' = host /\ crashes' = crashes + 1 /\ crashes < MaxCrashes
      BY DEF Crash
    <2>2. crashes' \in 0..MaxCrashes
      BY <2>1 DEF IndInv, TypeOK, Assumptions, ProvisioningAssumption
    <2> QED BY <1>2, <2>1, <2>2 DEF HostStep, IndInv, TypeOK
  <1>4. SitesStep
    BY SameSites DEF Crash
  <1>5. /\ req' \in [Procs -> Request]
        /\ \A p \in Procs : RequestOK(sites', req'[p]) /\ req'[p].pc # "insert"
    <2>1. req' = [p \in Procs |-> Idle]
      BY DEF Crash
    <2>2. Idle \in Request
      BY IdleOK DEF RequestOK
    <2> QED BY <2>1, <2>2, IdleOK
  <1>6. TypeOK'
    BY <1>3, <1>4, <1>5 DEF TypeOK, HostStep, SitesStep
  <1>7. RequestInv'
    BY <1>5 DEF RequestInv, Alone
  <1> QED BY <1>3, <1>4, <1>6, <1>7, SharedPart DEF IndInv

------------------------------------------------------------------------------
(* The invariant and what it gives.                                        *)

LEMMA InitInv ==
    ASSUME Assumptions, Init
    PROVE  IndInv
  <1>1. /\ sites \in [Ids -> Row] /\ host.accounts = {} /\ late = {}
        /\ \A i \in Ids : sites[i].status = "free"
    BY DraftTyped DEF Init, EmptyHost, NoRow, Draft
  <1>2. host \in HostType
    BY DEF Init, EmptyHost, HostType
  <1>3. crashes \in 0..MaxCrashes
    BY DEF Init, Assumptions, ProvisioningAssumption
  <1>4. /\ req \in [Procs -> Request]
        /\ \A p \in Procs : RequestOK(sites, req[p]) /\ req[p].pc # "insert"
    <2>1. Idle \in Request
      BY IdleOK DEF RequestOK
    <2> QED BY <2>1, IdleOK DEF Init
  <1> QED BY <1>1, <1>2, <1>3, <1>4
          DEF IndInv, TypeOK, RequestInv, Alone, SiteInv, LateInv, AccountsClaimed,
              OneRowPerDomain, Live, LiveStatus

LEMMA NextInv ==
    ASSUME Assumptions, IndInv, [Next]_vars
    PROVE  IndInv'
  <1>1. ASSUME NEW p \in Procs, Serve(p)
        PROVE  IndInv'
    BY <1>1, ActRedestroy, ActDropRow, ActRefuse, ActTryBase, ActPickUser, ActInsertRow, ActBuildStep,
       ActMarkError, ActActivate, ActDestroy, ActEditCall, ActSaveEdit DEF Serve
  <1>2. CASE UNCHANGED vars
    BY <1>2 DEF vars, IndInv, TypeOK, RequestInv, RequestOK, AdmitOK, InsertOK, HoldOK,
       EditOK, Alone, SiteInv, LateInv, Claimed, AccountsClaimed, OneRowPerDomain, Live
  <1> QED BY <1>1, <1>2, ActLookup, ActReadSite, ActRunLate, ActCrash DEF Next

(* Every variable keeps its type, in every instance.                       *)
THEOREM ProvisioningTypeOK == Assumptions => (Spec => []TypeOK)
  <1> SUFFICES ASSUME Assumptions PROVE Spec => []TypeOK
    OBVIOUS
  <1>1. Init => IndInv
    BY InitInv
  <1>2. IndInv /\ [Next]_vars => IndInv'
    BY NextInv
  <1>3. IndInv => TypeOK
    BY DEF IndInv
  <1> QED BY <1>1, <1>2, <1>3, PTL DEF Spec

(* However orders, deletions, crashes and late calls interleave, no domain *)
(* ever has two rows (provisionSite's lookup and CreateSite's UNIQUE).     *)
THEOREM DomainUnique == Assumptions => (Spec => []OneRowPerDomain)
  <1> SUFFICES ASSUME Assumptions PROVE Spec => []OneRowPerDomain
    OBVIOUS
  <1>1. Init => IndInv
    BY InitInv
  <1>2. IndInv /\ [Next]_vars => IndInv'
    BY NextInv
  <1>3. IndInv => OneRowPerDomain
    BY DEF IndInv
  <1> QED BY <1>1, <1>2, <1>3, PTL DEF Spec

(* The agent only ever creates accounts that some row had claimed first,   *)
(* even for calls it runs after the API gave up or crashed (provisionSite).*)
THEOREM NoUnclaimedAccount == Assumptions => (Spec => []AccountsClaimed)
  <1> SUFFICES ASSUME Assumptions PROVE Spec => []AccountsClaimed
    OBVIOUS
  <1>1. Init => IndInv
    BY InitInv
  <1>2. IndInv /\ [Next]_vars => IndInv'
    BY NextInv
  <1>3. IndInv => AccountsClaimed
    BY DEF IndInv
  <1> QED BY <1>1, <1>2, <1>3, PTL DEF Spec

------------------------------------------------------------------------------
(* The table's steps, action by action, for properties of two states.      *)

LEMMA TableStep ==
    ASSUME Assumptions, IndInv, [Next]_vars
    PROVE  SitesStep
  <1>1. ASSUME UNCHANGED sites PROVE SitesStep
    BY <1>1, SameSites
  <1>2. ASSUME NEW p \in Procs, Serve(p)
        PROVE  SitesStep
    <2>1. CASE DropRow(p)
      BY <2>1, Copy, DeleteEffect DEF DropRow, HoldPCs
    <2>2. CASE InsertRow(p)
      BY <2>2, InsertTable
    <2>3. CASE MarkError(p)
      BY <2>3, SavedTable, MarkedCopy DEF MarkError, HoldPCs, LiveStatus
    <2>4. CASE Activate(p)
      BY <2>4, SavedTable, MarkedCopy DEF Activate, HoldPCs, LiveStatus
    <2>5. CASE SaveEdit(p)
      BY <2>5, SavedTable, EditedCopy DEF SaveEdit, HoldPCs
    <2> QED BY <1>1, <1>2, <2>1, <2>2, <2>3, <2>4, <2>5
            DEF Serve, Redestroy, Refuse, TryBase, PickUser, BuildStep, Destroy, EditCall
  <1> QED BY <1>1, <1>2 DEF Next, vars, Lookup, ReadSite, RunLate, Crash

(* A request that ends late, with a copy read before the DELETE, never     *)
(* brings the row back (UpdateSite's UPDATE ... WHERE id).                 *)
THEOREM DeletedForGood == Assumptions => (Spec => NoResurrection)
  <1> SUFFICES ASSUME Assumptions PROVE Spec => NoResurrection
    OBVIOUS
  <1> DEFINE Final == \A i \in Ids : sites[i].status = "deleted" => sites'[i] = sites[i]
  <1>1. Init => IndInv
    BY InitInv
  <1>2. IndInv /\ [Next]_vars => IndInv'
    BY NextInv
  <1>3. IndInv /\ [Next]_vars => [Final]_vars
    BY TableStep DEF SitesStep, Rewritten, Inserted, Live, LiveStatus
  <1> QED BY <1>1, <1>2, <1>3, PTL DEF Spec, NoResurrection

------------------------------------------------------------------------------
(* Rows being built.  An edit that read one and does not set the status    *)
(* writes "provisioning" back when the build is over; so either there are  *)
(* no such edits, or clients do not overlap requests on a domain.  And     *)
(* UPDATE does not fail.                                                   *)

SetsStatus == {"suspend", "resume"}

TidyEdits ==
    /\ Exclusive \/ Kinds \subseteq SetsStatus \cup {"delete"}
    /\ "update_site" \notin FailingOps

NotBack(q) ==
    q.pc \in {"edit", "save"} => q.kind \in SetsStatus \/ q.row.status # "provisioning"

EditsInv == crashes = 0 => \A p \in Procs : NotBack(req[p])

BuildInv == IndInv /\ EditsInv /\ OwnedProvisioning

(* A step of p other than a save keeps every claim on a row, its own one   *)
(* included unless it was about to insert or to save.                      *)
LEMMA ChargeKept ==
    ASSUME BuildInv, NEW p \in Procs, NEW x, req' = [req EXCEPT ![p] = x],
           sites' = sites, UNCHANGED crashes,
           (req[p].pc \in BuildSteps /\ req[p].kind = "create") =>
               x.id = req[p].id /\ x.kind = "create"
               /\ x.pc \in BuildSteps \cup {"activate", "mark_error"},
           req[p].pc \notin {"activate", "mark_error"}, crashes = 0 => NotBack(x)
    PROVE  EditsInv' /\ OwnedProvisioning'
  <1>1. req \in [Procs -> Request]
    BY DEF BuildInv, IndInv, TypeOK
  <1>2. req'[p] = x /\ \A q \in Procs : q # p => req'[q] = req[q]
    BY <1>1
  <1>3. ASSUME NEW q \in Procs, NEW i \in Ids, InCharge(q, i)
        PROVE  InCharge(q, i)'
    BY <1>2, <1>3 DEF InCharge
  <1> QED BY <1>2, <1>3 DEF BuildInv, EditsInv, OwnedProvisioning

(* The request that lets go of its row has changed the status first.       *)
LEMMA LetGo ==
    ASSUME BuildInv, NEW p \in Procs, req[p].id \in Ids, NEW x,
           req' = [req EXCEPT ![p] = x], NotBack(x), UNCHANGED crashes,
           \A j \in Ids : j # req[p].id => sites'[j] = sites[j],
           \/ sites'[req[p].id].status # "provisioning"
           \/ ~InCharge(p, req[p].id) /\ sites'[req[p].id] = sites[req[p].id]
    PROVE  EditsInv' /\ OwnedProvisioning'
  <1>1. req \in [Procs -> Request]
    BY DEF BuildInv, IndInv, TypeOK
  <1>2. req'[p] = x /\ \A q \in Procs : q # p => req'[q] = req[q]
    BY <1>1
  <1>3. ASSUME NEW j \in Ids, sites'[j].status = "provisioning", crashes = 0
        PROVE  \E q \in Procs : InCharge(q, j)'
    <2>1. sites'[j] = sites[j]
      BY <1>3
    <2>2. PICK q \in Procs : InCharge(q, j)
      BY <1>3, <2>1 DEF BuildInv, OwnedProvisioning
    <2>3. q # p
      BY <1>3, <2>2 DEF InCharge
    <2> QED BY <1>2, <2>2, <2>3 DEF InCharge
  <1> QED BY <1>2, <1>3 DEF BuildInv, EditsInv, OwnedProvisioning

LEMMA ChargeServe ==
    ASSUME Assumptions, TidyEdits, BuildInv, NEW p \in Procs, Serve(p)
    PROVE  EditsInv' /\ OwnedProvisioning'
  <1> SUFFICES ASSUME crashes = 0 PROVE EditsInv' /\ OwnedProvisioning'
    <2>1. UNCHANGED crashes
      BY DEF Serve, Redestroy, DropRow, Refuse, TryBase, PickUser, InsertRow, BuildStep, MarkError,
             Activate, Destroy, EditCall, SaveEdit
    <2> QED BY <2>1 DEF EditsInv, OwnedProvisioning
  <1>0. /\ sites \in [Ids -> Row] /\ req \in [Procs -> Request] /\ IndInv
        /\ "update_site" \notin FailingOps /\ NotBack(req[p])
    BY DEF BuildInv, IndInv, TypeOK, TidyEdits, EditsInv
  <1>a. \A x : x.pc \notin {"edit", "save"} => NotBack(x)
    BY DEF NotBack
  <1>1. CASE Redestroy(p)
    <2> DEFINE x == [req[p] EXCEPT !.pc = "drop"]
    <2>1. req' = [req EXCEPT ![p] = x] /\ x.pc = "drop"
      <3>1. req[p] \in Request
        BY <1>0
      <3>2. x.pc = "drop"
        BY <3>1 DEF Request
      <3> QED BY <1>1, <3>2, <1>0, AskEffect DEF Redestroy, Calling
    <2> QED BY <1>1, <1>a, <2>1, ChargeKept DEF Redestroy, BuildSteps
  <1>2. CASE DropRow(p)
    <2>1. req[p].pc \in HoldPCs /\ req[p].pc = "drop" /\ UNCHANGED crashes
      BY <1>2 DEF DropRow, HoldPCs
    <2> DEFINE i == req[p].id
    <2>2. i \in Ids /\ req[p] \in Request
      BY <1>0, <2>1, Copy
    <2>3. PICK x : req' = [req EXCEPT ![p] = x] /\ x.pc \notin {"edit", "save"}
      <3>1. [req[p] EXCEPT !.pc = "admit", !.id = NoId,
                           !.row = Draft(req[p].row.domain, req[p].app)].pc = "admit"
        BY <2>2 DEF Request
      <3>2. Idle.pc = "idle"
        BY DEF Idle
      <3>3. CASE req[p].kind = "create"
        BY <1>2, <3>1, <3>3 DEF DropRow
      <3>4. CASE req[p].kind # "create"
        BY <1>2, <3>2, <3>4 DEF DropRow
      <3> QED BY <3>3, <3>4
    <2>4. ~InCharge(p, i)
      BY <2>1 DEF InCharge, BuildSteps
    <2>5. /\ \A j \in Ids : j # i => sites'[j] = sites[j]
          /\ sites'[i].status # "provisioning" \/ sites'[i] = sites[i]
      <3>1. DeleteSite(i)
        BY <1>2 DEF DropRow
      <3>2. CASE sites' = sites
        BY <3>2
      <3>3. CASE sites' = [sites EXCEPT ![i].status = "deleted"]
        <4>1. sites'[i].status = "deleted"
          BY <1>0, <2>2, <3>3 DEF Row
        <4> QED BY <1>0, <3>3, <4>1
      <3> QED BY <3>1, <3>2, <3>3 DEF DeleteSite
    <2> QED BY <1>a, <2>1, <2>2, <2>3, <2>4, <2>5, LetGo
  <1>3. CASE Refuse(p)
    BY <1>3, <1>a, ChargeKept DEF Refuse, Idle, BuildSteps
  <1>13. CASE TryBase(p)
    <2> DEFINE x == [req[p] EXCEPT !.pc = "suffix"]
    <2>1. req' = [req EXCEPT ![p] = x] /\ x.pc = "suffix"
      BY <1>0, <1>13 DEF TryBase, Request
    <2> QED BY <1>13, <1>a, <2>1, ChargeKept DEF TryBase, BuildSteps
  <1>4. CASE PickUser(p)
    <2>1. PICK x : req' = [req EXCEPT ![p] = x] /\ x.pc = "insert"
      <3>1. PICK u \in Names[req[p].row.domain], i \in Ids :
               req' = [req EXCEPT ![p].pc = "insert", ![p].id = i,
                             ![p].row = [@ EXCEPT !.status = "provisioning", !.user = u]]
        BY <1>4 DEF PickUser, FreshIds
      <3> DEFINE x == [req[p] EXCEPT !.pc = "insert", !.id = i,
                          !.row = [req[p].row EXCEPT !.status = "provisioning", !.user = u]]
      <3>2. req' = [req EXCEPT ![p] = x]
        BY <1>0, <3>1
      <3>3. req[p] \in Request
        BY <1>0
      <3>4. x.pc = "insert"
        BY <3>3 DEF Request
      <3> QED BY <3>2, <3>4
    <2> QED BY <1>4, <1>a, <2>1, ChargeKept DEF PickUser, BuildSteps
  <1>5. CASE InsertRow(p)
    <2>1. CASE req' = [req EXCEPT ![p] = Idle] /\ UNCHANGED sites
      BY <1>5, <1>a, <2>1, ChargeKept DEF InsertRow, Idle, BuildSteps
    <2>2. CASE /\ req' = [req EXCEPT ![p].pc = "create_site_user"]
               /\ sites' = [sites EXCEPT ![req[p].id] = req[p].row]
      <3>1. /\ req[p].pc = "insert" /\ req[p].kind = "create" /\ req[p].id \in Ids
            /\ UNCHANGED crashes /\ req[p] \in Request
        BY <1>0, <1>5 DEF InsertRow, IndInv, RequestInv, RequestOK, InsertOK
      <3>2. /\ req'[p] = [req[p] EXCEPT !.pc = "create_site_user"]
            /\ \A q \in Procs : q # p => req'[q] = req[q]
            /\ \A j \in Ids : j # req[p].id => sites'[j] = sites[j]
        BY <1>0, <2>2
      <3>3. InCharge(p, req[p].id)'
        BY <3>1, <3>2 DEF InCharge, BuildSteps, Request
      <3>4. ASSUME NEW q \in Procs, NEW j \in Ids, InCharge(q, j)
            PROVE  InCharge(q, j)'
        <4>1. q # p
          BY <3>1, <3>4 DEF InCharge, BuildSteps
        <4> QED BY <3>2, <3>4, <4>1 DEF InCharge
      <3>5. OwnedProvisioning'
        BY <3>1, <3>2, <3>3, <3>4 DEF BuildInv, OwnedProvisioning
      <3>6. EditsInv'
        BY <3>1, <3>2 DEF BuildInv, EditsInv, NotBack, Request
      <3> QED BY <3>5, <3>6
    <2> QED BY <1>5, <2>1, <2>2 DEF InsertRow
  <1>6. CASE BuildStep(p)
    <2>1. req[p] \in Request /\ req[p].row \in Row /\ req[p].pc \in BuildSteps
      BY <1>0, <1>6, Copy DEF BuildStep, HoldPCs
    <2>2. /\ Advance(req[p]).id = req[p].id /\ Advance(req[p]).kind = req[p].kind
          /\ Advance(req[p]).pc \in BuildSteps \cup {"activate"}
      <3>1. ASSUME NEW a, NEW b
            PROVE  [req[p] EXCEPT !.pc = a, !.row = b].kind = req[p].kind
        BY <2>1 DEF Request
      <3>2. Advance(req[p]).kind = req[p].kind
        BY <3>1 DEF Advance
      <3> QED BY <2>1, <3>2, AdvanceTyped
    <2> DEFINE y == [req[p] EXCEPT !.pc = "mark_error"]
    <2>3. y.id = req[p].id /\ y.kind = req[p].kind /\ y.pc = "mark_error"
      BY <2>1 DEF Request
    <2>4. req' = [req EXCEPT ![p] = Advance(req[p])] \/ req' = [req EXCEPT ![p] = y]
      <3>1. req' = [req EXCEPT ![p] = Advance(req[p])] \/ req' = [req EXCEPT ![p] = GiveUp(req[p])]
        BY <1>0, <1>6, AskEffect DEF BuildStep, Calling
      <3> QED BY <3>1 DEF GiveUp
    <2> HIDE DEF y
    <2> QED BY <1>6, <1>a, <2>1, <2>2, <2>3, <2>4, ChargeKept DEF BuildStep, BuildSteps
  <1>7. ASSUME req[p].pc \in HoldPCs, NEW row, row.status # "provisioning",
               UpdateSite(req[p].id, row), req' = [req EXCEPT ![p] = Idle], UNCHANGED crashes
        PROVE  EditsInv' /\ OwnedProvisioning'
    <2> DEFINE i == req[p].id
    <2>1. i \in Ids
      BY <1>0, <1>7, Copy
    <2>2. sites' = IF Live(i) THEN [sites EXCEPT ![i] = row] ELSE sites
      BY <1>0, <1>7 DEF UpdateSite
    <2>3. sites'[i].status # "provisioning"
      BY <1>0, <1>7, <2>1, <2>2 DEF Live, LiveStatus
    <2>4. \A j \in Ids : j # i => sites'[j] = sites[j]
      BY <1>0, <2>1, <2>2
    <2>5. Idle.pc \notin {"edit", "save"}
      BY DEF Idle
    <2> QED BY <1>7, <1>a, <2>1, <2>3, <2>4, <2>5, LetGo
  <1>b. ASSUME req[p].pc \in HoldPCs, NEW st \in LiveStatus
        PROVE  [req[p].row EXCEPT !.status = st].status = st
    <2>1. req[p].row \in Row
      BY <1>0, <1>b, Copy
    <2> QED BY <2>1 DEF Row
  <1>8. CASE MarkError(p)
    BY <1>7, <1>8, <1>b DEF MarkError, HoldPCs, LiveStatus
  <1>9. CASE Activate(p)
    BY <1>7, <1>9, <1>b DEF Activate, HoldPCs, LiveStatus
  <1>10. CASE Destroy(p)
    <2> DEFINE x == [req[p] EXCEPT !.pc = "drop"]
    <2>1. x.pc = "drop" /\ Idle.pc = "idle"
      BY <1>0 DEF Request, Idle
    <2>2. req' = [req EXCEPT ![p] = x] \/ req' = [req EXCEPT ![p] = Idle]
      BY <1>0, <1>10, AskEffect DEF Destroy, Calling
    <2> HIDE DEF x
    <2> QED BY <1>10, <1>a, <2>1, <2>2, ChargeKept DEF Destroy, BuildSteps
  <1>11. CASE EditCall(p)
    <2> DEFINE x == [req[p] EXCEPT !.pc = "save"]
    <2>1. x.pc = "save" /\ x.kind = req[p].kind /\ x.row = req[p].row /\ Idle.pc = "idle"
      BY <1>0 DEF Request, Idle
    <2>2. NotBack(x) /\ NotBack(Idle)
      BY <1>0, <1>11, <2>1 DEF NotBack, EditCall
    <2>3. req' = [req EXCEPT ![p] = x] \/ req' = [req EXCEPT ![p] = Idle]
      BY <1>0, <1>11, AskEffect DEF EditCall, Calling
    <2> HIDE DEF x
    <2> QED BY <1>11, <2>2, <2>3, ChargeKept DEF EditCall, BuildSteps
  <1>12. CASE SaveEdit(p)
    <2>1. req[p].pc = "save" /\ req[p].pc \in HoldPCs
      BY <1>12 DEF SaveEdit, HoldPCs
    <2>2. Edited(req[p]).status # "provisioning"
      <3>1. req[p].row \in Row
        BY <1>0, <2>1, Copy
      <3>2. CASE req[p].kind \in SetsStatus
        BY <2>1, <3>2, <1>b DEF SetsStatus, Edited, LiveStatus
      <3>3. CASE req[p].kind \notin SetsStatus
        <4>1. Edited(req[p]) = req[p].row \/ Edited(req[p]) = [req[p].row EXCEPT !.ssl = TRUE]
          BY <3>3 DEF SetsStatus, Edited
        <4>2. req[p].row.status # "provisioning"
          BY <1>0, <2>1, <3>3 DEF NotBack
        <4> QED BY <3>1, <4>1, <4>2 DEF Row
      <3> QED BY <3>2, <3>3
    <2> QED BY <1>7, <1>12, <2>1, <2>2 DEF SaveEdit
  <1> QED BY <1>0, <1>1, <1>2, <1>3, <1>4, <1>5, <1>6, <1>8, <1>9, <1>10, <1>11, <1>12, <1>13
          DEF Serve

LEMMA ChargeStep ==
    ASSUME Assumptions, TidyEdits, BuildInv, [Next]_vars
    PROVE  BuildInv'
  <1>1. IndInv'
    BY NextInv DEF BuildInv
  <1>2. ASSUME NEW p \in Procs, NEW d \in Domains, NEW a \in Apps, Lookup(p, d, a)
        PROVE  EditsInv' /\ OwnedProvisioning'
    BY <1>2, ChargeKept DEF Lookup, NotBack, BuildSteps
  <1>3. ASSUME NEW p \in Procs, NEW i \in Ids, NEW k \in Kinds, ReadSite(p, i, k)
        PROVE  EditsInv' /\ OwnedProvisioning'
    <2>1. IndInv /\ req[p].pc = "idle" /\ UNCHANGED <<sites, crashes>> /\ Quiet(sites[i].domain)
      BY <1>3 DEF ReadSite, BuildInv
    <2> DEFINE x == [pc |-> IF k = "delete" THEN "destroy" ELSE "edit",
                     kind |-> k, id |-> i, row |-> sites[i], app |-> sites[i].app]
    <2>2. req' = [req EXCEPT ![p] = x]
      BY <1>3 DEF ReadSite
    <2>3. crashes = 0 => NotBack(x)
      <3>1. CASE Exclusive /\ crashes = 0
        <4>1. ASSUME NEW q \in Procs, InCharge(q, i)
              PROVE  req[q].pc # "idle" /\ req[q].row.domain = sites[i].domain
          <5>1. req[q].pc \in HoldPCs /\ req[q].id = i
            BY <4>1 DEF InCharge, HoldPCs
          <5> QED BY <2>1, <5>1, Copy DEF HoldPCs, BuildSteps
        <4>2. ~\E q \in Procs : InCharge(q, i)
          BY <2>1, <3>1, <4>1 DEF Quiet
        <4>3. sites[i].status # "provisioning"
          BY <3>1, <4>2 DEF BuildInv, OwnedProvisioning
        <4> QED BY <4>3 DEF NotBack
      <3>2. CASE Kinds \subseteq SetsStatus \cup {"delete"}
        BY <3>2 DEF NotBack
      <3> QED BY <3>1, <3>2 DEF TidyEdits
    <2> HIDE DEF x
    <2> QED BY <2>1, <2>2, <2>3, ChargeKept DEF BuildSteps
  <1>4. CASE UNCHANGED <<sites, req, crashes>>
    <2>1. \A p \in Procs, i \in Ids : InCharge(p, i) => InCharge(p, i)'
      BY <1>4 DEF InCharge
    <2> QED BY <1>1, <1>4, <2>1 DEF BuildInv, EditsInv, NotBack, OwnedProvisioning
  <1>5. CASE Crash
    <2>1. crashes' # 0 /\ req' = [p \in Procs |-> Idle]
      BY <1>5 DEF Crash, BuildInv, IndInv, TypeOK, Assumptions, ProvisioningAssumption
    <2>2. Idle.pc = "idle"
      BY DEF Idle
    <2>3. EditsInv'
      BY <2>1, <2>2 DEF EditsInv, NotBack
    <2> QED BY <1>1, <2>1, <2>3 DEF BuildInv, OwnedProvisioning
  <1> QED BY <1>1, <1>2, <1>3, <1>4, <1>5, ChargeServe DEF Next, RunLate, vars, BuildInv

(* Until the API crashes, a row in "provisioning" has a request that will  *)
(* rewrite its status: every error path of provisionSite does, whatever    *)
(* fails and whatever else deletes, replaces, suspends or resumes sites    *)
(* meanwhile; and whatever edits them, if clients make one request on a    *)
(* domain at a time.                                                       *)
THEOREM ProvisioningOwned ==
    Assumptions /\ TidyEdits => (Spec => []OwnedProvisioning)
  <1> SUFFICES ASSUME Assumptions, TidyEdits PROVE Spec => []OwnedProvisioning
    OBVIOUS
  <1>1. Init => BuildInv
    <2> SUFFICES ASSUME Init PROVE BuildInv
      OBVIOUS
    <2>1. IndInv
      BY InitInv
    <2>2. EditsInv
      BY DEF Init, EditsInv, NotBack, Idle
    <2>3. OwnedProvisioning
      BY DEF Init, OwnedProvisioning, NoRow, Draft
    <2> QED BY <2>1, <2>2, <2>3 DEF BuildInv
  <1>2. BuildInv /\ [Next]_vars => BuildInv'
    BY ChargeStep
  <1>3. BuildInv => OwnedProvisioning
    BY DEF BuildInv
  <1> QED BY <1>1, <1>2, <1>3, PTL DEF Spec
------------------------------------------------------------------------------
(* Accounts of their own.  Two orders may pick the same free name before   *)
(* either is inserted; it takes both: an overlap, and domains that compete *)
(* for a name.                                                             *)

OwnNames == \A d, e \in Domains : d # e => Names[d] \cap Names[e] = {}

OneByOne == \A p, q \in Procs : p = q

NamedFor(row) == row.user \in Names[row.domain]

UserInv ==
    /\ IndInv
    /\ \A p \in Procs : req[p].pc = "insert" => NamedFor(req[p].row)
    /\ \A i \in Ids : sites[i].status # "free" => NamedFor(sites[i])
    /\ OneByOne => OneUserPerSite
    /\ OneByOne => \A p \in Procs : req[p].pc = "insert" => ~LinuxUserTaken(req[p].row.user)

(* The name is chosen by PickUser from a table that stays as it is.        *)
LEMMA ServeNames ==
    ASSUME Assumptions, IndInv, NEW p \in Procs, Serve(p)
    PROVE  /\ \A q \in Procs : q # p => req'[q] = req[q]
           /\ req'[p].pc = "insert" =>
                 NamedFor(req'[p].row) /\ ~LinuxUserTaken(req'[p].row.user) /\ sites' = sites
  <1>0. req \in [Procs -> Request] /\ req[p] \in Request /\ Idle.pc # "insert"
    BY DEF IndInv, TypeOK, Idle
  <1>1. ASSUME NEW x, x.pc # "insert", req' = [req EXCEPT ![p] = x]
        PROVE  /\ \A q \in Procs : q # p => req'[q] = req[q]
               /\ req'[p].pc # "insert"
    BY <1>0, <1>1
  <1>2. \A pc : [req[p] EXCEPT !.pc = pc].pc = pc
    BY <1>0 DEF Request
  <1>3. ASSUME NEW yes, NEW no, yes.pc # "insert", no.pc # "insert", Ask(p, yes, no)
        PROVE  /\ \A q \in Procs : q # p => req'[q] = req[q]
               /\ req'[p].pc # "insert"
    <2>1. req' = [req EXCEPT ![p] = yes] \/ req' = [req EXCEPT ![p] = no]
      BY <1>3 DEF Ask
    <2> QED BY <1>1, <1>3, <2>1
  <1>4. CASE Redestroy(p)
    BY <1>2, <1>3, <1>4 DEF Redestroy
  <1>5. CASE Destroy(p) \/ EditCall(p)
    BY <1>0, <1>2, <1>3, <1>5 DEF Destroy, EditCall
  <1>6. CASE BuildStep(p)
    <2>1. Advance(req[p]).pc # "insert" /\ GiveUp(req[p]).pc # "insert"
      <3>1. Advance(req[p]).pc # "insert"
        <4>1. Advance(req[p]).pc \in BuildSteps \cup {"activate"}
          BY <1>0, AdvanceTyped DEF Request
        <4> QED BY <4>1 DEF BuildSteps
      <3> QED BY <1>2, <3>1 DEF GiveUp
    <2> QED BY <1>3, <1>6, <2>1 DEF BuildStep
  <1>7. CASE Refuse(p) \/ MarkError(p) \/ Activate(p) \/ SaveEdit(p)
    BY <1>0, <1>1, <1>7 DEF Refuse, MarkError, Activate, SaveEdit
  <1>11. CASE TryBase(p)
    <2> DEFINE x == [req[p] EXCEPT !.pc = "suffix"]
    <2>1. req' = [req EXCEPT ![p] = x] /\ x.pc = "suffix"
      BY <1>0, <1>2, <1>11 DEF TryBase
    <2> QED BY <1>1, <2>1
  <1>8. CASE DropRow(p)
    <2> DEFINE x == [req[p] EXCEPT !.pc = "admit", !.id = NoId,
                                   !.row = Draft(req[p].row.domain, req[p].app)]
    <2>1. req' = [req EXCEPT ![p] = x] \/ req' = [req EXCEPT ![p] = Idle]
      BY <1>8 DEF DropRow
    <2>2. x.pc = "admit"
      BY <1>0 DEF Request
    <2> HIDE DEF x
    <2> QED BY <1>0, <1>1, <2>1, <2>2
  <1>9. CASE InsertRow(p)
    <2>1. \/ req' = [req EXCEPT ![p] = Idle]
          \/ req' = [req EXCEPT ![p] = [req[p] EXCEPT !.pc = "create_site_user"]]
      BY <1>0, <1>9 DEF InsertRow
    <2> QED BY <1>0, <1>1, <1>2, <2>1
  <1>10. CASE PickUser(p)
    <2>1. PICK u \in Names[req[p].row.domain], i \in FreshIds :
             /\ ~LinuxUserTaken(u)
             /\ req' = [req EXCEPT ![p].pc = "insert", ![p].id = i,
                                   ![p].row = [@ EXCEPT !.status = "provisioning", !.user = u]]
      BY <1>10 DEF PickUser
    <2> DEFINE y == [req[p].row EXCEPT !.status = "provisioning", !.user = u]
               x == [req[p] EXCEPT !.pc = "insert", !.id = i, !.row = y]
    <2>2. y.domain = req[p].row.domain /\ y.user = u
      BY <1>0 DEF Request, Row
    <2>3. req' = [req EXCEPT ![p] = x] /\ sites' = sites
      BY <1>0, <1>10, <2>1 DEF PickUser
    <2> HIDE DEF y
    <2>4. x.pc = "insert" /\ x.row = y
      BY <1>0 DEF Request
    <2> HIDE DEF x
    <2> QED BY <1>0, <2>1, <2>2, <2>3, <2>4 DEF NamedFor
  <1> QED BY <1>4, <1>5, <1>6, <1>7, <1>8, <1>9, <1>10, <1>11 DEF Serve

(* A row that was free comes from the request that inserts it.             *)
LEMMA RowFrom ==
    ASSUME Assumptions, IndInv, NEW p \in Procs, Serve(p), NEW i \in Ids,
           sites[i].status = "free", sites'[i] # sites[i]
    PROVE  req[p].pc = "insert" /\ sites'[i] = req[p].row
           /\ \A j \in Ids : j # i => sites'[j] = sites[j]
  <1>1. FreeKept(p)
    <2>1. CASE DropRow(p)
      BY <2>1, Copy, DeleteEffect DEF DropRow, HoldPCs
    <2>2. CASE InsertRow(p)
      BY <2>2, InsertTable
    <2>3. CASE MarkError(p)
      BY <2>3, SavedTable, MarkedCopy DEF MarkError, HoldPCs, LiveStatus
    <2>4. CASE Activate(p)
      BY <2>4, SavedTable, MarkedCopy DEF Activate, HoldPCs, LiveStatus
    <2>5. CASE SaveEdit(p)
      BY <2>5, SavedTable, EditedCopy DEF SaveEdit, HoldPCs
    <2> QED BY SameSites, <2>1, <2>2, <2>3, <2>4, <2>5
            DEF Serve, Redestroy, Refuse, TryBase, PickUser, BuildStep, Destroy, EditCall
  <1>2. req[p].pc = "insert" /\ i = req[p].id
    BY <1>1 DEF FreeKept
  <1>3. InsertRow(p)
    BY <1>2 DEF Serve, Redestroy, DropRow, Refuse, TryBase, PickUser, BuildStep, MarkError,
       Activate, Destroy, EditCall, SaveEdit, BuildSteps
  <1>4. sites \in [Ids -> Row] /\ sites' = [sites EXCEPT ![i] = req[p].row]
    BY <1>2, <1>3 DEF InsertRow, IndInv, TypeOK
  <1> QED BY <1>2, <1>4

LEMMA UserServe ==
    ASSUME Assumptions, UserInv, NEW p \in Procs, Serve(p)
    PROVE  UserInv'
  <1>0. IndInv /\ IndInv' /\ SitesStep
    BY NextInv, TableStep DEF UserInv, Next
  <1>1. \A q \in Procs : req'[q].pc = "insert" => NamedFor(req'[q].row)
    BY <1>0, ServeNames DEF UserInv
  <1>2. ASSUME NEW i \in Ids, sites'[i].status # "free" PROVE NamedFor(sites'[i])
    <2>1. CASE sites[i].status = "free" /\ sites'[i] # sites[i]
      BY <1>0, <2>1, RowFrom DEF UserInv
    <2>2. CASE sites[i].status # "free"
      <3>1. sites'[i].domain = sites[i].domain /\ sites'[i].user = sites[i].user
        BY <1>0, <2>2 DEF SitesStep, Rewritten, Inserted
      <3> QED BY <2>2, <3>1 DEF UserInv, NamedFor
    <2> QED BY <1>2, <2>1, <2>2
  <1>3. ASSUME OneByOne, NEW q \in Procs, req'[q].pc = "insert"
        PROVE  ~LinuxUserTaken(req[q].row.user)'
    <2>1. q = p
      BY <1>3 DEF OneByOne
    <2> QED BY <1>0, <1>3, <2>1, ServeNames DEF LinuxUserTaken, Live
  <1>4. ASSUME OneByOne, NEW i \in Ids, NEW j \in Ids, Live(i)', Live(j)',
               sites'[i].user = sites'[j].user, i # j
        PROVE  FALSE
    <2>1. ASSUME NEW k \in Ids, Live(k)', sites[k].status # "free"
          PROVE  Live(k) /\ sites'[k].user = sites[k].user
      <3>1. sites'[k] = sites[k] \/ Rewritten(k)
        BY <1>0, <2>1 DEF SitesStep, Inserted
      <3> QED BY <2>1, <3>1 DEF Rewritten, Live
    <2>2. ASSUME NEW k \in Ids, NEW l \in Ids, k # l, Live(k)', Live(l)',
                 sites[k].status = "free", sites'[k].user = sites'[l].user
          PROVE  FALSE
      <3>1. sites'[k] # sites[k]
        BY <2>2 DEF Live, LiveStatus
      <3>2. req[p].pc = "insert" /\ sites'[k] = req[p].row /\ sites'[l] = sites[l]
        BY <1>0, <2>2, <3>1, RowFrom
      <3>3. Live(l) /\ sites[l].user = req[p].row.user
        BY <2>2, <3>2 DEF Live
      <3> QED BY <1>4, <3>2, <3>3 DEF UserInv, LinuxUserTaken
    <2>3. sites[i].status # "free" /\ sites[j].status # "free"
      BY <1>4, <2>2
    <2> QED BY <1>4, <2>1, <2>3 DEF UserInv, OneUserPerSite
  <1> QED BY <1>0, <1>1, <1>2, <1>3, <1>4 DEF UserInv, OneUserPerSite

LEMMA UserStep ==
    ASSUME Assumptions, UserInv, [Next]_vars
    PROVE  UserInv'
  <1>0. IndInv' /\ req \in [Procs -> Request] /\ Idle.pc # "insert"
    BY NextInv DEF UserInv, IndInv, TypeOK, Idle
  <1>1. ASSUME sites' = sites, \A q \in Procs : req'[q] = req[q] \/ req'[q].pc # "insert"
        PROVE  UserInv'
    BY <1>0, <1>1 DEF UserInv, LinuxUserTaken, OneUserPerSite, Live
  <1>2. ASSUME NEW p \in Procs, NEW d \in Domains, NEW a \in Apps, Lookup(p, d, a)
        PROVE  UserInv'
    <2> DEFINE y == [pc |-> "admit", kind |-> "create", id |-> NoId, row |-> Draft(d, a),
                     app |-> a]
               z(i) == [pc |-> "redestroy", kind |-> "create", id |-> i, row |-> sites[i],
                        app |-> a]
    <2>1. req' = [req EXCEPT ![p] = y] \/ \E i \in Ids : req' = [req EXCEPT ![p] = z(i)]
      BY <1>2 DEF Lookup
    <2>2. y.pc # "insert" /\ \A i \in Ids : z(i).pc # "insert"
      OBVIOUS
    <2> HIDE DEF y, z
    <2>3. \A q \in Procs : req'[q] = req[q] \/ req'[q].pc # "insert"
      BY <1>0, <2>1, <2>2
    <2> QED BY <1>1, <1>2, <2>3 DEF Lookup
  <1>3. ASSUME NEW p \in Procs, NEW i \in Ids, NEW k \in Kinds, ReadSite(p, i, k)
        PROVE  UserInv'
    BY <1>0, <1>1, <1>3 DEF ReadSite
  <1>4. CASE Crash
    BY <1>0, <1>1, <1>4 DEF Crash
  <1>5. CASE RunLate \/ UNCHANGED vars
    BY <1>1, <1>5 DEF RunLate, vars
  <1> QED BY <1>2, <1>3, <1>4, <1>5, UserServe DEF Next

(* Two sites never share a Linux account if orders never overlap, or if    *)
(* no two domains would try the same name: what uniqueLinuxUser's check    *)
(* without a constraint is good for.                                       *)
THEOREM OneUserUnlessRaced ==
    Assumptions /\ (OwnNames \/ OneByOne) => (Spec => []OneUserPerSite)
  <1> SUFFICES ASSUME Assumptions, OwnNames \/ OneByOne PROVE Spec => []OneUserPerSite
    OBVIOUS
  <1>1. Init => UserInv
    <2> SUFFICES ASSUME Init PROVE UserInv
      OBVIOUS
    <2>1. IndInv
      BY InitInv
    <2>2. (\A i \in Ids : sites[i].status = "free") /\ \A p \in Procs : req[p].pc = "idle"
      BY DEF Init, NoRow, Draft, Idle
    <2> QED BY <2>1, <2>2 DEF UserInv, OneUserPerSite, Live, LiveStatus
  <1>2. UserInv /\ [Next]_vars => UserInv'
    BY UserStep
  <1>3. UserInv => OneUserPerSite
    <2> SUFFICES ASSUME UserInv, OwnNames, NEW i \in Ids, NEW j \in Ids, Live(i), Live(j),
                        sites[i].user = sites[j].user
                 PROVE  i = j
      BY DEF OneUserPerSite, UserInv
    <2>1. /\ sites[i].status # "free" /\ sites[j].status # "free"
          /\ SiteInv /\ OneRowPerDomain
      BY DEF Live, LiveStatus, UserInv, IndInv
    <2>2. /\ NamedFor(sites[i]) /\ NamedFor(sites[j])
          /\ sites[i].domain \in Domains /\ sites[j].domain \in Domains
      BY <2>1 DEF UserInv, SiteInv
    <2>3. sites[i].domain = sites[j].domain
      BY <2>2 DEF NamedFor, OwnNames
    <2> QED BY <2>1, <2>3 DEF OneRowPerDomain
  <1> QED BY <1>1, <1>2, <1>3, PTL DEF Spec

==============================================================================
