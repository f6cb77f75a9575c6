---------------------------- MODULE HostingProofs ----------------------------
(***************************************************************************)
(* What the machine carries and what the table says, for any number of     *)
(* requests and sites, any failed build step and any crash: that all of it *)
(* is known to the table, when clients make one request on a domain at a   *)
(* time and no call of the agent runs late (NothingUnknown); and that a    *)
(* site shown as up has its pieces, for any overlap and late calls, unless *)
(* a call for another site names them (AllServed).                         *)
(***************************************************************************)
EXTENDS LifecycleProofs

(* Nothing works behind a client's back.                                   *)
InTurn == Exclusive /\ LateOps = {}

(* A deletion does what it says, when the agent is asked for one.          *)
DestroysAll == {"destroy_site", "userdel"} \cap FailingOps = {}

CopyPCs == {"redestroy", "destroy", "drop", "edit", "save"}

(* The request's copy is the row as it is now.                             *)
CopyOK(t, q) == q.pc \in CopyPCs => t[q.id] = q.row

TurnInv ==
    /\ LoneInv /\ late = {}
    /\ \A p \in Procs : CopyOK(sites, req[p])
    /\ \A p \in Procs : req[p].pc = "insert" => NamedFor(req[p].row)
    /\ \A i \in Ids : sites[i].status # "free" => NamedFor(sites[i])

FoundInv ==
    /\ \A u \in host.accounts \cup host.pools : \E i \in Ids : Settled(i) /\ sites[i].user = u
    /\ \A d \in Domains : host.vhosts[d] # NoUser =>
          \E i \in Ids : Settled(i) /\ sites[i].domain = d /\ sites[i].user = host.vhosts[d]

(* What a request under way has built so far.                              *)
BuiltOn(h, q) ==
    LET u == q.row.user
        a == q.row.app
    IN  /\ q.pc \in BuildPCs \ {"create_site_user", "mark_error"} => u \in h.accounts
        /\ q.pc \in {"provision_nginx", "create_database", "install_app", "activate"}
             => (NeedsPHP(a) => u \in h.pools)
        /\ q.pc \in {"create_database", "install_app", "activate"} => h.vhosts[q.row.domain] = u
        /\ q.pc \in {"install_app", "activate"}
             => (NeedsDB(a) => q.row.hasDB /\ h.dbs[DBNameOf[u]] = u)

Up(row) == row.status \in {"active", "suspended"}

(* Only the status of a site that is up is edited.                         *)
EditsUp(q) == q.pc \in {"edit", "save"} /\ q.kind \in {"suspend", "resume"} => Up(q.row)

(* A build under way finds what it built, as long as its row is there.     *)
BuildsOn(p) == req[p].pc \in BuildPCs /\ Settled(req[p].id) => BuiltOn(host, req[p])

(* A copy that will be written back is of a site that has its pieces.      *)
EditsServed(p) ==
    req[p].pc \in {"edit", "save"} /\ Up(req[p].row) /\ Settled(req[p].id) => Served(req[p].row)

PiecesInv ==
    /\ IndInv
    /\ \A p \in Procs : EditsUp(req[p]) /\ BuildsOn(p)
    /\ crashes = 0 =>
          /\ \A i \in Ids : Up(sites[i]) /\ Settled(i) => Served(sites[i])
          /\ \A p \in Procs : EditsServed(p)
------------------------------------------------------------------------------
(* What one operation of the agent adds to the machine, or takes from it.  *)

Adds(g, h, c) ==
    /\ h.accounts \subseteq g.accounts /\ g.accounts \subseteq h.accounts \cup {c.user}
    /\ h.pools \subseteq g.pools /\ g.pools \subseteq h.pools \cup {c.user}
    /\ \/ g.vhosts = h.vhosts
       \/ c.op = "provision_nginx" /\ g.vhosts = [h.vhosts EXCEPT ![c.domain] = c.user]
    /\ \/ g.dbs = h.dbs
       \/ c.op = "create_database" /\ g.dbs = [h.dbs EXCEPT ![DBNameOf[c.user]] = c.user]

Achieved(g, c) ==
    /\ c.op = "create_site_user" => c.user \in g.accounts
    /\ c.op = "provision_php" => c.user \in g.pools
    /\ c.op = "provision_nginx" => g.vhosts[c.domain] = c.user
    /\ c.op = "create_database" => g.dbs[DBNameOf[c.user]] = c.user

Takes(g, h, c) ==
    /\ g.accounts \subseteq h.accounts /\ h.accounts \ {c.user} \subseteq g.accounts
    /\ g.pools = h.pools \ {c.user}
    /\ g.vhosts = [h.vhosts EXCEPT ![c.domain] = NoUser]
    /\ \/ g.dbs = h.dbs
       \/ g.dbs = [h.dbs EXCEPT ![DBNameOf[c.user]] = NoUser]
    /\ DestroysAll => c.user \notin g.accounts

LEMMA AnswersAdd ==
    ASSUME NEW op, NEW c, NEW h, NEW made, NEW r \in Answers(op, h, made),
           Adds(h, h, c), Adds(made, h, c), Achieved(made, c)
    PROVE  Adds(r.host, h, c) /\ (r.ok => Achieved(r.host, c))
  <1>1. r \in {Done(made), Failed(h), Failed(made)}
    BY DEF Answers
  <1>2. CASE r = Done(made)
    BY <1>2 DEF Done
  <1>3. CASE r = Failed(h)
    BY <1>3 DEF Failed
  <1>4. CASE r = Failed(made)
    BY <1>4 DEF Failed
  <1> QED BY <1>1, <1>2, <1>3, <1>4

LEMMA ExecAdds ==
    ASSUME HostAssumption, NEW h \in HostType, NEW c \in Call, c.op # "destroy_site",
           NEW r \in Exec(h, c)
    PROVE  Adds(r.host, h, c) /\ (r.ok => Achieved(r.host, c))
  <1>0. c.user \in Users /\ c.domain \in Domains /\ c.op \in Ops
    BY DEF Call
  <1>1. Adds(h, h, c)
    BY DEF Adds
  <1>2. CASE c.op = "create_site_user"
    <2> DEFINE made == [h EXCEPT !.accounts = @ \cup {c.user}]
    <2>1. r \in CreateSiteUser(h, c.user)
      BY <1>2 DEF Exec
    <2>2. r = Failed(h) \/ r \in Answers("create_site_user", h, made)
      BY <2>1 DEF CreateSiteUser
    <2>3. Adds(made, h, c) /\ Achieved(made, c)
      BY <1>0, <1>2 DEF HostType, Adds, Achieved
    <2> HIDE DEF made
    <2>4. CASE r = Failed(h)
      BY <1>1, <2>4 DEF Failed
    <2> QED BY <1>1, <2>2, <2>3, <2>4, AnswersAdd
  <1>3. CASE c.op = "provision_php"
    <2> DEFINE made == [h EXCEPT !.pools = @ \cup {c.user}]
    <2>1. r \in Answers("provision_php", h, made)
      BY <1>3 DEF Exec, ProvisionPHP
    <2>2. Adds(made, h, c) /\ Achieved(made, c)
      BY <1>0, <1>3 DEF HostType, Adds, Achieved
    <2> HIDE DEF made
    <2> QED BY <1>1, <2>1, <2>2, AnswersAdd
  <1>4. CASE c.op = "provision_nginx"
    <2> DEFINE made == [h EXCEPT !.vhosts = [@ EXCEPT ![c.domain] = c.user]]
    <2>1. r \in Answers("provision_nginx", h, made)
      BY <1>4 DEF Exec, ProvisionNginx
    <2>2. Adds(made, h, c) /\ Achieved(made, c)
      BY <1>0, <1>4 DEF HostType, Adds, Achieved
    <2> HIDE DEF made
    <2> QED BY <1>1, <2>1, <2>2, AnswersAdd
  <1>5. CASE c.op = "create_database"
    <2> DEFINE made == [h EXCEPT !.dbs = [@ EXCEPT ![DBNameOf[c.user]] = c.user]]
    <2>1. r \in Answers("create_database", h, made)
      BY <1>5 DEF Exec, CreateDatabase
    <2>2. Adds(made, h, c) /\ Achieved(made, c)
      BY <1>0, <1>5 DEF HostType, HostAssumption, Adds, Achieved
    <2> HIDE DEF made
    <2> QED BY <1>1, <2>1, <2>2, AnswersAdd
  <1>6. ASSUME NEW made, c.op \notin {"create_site_user", "provision_php", "provision_nginx",
                                     "create_database"},
               made.accounts = h.accounts, made.pools = h.pools, made.vhosts = h.vhosts,
               made.dbs = h.dbs, r \in Answers(c.op, h, made)
        PROVE  Adds(r.host, h, c) /\ (r.ok => Achieved(r.host, c))
    <2>1. Adds(made, h, c) /\ Achieved(made, c)
      BY <1>6 DEF Adds, Achieved
    <2> QED BY <1>1, <1>6, <2>1, AnswersAdd
  <1>7. CASE c.op = "issue_ssl"
    <2>1. r \in Answers(c.op, h, [h EXCEPT !.certs = @ \cup {c.domain}])
      BY <1>7 DEF Exec, IssueSSL
    <2> QED BY <1>6, <1>7, <2>1 DEF HostType
  <1>8. CASE c.op = "suspend_site"
    <2>1. r \in Answers(c.op, h, [h EXCEPT !.flags = @ \cup {c.domain}])
      BY <1>8 DEF Exec, SuspendSite
    <2> QED BY <1>6, <1>8, <2>1 DEF HostType
  <1>9. CASE c.op = "resume_site"
    <2>1. r \in Answers(c.op, h, [h EXCEPT !.flags = @ \ {c.domain}])
      BY <1>9 DEF Exec, ResumeSite
    <2> QED BY <1>6, <1>9, <2>1 DEF HostType
  <1>10. CASE c.op \in {"set_quota", "install_app", "quota_usage"}
    <2>1. r \in Answers(c.op, h, h)
      BY <1>10 DEF Exec, Untouched
    <2> QED BY <1>6, <1>10, <2>1
  <1> QED BY <1>0, <1>2, <1>3, <1>4, <1>5, <1>7, <1>8, <1>9, <1>10 DEF Ops

LEMMA ExecTakes ==
    ASSUME HostAssumption, NEW h \in HostType, NEW c \in Call, c.op = "destroy_site",
           NEW r \in Exec(h, c)
    PROVE  \/ r.host = h /\ ~r.ok /\ ~DestroysAll
           \/ r.ok /\ Takes(r.host, h, c)
  <1> DEFINE gone == [accounts |-> h.accounts \ {c.user},
                      pools    |-> h.pools \ {c.user},
                      vhosts   |-> [h.vhosts EXCEPT ![c.domain] = NoUser],
                      dbs      |-> IF c.db THEN [h.dbs EXCEPT ![DBNameOf[c.user]] = NoUser]
                                   ELSE h.dbs,
                      certs    |-> IF DryRun THEN h.certs \ {c.domain} ELSE h.certs,
                      flags    |-> IF DryRun THEN h.flags \ {c.domain} ELSE h.flags]
             kept == [gone EXCEPT !.accounts = h.accounts]
  <1>1. r \in DestroySite(h, c)
    BY DEF Exec
  <1>2. \/ r = Done(gone)
        \/ r = Failed(h) /\ "destroy_site" \in FailingOps
        \/ r = Done(kept) /\ "userdel" \in FailingOps
    BY <1>1 DEF DestroySite
  <1>3. Takes(gone, h, c)
    BY DEF Takes
  <1>4. "userdel" \in FailingOps => Takes(kept, h, c)
    BY DEF Takes, DestroysAll
  <1> HIDE DEF gone, kept
  <1>5. CASE r = Done(gone)
    BY <1>3, <1>5 DEF Done
  <1>6. CASE r = Failed(h) /\ "destroy_site" \in FailingOps
    BY <1>6 DEF Failed, DestroysAll
  <1>7. CASE r = Done(kept) /\ "userdel" \in FailingOps
    BY <1>4, <1>7 DEF Done
  <1> QED BY <1>2, <1>5, <1>6, <1>7

------------------------------------------------------------------------------
(* Copies are up to date, and accounts belong to their domain.             *)

(* A call of the agent is answered before its request goes on.             *)
LEMMA AskInTurn ==
    ASSUME InTurn, NEW p \in Procs, NEW yes, NEW no, Ask(p, yes, no)
    PROVE  /\ late' = late
           /\ \E r \in Exec(host, CallOf(req[p])) :
                 host' = r.host /\ req' = [req EXCEPT ![p] = IF r.ok THEN yes ELSE no]
  BY DEF Ask, InTurn

(* What a step of a request means for its copy.                            *)
CopyStep(p) ==
    /\ \A q \in Procs : q # p => req'[q] = req[q]
    /\ req'[p].pc \in CopyPCs =>
          /\ req'[p].row = req[p].row /\ req'[p].id = req[p].id
          /\ req[p].pc \in CopyPCs /\ sites' = sites
    /\ req'[p].pc = "insert" => NamedFor(req'[p].row)
    /\ late' = late

LEMMA CopyGoes ==
    ASSUME req \in [Procs -> Request], NEW p \in Procs, NEW x, req' = [req EXCEPT ![p] = x],
           x.pc \notin CopyPCs \cup {"insert"}, late' = late
    PROVE  CopyStep(p)
  BY DEF CopyStep

LEMMA ServeCopy ==
    ASSUME Assumptions, InTurn, TurnInv, NEW p \in Procs, Serve(p)
    PROVE  CopyStep(p)
  <1>0. /\ req \in [Procs -> Request] /\ IndInv /\ req[p] \in Request
        /\ Idle.pc \notin CopyPCs \cup {"insert"}
    BY DEF TurnInv, LoneInv, IndInv, TypeOK, Idle, CopyPCs
  <1>1. CASE Redestroy(p)
    <2> DEFINE x == [req[p] EXCEPT !.pc = "drop"]
    <2>1. req' = [req EXCEPT ![p] = x] /\ late' = late /\ sites' = sites
      BY <1>1, AskInTurn DEF Redestroy
    <2>2. x.pc = "drop" /\ x.row = req[p].row /\ x.id = req[p].id
      BY <1>0 DEF Request
    <2> HIDE DEF x
    <2> QED BY <1>0, <1>1, <2>1, <2>2 DEF CopyStep, Redestroy, CopyPCs
  <1>2. CASE DropRow(p)
    <2> DEFINE x == [req[p] EXCEPT !.pc = "admit", !.id = NoId,
                                   !.row = Draft(req[p].row.domain, req[p].app)]
    <2>1. (req' = [req EXCEPT ![p] = x] \/ req' = [req EXCEPT ![p] = Idle]) /\ late' = late
      BY <1>2 DEF DropRow
    <2>2. x.pc = "admit" /\ "admit" \notin CopyPCs \cup {"insert"}
      BY <1>0 DEF Request, CopyPCs
    <2> HIDE DEF x
    <2> QED BY <1>0, <2>1, <2>2, CopyGoes
  <1>3. CASE Refuse(p) \/ MarkError(p) \/ Activate(p) \/ SaveEdit(p)
    <2>1. req' = [req EXCEPT ![p] = Idle] /\ late' = late
      BY <1>3 DEF Refuse, MarkError, Activate, SaveEdit
    <2> QED BY <1>0, <2>1, CopyGoes
  <1>8. CASE TryBase(p)
    <2> DEFINE x == [req[p] EXCEPT !.pc = "suffix"]
    <2>1. req' = [req EXCEPT ![p] = x] /\ x.pc = "suffix" /\ late' = late
      BY <1>0, <1>8 DEF TryBase, Request
    <2>2. "suffix" \notin CopyPCs \cup {"insert"}
      BY DEF CopyPCs
    <2> HIDE DEF x
    <2> QED BY <1>0, <2>1, <2>2, CopyGoes
  <1>4. CASE PickUser(p)
    <2>1. PICK u \in Names[req[p].row.domain], i \in FreshIds :
             req' = [req EXCEPT ![p].pc = "insert", ![p].id = i,
                                ![p].row = [@ EXCEPT !.status = "provisioning", !.user = u]]
      BY <1>4 DEF PickUser
    <2> DEFINE y == [req[p].row EXCEPT !.status = "provisioning", !.user = u]
               x == [req[p] EXCEPT !.pc = "insert", !.id = i, !.row = y]
    <2>2. y.domain = req[p].row.domain /\ y.user = u
      BY <1>0 DEF Request, Row
    <2>3. req' = [req EXCEPT ![p] = x] /\ late' = late
      BY <1>0, <1>4, <2>1 DEF PickUser
    <2> HIDE DEF y
    <2>4. x.pc = "insert" /\ x.row = y
      BY <1>0 DEF Request
    <2> HIDE DEF x
    <2> QED BY <1>0, <2>2, <2>3, <2>4 DEF CopyStep, CopyPCs, NamedFor
  <1>5. CASE InsertRow(p)
    <2> DEFINE x == [req[p] EXCEPT !.pc = "create_site_user"]
    <2>1. (req' = [req EXCEPT ![p] = Idle] \/ req' = [req EXCEPT ![p] = x]) /\ late' = late
      BY <1>0, <1>5 DEF InsertRow
    <2>2. x.pc \notin CopyPCs \cup {"insert"}
      BY <1>0 DEF Request, CopyPCs
    <2> HIDE DEF x
    <2> QED BY <1>0, <2>1, <2>2, CopyGoes
  <1>6. CASE BuildStep(p)
    <2> DEFINE x == [req[p] EXCEPT !.pc = "mark_error"]
    <2>1. /\ req' = [req EXCEPT ![p] = Advance(req[p])] \/ req' = [req EXCEPT ![p] = x]
          /\ late' = late
      BY <1>6, AskInTurn DEF BuildStep, GiveUp
    <2>2. x.pc \notin CopyPCs \cup {"insert"}
      BY <1>0 DEF Request, CopyPCs
    <2>3. Advance(req[p]).pc \notin CopyPCs \cup {"insert"}
      BY <1>0, AdvanceTyped DEF Request, CopyPCs, BuildSteps
    <2> HIDE DEF x
    <2> QED BY <1>0, <2>1, <2>2, <2>3, CopyGoes
  <1>7. CASE Destroy(p) \/ EditCall(p)
    <2>1. PICK pc \in {"drop", "save"} :
             \/ req' = [req EXCEPT ![p] = [req[p] EXCEPT !.pc = pc]]
             \/ req' = [req EXCEPT ![p] = Idle]
      BY <1>7, AskInTurn DEF Destroy, EditCall
    <2>2. late' = late /\ sites' = sites /\ req[p].pc \in CopyPCs
      BY <1>7, AskInTurn DEF Destroy, EditCall, CopyPCs
    <2> DEFINE x == [req[p] EXCEPT !.pc = pc]
    <2>3. x.pc = pc /\ x.row = req[p].row /\ x.id = req[p].id
      BY <1>0 DEF Request
    <2> HIDE DEF x
    <2>4. CASE req' = [req EXCEPT ![p] = x]
      BY <1>0, <2>2, <2>3, <2>4 DEF CopyStep
    <2>5. CASE req' = [req EXCEPT ![p] = Idle]
      BY <1>0, <2>2, <2>5, CopyGoes
    <2> QED BY <2>1, <2>4, <2>5 DEF x
  <1> QED BY <1>1, <1>2, <1>3, <1>4, <1>5, <1>6, <1>7, <1>8 DEF Serve

LEMMA TurnServe ==
    ASSUME Assumptions, InTurn, TurnInv, LoneInv', SitesStep, NEW p \in Procs, Serve(p)
    PROVE  TurnInv'
  <1>0. CopyStep(p)
    BY ServeCopy
  <1>1. sites' = sites \/ (req[p].pc \in HoldPCs \cup {"insert"} /\ Alters(p))
    BY AsServed DEF ServesAs, TurnInv
  <1>2. Busy(p)
    BY DEF Busy, Serve, Redestroy, DropRow, Refuse, TryBase, PickUser,
       InsertRow, BuildStep, MarkError, Activate, Destroy, EditCall, SaveEdit, BuildSteps
  <1>3. ASSUME NEW q \in Procs PROVE CopyOK(sites', req'[q])
    <2>1. CASE q = p
      BY <1>0, <2>1 DEF CopyStep, CopyOK, TurnInv
    <2>2. CASE q # p /\ req[q].pc \in CopyPCs
      <3>1. req'[q] = req[q] /\ sites[req[q].id] = req[q].row
        BY <1>0, <2>2 DEF CopyStep, TurnInv, CopyOK
      <3>2. sites'[req[q].id] = sites[req[q].id]
        BY <1>1, <1>2, <2>2, RowsApart DEF TurnInv, HoldPCs, CopyPCs
      <3> QED BY <3>1, <3>2 DEF CopyOK
    <2>3. CASE q # p /\ req[q].pc \notin CopyPCs
      BY <1>0, <2>3 DEF CopyStep, CopyOK
    <2> QED BY <2>1, <2>2, <2>3
  <1>4. \A q \in Procs : req'[q].pc = "insert" => NamedFor(req'[q].row)
    BY <1>0 DEF CopyStep, TurnInv
  <1>5. ASSUME NEW i \in Ids, sites'[i].status # "free" PROVE NamedFor(sites'[i])
    <2>1. CASE sites'[i] = sites[i]
      BY <1>5, <2>1 DEF TurnInv
    <2>2. CASE Rewritten(i)
      <3>1. sites[i].status # "free"
        BY <2>2 DEF Rewritten, Live, LiveStatus
      <3> QED BY <2>2, <3>1 DEF Rewritten, TurnInv, NamedFor
    <2>3. CASE Inserted(i) /\ sites'[i] # sites[i]
      <3>1. i = req[p].id
        BY <1>1, <2>3 DEF Alters
      <3>2. req[p].pc = "insert"
        <4>1. req[p].pc \notin HoldPCs
          BY <2>3, <3>1, Copy DEF Inserted, TurnInv, LoneInv, IndInv, RequestInv, RequestOK,
             HoldOK
        <4> QED BY <1>1, <2>3, <4>1
      <3>3. InsertRow(p)
        BY <3>2 DEF Serve, Redestroy, DropRow, Refuse, TryBase, PickUser, BuildStep, MarkError,
           Activate, Destroy, EditCall, SaveEdit, BuildSteps
      <3>4. sites'[i] = req[p].row
        BY <2>3, <3>1, <3>3 DEF InsertRow, TurnInv, LoneInv, IndInv, TypeOK
      <3> QED BY <3>2, <3>4 DEF TurnInv
    <2> QED BY <2>1, <2>2, <2>3 DEF SitesStep
  <1> QED BY <1>0, <1>3, <1>4, <1>5 DEF TurnInv, CopyStep

LEMMA TurnStep ==
    ASSUME Assumptions, InTurn, TurnInv, [Next]_vars
    PROVE  TurnInv'
  <1>0. /\ LoneInv' /\ SitesStep /\ req \in [Procs -> Request]
        /\ Idle.pc \notin CopyPCs \cup {"insert"}
    BY LoneStep, TableStep DEF TurnInv, LoneInv, IndInv, TypeOK, InTurn, Idle, CopyPCs
  <1>1. ASSUME NEW p \in Procs, NEW x, req' = [req EXCEPT ![p] = x], UNCHANGED <<sites, late>>,
               CopyOK(sites, x), x.pc # "insert"
        PROVE  TurnInv'
    <2>1. \A q \in Procs : req'[q] = IF q = p THEN x ELSE req[q]
      BY <1>0, <1>1
    <2> QED BY <1>0, <1>1, <2>1 DEF TurnInv
  <1>2. ASSUME NEW p \in Procs, NEW d \in Domains, NEW a \in Apps, Lookup(p, d, a)
        PROVE  TurnInv'
    <2> DEFINE y == [pc |-> "admit", kind |-> "create", id |-> NoId, row |-> Draft(d, a),
                     app |-> a]
               z(i) == [pc |-> "redestroy", kind |-> "create", id |-> i, row |-> sites[i],
                        app |-> a]
    <2>1. /\ UNCHANGED <<sites, late>>
          /\ req' = [req EXCEPT ![p] = y] \/ \E i \in Ids : req' = [req EXCEPT ![p] = z(i)]
      BY <1>2 DEF Lookup
    <2>2. y.pc = "admit" /\ \A i \in Ids : z(i).pc = "redestroy" /\ z(i).row = sites[i] /\ z(i).id = i
      OBVIOUS
    <2> HIDE DEF y, z
    <2> QED BY <1>1, <2>1, <2>2 DEF CopyOK, CopyPCs
  <1>3. ASSUME NEW p \in Procs, NEW i \in Ids, NEW k \in Kinds, ReadSite(p, i, k)
        PROVE  TurnInv'
    <2> DEFINE x == [pc |-> IF k = "delete" THEN "destroy" ELSE "edit", kind |-> k,
                     id |-> i, row |-> sites[i], app |-> sites[i].app]
    <2>1. req' = [req EXCEPT ![p] = x] /\ UNCHANGED <<sites, late>>
      BY <1>3 DEF ReadSite
    <2>2. x.pc \in {"destroy", "edit"} /\ x.row = sites[i] /\ x.id = i
      OBVIOUS
    <2> HIDE DEF x
    <2> QED BY <1>1, <2>1, <2>2 DEF CopyOK
  <1>4. CASE Crash
    <2>1. late' = {}
      BY <1>4 DEF Crash, TurnInv, InTurn
    <2>2. sites' = sites /\ \A p \in Procs : req'[p] = Idle
      BY <1>4 DEF Crash
    <2> QED BY <1>0, <2>1, <2>2 DEF TurnInv, CopyOK
  <1>5. CASE RunLate
    BY <1>5 DEF RunLate, TurnInv
  <1>6. CASE UNCHANGED vars
    BY <1>0, <1>6 DEF vars, TurnInv
  <1> QED BY <1>0, <1>2, <1>3, <1>4, <1>5, <1>6, TurnServe DEF Next

------------------------------------------------------------------------------
(* Nothing on the machine is unknown to the table.                         *)

HostUsePCs == BuildPCs \cup {"edit", "save"}

(* The row of a request that builds or edits is there to stay.             *)
LEMMA HomeSettled ==
    ASSUME TurnInv, NEW p \in Procs, req[p].pc \in HostUsePCs
    PROVE  /\ req[p].id \in Ids /\ Settled(req[p].id)
           /\ sites[req[p].id].user = req[p].row.user
           /\ sites[req[p].id].domain = req[p].row.domain
  <1>1. req[p].pc \in HoldPCs /\ req[p].pc # "drop" /\ Busy(p)
    BY DEF HostUsePCs, BuildPCs, HoldPCs, BuildSteps, Busy
  <1>2. /\ req[p].id \in Ids /\ sites[req[p].id].user = req[p].row.user
        /\ sites[req[p].id].domain = req[p].row.domain /\ req[p].row.status \in LiveStatus
    BY <1>1, Copy DEF TurnInv, LoneInv
  <1>3. Live(req[p].id)
    <2>1. CASE req[p].pc \in BuildPCs
      BY <2>1 DEF TurnInv, LoneInv, FreshRow, Live, LiveStatus
    <2>2. CASE req[p].pc \in {"edit", "save"}
      BY <1>2, <2>2 DEF TurnInv, CopyOK, CopyPCs, Live
    <2> QED BY <2>1, <2>2 DEF HostUsePCs
  <1>4. ASSUME NEW q \in Procs, req[q].id = req[p].id, req[q].pc = "drop"
        PROVE  FALSE
    <2>1. req[q].row.domain = req[p].row.domain
      BY <1>2, <1>4, Copy DEF TurnInv, LoneInv, HoldPCs
    <2>2. q = p
      BY <1>1, <1>4, <2>1 DEF TurnInv, LoneInv, Lone, Busy
    <2> QED BY <1>1, <1>4, <2>2
  <1> QED BY <1>2, <1>3, <1>4 DEF Settled

LEMMA LiveKept ==
    ASSUME Assumptions, TurnInv, NEW p \in Procs, Serve(p), NEW i \in Ids, Settled(i)
    PROVE  Live(i)'
  <1>0. sites \in [Ids -> Row] /\ Live(i) /\ IndInv
    BY DEF TurnInv, LoneInv, IndInv, TypeOK, Settled
  <1>1. ASSUME NEW j \in Ids, NEW row \in Row, row.status \in LiveStatus, UpdateSite(j, row)
        PROVE  Live(i)'
    BY <1>0, <1>1 DEF UpdateSite, Live
  <1>2. CASE MarkError(p) \/ Activate(p)
    BY <1>0, <1>1, <1>2, Copy, MarkedCopy DEF MarkError, Activate, HoldPCs, SavableAs, LiveStatus
  <1>3. CASE SaveEdit(p)
    BY <1>0, <1>1, <1>3, Copy, EditedCopy DEF SaveEdit, HoldPCs, SavableAs
  <1>4. CASE DropRow(p)
    BY <1>0, <1>4 DEF DropRow, DeleteSite, Live, Settled
  <1>5. CASE InsertRow(p)
    <2>1. sites' = sites \/ sites' = [sites EXCEPT ![req[p].id] = req[p].row]
      BY <1>5 DEF InsertRow
    <2>2. req[p].row.status = "provisioning"
      BY <1>0, <1>5 DEF InsertRow, IndInv, RequestInv, RequestOK, InsertOK
    <2> QED BY <1>0, <2>1, <2>2 DEF Live, LiveStatus
  <1>6. CASE sites' = sites
    BY <1>0, <1>6 DEF Live
  <1> QED BY <1>2, <1>3, <1>4, <1>5, <1>6
          DEF Serve, Redestroy, Refuse, TryBase, PickUser, BuildStep, Destroy, EditCall

(* A row stays settled unless its own request goes on to delete it.        *)
LEMMA SettledKept ==
    ASSUME Assumptions, TurnInv, NEW p \in Procs, Serve(p), NEW i \in Ids, Settled(i),
           req'[p].pc = "drop" => req'[p].id # i
    PROVE  Settled(i)' /\ sites'[i].user = sites[i].user /\ sites'[i].domain = sites[i].domain
  <1>1. Live(i)'
    BY LiveKept
  <1>2. \A q \in Procs : q # p => req'[q] = req[q]
    <2>1. PICK x : ServesAs(p, x)
      BY AsServed DEF TurnInv
    <2> QED BY <2>1 DEF ServesAs, Proceeds, TurnInv, LoneInv, IndInv, TypeOK
  <1>3. sites'[i].user = sites[i].user /\ sites'[i].domain = sites[i].domain
    <2>1. SitesStep
      BY TableStep DEF TurnInv, LoneInv, Next
    <2>2. sites[i].status # "free"
      BY DEF Settled, Live, LiveStatus
    <2> QED BY <2>1, <2>2, ClaimsKept
  <1> QED BY <1>1, <1>2, <1>3 DEF Settled

(* The machine is as before, and so are the rows on it.                    *)
LEMMA FoundSame ==
    ASSUME FoundInv, UNCHANGED host,
           \A i \in Ids : Settled(i) => /\ Settled(i)' /\ sites'[i].user = sites[i].user
                                        /\ sites'[i].domain = sites[i].domain
    PROVE  FoundInv'
  BY DEF FoundInv

(* What is new on the machine belongs to the row of the request.           *)
LEMMA FoundAdds ==
    ASSUME TurnInv, FoundInv, NEW p \in Procs, req[p].pc \in HostUsePCs,
           Adds(host', host, CallOf(req[p])),
           \A i \in Ids : Settled(i) => /\ Settled(i)' /\ sites'[i].user = sites[i].user
                                        /\ sites'[i].domain = sites[i].domain
    PROVE  FoundInv'
  <1>0. CallOf(req[p]).user = req[p].row.user /\ CallOf(req[p]).domain = req[p].row.domain
    BY DEF CallOf
  <1>1. /\ req[p].id \in Ids /\ Settled(req[p].id)
        /\ sites[req[p].id].user = CallOf(req[p]).user
        /\ sites[req[p].id].domain = CallOf(req[p]).domain
    BY <1>0, HomeSettled
  <1>2. host \in HostType /\ host.vhosts \in [Domains -> Users \cup {NoUser}]
    BY DEF TurnInv, LoneInv, IndInv, TypeOK, HostType
  <1>3. ASSUME NEW u \in host'.accounts \cup host'.pools
        PROVE  \E i \in Ids : Settled(i)' /\ sites'[i].user = u
    BY <1>1, <1>3 DEF Adds, FoundInv
  <1>4. ASSUME NEW d \in Domains, host'.vhosts[d] # NoUser
        PROVE  \E i \in Ids : /\ Settled(i)' /\ sites'[i].domain = d
                              /\ sites'[i].user = host'.vhosts[d]
    <2>1. CASE host'.vhosts[d] = host.vhosts[d]
      BY <1>4, <2>1 DEF FoundInv
    <2>2. CASE d = CallOf(req[p]).domain /\ host'.vhosts[d] = CallOf(req[p]).user
      BY <1>1, <2>2
    <2> QED BY <1>2, <2>1, <2>2 DEF Adds
  <1> QED BY <1>3, <1>4 DEF FoundInv

(* A deletion leaves nothing that only its row accounted for.              *)
LEMMA FoundTakes ==
    ASSUME TurnInv, FoundInv, DestroysAll, NEW p \in Procs,
           req[p].pc \in {"destroy", "redestroy"},
           Takes(host', host, CallOf(req[p])),
           \A i \in Ids : Settled(i) /\ i # req[p].id =>
                /\ Settled(i)' /\ sites'[i].user = sites[i].user
                /\ sites'[i].domain = sites[i].domain
    PROVE  FoundInv'
  <1>0. CallOf(req[p]).user = req[p].row.user /\ CallOf(req[p]).domain = req[p].row.domain
    BY DEF CallOf
  <1>1. /\ sites[req[p].id].user = CallOf(req[p]).user
        /\ sites[req[p].id].domain = CallOf(req[p]).domain
    BY <1>0, Copy DEF TurnInv, LoneInv, HoldPCs
  <1>2. host \in HostType /\ host.vhosts \in [Domains -> Users \cup {NoUser}]
    BY DEF TurnInv, LoneInv, IndInv, TypeOK, HostType
  <1>3. ASSUME NEW u \in host'.accounts \cup host'.pools
        PROVE  \E i \in Ids : Settled(i)' /\ sites'[i].user = u
    <2>1. u \in host.accounts \cup host.pools /\ u # CallOf(req[p]).user
      BY <1>3 DEF Takes
    <2>2. PICK i \in Ids : Settled(i) /\ sites[i].user = u
      BY <2>1 DEF FoundInv
    <2> QED BY <1>1, <2>1, <2>2
  <1>4. ASSUME NEW d \in Domains, host'.vhosts[d] # NoUser
        PROVE  \E i \in Ids : /\ Settled(i)' /\ sites'[i].domain = d
                              /\ sites'[i].user = host'.vhosts[d]
    <2>1. host'.vhosts[d] = host.vhosts[d] /\ d # CallOf(req[p]).domain
      BY <1>2, <1>4 DEF Takes
    <2>2. PICK i \in Ids : Settled(i) /\ sites[i].domain = d /\ sites[i].user = host.vhosts[d]
      BY <1>4, <2>1 DEF FoundInv
    <2> QED BY <1>1, <2>1, <2>2
  <1> QED BY <1>3, <1>4 DEF FoundInv

(* What a step of a request does to the machine.                           *)
LeavesHost(p) == UNCHANGED host /\ req'[p].pc # "drop"

AddsToHost(p) ==
    /\ req[p].pc \in HostUsePCs /\ Calling(req[p])
    /\ req'[p].pc # "drop" /\ UNCHANGED sites
    /\ Adds(host', host, CallOf(req[p]))

Leaving(p) ==
    /\ req[p].pc \in {"destroy", "redestroy"} /\ UNCHANGED sites
    /\ req'[p].pc = "drop" => req'[p].id = req[p].id

TakesFromHost(p) ==
    Leaving(p) /\ req'[p].pc = "drop" /\ Takes(host', host, CallOf(req[p]))

FailsToTake(p) == Leaving(p) /\ UNCHANGED host /\ ~DestroysAll

LEMMA ServeHost ==
    ASSUME Assumptions, InTurn, TurnInv, NEW p \in Procs, Serve(p)
    PROVE  LeavesHost(p) \/ AddsToHost(p) \/ TakesFromHost(p) \/ FailsToTake(p)
  <1>0. /\ req \in [Procs -> Request] /\ req[p] \in Request /\ IndInv /\ host \in HostType
        /\ Idle.pc = "idle" /\ HostAssumption
    BY DEF TurnInv, LoneInv, IndInv, TypeOK, Idle, Assumptions
  <1>1. CASE Redestroy(p) \/ Destroy(p)
    <2> DEFINE x == [req[p] EXCEPT !.pc = "drop"]
               c == CallOf(req[p])
    <2>1. PICK r \in Exec(host, c) :
             /\ host' = r.host
             /\ req' = [req EXCEPT ![p] = x] \/ (~r.ok /\ req' = [req EXCEPT ![p] = Idle])
      <3>1. CASE Redestroy(p)
        BY <3>1, AskInTurn DEF Redestroy
      <3>2. CASE Destroy(p)
        BY <3>2, AskInTurn DEF Destroy
      <3> QED BY <1>1, <3>1, <3>2
    <2>2. c \in Call /\ c.op = "destroy_site" /\ req[p].pc \in {"destroy", "redestroy"}
      BY <1>0, <1>1, CallSound DEF Redestroy, Destroy, Calling, CallOf, OpOf
    <2>3. \/ r.host = host /\ ~r.ok /\ ~DestroysAll
          \/ r.ok /\ Takes(r.host, host, c)
      BY <1>0, <2>2, ExecTakes
    <2>4. x.pc = "drop" /\ x.id = req[p].id
      BY <1>0 DEF Request
    <2> HIDE DEF x
    <2>5. Leaving(p)
      BY <1>0, <1>1, <2>1, <2>2, <2>4 DEF Leaving, Redestroy, Destroy
    <2>6. r.ok => req'[p].pc = "drop"
      BY <1>0, <2>1, <2>4
    <2> QED BY <2>1, <2>3, <2>5, <2>6 DEF TakesFromHost, FailsToTake
  <1>2. CASE BuildStep(p) \/ EditCall(p)
    <2>1. /\ req[p].pc \in HostUsePCs /\ Calling(req[p]) /\ UNCHANGED sites
          /\ req[p].pc \in BuildSteps \/ req[p].pc = "edit"
      BY <1>2 DEF BuildStep, EditCall, HostUsePCs, BuildPCs, Calling
    <2>2. CallOf(req[p]) \in Call
      BY <1>0, <2>1, CallSound
    <2>3. CallOf(req[p]).op # "destroy_site"
      <3>1. EditOK(req[p])
        BY <1>0 DEF IndInv, RequestInv, RequestOK
      <3> QED BY <2>1, <3>1 DEF CallOf, OpOf, BuildSteps, EditOK, RowKinds
    <2>4. PICK r \in Exec(host, CallOf(req[p])) : host' = r.host
      BY <1>2, AskInTurn DEF BuildStep, EditCall
    <2>5. Adds(host', host, CallOf(req[p]))
      BY <1>0, <2>2, <2>3, <2>4, ExecAdds
    <2>6. req'[p].pc # "drop"
      <3>1. CASE BuildStep(p)
        BY <1>0, <3>1, AskInTurn, AdvanceTyped DEF BuildStep, GiveUp, BuildSteps, Request
      <3>2. CASE EditCall(p)
        BY <1>0, <3>2, AskInTurn DEF EditCall, Request
      <3> QED BY <1>2, <3>1, <3>2
    <2> QED BY <2>1, <2>5, <2>6 DEF AddsToHost
  <1>3. CASE Refuse(p) \/ MarkError(p) \/ Activate(p) \/ SaveEdit(p)
    BY <1>0, <1>3 DEF Refuse, MarkError, Activate, SaveEdit, LeavesHost
  <1>4. CASE DropRow(p)
    BY <1>0, <1>4 DEF DropRow, LeavesHost, Request
  <1>7. CASE TryBase(p)
    BY <1>0, <1>7 DEF TryBase, LeavesHost, Request
  <1>5. CASE PickUser(p)
    BY <1>0, <1>5 DEF PickUser, LeavesHost, Request
  <1>6. CASE InsertRow(p)
    BY <1>0, <1>6 DEF InsertRow, LeavesHost, Request
  <1> QED BY <1>1, <1>2, <1>3, <1>4, <1>5, <1>6, <1>7 DEF Serve

(* A request that has just been received, or that a crash ends, touches    *)
(* neither the machine nor a row.                                          *)
LEMMA Arrives ==
    ASSUME TurnInv, NEW p \in Procs, NEW x, req' = [req EXCEPT ![p] = x], x.pc # "drop",
           UNCHANGED sites, NEW i \in Ids, Settled(i)
    PROVE  Settled(i)'
  <1>1. \A q \in Procs : req'[q] = IF q = p THEN x ELSE req[q]
    BY DEF TurnInv, LoneInv, IndInv, TypeOK
  <1> QED BY <1>1 DEF Settled, Live

LEMMA Received ==
    ASSUME NEW p \in Procs,
           \/ \E d \in Domains, a \in Apps : Lookup(p, d, a)
           \/ \E i \in Ids, k \in Kinds : ReadSite(p, i, k)
    PROVE  /\ UNCHANGED <<sites, host, late, crashes>> /\ req[p].pc = "idle"
           /\ \E x : /\ req' = [req EXCEPT ![p] = x]
                     /\ x.pc \notin {"drop"} \cup BuildPCs
  <1>1. ASSUME NEW d \in Domains, NEW a \in Apps, Lookup(p, d, a)
        PROVE  \E x : req' = [req EXCEPT ![p] = x] /\ x.pc \notin {"drop"} \cup BuildPCs
    <2> DEFINE y == [pc |-> "admit", kind |-> "create", id |-> NoId, row |-> Draft(d, a),
                     app |-> a]
               z(i) == [pc |-> "redestroy", kind |-> "create", id |-> i, row |-> sites[i],
                        app |-> a]
    <2>1. req' = [req EXCEPT ![p] = y] \/ \E i \in Ids : req' = [req EXCEPT ![p] = z(i)]
      BY <1>1 DEF Lookup
    <2>2. y.pc = "admit" /\ \A i \in Ids : z(i).pc = "redestroy"
      OBVIOUS
    <2> HIDE DEF y, z
    <2> QED BY <2>1, <2>2 DEF BuildPCs, BuildSteps
  <1>2. ASSUME NEW i \in Ids, NEW k \in Kinds, ReadSite(p, i, k)
        PROVE  \E x : req' = [req EXCEPT ![p] = x] /\ x.pc \notin {"drop"} \cup BuildPCs
    <2> DEFINE x == [pc |-> IF k = "delete" THEN "destroy" ELSE "edit", kind |-> k,
                     id |-> i, row |-> sites[i], app |-> sites[i].app]
    <2>1. req' = [req EXCEPT ![p] = x] /\ x.pc \in {"destroy", "edit"}
      BY <1>2 DEF ReadSite
    <2> HIDE DEF x
    <2> QED BY <2>1 DEF BuildPCs, BuildSteps
  <1> QED BY <1>1, <1>2 DEF Lookup, ReadSite

LEMMA FoundStep ==
    ASSUME Assumptions, InTurn, DestroysAll, TurnInv, FoundInv, [Next]_vars
    PROVE  FoundInv'
  <1>1. ASSUME NEW p \in Procs, Serve(p)
        PROVE  FoundInv'
    <2>1. LeavesHost(p) \/ AddsToHost(p) \/ TakesFromHost(p)
      BY <1>1, ServeHost DEF FailsToTake
    <2>2. CASE LeavesHost(p)
      BY <1>1, <2>2, SettledKept, FoundSame DEF LeavesHost
    <2>3. CASE AddsToHost(p)
      BY <1>1, <2>3, SettledKept, FoundAdds DEF AddsToHost
    <2>4. CASE TakesFromHost(p)
      BY <1>1, <2>4, SettledKept, FoundTakes DEF TakesFromHost, Leaving
    <2> QED BY <2>1, <2>2, <2>3, <2>4
  <1>2. ASSUME NEW p \in Procs,
               \/ \E d \in Domains, a \in Apps : Lookup(p, d, a)
               \/ \E i \in Ids, k \in Kinds : ReadSite(p, i, k)
        PROVE  FoundInv'
    BY <1>2, Received, Arrives, FoundSame
  <1>3. CASE Crash
    <2>1. UNCHANGED <<sites, host>> /\ \A p \in Procs : req'[p].pc = "idle"
      BY <1>3 DEF Crash, Idle
    <2> QED BY <2>1, FoundSame DEF Settled, Live
  <1>4. CASE RunLate
    BY <1>4 DEF RunLate, TurnInv
  <1>5. CASE UNCHANGED vars
    BY <1>5, FoundSame DEF vars, Settled, Live
  <1> QED BY <1>1, <1>2, <1>3, <1>4, <1>5 DEF Next

LEMMA TurnStart == Assumptions /\ Init => TurnInv /\ FoundInv
  <1> SUFFICES ASSUME Assumptions, Init PROVE TurnInv /\ FoundInv
    OBVIOUS
  <1>1. IndInv /\ \A p \in Procs : req[p] = Idle
    BY InitInv DEF Init
  <1>2. LoneInv
    BY <1>1, IdleFresh DEF LoneInv, Lone, Busy
  <1>3. Idle.pc \notin CopyPCs \cup {"insert"} /\ NoRow.status = "free"
    BY DEF Idle, CopyPCs, NoRow, Draft
  <1> QED BY <1>1, <1>2, <1>3 DEF Init, TurnInv, CopyOK, FoundInv, EmptyHost

(* However requests on different domains, failures and crashes interleave, *)
(* a deletion or a new order finds everything that is on the machine:      *)
(* provisionSite inserts the row before it creates anything, and           *)
(* handleDeleteSite deletes it only after destroy_site.                    *)
THEOREM NothingUnknown == Assumptions /\ InTurn /\ DestroysAll => (Spec => []NoOrphans)
  <1> SUFFICES ASSUME Assumptions, InTurn, DestroysAll PROVE Spec => []NoOrphans
    OBVIOUS
  <1>1. Init => TurnInv /\ FoundInv
    BY TurnStart
  <1>2. TurnInv /\ FoundInv /\ [Next]_vars => (TurnInv /\ FoundInv)'
    BY TurnStep, FoundStep
  <1>3. TurnInv /\ FoundInv => NoOrphans
    BY DEF FoundInv, NoOrphans, LinuxUserTaken, Settled
  <1> QED BY <1>1, <1>2, <1>3, PTL DEF Spec

------------------------------------------------------------------------------
(* A site that is shown as working has all of its pieces, for requests     *)
(* that overlap in any way.                                                *)

(* Whatever account v has on h for domain e, it has on g.                  *)
KeepsPieces(g, h, v, e) ==
    /\ v \in h.accounts => v \in g.accounts
    /\ v \in h.pools => v \in g.pools
    /\ h.vhosts[e] = v => g.vhosts[e] = v
    /\ h.dbs[DBNameOf[v]] = v => g.dbs[DBNameOf[v]] = v

(* A call that does not harm a site leaves it its pieces, and so does one  *)
(* for this very site that is not destroy_site.                            *)
LEMMA HarmlessKeeps ==
    ASSUME HostAssumption, NEW h \in HostType, NEW c \in Call, NEW r \in Exec(h, c), NEW row,
           row.user \in Users, row.domain \in Domains,
           \/ ~Harms(c, row)
           \/ c.op # "destroy_site" /\ c.user = row.user /\ c.domain = row.domain
    PROVE  KeepsPieces(r.host, h, row.user, row.domain)
  <1>0. /\ c.user \in Users /\ c.domain \in Domains
        /\ h.vhosts \in [Domains -> Users \cup {NoUser}] /\ h.dbs \in [DBNames -> Users \cup {NoUser}]
        /\ DBNameOf \in [Users -> DBNames]
    BY DEF Call, HostType, HostAssumption
  <1>1. CASE c.op # "destroy_site"
    <2>1. Adds(r.host, h, c)
      BY <1>1, ExecAdds
    <2>2. h.vhosts[row.domain] = row.user => r.host.vhosts[row.domain] = row.user
      BY <1>0, <2>1 DEF Adds, Harms
    <2>3. h.dbs[DBNameOf[row.user]] = row.user => r.host.dbs[DBNameOf[row.user]] = row.user
      BY <1>0, <2>1 DEF Adds, Harms
    <2> QED BY <2>1, <2>2, <2>3 DEF Adds, KeepsPieces
  <1>2. CASE c.op = "destroy_site"
    <2>1. /\ c.user # row.user /\ c.domain # row.domain
          /\ DBNameOf[c.user] # DBNameOf[row.user]
      BY <1>2 DEF Harms
    <2>2. CASE r.host = h
      BY <2>2 DEF KeepsPieces
    <2>3. CASE Takes(r.host, h, c)
      <3>1. r.host.vhosts[row.domain] = h.vhosts[row.domain]
        BY <1>0, <2>1, <2>3 DEF Takes
      <3>2. r.host.dbs[DBNameOf[row.user]] = h.dbs[DBNameOf[row.user]]
        BY <1>0, <2>1, <2>3 DEF Takes
      <3> QED BY <2>1, <2>3, <3>1, <3>2 DEF Takes, KeepsPieces
    <2> QED BY <1>2, <2>2, <2>3, ExecTakes
  <1> QED BY <1>1, <1>2

(* The step of a build that went well adds what the next one counts on.    *)
LEMMA AdvancedRow ==
    ASSUME NEW q \in Request, q.row \in Row
    PROVE  /\ Advance(q).row.app = q.row.app /\ Advance(q).pc = After(q.pc, q.row.app)
           /\ Advance(q).row.user = q.row.user /\ Advance(q).row.domain = q.row.domain
           /\ q.row.hasDB \/ q.pc = "create_database" => Advance(q).row.hasDB
  <1> DEFINE y == [q.row EXCEPT !.hasDB = @ \/ q.pc = "create_database"]
  <1>1. Advance(q) = [q EXCEPT !.pc = After(q.pc, q.row.app), !.row = y]
    BY Zenon DEF Advance
  <1>2. /\ y.app = q.row.app /\ y.user = q.row.user /\ y.domain = q.row.domain
        /\ q.row.hasDB \/ q.pc = "create_database" => y.hasDB
    BY DEF Row
  <1> HIDE DEF y
  <1>3. Advance(q).row = y /\ Advance(q).pc = After(q.pc, q.row.app)
    BY <1>1 DEF Request
  <1> QED BY <1>2, <1>3

(* What follows a step.                                                    *)
LEMMA AfterStep ==
    ASSUME NEW a
    PROVE  /\ After("create_site_user", a) = "set_quota"
           /\ After("set_quota", a) \in {"provision_php", "provision_nginx"}
           /\ NeedsPHP(a) => After("set_quota", a) = "provision_php"
           /\ After("provision_php", a) = "provision_nginx"
           /\ NeedsDB(a) => After("provision_nginx", a) = "create_database"
  BY DEF After

LEMMA BuiltMore ==
    ASSUME NEW q \in Request, q.row \in Row, q.pc \in BuildSteps, NEW h, NEW g, NEW c,
           c.op = q.pc, c.user = q.row.user, c.domain = q.row.domain,
           BuiltOn(h, q), KeepsPieces(g, h, q.row.user, q.row.domain),
           Achieved(g, c) \/ q.pc = "set_quota"
    PROVE  BuiltOn(g, Advance(q))
  <1> DEFINE u == q.row.user
             d == q.row.domain
             a == q.row.app
             to == After(q.pc, a)
  <1>1. q.pc # "create_site_user" => u \in g.accounts
    BY DEF BuiltOn, BuildPCs, BuildSteps, KeepsPieces
  <1>2. q.pc \in {"provision_nginx", "create_database", "install_app"} /\ NeedsPHP(a) => u \in g.pools
    BY DEF BuiltOn, KeepsPieces
  <1>3. q.pc \in {"create_database", "install_app"} => g.vhosts[d] = u
    BY DEF BuiltOn, KeepsPieces
  <1>4. q.pc = "install_app" /\ NeedsDB(a) => q.row.hasDB /\ g.dbs[DBNameOf[u]] = u
    BY DEF BuiltOn, KeepsPieces
  <1>5. u \in g.accounts
    BY <1>1 DEF Achieved
  <1>6. to \in {"provision_nginx", "create_database", "install_app", "activate"} /\ NeedsPHP(a)
          => u \in g.pools
    <2>1. CASE q.pc \in {"provision_nginx", "create_database", "install_app"}
      BY <1>2, <2>1
    <2>2. CASE q.pc = "provision_php"
      BY <2>2 DEF Achieved
    <2>3. CASE q.pc \in {"create_site_user", "set_quota"}
      BY <2>3, AfterStep
    <2> QED BY <2>1, <2>2, <2>3 DEF BuildSteps
  <1>7. to \in {"create_database", "install_app", "activate"} => g.vhosts[d] = u
    <2>1. CASE q.pc \in {"create_database", "install_app"}
      BY <1>3, <2>1
    <2>2. CASE q.pc = "provision_nginx"
      BY <2>2 DEF Achieved
    <2>3. CASE q.pc \in {"create_site_user", "set_quota", "provision_php"}
      BY <2>3, AfterStep
    <2> QED BY <2>1, <2>2, <2>3 DEF BuildSteps
  <1>8. to \in {"install_app", "activate"} /\ NeedsDB(a)
          => (q.row.hasDB \/ q.pc = "create_database") /\ g.dbs[DBNameOf[u]] = u
    <2>1. CASE q.pc = "install_app"
      BY <1>4, <2>1
    <2>2. CASE q.pc = "create_database"
      BY <2>2 DEF Achieved
    <2>3. CASE q.pc \in {"create_site_user", "set_quota", "provision_php", "provision_nginx"}
      BY <2>3, AfterStep
    <2> QED BY <2>1, <2>2, <2>3 DEF BuildSteps
  <1> HIDE DEF to
  <1>9. /\ Advance(q).row.app = a /\ Advance(q).pc = to
        /\ Advance(q).row.user = u /\ Advance(q).row.domain = d
        /\ q.row.hasDB \/ q.pc = "create_database" => Advance(q).row.hasDB
    BY AdvancedRow DEF to
  <1> QED BY <1>5, <1>6, <1>7, <1>8, <1>9 DEF BuiltOn

LEMMA BuiltKept ==
    ASSUME NEW h, NEW g, NEW q, BuiltOn(h, q), KeepsPieces(g, h, q.row.user, q.row.domain)
    PROVE  BuiltOn(g, q)
  BY DEF BuiltOn, KeepsPieces


(* The pieces of a row that stays are left alone by the step of a request, *)
(* whose own destroy_site makes it go on to the DELETE.                    *)
LEMMA ServeKeeps ==
    ASSUME Assumptions, IndInv, Unharmed, NEW p \in Procs, Serve(p),
           NEW i \in Ids, Settled(i), Settled(i)'
    PROVE  KeepsPieces(host', host, sites[i].user, sites[i].domain)
  <1>0. /\ host \in HostType /\ HostAssumption /\ req \in [Procs -> Request]
        /\ sites[i].user \in Users /\ sites[i].domain \in Domains
    BY DEF IndInv, TypeOK, SiteInv, Assumptions, Settled, Live, LiveStatus
  <1>1. CASE UNCHANGED host
    BY <1>1 DEF KeepsPieces
  <1>2. ASSUME NEW yes, NEW no, Calling(req[p]), Ask(p, yes, no),
               OpOf(req[p]) = "destroy_site" => yes.pc = "drop" /\ yes.id = req[p].id
        PROVE  KeepsPieces(host', host, sites[i].user, sites[i].domain)
    <2> DEFINE c == CallOf(req[p])
    <2>0. c \in Call /\ c.op = OpOf(req[p]) /\ c.user = req[p].row.user /\ c.domain = req[p].row.domain
      BY <1>2, CallSound DEF CallOf
    <2>1. CASE UNCHANGED host
      BY <2>1, <1>1
    <2>2. ASSUME NEW r \in Exec(host, c), host' = r.host,
                 req' = [req EXCEPT ![p] = IF r.ok THEN yes ELSE no]
          PROVE  KeepsPieces(host', host, sites[i].user, sites[i].domain)
      <3>1. CASE i # req[p].id
        <4>1. ~Harms(c, sites[i])
          BY <1>2, <3>1 DEF Unharmed
        <4> QED BY <1>0, <2>0, <2>2, <4>1, HarmlessKeeps
      <3>2. CASE i = req[p].id /\ c.op # "destroy_site"
        <4>1. c.user = sites[i].user /\ c.domain = sites[i].domain
          BY <1>2, <2>0, <3>2, Copy DEF Calling, HoldPCs
        <4> QED BY <1>0, <2>0, <2>2, <3>2, <4>1, HarmlessKeeps
      <3>3. CASE i = req[p].id /\ c.op = "destroy_site"
        <4>1. ~r.ok
          <5> SUFFICES ASSUME r.ok PROVE FALSE
            OBVIOUS
          <5>1. req'[p] = yes
            BY <1>0, <2>2
          <5> QED BY <1>2, <2>0, <3>3, <5>1 DEF Settled
        <4>2. r.host = host
          BY <1>0, <2>0, <2>2, <3>3, <4>1, ExecTakes
        <4> QED BY <1>1, <2>2, <4>2
      <3> QED BY <3>1, <3>2, <3>3
    <2> QED BY <1>2, <2>1, <2>2 DEF Ask
  <1>3. CASE Redestroy(p) \/ Destroy(p)
    <2> DEFINE x == [req[p] EXCEPT !.pc = "drop"]
    <2>1. x.pc = "drop" /\ x.id = req[p].id
      BY <1>0 DEF Request
    <2>2. Calling(req[p])
      BY <1>3 DEF Redestroy, Destroy, Calling
    <2> HIDE DEF x
    <2>3. Ask(p, x, x) \/ Ask(p, x, Idle)
      BY <1>3 DEF Redestroy, Destroy, x
    <2> QED BY <1>2, <2>1, <2>2, <2>3
  <1>4. CASE BuildStep(p) \/ EditCall(p)
    <2>1. Calling(req[p]) /\ OpOf(req[p]) # "destroy_site"
      <3>1. EditOK(req[p])
        BY DEF IndInv, RequestInv, RequestOK
      <3> QED BY <1>4, <3>1 DEF BuildStep, EditCall, Calling, OpOf, BuildSteps, EditOK, RowKinds
    <2> QED BY <1>2, <1>4, <2>1 DEF BuildStep, EditCall
  <1> QED BY <1>1, <1>3, <1>4
          DEF Serve, DropRow, Refuse, TryBase, PickUser, InsertRow, MarkError, Activate, SaveEdit

(* No step of a request makes a row settled that was there before.         *)
LEMMA SettledBefore ==
    ASSUME Assumptions, IndInv, "delete_site" \notin FailingOps, NEW p \in Procs, Serve(p),
           NEW i \in Ids, sites[i].status # "free", Settled(i)'
    PROVE  Settled(i)
  <1>0. sites \in [Ids -> Row] /\ req \in [Procs -> Request] /\ SitesStep
    BY TableStep DEF IndInv, TypeOK, Next
  <1>1. Live(i)
    BY <1>0 DEF SitesStep, Rewritten, Inserted, Settled, Live
  <1>2. ASSUME NEW q \in Procs, req[q].id = i, req[q].pc = "drop"
        PROVE  FALSE
    <2>1. CASE q = p
      <3>1. DropRow(p)
        BY <1>2, <2>1 DEF Serve, Redestroy, Refuse, TryBase, PickUser, InsertRow, BuildStep,
           MarkError, Activate, Destroy, EditCall, SaveEdit, BuildSteps
      <3>2. sites' = [sites EXCEPT ![i].status = "deleted"]
        BY <1>1, <1>2, <2>1, <3>1 DEF DropRow, DeleteSite
      <3>3. sites'[i].status = "deleted"
        BY <1>0, <3>2 DEF Row
      <3> QED BY <3>3 DEF Settled, Live, LiveStatus
    <2>2. CASE q # p
      BY <1>2, <2>2, ServeNames DEF Settled
    <2> QED BY <2>1, <2>2
  <1> QED BY <1>1, <1>2 DEF Settled

(* Where a step of a request may leave its copy.                           *)
LEMMA ServeCopies ==
    ASSUME Assumptions, IndInv, NEW p \in Procs, Serve(p)
    PROVE  /\ req'[p].pc \in BuildPCs =>
                 \/ req'[p].pc \in {"create_site_user", "mark_error"}
                 \/ /\ BuildStep(p) /\ req'[p] = Advance(req[p]) /\ late' = late
                    /\ \E r \in Exec(host, CallOf(req[p])) :
                          host' = r.host /\ (r.ok \/ req[p].pc = "set_quota")
                 \/ /\ req[p].pc = "set_quota" /\ BuildStep(p)
                    /\ req'[p] = Advance(req[p]) /\ UNCHANGED host
           /\ req'[p].pc \in {"edit", "save"} =>
                 /\ req[p].pc = "edit" /\ req'[p].row = req[p].row /\ req'[p].id = req[p].id
                 /\ req'[p].kind = req[p].kind /\ UNCHANGED sites
  <1>0. req \in [Procs -> Request] /\ req[p] \in Request /\ Idle.pc = "idle"
    BY DEF IndInv, TypeOK, Idle
  <1>1. ASSUME NEW pc
        PROVE  LET x == [req[p] EXCEPT !.pc = pc]
               IN  x.pc = pc /\ x.row = req[p].row /\ x.id = req[p].id /\ x.kind = req[p].kind
    BY <1>0 DEF Request
  <1>2. ASSUME NEW x, req' = [req EXCEPT ![p] = x], x.pc \notin BuildPCs \cup {"edit", "save"}
        PROVE  req'[p].pc \notin BuildPCs \cup {"edit", "save"}
    BY <1>0, <1>2
  <1>3. CASE BuildStep(p)
    <2> DEFINE x == [req[p] EXCEPT !.pc = "mark_error"]
    <2>1. Advance(req[p]).pc \notin {"edit", "save"}
      BY <1>0, AdvanceTyped DEF Request, BuildSteps
    <2>2. GiveUp(req[p]) = (IF req[p].pc = "set_quota" THEN Advance(req[p]) ELSE x)
      BY DEF GiveUp
    <2>3. x.pc = "mark_error"
      BY <1>1
    <2>4. req' = [req EXCEPT ![p] = Advance(req[p])] \/ req' = [req EXCEPT ![p] = GiveUp(req[p])]
      BY <1>3 DEF BuildStep, Ask
    <2> HIDE DEF x
    <2>5. req'[p].pc \notin {"edit", "save"}
      BY <1>0, <2>1, <2>2, <2>3, <2>4
    <2>6. ASSUME NEW r \in Exec(host, CallOf(req[p])), host' = r.host, late' = late,
                 req' = [req EXCEPT ![p] = IF r.ok THEN Advance(req[p]) ELSE GiveUp(req[p])],
                 req'[p].pc # "mark_error"
          PROVE  req'[p] = Advance(req[p]) /\ (r.ok \/ req[p].pc = "set_quota")
      BY <1>0, <2>2, <2>3, <2>6
    <2>7. ASSUME host' = host, req' = [req EXCEPT ![p] = GiveUp(req[p])],
                 req'[p].pc # "mark_error"
          PROVE  req'[p] = Advance(req[p]) /\ req[p].pc = "set_quota"
      BY <1>0, <2>2, <2>3, <2>7
    <2>8. \/ /\ UNCHANGED host /\ req' = [req EXCEPT ![p] = GiveUp(req[p])]
          \/ \E r \in Exec(host, CallOf(req[p])) :
                /\ host' = r.host /\ late' = late
                /\ req' = [req EXCEPT ![p] = IF r.ok THEN Advance(req[p]) ELSE GiveUp(req[p])]
      BY <1>3 DEF BuildStep, Ask
    <2> QED BY <1>3, <2>5, <2>6, <2>7, <2>8
  <1>4. CASE EditCall(p)
    <2> DEFINE x == [req[p] EXCEPT !.pc = "save"]
    <2>1. req' = [req EXCEPT ![p] = x] \/ req' = [req EXCEPT ![p] = Idle]
      BY <1>4 DEF EditCall, Ask
    <2>2. /\ x.pc = "save" /\ x.row = req[p].row /\ x.id = req[p].id /\ x.kind = req[p].kind
      BY <1>1
    <2> HIDE DEF x
    <2> QED BY <1>0, <1>4, <2>1, <2>2 DEF EditCall, BuildPCs, BuildSteps
  <1>5. CASE Redestroy(p) \/ Destroy(p)
    <2> DEFINE x == [req[p] EXCEPT !.pc = "drop"]
    <2>1. req' = [req EXCEPT ![p] = x] \/ req' = [req EXCEPT ![p] = Idle]
      BY <1>5 DEF Redestroy, Destroy, Ask
    <2>2. x.pc = "drop"
      BY <1>1
    <2> HIDE DEF x
    <2> QED BY <1>0, <2>1, <2>2 DEF BuildPCs, BuildSteps
  <1>6. CASE Refuse(p) \/ MarkError(p) \/ Activate(p) \/ SaveEdit(p)
    BY <1>0, <1>6 DEF Refuse, MarkError, Activate, SaveEdit, BuildPCs, BuildSteps
  <1>7. CASE DropRow(p)
    BY <1>0, <1>7 DEF DropRow, Request, BuildPCs, BuildSteps
  <1>8. CASE TryBase(p)
    BY <1>0, <1>8 DEF TryBase, Request, BuildPCs, BuildSteps
  <1>9. CASE PickUser(p)
    BY <1>0, <1>9 DEF PickUser, Request, BuildPCs, BuildSteps
  <1>10. CASE InsertRow(p)
    BY <1>0, <1>10 DEF InsertRow, Request, BuildPCs, BuildSteps
  <1> QED BY <1>3, <1>4, <1>5, <1>6, <1>7, <1>8, <1>9, <1>10 DEF Serve

LEMMA BuildsServe ==
    ASSUME Assumptions, PiecesInv, Unharmed, "delete_site" \notin FailingOps,
           NEW p \in Procs, Serve(p), NEW q \in Procs
    PROVE  BuildsOn(q)' /\ EditsUp(req'[q])
  <1>0. /\ IndInv /\ host \in HostType /\ HostAssumption /\ req[p] \in Request
        /\ EditsUp(req[q]) /\ BuildsOn(q) /\ BuildsOn(p)
    BY DEF PiecesInv, IndInv, TypeOK, Assumptions
  <1>1. ASSUME NEW r \in Procs, req[r].pc \in BuildPCs, NEW i, i = req[r].id, Settled(i)'
        PROVE  /\ Settled(i)
               /\ KeepsPieces(host', host, req[r].row.user, req[r].row.domain)
    <2>1. req[r].pc \in HoldPCs
      BY <1>1 DEF BuildPCs, HoldPCs
    <2>2. /\ i \in Ids /\ sites[i].status # "free"
          /\ req[r].row.domain = sites[i].domain /\ req[r].row.user = sites[i].user
      BY <1>0, <1>1, <2>1 DEF IndInv, RequestInv, RequestOK, HoldOK
    <2>3. Settled(i)
      BY <1>0, <1>1, <2>2, SettledBefore
    <2> QED BY <1>0, <1>1, <2>2, <2>3, ServeKeeps
  <1>2. CASE q # p
    <2>1. req'[q] = req[q]
      BY <1>0, <1>2, ServeNames
    <2>2. ASSUME NEW i, i = req[q].id, req[q].pc \in BuildPCs, Settled(i)'
          PROVE  BuiltOn(host', req[q])
      BY <1>0, <1>1, <2>2, BuiltKept DEF BuildsOn
    <2>3. BuildsOn(q)'
      BY <2>1, <2>2 DEF BuildsOn
    <2> QED BY <1>0, <2>1, <2>3
  <1>3. CASE q = p
    <2>1. EditsUp(req'[p])
      BY <1>0, <1>3, ServeCopies DEF EditsUp
    <2>2. ASSUME req'[p].pc \in BuildPCs, NEW i, i = req'[p].id, Settled(i)'
          PROVE  BuiltOn(host', req'[p])
      <3>1. CASE req'[p].pc \in {"create_site_user", "mark_error"}
        BY <3>1 DEF BuiltOn
      <3>2. CASE /\ BuildStep(p) /\ req'[p] = Advance(req[p])
                 /\ \/ req[p].pc = "set_quota"
                    \/ \E r \in Exec(host, CallOf(req[p])) : host' = r.host /\ r.ok
        <4> DEFINE c == CallOf(req[p])
        <4>1. /\ req[p].pc \in BuildSteps /\ req[p].pc \in BuildPCs /\ Calling(req[p])
              /\ req[p].row \in Row
          BY <1>0, <3>2 DEF BuildStep, BuildPCs, Calling, Request
        <4>2. req'[p].id = req[p].id
          BY <1>0, <3>2, <4>1, AdvanceTyped
        <4>3. BuiltOn(host, req[p]) /\ KeepsPieces(host', host, req[p].row.user, req[p].row.domain)
          BY <1>0, <1>1, <2>2, <4>1, <4>2 DEF BuildsOn
        <4>4. c \in Call /\ c.op = req[p].pc /\ c.user = req[p].row.user /\ c.domain = req[p].row.domain
          <5>1. OpOf(req[p]) = req[p].pc
            BY <4>1 DEF OpOf, BuildSteps
          <5> QED BY <1>0, <4>1, <5>1, CallSound DEF CallOf
        <4>5. Achieved(host', c) \/ req[p].pc = "set_quota"
          BY <1>0, <3>2, <4>1, <4>4, ExecAdds DEF BuildSteps
        <4> QED BY <1>0, <3>2, <4>1, <4>3, <4>4, <4>5, BuiltMore
      <3> QED BY <1>0, <2>2, <3>1, <3>2, ServeCopies
    <2>3. BuildsOn(p)'
      BY <2>2 DEF BuildsOn
    <2> QED BY <1>3, <2>1, <2>3
  <1> QED BY <1>2, <1>3

(* A row whose status a request sets is up only if its pieces are there.   *)
LEMMA RowsServe ==
    ASSUME Assumptions, PiecesInv, "delete_site" \notin FailingOps, crashes = 0,
           NEW p \in Procs, Serve(p), NEW i \in Ids, sites'[i] # sites[i], Up(sites'[i]),
           Settled(i)'
    PROVE  UNCHANGED host /\ Served(sites'[i])
  <1>0. /\ IndInv /\ sites \in [Ids -> Row] /\ req[p] \in Request /\ req[p].row \in Row
        /\ EditsUp(req[p]) /\ BuildsOn(p) /\ EditsServed(p)
    BY DEF PiecesInv, IndInv, TypeOK, Request
  <1>1. CASE Activate(p)
    <2>1. i = req[p].id /\ sites'[i] = [req[p].row EXCEPT !.status = "active"] /\ UNCHANGED host
      BY <1>0, <1>1 DEF Activate, UpdateSite
    <2>2. req[p].pc = "activate" /\ sites[i].status # "free"
      BY <1>0, <1>1, <2>1 DEF Activate, IndInv, RequestInv, RequestOK, HoldOK, HoldPCs
    <2>3. BuiltOn(host, req[p])
      BY <1>0, <2>1, <2>2, SettledBefore DEF BuildsOn, BuildPCs
    <2>4. /\ sites'[i].user = req[p].row.user /\ sites'[i].domain = req[p].row.domain
          /\ sites'[i].app = req[p].row.app /\ sites'[i].hasDB = req[p].row.hasDB
      BY <1>0, <2>1 DEF Row
    <2> QED BY <2>1, <2>2, <2>3, <2>4 DEF BuiltOn, BuildPCs, BuildSteps, Served
  <1>2. CASE SaveEdit(p)
    <2>1. i = req[p].id /\ sites'[i] = Edited(req[p]) /\ UNCHANGED host /\ req[p].pc = "save"
      BY <1>0, <1>2 DEF SaveEdit, UpdateSite
    <2>2. sites[i].status # "free"
      BY <1>0, <2>1 DEF IndInv, RequestInv, RequestOK, HoldOK, HoldPCs
    <2>3. \/ /\ req[p].kind = "suspend"
             /\ Edited(req[p]) = [req[p].row EXCEPT !.status = "suspended"]
          \/ /\ req[p].kind = "resume"
             /\ Edited(req[p]) = [req[p].row EXCEPT !.status = "active"]
          \/ Edited(req[p]) = [req[p].row EXCEPT !.ssl = TRUE]
          \/ Edited(req[p]) = req[p].row
      BY DEF Edited
    <2>4. /\ sites'[i].user = req[p].row.user /\ sites'[i].domain = req[p].row.domain
          /\ sites'[i].app = req[p].row.app /\ sites'[i].hasDB = req[p].row.hasDB
          /\ req[p].kind \in {"suspend", "resume"} \/ sites'[i].status = req[p].row.status
      BY <1>0, <2>1, <2>3 DEF Row
    <2>5. Up(req[p].row)
      BY <1>0, <2>1, <2>4 DEF EditsUp, Up
    <2>6. Served(req[p].row)
      BY <1>0, <2>1, <2>2, <2>5, SettledBefore DEF EditsServed
    <2> QED BY <2>1, <2>4, <2>6 DEF Served
  <1>3. CASE MarkError(p)
    <2>1. sites'[i] = [req[p].row EXCEPT !.status = "error"]
      BY <1>0, <1>3 DEF MarkError, UpdateSite
    <2> QED BY <1>0, <2>1 DEF Row, Up
  <1>4. CASE DropRow(p)
    <2>1. sites'[i] = [sites[i] EXCEPT !.status = "deleted"]
      BY <1>0, <1>4 DEF DropRow, DeleteSite
    <2> QED BY <1>0, <2>1 DEF Row, Up
  <1>5. CASE InsertRow(p)
    <2>1. sites'[i] = req[p].row /\ req[p].row.status = "provisioning"
      BY <1>0, <1>5 DEF InsertRow, IndInv, RequestInv, RequestOK, InsertOK
    <2> QED BY <2>1 DEF Up
  <1> QED BY <1>1, <1>2, <1>3, <1>4, <1>5
          DEF Serve, Redestroy, Refuse, TryBase, PickUser, BuildStep, Destroy, EditCall

(* The pieces a row describes are those of its account and its domain.     *)
LEMMA PiecesStay ==
    ASSUME NEW row, KeepsPieces(host', host, row.user, row.domain), Served(row)
    PROVE  Served(row)'
  BY DEF KeepsPieces, Served

LEMMA PiecesServe ==
    ASSUME Assumptions, PiecesInv, Unharmed, "delete_site" \notin FailingOps,
           NEW p \in Procs, Serve(p)
    PROVE  PiecesInv'
  <1>0. /\ IndInv /\ IndInv' /\ SitesStep /\ sites \in [Ids -> Row] /\ req[p] \in Request
        /\ UNCHANGED crashes
    <2>1. UNCHANGED crashes
      BY DEF Serve, Redestroy, DropRow, Refuse, TryBase, PickUser, InsertRow, BuildStep,
         MarkError, Activate, Destroy, EditCall, SaveEdit
    <2> QED BY <2>1, NextInv, TableStep DEF PiecesInv, Next, IndInv, TypeOK
  <1>1. ASSUME crashes = 0, NEW i \in Ids, Up(sites'[i]), Settled(i)'
        PROVE  Served(sites[i])'
    <2> DEFINE row == sites'[i]
    <2>1. CASE row = sites[i]
      <3>1. sites[i].status # "free"
        BY <1>1, <2>1 DEF Up
      <3>2. Settled(i) /\ Served(sites[i])
        BY <1>0, <1>1, <2>1, <3>1, SettledBefore DEF PiecesInv
      <3>3. KeepsPieces(host', host, sites[i].user, sites[i].domain)
        BY <1>0, <1>1, <3>2, ServeKeeps
      <3> QED BY <2>1, <3>2, <3>3 DEF KeepsPieces, Served
    <2>2. CASE row # sites[i]
      <3>1. UNCHANGED host /\ Served(sites'[i])
        BY <1>1, <2>2, RowsServe
      <3> QED BY <3>1 DEF Served
    <2> QED BY <2>1, <2>2
  <1>2. ASSUME crashes = 0, NEW q \in Procs, req'[q].pc \in {"edit", "save"}, Up(req'[q].row),
               NEW i, i = req'[q].id, Settled(i)'
        PROVE  Served(req[q].row)'
    <2>1. /\ req[q].pc \in {"edit", "save"} /\ req'[q].row = req[q].row /\ req[q].id = i
      BY <1>0, <1>2, ServeCopies, ServeNames
    <2>2. /\ i \in Ids /\ sites[i].status # "free"
          /\ req[q].row.domain = sites[i].domain /\ req[q].row.user = sites[i].user
      BY <1>0, <2>1 DEF IndInv, RequestInv, RequestOK, HoldOK, HoldPCs
    <2>3. Settled(i) /\ Served(req[q].row)
      BY <1>0, <1>2, <2>1, <2>2, SettledBefore DEF PiecesInv, EditsServed
    <2>4. KeepsPieces(host', host, req[q].row.user, req[q].row.domain)
      BY <1>0, <1>2, <2>2, <2>3, ServeKeeps
    <2> QED BY <2>1, <2>3, <2>4 DEF KeepsPieces, Served
  <1>3. \A q \in Procs : crashes = 0 => EditsServed(q)'
    BY <1>2 DEF EditsServed
  <1>4. \A q \in Procs : EditsUp(req'[q]) /\ BuildsOn(q)'
    BY BuildsServe
  <1> QED BY <1>0, <1>1, <1>3, <1>4 DEF PiecesInv

(* A call that was given up takes nothing from a site it does not harm.    *)
LEMMA PiecesLate ==
    ASSUME Assumptions, PiecesInv, Unharmed, RunLate
    PROVE  PiecesInv'
  <1>0. /\ IndInv /\ IndInv' /\ UNCHANGED <<sites, req, crashes>> /\ host \in HostType
        /\ HostAssumption /\ late \subseteq Call
    BY NextInv DEF PiecesInv, Next, RunLate, IndInv, TypeOK, Assumptions
  <1>1. \A i : Settled(i)' <=> Settled(i)
    BY <1>0 DEF Settled, Live
  <1>2. ASSUME NEW i \in Ids, Settled(i)
        PROVE  KeepsPieces(host', host, sites[i].user, sites[i].domain)
    <2>1. PICK c \in late : \E r \in Exec(host, c) : host' = r.host
      BY DEF RunLate
    <2>2. ~Harms(c, sites[i]) /\ c \in Call
      BY <1>0, <1>2, <2>1 DEF Unharmed
    <2>3. sites[i].user \in Users /\ sites[i].domain \in Domains
      BY <1>0, <1>2 DEF IndInv, SiteInv, Settled, Live, LiveStatus
    <2> QED BY <1>0, <2>1, <2>2, <2>3, HarmlessKeeps
  <1>3. ASSUME NEW q \in Procs, req[q].pc \in HoldPCs, NEW i, i = req[q].id, Settled(i)
        PROVE  KeepsPieces(host', host, req[q].row.user, req[q].row.domain)
    BY <1>0, <1>2, <1>3, Copy
  <1>4. ASSUME NEW q \in Procs PROVE BuildsOn(q)' /\ EditsUp(req'[q])
    <2>1. ASSUME NEW i, i = req[q].id, req[q].pc \in BuildPCs, Settled(i)
          PROVE  BuiltOn(host', req[q])
      BY <1>3, <2>1, BuiltKept DEF PiecesInv, BuildsOn, BuildPCs, HoldPCs
    <2> QED BY <1>0, <1>1, <2>1 DEF PiecesInv, BuildsOn
  <1>5. ASSUME crashes = 0, NEW i \in Ids, Up(sites[i]), Settled(i)
        PROVE  Served(sites[i])'
    BY <1>0, <1>2, <1>5 DEF PiecesInv, KeepsPieces, Served
  <1>6. ASSUME crashes = 0, NEW q \in Procs PROVE EditsServed(q)'
    <2>1. ASSUME NEW i, i = req[q].id, req[q].pc \in {"edit", "save"}, Up(req[q].row), Settled(i)
          PROVE  Served(req[q].row)'
      <3>1. Served(req[q].row) /\ KeepsPieces(host', host, req[q].row.user, req[q].row.domain)
        BY <1>3, <1>6, <2>1 DEF PiecesInv, EditsServed, HoldPCs
      <3> QED BY <1>0, <3>1 DEF KeepsPieces, Served
    <2> QED BY <1>0, <1>1, <2>1 DEF EditsServed
  <1> QED BY <1>0, <1>1, <1>4, <1>5, <1>6 DEF PiecesInv

LEMMA PiecesStep ==
    ASSUME Assumptions, "delete_site" \notin FailingOps, PiecesInv, Unharmed, [Next]_vars
    PROVE  PiecesInv'
  <1>0. /\ IndInv /\ IndInv' /\ req \in [Procs -> Request] /\ crashes \in Nat
    BY NextInv DEF PiecesInv, IndInv, TypeOK, Assumptions, ProvisioningAssumption
  <1>1. ASSUME NEW p \in Procs, NEW x, req' = [req EXCEPT ![p] = x], req[p].pc = "idle",
               UNCHANGED <<sites, host, crashes>>, x.pc \notin {"drop"} \cup BuildPCs,
               EditsUp(x), x.pc = "edit" => x.id \in Ids /\ x.row = sites[x.id], x.pc # "save"
        PROVE  PiecesInv'
    <2>1. \A q \in Procs : req'[q] = IF q = p THEN x ELSE req[q]
      BY <1>0, <1>1
    <2>2. \A i : Settled(i)' => Settled(i)
      <3> SUFFICES ASSUME NEW i, Settled(i)', NEW q \in Procs, req[q].id = i, req[q].pc = "drop"
                   PROVE  FALSE
        BY <1>1 DEF Settled, Live
      <3>1. req'[q] = req[q]
        BY <1>1, <2>1
      <3> QED BY <3>1 DEF Settled
    <2>3. ASSUME NEW q \in Procs PROVE EditsUp(req'[q]) /\ BuildsOn(q)'
      BY <1>1, <2>1, <2>2 DEF PiecesInv, BuildsOn
    <2>4. ASSUME crashes = 0, NEW i \in Ids, Up(sites[i]), Settled(i)' PROVE Served(sites[i])'
      BY <1>1, <2>2, <2>4 DEF PiecesInv, Served
    <2>5. ASSUME crashes = 0, NEW q \in Procs PROVE EditsServed(q)'
      <3>1. CASE q # p
        BY <1>1, <2>1, <2>2, <2>5, <3>1 DEF PiecesInv, EditsServed, Served
      <3>2. CASE q = p
        <4>1. req'[q] = x
          BY <2>1, <3>2
        <4>2. ASSUME x.pc = "edit", Up(x.row), NEW i, i = x.id, Settled(i)'
              PROVE  Served(x.row)
          BY <1>1, <2>2, <2>5, <4>2 DEF PiecesInv
        <4> QED BY <1>1, <4>1, <4>2 DEF EditsServed, Served
      <3> QED BY <3>1, <3>2
    <2> QED BY <1>0, <1>1, <2>3, <2>4, <2>5 DEF PiecesInv
  <1>2. ASSUME NEW p \in Procs, NEW d \in Domains, NEW a \in Apps, Lookup(p, d, a)
        PROVE  PiecesInv'
    <2>1. PICK x : req' = [req EXCEPT ![p] = x] /\ x.pc \in {"admit", "redestroy"}
      <3> DEFINE y == [pc |-> "admit", kind |-> "create", id |-> NoId, row |-> Draft(d, a),
                       app |-> a]
                 z(i) == [pc |-> "redestroy", kind |-> "create", id |-> i, row |-> sites[i],
                          app |-> a]
      <3>1. req' = [req EXCEPT ![p] = y] \/ \E i \in Ids : req' = [req EXCEPT ![p] = z(i)]
        BY <1>2 DEF Lookup
      <3>2. y.pc = "admit" /\ \A i \in Ids : z(i).pc = "redestroy"
        OBVIOUS
      <3> HIDE DEF y, z
      <3> QED BY <3>1, <3>2
    <2>2. x.pc \notin {"drop"} \cup BuildPCs \cup {"edit", "save"}
      BY <2>1 DEF BuildPCs, BuildSteps
    <2> QED BY <1>1, <1>2, <2>1, <2>2 DEF Lookup, EditsUp
  <1>3. ASSUME NEW p \in Procs, NEW i \in Ids, NEW k \in Kinds, ReadSite(p, i, k)
        PROVE  PiecesInv'
    <2> DEFINE x == [pc |-> IF k = "delete" THEN "destroy" ELSE "edit", kind |-> k, id |-> i,
                     row |-> sites[i], app |-> sites[i].app]
    <2>1. /\ x.pc \in {"destroy", "edit"} /\ x.id = i /\ x.row = sites[i] /\ x.kind = k
      OBVIOUS
    <2>2. req' = [req EXCEPT ![p] = x]
      BY <1>3 DEF ReadSite
    <2> HIDE DEF x
    <2>3. EditsUp(x)
      BY <1>3, <2>1 DEF EditsUp, Up, ReadSite, Offered
    <2>4. x.pc \notin {"drop", "save"} \cup BuildPCs
      BY <2>1 DEF BuildPCs, BuildSteps
    <2> QED BY <1>1, <1>3, <2>1, <2>2, <2>3, <2>4 DEF ReadSite
  <1>4. CASE Crash
    <2>1. crashes' # 0 /\ \A q \in Procs : req'[q] = Idle
      BY <1>0, <1>4 DEF Crash
    <2>2. Idle.pc \notin BuildPCs \cup {"edit", "save"}
      BY DEF Idle, BuildPCs, BuildSteps
    <2> QED BY <1>0, <2>1, <2>2 DEF PiecesInv, EditsUp, BuildsOn
  <1>5. CASE UNCHANGED vars
    BY <1>0, <1>5 DEF vars, PiecesInv, EditsUp, BuildsOn, EditsServed, Settled, Live, Served
  <1> QED BY <1>2, <1>3, <1>4, <1>5, PiecesServe, PiecesLate DEF Next

(* While the API stays up, a site that is shown as active or suspended has *)
(* its account, vhost, pool and database, however the requests on it and   *)
(* on other sites overlap, whatever fails and whatever the agent runs      *)
(* late, as long as no call for another site and no call that was given up *)
(* names what has become this site's: provisionSite writes "active" last,  *)
(* whoever destroys a site deletes its row, and what a handler writes back *)
(* was up when it read it.                                                 *)
THEOREM AllServed == Assumptions => (Spec => ServedUnlessHarmed)
  <1> SUFFICES ASSUME Assumptions, "delete_site" \notin FailingOps
               PROVE  Spec => ([]Unharmed => []ServedUnlessCrashed)
    BY DEF ServedUnlessHarmed
  <1>1. Init => PiecesInv
    <2> SUFFICES ASSUME Init PROVE PiecesInv
      OBVIOUS
    <2>1. IndInv /\ (\A p \in Procs : req[p] = Idle) /\ \A i \in Ids : sites[i] = NoRow
      BY InitInv DEF Init
    <2>2. Idle.pc \notin BuildPCs \cup {"edit", "save"} /\ ~Up(NoRow)
      BY DEF Idle, BuildPCs, BuildSteps, Up, NoRow, Draft
    <2> QED BY <2>1, <2>2 DEF PiecesInv, EditsUp, BuildsOn, EditsServed
  <1>2. PiecesInv /\ Unharmed /\ [Next]_vars => PiecesInv'
    BY PiecesStep
  <1>3. PiecesInv => ServedUnlessCrashed
    BY DEF PiecesInv, ServedUnlessCrashed, Settled, Live, LiveStatus, Up
  <1> QED BY <1>1, <1>2, <1>3, PTL DEF Spec
==============================================================================
