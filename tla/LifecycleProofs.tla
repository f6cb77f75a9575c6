--------------------------- MODULE LifecycleProofs ---------------------------
(***************************************************************************)
(* Provisioning implements SiteLifecycle, for any number of requests and   *)
(* sites, any failures, late calls and crashes, as long as clients never   *)
(* have two requests on one domain at a time (Exclusive).  Without that    *)
(* care a handler may write back a status that has changed since it read   *)
(* it.                                                                     *)
(***************************************************************************)
EXTENDS ProvisioningProofs

BuildPCs == BuildSteps \cup {"activate", "mark_error"}

Busy(p) == req[p].pc # "idle"

(* Two requests are never on one domain.                                   *)
Lone ==
    \A p, q \in Procs : Busy(p) /\ Busy(q) /\ req[p].row.domain = req[q].row.domain => p = q

(* The row still has the status the request believes it has.               *)
FreshRow(t, q) ==
    /\ q.pc \in BuildPCs => t[q.id].status = "provisioning"
    /\ q.pc \in {"edit", "save"} => t[q.id].status = q.row.status
    /\ q.pc \in {"edit", "save"} /\ q.kind = "suspend" => q.row.status = "active"
    /\ q.pc \in {"edit", "save"} /\ q.kind = "resume" => q.row.status = "suspended"

LoneInv == IndInv /\ Lone /\ \A p \in Procs : FreshRow(sites, req[p])
------------------------------------------------------------------------------
(* The table as SiteLifecycle sees it.                                     *)

Seen == [i \in Ids |-> [status |-> sites[i].status, domain |-> sites[i].domain]]

Abstractly == Lifecycle!Next \/ UNCHANGED Seen

LEMMA SeenTurns ==
    ASSUME NEW i \in Ids, NEW from, NEW to, sites[i].status \in from,
           \A j \in Ids : j # i => sites'[j] = sites[j],
           sites'[i].status = to, sites'[i].domain = sites[i].domain
    PROVE  Lifecycle!Turn(i, from, to)
  BY DEF Lifecycle!Turn

LEMMA SeenClaimed ==
    ASSUME sites \in [Ids -> Row], NEW i \in Ids, NEW d \in Domains, sites[i].status = "free",
           ~DomainTaken(d),
           \A j \in Ids : j # i => sites'[j] = sites[j],
           sites'[i].status = "provisioning", sites'[i].domain = d
    PROVE  Lifecycle!Claim(i, d)
  <1>1. \A j \in Ids : sites[j].status \in {"free", "deleted"} \/ Live(j)
    BY DEF Row, Live
  <1>2. ~Lifecycle!Held(d)
    BY <1>1 DEF Lifecycle!Held, DomainTaken
  <1>3. Seen' = [Seen EXCEPT ![i] = [status |-> "provisioning", domain |-> d]]
    BY DEF Seen
  <1> QED BY <1>2, <1>3 DEF Lifecycle!Claim, Seen

LEMMA SeenSame ==
    ASSUME \A j \in Ids : sites'[j].status = sites[j].status /\ sites'[j].domain = sites[j].domain
    PROVE  Abstractly
  BY DEF Abstractly, Seen

------------------------------------------------------------------------------
(* What a request's step does, to its row alone.                           *)

Alters(p) == \A j \in Ids : j # req[p].id => sites'[j] = sites[j]

(* Request p becomes x, which is over or stays on the same domain.         *)
Proceeds(p, x) ==
    /\ req' = [req EXCEPT ![p] = x]
    /\ x.pc # "idle" => x.row.domain = req[p].row.domain
    /\ FreshRow(sites', x)

ServesAs(p, x) ==
    /\ Proceeds(p, x)
    /\ Abstractly
    /\ sites' = sites \/ (req[p].pc \in HoldPCs \cup {"insert"} /\ Alters(p))

LEMMA NothingFresh ==
    ASSUME NEW t, NEW x, x.pc \notin BuildPCs \cup {"edit", "save"}
    PROVE  FreshRow(t, x)
  BY DEF FreshRow

LEMMA IdleFresh == \A t : FreshRow(t, Idle) /\ Idle.pc = "idle"
  BY DEF FreshRow, Idle, BuildPCs, BuildSteps

(* The end of a handler that saves its copy with status st.                *)
LEMMA SavesAs ==
    ASSUME Assumptions, LoneInv, NEW p \in Procs, req[p].pc \in HoldPCs,
           req' = [req EXCEPT ![p] = Idle],
           NEW row, row \in Row, row.domain = req[p].row.domain,
           UpdateSite(req[p].id, row),
           \/ /\ sites[req[p].id].status = "provisioning"
              /\ row.status \in {"active", "error"}
           \/ sites[req[p].id].status = "active" /\ row.status = "suspended"
           \/ sites[req[p].id].status = "suspended" /\ row.status = "active"
           \/ row.status = sites[req[p].id].status
    PROVE  ServesAs(p, Idle)
  <1> DEFINE i == req[p].id
  <1>0. sites \in [Ids -> Row] /\ i \in Ids /\ sites[i].domain = req[p].row.domain
    BY Copy DEF LoneInv, IndInv, TypeOK
  <1>1. Proceeds(p, Idle)
    BY IdleFresh DEF Proceeds
  <1>2. CASE sites' = sites
    BY <1>1, <1>2, SeenSame DEF ServesAs
  <1>3. CASE sites' = [sites EXCEPT ![i] = row]
    <2>1. sites'[i] = row /\ Alters(p)
      BY <1>0, <1>3 DEF Alters
    <2>2. sites'[i].domain = sites[i].domain
      BY <1>0, <2>1
    <2>3. Abstractly
      <3>1. CASE sites[i].status = "provisioning" /\ row.status = "active"
        <4>1. Lifecycle!Turn(i, {"provisioning"}, "active")
          BY <1>0, <2>1, <2>2, <3>1, SeenTurns DEF Alters
        <4> QED BY <1>0, <4>1 DEF Abstractly, Lifecycle!Next, Lifecycle!Build
      <3>2. CASE sites[i].status = "provisioning" /\ row.status = "error"
        <4>1. Lifecycle!Turn(i, {"provisioning"}, "error")
          BY <1>0, <2>1, <2>2, <3>2, SeenTurns DEF Alters
        <4> QED BY <1>0, <4>1 DEF Abstractly, Lifecycle!Next, Lifecycle!Fail
      <3>3. CASE sites[i].status = "active" /\ row.status = "suspended"
        <4>1. Lifecycle!Turn(i, {"active"}, "suspended")
          BY <1>0, <2>1, <2>2, <3>3, SeenTurns DEF Alters
        <4> QED BY <1>0, <4>1 DEF Abstractly, Lifecycle!Next, Lifecycle!Suspend
      <3>4. CASE sites[i].status = "suspended" /\ row.status = "active"
        <4>1. Lifecycle!Turn(i, {"suspended"}, "active")
          BY <1>0, <2>1, <2>2, <3>4, SeenTurns DEF Alters
        <4> QED BY <1>0, <4>1 DEF Abstractly, Lifecycle!Next, Lifecycle!Resume
      <3>5. CASE row.status = sites[i].status
        <4>1. \A j \in Ids : sites'[j].status = sites[j].status
                              /\ sites'[j].domain = sites[j].domain
          BY <2>1, <2>2, <3>5 DEF Alters
        <4> QED BY <4>1, SeenSame
      <3> QED BY <3>1, <3>2, <3>3, <3>4, <3>5
    <2> QED BY <1>1, <2>1, <2>3 DEF ServesAs
  <1> QED BY <1>2, <1>3 DEF UpdateSite

(* A call of the agent, and what it leads to.                              *)
LEMMA AsksAs ==
    ASSUME UNCHANGED sites, NEW p \in Procs, NEW x, Proceeds(p, x)
    PROVE  ServesAs(p, x)
  BY SeenSame DEF ServesAs

LEMMA AsDropRow ==
    ASSUME Assumptions, LoneInv, NEW p \in Procs, DropRow(p)
    PROVE  \E x : ServesAs(p, x)
  <1> DEFINE i == req[p].id
  <1>0. /\ sites \in [Ids -> Row] /\ i \in Ids /\ req[p] \in Request
        /\ req[p].pc = "drop" /\ req[p].pc \in HoldPCs
    BY Copy DEF LoneInv, IndInv, TypeOK, DropRow, HoldPCs
  <1>1. PICK x : Proceeds(p, x)
    <2> DEFINE y == [req[p] EXCEPT !.pc = "admit", !.id = NoId,
                                   !.row = Draft(req[p].row.domain, req[p].app)]
    <2>1. y.pc = "admit" /\ y.row.domain = req[p].row.domain
      BY <1>0 DEF Request, Draft
    <2>2. FreshRow(sites', y)
      BY <2>1, NothingFresh DEF BuildPCs, BuildSteps
    <2>3. CASE req[p].kind = "create"
      <3>1. req' = [req EXCEPT ![p] = y]
        BY <2>3 DEF DropRow
      <3> HIDE DEF y
      <3> QED BY <2>1, <2>2, <3>1 DEF Proceeds
    <2>4. CASE req[p].kind # "create"
      BY <2>4, IdleFresh DEF DropRow, Proceeds
    <2> QED BY <2>3, <2>4
  <1>2. CASE sites' = sites
    BY <1>1, <1>2, SeenSame DEF ServesAs
  <1>3. CASE Live(i) /\ sites' = [sites EXCEPT ![i].status = "deleted"]
    <2>1. Alters(p) /\ sites'[i].status = "deleted" /\ sites'[i].domain = sites[i].domain
      <3>1. sites[i] \in Row
        BY <1>0
      <3>2. sites'[i] = [sites[i] EXCEPT !.status = "deleted"]
        BY <1>0, <1>3
      <3> QED BY <1>0, <1>3, <3>1, <3>2 DEF Alters, Row
    <2>2. sites[i].status \in {"provisioning", "active", "error", "suspended"}
      BY <1>3 DEF Live, LiveStatus
    <2>3. Lifecycle!Turn(i, {"provisioning", "active", "error", "suspended"}, "deleted")
      BY <1>0, <2>1, <2>2, SeenTurns DEF Alters
    <2>4. Abstractly
      BY <1>0, <2>3 DEF Abstractly, Lifecycle!Next, Lifecycle!Delete
    <2> QED BY <1>0, <1>1, <2>1, <2>4 DEF ServesAs
  <1> QED BY <1>2, <1>3 DEF DropRow, DeleteSite

LEMMA AsInsertRow ==
    ASSUME Assumptions, LoneInv, NEW p \in Procs, InsertRow(p)
    PROVE  \E x : ServesAs(p, x)
  <1> DEFINE i == req[p].id
  <1>0. /\ sites \in [Ids -> Row] /\ req[p] \in Request /\ req \in [Procs -> Request]
        /\ req[p].pc = "insert" /\ i \in Ids /\ sites[i].status = "free"
        /\ req[p].row.domain \in Domains /\ req[p].row.status = "provisioning"
    <2>1. req[p].pc = "insert" /\ InsertOK(sites, req[p])
      BY DEF LoneInv, IndInv, RequestInv, RequestOK, InsertRow
    <2> QED BY <2>1 DEF InsertOK, LoneInv, IndInv, TypeOK
  <1>1. CASE req' = [req EXCEPT ![p] = Idle] /\ sites' = sites
    <2>1. Proceeds(p, Idle)
      BY <1>1, IdleFresh DEF Proceeds
    <2> QED BY <1>1, <2>1, AsksAs
  <1>2. CASE /\ ~DomainTaken(req[p].row.domain)
             /\ req' = [req EXCEPT ![p].pc = "create_site_user"]
             /\ sites' = [sites EXCEPT ![i] = req[p].row]
    <2> DEFINE x == [req[p] EXCEPT !.pc = "create_site_user"]
    <2>1. sites'[i] = req[p].row /\ Alters(p)
      BY <1>0, <1>2 DEF Alters
    <2>2. x.pc = "create_site_user" /\ x.id = i /\ x.row = req[p].row
      BY <1>0 DEF Request
    <2>3. req' = [req EXCEPT ![p] = x]
      BY <1>0, <1>2
    <2> HIDE DEF x
    <2>4. FreshRow(sites', x)
      BY <1>0, <2>1, <2>2 DEF FreshRow
    <2>5. Proceeds(p, x)
      BY <2>2, <2>3, <2>4 DEF Proceeds
    <2>6. PICK d \in Domains : d = req[p].row.domain
      BY <1>0
    <2>7. Abstractly
      <3>1. /\ ~DomainTaken(d) /\ \A j \in Ids : j # i => sites'[j] = sites[j]
            /\ sites'[i].status = "provisioning" /\ sites'[i].domain = d
        BY <1>0, <1>2, <2>1, <2>6 DEF Alters
      <3>2. Lifecycle!Claim(i, d)
        BY <1>0, <3>1, SeenClaimed
      <3> QED BY <1>0, <3>2 DEF Abstractly, Lifecycle!Next
    <2> QED BY <1>0, <2>1, <2>5, <2>7 DEF ServesAs
  <1> QED BY <1>1, <1>2 DEF InsertRow

LEMMA AsBuildStep ==
    ASSUME Assumptions, LoneInv, NEW p \in Procs, BuildStep(p)
    PROVE  \E x : ServesAs(p, x)
  <1>0. /\ req[p].pc \in BuildSteps /\ UNCHANGED <<sites, crashes>> /\ IndInv
        /\ sites[req[p].id].status = "provisioning"
    BY DEF BuildStep, LoneInv, FreshRow, BuildPCs
  <1>1. req[p] \in Request /\ req[p].row \in Row
    BY <1>0, Copy DEF HoldPCs
  <1> DEFINE y == [req[p] EXCEPT !.pc = "mark_error"]
  <1>2. y.pc = "mark_error" /\ y.row = req[p].row /\ y.id = req[p].id
    BY <1>1 DEF Request
  <1>3. req' = [req EXCEPT ![p] = Advance(req[p])] \/ req' = [req EXCEPT ![p] = y]
    <2>1. \/ req' = [req EXCEPT ![p] = Advance(req[p])]
          \/ req' = [req EXCEPT ![p] = GiveUp(req[p])]
      BY <1>0, AskEffect DEF BuildStep, Calling
    <2> QED BY <2>1 DEF GiveUp
  <1>4. ASSUME NEW x, req' = [req EXCEPT ![p] = x], x.id = req[p].id, x.pc \in BuildPCs,
               x.row.domain = req[p].row.domain
        PROVE  ServesAs(p, x)
    <2>1. FreshRow(sites', x)
      BY <1>0, <1>4 DEF FreshRow, BuildPCs, BuildSteps
    <2>2. Proceeds(p, x)
      BY <1>4, <2>1 DEF Proceeds
    <2> QED BY <1>0, <2>2, AsksAs
  <1> HIDE DEF y
  <1>5. Advance(req[p]).pc \in BuildPCs
    BY <1>1, AdvanceTyped DEF BuildPCs
  <1>6. y.pc \in BuildPCs
    BY <1>2 DEF BuildPCs
  <1> QED BY <1>1, <1>2, <1>3, <1>4, <1>5, <1>6, AdvanceTyped

LEMMA AsSaved ==
    ASSUME Assumptions, LoneInv, NEW p \in Procs,
           MarkError(p) \/ Activate(p) \/ SaveEdit(p)
    PROVE  ServesAs(p, Idle)
  <1>0. req[p].pc \in HoldPCs /\ FreshRow(sites, req[p])
    BY DEF MarkError, Activate, SaveEdit, HoldPCs, LoneInv
  <1>1. req[p].row \in Row
    BY <1>0, Copy DEF LoneInv
  <1>2. ASSUME NEW st \in {"active", "error", "suspended"}
        PROVE  /\ [req[p].row EXCEPT !.status = st] \in Row
               /\ [req[p].row EXCEPT !.status = st].domain = req[p].row.domain
               /\ [req[p].row EXCEPT !.status = st].status = st
    BY <1>1 DEF Row, LiveStatus
  <1>3. CASE MarkError(p)
    <2>1. sites[req[p].id].status = "provisioning"
      BY <1>0, <1>3 DEF MarkError, FreshRow, BuildPCs
    <2> QED BY <1>0, <1>2, <1>3, <2>1, SavesAs DEF MarkError
  <1>4. CASE Activate(p)
    <2>1. sites[req[p].id].status = "provisioning"
      BY <1>0, <1>4 DEF Activate, FreshRow, BuildPCs
    <2> QED BY <1>0, <1>2, <1>4, <2>1, SavesAs DEF Activate
  <1>5. CASE SaveEdit(p)
    <2>1. /\ req[p].pc = "save" /\ sites[req[p].id].status = req[p].row.status
          /\ req[p].kind = "suspend" => req[p].row.status = "active"
          /\ req[p].kind = "resume" => req[p].row.status = "suspended"
          /\ UpdateSite(req[p].id, Edited(req[p])) /\ req' = [req EXCEPT ![p] = Idle]
      BY <1>0, <1>5 DEF SaveEdit, FreshRow
    <2>2. CASE req[p].kind = "suspend"
      <3>1. Edited(req[p]) = [req[p].row EXCEPT !.status = "suspended"]
        BY <2>2 DEF Edited
      <3> QED BY <1>0, <1>2, <2>1, <2>2, <3>1, SavesAs
    <2>3. CASE req[p].kind = "resume"
      <3>1. Edited(req[p]) = [req[p].row EXCEPT !.status = "active"]
        BY <2>3 DEF Edited
      <3> QED BY <1>0, <1>2, <2>1, <2>3, <3>1, SavesAs
    <2>4. CASE req[p].kind \notin {"suspend", "resume"}
      <3>1. Edited(req[p]) = [req[p].row EXCEPT !.ssl = TRUE] \/ Edited(req[p]) = req[p].row
        BY <2>4 DEF Edited
      <3>2. /\ Edited(req[p]) \in Row /\ Edited(req[p]).domain = req[p].row.domain
            /\ Edited(req[p]).status = req[p].row.status
        BY <1>1, <3>1 DEF Row
      <3> QED BY <1>0, <2>1, <3>2, SavesAs
    <2> QED BY <2>2, <2>3, <2>4
  <1> QED BY <1>3, <1>4, <1>5

LEMMA AsServed ==
    ASSUME Assumptions, LoneInv, NEW p \in Procs, Serve(p)
    PROVE  \E x : ServesAs(p, x)
  <1>0. IndInv /\ req \in [Procs -> Request] /\ FreshRow(sites, req[p])
    BY DEF LoneInv, IndInv, TypeOK
  <1>1. ASSUME NEW pc \in {"drop", "save"}, pc = "save" => req[p].pc = "edit"
        PROVE  LET x == [req[p] EXCEPT !.pc = pc]
               IN  x.row = req[p].row /\ FreshRow(sites, x)
    <2> DEFINE x == [req[p] EXCEPT !.pc = pc]
    <2>1. x.pc = pc /\ x.row = req[p].row /\ x.id = req[p].id /\ x.kind = req[p].kind
      BY <1>0 DEF Request
    <2> HIDE DEF x
    <2>2. FreshRow(sites, x)
      BY <1>0, <1>1, <2>1 DEF FreshRow, BuildPCs, BuildSteps
    <2> QED BY <2>1, <2>2 DEF x
  <1>2. CASE Redestroy(p)
    <2> DEFINE x == [req[p] EXCEPT !.pc = "drop"]
    <2>1. req' = [req EXCEPT ![p] = x] /\ sites' = sites
      BY <1>0, <1>2, AskEffect DEF Redestroy, Calling
    <2>2. x.row = req[p].row /\ FreshRow(sites, x)
      BY <1>1
    <2> HIDE DEF x
    <2>3. Proceeds(p, x)
      BY <2>1, <2>2 DEF Proceeds
    <2> QED BY <2>1, <2>3, AsksAs
  <1>3. CASE Refuse(p)
    BY <1>3, IdleFresh, AsksAs DEF Refuse, Proceeds
  <1>6. CASE TryBase(p)
    <2> DEFINE x == [req[p] EXCEPT !.pc = "suffix"]
    <2>1. req' = [req EXCEPT ![p] = x] /\ x.pc = "suffix" /\ x.row = req[p].row
      BY <1>0, <1>6 DEF TryBase, Request
    <2> HIDE DEF x
    <2>2. Proceeds(p, x)
      BY <2>1, NothingFresh DEF Proceeds, BuildPCs, BuildSteps
    <2> QED BY <1>6, <2>2, AsksAs DEF TryBase
  <1>4. CASE PickUser(p)
    <2>1. PICK u, i : req' = [req EXCEPT ![p].pc = "insert", ![p].id = i,
                               ![p].row = [@ EXCEPT !.status = "provisioning", !.user = u]]
      BY <1>4 DEF PickUser
    <2> DEFINE y == [req[p].row EXCEPT !.status = "provisioning", !.user = u]
               x == [req[p] EXCEPT !.pc = "insert", !.id = i, !.row = y]
    <2>2. req[p] \in Request /\ req[p].row \in Row
      BY <1>0 DEF Request
    <2>3. y.domain = req[p].row.domain
      BY <2>2 DEF Row
    <2>4. req' = [req EXCEPT ![p] = x]
      BY <1>0, <2>1
    <2> HIDE DEF y
    <2>5. x.pc = "insert" /\ x.row = y
      BY <2>2 DEF Request
    <2> HIDE DEF x
    <2>6. Proceeds(p, x)
      BY <2>3, <2>4, <2>5, NothingFresh DEF Proceeds, BuildPCs, BuildSteps
    <2> QED BY <1>4, <2>6, AsksAs DEF PickUser
  <1>5. CASE Destroy(p) \/ EditCall(p)
    <2>1. PICK pc \in {"drop", "save"} :
             /\ pc = "save" => req[p].pc = "edit"
             /\ \/ req' = [req EXCEPT ![p] = [req[p] EXCEPT !.pc = pc]]
                \/ req' = [req EXCEPT ![p] = Idle]
      BY <1>0, <1>5, AskEffect DEF Destroy, EditCall, Calling
    <2>2. sites' = sites
      BY <1>5 DEF Destroy, EditCall
    <2> DEFINE x == [req[p] EXCEPT !.pc = pc]
    <2>3. x.row = req[p].row /\ FreshRow(sites, x)
      BY <1>1, <2>1
    <2> HIDE DEF x
    <2>4. CASE req' = [req EXCEPT ![p] = x]
      <3>1. Proceeds(p, x)
        BY <2>2, <2>3, <2>4 DEF Proceeds
      <3> QED BY <2>2, <3>1, AsksAs
    <2>5. CASE req' = [req EXCEPT ![p] = Idle]
      <3>1. Proceeds(p, Idle)
        BY <2>5, IdleFresh DEF Proceeds
      <3> QED BY <2>2, <3>1, AsksAs
    <2> QED BY <2>1, <2>4, <2>5 DEF x
  <1> QED BY <1>2, <1>3, <1>4, <1>5, <1>6, AsDropRow, AsInsertRow, AsBuildStep, AsSaved DEF Serve

------------------------------------------------------------------------------
(* Requests on different domains do not meet.                              *)

LEMMA RowsApart ==
    ASSUME LoneInv, NEW p \in Procs, NEW q \in Procs, p # q, Busy(p), Alters(p),
           req[p].pc \in HoldPCs \cup {"insert"}, req[q].pc \in HoldPCs
    PROVE  sites'[req[q].id] = sites[req[q].id]
  <1>1. /\ req[q].id \in Ids /\ sites[req[q].id].status # "free"
        /\ sites[req[q].id].domain = req[q].row.domain /\ Busy(q)
    <2>1. HoldOK(sites, req[q])
      BY DEF LoneInv, IndInv, RequestInv, RequestOK
    <2> QED BY <2>1 DEF HoldOK, HoldPCs, BuildSteps, Busy
  <1>2. req[q].row.domain # req[p].row.domain
    BY <1>1 DEF LoneInv, Lone
  <1>3. req[p].id # req[q].id
    <2>1. CASE req[p].pc \in HoldPCs
      BY <1>1, <1>2, <2>1, Copy DEF LoneInv
    <2>2. CASE req[p].pc = "insert"
      BY <1>1, <2>2 DEF LoneInv, IndInv, RequestInv, RequestOK, InsertOK
    <2> QED BY <2>1, <2>2
  <1> QED BY <1>1, <1>3 DEF Alters

LEMMA Elsewhere ==
    ASSUME LoneInv, NEW p \in Procs, NEW q \in Procs, p # q, Busy(p), Alters(p),
           req[p].pc \in HoldPCs \cup {"insert"}
    PROVE  FreshRow(sites', req[q])
  <1>1. FreshRow(sites, req[q])
    BY DEF LoneInv
  <1>2. ASSUME req[q].pc \in BuildPCs \cup {"edit", "save"}
        PROVE  sites'[req[q].id] = sites[req[q].id]
    BY <1>2, RowsApart DEF HoldPCs, BuildPCs
  <1> QED BY <1>1, <1>2 DEF FreshRow

LEMMA LoneServe ==
    ASSUME Assumptions, LoneInv, IndInv', NEW p \in Procs, Serve(p)
    PROVE  LoneInv' /\ Abstractly
  <1>0. req \in [Procs -> Request] /\ Busy(p)
    BY DEF LoneInv, IndInv, TypeOK, Busy, Serve, Redestroy, DropRow, Refuse, TryBase, PickUser,
       InsertRow, BuildStep, MarkError, Activate, Destroy, EditCall, SaveEdit, BuildSteps
  <1>1. PICK x : ServesAs(p, x)
    BY AsServed
  <1>2. /\ req'[p] = x /\ \A q \in Procs : q # p => req'[q] = req[q]
        /\ x.pc # "idle" => x.row.domain = req[p].row.domain
        /\ FreshRow(sites', x)
    BY <1>0, <1>1 DEF ServesAs, Proceeds
  <1>3. ASSUME NEW q \in Procs PROVE FreshRow(sites', req'[q])
    <2>1. CASE q = p
      BY <1>2, <2>1
    <2>2. CASE q # p /\ sites' = sites
      BY <1>2, <2>2 DEF LoneInv
    <2>3. CASE q # p /\ req[p].pc \in HoldPCs \cup {"insert"} /\ Alters(p)
      BY <1>0, <1>2, <2>3, Elsewhere
    <2> QED BY <1>1, <2>1, <2>2, <2>3 DEF ServesAs
  <1>4. Lone'
    BY <1>0, <1>2 DEF LoneInv, Lone, Busy
  <1> QED BY <1>1, <1>3, <1>4 DEF ServesAs, LoneInv

(* A request that starts finds its domain quiet.                           *)
LEMMA LoneStart ==
    ASSUME Assumptions, Exclusive, LoneInv, IndInv', NEW p \in Procs, UNCHANGED sites,
           NEW x, req' = [req EXCEPT ![p] = x], Quiet(x.row.domain), FreshRow(sites, x)
    PROVE  LoneInv' /\ Abstractly
  <1>1. /\ req'[p] = x /\ \A q \in Procs : q # p => req'[q] = req[q]
    BY DEF LoneInv, IndInv, TypeOK
  <1>2. \A q \in Procs : req[q].row.domain # x.row.domain
    BY DEF Quiet
  <1>3. Lone'
    BY <1>1, <1>2 DEF LoneInv, Lone, Busy
  <1>4. \A q \in Procs : FreshRow(sites', req'[q])
    BY <1>1 DEF LoneInv
  <1> QED BY <1>3, <1>4, SeenSame DEF LoneInv

LEMMA LoneStep ==
    ASSUME Assumptions, Exclusive, LoneInv, [Next]_vars
    PROVE  LoneInv' /\ Abstractly
  <1>0. IndInv'
    BY NextInv DEF LoneInv
  <1>1. ASSUME NEW p \in Procs, NEW d \in Domains, NEW a \in Apps, Lookup(p, d, a)
        PROVE  LoneInv' /\ Abstractly
    <2> DEFINE y == [pc |-> "admit", kind |-> "create", id |-> NoId, row |-> Draft(d, a),
                     app |-> a]
               z(i) == [pc |-> "redestroy", kind |-> "create", id |-> i, row |-> sites[i],
                        app |-> a]
    <2>1. Quiet(d) /\ UNCHANGED sites
      BY <1>1 DEF Lookup
    <2>2. y.pc = "admit" /\ y.row.domain = d
      BY DEF Draft
    <2>3. \A i \in Ids : z(i).pc = "redestroy" /\ z(i).row = sites[i]
      OBVIOUS
    <2>4. \/ req' = [req EXCEPT ![p] = y]
          \/ \E i \in Ids : sites[i].domain = d /\ req' = [req EXCEPT ![p] = z(i)]
      BY <1>1 DEF Lookup
    <2> HIDE DEF y, z
    <2>5. CASE req' = [req EXCEPT ![p] = y]
      <3>1. FreshRow(sites, y)
        BY <2>2, NothingFresh DEF BuildPCs, BuildSteps
      <3> QED BY <1>0, <2>1, <2>2, <2>5, <3>1, LoneStart
    <2>6. ASSUME NEW i \in Ids, sites[i].domain = d, req' = [req EXCEPT ![p] = z(i)]
          PROVE  LoneInv' /\ Abstractly
      <3>1. FreshRow(sites, z(i)) /\ z(i).row.domain = d
        BY <2>3, <2>6, NothingFresh DEF BuildPCs, BuildSteps
      <3> QED BY <1>0, <2>1, <2>6, <3>1, LoneStart
    <2> QED BY <2>4, <2>5, <2>6
  <1>2. ASSUME NEW p \in Procs, NEW i \in Ids, NEW k \in Kinds, ReadSite(p, i, k)
        PROVE  LoneInv' /\ Abstractly
    <2> DEFINE x == [pc |-> IF k = "delete" THEN "destroy" ELSE "edit", kind |-> k,
                     id |-> i, row |-> sites[i], app |-> sites[i].app]
    <2>1. /\ Quiet(sites[i].domain) /\ UNCHANGED sites /\ req' = [req EXCEPT ![p] = x]
          /\ sites[i].status \in Offered(k)
      BY <1>2 DEF ReadSite
    <2>2. x.pc \in {"destroy", "edit"} /\ x.row = sites[i] /\ x.id = i /\ x.kind = k
      OBVIOUS
    <2> HIDE DEF x
    <2>3. /\ k = "suspend" => sites[i].status = "active"
          /\ k = "resume" => sites[i].status = "suspended"
      BY <2>1 DEF Offered
    <2>4. FreshRow(sites, x)
      BY <2>2, <2>3 DEF FreshRow, BuildPCs, BuildSteps
    <2> QED BY <1>0, <2>1, <2>2, <2>4, LoneStart
  <1>3. ASSUME UNCHANGED <<sites, req>>
        PROVE  LoneInv' /\ Abstractly
    BY <1>0, <1>3, SeenSame DEF LoneInv, Lone, Busy
  <1>4. CASE Crash
    <2>1. /\ sites' = sites /\ \A p \in Procs : req'[p] = Idle
      BY <1>4 DEF Crash
    <2> QED BY <1>0, <2>1, SeenSame, IdleFresh DEF LoneInv, Lone, Busy
  <1> QED BY <1>0, <1>1, <1>2, <1>3, <1>4, LoneServe DEF Next, RunLate, vars

(* Clients who wait for one request on a domain before they make the next  *)
(* see the life of a site as SiteLifecycle states it, whatever fails, comes *)
(* late or crashes: no handler skips a status, and no domain is ever held  *)
(* twice (provisionSite, handleDeleteSite and the editing handlers).       *)
THEOREM ImplementsLifecycle == Assumptions /\ Exclusive => (Spec => LifecycleSpec)
  <1> SUFFICES ASSUME Assumptions, Exclusive PROVE Spec => LifecycleSpec
    OBVIOUS
  <1>1. Init => LoneInv /\ Lifecycle!Init
    <2> SUFFICES ASSUME Init PROVE LoneInv /\ Lifecycle!Init
      OBVIOUS
    <2>1. IndInv
      BY InitInv
    <2>2. \A p \in Procs : req[p] = Idle
      BY DEF Init
    <2>3. Lifecycle!Init
      BY DEF Init, NoRow, Draft, Lifecycle!Init
    <2> QED BY <2>1, <2>2, <2>3, IdleFresh DEF LoneInv, Lone, Busy
  <1>2. LoneInv /\ [Next]_vars => LoneInv'
    BY LoneStep
  <1>3. LoneInv /\ [Next]_vars => [Lifecycle!Next]_Seen
    BY LoneStep DEF Abstractly
  <1> QED BY <1>1, <1>2, <1>3, PTL DEF Spec, LifecycleSpec, Lifecycle!Spec, Seen
==============================================================================
