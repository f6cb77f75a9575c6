---------------------------- MODULE CronJobsProofs ----------------------------
(***************************************************************************)
(* The requests of CronJobs, for any number of them, of sites, accounts    *)
(* and jobs.  The lemmas are about one step and are used by StartupProofs, *)
(* where the steps of a start come in between.                             *)
(*                                                                         *)
(* Two requests only matter to each other when their sites have the same   *)
(* account.  So the proofs say what a step may do to one account (Touches) *)
(* and need to look at the step itself for that account only.              *)
(***************************************************************************)
EXTENDS CronJobs, TLAPS

(* A job is entered once, for a site that stays its site.                  *)
JobInv == \A j \in Jobs : jobs[j].state # "free" => jobs[j].site \in Sites

(* Whoever carries a list for account u has it from the jobs of u.         *)
Known(u, list) == \A j \in list : jobs[j].state # "free" /\ UserOf[jobs[j].site] = u

RequestOK(q) ==
    q.pc # "idle" =>
        /\ q.site \in Sites
        /\ Known(UserOf[q.site], q.list)
        /\ q.pc = "erase" =>
              q.job \in Jobs /\ jobs[q.job].state # "free" /\ jobs[q.job].site = q.site

RequestInv == \A p \in Procs : RequestOK(req[p])

LateInv == \A c \in late : Known(c.user, c.list)

OneLive ==
    \A s, t \in Sites :
        sites[s] = "live" /\ sites[t] = "live" /\ UserOf[s] = UserOf[t] => s = t

(* Nothing else works on account u: no other request than p's, no late     *)
(* call.                                                                   *)
NoLate(u) == \A c \in late : c.user # u
OthersOff(p, u) == \A q \in Procs : q # p => ~Busy(q, u)

(* A request that is alone still finds its site, and what it listed is     *)
(* still what the table says.                                              *)
AloneOK(p) ==
    LET q == req[p]
    IN  q.pc # "idle" /\ q.alone =>
            /\ NoLate(UserOf[q.site]) /\ OthersOff(p, UserOf[q.site])
            /\ q.pc \in {"insert", "erase", "list", "sync"} => sites[q.site] = "live"
            /\ q.pc = "sync" => q.list = JobsOf(q.site)

AloneInv == \A p \in Procs : AloneOK(p)

SettledInv == \A u \in settled : NoLate(u) /\ \A p \in Procs : ~Busy(p, u)

CronInv ==
    /\ CronTypeOK
    /\ JobInv /\ RequestInv /\ LateInv
    /\ OnlyOwnJobs /\ JobsHaveSite /\ OneLive
    /\ AloneInv /\ SettledInv

InStep(u) ==
    \A s \in Sites : sites[s] = "live" /\ UserOf[s] = u => crontab[u] = Lines(JobsOf(s))

------------------------------------------------------------------------------
(* Steps on account u by the requests of P: one, or none.                  *)

(* The rows of a job are written once: it keeps its site and its kind.     *)
JobsGrow(u) ==
    \A j \in Jobs :
        /\ jobs[j].state # "free" =>
              /\ jobs'[j].state # "free"
              /\ jobs'[j].site = jobs[j].site /\ jobs'[j].kind = jobs[j].kind
              /\ UserOf[jobs[j].site] # u => jobs'[j] = jobs[j]
        /\ jobs[j].state = "free" =>
              \/ jobs'[j] = jobs[j]
              \/ jobs'[j].site \in Sites /\ UserOf[jobs'[j].site] = u

(* What a step on account u leaves alone.                                  *)
Touches(P, u) ==
    /\ \A s \in Sites : UserOf[s] # u => sites'[s] = sites[s]
    /\ JobsGrow(u)
    /\ \A v \in Users : v # u => crontab'[v] = crontab[v]
    /\ \A c \in late' : c \in late \/ c.user = u
    /\ \A v \in settled' : v \in settled \/ v = u
    /\ \A q \in Procs \ P :
          /\ req'[q].pc = req[q].pc /\ req'[q].site = req[q].site
          /\ req'[q].job = req[q].job /\ req'[q].list = req[q].list
          /\ req'[q].alone => req[q].alone
          /\ Busy(q, u) => ~req'[q].alone \/ ~NoLate(u) \/ \E p \in P : Busy(p, u)
    /\ \A p \in P : \A v \in Users : Busy(p, v)' => v = u

(* What it has to ensure for account u itself.                             *)
Ensures(P, u) ==
    /\ CronTypeOK'
    /\ \A p \in P : RequestOK(req[p])' /\ AloneOK(p)'
    /\ \A c \in late' : c \in late \/ Known(c.user, c.list)'
    /\ \A j \in crontab'[u] :
          jobs'[j].state # "free" /\ jobs'[j].kind = "line" /\ UserOf[jobs'[j].site] = u
    /\ \A j \in Jobs : jobs'[j].state = "row" /\ UserOf[jobs'[j].site] = u
          => sites'[jobs'[j].site] = "live"
    /\ \A s, t \in Sites :
          sites'[s] = "live" /\ sites'[t] = "live" /\ UserOf[s] = u /\ UserOf[t] = u => s = t
    /\ u \in settled' => NoLate(u)' /\ (\A q \in Procs : ~Busy(q, u)') /\ InStep(u)'

(* Then it keeps the invariant, for the account and for all others.        *)
LEMMA StepKeeps ==
    ASSUME CronAssumption, CronInv, NEW P \in SUBSET Procs, NEW u \in Users,
           Touches(P, u), Ensures(P, u)
    PROVE  CronInv' /\ (SettledInStep => SettledInStep')
  <1> USE DEF CronInv
  <1>1. CronTypeOK'
    BY DEF Ensures
  <1>2. JobInv'
    BY DEF Touches, JobsGrow, JobInv
  <1>3. ASSUME NEW v \in Users, NEW list \in SUBSET Jobs, Known(v, list)
        PROVE  Known(v, list)'
    BY <1>3 DEF Known, Touches, JobsGrow
  <1>4. RequestInv'
    <2> SUFFICES ASSUME NEW q \in Procs, q \notin P PROVE RequestOK(req[q])'
      BY DEF RequestInv, Ensures
    <2>1. RequestOK(req[q]) /\ req[q] \in Request
      BY DEF RequestInv, CronTypeOK
    <2>2. /\ req'[q].pc = req[q].pc /\ req'[q].site = req[q].site
          /\ req'[q].list = req[q].list /\ req'[q].job = req[q].job
      BY DEF Touches
    <2>3. CASE req[q].pc = "idle"
      BY <2>2, <2>3 DEF RequestOK
    <2>4. CASE req[q].pc # "idle"
      <3>1. req[q].site \in Sites /\ UserOf[req[q].site] \in Users /\ req[q].list \in SUBSET Jobs
        BY <2>1, <2>4 DEF RequestOK, Request, CronAssumption
      <3>2. Known(UserOf[req[q].site], req[q].list)'
        <4>1. Known(UserOf[req[q].site], req[q].list)
          BY <2>1, <2>4 DEF RequestOK
        <4> QED BY <3>1, <4>1, <2>2 DEF Known, Touches, JobsGrow
      <3>3. req[q].pc = "erase" =>
              req[q].job \in Jobs /\ jobs'[req[q].job].state # "free"
              /\ jobs'[req[q].job].site = req[q].site
        BY <2>1, <2>4 DEF RequestOK, Touches, JobsGrow
      <3> QED BY <2>2, <3>1, <3>2, <3>3 DEF RequestOK, Known
    <2> QED BY <2>3, <2>4
  <1>5. LateInv'
    <2> SUFFICES ASSUME NEW c \in late' PROVE Known(c.user, c.list)'
      BY DEF LateInv
    <2>1. CASE c \in late
      BY <2>1, <1>3 DEF LateInv, CronTypeOK, Call
    <2> QED BY <2>1 DEF Ensures
  <1>6. OnlyOwnJobs'
    <2> SUFFICES ASSUME NEW v \in Users, NEW j \in crontab'[v]
                 PROVE  jobs'[j].state # "free" /\ jobs'[j].kind = "line" /\ UserOf[jobs'[j].site] = v
      BY DEF OnlyOwnJobs
    <2>1. CASE v = u
      BY <2>1 DEF Ensures
    <2>2. CASE v # u
      BY <2>2 DEF Touches, JobsGrow, OnlyOwnJobs, CronTypeOK
    <2> QED BY <2>1, <2>2
  <1>7. JobsHaveSite'
    <2> SUFFICES ASSUME NEW j \in Jobs, jobs'[j].state = "row", UserOf[jobs'[j].site] # u
                 PROVE  sites'[jobs'[j].site] = "live"
      BY DEF JobsHaveSite, Ensures
    <2> QED BY DEF Touches, JobsGrow, JobsHaveSite, JobInv
  <1>8. OneLive'
    <2> SUFFICES ASSUME NEW s \in Sites, NEW t \in Sites, sites'[s] = "live", sites'[t] = "live",
                        UserOf[s] = UserOf[t], UserOf[s] # u
                 PROVE  s = t
      BY DEF OneLive, Ensures
    <2> QED BY DEF OneLive, Touches
  <1>9. ASSUME NEW s \in Sites, UserOf[s] # u
        PROVE  JobsOf(s)' = JobsOf(s)
    BY <1>9 DEF JobsOf, Touches, JobsGrow
  <1>10. ASSUME NEW v \in Users, v # u, NoLate(v)
         PROVE  NoLate(v)'
    BY <1>10 DEF NoLate, Touches
  <1>11. ASSUME NEW v \in Users, v # u, NEW q \in Procs, ~Busy(q, v)
         PROVE  ~Busy(q, v)'
    <2>1. CASE q \in P
      BY <2>1, <1>11 DEF Touches
    <2>2. CASE q \notin P
      BY <2>2, <1>11 DEF Touches, Busy, CronTypeOK, Request
    <2> QED BY <2>1, <2>2
  <1>12. AloneInv'
    <2> SUFFICES ASSUME NEW q \in Procs, q \notin P PROVE AloneOK(q)'
      BY DEF AloneInv, Ensures
    <2>0. CASE ~(req'[q].pc # "idle" /\ req'[q].alone)
      BY <2>0 DEF AloneOK
    <2> SUFFICES ASSUME req'[q].pc # "idle", req'[q].alone
                 PROVE  AloneOK(q)'
      BY <2>0
    <2>1. req[q] \in Request /\ RequestOK(req[q])
      BY DEF CronTypeOK, RequestInv
    <2>2. /\ req'[q].pc = req[q].pc /\ req'[q].site = req[q].site
          /\ req'[q].list = req[q].list /\ req[q].alone /\ req[q].pc # "idle"
      BY DEF Touches
    <2>3. PICK s \in Sites, v \in Users : s = req[q].site /\ v = UserOf[s]
      BY <2>1, <2>2 DEF RequestOK, CronAssumption
    <2>4. /\ NoLate(v) /\ OthersOff(q, v)
          /\ req[q].pc \in {"insert", "erase", "list", "sync"} => sites[s] = "live"
          /\ req[q].pc = "sync" => req[q].list = JobsOf(s)
      BY <2>2, <2>3 DEF AloneInv, AloneOK
    <2>5. v # u
      BY <2>2, <2>3, <2>4 DEF Touches, Busy, OthersOff
    <2>6. NoLate(v)'
      BY <2>4, <2>5, <1>10
    <2>7. OthersOff(q, v)'
      BY <2>4, <2>5, <1>11 DEF OthersOff
    <2>8. req[q].pc \in {"insert", "erase", "list", "sync"} => sites'[s] = "live"
      BY <2>3, <2>4, <2>5 DEF Touches
    <2>9. req[q].pc = "sync" => req[q].list = JobsOf(s)'
      BY <2>3, <2>4, <2>5, <1>9
    <2>10. req'[q].site = s /\ UserOf[req'[q].site] = v
      BY <2>2, <2>3
    <2> QED BY <2>2, <2>6, <2>7, <2>8, <2>9, <2>10 DEF AloneOK, NoLate, OthersOff, Busy, JobsOf
  <1>13. SettledInv'
    <2> SUFFICES ASSUME NEW v \in settled', v # u
                 PROVE  NoLate(v)' /\ \A q \in Procs : ~Busy(q, v)'
      BY DEF SettledInv, Ensures
    <2>1. v \in settled /\ v \in Users
      BY DEF Touches, CronTypeOK
    <2> QED BY <2>1, <1>10, <1>11 DEF SettledInv
  <1>14. ASSUME SettledInStep PROVE SettledInStep'
    <2> SUFFICES ASSUME NEW v \in settled', v # u PROVE InStep(v)'
      BY DEF SettledInStep, InStep, Ensures
    <2>1. v \in settled /\ v \in Users
      BY DEF Touches, CronTypeOK
    <2> SUFFICES ASSUME NEW s \in Sites, sites'[s] = "live", UserOf[s] = v
                 PROVE  crontab'[v] = Lines(JobsOf(s))'
      BY DEF InStep
    <2>2. crontab'[v] = crontab[v] /\ sites'[s] = sites[s]
      BY <2>1 DEF Touches
    <2>3. crontab[v] = Lines(JobsOf(s))
      BY <2>1, <2>2, <1>14 DEF SettledInStep
    <2>4. JobsOf(s)' = JobsOf(s)
      BY <1>9
    <2>5. \A j \in JobsOf(s) : jobs'[j].kind = jobs[j].kind
      BY DEF JobsOf, Touches, JobsGrow
    <2>6. Lines(JobsOf(s))' = Lines(JobsOf(s))
      BY <2>4, <2>5 DEF Lines
    <2> QED BY <2>2, <2>3, <2>6
  <1> QED BY <1>1, <1>2, <1>4, <1>5, <1>6, <1>7, <1>8, <1>12, <1>13, <1>14

------------------------------------------------------------------------------
(* The parts of a step: the request's record, the call.                    *)

(* The slot's account, and what its request knows about it.                *)
LEMMA Stands ==
    ASSUME CronAssumption, CronInv, NEW p \in Procs, req[p].pc # "idle"
    PROVE  /\ req[p] \in Request /\ req[p].site \in Sites
           /\ UserOf[req[p].site] \in Users
           /\ RequestOK(req[p]) /\ AloneOK(p)
           /\ Busy(p, UserOf[req[p].site])
           /\ UserOf[req[p].site] \notin settled
  <1>1. req[p] \in Request /\ RequestOK(req[p]) /\ AloneOK(p)
    BY DEF CronInv, CronTypeOK, RequestInv, AloneInv
  <1>2. req[p].site \in Sites /\ UserOf[req[p].site] \in Users
    BY <1>1 DEF RequestOK, CronAssumption
  <1>3. Busy(p, UserOf[req[p].site])
    BY DEF Busy
  <1> QED BY <1>1, <1>2, <1>3 DEF CronInv, SettledInv

LEMMA GotoStep ==
    ASSUME req \in [Procs -> Request], NEW p \in Procs, NEW pc \in PCs, Goto(p, pc)
    PROVE  /\ req' \in [Procs -> Request]
           /\ \A q \in Procs : q # p => req'[q] = req[q]
           /\ req'[p].pc = pc /\ req'[p].site = req[p].site /\ req'[p].job = req[p].job
           /\ req'[p].list = req[p].list /\ req'[p].alone = req[p].alone
  BY DEF Goto, Request

LEMMA EndStep ==
    ASSUME req \in [Procs -> Request], NEW p \in Procs, End(p)
    PROVE  /\ req' \in [Procs -> Request]
           /\ \A q \in Procs : q # p => req'[q] = req[q]
           /\ req'[p].pc = "idle"
  BY DEF End, Idle, Ask, Request, PCs

LEMMA JobsStay ==
    ASSUME UNCHANGED jobs, NEW u
    PROVE  JobsGrow(u)
  BY DEF JobsGrow

(* What a call may do to the machine.                                      *)
CallDone(c, ok) ==
    /\ accounts' \subseteq Users
    /\ crontab' \in [Users -> SUBSET Jobs]
    /\ \A v \in Users : v # c.user => crontab'[v] = crontab[v]
    /\ \/ crontab'[c.user] \subseteq crontab[c.user]
       \/ c.op = "sync_cron" /\ crontab'[c.user] = Lines(c.list)
    /\ c.op = "sync_cron" /\ ok => crontab'[c.user] = Lines(c.list)

LEMMA ExecStep ==
    ASSUME CronAssumption, CronTypeOK, NEW c \in Call, NEW ok \in BOOLEAN, Exec(c, ok)
    PROVE  CallDone(c, ok)
  <1>1. c.user \in Users /\ c.list \in SUBSET Jobs /\ Lines(c.list) \in SUBSET Jobs
    BY DEF Call, Lines
  <1>2. CASE c.op = "sync_cron" /\ SyncCron(c, ok)
    BY <1>1, <1>2 DEF SyncCron, CallDone, CronTypeOK
  <1>3. CASE c.op = "create_site_user" /\ CreateSiteUser(c, ok)
    BY <1>1, <1>3 DEF CreateSiteUser, CallDone, CronTypeOK
  <1>4. CASE c.op = "destroy_site" /\ DestroySite(c, ok)
    BY <1>1, <1>4 DEF DestroySite, CallDone, CronTypeOK
  <1> QED BY <1>2, <1>3, <1>4 DEF Exec

LEMMA AgentStep ==
    ASSUME CronAssumption, CronTypeOK, NEW c \in Call, NEW ok \in BOOLEAN, Agent(c, ok)
    PROVE  CallDone(c, ok) /\ late' \subseteq late \cup {c} /\ (ok => late' = late)
  <1>1. CASE Exec(c, ok) /\ UNCHANGED late
    BY <1>1, ExecStep
  <1>2. CASE /\ ~ok
             /\ late' = late \cup {c}
             /\ UNCHANGED <<accounts, crontab>>
    BY <1>2 DEF CallDone, CronTypeOK
  <1> QED BY <1>1, <1>2 DEF Agent

LEMMA CallOfType ==
    ASSUME NEW q \in Request, q.site \in Sites, UserOf[q.site] \in Users,
           q.pc \in {"sync", "useradd", "destroy"}
    PROVE  /\ CallOf(q) \in Call
           /\ CallOf(q).user = UserOf[q.site] /\ CallOf(q).list = q.list
           /\ CallOf(q).op = "sync_cron" <=> q.pc = "sync"
  <1>1. OpOf[q.pc] \in AgentOps /\ (OpOf[q.pc] = "sync_cron" <=> q.pc = "sync")
    BY DEF OpOf, AgentOps
  <1> QED BY <1>1 DEF CallOf, Call, Request

------------------------------------------------------------------------------
(* A step within request p, and what it has to look after.                 *)

Kept == CronInv' /\ (SettledInStep => SettledInStep')

Within(p) ==
    /\ req[p].pc # "idle"
    /\ req' \in [Procs -> Request]
    /\ \A q \in Procs : q # p => req'[q] = req[q]
    /\ req'[p].pc # "idle" => req'[p].site = req[p].site /\ req'[p].pc # "erase"

(* Of the machine, at most the crontab of account u changes: it shrinks,   *)
(* or becomes the list p carries.  A call left behind carries it too.      *)
Machine(p, u) ==
    /\ accounts' \subseteq Users
    /\ crontab' \in [Users -> SUBSET Jobs]
    /\ \A v \in Users : v # u => crontab'[v] = crontab[v]
    /\ \A j \in crontab'[u] : j \in crontab[u] \/ j \in Lines(req[p].list)
    /\ \A c \in late' : c \in late \/ (c \in Call /\ c.user = u /\ c.list = req[p].list)

LEMMA WithinKeeps ==
    ASSUME CronAssumption, CronInv, NEW p \in Procs, Within(p),
           NEW u, u = UserOf[req[p].site],
           jobs' \in [Jobs -> Job], JobsGrow(u), Machine(p, u),
           sites' \in [Sites -> {"free", "live", "deleted"}],
           \A s \in Sites : sites'[s] = sites[s] \/ (UserOf[s] = u /\ sites'[s] = "deleted"),
           \A j \in Jobs : jobs'[j].state = "row" => sites'[jobs'[j].site] = "live",
           req'[p].pc # "idle" => Known(u, req[p].list)' /\ AloneOK(p)',
           \/ settled' = settled
           \/ /\ settled' = settled \cup {u}
              /\ NoLate(u)' /\ (\A q \in Procs : ~Busy(q, u)') /\ InStep(u)'
    PROVE  Kept
  <1>1. /\ req[p] \in Request /\ req[p].site \in Sites /\ u \in Users
        /\ u \notin settled /\ Busy(p, u) /\ Known(u, req[p].list)
        /\ req[p].list \in SUBSET Jobs
    BY Stands DEF Within, RequestOK, Request
  <1>2. Touches({p}, u)
    BY <1>1 DEF Within, Touches, Busy, Machine
  <1>3. CronTypeOK'
    BY <1>1 DEF CronInv, CronTypeOK, Within, Machine
  <1>4. RequestOK(req[p])'
    BY <1>1 DEF RequestOK, Within, Known
  <1>5. AloneOK(p)'
    BY DEF AloneOK
  <1>6. \A c \in late' : c \in late \/ Known(c.user, c.list)'
    BY <1>1 DEF Machine, JobsGrow, Known
  <1>7. \A j \in crontab'[u] :
           jobs'[j].state # "free" /\ jobs'[j].kind = "line" /\ UserOf[jobs'[j].site] = u
    <2> SUFFICES ASSUME NEW j \in crontab'[u]
                 PROVE  jobs'[j].state # "free" /\ jobs'[j].kind = "line" /\ UserOf[jobs'[j].site] = u
      OBVIOUS
    <2>1. j \in Jobs
      BY <1>1 DEF Machine
    <2>2. jobs[j].state # "free" /\ jobs[j].kind = "line" /\ UserOf[jobs[j].site] = u
      BY <1>1 DEF Machine, CronInv, OnlyOwnJobs, Known, Lines
    <2> QED BY <2>1, <2>2 DEF JobsGrow
  <1>8. \A s, t \in Sites :
          sites'[s] = "live" /\ sites'[t] = "live" /\ UserOf[s] = u /\ UserOf[t] = u => s = t
    BY DEF CronInv, OneLive
  <1>9. u \in settled' => NoLate(u)' /\ (\A q \in Procs : ~Busy(q, u)') /\ InStep(u)'
    BY <1>1
  <1>10. Ensures({p}, u)
    BY <1>3, <1>4, <1>5, <1>6, <1>7, <1>8, <1>9 DEF Ensures
  <1> QED BY <1>1, <1>2, <1>10, StepKeeps DEF Kept

LEMMA MachineStays ==
    ASSUME CronTypeOK, UNCHANGED <<accounts, crontab, late>>, NEW p, NEW u
    PROVE  Machine(p, u)
  BY DEF Machine, CronTypeOK

LEMMA MachineCalled ==
    ASSUME CronAssumption, CronInv, NEW p \in Procs, req[p].pc \in {"sync", "useradd", "destroy"},
           NEW ok \in BOOLEAN, Agent(CallOf(req[p]), ok)
    PROVE  /\ Machine(p, UserOf[req[p].site])
           /\ ok => late' = late
           /\ ok /\ req[p].pc = "sync" => crontab'[UserOf[req[p].site]] = Lines(req[p].list)
  <1>1. /\ req[p] \in Request /\ req[p].site \in Sites /\ UserOf[req[p].site] \in Users
        /\ CronTypeOK
    BY Stands DEF CronInv
  <1>2. PICK c \in Call :
           /\ c = CallOf(req[p])
           /\ c.user = UserOf[req[p].site] /\ c.list = req[p].list
           /\ c.op = "sync_cron" <=> req[p].pc = "sync"
    BY <1>1, CallOfType
  <1>3. CallDone(c, ok) /\ late' \subseteq late \cup {c} /\ (ok => late' = late)
    <2>1. Agent(c, ok)
      BY <1>2 DEF Agent, Exec, SyncCron, CreateSiteUser, DestroySite, Installable, Lines
    <2> QED BY <1>1, <2>1, AgentStep
  <1>4. \A v \in Users : v # c.user => crontab'[v] = crontab[v]
    BY <1>3 DEF CallDone
  <1>5. \A j \in crontab'[c.user] : j \in crontab[c.user] \/ j \in Lines(c.list)
    BY <1>3 DEF CallDone
  <1>6. Machine(p, UserOf[req[p].site])
    <2>1. accounts' \subseteq Users /\ crontab' \in [Users -> SUBSET Jobs]
      BY <1>3 DEF CallDone
    <2>2. \A d \in late' : d \in late \/ d = c
      BY <1>3
    <2> QED BY <1>2, <1>4, <1>5, <2>1, <2>2 DEF Machine, Lines
  <1> QED BY <1>2, <1>3, <1>6 DEF CallDone

(* A request that ends without a word to the table.                        *)
LEMMA EndKeeps ==
    ASSUME CronAssumption, CronInv, NEW p \in Procs, req[p].pc # "idle", End(p),
           UNCHANGED <<sites, jobs, settled>>, Machine(p, UserOf[req[p].site])
    PROVE  Kept
  <1>1. req \in [Procs -> Request] /\ CronTypeOK
    BY DEF CronInv, CronTypeOK
  <1>2. Within(p) /\ req'[p].pc = "idle"
    BY <1>1, EndStep DEF Within
  <1> QED BY <1>1, <1>2, JobsStay, WithinKeeps DEF CronTypeOK, CronInv, JobsHaveSite

------------------------------------------------------------------------------
(* The steps of the two handlers.                                          *)

LEMMA FreshJob ==
    ASSUME FreshJobs # {}
    PROVE  (CHOOSE j \in FreshJobs : TRUE) \in FreshJobs
  OBVIOUS

LEMMA InsertJobKeeps ==
    ASSUME CronAssumption, CronInv, NEW p \in Procs, InsertJob(p)
    PROVE  Kept
  <1>0. PICK s \in Sites, u \in Users : s = req[p].site /\ u = UserOf[s]
    BY Stands DEF InsertJob
  <1>1. /\ req[p].pc = "insert" /\ RequestOK(req[p]) /\ AloneOK(p)
        /\ req[p].list \in SUBSET Jobs /\ req \in [Procs -> Request] /\ CronTypeOK
    BY <1>0, Stands DEF InsertJob, Request, CronInv, CronTypeOK
  <1>2. UNCHANGED <<sites, accounts, crontab, late, settled>> /\ Machine(p, u)
    BY <1>1, MachineStays DEF InsertJob
  <1>3. CASE sites[s] = "live" /\ AddJob(s) /\ Goto(p, "list")
    <2>1. PICK j \in Jobs, k \in JobKinds :
             /\ jobs[j].state = "free"
             /\ jobs' = [jobs EXCEPT ![j] = [state |-> "row", site |-> s, kind |-> k]]
      BY <1>3, FreshJob DEF AddJob, FreshJobs
    <2>2. jobs' \in [Jobs -> Job] /\ JobsGrow(u)
      BY <2>1, <1>0, <1>1 DEF JobsGrow, Job, CronTypeOK
    <2>3. /\ Within(p) /\ req'[p].pc = "list" /\ req'[p].site = s
          /\ req'[p].list = req[p].list /\ req'[p].alone = req[p].alone
      BY <1>0, <1>1, <1>3, GotoStep DEF PCs, Within
    <2>4. Known(u, req[p].list)'
      BY <1>0, <1>1, <2>2, <2>3 DEF RequestOK, Known, JobsGrow
    <2>5. AloneOK(p)'
      BY <1>0, <1>1, <1>2, <1>3, <2>3 DEF AloneOK, NoLate, OthersOff, Busy, Within
    <2>6. \A i \in Jobs : jobs'[i].state = "row" => sites'[jobs'[i].site] = "live"
      BY <1>1, <1>2, <1>3, <2>1 DEF CronInv, JobsHaveSite, CronTypeOK
    <2> QED BY <1>0, <1>1, <1>2, <2>2, <2>3, <2>4, <2>5, <2>6, WithinKeeps DEF CronTypeOK
  <1>4. CASE End(p) /\ UNCHANGED jobs
    BY <1>0, <1>1, <1>2, <1>4, EndKeeps
  <1> QED BY <1>0, <1>3, <1>4 DEF InsertJob

LEMMA EraseJobKeeps ==
    ASSUME CronAssumption, CronInv, NEW p \in Procs, EraseJob(p)
    PROVE  Kept
  <1>0. PICK s \in Sites, u \in Users : s = req[p].site /\ u = UserOf[s]
    BY Stands DEF EraseJob
  <1>1. /\ req[p].pc = "erase" /\ RequestOK(req[p]) /\ AloneOK(p)
        /\ req[p].list \in SUBSET Jobs /\ req \in [Procs -> Request] /\ CronTypeOK
    BY <1>0, Stands DEF EraseJob, Request, CronInv, CronTypeOK
  <1>2. UNCHANGED <<sites, accounts, crontab, late, settled>> /\ Machine(p, u)
    BY <1>1, MachineStays DEF EraseJob
  <1>3. PICK j \in Jobs : j = req[p].job /\ jobs[j].site = s
    BY <1>0, <1>1 DEF RequestOK
  <1>4. CASE jobs[j].state = "row" /\ jobs' = [jobs EXCEPT ![j].state = "gone"] /\ Goto(p, "list")
    <2>2. jobs' \in [Jobs -> Job] /\ JobsGrow(u)
      BY <1>0, <1>1, <1>3, <1>4 DEF JobsGrow, Job, CronTypeOK
    <2>3. /\ Within(p) /\ req'[p].pc = "list" /\ req'[p].site = s
          /\ req'[p].list = req[p].list /\ req'[p].alone = req[p].alone
      BY <1>0, <1>1, <1>4, GotoStep DEF PCs, Within
    <2>4. Known(u, req[p].list)'
      BY <1>0, <1>1, <2>2, <2>3 DEF RequestOK, Known, JobsGrow
    <2>5. AloneOK(p)'
      BY <1>0, <1>1, <1>2, <2>3 DEF AloneOK, NoLate, OthersOff, Busy, Within
    <2>6. \A i \in Jobs : jobs'[i].state = "row" => sites'[jobs'[i].site] = "live"
      BY <1>1, <1>2, <1>4 DEF CronInv, JobsHaveSite, CronTypeOK, Job
    <2> QED BY <1>0, <1>1, <1>2, <2>2, <2>3, <2>4, <2>5, <2>6, WithinKeeps DEF CronTypeOK
  <1>5. CASE End(p) /\ UNCHANGED jobs
    BY <1>0, <1>1, <1>2, <1>5, EndKeeps
  <1> QED BY <1>3, <1>4, <1>5 DEF EraseJob

LEMMA ListJobsKeeps ==
    ASSUME CronAssumption, CronInv, NEW p \in Procs, ListJobs(p)
    PROVE  Kept
  <1>0. PICK s \in Sites, u \in Users : s = req[p].site /\ u = UserOf[s]
    BY Stands DEF ListJobs
  <1>1. /\ req[p].pc = "list" /\ RequestOK(req[p]) /\ AloneOK(p)
        /\ req \in [Procs -> Request] /\ CronTypeOK
    BY <1>0, Stands DEF ListJobs, CronInv, CronTypeOK
  <1>2. UNCHANGED <<sites, jobs, accounts, crontab, late, settled>> /\ Machine(p, u) /\ JobsGrow(u)
    BY <1>1, MachineStays, JobsStay DEF ListJobs
  <1>3. JobsOf(s) \in SUBSET Jobs /\ JobsOf(s)' = JobsOf(s)
    BY <1>2 DEF JobsOf
  <1>4. /\ Within(p) /\ req'[p].pc = "sync" /\ req'[p].site = s
        /\ req'[p].list = JobsOf(s) /\ req'[p].alone = req[p].alone
    BY <1>0, <1>1, <1>3 DEF ListJobs, Within, Request, PCs
  <1>5. Known(u, req[p].list)'
    BY <1>0, <1>2, <1>4 DEF JobsOf, Known
  <1>6. AloneOK(p)'
    BY <1>0, <1>1, <1>2, <1>3, <1>4 DEF AloneOK, NoLate, OthersOff, Busy, Within
  <1> QED BY <1>0, <1>1, <1>2, <1>4, <1>5, <1>6, WithinKeeps DEF CronTypeOK, CronInv, JobsHaveSite

(* The one step that settles an account.                                   *)
LEMMA SyncKeeps ==
    ASSUME CronAssumption, CronInv, NEW p \in Procs, Sync(p)
    PROVE  Kept
  <1>0. PICK s \in Sites, u \in Users : s = req[p].site /\ u = UserOf[s]
    BY Stands DEF Sync
  <1>1. /\ req[p].pc = "sync" /\ RequestOK(req[p]) /\ AloneOK(p)
        /\ req \in [Procs -> Request] /\ CronTypeOK
    BY <1>0, Stands DEF Sync, CronInv, CronTypeOK
  <1>2. PICK ok \in BOOLEAN :
           /\ Agent(CallOf(req[p]), ok)
           /\ settled' = IF ok /\ req[p].alone THEN settled \cup {u} ELSE settled
    BY <1>0 DEF Sync
  <1>3. End(p) /\ UNCHANGED <<sites, jobs>>
    BY DEF Sync
  <1>4. /\ Machine(p, u)
        /\ ok => late' = late /\ crontab'[u] = Lines(req[p].list)
    BY <1>0, <1>1, <1>2, MachineCalled
  <1>5. CASE ~(ok /\ req[p].alone)
    BY <1>0, <1>1, <1>2, <1>3, <1>4, <1>5, EndKeeps
  <1>6. CASE ok /\ req[p].alone
    <2>1. /\ NoLate(u) /\ OthersOff(p, u) /\ sites[s] = "live"
          /\ req[p].list = JobsOf(s)
      BY <1>0, <1>1, <1>6 DEF AloneOK
    <2>2. Within(p) /\ req'[p].pc = "idle"
      BY <1>1, <1>3, EndStep DEF Within
    <2>3. NoLate(u)' /\ \A q \in Procs : ~Busy(q, u)'
      BY <1>4, <1>6, <2>1, <2>2 DEF NoLate, OthersOff, Busy, Within
    <2>4. Lines(JobsOf(s))' = Lines(JobsOf(s))
      BY <1>3 DEF Lines, JobsOf
    <2>5. InStep(u)'
      BY <1>0, <1>3, <1>4, <1>6, <2>1, <2>4 DEF InStep, CronInv, OneLive
    <2> QED BY <1>0, <1>1, <1>2, <1>3, <1>4, <1>6, <2>2, <2>3, <2>5, JobsStay, WithinKeeps
            DEF CronTypeOK, CronInv, JobsHaveSite
  <1> QED BY <1>5, <1>6

------------------------------------------------------------------------------
(* The start of a request.  Whoever it meets on the account is not alone   *)
(* any more, and neither is it.                                            *)

LEMMA BeginKeeps ==
    ASSUME CronAssumption, CronInv, NEW p \in Procs, NEW s \in Sites,
           NEW pc \in PCs \ {"idle", "list", "sync"}, NEW j \in Jobs \cup {NoJob},
           Begin(p, Ask(pc, s, j)),
           UNCHANGED <<jobs, accounts, crontab, late>>,
           \/ UNCHANGED sites
           \/ /\ sites' = [sites EXCEPT ![s] = "live"]
              /\ \A t \in Sites : UserOf[t] = UserOf[s] => sites[t] # "live",
           pc = "erase" => j \in Jobs /\ jobs[j].state # "free" /\ jobs[j].site = s,
           pc \in {"insert", "erase"} => sites[s] = "live"
    PROVE  Kept
  <1>0. PICK u \in Users : u = UserOf[s]
    BY DEF CronAssumption
  <1>1. CronTypeOK /\ req \in [Procs -> Request]
    BY DEF CronInv, CronTypeOK
  <1> DEFINE met == {r \in Procs \ {p} : Busy(r, u)}
             q == [Ask(pc, s, j) EXCEPT !.alone = /\ pc \in {"insert", "erase"}
                                                  /\ met = {} /\ \A c \in late : c.user # u]
  <1>2. /\ req[p].pc = "idle"
        /\ req' = [r \in Procs |-> IF r = p THEN q
                                   ELSE IF r \in met THEN [req[r] EXCEPT !.alone = FALSE]
                                   ELSE req[r]]
        /\ settled' = settled \ {u}
    BY <1>0 DEF Begin, Ask
  <1>3. /\ q \in Request
        /\ q.pc = pc /\ q.site = s /\ q.job = j /\ q.list = {}
        /\ q.alone => met = {} /\ NoLate(u)
    BY DEF Ask, Request, NoLate
  <1>4. \A r \in met : [req[r] EXCEPT !.alone = FALSE] \in Request
    BY <1>1 DEF Request
  <1> HIDE DEF q
  <1>5. req' \in [Procs -> Request] /\ req'[p] = q
    BY <1>1, <1>2, <1>3, <1>4
  <1>6. ASSUME NEW r \in Procs \ {p}
        PROVE  /\ req'[r].pc = req[r].pc /\ req'[r].site = req[r].site
               /\ req'[r].job = req[r].job /\ req'[r].list = req[r].list
               /\ req'[r].alone => req[r].alone
               /\ Busy(r, u) => ~req'[r].alone
    <2>1. req[r] \in Request
      BY <1>1
    <2>2. CASE r \in met
      BY <1>2, <2>1, <2>2 DEF Request
    <2>3. CASE r \notin met
      BY <1>2, <2>3
    <2> QED BY <2>2, <2>3
  <1>7. JobsGrow(u)
    BY JobsStay
  <1>8. Touches({p}, u)
    <2>1. \A t \in Sites : UserOf[t] # u => sites'[t] = sites[t]
      BY <1>0, <1>1 DEF CronTypeOK
    <2>2. \A v \in Users : Busy(p, v)' => v = u
      BY <1>0, <1>3, <1>5 DEF Busy
    <2> QED BY <1>2, <1>6, <1>7, <2>1, <2>2 DEF Touches
  <1>9. CronTypeOK'
    BY <1>1, <1>2, <1>5 DEF CronTypeOK, Call
  <1>10. RequestOK(req[p])'
    BY <1>3, <1>5 DEF RequestOK, Known
  <1>11. AloneOK(p)'
    <2> SUFFICES ASSUME met = {}, NoLate(u) PROVE AloneOK(p)'
      BY <1>3, <1>5 DEF AloneOK
    <2>1. NoLate(u)'
      BY DEF NoLate
    <2>2. OthersOff(p, u)'
      BY <1>6 DEF OthersOff, Busy
    <2>3. pc \in {"insert", "erase"} => sites'[s] = "live"
      BY <1>1 DEF CronTypeOK
    <2> QED BY <1>0, <1>3, <1>5, <2>1, <2>2, <2>3 DEF AloneOK, NoLate, OthersOff, Busy, PCs
  <1>12. \A i \in Jobs : jobs'[i].state = "row" => sites'[jobs'[i].site] = "live"
    BY <1>1 DEF CronInv, JobsHaveSite, JobInv, CronTypeOK
  <1>13. \A t, v \in Sites :
           sites'[t] = "live" /\ sites'[v] = "live" /\ UserOf[t] = u /\ UserOf[v] = u => t = v
    BY <1>0, <1>1 DEF CronInv, OneLive, CronTypeOK
  <1>14. \A i \in crontab'[u] :
           jobs'[i].state # "free" /\ jobs'[i].kind = "line" /\ UserOf[jobs'[i].site] = u
    BY DEF CronInv, OnlyOwnJobs
  <1>15. Ensures({p}, u)
    BY <1>2, <1>9, <1>10, <1>11, <1>12, <1>13, <1>14 DEF Ensures
  <1> QED BY <1>8, <1>15, StepKeeps DEF Kept

LEMMA CreateCronKeeps ==
    ASSUME CronAssumption, CronInv, NEW p \in Procs, CreateCron(p)
    PROVE  Kept
  <1>1. PICK s \in Sites : sites[s] = "live" /\ Begin(p, Ask("insert", s, NoJob))
    BY DEF CreateCron
  <1> QED BY <1>1, BeginKeeps DEF CreateCron, PCs

LEMMA DeleteCronKeeps ==
    ASSUME CronAssumption, CronInv, NEW p \in Procs, DeleteCron(p)
    PROVE  Kept
  <1>1. PICK j \in Jobs :
           /\ jobs[j].state # "free"
           /\ sites[jobs[j].site] = "live"
           /\ Begin(p, Ask("erase", jobs[j].site, j))
    BY DEF DeleteCron
  <1>2. PICK s \in Sites : s = jobs[j].site
    BY <1>1 DEF CronInv, JobInv
  <1>3. Begin(p, Ask("erase", s, j))
    BY <1>1, <1>2 DEF Begin, Ask, Busy
  <1> QED BY <1>1, <1>2, <1>3, BeginKeeps DEF DeleteCron, PCs

------------------------------------------------------------------------------
(* Sites.                                                                  *)

LEMMA NextIsFree ==
    ASSUME NEW s \in NextSites
    PROVE  s \in Sites /\ sites[s] = "free"
  <1>1. PICK t \in Sites :
           /\ sites[t] = "free"
           /\ s = CHOOSE r \in Sites : sites[r] = "free" /\ UserOf[r] = UserOf[t]
    BY DEF NextSites
  <1> QED BY <1>1

LEMMA OrderSiteKeeps ==
    ASSUME CronAssumption, CronInv, NEW p \in Procs, OrderSite(p)
    PROVE  Kept
  <1>1. PICK s \in Sites :
           /\ \A t \in Sites : UserOf[t] = UserOf[s] => sites[t] # "live"
           /\ Begin(p, Ask("useradd", s, NoJob))
           /\ sites' = [sites EXCEPT ![s] = "live"]
    BY NextIsFree DEF OrderSite
  <1> QED BY <1>1, BeginKeeps DEF OrderSite, PCs

LEMMA RemoveSiteKeeps ==
    ASSUME CronAssumption, CronInv, NEW p \in Procs, RemoveSite(p)
    PROVE  Kept
  <1>1. PICK s \in Sites : sites[s] = "live" /\ Begin(p, Ask("destroy", s, NoJob))
    BY DEF RemoveSite
  <1> QED BY <1>1, BeginKeeps DEF RemoveSite, PCs

LEMMA MakeAccountKeeps ==
    ASSUME CronAssumption, CronInv, NEW p \in Procs, MakeAccount(p)
    PROVE  Kept
  <1>1. PICK ok \in BOOLEAN : Agent(CallOf(req[p]), ok)
    BY DEF MakeAccount
  <1>2. Machine(p, UserOf[req[p].site])
    BY <1>1, MachineCalled DEF MakeAccount
  <1> QED BY <1>2, EndKeeps DEF MakeAccount

LEMMA DestroyKeeps ==
    ASSUME CronAssumption, CronInv, NEW p \in Procs, Destroy(p)
    PROVE  Kept
  <1>0. PICK s \in Sites, u \in Users : s = req[p].site /\ u = UserOf[s]
    BY Stands DEF Destroy
  <1>1. /\ req[p].pc = "destroy" /\ RequestOK(req[p]) /\ AloneOK(p)
        /\ req \in [Procs -> Request] /\ CronTypeOK
    BY <1>0, Stands DEF Destroy, CronInv, CronTypeOK
  <1>2. PICK ok \in BOOLEAN :
           Agent(CallOf(req[p]), ok) /\ (IF ok THEN Goto(p, "drop") ELSE End(p))
    BY DEF Destroy
  <1>3. UNCHANGED <<sites, jobs, settled>>
    BY DEF Destroy
  <1>4. Machine(p, u) /\ (ok => late' = late)
    BY <1>0, <1>1, <1>2, MachineCalled
  <1>5. CASE ~ok
    BY <1>0, <1>1, <1>2, <1>3, <1>4, <1>5, EndKeeps
  <1>6. CASE ok
    <2>1. /\ Within(p) /\ req'[p].pc = "drop" /\ req'[p].site = s
          /\ req'[p].list = req[p].list /\ req'[p].alone = req[p].alone
      BY <1>0, <1>1, <1>2, <1>6, GotoStep DEF PCs, Within
    <2>2. Known(u, req[p].list)'
      BY <1>0, <1>1, <1>3, <2>1 DEF RequestOK, Known
    <2>3. AloneOK(p)'
      BY <1>0, <1>1, <1>4, <1>6, <2>1 DEF AloneOK, NoLate, OthersOff, Busy, Within
    <2> QED BY <1>0, <1>1, <1>3, <1>4, <2>1, <2>2, <2>3, JobsStay, WithinKeeps
            DEF CronTypeOK, CronInv, JobsHaveSite
  <1> QED BY <1>5, <1>6

LEMMA DropSiteKeeps ==
    ASSUME CronAssumption, CronInv, NEW p \in Procs, DropSite(p)
    PROVE  Kept
  <1>0. PICK s \in Sites, u \in Users : s = req[p].site /\ u = UserOf[s]
    BY Stands DEF DropSite
  <1>1. req[p].pc = "drop" /\ req \in [Procs -> Request] /\ CronTypeOK
    BY DEF DropSite, CronInv, CronTypeOK
  <1>2. /\ UNCHANGED <<accounts, crontab, late, settled>> /\ Machine(p, u)
        /\ sites' = [sites EXCEPT ![s] = "deleted"] /\ Cascade({s}) /\ End(p)
    BY <1>0, <1>1, MachineStays DEF DropSite
  <1>3. Within(p) /\ req'[p].pc = "idle"
    BY <1>1, <1>2, EndStep DEF Within
  <1>4. jobs' \in [Jobs -> Job] /\ JobsGrow(u)
    BY <1>0, <1>1, <1>2 DEF Cascade, JobsGrow, Job, CronTypeOK
  <1>5. \A j \in Jobs : jobs'[j].state = "row" => sites'[jobs'[j].site] = "live"
    BY <1>1, <1>2 DEF Cascade, CronInv, JobsHaveSite, JobInv, CronTypeOK, Job
  <1> QED BY <1>0, <1>1, <1>2, <1>3, <1>4, <1>5, WithinKeeps DEF CronTypeOK

------------------------------------------------------------------------------
(* All of them.                                                            *)

LEMMA HandleKeeps ==
    ASSUME CronAssumption, CronInv, NEW p \in Procs, Handle(p)
    PROVE  CronInv' /\ (SettledInStep => SettledInStep')
  BY CreateCronKeeps, InsertJobKeeps, DeleteCronKeeps, EraseJobKeeps, ListJobsKeeps, SyncKeeps,
     OrderSiteKeeps, MakeAccountKeeps, RemoveSiteKeeps, DestroyKeeps, DropSiteKeeps
     DEF Handle, Kept

(* A late call is a step on its account by no request.                     *)
LEMMA RunLateKeeps ==
    ASSUME CronAssumption, CronInv, RunLate
    PROVE  CronInv' /\ (SettledInStep => SettledInStep')
  <1>1. PICK c \in late, ok \in BOOLEAN : Exec(c, ok) /\ late' = late \ {c}
    BY DEF RunLate
  <1>2. UNCHANGED <<sites, jobs, req, settled>> /\ CronTypeOK
    BY DEF RunLate, CronInv
  <1>3. PICK u \in Users : u = c.user
    BY <1>2 DEF CronTypeOK, Call
  <1>4. c \in Call /\ CallDone(c, ok) /\ Known(u, c.list)
    BY <1>1, <1>2, <1>3, ExecStep DEF CronTypeOK, CronInv, LateInv
  <1>5. ~NoLate(u) /\ u \notin settled
    BY <1>3 DEF NoLate, CronInv, SettledInv
  <1>6. Touches({}, u)
    BY <1>1, <1>2, <1>3, <1>4, <1>5, JobsStay DEF Touches, CallDone
  <1>7. CronTypeOK'
    BY <1>1, <1>2, <1>4 DEF CronTypeOK, CallDone
  <1>8. \A j \in crontab'[u] :
          jobs'[j].state # "free" /\ jobs'[j].kind = "line" /\ UserOf[jobs'[j].site] = u
    BY <1>2, <1>3, <1>4 DEF CallDone, Known, Lines, CronInv, OnlyOwnJobs
  <1>9. Ensures({}, u)
    BY <1>1, <1>2, <1>5, <1>7, <1>8 DEF Ensures, CronInv, JobsHaveSite, OneLive
  <1> QED BY <1>6, <1>9, StepKeeps

(* Nobody at work, nothing in the crontabs but known jobs of live sites.   *)
LEMMA CronStartOK ==
    ASSUME CronAssumption, NEW live \in SUBSET Sites, NEW known \in SUBSET Jobs,
           \A s, t \in live : UserOf[s] = UserOf[t] => s = t,
           CronStart(live, known)
    PROVE  CronInv /\ SettledInStep
  <1>1. PICK home \in live \cup {NoSite} :
          /\ home = NoSite => known = {}
          /\ jobs = [j \in Jobs |-> IF j \in known
                                   THEN [state |-> "row", site |-> home, kind |-> "line"]
                                   ELSE NoRow]
          /\ crontab = [u \in Users |-> {j \in known : UserOf[home] = u}]
    BY DEF CronStart
  <1>2. /\ sites = [s \in Sites |-> IF s \in live THEN "live" ELSE "free"]
        /\ accounts = {UserOf[s] : s \in live}
        /\ req = [p \in Procs |-> Idle] /\ late = {} /\ settled = {}
    BY DEF CronStart
  <1>3. Idle \in Request /\ Idle.pc = "idle"
    BY DEF Idle, Ask, Request, PCs
  <1>4. jobs \in [Jobs -> Job]
    BY <1>1 DEF NoRow, Job, JobKinds
  <1>5. CronTypeOK
    BY <1>1, <1>2, <1>3, <1>4 DEF CronTypeOK, CronAssumption
  <1>6. RequestInv /\ AloneInv /\ LateInv /\ SettledInv /\ SettledInStep
    BY <1>2, <1>3 DEF RequestInv, RequestOK, AloneInv, AloneOK, LateInv, SettledInv, SettledInStep
  <1>7. JobInv /\ OnlyOwnJobs /\ JobsHaveSite
    BY <1>1, <1>2 DEF JobInv, OnlyOwnJobs, JobsHaveSite, NoRow
  <1>8. OneLive
    BY <1>2 DEF OneLive
  <1> QED BY <1>5, <1>6, <1>7, <1>8 DEF CronInv
==============================================================================
