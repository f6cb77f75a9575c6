-------------------------- MODULE StripeOrdersProofs --------------------------
(***************************************************************************)
(* Orders paid with Stripe, for any number of sessions, clients, domains   *)
(* and requests, with deletions and edits from the panel, failures, lost   *)
(* answers and crashes.                                                    *)
(*                                                                         *)
(* StripeOrders adds to Provisioning only what the orders remember, so     *)
(* every theorem about the table and the machine carries over              *)
(* (OrdersProvision).  What is new is the tie between an order, the row it *)
(* is building and the mail it will send (Built), that no site comes up    *)
(* without such a mail (ToldInv), and that all of it together keeps the    *)
(* promise made to a paying client (PaidSites, ImplementsPaidSites).       *)
(***************************************************************************)
EXTENDS StripeOrders, ProvisioningProofs

(* What a request called by an order may be at, and with a row under way.  *)
UnderWay == BuildSteps \cup {"activate", "mark_error"}
CreatePCs == UnderWay \cup {"redestroy", "drop", "admit", "suffix", "insert"}

(* A request of the panel.                                                 *)
FromPanel(q) ==
    /\ q.pc \in {"idle", "destroy", "drop", "edit", "save"}
    /\ q.pc # "idle" => q.kind # "create"

ForOrder(q, s) ==
    q.pc \in CreatePCs /\ q.kind = "create" /\ q.row.domain = DomainOf[s]

SiteFor(s, i) == i \in Ids /\ sites[i].status # "free" /\ sites[i].domain = DomainOf[s]

(* MarkStripeSession, whose error is dropped, does not fail.               *)
Recorded == "mark_session" \notin FailingOps

OrderOK(p) ==
    LET o == ord[p]
    IN  /\ o.pc = "idle" => FromPanel(req[p])
        /\ o.pc \notin {"idle", "build"} => req[p].pc = "idle"
        /\ o.pc # "idle" => o.session \in Sessions /\ Paid(o.session)
        /\ o.pc = "build" => ForOrder(req[p], o.session)
        /\ o.pc \notin {"idle", "mark", "answer"} => ~o.found
        /\ o.pc \in {"reload", "mark", "mail", "answer"} => SiteFor(o.session, o.id)
        /\ Recorded /\ o.pc \in {"mail", "answer"} => done[o.session] # NoId

(* The order of slot p has built row i, and has no mail sent for it yet.   *)
Built(p, i) ==
    \/ ord[p].pc = "build" /\ req[p].pc \in UnderWay /\ req[p].id = i
    \/ ord[p].pc \in {"reload", "mark", "mail"} /\ ~ord[p].found /\ ord[p].id = i

OrderTypes ==
    /\ pay \in [Sessions -> PayStates]
    /\ events \subseteq Event
    /\ done \in [Sessions -> Ids \cup {NoId}]
    /\ users \subseteq Emails
    /\ owner \in [Ids -> Emails \cup {NoEmail}]
    /\ mails \subseteq Mail
    /\ ord \in [Procs -> Order]

EventsOK == \A e \in events : e.paid => Paid(e.session)

DoneOK == \A s \in Sessions : done[s] # NoId => Paid(s) /\ SiteFor(s, done[s])

PaidFor(i) ==
    \E s \in Sessions : Paid(s) /\ EmailOf[s] = owner[i] /\ DomainOf[s] = sites[i].domain

RowsOK == \A i \in Ids : sites[i].status # "free" => PaidFor(i)

BuiltOK ==
    \A p \in Procs, i \in Ids : Built(p, i) =>
        /\ owner[i] = Email(p)
        /\ \A m \in mails : m.id # i
        /\ \A r \in Procs : Built(r, i) => r = p

MailsOK ==
    \A m \in mails :
        /\ sites[m.id].status # "free"
        /\ EmailOf[m.session] = owner[m.id]
        /\ \A n \in mails : m.id = n.id => m = n

AnswersOK == Recorded => AnsweredIsProcessed

OrdersInv ==
    /\ IndInv /\ OrderTypes
    /\ \A p \in Procs : OrderOK(p)
    /\ EventsOK /\ DoneOK /\ RowsOK /\ BuiltOK /\ MailsOK /\ AnswersOK

OrdersAssumptions == Assumptions /\ OrdersAssumption

------------------------------------------------------------------------------
(* Every step of StripeOrders is one of Provisioning.                      *)

LEMMA StepOfProvisioning ==
    ASSUME OrdersAssumption, OrderTypes, [OrdersNext]_allVars,
           \A p \in Procs : ord[p].pc # "idle" => ord[p].session \in Sessions
    PROVE  [Next]_vars
  <1>1. ASSUME NEW p \in Procs, Provision(p) PROVE [Next]_vars
    <2>1. DomainOf[ord[p].session] \in Domains /\ AppOf[ord[p].session] \in Apps
      BY <1>1 DEF Provision, At, OrdersAssumption
    <2>2. UNCHANGED vars \/ Lookup(p, DomainOf[ord[p].session], AppOf[ord[p].session])
      BY <1>1 DEF Provision
    <2> QED BY <2>1, <2>2 DEF Next
  <1>2. ASSUME NEW p \in Procs, Build(p) \/ Panel(p) PROVE [Next]_vars
    BY <1>2 DEF Build, Panel, Next
  <1>3. CASE UNCHANGED vars
    BY <1>3
  <1>4. CASE CrashOrders
    BY <1>4 DEF CrashOrders, Next
  <1>5. ASSUME NEW p \in Procs, NEW e \in events, Webhook(p, e) PROVE UNCHANGED vars
    BY <1>5 DEF Webhook
  <1>6. ASSUME NEW p \in Procs, Fulfil(p), ~Provision(p), ~Build(p) PROVE UNCHANGED vars
    BY <1>6 DEF Fulfil, FindUser, CreateUser, Reload, Mark, SendWelcome, Answer
  <1>7. ASSUME NEW s \in Sessions,
               \/ Checkout(s) \/ Settle(s)
               \/ \E paid \in BOOLEAN : Complete(s, paid)
               \/ \E p \in Procs : Poll(p, s)
        PROVE  UNCHANGED vars
    BY <1>7 DEF Checkout, Settle, Complete, Poll
  <1> QED BY <1>1, <1>2, <1>3, <1>4, <1>5, <1>6, <1>7 DEF OrdersNext, allVars

(* Every variable of the orders keeps its type.                            *)
LEMMA OrdersTyped ==
    ASSUME OrdersAssumptions, OrdersInv, [OrdersNext]_allVars
    PROVE  OrderTypes'
  <1>1. /\ OrderTypes /\ req \in [Procs -> Request] /\ sites \in [Ids -> Row]
        /\ \A p \in Procs : OrderOK(p)
    BY DEF OrdersInv, IndInv, TypeOK
  <1>2. ASSUME NEW p \in Procs, ord[p].pc # "idle"
        PROVE  /\ ord[p] \in Order /\ ord[p].session \in Sessions
               /\ Email(p) \in Emails
    BY <1>1, <1>2 DEF OrderOK, OrderTypes, Email, OrdersAssumptions, OrdersAssumption
  <1>3. NoOrder \in Order /\ \A s \in Sessions, via \in {"webhook", "poll"} :
                                NewOrder(s, via) \in Order
    BY DEF NoOrder, NewOrder, Order
  <1>4. ASSUME NEW p \in Procs, NEW o \in Order, Goto(p, o)
        PROVE  ord' \in [Procs -> Order]
    BY <1>1, <1>4 DEF Goto, OrderTypes
  <1>5. ASSUME NEW p \in Procs, ord[p].pc # "idle",
               NEW pc \in {"provision", "create_user", "build", "reload", "mark", "mail",
                           "answer"},
               NEW i \in Ids \cup {NoId}, NEW f \in BOOLEAN, NEW b \in BOOLEAN
        PROVE  /\ [ord[p] EXCEPT !.pc = pc] \in Order
               /\ [ord[p] EXCEPT !.pc = pc, !.pass = b] \in Order
               /\ [ord[p] EXCEPT !.pc = pc, !.id = i] \in Order
               /\ [ord[p] EXCEPT !.pc = pc, !.id = i, !.found = f] \in Order
    BY <1>2, <1>5 DEF Order
  <1>6. ASSUME NEW s \in Sessions,
               \/ Checkout(s) \/ Settle(s)
               \/ \E paid \in BOOLEAN : Complete(s, paid)
        PROVE  OrderTypes'
    BY <1>1, <1>6 DEF Checkout, Settle, Complete, OrderTypes, PayStates, Event
  <1>7. ASSUME NEW p \in Procs, NEW e \in events, Webhook(p, e) PROVE OrderTypes'
    <2>1. e.session \in Sessions /\ events' \subseteq events
      BY <1>1, <1>7 DEF Webhook, Answered, OrderTypes, Event
    <2>2. ord' \in [Procs -> Order]
      BY <1>1, <1>3, <1>4, <1>7, <2>1 DEF Webhook, OrderTypes
    <2> QED BY <1>1, <1>7, <2>1, <2>2 DEF Webhook, OrderTypes
  <1>8. ASSUME NEW p \in Procs, NEW s \in Sessions, Poll(p, s) PROVE OrderTypes'
    <2>1. ord' \in [Procs -> Order]
      BY <1>3, <1>4, <1>8 DEF Poll
    <2> QED BY <1>1, <1>8, <2>1 DEF Poll, OrderTypes
  <1>9. ASSUME NEW p \in Procs, Fulfil(p) PROVE OrderTypes'
    <2>0. ord[p].pc # "idle"
      BY <1>9 DEF Fulfil, FindUser, CreateUser, Provision, Build, Reload, Mark, SendWelcome,
         Answer, At
    <2>1. ord[p] \in Order /\ ord[p].session \in Sessions /\ Email(p) \in Emails
      BY <1>2, <2>0
    <2>2. CASE FindUser(p)
      <3>1. ord' \in [Procs -> Order]
        BY <1>3, <1>4, <1>5, <2>0, <2>2 DEF FindUser
      <3> QED BY <1>1, <2>2, <3>1 DEF FindUser, OrderTypes
    <2>3. CASE CreateUser(p)
      <3>1. ord' \in [Procs -> Order]
        BY <1>3, <1>4, <1>5, <2>0, <2>3 DEF CreateUser
      <3> QED BY <1>1, <2>1, <2>3, <3>1 DEF CreateUser, OrderTypes
    <2>4. CASE Provision(p)
      <3>1. ord' \in [Procs -> Order]
        BY <1>4, <1>5, <2>0, <2>4 DEF Provision
      <3> QED BY <1>1, <2>4, <3>1 DEF Provision, OrderTypes
    <2>5. CASE Build(p)
      <3>1. req[p].id \in Ids \cup {NoId}
        BY <1>1 DEF Request
      <3>2. ord' \in [Procs -> Order]
        <4>1. \/ Goto(p, ord[p])
              \/ Goto(p, [ord[p] EXCEPT !.pc = "reload", !.id = req[p].id])
              \/ Goto(p, NoOrder)
          BY <2>5 DEF Build
        <4> QED BY <1>3, <1>4, <1>5, <2>0, <2>1, <3>1, <4>1
      <3>3. owner' \in [Ids -> Emails \cup {NoEmail}]
        BY <1>1, <2>1, <2>5 DEF Build, OrderTypes
      <3> QED BY <1>1, <2>5, <3>2, <3>3 DEF Build, OrderTypes
    <2>6. CASE Reload(p)
      <3>1. ord' \in [Procs -> Order]
        BY <1>3, <1>4, <1>5, <2>0, <2>6 DEF Reload
      <3> QED BY <1>1, <2>6, <3>1 DEF Reload, OrderTypes
    <2>7. CASE Mark(p)
      <3>1. ord[p].id \in Ids
        BY <1>1, <2>7 DEF Mark, At, OrderOK, SiteFor
      <3>2. ord' \in [Procs -> Order]
        BY <1>4, <1>5, <2>0, <2>7 DEF Mark
      <3>3. done' \in [Sessions -> Ids \cup {NoId}]
        BY <1>1, <2>1, <2>7, <3>1 DEF Mark, OrderTypes
      <3> QED BY <1>1, <2>7, <3>2, <3>3 DEF Mark, OrderTypes
    <2>8. CASE SendWelcome(p)
      <3>1. ord[p].id \in Ids
        BY <1>1, <2>8 DEF SendWelcome, At, OrderOK, SiteFor
      <3>2. ord' \in [Procs -> Order]
        BY <1>4, <1>5, <2>0, <2>8 DEF SendWelcome
      <3>3. mails' \subseteq Mail
        BY <1>1, <2>1, <2>8, <3>1 DEF SendWelcome, OrderTypes, Mail, Order
      <3> QED BY <1>1, <2>8, <3>2, <3>3 DEF SendWelcome, OrderTypes
    <2>9. CASE Answer(p)
      <3>1. ord' \in [Procs -> Order]
        BY <1>3, <1>4, <2>9 DEF Answer
      <3> QED BY <1>1, <2>9, <3>1 DEF Answer, Answered, OrderTypes
    <2> QED BY <1>9, <2>2, <2>3, <2>4, <2>5, <2>6, <2>7, <2>8, <2>9 DEF Fulfil
  <1>10. ASSUME NEW p \in Procs, Panel(p) PROVE OrderTypes'
    BY <1>1, <1>10 DEF Panel, orderVars, OrderTypes
  <1>11. CASE CrashOrders
    BY <1>1, <1>3, <1>11 DEF CrashOrders, OrderTypes
  <1>12. CASE UNCHANGED allVars
    BY <1>1, <1>12 DEF allVars, orderVars, OrderTypes
  <1> QED BY <1>6, <1>7, <1>8, <1>9, <1>10, <1>11, <1>12 DEF OrdersNext

------------------------------------------------------------------------------
(* What every step gives: who paid and which sessions are on record only   *)
(* grows, and the slots outside P are left alone.                          *)

PaidGrows == \A s \in Sessions : Paid(s) => Paid(s)'

DoneStep ==
    \A s \in Sessions :
        \/ done'[s] = done[s]
        \/ done'[s] # NoId /\ Paid(s)' /\ SiteFor(s, done[s])'

EventsStep == \A e \in events' : e \in events \/ (e.paid => Paid(e.session)')

(* A row gets its owner with the INSERT.                                   *)
OwnerStep ==
    \A i \in Ids :
        \/ sites[i].status # "free" /\ owner'[i] = owner[i]
        \/ sites'[i].status = "free"
        \/ sites[i].status = "free" /\ PaidFor(i)'

(* Mail m, if it is new, is from an order of P for the row it built, and   *)
(* such an order is done with the row.                                     *)
MailStep(P, m) ==
    \/ mails' = mails
    \/ /\ mails' = mails \cup {m}
       /\ \E p \in P : Built(p, m.id) /\ EmailOf[m.session] = Email(p)
       /\ \A p \in P, i \in Ids : ~Built(p, i)'

SlotsStep(P) ==
    /\ \A r \in Procs \ P : ord'[r] = ord[r] /\ req'[r] = req[r]
    /\ \A p \in P : OrderOK(p)'
    /\ \A p \in P, i \in Ids : Built(p, i)' =>
          \/ Built(p, i) /\ ord'[p].session = ord[p].session
          \/ sites[i].status = "free" /\ P = {p} /\ owner'[i] = Email(p)'

(* A row an order built, or a mail is about, exists.                       *)
LEMMA BuiltRow ==
    ASSUME OrdersInv, NEW p \in Procs, NEW i \in Ids, Built(p, i)
    PROVE  sites[i].status # "free"
  <1>1. CASE req[p].pc \in UnderWay /\ req[p].id = i
    <2>1. HoldOK(sites, req[p])
      BY DEF OrdersInv, IndInv, RequestInv, RequestOK
    <2> QED BY <1>1, <2>1 DEF HoldOK, HoldPCs, UnderWay
  <1>2. CASE ord[p].pc \in {"reload", "mark", "mail"} /\ ord[p].id = i
    BY <1>2 DEF OrdersInv, OrderOK, SiteFor
  <1> QED BY <1>1, <1>2 DEF Built

LEMMA StepKeeps ==
    ASSUME OrdersInv, IndInv', OrderTypes', SitesStep, PaidGrows, DoneStep, EventsStep,
           OwnerStep, NEW P \in SUBSET Procs, SlotsStep(P), NEW m, MailStep(P, m),
           AnswersOK'
    PROVE  OrdersInv'
  <1>0. /\ OrderTypes /\ EventsOK /\ DoneOK /\ RowsOK /\ BuiltOK /\ MailsOK
        /\ \A p \in Procs : OrderOK(p)
    BY DEF OrdersInv
  <1>1. ASSUME NEW r \in Procs PROVE OrderOK(r)'
    <2>1. CASE r \in P
      BY <2>1 DEF SlotsStep
    <2>2. CASE r \notin P
      <3>1. ord'[r] = ord[r] /\ req'[r] = req[r]
        BY <2>2 DEF SlotsStep
      <3>2. ASSUME ord[r].pc # "idle"
            PROVE  /\ Paid(ord[r].session)'
                   /\ done[ord[r].session] # NoId => done'[ord[r].session] # NoId
        <4>1. ord[r].session \in Sessions /\ Paid(ord[r].session)
          BY <1>0, <3>2 DEF OrderOK
        <4> QED BY <3>1, <4>1 DEF PaidGrows, DoneStep, Paid
      <3>3. SiteFor(ord[r].session, ord[r].id) => SiteFor(ord[r].session, ord[r].id)'
        BY <3>1, ClaimsKept DEF SiteFor
      <3>4. OrderOK(r)
        BY <1>0
      <3> QED BY <3>1, <3>2, <3>3, <3>4 DEF OrderOK, FromPanel, ForOrder, Paid, SiteFor
    <2> QED BY <2>1, <2>2
  <1>2. EventsOK'
    <2>1. \A e \in events : e.paid => e.session \in Sessions /\ Paid(e.session)
      BY <1>0 DEF EventsOK, OrderTypes, Event
    <2> QED BY <2>1 DEF EventsStep, PaidGrows, EventsOK, Paid
  <1>3. DoneOK'
    <2>1. ASSUME NEW s \in Sessions, done'[s] # NoId
          PROVE  Paid(s)' /\ SiteFor(s, done[s])'
      <3>1. CASE done'[s] = done[s]
        <4>1. Paid(s) /\ SiteFor(s, done[s])
          BY <1>0, <2>1, <3>1 DEF DoneOK
        <4> QED BY <3>1, <4>1, ClaimsKept DEF PaidGrows, SiteFor
      <3> QED BY <3>1 DEF DoneStep
    <2> QED BY <2>1 DEF DoneOK
  <1>4. RowsOK'
    <2>1. ASSUME NEW i \in Ids, sites'[i].status # "free"
          PROVE  PaidFor(i)'
      <3>1. CASE sites[i].status # "free" /\ owner'[i] = owner[i]
        <4>1. PICK s \in Sessions :
                 Paid(s) /\ EmailOf[s] = owner[i] /\ DomainOf[s] = sites[i].domain
          BY <1>0, <3>1 DEF RowsOK, PaidFor
        <4>2. sites'[i].domain = sites[i].domain /\ Paid(s)'
          BY <3>1, <4>1, ClaimsKept DEF PaidGrows
        <4> QED BY <3>1, <4>1, <4>2 DEF PaidFor
      <3> QED BY <2>1, <3>1 DEF OwnerStep
    <2> QED BY <2>1 DEF RowsOK
  <1>5. ASSUME NEW i \in Ids, sites[i].status # "free"
        PROVE  owner'[i] = owner[i] /\ sites'[i].status # "free"
    BY <1>5, ClaimsKept DEF OwnerStep
  <1>6. ASSUME NEW r \in Procs, NEW i \in Ids, Built(r, i)'
        PROVE  \/ Built(r, i) /\ ord'[r].session = ord[r].session
               \/ sites[i].status = "free" /\ P = {r} /\ owner'[i] = Email(r)'
    <2>1. CASE r \in P
      BY <1>6, <2>1 DEF SlotsStep
    <2>2. CASE r \notin P
      BY <1>6, <2>2 DEF SlotsStep, Built
    <2> QED BY <2>1, <2>2
  <1>7. ASSUME NEW p \in Procs, NEW i \in Ids, Built(p, i)'
        PROVE  /\ owner'[i] = Email(p)'
               /\ \A n \in mails' : n.id # i
               /\ \A r \in Procs : Built(r, i)' => r = p
    <2>1. CASE Built(p, i) /\ ord'[p].session = ord[p].session
      <3>1. /\ sites[i].status # "free" /\ owner[i] = Email(p)
            /\ \A n \in mails : n.id # i
            /\ \A r \in Procs : Built(r, i) => r = p
        BY <1>0, <2>1, BuiltRow DEF BuiltOK
      <3>2. owner'[i] = Email(p)'
        BY <1>5, <2>1, <3>1 DEF Email
      <3>3. ASSUME mails' # mails PROVE m.id # i
        <4>1. PICK q \in P : Built(q, m.id) /\ \A j \in Ids : ~Built(q, j)'
          BY <3>3 DEF MailStep
        <4>2. q # p
          BY <1>7, <4>1
        <4> QED BY <3>1, <4>1, <4>2
      <3>4. \A n \in mails' : n.id # i
        BY <3>1, <3>3 DEF MailStep
      <3>5. \A r \in Procs : Built(r, i)' => r = p
        BY <1>6, <3>1
      <3> QED BY <3>2, <3>4, <3>5
    <2>2. CASE sites[i].status = "free" /\ P = {p} /\ owner'[i] = Email(p)'
      <3>1. \A n \in mails : n.id # i
        BY <1>0, <2>2 DEF MailsOK
      <3>2. mails' = mails
        BY <1>7, <2>2 DEF MailStep
      <3>3. \A r \in Procs : ~Built(r, i)
        BY <2>2, BuiltRow
      <3>4. \A r \in Procs : Built(r, i)' => r = p
        BY <1>6, <2>2, <3>3
      <3> QED BY <2>2, <3>1, <3>2, <3>4
    <2> QED BY <1>6, <1>7, <2>1, <2>2
  <1>8. MailsOK'
    <2>1. \A n \in mails : n.id \in Ids
      BY <1>0 DEF OrderTypes, Mail
    <2>2. ASSUME NEW n \in mails
          PROVE  /\ sites'[n.id].status # "free"
                 /\ EmailOf[n.session] = owner'[n.id]
      BY <1>0, <1>5, <2>1 DEF MailsOK
    <2>3. ASSUME mails' # mails
          PROVE  /\ sites'[m.id].status # "free"
                 /\ EmailOf[m.session] = owner'[m.id]
                 /\ \A n \in mails : n.id # m.id
      <3>1. PICK q \in P : Built(q, m.id) /\ EmailOf[m.session] = Email(q)
        BY <2>3 DEF MailStep
      <3>2. m.id \in Ids
        BY <2>3 DEF MailStep, OrderTypes, Mail
      <3>3. owner[m.id] = Email(q) /\ \A n \in mails : n.id # m.id
        BY <1>0, <3>1, <3>2 DEF BuiltOK
      <3>4. sites[m.id].status # "free"
        BY <3>1, <3>2, BuiltRow
      <3> QED BY <1>5, <3>1, <3>2, <3>3, <3>4
    <2>4. \A n, k \in mails : n.id = k.id => n = k
      BY <1>0 DEF MailsOK
    <2>5. CASE mails' = mails
      BY <2>2, <2>4, <2>5 DEF MailsOK
    <2>6. CASE mails' = mails \cup {m} /\ mails' # mails
      BY <2>2, <2>3, <2>4, <2>6 DEF MailsOK
    <2> QED BY <2>5, <2>6 DEF MailStep
  <1>9. BuiltOK'
    BY <1>7 DEF BuiltOK
  <1> QED BY <1>1, <1>2, <1>3, <1>4, <1>8, <1>9 DEF OrdersInv

------------------------------------------------------------------------------
(* One lemma per action.                                                   *)

StepTyped == IndInv' /\ OrderTypes' /\ SitesStep

LEMMA OrdersStepTyped ==
    ASSUME OrdersAssumptions, OrdersInv, [OrdersNext]_allVars
    PROVE  StepTyped
  <1>1. [Next]_vars
    BY StepOfProvisioning DEF OrdersAssumptions, OrdersInv, OrderOK
  <1>2. IndInv /\ Assumptions
    BY DEF OrdersInv, OrdersAssumptions
  <1> QED BY <1>1, <1>2, NextInv, TableStep, OrdersTyped DEF StepTyped

LEMMA SameAnswered ==
    ASSUME OrdersInv, UNCHANGED pay, events \subseteq events', DoneStep
    PROVE  AnswersOK'
  BY DEF OrdersInv, AnswersOK, AnsweredIsProcessed, DoneStep

LEMMA ActStripe ==
    ASSUME OrdersInv, StepTyped, NEW s \in Sessions,
           \/ Checkout(s) \/ Settle(s)
           \/ \E paid \in BOOLEAN : Complete(s, paid)
    PROVE  OrdersInv'
  <1>0. pay \in [Sessions -> PayStates] /\ events \subseteq Event
    BY DEF OrdersInv, OrderTypes
  <1>1. /\ UNCHANGED <<vars, done, users, owner, mails, ord>>
        /\ \A r \in Sessions : r # s => pay'[r] = pay[r]
    BY <1>0 DEF Checkout, Settle, Complete
  <1>2. /\ pay[s] \in {"new", "open", "unpaid"}
        /\ events \subseteq events'
        /\ \A e \in events' : e \in events \/ (e.session = s /\ (e.paid => pay'[s] = "paid"))
        /\ pay'[s] = "paid" => [session |-> s, paid |-> TRUE] \in events'
    <2>1. CASE Checkout(s) \/ Settle(s)
      BY <1>0, <2>1 DEF Checkout, Settle
    <2>2. CASE \E paid \in BOOLEAN : Complete(s, paid)
      <3>1. PICK b \in BOOLEAN : Complete(s, b)
        BY <2>2
      <3>2. /\ pay[s] = "open"
            /\ pay'[s] = IF b THEN "paid" ELSE "unpaid"
            /\ events' = events \cup {[session |-> s, paid |-> b]}
        BY <1>0, <3>1 DEF Complete
      <3>3. CASE b = TRUE
        <4>1. pay'[s] = "paid" /\ events' = events \cup {[session |-> s, paid |-> TRUE]}
          BY <3>2, <3>3
        <4> QED BY <3>2, <4>1
      <3>4. CASE b = FALSE
        BY <3>2, <3>4
      <3> QED BY <3>3, <3>4
    <2> QED BY <2>1, <2>2
  <1>3. PaidGrows /\ DoneStep /\ EventsStep
    BY <1>1, <1>2 DEF PaidGrows, DoneStep, EventsStep, Paid
  <1>4. OwnerStep /\ SlotsStep({}) /\ MailStep({}, {})
    BY <1>1 DEF OwnerStep, SlotsStep, MailStep, vars
  <1>5. AnswersOK'
    BY <1>1, <1>2 DEF AnswersOK, AnsweredIsProcessed, OrdersInv
  <1> QED BY <1>3, <1>4, <1>5, StepKeeps DEF StepTyped

(* The steps of an order that leave provisionSite's state alone.           *)
LEMMA OrderMoves ==
    ASSUME OrdersInv, StepTyped, UNCHANGED <<vars, pay, owner>>, NEW p \in Procs, NEW o,
           Goto(p, o), OrderOK(p)', DoneStep, events' \subseteq events,
           \A i \in Ids : Built(p, i)' => Built(p, i) /\ o.session = ord[p].session,
           NEW m, MailStep({p}, m), AnswersOK'
    PROVE  OrdersInv'
  <1>1. ord \in [Procs -> Order]
    BY DEF OrdersInv, OrderTypes
  <1>2. ord'[p] = o /\ \A r \in Procs : r # p => ord'[r] = ord[r]
    BY <1>1 DEF Goto
  <1>3. req' = req /\ sites' = sites
    BY DEF vars
  <1>4. SlotsStep({p})
    BY <1>2, <1>3 DEF SlotsStep
  <1>5. PaidGrows /\ EventsStep /\ OwnerStep
    BY <1>3 DEF PaidGrows, Paid, EventsStep, OwnerStep
  <1> QED BY <1>4, <1>5, StepKeeps DEF StepTyped

(* ... and among them those that only move the order itself.               *)
LEMMA OrderAlone ==
    ASSUME OrdersInv, StepTyped, UNCHANGED <<vars, pay, events, done, owner, mails>>,
           NEW p \in Procs, NEW o, Goto(p, o), OrderOK(p)',
           \A i \in Ids : Built(p, i)' => Built(p, i) /\ o.session = ord[p].session
    PROVE  OrdersInv'
  <1>1. DoneStep /\ MailStep({p}, {})
    BY DEF DoneStep, MailStep
  <1>2. AnswersOK'
    BY <1>1, SameAnswered
  <1> QED BY <1>1, <1>2, OrderMoves

(* A slot whose order ends, or that starts one.                            *)
LEMMA Ended ==
    ASSUME NEW p \in Procs, ord'[p] = NoOrder, req'[p].pc = "idle"
    PROVE  OrderOK(p)' /\ \A i \in Ids : ~Built(p, i)'
  BY DEF NoOrder, OrderOK, FromPanel, Built

LEMMA Early ==
    ASSUME NEW p \in Procs, NEW s \in Sessions, Paid(s)', ord'[p].session = s,
           ord'[p].pc \in {"find_user", "create_user", "provision"}, ~ord'[p].found,
           req'[p].pc = "idle"
    PROVE  OrderOK(p)' /\ \A i \in Ids : ~Built(p, i)'
  BY DEF OrderOK, Built, Paid

LEMMA Begun ==
    ASSUME NEW p \in Procs, NEW s \in Sessions, NEW via, ord'[p] = NewOrder(s, via),
           req'[p].pc = "idle", Paid(s)'
    PROVE  OrderOK(p)' /\ \A i \in Ids : ~Built(p, i)'
  <1>1. /\ ord'[p].pc = "find_user" /\ ord'[p].session = s /\ ~ord'[p].found
    BY DEF NewOrder, NoOrder
  <1> QED BY <1>1, Early

LEMMA ActWebhook ==
    ASSUME OrdersInv, StepTyped, NEW p \in Procs, NEW e \in events, Webhook(p, e)
    PROVE  OrdersInv'
  <1>0. /\ ord \in [Procs -> Order] /\ EventsOK /\ e \in Event
        /\ OrderOK(p) /\ AnswersOK
    BY DEF OrdersInv, OrderTypes
  <1>1. CASE done[e.session] # NoId \/ ~e.paid
    <2>1. Goto(p, ord[p]) /\ events' \subseteq events /\ UNCHANGED ord
      BY <1>0, <1>1 DEF Webhook, Answered, Goto
    <2>2. OrderOK(p)'
      BY <1>0, <2>1 DEF Webhook, vars, OrderOK, FromPanel, ForOrder, SiteFor, Paid
    <2>3. \A i \in Ids : Built(p, i)' => Built(p, i)
      BY <2>1 DEF Webhook, vars, Built
    <2>4. DoneStep /\ MailStep({p}, {})
      BY DEF Webhook, DoneStep, MailStep
    <2>5. AnswersOK'
      <3>1. \A x \in events : x \in events' \/ x = e
        BY <1>1 DEF Webhook, Answered
      <3>2. UNCHANGED <<pay, done>>
        BY DEF Webhook
      <3> QED BY <1>0, <1>1, <3>1, <3>2 DEF AnswersOK, AnsweredIsProcessed
    <2> QED BY <2>1, <2>2, <2>3, <2>4, <2>5, OrderMoves DEF Webhook
  <1>2. CASE done[e.session] = NoId /\ e.paid
    <2>1. Goto(p, NewOrder(e.session, "webhook"))
      BY <1>2 DEF Webhook
    <2>2. ord'[p] = NewOrder(e.session, "webhook")
      BY <1>0, <2>1 DEF Goto
    <2>3. e.session \in Sessions /\ Paid(e.session)' /\ req'[p].pc = "idle"
      BY <1>0, <1>2 DEF Webhook, vars, EventsOK, Event, Paid, Free
    <2>4. OrderOK(p)' /\ \A i \in Ids : ~Built(p, i)'
      BY <2>2, <2>3, Begun
    <2> QED BY <1>2, <2>1, <2>4, OrderAlone DEF Webhook
  <1> QED BY <1>1, <1>2

LEMMA ActPoll ==
    ASSUME OrdersInv, StepTyped, NEW p \in Procs, NEW s \in Sessions, Poll(p, s)
    PROVE  OrdersInv'
  <1>1. ord'[p] = NewOrder(s, "poll")
    BY DEF OrdersInv, OrderTypes, Poll, Goto
  <1>2. Paid(s)' /\ req'[p].pc = "idle"
    BY DEF Poll, Paid, Free, vars
  <1>3. OrderOK(p)' /\ \A i \in Ids : ~Built(p, i)'
    BY <1>1, <1>2, Begun
  <1> QED BY <1>3, OrderAlone DEF Poll

(* What is known of the slot an order is in.                               *)
LEMMA InOrder ==
    ASSUME OrdersInv, NEW p \in Procs, ord[p].pc # "idle"
    PROVE  /\ ord[p] \in Order /\ ord[p].session \in Sessions /\ Paid(ord[p].session)
           /\ OrderOK(p)
           /\ ord[p].pc # "build" => req[p].pc = "idle"
  BY DEF OrdersInv, OrderTypes, OrderOK

LEMMA ActFindUser ==
    ASSUME OrdersInv, StepTyped, NEW p \in Procs, FindUser(p)
    PROVE  OrdersInv'
  <1>0. ord \in [Procs -> Order]
    BY DEF OrdersInv, OrderTypes
  <1>1. ord[p].pc = "find_user" /\ UNCHANGED <<vars, pay, events, done, users, owner, mails>>
    BY DEF FindUser, At
  <1>2. /\ ord[p] \in Order /\ ord[p].session \in Sessions /\ Paid(ord[p].session)
        /\ req[p].pc = "idle" /\ ~ord[p].found
    BY <1>1, InOrder DEF OrderOK
  <1>3. CASE Goto(p, NoOrder)
    <2>1. ord'[p] = NoOrder /\ req'[p].pc = "idle"
      BY <1>0, <1>1, <1>2, <1>3 DEF Goto, vars
    <2>2. OrderOK(p)' /\ \A i \in Ids : ~Built(p, i)'
      BY <2>1, Ended
    <2> QED BY <1>1, <1>3, <2>2, OrderAlone
  <1>4. ASSUME NEW pc \in {"provision", "create_user"}, Goto(p, [ord[p] EXCEPT !.pc = pc])
        PROVE  OrdersInv'
    <2> DEFINE o == [ord[p] EXCEPT !.pc = pc]
    <2>1. o.pc = pc /\ o.session = ord[p].session /\ o.found = ord[p].found
      BY <1>2 DEF Order
    <2>2. /\ ord'[p].pc \in {"provision", "create_user"}
          /\ ord'[p].session = ord[p].session /\ ~ord'[p].found
          /\ req'[p].pc = "idle" /\ \A s : Paid(s) => Paid(s)'
      BY <1>0, <1>1, <1>2, <1>4, <2>1 DEF Goto, vars, Paid
    <2> HIDE DEF o
    <2>3. OrderOK(p)' /\ \A i \in Ids : ~Built(p, i)'
      BY <1>2, <2>2, Early
    <2> QED BY <1>1, <1>4, <2>3, OrderAlone DEF o
  <1> QED BY <1>3, <1>4 DEF FindUser

LEMMA ActCreateUser ==
    ASSUME OrdersInv, StepTyped, NEW p \in Procs, CreateUser(p)
    PROVE  OrdersInv'
  <1>0. ord \in [Procs -> Order]
    BY DEF OrdersInv, OrderTypes
  <1>1. ord[p].pc = "create_user" /\ UNCHANGED <<vars, pay, events, done, owner, mails>>
    BY DEF CreateUser, At
  <1>2. /\ ord[p] \in Order /\ ord[p].session \in Sessions /\ Paid(ord[p].session)
        /\ req[p].pc = "idle" /\ ~ord[p].found
    BY <1>1, InOrder DEF OrderOK
  <1>3. req'[p].pc = "idle"
    BY <1>1, <1>2 DEF vars
  <1>4. CASE Goto(p, NoOrder)
    <2>1. ord'[p] = NoOrder
      BY <1>0, <1>4 DEF Goto
    <2>2. OrderOK(p)' /\ \A i \in Ids : ~Built(p, i)'
      BY <1>3, <2>1, Ended
    <2> QED BY <1>1, <1>4, <2>2, OrderAlone
  <1>5. CASE Goto(p, [ord[p] EXCEPT !.pc = "provision", !.pass = TRUE])
    <2> DEFINE o == [ord[p] EXCEPT !.pc = "provision", !.pass = TRUE]
    <2>1. o.pc = "provision" /\ o.session = ord[p].session /\ o.found = ord[p].found
      BY <1>2 DEF Order
    <2>2. /\ ord'[p].pc = "provision" /\ ord'[p].session = ord[p].session
          /\ ~ord'[p].found /\ \A s : Paid(s) => Paid(s)'
      BY <1>0, <1>1, <1>2, <1>5, <2>1 DEF Goto, Paid
    <2> HIDE DEF o
    <2>3. OrderOK(p)' /\ \A i \in Ids : ~Built(p, i)'
      BY <1>2, <1>3, <2>2, Early
    <2> QED BY <1>1, <1>5, <2>3, OrderAlone DEF o
  <1> QED BY <1>4, <1>5 DEF CreateUser

LEMMA ActReload ==
    ASSUME OrdersInv, StepTyped, NEW p \in Procs, Reload(p)
    PROVE  OrdersInv'
  <1>0. ord \in [Procs -> Order]
    BY DEF OrdersInv, OrderTypes
  <1>1. ord[p].pc = "reload" /\ UNCHANGED <<vars, pay, events, done, users, owner, mails>>
    BY DEF Reload, At
  <1>2. /\ ord[p] \in Order /\ ord[p].session \in Sessions /\ Paid(ord[p].session)
        /\ req[p].pc = "idle" /\ ~ord[p].found /\ SiteFor(ord[p].session, ord[p].id)
    BY <1>1, InOrder DEF OrderOK
  <1>3. req'[p].pc = "idle"
    BY <1>1, <1>2 DEF vars
  <1>4. CASE Goto(p, NoOrder)
    <2>1. ord'[p] = NoOrder
      BY <1>0, <1>4 DEF Goto
    <2>2. OrderOK(p)' /\ \A i \in Ids : ~Built(p, i)'
      BY <1>3, <2>1, Ended
    <2> QED BY <1>1, <1>4, <2>2, OrderAlone
  <1>5. CASE Goto(p, [ord[p] EXCEPT !.pc = "mark"])
    <2> DEFINE o == [ord[p] EXCEPT !.pc = "mark"]
    <2>1. /\ o.pc = "mark" /\ o.session = ord[p].session /\ o.found = ord[p].found
          /\ o.id = ord[p].id
      BY <1>2 DEF Order
    <2>2. ord'[p] = o
      BY <1>0, <1>5 DEF Goto
    <2> HIDE DEF o
    <2>3. OrderOK(p)'
      BY <1>1, <1>2, <1>3, <2>1, <2>2 DEF OrderOK, Paid, SiteFor, vars
    <2>4. \A i \in Ids : Built(p, i)' => Built(p, i)
      BY <1>1, <1>2, <2>1, <2>2 DEF Built
    <2> QED BY <1>1, <1>5, <2>1, <2>3, <2>4, OrderAlone DEF o
  <1> QED BY <1>4, <1>5 DEF Reload

LEMMA ActMark ==
    ASSUME OrdersAssumptions, OrdersInv, StepTyped, NEW p \in Procs, Mark(p)
    PROVE  OrdersInv'
  <1>0. ord \in [Procs -> Order] /\ done \in [Sessions -> Ids \cup {NoId}]
    BY DEF OrdersInv, OrderTypes
  <1>1. ord[p].pc = "mark" /\ UNCHANGED <<vars, pay, events, users, owner, mails>>
    BY DEF Mark, At
  <1>2. PICK s, i, f : s = ord[p].session /\ i = ord[p].id /\ f = ord[p].found
    OBVIOUS
  <1>3. /\ ord[p] \in Order /\ s \in Sessions /\ Paid(s) /\ f \in BOOLEAN
        /\ req[p].pc = "idle" /\ SiteFor(s, i) /\ i \in Ids /\ i # NoId
    BY <1>1, <1>2, InOrder DEF OrderOK, Order, SiteFor, OrdersAssumptions, Assumptions,
       ProvisioningAssumption
  <1>4. done' = [done EXCEPT ![s] = i] \/ (~Recorded /\ done' = done)
    BY <1>2 DEF Mark, Recorded
  <1>5. PICK pc : /\ pc = IF f THEN "answer" ELSE "mail"
                  /\ Goto(p, [ord[p] EXCEPT !.pc = pc])
    BY <1>2 DEF Mark
  <1> DEFINE o == [ord[p] EXCEPT !.pc = pc]
  <1>6. /\ ord'[p].pc = pc /\ ord'[p].session = s /\ ord'[p].found = f /\ ord'[p].id = i
        /\ ord'[p] = o /\ o.session = s
    <2>1. o.pc = pc /\ o.session = s /\ o.found = f /\ o.id = i
      BY <1>2, <1>3 DEF Order
    <2>2. ord'[p] = o
      BY <1>0, <1>5 DEF Goto
    <2> QED BY <2>1, <2>2
  <1> HIDE DEF o
  <1>7. /\ done'[s] = i \/ (~Recorded /\ done'[s] = done[s])
        /\ \A t \in Sessions : t # s => done'[t] = done[t]
    BY <1>0, <1>3, <1>4
  <1>8. SiteFor(s, i)' /\ Paid(s)' /\ req'[p].pc = "idle"
    BY <1>1, <1>3 DEF vars, SiteFor, Paid
  <1>9. DoneStep
    BY <1>3, <1>7, <1>8 DEF DoneStep, SiteFor
  <1>10. OrderOK(p)'
    BY <1>3, <1>5, <1>6, <1>7, <1>8 DEF OrderOK, SiteFor, Paid
  <1>11. \A j \in Ids : Built(p, j)' => Built(p, j) /\ o.session = ord[p].session
    BY <1>1, <1>2, <1>5, <1>6 DEF Built
  <1>12. AnswersOK'
    BY <1>1, <1>9, SameAnswered
  <1>13. MailStep({p}, {})
    BY <1>1 DEF MailStep
  <1> QED BY <1>1, <1>5, <1>9, <1>10, <1>11, <1>12, <1>13, OrderMoves DEF o

LEMMA ActSendWelcome ==
    ASSUME OrdersInv, StepTyped, NEW p \in Procs, SendWelcome(p)
    PROVE  OrdersInv'
  <1>0. ord \in [Procs -> Order]
    BY DEF OrdersInv, OrderTypes
  <1>1. ord[p].pc = "mail" /\ UNCHANGED <<vars, pay, events, done, users, owner>>
    BY DEF SendWelcome, At
  <1>2. PICK s, i : s = ord[p].session /\ i = ord[p].id
    OBVIOUS
  <1>3. /\ ord[p] \in Order /\ s \in Sessions /\ Paid(s) /\ ~ord[p].found
        /\ req[p].pc = "idle" /\ SiteFor(s, i) /\ i \in Ids
        /\ Recorded => done[s] # NoId
    BY <1>1, <1>2, InOrder DEF OrderOK, SiteFor
  <1> DEFINE o == [ord[p] EXCEPT !.pc = "answer"]
             m == [session |-> ord[p].session, id |-> ord[p].id, pass |-> ord[p].pass]
  <1>4. Goto(p, o)
    BY DEF SendWelcome
  <1>5. /\ ord'[p].pc = "answer" /\ ord'[p].session = s /\ ord'[p].id = i
        /\ o.session = s
    <2>1. o.pc = "answer" /\ o.session = s /\ o.id = i
      BY <1>2, <1>3 DEF Order
    <2>2. ord'[p] = o
      BY <1>0, <1>4 DEF Goto
    <2> QED BY <2>1, <2>2
  <1>6. /\ SiteFor(s, i)' /\ Paid(s)' /\ req'[p].pc = "idle"
        /\ Recorded => done'[s] # NoId
    BY <1>1, <1>3 DEF vars, SiteFor, Paid
  <1> HIDE DEF o
  <1>7. OrderOK(p)'
    BY <1>3, <1>5, <1>6 DEF OrderOK, SiteFor, Paid
  <1>8. \A j \in Ids : ~Built(p, j)'
    BY <1>5 DEF Built
  <1>9. DoneStep
    BY <1>1 DEF DoneStep
  <1>10. MailStep({p}, m)
    <2>1. Built(p, m.id) /\ EmailOf[m.session] = Email(p)
      BY <1>1, <1>3 DEF Built, Email
    <2> HIDE DEF m
    <2>2. mails' = mails \/ mails' = mails \cup {m}
      BY DEF SendWelcome, m
    <2> QED BY <1>8, <2>1, <2>2 DEF MailStep
  <1>11. AnswersOK'
    BY <1>1, <1>9, SameAnswered
  <1> HIDE DEF m
  <1> QED BY <1>1, <1>4, <1>7, <1>8, <1>9, <1>10, <1>11, OrderMoves

LEMMA ActAnswer ==
    ASSUME OrdersInv, StepTyped, NEW p \in Procs, Answer(p)
    PROVE  OrdersInv'
  <1>0. ord \in [Procs -> Order] /\ AnswersOK
    BY DEF OrdersInv, OrderTypes
  <1>1. /\ ord[p].pc = "answer" /\ UNCHANGED <<vars, pay, done, users, owner, mails>>
        /\ Goto(p, NoOrder)
    BY DEF Answer, At
  <1>2. PICK s : s = ord[p].session
    OBVIOUS
  <1>3. req[p].pc = "idle" /\ (Recorded => done[s] # NoId)
    BY <1>1, <1>2, InOrder DEF OrderOK
  <1>4. ord'[p] = NoOrder /\ req'[p].pc = "idle"
    BY <1>0, <1>1, <1>3 DEF Goto, vars
  <1>5. OrderOK(p)' /\ \A i \in Ids : ~Built(p, i)'
    BY <1>4, Ended
  <1>6. DoneStep /\ MailStep({p}, {})
    BY <1>1 DEF DoneStep, MailStep
  <1>7. /\ events' \subseteq events
        /\ \A e \in events : e \in events' \/ e = [session |-> s, paid |-> TRUE]
    BY <1>2 DEF Answer, Answered
  <1>8. AnswersOK'
    <2> SUFFICES ASSUME Recorded, NEW t \in Sessions, pay'[t] = "paid",
                        [session |-> t, paid |-> TRUE] \notin events'
                 PROVE  done'[t] # NoId
      BY DEF AnswersOK, AnsweredIsProcessed, Recorded
    <2>1. CASE t = s
      BY <1>1, <1>3, <2>1
    <2>2. CASE t # s
      <3>1. [session |-> t, paid |-> TRUE] # [session |-> s, paid |-> TRUE]
        BY <2>2
      <3>2. [session |-> t, paid |-> TRUE] \notin events
        BY <1>7, <3>1
      <3> QED BY <1>0, <1>1, <3>2 DEF AnswersOK, AnsweredIsProcessed
    <2> QED BY <2>1, <2>2
  <1> QED BY <1>1, <1>5, <1>6, <1>7, <1>8, OrderMoves

(* The steps that move the request a slot serves.                          *)
LEMMA RequestMoves ==
    ASSUME OrdersInv, StepTyped, UNCHANGED <<pay, events, done, mails>>, OwnerStep,
           NEW P \in SUBSET Procs, SlotsStep(P)
    PROVE  OrdersInv'
  <1>1. PaidGrows /\ DoneStep /\ EventsStep /\ MailStep(P, {})
    BY DEF PaidGrows, Paid, DoneStep, EventsStep, MailStep
  <1>2. AnswersOK'
    BY <1>1, SameAnswered
  <1> QED BY <1>1, <1>2, StepKeeps DEF StepTyped

LEMMA SameOwners ==
    ASSUME UNCHANGED owner,
           \A i \in Ids : sites[i].status = "free" => sites'[i].status = "free"
    PROVE  OwnerStep
  BY DEF OwnerStep

LEMMA ActProvision ==
    ASSUME OrdersAssumptions, OrdersInv, StepTyped, NEW p \in Procs, Provision(p)
    PROVE  OrdersInv'
  <1>0. ord \in [Procs -> Order] /\ req \in [Procs -> Request]
    BY DEF OrdersInv, OrderTypes, IndInv, TypeOK
  <1>1. ord[p].pc = "provision" /\ UNCHANGED <<pay, events, done, users, owner, mails>>
    BY DEF Provision, At
  <1>2. PICK s : s = ord[p].session
    OBVIOUS
  <1>3. /\ ord[p] \in Order /\ s \in Sessions /\ Paid(s) /\ ~ord[p].found
        /\ req[p].pc = "idle"
    BY <1>1, <1>2, InOrder DEF OrderOK
  <1>4. ASSUME NEW i \in Ids, sites[i].domain = DomainOf[s],
               sites[i].status \in {"active", "provisioning"},
               Goto(p, [ord[p] EXCEPT !.pc = "mark", !.id = i, !.found = TRUE]),
               UNCHANGED vars
        PROVE  OrdersInv'
    <2> DEFINE o == [ord[p] EXCEPT !.pc = "mark", !.id = i, !.found = TRUE]
    <2>1. o.pc = "mark" /\ o.id = i /\ o.found = TRUE /\ o.session = s
      BY <1>2, <1>3 DEF Order
    <2>2. ord'[p] = o
      BY <1>0, <1>4 DEF Goto
    <2>3. /\ ord'[p].pc = "mark" /\ ord'[p].id = i /\ ord'[p].found = TRUE
          /\ ord'[p].session = s
      BY <2>1, <2>2
    <2> HIDE DEF o
    <2>4. Paid(s)' /\ SiteFor(s, i)' /\ req'[p].pc = "idle"
      BY <1>1, <1>3, <1>4 DEF vars, SiteFor, Paid
    <2>5. OrderOK(p)' /\ \A j \in Ids : ~Built(p, j)'
      BY <1>3, <2>3, <2>4 DEF OrderOK, Built, Paid, SiteFor
    <2> QED BY <1>1, <1>4, <2>5, OrderAlone DEF o
  <1>5. CASE /\ Lookup(p, DomainOf[s], AppOf[s])
             /\ Goto(p, [ord[p] EXCEPT !.pc = "build"])
    <2>1. PICK x : /\ req' = [req EXCEPT ![p] = x] /\ x.pc \in {"admit", "redestroy"}
                   /\ x.kind = "create" /\ x.row.domain = DomainOf[s]
      <3> DEFINE y == [pc |-> "admit", kind |-> "create", id |-> NoId,
                       row |-> Draft(DomainOf[s], AppOf[s]), app |-> AppOf[s]]
      <3>1. CASE req' = [req EXCEPT ![p] = y]
        <4>1. y.pc = "admit" /\ y.kind = "create" /\ y.row.domain = DomainOf[s]
          BY DEF Draft
        <4> QED BY <3>1, <4>1
      <3>2. ASSUME NEW i \in Ids, sites[i].domain = DomainOf[s],
                   req' = [req EXCEPT ![p] = [pc |-> "redestroy", kind |-> "create",
                                              id |-> i, row |-> sites[i], app |-> AppOf[s]]]
            PROVE  \E x : /\ req' = [req EXCEPT ![p] = x] /\ x.pc \in {"admit", "redestroy"}
                          /\ x.kind = "create" /\ x.row.domain = DomainOf[s]
        <4> DEFINE z == [pc |-> "redestroy", kind |-> "create", id |-> i, row |-> sites[i],
                         app |-> AppOf[s]]
        <4>1. z.pc = "redestroy" /\ z.kind = "create" /\ z.row.domain = DomainOf[s]
          BY <3>2
        <4>2. req' = [req EXCEPT ![p] = z]
          BY <3>2
        <4> HIDE DEF z
        <4> QED BY <4>1, <4>2
      <3> QED BY <1>5, <3>1, <3>2 DEF Lookup
    <2>2. req'[p] = x /\ \A r \in Procs : r # p => req'[r] = req[r]
      BY <1>0, <2>1
    <2> DEFINE o == [ord[p] EXCEPT !.pc = "build"]
    <2>3. o.pc = "build" /\ o.found = FALSE /\ o.session = s
      BY <1>2, <1>3 DEF Order
    <2>4. ord'[p] = o /\ \A r \in Procs : r # p => ord'[r] = ord[r]
      BY <1>0, <1>5 DEF Goto
    <2>5. ord'[p].pc = "build" /\ ord'[p].found = FALSE /\ ord'[p].session = s
      BY <2>3, <2>4
    <2> HIDE DEF o
    <2>6. Paid(s)' /\ UNCHANGED sites
      BY <1>1, <1>3, <1>5 DEF Paid, Lookup
    <2>7. OrderOK(p)' /\ \A j \in Ids : ~Built(p, j)'
      BY <1>3, <2>1, <2>2, <2>5, <2>6
      DEF OrderOK, Built, ForOrder, CreatePCs, UnderWay, BuildSteps, Paid
    <2>8. SlotsStep({p}) /\ OwnerStep
      BY <1>1, <2>2, <2>4, <2>6, <2>7, SameOwners DEF SlotsStep
    <2> QED BY <1>1, <2>8, RequestMoves
  <1> QED BY <1>2, <1>4, <1>5 DEF Provision

(* Only an INSERT makes a site of a free row.                              *)
LEMMA ServeFree ==
    ASSUME Assumptions, IndInv, NEW p \in Procs, Serve(p)
    PROVE  FreeKept(p)
  <1>1. ASSUME UNCHANGED sites PROVE FreeKept(p)
    BY <1>1, SameSites
  <1>2. CASE DropRow(p)
    BY <1>2, Copy, DeleteEffect DEF DropRow, HoldPCs
  <1>3. CASE InsertRow(p)
    BY <1>3, InsertTable
  <1>4. CASE MarkError(p)
    BY <1>4, SavedTable, MarkedCopy DEF MarkError, HoldPCs, LiveStatus
  <1>5. CASE Activate(p)
    BY <1>5, SavedTable, MarkedCopy DEF Activate, HoldPCs, LiveStatus
  <1>6. CASE SaveEdit(p)
    BY <1>6, SavedTable, EditedCopy DEF SaveEdit, HoldPCs
  <1> QED BY <1>1, <1>2, <1>3, <1>4, <1>5, <1>6
          DEF Serve, Redestroy, Refuse, TryBase, PickUser, BuildStep, Destroy, EditCall

(* What provisionSite does next with the request q an order called it for: *)
(* it ends, goes on, or inserts the row.                                   *)
Ends(p, x) == x.pc = "idle" /\ \A i \in Ids : sites[i].status = "free" => sites'[i] = sites[i]

GoesOn(p, x) ==
    /\ x.pc \in CreatePCs /\ x.kind = "create" /\ x.row.domain = req[p].row.domain
    /\ \A i \in Ids : sites[i].status = "free" => sites'[i] = sites[i]
    /\ x.pc \in UnderWay => req[p].pc \in UnderWay /\ x.id = req[p].id

Inserts(p, x) ==
    /\ req[p].pc = "insert" /\ req[p].id \in Ids /\ sites[req[p].id].status = "free"
    /\ x.pc \in UnderWay /\ x.kind = "create" /\ x.row.domain = req[p].row.domain
    /\ x.id = req[p].id
    /\ sites'[x.id].domain = req[p].row.domain
    /\ \A i \in Ids : i # x.id => sites'[i] = sites[i]

LEMMA ServeCreate ==
    ASSUME Assumptions, IndInv, NEW p \in Procs, Serve(p), req[p].pc \in CreatePCs,
           req[p].kind = "create"
    PROVE  \E x : /\ req' = [req EXCEPT ![p] = x]
                  /\ Ends(p, x) \/ GoesOn(p, x) \/ Inserts(p, x)
                  /\ req[p].pc = "activate" => x.pc = "idle"
                  /\ req[p].pc = "insert" => Ends(p, x) \/ Inserts(p, x)
  <1>0. /\ sites \in [Ids -> Row] /\ req \in [Procs -> Request]
        /\ req[p] \in Request /\ req[p].row \in Row
    BY DEF IndInv, TypeOK, Request
  <1>1. req[p].pc # "insert" => \A i \in Ids : sites[i].status = "free" => sites'[i] = sites[i]
    BY ServeFree DEF FreeKept
  <1>2. Idle.pc = "idle"
    BY DEF Idle
  <1>3. CASE Redestroy(p)
    <2> DEFINE x == [req[p] EXCEPT !.pc = "drop"]
    <2>1. req' = [req EXCEPT ![p] = x] /\ req[p].pc = "redestroy"
      BY <1>3, AskEffect DEF Redestroy, Calling
    <2>2. x.pc = "drop" /\ x.kind = "create" /\ x.row = req[p].row
      BY <1>0 DEF Request
    <2> HIDE DEF x
    <2>3. GoesOn(p, x)
      BY <1>1, <2>1, <2>2 DEF GoesOn, CreatePCs, UnderWay, BuildSteps
    <2> QED BY <2>1, <2>3
  <1>4. CASE DropRow(p)
    <2> DEFINE x == [req[p] EXCEPT !.pc = "admit", !.id = NoId,
                                   !.row = Draft(req[p].row.domain, req[p].app)]
    <2>1. req' = [req EXCEPT ![p] = x] /\ req[p].pc = "drop"
      BY <1>4 DEF DropRow
    <2>2. x.pc = "admit" /\ x.kind = "create" /\ x.row.domain = req[p].row.domain
      BY <1>0 DEF Request, Draft
    <2> HIDE DEF x
    <2>3. GoesOn(p, x)
      BY <1>1, <2>1, <2>2 DEF GoesOn, CreatePCs, UnderWay, BuildSteps
    <2> QED BY <2>1, <2>3
  <1>5. CASE Refuse(p)
    <2>1. req' = [req EXCEPT ![p] = Idle] /\ req[p].pc # "insert" /\ req[p].pc # "activate"
      BY <1>5 DEF Refuse
    <2> QED BY <1>1, <1>2, <2>1 DEF Ends
  <1>6. CASE PickUser(p)
    <2>1. PICK u, i : req' = [req EXCEPT ![p].pc = "insert", ![p].id = i,
                               ![p].row = [@ EXCEPT !.status = "provisioning", !.user = u]]
      BY <1>6 DEF PickUser
    <2> DEFINE y == [req[p].row EXCEPT !.status = "provisioning", !.user = u]
               x == [req[p] EXCEPT !.pc = "insert", !.id = i, !.row = y]
    <2>2. y.domain = req[p].row.domain
      BY <1>0 DEF Row
    <2>3. req' = [req EXCEPT ![p] = x] /\ req[p].pc \in {"admit", "suffix"}
      BY <1>0, <1>6, <2>1 DEF PickUser
    <2> HIDE DEF y
    <2>4. x.pc = "insert" /\ x.kind = "create" /\ x.row = y
      BY <1>0 DEF Request
    <2> HIDE DEF x
    <2>5. GoesOn(p, x)
      BY <1>1, <2>2, <2>3, <2>4 DEF GoesOn, CreatePCs, UnderWay, BuildSteps
    <2> QED BY <2>3, <2>5
  <1>7. CASE InsertRow(p)
    <2>1. CASE req' = [req EXCEPT ![p] = Idle] /\ UNCHANGED sites
      BY <1>2, <1>7, <2>1 DEF Ends, InsertRow
    <2>2. CASE /\ req' = [req EXCEPT ![p].pc = "create_site_user"]
               /\ sites' = [sites EXCEPT ![req[p].id] = req[p].row]
      <3> DEFINE x == [req[p] EXCEPT !.pc = "create_site_user"]
      <3>1. x.pc = "create_site_user" /\ x.kind = "create" /\ x.row = req[p].row
            /\ x.id = req[p].id
        BY <1>0 DEF Request
      <3>2. req' = [req EXCEPT ![p] = x]
        BY <1>0, <2>2
      <3> HIDE DEF x
      <3>3. req[p].pc = "insert" /\ req[p].id \in Ids /\ sites[req[p].id].status = "free"
        BY <1>7 DEF InsertRow, IndInv, RequestInv, RequestOK, InsertOK
      <3>4. Inserts(p, x)
        BY <1>0, <2>2, <3>1, <3>3 DEF Inserts, UnderWay, BuildSteps
      <3> QED BY <3>2, <3>3, <3>4
    <2> QED BY <1>7, <2>1, <2>2 DEF InsertRow
  <1>8. CASE BuildStep(p)
    <2>0. req[p].pc \in BuildSteps
      BY <1>8 DEF BuildStep
    <2> DEFINE y == [req[p] EXCEPT !.pc = "mark_error"]
    <2>1. y.pc = "mark_error" /\ y.kind = "create" /\ y.row = req[p].row /\ y.id = req[p].id
      BY <1>0 DEF Request
    <2>2. req' = [req EXCEPT ![p] = Advance(req[p])] \/ req' = [req EXCEPT ![p] = y]
      <3>1. \/ req' = [req EXCEPT ![p] = Advance(req[p])]
            \/ req' = [req EXCEPT ![p] = GiveUp(req[p])]
        BY <1>8, AskEffect DEF BuildStep, Calling
      <3> QED BY <3>1 DEF GiveUp
    <2>3. Advance(req[p]).kind = "create"
      <3>1. ASSUME NEW a, NEW b
            PROVE  [req[p] EXCEPT !.pc = a, !.row = b].kind = "create"
        BY <1>0 DEF Request
      <3> QED BY <3>1 DEF Advance
    <2>4. GoesOn(p, Advance(req[p]))
      BY <1>0, <1>1, <2>0, <2>3, AdvanceTyped DEF GoesOn, CreatePCs, UnderWay, BuildSteps
    <2> HIDE DEF y
    <2>5. GoesOn(p, y)
      BY <1>1, <2>0, <2>1 DEF GoesOn, CreatePCs, UnderWay, BuildSteps
    <2> QED BY <2>0, <2>2, <2>4, <2>5 DEF BuildSteps
  <1>9. CASE MarkError(p) \/ Activate(p)
    <2>1. req' = [req EXCEPT ![p] = Idle] /\ req[p].pc # "insert"
      BY <1>9 DEF MarkError, Activate
    <2> QED BY <1>1, <1>2, <2>1 DEF Ends
  <1>10. ~Destroy(p) /\ ~EditCall(p) /\ ~SaveEdit(p)
    BY DEF Destroy, EditCall, SaveEdit, CreatePCs, UnderWay, BuildSteps
  <1>11. CASE TryBase(p)
    <2> DEFINE x == [req[p] EXCEPT !.pc = "suffix"]
    <2>1. req' = [req EXCEPT ![p] = x] /\ req[p].pc = "admit"
      BY <1>0, <1>11 DEF TryBase
    <2>2. x.pc = "suffix" /\ x.kind = "create" /\ x.row = req[p].row
      BY <1>0 DEF Request
    <2> HIDE DEF x
    <2>3. GoesOn(p, x)
      BY <1>1, <2>1, <2>2 DEF GoesOn, CreatePCs, UnderWay, BuildSteps
    <2> QED BY <2>1, <2>3
  <1> QED BY <1>3, <1>4, <1>5, <1>6, <1>7, <1>8, <1>9, <1>10, <1>11 DEF Serve

LEMMA ActBuild ==
    ASSUME OrdersAssumptions, OrdersInv, StepTyped, NEW p \in Procs, Build(p)
    PROVE  OrdersInv'
  <1>0. /\ ord \in [Procs -> Order] /\ req \in [Procs -> Request]
        /\ owner \in [Ids -> Emails \cup {NoEmail}] /\ IndInv /\ Assumptions
    BY DEF OrdersInv, OrderTypes, IndInv, TypeOK, OrdersAssumptions
  <1>1. /\ ord[p].pc = "build" /\ Serve(p)
        /\ UNCHANGED <<pay, events, done, users, mails>>
    BY DEF Build, At
  <1>2. PICK s : s = ord[p].session
    OBVIOUS
  <1>3. /\ ord[p] \in Order /\ s \in Sessions /\ Paid(s) /\ ~ord[p].found
        /\ req[p].pc \in CreatePCs /\ req[p].kind = "create"
        /\ req[p].row.domain = DomainOf[s]
    BY <1>1, <1>2, InOrder DEF OrderOK, ForOrder
  <1>4. PICK x : /\ req' = [req EXCEPT ![p] = x]
                 /\ Ends(p, x) \/ GoesOn(p, x) \/ Inserts(p, x)
                 /\ req[p].pc = "activate" => x.pc = "idle"
                 /\ req[p].pc = "insert" => Ends(p, x) \/ Inserts(p, x)
    BY <1>0, <1>1, <1>3, ServeCreate
  <1>5. req'[p] = x /\ \A r \in Procs : r # p => req'[r] = req[r]
    BY <1>0, <1>4
  <1>6. Paid(s)'
    BY <1>1, <1>3 DEF Paid
  <1>7. ASSUME NEW o, Goto(p, o)
        PROVE  ord'[p] = o /\ \A r \in Procs : r # p => ord'[r] = ord[r]
    BY <1>0, <1>7 DEF Goto
  <1>8. x.pc # "idle" => Goto(p, ord[p])
    BY <1>5 DEF Build
  <1>9. CASE Ends(p, x)
    <2>1. x.pc = "idle" /\ req'[p].pc = "idle" /\ UNCHANGED owner
      BY <1>5, <1>9 DEF Ends, Build
    <2>2. OwnerStep
      BY <1>9, <2>1, SameOwners DEF Ends
    <2>3. CASE req[p].pc = "activate"
      <3> DEFINE o == [ord[p] EXCEPT !.pc = "reload", !.id = req[p].id]
      <3>1. PICK i : i = req[p].id
        OBVIOUS
      <3>2. Goto(p, o)
        BY <2>1, <2>3 DEF Build
      <3>3. o.pc = "reload" /\ o.id = i /\ o.found = ord[p].found /\ o.session = s
        BY <1>2, <1>3, <3>1 DEF Order
      <3>4. ord'[p] = o /\ \A r \in Procs : r # p => ord'[r] = ord[r]
        BY <1>7, <3>2
      <3>5. /\ ord'[p].pc = "reload" /\ ord'[p].id = i /\ ~ord'[p].found
            /\ ord'[p].session = s
        BY <1>3, <3>3, <3>4
      <3> HIDE DEF o
      <3>6. SiteFor(s, i)
        <4>1. HoldOK(sites, req[p])
          BY <1>0 DEF IndInv, RequestInv, RequestOK
        <4> QED BY <1>3, <2>3, <3>1, <4>1 DEF HoldOK, HoldPCs, SiteFor
      <3>7. SiteFor(s, i)'
        BY <3>6, ClaimsKept DEF SiteFor, StepTyped
      <3>8. OrderOK(p)'
        BY <1>3, <1>6, <2>1, <3>5, <3>7 DEF OrderOK, Paid, SiteFor
      <3>9. \A j \in Ids : Built(p, j)' => Built(p, j) /\ ord'[p].session = ord[p].session
        BY <1>1, <1>2, <2>3, <3>1, <3>5 DEF Built, UnderWay
      <3>10. SlotsStep({p})
        BY <1>5, <3>4, <3>8, <3>9 DEF SlotsStep
      <3> QED BY <1>1, <2>2, <3>10, RequestMoves
    <2>4. CASE req[p].pc # "activate"
      <3>1. Goto(p, NoOrder)
        BY <2>1, <2>4 DEF Build
      <3>2. ord'[p] = NoOrder /\ \A r \in Procs : r # p => ord'[r] = ord[r]
        BY <1>7, <3>1
      <3>3. OrderOK(p)' /\ \A i \in Ids : ~Built(p, i)'
        BY <2>1, <3>2, Ended
      <3>4. SlotsStep({p})
        BY <1>5, <3>2, <3>3 DEF SlotsStep
      <3> QED BY <1>1, <2>2, <3>4, RequestMoves
    <2> QED BY <2>3, <2>4
  <1>10. ASSUME x.pc \in CreatePCs, x.kind = "create", x.row.domain = req[p].row.domain
         PROVE  /\ ord'[p] = ord[p] /\ OrderOK(p)' /\ req'[p].pc # "idle"
                /\ \A r \in Procs : r # p => ord'[r] = ord[r]
    <2>1. req'[p].pc # "idle"
      BY <1>5, <1>10 DEF CreatePCs, UnderWay, BuildSteps
    <2>2. ord'[p] = ord[p] /\ \A r \in Procs : r # p => ord'[r] = ord[r]
      BY <1>5, <1>7, <1>8, <2>1
    <2>3. /\ ord'[p].pc = "build" /\ ord'[p].session = s /\ ~ord'[p].found
      BY <1>1, <1>2, <1>3, <2>2
    <2>4. OrderOK(p)'
      BY <1>3, <1>5, <1>6, <1>10, <2>3 DEF OrderOK, ForOrder, Paid
    <2> QED BY <2>1, <2>2, <2>4
  <1>11. CASE GoesOn(p, x) /\ req[p].pc # "insert"
    <2>1. /\ ord'[p] = ord[p] /\ OrderOK(p)'
          /\ \A r \in Procs : r # p => ord'[r] = ord[r]
      BY <1>10, <1>11 DEF GoesOn
    <2>2. OwnerStep
      <3>1. UNCHANGED owner
        BY <1>11 DEF Build
      <3> QED BY <1>11, <3>1, SameOwners DEF GoesOn
    <2>3. \A j \in Ids : Built(p, j)' => Built(p, j)
      BY <1>5, <1>11, <2>1 DEF Built, GoesOn
    <2>4. SlotsStep({p})
      BY <1>5, <2>1, <2>3 DEF SlotsStep
    <2> QED BY <1>1, <2>2, <2>4, RequestMoves
  <1>12. CASE Inserts(p, x)
    <2>1. /\ ord'[p] = ord[p] /\ OrderOK(p)' /\ req'[p].pc # "idle"
          /\ \A r \in Procs : r # p => ord'[r] = ord[r]
      BY <1>10, <1>12 DEF Inserts, CreatePCs
    <2>2. PICK i \in Ids : i = req[p].id
      BY <1>12 DEF Inserts
    <2>3. owner' = [owner EXCEPT ![i] = EmailOf[s]]
      BY <1>2, <1>12, <2>1, <2>2 DEF Build, Inserts, Email
    <2>4. owner'[i] = EmailOf[s] /\ \A j \in Ids : j # i => owner'[j] = owner[j]
      BY <1>0, <2>3
    <2>5. /\ sites[i].status = "free" /\ x.id = i /\ sites'[i].domain = DomainOf[s]
          /\ \A j \in Ids : j # i => sites'[j] = sites[j]
      BY <1>3, <1>12, <2>2 DEF Inserts
    <2>6. PaidFor(i)'
      BY <1>3, <1>6, <2>4, <2>5 DEF PaidFor
    <2>7. OwnerStep
      BY <2>4, <2>5, <2>6 DEF OwnerStep
    <2>8. \A j \in Ids : Built(p, j)' => j = i
      BY <1>1, <1>5, <2>1, <2>5 DEF Built
    <2>9. Email(p)' = EmailOf[s]
      BY <1>2, <2>1 DEF Email
    <2>10. SlotsStep({p})
      BY <1>5, <2>1, <2>4, <2>5, <2>8, <2>9 DEF SlotsStep
    <2> QED BY <1>1, <2>7, <2>10, RequestMoves
  <1> QED BY <1>4, <1>9, <1>11, <1>12

(* A request of the panel never creates a site.                            *)
LEMMA ServePanel ==
    ASSUME Assumptions, IndInv, NEW p \in Procs, Serve(p), FromPanel(req[p])
    PROVE  \E x : req' = [req EXCEPT ![p] = x] /\ FromPanel(x)
  <1>0. req[p] \in Request /\ req[p].pc # "idle" /\ req[p].kind # "create"
    <2>1. req[p].pc # "idle"
      BY DEF Serve, Redestroy, DropRow, Refuse, TryBase, PickUser, InsertRow, BuildStep, MarkError,
         Activate, Destroy, EditCall, SaveEdit, BuildSteps
    <2> QED BY <2>1 DEF IndInv, TypeOK, FromPanel
  <1>1. FromPanel(Idle)
    BY DEF Idle, FromPanel
  <1>2. \A pc \in {"drop", "save"} : FromPanel([req[p] EXCEPT !.pc = pc])
    BY <1>0 DEF FromPanel, Request
  <1>3. CASE DropRow(p) \/ SaveEdit(p)
    BY <1>0, <1>1, <1>3 DEF DropRow, SaveEdit
  <1>4. CASE Destroy(p) \/ EditCall(p)
    <2>1. PICK pc \in {"drop", "save"} : \/ req' = [req EXCEPT ![p] = [req[p] EXCEPT !.pc = pc]]
                                         \/ req' = [req EXCEPT ![p] = Idle]
      BY <1>4, AskEffect DEF Destroy, EditCall, Calling
    <2> QED BY <1>1, <1>2, <2>1
  <1> QED BY <1>3, <1>4
          DEF Serve, FromPanel, Redestroy, Refuse, TryBase, PickUser, InsertRow, BuildStep, MarkError,
              Activate, BuildSteps

LEMMA ActPanel ==
    ASSUME OrdersAssumptions, OrdersInv, StepTyped, NEW p \in Procs, Panel(p)
    PROVE  OrdersInv'
  <1>0. /\ ord \in [Procs -> Order] /\ req \in [Procs -> Request] /\ IndInv
        /\ Assumptions /\ OrderOK(p) /\ Kinds \subseteq RowKinds
    BY DEF OrdersInv, OrderTypes, IndInv, TypeOK, OrdersAssumptions, Assumptions,
       ProvisioningAssumption
  <1>1. ord[p].pc = "idle" /\ UNCHANGED <<pay, events, done, users, owner, mails, ord>>
    BY DEF Panel, At, orderVars
  <1>2. FromPanel(req[p])
    BY <1>0, <1>1 DEF OrderOK
  <1>3. /\ \E x : req' = [req EXCEPT ![p] = x] /\ FromPanel(x)
        /\ \A i \in Ids : sites[i].status = "free" => sites'[i] = sites[i]
    <2>1. CASE Serve(p)
      <3>1. req[p].pc # "insert"
        BY <1>2 DEF FromPanel
      <3> QED BY <1>0, <1>2, <2>1, <3>1, ServePanel, ServeFree DEF FreeKept
    <2>2. ASSUME NEW i \in Ids, NEW k \in Kinds, ReadSite(p, i, k)
          PROVE  /\ \E x : req' = [req EXCEPT ![p] = x] /\ FromPanel(x)
                 /\ UNCHANGED sites
      <3> DEFINE x == [pc |-> IF k = "delete" THEN "destroy" ELSE "edit", kind |-> k,
                       id |-> i, row |-> sites[i], app |-> sites[i].app]
      <3>1. FromPanel(x)
        BY <1>0 DEF FromPanel, RowKinds
      <3> QED BY <2>2, <3>1 DEF ReadSite
    <2> QED BY <2>1, <2>2 DEF Panel
  <1>4. PICK x : req' = [req EXCEPT ![p] = x] /\ FromPanel(x)
    BY <1>3
  <1>5. req'[p] = x /\ \A r \in Procs : r # p => req'[r] = req[r]
    BY <1>0, <1>4
  <1>6. ord'[p].pc = "idle"
    BY <1>1
  <1>7. OrderOK(p)' /\ \A i \in Ids : ~Built(p, i)'
    BY <1>4, <1>5, <1>6 DEF OrderOK, FromPanel, Built
  <1>8. SlotsStep({p}) /\ OwnerStep
    BY <1>1, <1>3, <1>5, <1>7, SameOwners DEF SlotsStep
  <1> QED BY <1>1, <1>8, RequestMoves

LEMMA ActCrashOrders ==
    ASSUME OrdersInv, StepTyped, CrashOrders
    PROVE  OrdersInv'
  <1>1. UNCHANGED <<sites, pay, events, done, users, owner, mails>>
    BY DEF CrashOrders, Crash
  <1>2. \A p \in Procs : ord'[p] = NoOrder /\ req'[p].pc = "idle"
    BY DEF CrashOrders, Crash, Idle
  <1>3. \A p \in Procs : OrderOK(p)' /\ \A i \in Ids : ~Built(p, i)'
    BY <1>2, Ended
  <1>4. SlotsStep(Procs) /\ OwnerStep
    BY <1>1, <1>3, SameOwners DEF SlotsStep
  <1> QED BY <1>1, <1>4, RequestMoves

LEMMA ActNothing ==
    ASSUME OrdersInv, StepTyped, UNCHANGED allVars
    PROVE  OrdersInv'
  <1>1. UNCHANGED <<sites, req, pay, events, done, users, owner, mails, ord>>
    BY DEF allVars, vars, orderVars
  <1>2. SlotsStep({}) /\ OwnerStep
    BY <1>1, SameOwners DEF SlotsStep
  <1> QED BY <1>1, <1>2, RequestMoves

LEMMA OrdersNextInv ==
    ASSUME OrdersAssumptions, OrdersInv, [OrdersNext]_allVars
    PROVE  OrdersInv'
  <1>1. StepTyped
    BY OrdersStepTyped
  <1>2. ASSUME NEW p \in Procs, Fulfil(p) PROVE OrdersInv'
    BY <1>1, <1>2, ActFindUser, ActCreateUser, ActProvision, ActBuild, ActReload, ActMark,
       ActSendWelcome, ActAnswer DEF Fulfil
  <1> QED BY <1>1, <1>2, ActStripe, ActWebhook, ActPoll, ActPanel, ActCrashOrders, ActNothing
          DEF OrdersNext

LEMMA OrdersInitInv ==
    ASSUME OrdersAssumptions, OrdersInit
    PROVE  OrdersInv
  <1>1. IndInv /\ \A i \in Ids : sites[i].status = "free"
    BY InitInv DEF OrdersAssumptions, OrdersInit, Init, NoRow, Draft
  <1>2. NoOrder \in Order
    BY DEF NoOrder, Order
  <1>3. OrderTypes
    BY <1>2 DEF OrdersInit, OrderTypes, PayStates
  <1>4. \A p \in Procs : ord[p] = NoOrder /\ req[p].pc = "idle"
    BY DEF OrdersInit, Init, Idle
  <1>5. \A p \in Procs : OrderOK(p) /\ \A i \in Ids : ~Built(p, i)
    BY <1>4 DEF NoOrder, OrderOK, FromPanel, Built
  <1>6. \A s \in Sessions : pay[s] = "new" /\ done[s] = NoId
    BY DEF OrdersInit
  <1>7. EventsOK /\ DoneOK /\ RowsOK /\ BuiltOK /\ MailsOK /\ AnswersOK
    BY <1>1, <1>5, <1>6
    DEF OrdersInit, EventsOK, DoneOK, RowsOK, BuiltOK, MailsOK, AnswersOK,
        AnsweredIsProcessed
  <1> QED BY <1>1, <1>3, <1>5, <1>7 DEF OrdersInv

------------------------------------------------------------------------------
(* What the invariant gives.                                               *)

(* Whatever orders, polls, deliveries and crashes do together, sites go    *)
(* through nothing but what Provisioning allows, and so whatever is proved *)
(* of Provisioning holds of paid orders too (fulfillStripeOrder reaches    *)
(* the table and the agent through provisionSite alone).                   *)
THEOREM OrdersProvision == OrdersAssumptions => (OrdersSpec => Spec)
  <1> SUFFICES ASSUME OrdersAssumptions PROVE OrdersSpec => Spec
    OBVIOUS
  <1>1. OrdersInit => OrdersInv /\ Init
    BY OrdersInitInv DEF OrdersInit
  <1>2. OrdersInv /\ [OrdersNext]_allVars => OrdersInv'
    BY OrdersNextInv
  <1>3. OrdersInv /\ [OrdersNext]_allVars => [Next]_vars
    BY StepOfProvisioning DEF OrdersAssumptions, OrdersInv, OrderOK
  <1> QED BY <1>1, <1>2, <1>3, PTL DEF OrdersSpec, Spec

(* Every variable of the orders keeps its type.                            *)
THEOREM OrdersKeepTypes == OrdersAssumptions => (OrdersSpec => []OrdersTypeOK)
  <1> SUFFICES ASSUME OrdersAssumptions PROVE OrdersSpec => []OrdersTypeOK
    OBVIOUS
  <1>1. OrdersInit => OrdersInv
    BY OrdersInitInv
  <1>2. OrdersInv /\ [OrdersNext]_allVars => OrdersInv'
    BY OrdersNextInv
  <1>3. OrdersInv => OrdersTypeOK
    BY DEF OrdersInv, IndInv, OrderTypes, OrdersTypeOK
  <1> QED BY <1>1, <1>2, <1>3, PTL DEF OrdersSpec

(* For any number of sessions, clients and requests at once: nobody gets a *)
(* site that was not paid for, and a session is only on record with a site *)
(* for its own domain (fulfillStripeOrder, MarkStripeSession).             *)
THEOREM NothingUnpaid == OrdersAssumptions => (OrdersSpec => []OnlyPaid)
  <1> SUFFICES ASSUME OrdersAssumptions PROVE OrdersSpec => []OnlyPaid
    OBVIOUS
  <1>1. OrdersInit => OrdersInv
    BY OrdersInitInv
  <1>2. OrdersInv /\ [OrdersNext]_allVars => OrdersInv'
    BY OrdersNextInv
  <1>3. OrdersInv => OnlyPaid
    <2> SUFFICES ASSUME OrdersInv PROVE OnlyPaid
      OBVIOUS
    <2>1. DoneOK /\ RowsOK
      BY DEF OrdersInv
    <2> QED BY <2>1 DEF DoneOK, RowsOK, PaidFor, SiteFor, OnlyPaid
  <1> QED BY <1>1, <1>2, <1>3, PTL DEF OrdersSpec

(* However webhook, polls and payments for one domain race, a site's       *)
(* passwords are mailed at most once, and to the client it belongs to      *)
(* (SendWelcome, only where AlreadyExists is false).                       *)
THEOREM MailedToOwner == OrdersAssumptions => (OrdersSpec => []CredentialsToOwner)
  <1> SUFFICES ASSUME OrdersAssumptions PROVE OrdersSpec => []CredentialsToOwner
    OBVIOUS
  <1>1. OrdersInit => OrdersInv
    BY OrdersInitInv
  <1>2. OrdersInv /\ [OrdersNext]_allVars => OrdersInv'
    BY OrdersNextInv
  <1>3. OrdersInv => CredentialsToOwner
    BY DEF OrdersInv, MailsOK, CredentialsToOwner
  <1> QED BY <1>1, <1>2, <1>3, PTL DEF OrdersSpec

(* Unless the store fails to record the session, whose error is dropped,   *)
(* Stripe keeps sending a paid event until the session is on record        *)
(* (handleStripeWebhook answers 200 only then).                            *)
THEOREM NoPaidOrderForgotten == OrdersAssumptions /\ Recorded => (OrdersSpec => []AnsweredIsProcessed)
  <1> SUFFICES ASSUME OrdersAssumptions /\ Recorded PROVE OrdersSpec => []AnsweredIsProcessed
    OBVIOUS
  <1>1. OrdersInit => OrdersInv
    BY OrdersInitInv
  <1>2. OrdersInv /\ [OrdersNext]_allVars => OrdersInv'
    BY OrdersNextInv
  <1>3. OrdersInv => AnsweredIsProcessed
    BY DEF OrdersInv, AnswersOK
  <1> QED BY <1>1, <1>2, <1>3, PTL DEF OrdersSpec

------------------------------------------------------------------------------
(* No site comes up without a word to its client.                          *)

(* SendWelcome gets through to the mailer, whose error is dropped.         *)
MailsGo == "mail" \notin FailingOps

Shown == {"active", "suspended"}
Editing(q) == q.pc \in {"edit", "save"}

(* The panel offers what changes the status for sites that are up only.    *)
EditsShown ==
    \A p \in Procs :
        Editing(req[p]) /\ req[p].kind \in {"suspend", "resume"} => req[p].row.status \in Shown

Told(i) == (\E m \in mails : m.id = i) \/ \E p \in Procs : Telling(p, i)

(* Site i is up, or may be again by an edit that read it when it was.      *)
Seen(p, i) == Editing(req[p]) /\ req[p].id = i /\ req[p].row.status \in Shown
Up(i) == Live(i) /\ (sites[i].status \in Shown \/ \E p \in Procs : Seen(p, i))

UpTold == crashes = 0 => \A i \in Ids : Up(i) => Told(i)

ToldInv == OrdersInv /\ EditsShown /\ UpTold

(* A step of request p that is not a new edit: an edit it is left with was *)
(* under way before, with the same copy.                                   *)
EditsRest(p) ==
    /\ \A r \in Procs : r # p => req'[r] = req[r]
    /\ Editing(req'[p]) =>
          /\ Editing(req[p]) /\ req'[p].id = req[p].id /\ req'[p].kind = req[p].kind
          /\ req'[p].row = req[p].row

LEMMA ServeEdits ==
    ASSUME Assumptions, IndInv, NEW p \in Procs, Serve(p)
    PROVE  EditsRest(p)
  <1>0. req \in [Procs -> Request] /\ req[p] \in Request
    BY DEF IndInv, TypeOK
  <1>1. ASSUME NEW x, req' = [req EXCEPT ![p] = x],
               \/ ~Editing(x)
               \/ /\ Editing(req[p]) /\ x.id = req[p].id /\ x.kind = req[p].kind
                  /\ x.row = req[p].row
        PROVE  EditsRest(p)
    BY <1>0, <1>1 DEF EditsRest
  <1>2. ~Editing(Idle)
    BY DEF Idle, Editing
  <1>3. \A pc \in PCs \ {"edit", "save"} : ~Editing([req[p] EXCEPT !.pc = pc])
    BY <1>0 DEF Request, Editing
  <1>4. CASE Redestroy(p)
    <2>1. req' = [req EXCEPT ![p] = [req[p] EXCEPT !.pc = "drop"]]
      BY <1>4, AskEffect DEF Redestroy, Calling
    <2> QED BY <1>1, <1>3, <2>1 DEF PCs
  <1>5. CASE DropRow(p)
    <2> DEFINE x == [req[p] EXCEPT !.pc = "admit", !.id = NoId,
                                   !.row = Draft(req[p].row.domain, req[p].app)]
    <2>1. ~Editing(x)
      BY <1>0 DEF Request, Editing
    <2>2. req' = [req EXCEPT ![p] = x] \/ req' = [req EXCEPT ![p] = Idle]
      BY <1>5 DEF DropRow
    <2> HIDE DEF x
    <2> QED BY <1>1, <1>2, <2>1, <2>2
  <1>6. CASE PickUser(p)
    <2>1. PICK u, i : req' = [req EXCEPT ![p].pc = "insert", ![p].id = i,
                               ![p].row = [@ EXCEPT !.status = "provisioning", !.user = u]]
      BY <1>6 DEF PickUser
    <2> DEFINE y == [req[p].row EXCEPT !.status = "provisioning", !.user = u]
               x == [req[p] EXCEPT !.pc = "insert", !.id = i, !.row = y]
    <2>2. req' = [req EXCEPT ![p] = x]
      BY <1>0, <2>1
    <2> HIDE DEF y
    <2>3. ~Editing(x)
      BY <1>0 DEF Request, Editing
    <2> QED BY <1>1, <2>2, <2>3
  <1>7. CASE InsertRow(p)
    <2>1. \/ req' = [req EXCEPT ![p] = Idle]
          \/ req' = [req EXCEPT ![p] = [req[p] EXCEPT !.pc = "create_site_user"]]
      BY <1>0, <1>7 DEF InsertRow
    <2> QED BY <1>1, <1>2, <1>3, <2>1 DEF PCs, BuildSteps
  <1>8. CASE BuildStep(p)
    <2>1. req[p].pc \in BuildSteps /\ req[p].row \in Row
      BY <1>0, <1>8 DEF BuildStep, Request
    <2>2. \/ req' = [req EXCEPT ![p] = Advance(req[p])]
          \/ req' = [req EXCEPT ![p] = GiveUp(req[p])]
      BY <1>8, AskEffect DEF BuildStep, Calling
    <2>3. ~Editing(Advance(req[p]))
      BY <1>0, <2>1, AdvanceTyped DEF Editing, BuildSteps
    <2>4. ~Editing(GiveUp(req[p]))
      BY <1>3, <2>3 DEF GiveUp, PCs
    <2> QED BY <1>1, <2>2, <2>3, <2>4
  <1>9. CASE Destroy(p)
    <2>1. \/ req' = [req EXCEPT ![p] = [req[p] EXCEPT !.pc = "drop"]]
          \/ req' = [req EXCEPT ![p] = Idle]
      BY <1>9, AskEffect DEF Destroy, Calling
    <2> QED BY <1>1, <1>2, <1>3, <2>1 DEF PCs
  <1>10. CASE EditCall(p)
    <2> DEFINE x == [req[p] EXCEPT !.pc = "save"]
    <2>1. req' = [req EXCEPT ![p] = x] \/ req' = [req EXCEPT ![p] = Idle]
      BY <1>10, AskEffect DEF EditCall, Calling
    <2>2. x.id = req[p].id /\ x.kind = req[p].kind /\ x.row = req[p].row
      BY <1>0 DEF Request
    <2>3. Editing(req[p])
      BY <1>10 DEF EditCall, Editing
    <2> HIDE DEF x
    <2> QED BY <1>1, <1>2, <2>1, <2>2, <2>3
  <1>11. CASE Refuse(p) \/ MarkError(p) \/ Activate(p) \/ SaveEdit(p)
    BY <1>1, <1>2, <1>11 DEF Refuse, MarkError, Activate, SaveEdit
  <1>12. CASE TryBase(p)
    <2>1. req' = [req EXCEPT ![p] = [req[p] EXCEPT !.pc = "suffix"]]
      BY <1>0, <1>12 DEF TryBase
    <2> QED BY <1>1, <1>3, <2>1 DEF PCs
  <1> QED BY <1>4, <1>5, <1>6, <1>7, <1>8, <1>9, <1>10, <1>11, <1>12 DEF Serve

(* What a request does to the table that brings a site up, or back up:     *)
(* it activates the one it built, or saves an edit of one that was.        *)
LEMMA ServeUp ==
    ASSUME Assumptions, IndInv, EditsShown, NEW p \in Procs, Serve(p), NEW i \in Ids,
           Live(i)', sites'[i].status \in Shown
    PROVE  \/ sites'[i] = sites[i]
           \/ Activate(p) /\ req[p].id = i
           \/ Live(i) /\ Seen(p, i)
  <1>0. sites \in [Ids -> Row] /\ req[p] \in Request
    BY DEF IndInv, TypeOK
  <1>1. ASSUME NEW j \in Ids, NEW x \in Row, sites' = [sites EXCEPT ![j] = x],
               x.status \notin Shown
        PROVE  sites'[i] = sites[i]
    BY <1>0, <1>1
  <1>2. CASE DropRow(p)
    <2>1. req[p].id \in Ids
      BY <1>2, Copy DEF DropRow, HoldPCs
    <2>2. DeleteSite(req[p].id)
      BY <1>2 DEF DropRow
    <2>3. CASE sites' = [sites EXCEPT ![req[p].id].status = "deleted"]
      <3>1. [sites[req[p].id] EXCEPT !.status = "deleted"].status \notin Shown
        BY <1>0, <2>1 DEF Row, Shown
      <3>2. [sites[req[p].id] EXCEPT !.status = "deleted"] \in Row
        BY <1>0, <2>1 DEF Row
      <3> QED BY <1>1, <2>1, <2>3, <3>1, <3>2
    <2> QED BY <2>2, <2>3 DEF DeleteSite
  <1>3. CASE InsertRow(p)
    <2>1. InsertOK(sites, req[p])
      BY DEF IndInv, RequestInv, RequestOK
    <2>2. req[p].id \in Ids /\ req[p].row \in Row /\ req[p].row.status \notin Shown
      BY <1>0, <1>3, <2>1 DEF InsertOK, InsertRow, Request, Shown
    <2> QED BY <1>1, <1>3, <2>2 DEF InsertRow
  <1>4. CASE MarkError(p)
    <2> DEFINE x == [req[p].row EXCEPT !.status = "error"]
    <2>1. req[p].id \in Ids
      BY <1>4, Copy DEF MarkError, HoldPCs
    <2>2. x \in Row /\ x.status \notin Shown
      <3>1. req[p].row \in Row
        BY <1>0 DEF Request
      <3>2. x \in Row
        BY <1>4, MarkedCopy DEF MarkError, HoldPCs, LiveStatus, SavableAs
      <3>3. x.status = "error"
        BY <3>1 DEF Row
      <3> QED BY <3>2, <3>3 DEF Shown
    <2>3. sites' = sites \/ sites' = [sites EXCEPT ![req[p].id] = x]
      BY <1>4 DEF MarkError, UpdateSite
    <2> HIDE DEF x
    <2> QED BY <1>1, <2>1, <2>2, <2>3
  <1>5. ASSUME NEW x, UpdateSite(req[p].id, x), sites'[i] # sites[i]
        PROVE  req[p].id = i /\ Live(i) /\ sites'[i] = x
    BY <1>0, <1>5 DEF UpdateSite
  <1>6. CASE Activate(p)
    BY <1>5, <1>6 DEF Activate
  <1>7. CASE SaveEdit(p) /\ sites'[i] # sites[i]
    <2>1. req[p].id = i /\ Live(i) /\ sites'[i] = Edited(req[p]) /\ Editing(req[p])
      BY <1>5, <1>7 DEF SaveEdit, Editing
    <2>2. req[p].row.status \in Shown
      <3>1. CASE req[p].kind \in {"suspend", "resume"}
        BY <2>1, <3>1 DEF EditsShown
      <3>2. CASE req[p].kind \notin {"suspend", "resume"}
        <4>1. Edited(req[p]).status = req[p].row.status
          BY <1>0, <3>2 DEF Edited, Request, Row
        <4> QED BY <2>1, <4>1
      <3> QED BY <3>1, <3>2
    <2> QED BY <2>1, <2>2 DEF Seen
  <1> QED BY <1>2, <1>3, <1>4, <1>6, <1>7
          DEF Serve, Redestroy, Refuse, TryBase, PickUser, BuildStep, Destroy, EditCall

(* The steps of slot p, an order's or the panel's, in which it is served.  *)
LEMMA SlotUp ==
    ASSUME Assumptions, OrdersInv, SitesStep, EditsShown, NEW p \in Procs, Serve(p),
           NEW i \in Ids, Up(i)'
    PROVE  Up(i) \/ (Activate(p) /\ req[p].id = i)
  <1>0. IndInv /\ EditsRest(p)
    BY ServeEdits DEF OrdersInv
  <1>1. CASE sites'[i].status \in Shown
    <2>1. \/ sites'[i] = sites[i]
          \/ Activate(p) /\ req[p].id = i
          \/ Live(i) /\ Seen(p, i)
      BY <1>0, <1>1, ServeUp DEF Up
    <2> QED BY <1>1, <2>1 DEF Up, Live
  <1>2. ASSUME NEW r \in Procs, Seen(r, i)' PROVE Up(i)
    <2>1. Seen(r, i)
      <3>1. CASE r = p
        BY <1>0, <1>2, <3>1 DEF EditsRest, Seen
      <3>2. CASE r # p
        BY <1>0, <1>2, <3>2 DEF EditsRest, Seen
      <3> QED BY <3>1, <3>2
    <2>2. HoldOK(sites, req[r])
      BY <1>0 DEF IndInv, RequestInv, RequestOK
    <2>3. sites[i].status # "free"
      BY <2>1, <2>2 DEF Seen, Editing, HoldOK, HoldPCs
    <2>4. Live(i)
      BY <1>2, <2>3 DEF Up, Live, LiveStatus, SitesStep, Rewritten, Inserted
    <2> QED BY <2>1, <2>4 DEF Up
  <1> QED BY <1>1, <1>2 DEF Up

(* A site stays told of until it is deleted, which the order that is about *)
(* to mail finds out by GetSite.                                           *)
LEMMA ToldKept ==
    ASSUME OrdersInv, MailsGo, [OrdersNext]_allVars, ~CrashOrders, NEW i \in Ids,
           Told(i), Live(i)'
    PROVE  Told(i)'
  <1>0. ord \in [Procs -> Order]
    BY DEF OrdersInv, OrderTypes
  <1>1. mails \subseteq mails'
    BY DEF OrdersNext, Checkout, Complete, Settle, Webhook, Poll, Fulfil, FindUser, CreateUser,
       Provision, Build, Reload, Mark, SendWelcome, Answer, Panel, CrashOrders, allVars,
       orderVars
  <1>2. ASSUME NEW q \in Procs, Telling(q, i)
        PROVE  Told(i)'
    <2>1. ord[q].pc \in {"reload", "mark", "mail"} /\ ~ord[q].found /\ ord[q].id = i
      BY <1>2 DEF Telling
    <2>2. CASE ord'[q] = ord[q]
      BY <2>1, <2>2 DEF Told, Telling
    <2>3. ord[q] \in Order
      BY <1>0
    <2>4. CASE Reload(q)
      <3> DEFINE o == [ord[q] EXCEPT !.pc = "mark"]
      <3>1. Live(i)
        BY <2>4 DEF Reload, vars, Live
      <3>2. ord'[q] = o
        BY <1>0, <2>1, <2>4, <3>1 DEF Reload, Goto
      <3>3. o.pc = "mark" /\ o.found = ord[q].found /\ o.id = ord[q].id
        BY <2>3 DEF Order
      <3> QED BY <2>1, <3>2, <3>3 DEF Told, Telling
    <2>5. CASE Mark(q)
      <3> DEFINE o == [ord[q] EXCEPT !.pc = "mail"]
      <3>1. ord'[q] = o
        BY <1>0, <2>1, <2>5 DEF Mark, Goto
      <3>2. o.pc = "mail" /\ o.found = ord[q].found /\ o.id = ord[q].id
        BY <2>3 DEF Order
      <3> QED BY <2>1, <3>1, <3>2 DEF Told, Telling
    <2>6. CASE SendWelcome(q)
      <3> DEFINE m == [session |-> ord[q].session, id |-> ord[q].id, pass |-> ord[q].pass]
      <3>1. m \in mails' /\ m.id = i
        BY <2>1, <2>6 DEF SendWelcome, MailsGo
      <3> QED BY <3>1 DEF Told
    <2>7. ~Free(q) /\ ~At(q, "idle") /\ ~At(q, "find_user") /\ ~At(q, "create_user")
          /\ ~At(q, "provision") /\ ~At(q, "build") /\ ~At(q, "answer")
      BY <2>1 DEF Free, At
    <2>8. ASSUME NEW p \in Procs, p # q, NEW o, Goto(p, o) PROVE ord'[q] = ord[q]
      BY <1>0, <2>8 DEF Goto
    <2>9. ASSUME NEW p \in Procs, NEW e \in events, Webhook(p, e) PROVE ord'[q] = ord[q]
      BY <2>7, <2>8, <2>9 DEF Webhook
    <2>10. ASSUME NEW p \in Procs, NEW s \in Sessions, Poll(p, s) PROVE ord'[q] = ord[q]
      BY <2>7, <2>8, <2>10 DEF Poll
    <2>11. ASSUME NEW p \in Procs, Fulfil(p), p # q PROVE ord'[q] = ord[q]
      BY <2>8, <2>11 DEF Fulfil, FindUser, CreateUser, Provision, Build, Reload, Mark,
         SendWelcome, Answer
    <2>12. ASSUME Fulfil(q) PROVE Reload(q) \/ Mark(q) \/ SendWelcome(q)
      BY <2>7, <2>12 DEF Fulfil, FindUser, CreateUser, Provision, Build, Answer
    <2>13. ASSUME NEW s \in Sessions,
                  \/ Checkout(s) \/ Settle(s) \/ \E paid \in BOOLEAN : Complete(s, paid)
           PROVE  ord' = ord
      BY <2>13 DEF Checkout, Settle, Complete
    <2>14. ASSUME NEW p \in Procs, Panel(p) PROVE ord' = ord
      BY <2>14 DEF Panel, orderVars
    <2> QED BY <2>2, <2>4, <2>5, <2>6, <2>9, <2>10, <2>11, <2>12, <2>13, <2>14
            DEF OrdersNext, allVars, orderVars
  <1> QED BY <1>1, <1>2 DEF Told

LEMMA EditsKept ==
    ASSUME OrdersAssumptions, OrdersInv, EditsShown, [OrdersNext]_allVars
    PROVE  EditsShown'
  <1>0. Assumptions /\ IndInv /\ req \in [Procs -> Request]
    BY DEF OrdersAssumptions, OrdersInv, IndInv, TypeOK
  <1>1. ASSUME NEW p \in Procs, Serve(p) PROVE EditsShown'
    <2>1. EditsRest(p)
      BY <1>0, <1>1, ServeEdits
    <2>2. ASSUME NEW r \in Procs, r # p PROVE req'[r] = req[r]
      BY <2>1, <2>2 DEF EditsRest
    <2> QED BY <2>1, <2>2 DEF EditsRest, EditsShown
  <1>2. ASSUME NEW p \in Procs, NEW x, req' = [req EXCEPT ![p] = x],
               Editing(x) /\ x.kind \in {"suspend", "resume"} => x.row.status \in Shown
        PROVE  EditsShown'
    BY <1>0, <1>2 DEF EditsShown
  <1>3. ASSUME NEW p \in Procs, NEW i \in Ids, NEW k \in Kinds, ReadSite(p, i, k)
        PROVE  EditsShown'
    <2> DEFINE x == [pc |-> IF k = "delete" THEN "destroy" ELSE "edit", kind |-> k,
                     id |-> i, row |-> sites[i], app |-> sites[i].app]
    <2>1. req' = [req EXCEPT ![p] = x] /\ sites[i].status \in Offered(k)
      BY <1>3 DEF ReadSite
    <2>2. x.kind = k /\ x.row = sites[i]
      OBVIOUS
    <2>3. k \in {"suspend", "resume"} => sites[i].status \in Shown
      BY <2>1 DEF Offered, Shown
    <2> HIDE DEF x
    <2> QED BY <1>2, <2>1, <2>2, <2>3
  <1>4. ASSUME NEW p \in Procs, NEW d \in Domains, NEW a \in Apps, Lookup(p, d, a)
        PROVE  EditsShown'
    <2> DEFINE y == [pc |-> "admit", kind |-> "create", id |-> NoId, row |-> Draft(d, a),
                     app |-> a]
    <2>1. ~Editing(y)
      BY DEF Editing
    <2>2. \A i \in Ids : ~Editing([pc |-> "redestroy", kind |-> "create", id |-> i,
                                   row |-> sites[i], app |-> a])
      BY DEF Editing
    <2> HIDE DEF y
    <2>3. \/ req' = [req EXCEPT ![p] = y]
          \/ \E i \in Ids : req' = [req EXCEPT ![p] = [pc |-> "redestroy", kind |-> "create",
                                                       id |-> i, row |-> sites[i], app |-> a]]
      BY <1>4 DEF Lookup, y
    <2> QED BY <1>2, <2>1, <2>2, <2>3
  <1>5. CASE Crash
    BY <1>5 DEF Crash, EditsShown, Editing, Idle
  <1>6. CASE UNCHANGED req
    BY <1>6 DEF EditsShown
  <1>7. [Next]_vars
    BY StepOfProvisioning DEF OrdersAssumptions, OrdersInv, OrderOK
  <1> QED BY <1>1, <1>3, <1>4, <1>5, <1>6, <1>7 DEF Next, RunLate, vars

(* The steps at which nobody writes the table nor takes a new copy.        *)
LEMMA UpRests ==
    ASSUME UNCHANGED sites, NEW i \in Ids,
           \A r \in Procs : Seen(r, i)' => Seen(r, i) \/ sites[i].status \in Shown
    PROVE  Up(i)' => Up(i)
  BY DEF Up, Live

(* A step that brings a site up is that of the order that goes on to mail. *)
LEMMA UpStep ==
    ASSUME OrdersAssumptions, OrdersInv, EditsShown, [OrdersNext]_allVars, ~CrashOrders,
           NEW i \in Ids, Up(i)'
    PROVE  Up(i) \/ Told(i)'
  <1>0. /\ Assumptions /\ IndInv /\ req \in [Procs -> Request] /\ ord \in [Procs -> Order]
        /\ SitesStep
    BY OrdersStepTyped DEF OrdersAssumptions, OrdersInv, OrderTypes, IndInv, TypeOK, StepTyped
  <1>1. CASE UNCHANGED <<sites, req>>
    <2>1. \A r \in Procs : Seen(r, i)' => Seen(r, i)
      BY <1>1 DEF Seen
    <2> QED BY <1>1, <2>1, UpRests
  <1>2. ASSUME NEW p \in Procs, Build(p) PROVE Up(i) \/ Told(i)'
    <2>1. Up(i) \/ (Activate(p) /\ req[p].id = i)
      BY <1>0, <1>2, SlotUp DEF Build
    <2>2. ASSUME Activate(p), req[p].id = i PROVE Telling(p, i)'
      <3>1. ord[p].pc = "build" /\ ord[p] \in Order /\ ~ord[p].found
        <4>1. OrderOK(p)
          BY DEF OrdersInv
        <4> QED BY <1>0, <1>2, <4>1 DEF Build, At, OrderOK
      <3>2. req'[p].pc = "idle" /\ req[p].pc = "activate"
        BY <1>0, <2>2 DEF Activate, Idle
      <3>3. ord' = [ord EXCEPT ![p] = [ord[p] EXCEPT !.pc = "reload", !.id = i]]
        BY <1>2, <2>2, <3>2 DEF Build, Goto
      <3> DEFINE o == [ord[p] EXCEPT !.pc = "reload", !.id = i]
      <3>4. o.pc = "reload" /\ o.id = i /\ o.found = ord[p].found
        BY <3>1 DEF Order
      <3>5. ord'[p] = o
        BY <1>0, <3>3
      <3> HIDE DEF o
      <3> QED BY <3>1, <3>4, <3>5 DEF Telling
    <2> QED BY <2>1, <2>2 DEF Told
  <1>3. ASSUME NEW p \in Procs, Panel(p) PROVE Up(i)
    <2>1. FromPanel(req[p])
      BY <1>3 DEF Panel, At, OrdersInv, OrderOK
    <2>2. CASE Serve(p)
      BY <1>0, <2>1, <2>2, SlotUp DEF Activate, FromPanel
    <2>3. ASSUME NEW j \in Ids, NEW k \in Kinds, ReadSite(p, j, k) PROVE Up(i)
      <3> DEFINE x == [pc |-> IF k = "delete" THEN "destroy" ELSE "edit", kind |-> k,
                       id |-> j, row |-> sites[j], app |-> sites[j].app]
      <3>1. req'[p] = x /\ (\A r \in Procs : r # p => req'[r] = req[r]) /\ UNCHANGED sites
        BY <1>0, <2>3 DEF ReadSite
      <3>2. x.id = j /\ x.row = sites[j]
        OBVIOUS
      <3> HIDE DEF x
      <3>3. \A r \in Procs : Seen(r, i)' => Seen(r, i) \/ sites[i].status \in Shown
        BY <3>1, <3>2 DEF Seen
      <3> QED BY <3>1, <3>3, UpRests
    <2> QED BY <1>3, <2>2, <2>3 DEF Panel
  <1>4. ASSUME NEW p \in Procs, Provision(p) PROVE Up(i)
    <2>1. CASE UNCHANGED vars
      BY <1>1, <2>1, UpRests DEF vars, Seen
    <2>2. CASE Lookup(p, DomainOf[ord[p].session], AppOf[ord[p].session])
      <3>1. /\ UNCHANGED sites /\ \A r \in Procs : r # p => req'[r] = req[r]
            /\ ~Editing(req'[p])
        BY <1>0, <2>2 DEF Lookup, Editing
      <3>2. \A r \in Procs : Seen(r, i)' => Seen(r, i)
        BY <3>1 DEF Seen, Editing
      <3> QED BY <3>1, <3>2, UpRests
    <2> QED BY <1>4, <2>1, <2>2 DEF Provision
  <1>5. ASSUME NEW p \in Procs, Fulfil(p), ~Provision(p), ~Build(p) PROVE UNCHANGED <<sites, req>>
    BY <1>5 DEF Fulfil, FindUser, CreateUser, Reload, Mark, SendWelcome, Answer, vars
  <1>6. ASSUME NEW p \in Procs, NEW e \in events, Webhook(p, e) PROVE UNCHANGED <<sites, req>>
    BY <1>6 DEF Webhook, vars
  <1>7. ASSUME NEW s \in Sessions,
               \/ Checkout(s) \/ Settle(s)
               \/ \E paid \in BOOLEAN : Complete(s, paid)
               \/ \E p \in Procs : Poll(p, s)
        PROVE  UNCHANGED <<sites, req>>
    BY <1>7 DEF Checkout, Settle, Complete, Poll, vars
  <1> QED BY <1>1, <1>2, <1>3, <1>4, <1>5, <1>6, <1>7 DEF OrdersNext, allVars, vars

LEMMA ToldStep ==
    ASSUME OrdersAssumptions, MailsGo, ToldInv, [OrdersNext]_allVars
    PROVE  ToldInv'
  <1>1. OrdersInv' /\ EditsShown'
    BY OrdersNextInv, EditsKept DEF ToldInv
  <1>2. CASE CrashOrders
    <2>1. crashes' # 0
      BY <1>2 DEF CrashOrders, Crash, ToldInv, OrdersInv, IndInv, TypeOK, OrdersAssumptions,
         Assumptions, ProvisioningAssumption
    <2> QED BY <1>1, <2>1 DEF ToldInv, UpTold
  <1>3. ASSUME ~CrashOrders, crashes' = 0, NEW i \in Ids, Up(i)'
        PROVE  Told(i)'
    <2>1. crashes = 0
      <3>1. [Next]_vars
        BY StepOfProvisioning DEF OrdersAssumptions, ToldInv, OrdersInv, OrderOK
      <3>2. crashes \in Nat
        BY DEF ToldInv, OrdersInv, IndInv, TypeOK
      <3>3. ~Crash
        BY <1>3, <3>2 DEF Crash
      <3>4. ASSUME NEW p \in Procs, Serve(p) PROVE UNCHANGED crashes
        BY <3>4 DEF Serve, Redestroy, DropRow, Refuse, TryBase, PickUser, InsertRow, BuildStep,
           MarkError, Activate, Destroy, EditCall, SaveEdit
      <3> QED BY <1>3, <3>1, <3>3, <3>4 DEF Next, Lookup, ReadSite, RunLate, vars
    <2>2. Up(i) \/ Told(i)'
      BY <1>3, UpStep DEF ToldInv
    <2>3. CASE Up(i)
      BY <1>3, <2>1, <2>3, ToldKept DEF ToldInv, UpTold, Up
    <2> QED BY <2>2, <2>3
  <1> QED BY <1>1, <1>2, <1>3 DEF ToldInv, UpTold

(* However many sessions, deliveries and polls one domain is ordered by,   *)
(* and whatever the panel edits meanwhile, a site that is up has been      *)
(* mailed to its client, or an order is about to (fulfillStripeOrder marks *)
(* the session first and does not look at it again before SendWelcome).    *)
(* In an API that stays up: a crash after the UPDATE loses the passwords.  *)
THEOREM NobodyForgotten == OrdersAssumptions => (OrdersSpec => []PasswordsSent)
  <1> SUFFICES ASSUME OrdersAssumptions PROVE OrdersSpec => []PasswordsSent
    OBVIOUS
  <1>1. CASE ~MailsGo
    <2>1. PasswordsSent
      BY <1>1 DEF MailsGo, PasswordsSent
    <2>2. PasswordsSent'
      BY <1>1 DEF MailsGo, PasswordsSent
    <2> QED BY <2>1, <2>2, PTL DEF OrdersSpec
  <1>2. CASE MailsGo
    <2>1. OrdersInit => ToldInv
      <3> SUFFICES ASSUME OrdersInit PROVE ToldInv
        OBVIOUS
      <3>1. \A i \in Ids : sites[i].status = "free"
        BY DEF OrdersInit, Init, NoRow, Draft
      <3>2. EditsShown
        BY DEF OrdersInit, Init, Idle, EditsShown, Editing
      <3> QED BY <3>1, <3>2, OrdersInitInv DEF ToldInv, UpTold, Up, Live, LiveStatus
    <2>2. ToldInv /\ [OrdersNext]_allVars => ToldInv'
      BY <1>2, ToldStep
    <2>3. ToldInv => PasswordsSent
      BY DEF ToldInv, UpTold, Up, Told, Shown, Live, LiveStatus, PasswordsSent
    <2> QED BY <2>1, <2>2, <2>3, PTL DEF OrdersSpec
  <1> QED BY <1>1, <1>2
------------------------------------------------------------------------------
(* What the client is promised: the tables and the mails as PaidSites sees *)
(* them, and how each step shows there.                                    *)

PaidFrom == {s \in Sessions : Paid(s)}

OnSale == [i \in Ids |-> [state  |-> IF Live(i) THEN "live" ELSE sites[i].status,
                          domain |-> sites[i].domain,
                          owner  |-> owner[i]]]

AsPromised == Promise!Next \/ UNCHANGED <<PaidFrom, OnSale, done, mails>>

SameOnSale(i) ==
    /\ sites'[i].domain = sites[i].domain
    /\ Live(i)' <=> Live(i)
    /\ ~Live(i) => sites'[i].status = sites[i].status

LEMMA OnSaleKept ==
    ASSUME owner' = owner, NEW i \in Ids, SameOnSale(i)
    PROVE  OnSale'[i] = OnSale[i]
  <1>1. /\ OnSale[i] = [state  |-> IF Live(i) THEN "live" ELSE sites[i].status,
                        domain |-> sites[i].domain, owner  |-> owner[i]]
        /\ OnSale'[i] = [state  |-> IF Live(i)' THEN "live" ELSE sites'[i].status,
                         domain |-> sites'[i].domain, owner  |-> owner'[i]]
    BY DEF OnSale
  <1>2. CASE Live(i)
    BY <1>1, <1>2 DEF SameOnSale
  <1>3. CASE ~Live(i)
    BY <1>1, <1>3 DEF SameOnSale
  <1> QED BY <1>2, <1>3

LEMMA StaysPromised ==
    ASSUME owner' = owner, UNCHANGED <<pay, done, mails>>, \A i \in Ids : SameOnSale(i)
    PROVE  AsPromised
  <1>1. OnSale' = OnSale
    BY OnSaleKept DEF OnSale
  <1>2. PaidFrom' = PaidFrom
    BY DEF PaidFrom, Paid
  <1> QED BY <1>1, <1>2 DEF AsPromised

LEMMA SameSitesPromised ==
    ASSUME UNCHANGED <<sites, owner, pay, done, mails>>
    PROVE  AsPromised
  BY StaysPromised DEF SameOnSale, Live

(* A site is deleted, or its row changes in ways the client is not told.   *)
LEMMA RemovedAsPromised ==
    ASSUME StepTyped, UNCHANGED <<owner, pay, done, mails>>, NEW i \in Ids,
           \A j \in Ids : j # i => sites'[j] = sites[j],
           sites[i].status = "free" => sites'[i] = sites[i]
    PROVE  AsPromised
  <1>1. \A j \in Ids : j # i => SameOnSale(j)
    BY DEF SameOnSale, Live
  <1>2. CASE SameOnSale(i)
    BY <1>1, <1>2, StaysPromised
  <1>3. CASE ~SameOnSale(i)
    <2>1. /\ Live(i) /\ sites'[i].domain = sites[i].domain /\ sites'[i].status = "deleted"
      <3>1. Rewritten(i)
        <4>1. sites'[i] # sites[i]
          BY <1>3 DEF SameOnSale, Live
        <4> QED BY <4>1 DEF StepTyped, SitesStep, Inserted
      <3> QED BY <1>3, <3>1 DEF Rewritten, SameOnSale, Live
    <2>2. OnSale' = [OnSale EXCEPT ![i].state = "deleted"]
      <3>1. \A j \in Ids : j # i => OnSale'[j] = OnSale[j]
        BY <1>1, OnSaleKept
      <3>2. OnSale'[i] = [OnSale[i] EXCEPT !.state = "deleted"]
        BY <2>1 DEF OnSale, Live, LiveStatus
      <3> QED BY <3>1, <3>2 DEF OnSale
    <2>3. OnSale[i].state = "live"
      BY <2>1 DEF OnSale
    <2>4. PaidFrom' = PaidFrom
      BY DEF PaidFrom, Paid
    <2>5. Promise!Remove(i)
      BY <2>2, <2>3, <2>4 DEF Promise!Remove, OnSale, PaidFrom
    <2> QED BY <2>5 DEF AsPromised, Promise!Next
  <1> QED BY <1>2, <1>3

(* Every statement on the table is about the request's own row.            *)
LEMMA OwnRow ==
    ASSUME IndInv, NEW p \in Procs, Serve(p)
    PROVE  \A i \in Ids : i # req[p].id => sites'[i] = sites[i]
  <1>1. sites \in [Ids -> Row]
    BY DEF IndInv, TypeOK
  <1>2. CASE DropRow(p)
    BY <1>1, <1>2 DEF DropRow, DeleteSite
  <1>3. CASE InsertRow(p)
    BY <1>1, <1>3 DEF InsertRow
  <1>4. CASE MarkError(p) \/ Activate(p) \/ SaveEdit(p)
    BY <1>1, <1>4 DEF MarkError, Activate, SaveEdit, UpdateSite
  <1> QED BY <1>2, <1>3, <1>4
          DEF Serve, Redestroy, Refuse, TryBase, PickUser, BuildStep, Destroy, EditCall

LEMMA ServedAsPromised ==
    ASSUME OrdersAssumptions, OrdersInv, StepTyped, NEW p \in Procs, Serve(p),
           UNCHANGED <<owner, pay, done, mails>>,
           \A i \in Ids : sites[i].status = "free" => sites'[i] = sites[i]
    PROVE  AsPromised
  <1>1. \A i \in Ids : i # req[p].id => sites'[i] = sites[i]
    BY OwnRow DEF OrdersInv
  <1>2. CASE req[p].id \in Ids
    BY <1>1, <1>2, RemovedAsPromised
  <1>3. CASE req[p].id \notin Ids
    BY <1>1, <1>3, StaysPromised DEF SameOnSale, Live
  <1> QED BY <1>2, <1>3

(* The INSERT of an order is the one step that raises a site.              *)
LEMMA BuildAsPromised ==
    ASSUME OrdersAssumptions, OrdersInv, StepTyped, NEW p \in Procs, Build(p)
    PROVE  AsPromised
  <1>0. /\ req \in [Procs -> Request] /\ IndInv /\ Assumptions
        /\ owner \in [Ids -> Emails \cup {NoEmail}] /\ ord[p].pc = "build" /\ Serve(p)
        /\ UNCHANGED <<pay, done, mails>>
    BY DEF OrdersInv, OrderTypes, IndInv, TypeOK, OrdersAssumptions, Build, At
  <1>1. PICK s : s = ord[p].session
    OBVIOUS
  <1>2. /\ s \in Sessions /\ Paid(s) /\ req[p].pc \in CreatePCs
        /\ req[p].kind = "create" /\ req[p].row.domain = DomainOf[s]
    BY <1>0, <1>1, InOrder DEF OrderOK, ForOrder
  <1>3. PICK x : /\ req' = [req EXCEPT ![p] = x]
                 /\ Ends(p, x) \/ GoesOn(p, x) \/ Inserts(p, x)
                 /\ req[p].pc = "insert" => Ends(p, x) \/ Inserts(p, x)
    BY <1>0, <1>2, ServeCreate
  <1>4. req'[p] = x
    BY <1>0, <1>3
  <1>5. CASE Ends(p, x) \/ (GoesOn(p, x) /\ req[p].pc # "insert")
    <2>1. owner' = owner
      BY <1>4, <1>5 DEF Build, Ends
    <2>2. \A i \in Ids : sites[i].status = "free" => sites'[i] = sites[i]
      BY <1>5 DEF Ends, GoesOn
    <2> QED BY <1>0, <2>1, <2>2, ServedAsPromised
  <1>6. CASE Inserts(p, x)
    <2>1. PICK i \in Ids : i = req[p].id
      BY <1>6 DEF Inserts
    <2>2. /\ x.pc # "idle" /\ x.pc \in HoldPCs /\ x.id = i
      BY <1>6, <2>1 DEF Inserts, UnderWay, HoldPCs, BuildSteps
    <2>3. owner'[i] = EmailOf[s] /\ \A j \in Ids : j # i => owner'[j] = owner[j]
      <3>1. owner' = [owner EXCEPT ![i] = EmailOf[s]]
        BY <1>1, <1>4, <1>6, <2>1, <2>2 DEF Build, Inserts, Email
      <3> QED BY <1>0, <3>1
    <2>4. Inserted(i)
      <3>1. sites[i].status = "free"
        BY <1>6, <2>1 DEF Inserts
      <3>2. sites'[i].status # "free"
        <4>1. RequestOK(sites', req'[p])
          BY DEF StepTyped, IndInv, RequestInv
        <4> QED BY <1>4, <2>2, <4>1 DEF RequestOK, HoldOK
      <3> QED BY <3>1, <3>2 DEF StepTyped, SitesStep, Rewritten, Live, LiveStatus
    <2>5. sites'[i].domain = DomainOf[s]
      BY <1>2, <1>6, <2>1, <2>2 DEF Inserts
    <2>6. OnSale' = [OnSale EXCEPT ![i] = [state |-> "live", domain |-> DomainOf[s],
                                           owner |-> EmailOf[s]]]
      <3>1. \A j \in Ids : j # i => OnSale'[j] = OnSale[j]
        BY <2>3, <2>4 DEF Inserted, OnSale, Live
      <3>2. OnSale'[i] = [state |-> "live", domain |-> DomainOf[s], owner |-> EmailOf[s]]
        BY <2>3, <2>4, <2>5 DEF Inserted, OnSale, Live, LiveStatus
      <3> QED BY <3>1, <3>2 DEF OnSale
    <2>7. OnSale[i].state = "free"
      BY <2>4 DEF OnSale, Inserted, Live, LiveStatus
    <2>8. \A j \in Ids : ~(OnSale[j].state = "live" /\ OnSale[j].domain = DomainOf[s])
      <3>1. \A j \in Ids : ~(Live(j) /\ sites[j].domain = DomainOf[s])
        BY <2>4, <2>5 DEF Inserted, DomainTaken
      <3>2. \A j \in Ids : OnSale[j].state = "live" => Live(j)
        <4>1. \A j \in Ids : sites[j].status = "live" => Live(j)
          BY <1>0 DEF IndInv, TypeOK, Row, LiveStatus
        <4> QED BY <4>1 DEF OnSale
      <3> QED BY <3>1, <3>2 DEF OnSale
    <2>9. s \in PaidFrom /\ PaidFrom' = PaidFrom
      BY <1>0, <1>2 DEF PaidFrom, Paid
    <2>10. Promise!Raise(i, s)
      BY <1>0, <2>6, <2>7, <2>8, <2>9 DEF Promise!Raise, OnSale, PaidFrom
    <2> QED BY <1>2, <2>10 DEF AsPromised, Promise!Next
  <1> QED BY <1>3, <1>5, <1>6

LEMMA PayAsPromised ==
    ASSUME UNCHANGED <<vars, done, owner, mails>>, OrdersInv, NEW s \in Sessions, NEW st,
           pay' = [pay EXCEPT ![s] = st], ~Paid(s)
    PROVE  AsPromised
  <1>1. pay \in [Sessions -> PayStates]
    BY DEF OrdersInv, OrderTypes
  <1>2. OnSale' = OnSale
    BY DEF OnSale, Live, vars
  <1>3. \A t \in Sessions : t # s => (Paid(t)' <=> Paid(t))
    BY <1>1 DEF Paid
  <1>4. CASE ~Paid(s)'
    <2>1. PaidFrom' = PaidFrom
      BY <1>3, <1>4 DEF PaidFrom
    <2> QED BY <1>2, <2>1 DEF AsPromised
  <1>5. CASE Paid(s)'
    <2>1. s \notin PaidFrom /\ PaidFrom' = PaidFrom \cup {s}
      BY <1>3, <1>5 DEF PaidFrom
    <2>2. Promise!Pay(s)
      BY <1>2, <2>1 DEF Promise!Pay, OnSale, PaidFrom
    <2> QED BY <2>2 DEF AsPromised, Promise!Next
  <1> QED BY <1>4, <1>5

(* A site an order is about was sold by the order's session.               *)
LEMMA Sells ==
    ASSUME OrdersInv, NEW s \in Sessions, Paid(s), NEW i \in Ids, SiteFor(s, i)
    PROVE  Promise!SoldBy(i, s)
  <1>1. s \in PaidFrom
    BY DEF PaidFrom
  <1>2. OnSale[i].state # "free" /\ OnSale[i].domain = DomainOf[s]
    BY DEF OnSale, SiteFor
  <1> QED BY <1>1, <1>2 DEF Promise!SoldBy, PaidFrom, OnSale

LEMMA MarkAsPromised ==
    ASSUME OrdersInv, NEW p \in Procs, Mark(p)
    PROVE  AsPromised
  <1>1. ord[p].pc = "mark" /\ UNCHANGED <<vars, pay, owner, mails>>
    BY DEF Mark, At
  <1>2. PICK s, i : s = ord[p].session /\ i = ord[p].id
    OBVIOUS
  <1>3. s \in Sessions /\ Paid(s) /\ SiteFor(s, i) /\ i \in Ids
    BY <1>1, <1>2, InOrder DEF OrderOK, SiteFor
  <1>4. CASE done' = done
    BY <1>1, <1>4, SameSitesPromised DEF vars
  <1>5. CASE done' = [done EXCEPT ![s] = i]
    <2>1. OnSale' = OnSale /\ PaidFrom' = PaidFrom
      BY <1>1 DEF OnSale, Live, vars, PaidFrom, Paid
    <2>2. Promise!Enter(s, i)
      BY <1>1, <1>3, <1>5, <2>1, Sells DEF Promise!Enter, OnSale, PaidFrom
    <2> QED BY <1>3, <2>2 DEF AsPromised, Promise!Next
  <1> QED BY <1>2, <1>4, <1>5 DEF Mark

LEMMA MailAsPromised ==
    ASSUME OrdersInv, NEW p \in Procs, SendWelcome(p)
    PROVE  AsPromised
  <1>1. ord[p].pc = "mail" /\ UNCHANGED <<vars, pay, done, owner>>
    BY DEF SendWelcome, At
  <1>2. PICK s, i, b : s = ord[p].session /\ i = ord[p].id /\ b = ord[p].pass
    OBVIOUS
  <1>3. /\ s \in Sessions /\ Paid(s) /\ SiteFor(s, i) /\ i \in Ids /\ b \in BOOLEAN
        /\ ~ord[p].found
    BY <1>1, <1>2, InOrder DEF OrderOK, SiteFor, Order
  <1>4. owner[i] = EmailOf[s] /\ \A m \in mails : m.id # i
    <2>1. Built(p, i)
      BY <1>1, <1>2, <1>3 DEF Built
    <2> QED BY <1>2, <1>3, <2>1 DEF OrdersInv, BuiltOK, Email
  <1>5. CASE mails' = mails
    BY <1>1, <1>5, SameSitesPromised DEF vars
  <1>6. CASE mails' = mails \cup {[session |-> s, id |-> i, pass |-> b]}
    <2>1. OnSale' = OnSale /\ PaidFrom' = PaidFrom /\ OnSale[i].owner = EmailOf[s]
      BY <1>1, <1>3, <1>4 DEF OnSale, Live, vars, PaidFrom, Paid
    <2>2. Promise!Tell(s, i)
      BY <1>1, <1>3, <1>4, <1>6, <2>1, Sells DEF Promise!Tell, OnSale, PaidFrom
    <2> QED BY <1>3, <2>2 DEF AsPromised, Promise!Next
  <1> QED BY <1>2, <1>5, <1>6 DEF SendWelcome

LEMMA PanelAsPromised ==
    ASSUME OrdersAssumptions, OrdersInv, StepTyped, NEW p \in Procs, Panel(p)
    PROVE  AsPromised
  <1>1. ord[p].pc = "idle" /\ UNCHANGED <<pay, done, owner, mails>>
    BY DEF Panel, At, orderVars
  <1>2. CASE Serve(p)
    <2>1. FreeKept(p) /\ req[p].pc # "insert"
      BY <1>1, <1>2, ServeFree DEF OrdersInv, OrderOK, FromPanel, OrdersAssumptions
    <2> QED BY <1>1, <1>2, <2>1, ServedAsPromised DEF FreeKept
  <1>3. CASE \E i \in Ids, k \in Kinds : ReadSite(p, i, k)
    BY <1>1, <1>3, SameSitesPromised DEF ReadSite
  <1> QED BY <1>2, <1>3 DEF Panel

LEMMA PromiseStep ==
    ASSUME OrdersAssumptions, OrdersInv, [OrdersNext]_allVars
    PROVE  AsPromised
  <1>0. StepTyped
    BY OrdersStepTyped
  <1>1. ASSUME NEW s \in Sessions, Checkout(s) \/ Settle(s) \/ \E paid \in BOOLEAN : Complete(s, paid)
        PROVE  AsPromised
    <2>1. ~Paid(s) /\ UNCHANGED <<vars, done, owner, mails>>
      BY <1>1 DEF Checkout, Settle, Complete, Paid
    <2>2. \E st : pay' = [pay EXCEPT ![s] = st]
      BY <1>1 DEF Checkout, Settle, Complete
    <2> QED BY <2>1, <2>2, PayAsPromised
  <1>2. ASSUME NEW p \in Procs, FindUser(p) \/ CreateUser(p) \/ Reload(p) \/ Answer(p)
        PROVE  AsPromised
    BY <1>2, SameSitesPromised DEF FindUser, CreateUser, Reload, Answer, vars
  <1>3. ASSUME NEW p \in Procs, Provision(p)
        PROVE  AsPromised
    BY <1>3, SameSitesPromised DEF Provision, Lookup, vars
  <1>4. ASSUME NEW p \in Procs, (\E e \in events : Webhook(p, e)) \/ (\E s \in Sessions : Poll(p, s))
        PROVE  AsPromised
    BY <1>4, SameSitesPromised DEF Webhook, Poll, vars
  <1>5. CASE CrashOrders
    BY <1>5, SameSitesPromised DEF CrashOrders, Crash
  <1>6. CASE UNCHANGED allVars
    BY <1>6, SameSitesPromised DEF allVars, vars, orderVars
  <1> QED BY <1>0, <1>1, <1>2, <1>3, <1>4, <1>5, <1>6, BuildAsPromised, MarkAsPromised,
             MailAsPromised, PanelAsPromised DEF OrdersNext, Fulfil

(* Whatever orders, polls, repeats of events, panel requests and crashes   *)
(* do together, a client sees what PaidSites promises: sites raised for    *)
(* paid sessions only, for good their buyer's, their passwords mailed once *)
(* (fulfillStripeOrder).                                                   *)
THEOREM ImplementsPaidSites == OrdersAssumptions => (OrdersSpec => PromiseSpec)
  <1> SUFFICES ASSUME OrdersAssumptions PROVE OrdersSpec => PromiseSpec
    OBVIOUS
  <1>1. OrdersInit => OrdersInv /\ Promise!Init
    <2> SUFFICES ASSUME OrdersInit PROVE OrdersInv /\ Promise!Init
      OBVIOUS
    <2>1. PaidFrom = {}
      BY DEF OrdersInit, PaidFrom, Paid
    <2>2. OnSale = [i \in Ids |-> [state |-> "free", domain |-> NoDomain, owner |-> NoEmail]]
      BY DEF OrdersInit, Init, NoRow, Draft, OnSale, Live, LiveStatus
    <2>3. Promise!Init
      BY <2>1, <2>2 DEF OrdersInit, Promise!Init, PaidFrom, OnSale
    <2> QED BY <2>3, OrdersInitInv
  <1>2. OrdersInv /\ [OrdersNext]_allVars => OrdersInv'
    BY OrdersNextInv
  <1>3. OrdersInv /\ [OrdersNext]_allVars => [Promise!Next]_(Promise!promise)
    BY PromiseStep DEF AsPromised, Promise!promise, PaidFrom, OnSale
  <1> QED BY <1>1, <1>2, <1>3, PTL DEF OrdersSpec, PromiseSpec, Promise!Spec

==============================================================================
