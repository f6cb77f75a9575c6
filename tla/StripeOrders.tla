----------------------------- MODULE StripeOrders -----------------------------
(***************************************************************************)
(* Orders paid with Stripe (stripe.go, stripe_checkout.go) on top of       *)
(* Provisioning.  Two ways lead to the site: Stripe's webhook, sent again  *)
(* until it is answered 2xx, and the status page, which the client's       *)
(* browser polls and which asks Stripe itself when the site is not up.     *)
(* Both run fulfillStripeOrder, possibly at once, for one payment or for   *)
(* several payments on one domain.                                         *)
(*                                                                         *)
(* A request occupies the slot p of Provisioning: ord[p] is what the       *)
(* order's code remembers, req[p] what provisionSite, called by it, does.  *)
(* Slots without an order serve the panel.  Signatures, the rescue table   *)
(* stripe_pending (the metadata it backs up is always there for sessions   *)
(* of this API) and the keyless demo mode are left out.                    *)
(***************************************************************************)
EXTENDS Provisioning

CONSTANTS
    Sessions,       \* Stripe Checkout sessions
    NoSession,
    Emails, NoEmail,
    Staff,          \* e-mails with an account that is not a client's
    DomainOf, EmailOf, AppOf,   \* what each session's metadata order, and for whom
    LostAnswers     \* TRUE: Stripe may miss an answer and send its event again

ASSUME OrdersAssumption ==
    /\ NoSession \notin Sessions
    /\ NoEmail \notin Emails
    /\ Staff \subseteq Emails
    /\ DomainOf \in [Sessions -> Domains]
    /\ EmailOf \in [Sessions -> Emails]
    /\ AppOf \in [Sessions -> Apps]
    /\ LostAnswers \in BOOLEAN

VARIABLES
    pay,        \* Stripe's view of each session
    events,     \* checkout.session.completed events not known to be answered
    done,       \* table stripe_sessions: the site of a processed session
    users,      \* table users: e-mails with a client account
    owner,      \* column owner_id of the rows, as the owner's e-mail
    mails,      \* welcome mails sent
    ord         \* the order each slot is serving

orderVars == <<pay, events, done, users, owner, mails, ord>>
allVars == <<vars, orderVars>>

(* "paid" at checkout, or only "settled" by a slow means of payment after  *)
(* the session was completed.                                              *)
PayStates == {"new", "open", "unpaid", "paid", "settled"}
Paid(s) == pay[s] \in {"paid", "settled"}

Event == [session : Sessions, paid : BOOLEAN]
Mail == [session : Sessions, id : Ids, pass : BOOLEAN]

Order == [pc      : {"idle", "find_user", "create_user", "provision", "build", "reload",
                     "mark", "mail", "answer"},
          via     : {"none", "webhook", "poll"},
          session : Sessions \cup {NoSession},
          id      : Ids \cup {NoId},    \* the site found or built
          found   : BOOLEAN,            \* AlreadyExists
          pass    : BOOLEAN]            \* a password for the panel was just made

NoOrder == [pc |-> "idle", via |-> "none", session |-> NoSession, id |-> NoId,
            found |-> FALSE, pass |-> FALSE]

NewOrder(s, via) == [NoOrder EXCEPT !.pc = "find_user", !.via = via, !.session = s]

Free(p) == req[p].pc = "idle" /\ ord[p].pc = "idle"
At(p, pc) == ord[p].pc = pc
Email(p) == EmailOf[ord[p].session]

(* The slot's order goes on as o; fulfillStripeOrder drops the store's and *)
(* the mailer's errors, so most steps have no other way out.               *)
Goto(p, o) == ord' = [ord EXCEPT ![p] = o]

------------------------------------------------------------------------------
(* Stripe and the client.                                                  *)

(* handleStripeCheckout.                                                   *)
Checkout(s) ==
    /\ pay[s] = "new"
    /\ pay' = [pay EXCEPT ![s] = "open"]
    /\ UNCHANGED <<vars, events, done, users, owner, mails, ord>>

Complete(s, paid) ==
    /\ pay[s] = "open"
    /\ pay' = [pay EXCEPT ![s] = IF paid THEN "paid" ELSE "unpaid"]
    /\ events' = events \cup {[session |-> s, paid |-> paid]}
    /\ UNCHANGED <<vars, done, users, owner, mails, ord>>

(* The event of a late payment has a type the webhook ignores.             *)
Settle(s) ==
    /\ pay[s] = "unpaid"
    /\ pay' = [pay EXCEPT ![s] = "settled"]
    /\ UNCHANGED <<vars, events, done, users, owner, mails, ord>>

(* An answer of class 2xx reaches Stripe, or gets lost.                    *)
Answered(e) ==
    \/ events' = events \ {e}
    \/ LostAnswers /\ UNCHANGED events

------------------------------------------------------------------------------
(* Requests.                                                               *)

(* Mutant: whatever was completed counts as paid.                          *)
WebhookUnpaid(p, e) ==
    /\ Free(p)
    /\ e \in events
    /\ \/ done[e.session] # NoId /\ Answered(e) /\ UNCHANGED ord
       \/ done[e.session] = NoId /\ Goto(p, NewOrder(e.session, "webhook")) /\ UNCHANGED events
    /\ UNCHANGED <<vars, pay, done, users, owner, mails>>

(* handleStripeWebhook: a session already processed or completed unpaid is *)
(* answered with 200 at once.                                              *)
Webhook(p, e) ==
    /\ Free(p)
    /\ e \in events
    /\ \/ /\ done[e.session] # NoId \/ ~e.paid
          /\ Answered(e)
          /\ UNCHANGED ord
       \/ /\ done[e.session] = NoId /\ e.paid
          /\ Goto(p, NewOrder(e.session, "webhook"))
          /\ UNCHANGED events
    /\ UNCHANGED <<vars, pay, done, users, owner, mails>>

(* handleStripeStatus and syncCheckoutSession: the order is run again      *)
(* unless its site is there and active.  Polls that find no reason to, or  *)
(* no payment, change nothing.                                             *)
Poll(p, s) ==
    /\ Free(p)
    /\ done[s] # NoId => sites[done[s]].status # "active"
    /\ Paid(s)
    /\ Goto(p, NewOrder(s, "poll"))
    /\ UNCHANGED <<vars, pay, events, done, users, owner, mails>>

(* fulfillStripeOrder reads its package and ensureClientUser looks the     *)
(* client up: an e-mail of the staff is refused for good, a package that   *)
(* is missing and a SELECT that fails end the order the same way (500) ... *)
FindUser(p) ==
    /\ At(p, "find_user")
    /\ \/ /\ Email(p) \notin Staff
          /\ Goto(p, [ord[p] EXCEPT !.pc = IF Email(p) \in users THEN "provision"
                                           ELSE "create_user"])
       \/ /\ Email(p) \in Staff \/ {"get_package", "get_user"} \cap FailingOps # {}
          /\ Goto(p, NoOrder)
    /\ UNCHANGED <<vars, pay, events, done, users, owner, mails>>

(* ... and creates the account, which fails when another request just did. *)
CreateUser(p) ==
    /\ At(p, "create_user")
    /\ users' = users \cup {Email(p)}
    /\ Goto(p, IF Email(p) \in users THEN NoOrder
               ELSE [ord[p] EXCEPT !.pc = "provision", !.pass = TRUE])
    /\ UNCHANGED <<vars, pay, events, done, owner, mails>>

(* Mutant: the site found on the domain passes to whoever pays for it.     *)
ProvisionTakesOver(p) ==
    /\ At(p, "provision")
    /\ LET d == DomainOf[ord[p].session]
       IN  \/ \E i \in Ids :
                 /\ sites[i].domain = d
                 /\ sites[i].status \in {"active", "provisioning"}
                 /\ Goto(p, [ord[p] EXCEPT !.pc = "mark", !.id = i, !.found = TRUE])
                 /\ owner' = [owner EXCEPT ![i] = Email(p)]
                 /\ UNCHANGED vars
           \/ /\ Lookup(p, d, AppOf[ord[p].session])
              /\ Goto(p, [ord[p] EXCEPT !.pc = "build"])
              /\ UNCHANGED owner
    /\ UNCHANGED <<pay, events, done, users, mails>>

(* provisionSite begins: a site active or being built is taken as it is.   *)
Provision(p) ==
    /\ At(p, "provision")
    /\ LET d == DomainOf[ord[p].session]
       IN  \/ \E i \in Ids :
                 /\ sites[i].domain = d
                 /\ sites[i].status \in {"active", "provisioning"}
                 /\ Goto(p, [ord[p] EXCEPT !.pc = "mark", !.id = i, !.found = TRUE])
                 /\ UNCHANGED vars
           \/ /\ Lookup(p, d, AppOf[ord[p].session])
              /\ Goto(p, [ord[p] EXCEPT !.pc = "build"])
    /\ UNCHANGED <<pay, events, done, users, owner, mails>>

(* Mutant: an order that failed is answered 200.                           *)
BuildAnswered(p) ==
    /\ At(p, "build")
    /\ Serve(p)
    /\ Goto(p, IF req'[p].pc # "idle" THEN ord[p]
               ELSE IF req[p].pc = "activate"
                    THEN [ord[p] EXCEPT !.pc = "reload", !.id = req[p].id]
                    ELSE [ord[p] EXCEPT !.pc = "answer"])
    /\ UNCHANGED <<pay, events, done, users, owner, mails>>

(* ... and goes on; when it ends without having activated the site, the    *)
(* request is answered with an error (500).                                *)
Build(p) ==
    /\ At(p, "build")
    /\ Serve(p)
    /\ LET ends == req'[p].pc = "idle"
       IN  /\ owner' = IF req[p].pc = "insert" /\ ~ends
                       THEN [owner EXCEPT ![req[p].id] = Email(p)] ELSE owner
           /\ Goto(p, CASE ~ends -> ord[p]
                        [] ends /\ req[p].pc = "activate" ->
                             [ord[p] EXCEPT !.pc = "reload", !.id = req[p].id]
                        [] OTHER -> NoOrder)
    /\ UNCHANGED <<pay, events, done, users, mails>>

(* GetSite: if the site was deleted meanwhile, the nil pointer ends the    *)
(* request in a panic.                                                     *)
Reload(p) ==
    /\ At(p, "reload")
    /\ Goto(p, IF Live(ord[p].id) THEN [ord[p] EXCEPT !.pc = "mark"] ELSE NoOrder)
    /\ UNCHANGED <<vars, pay, events, done, users, owner, mails>>

(* Mutants: two of the four strings swapped; only new sites recorded; a    *)
(* mail for every processed session; none for one on record already.       *)
MarkSwapped(p) ==
    /\ At(p, "mark")
    /\ done' = [done EXCEPT ![ord[p].session] = Email(p)]
    /\ Goto(p, [ord[p] EXCEPT !.pc = IF ord[p].found THEN "answer" ELSE "mail"])
    /\ UNCHANGED <<vars, pay, events, users, owner, mails>>

MarkNewOnly(p) ==
    /\ At(p, "mark")
    /\ done' = IF ord[p].found THEN done ELSE [done EXCEPT ![ord[p].session] = ord[p].id]
    /\ Goto(p, [ord[p] EXCEPT !.pc = IF ord[p].found THEN "answer" ELSE "mail"])
    /\ UNCHANGED <<vars, pay, events, users, owner, mails>>

MarkMailsAll(p) ==
    /\ At(p, "mark")
    /\ done' = [done EXCEPT ![ord[p].session] = ord[p].id]
    /\ Goto(p, [ord[p] EXCEPT !.pc = "mail"])
    /\ UNCHANGED <<vars, pay, events, users, owner, mails>>

MarkMailsOnce(p) ==
    /\ At(p, "mark")
    /\ done' = [done EXCEPT ![ord[p].session] = ord[p].id]
    /\ Goto(p, [ord[p] EXCEPT !.pc = IF ord[p].found \/ done[ord[p].session] # NoId
                                     THEN "answer" ELSE "mail"])
    /\ UNCHANGED <<vars, pay, events, users, owner, mails>>

(* MarkStripeSession: INSERT or, for a session processed before, UPDATE.   *)
Mark(p) ==
    /\ At(p, "mark")
    /\ \/ done' = [done EXCEPT ![ord[p].session] = ord[p].id]
       \/ "mark_session" \in FailingOps /\ UNCHANGED done
    /\ Goto(p, [ord[p] EXCEPT !.pc = IF ord[p].found THEN "answer" ELSE "mail"])
    /\ UNCHANGED <<vars, pay, events, users, owner, mails>>

(* SendWelcome, with the site's passwords, and the panel's if it was made  *)
(* by this request; otherwise the mail says it is unchanged.               *)
SendWelcome(p) ==
    /\ At(p, "mail")
    /\ \/ mails' = mails \cup {[session |-> ord[p].session, id |-> ord[p].id,
                                pass |-> ord[p].pass]}
       \/ "mail" \in FailingOps /\ UNCHANGED mails
    /\ Goto(p, [ord[p] EXCEPT !.pc = "answer"])
    /\ UNCHANGED <<vars, pay, events, done, users, owner>>

Answer(p) ==
    /\ At(p, "answer")
    /\ IF ord[p].via = "webhook" THEN Answered([session |-> ord[p].session, paid |-> TRUE])
       ELSE UNCHANGED events
    /\ Goto(p, NoOrder)
    /\ UNCHANGED <<vars, pay, done, users, owner, mails>>

------------------------------------------------------------------------------

OrdersInit ==
    /\ Init
    /\ pay = [s \in Sessions |-> "new"]
    /\ events = {} /\ users = {} /\ mails = {}
    /\ done = [s \in Sessions |-> NoId]
    /\ owner = [i \in Ids |-> NoEmail]
    /\ ord = [p \in Procs |-> NoOrder]

(* A request of the panel.                                                 *)
Panel(p) ==
    /\ At(p, "idle")
    /\ Serve(p) \/ \E i \in Ids, k \in Kinds : ReadSite(p, i, k)
    /\ UNCHANGED orderVars

Fulfil(p) ==
    \/ FindUser(p) \/ CreateUser(p) \/ Provision(p) \/ Build(p) \/ Reload(p)
    \/ Mark(p) \/ SendWelcome(p) \/ Answer(p)

(* A crash forgets the orders in memory with the requests.                 *)
CrashOrders ==
    /\ Crash
    /\ ord' = [p \in Procs |-> NoOrder]
    /\ UNCHANGED <<pay, events, done, users, owner, mails>>

OrdersNext ==
    \/ \E s \in Sessions :
          \/ Checkout(s)
          \/ \E paid \in BOOLEAN : Complete(s, paid)
          \/ Settle(s)
    \/ \E p \in Procs :
          \/ \E e \in events : Webhook(p, e)
          \/ \E s \in Sessions : Poll(p, s)
          \/ Fulfil(p)
          \/ Panel(p)
    \/ CrashOrders

OrdersSpec == OrdersInit /\ [][OrdersNext]_allVars

(* Requests in progress go on, and Stripe sends an event until it is       *)
(* answered; nobody has to poll.                                           *)
FairOrders ==
    /\ OrdersSpec
    /\ \A p \in Procs : WF_allVars(Fulfil(p)) /\ WF_allVars(At(p, "idle") /\ Serve(p)
                                                           /\ UNCHANGED orderVars)
    /\ \A e \in Event : SF_allVars(\E p \in Procs : e \in events /\ Webhook(p, e))

------------------------------------------------------------------------------
(* Properties.                                                             *)

OrdersTypeOK ==
    /\ TypeOK
    /\ pay \in [Sessions -> PayStates]
    /\ events \subseteq Event
    /\ done \in [Sessions -> Ids \cup {NoId}]
    /\ users \subseteq Emails
    /\ owner \in [Ids -> Emails \cup {NoEmail}]
    /\ mails \subseteq Mail
    /\ ord \in [Procs -> Order]

(* Stripe stops sending the event of a paid session only when the session  *)
(* is on record as processed: whatever fails, crashes or races inside      *)
(* fulfillStripeOrder, the webhook answers an error and is sent again.     *)
AnsweredIsProcessed ==
    \A s \in Sessions :
        pay[s] = "paid" /\ [session |-> s, paid |-> TRUE] \notin events => done[s] # NoId

(* Nothing is built, or recorded as processed, that was not paid: a row    *)
(* belongs to somebody who paid for its domain, and the site a session is  *)
(* recorded with is one for its domain.                                    *)
OnlyPaid ==
    /\ \A i \in Ids : sites[i].status # "free" =>
          \E s \in Sessions : Paid(s) /\ EmailOf[s] = owner[i] /\ DomainOf[s] = sites[i].domain
    /\ \A s \in Sessions : done[s] # NoId =>
          Paid(s) /\ sites[done[s]].domain = DomainOf[s]

(* The passwords of a site are mailed once, and to its owner, even if      *)
(* somebody else pays for the same domain at the same time.                *)
CredentialsToOwner ==
    \A m, n \in mails : m.id = n.id => m = n /\ EmailOf[m.session] = owner[m.id]

(* An order of slot p is on its way to mail the passwords of site i.       *)
Telling(p, i) ==
    ord[p].pc \in {"reload", "mark", "mail"} /\ ~ord[p].found /\ ord[p].id = i

(* No site comes up without its passwords being mailed, or about to be,    *)
(* although the order that finds it and the one that builds it may be for  *)
(* the same session: they are in memory only, and a later order for the    *)
(* domain answers that the site exists.  Code: fulfillStripeOrder, where   *)
(* MarkStripeSession comes before the mail; it takes an API that stays up  *)
(* and a mailer that works.                                                *)
PasswordsSent ==
    crashes = 0 /\ "mail" \notin FailingOps =>
        \A i \in Ids : sites[i].status \in {"active", "suspended"} =>
            (\E m \in mails : m.id = i) \/ (\E p \in Procs : Telling(p, i))

(* What the client is promised, as PaidSites states it.                    *)
Promise == INSTANCE PaidSites WITH
    paid <- {s \in Sessions : Paid(s)},
    site <- [i \in Ids |-> [state  |-> IF Live(i) THEN "live" ELSE sites[i].status,
                            domain |-> sites[i].domain,
                            owner  |-> owner[i]]],
    record <- done

(* Whatever webhooks, polls, retries, panel requests and crashes do        *)
(* together, the tables and the mails change as PaidSites says, one        *)
(* promise at a time.  Code: fulfillStripeOrder and provisionSite.         *)
PromiseSpec == Promise!Spec

(* A session paid at checkout ends up processed, with no client polling    *)
(* for it, however requests and one another's orders overlap and wherever  *)
(* the API crashes, unless it is for an e-mail of the staff; what fails    *)
(* for ever (the package, the agent, the table) is not waited for.  Code:  *)
(* handleStripeWebhook, which answers 200 once the session is on record.   *)
PaidProcessed ==
    FailingOps \subseteq {"mail"} =>
        \A s \in Sessions :
            EmailOf[s] \notin Staff => (pay[s] = "paid" ~> done[s] # NoId)

(* "Si le webhook n'a pas encore tourné, ou site en erreur : sync / retry  *)
(* via Stripe." (stripe_checkout.go:146): the status page starts a site    *)
(* over only when it is in error.                                          *)
PollRetriesErrors ==
    [][\A p \in Procs :
          ord[p].via = "poll" /\ req[p].pc = "redestroy" /\ req'[p].pc = "drop"
              => req[p].row.status = "error"]_allVars

(* "(mot de passe inchangé — utilisez « mot de passe oublié » ou contactez *)
(* le support)" (stripe.go:150): a mail says so only to a client who was   *)
(* given a password once.                                                  *)
UnchangedIsTrue ==
    \A m \in mails : ~m.pass =>
        \E n \in mails : n.pass /\ EmailOf[n.session] = EmailOf[m.session]
==============================================================================
