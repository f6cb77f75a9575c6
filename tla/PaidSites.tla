------------------------------ MODULE PaidSites ------------------------------
(***************************************************************************)
(* What a client who pays with Stripe is promised, with no request, no     *)
(* webhook, no page and no retry in sight: a site is only ever raised for  *)
(* a paid session, on a domain where none is up, belongs to that session's *)
(* client for good, and its passwords are mailed once, to nobody else; the *)
(* record of a session may move on to another site of its domain but is    *)
(* never lost.  Sites the administrator creates by hand are not part of    *)
(* it.  StripeOrders implements this (StripeOrders!PromiseSpec).           *)
(***************************************************************************)
CONSTANTS Ids, NoId, Sessions, Emails, NoEmail, NoDomain, DomainOf, EmailOf

VARIABLES
    paid,   \* sessions Stripe has the money for
    site,   \* [Ids -> [state, domain, owner]]: "free", "live" or "deleted"
    record, \* [Sessions -> Ids \cup {NoId}]: the site a session was fulfilled with
    mails   \* welcome mails: session, site, with or without the panel's password

promise == <<paid, site, record, mails>>

SoldBy(i, s) == s \in paid /\ site[i].state # "free" /\ site[i].domain = DomainOf[s]

Pay(s) ==
    /\ s \notin paid
    /\ paid' = paid \cup {s}
    /\ UNCHANGED <<site, record, mails>>

Raise(i, s) ==
    /\ s \in paid
    /\ site[i].state = "free"
    /\ \A j \in Ids : ~(site[j].state = "live" /\ site[j].domain = DomainOf[s])
    /\ site' = [site EXCEPT ![i] = [state |-> "live", domain |-> DomainOf[s],
                                    owner |-> EmailOf[s]]]
    /\ UNCHANGED <<paid, record, mails>>

(* By the panel, or to raise another one on the domain.                    *)
Remove(i) ==
    /\ site[i].state = "live"
    /\ site' = [site EXCEPT ![i].state = "deleted"]
    /\ UNCHANGED <<paid, record, mails>>

(* Whoever raised the site: an order that finds one up takes it as its own *)
(* fulfilment, and its client does not get the site.                       *)
Enter(s, i) ==
    /\ SoldBy(i, s)
    /\ record' = [record EXCEPT ![s] = i]
    /\ UNCHANGED <<paid, site, mails>>

Tell(s, i) ==
    /\ SoldBy(i, s)
    /\ EmailOf[s] = site[i].owner
    /\ \A m \in mails : m.id # i
    /\ \E pass \in BOOLEAN :
          mails' = mails \cup {[session |-> s, id |-> i, pass |-> pass]}
    /\ UNCHANGED <<paid, site, record>>

Init ==
    /\ paid = {} /\ mails = {}
    /\ site = [i \in Ids |-> [state |-> "free", domain |-> NoDomain, owner |-> NoEmail]]
    /\ record = [s \in Sessions |-> NoId]

Next ==
    \/ \E s \in Sessions : Pay(s)
    \/ \E i \in Ids : Remove(i)
    \/ \E s \in Sessions, i \in Ids : Raise(i, s) \/ Enter(s, i) \/ Tell(s, i)

Spec == Init /\ [][Next]_promise
==============================================================================
