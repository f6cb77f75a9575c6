---------------------------- MODULE SiteLifecycle ----------------------------
(***************************************************************************)
(* What the panel promises about sites, with no request, no agent and no   *)
(* crash in sight: a site is claimed for a domain nobody else holds, is    *)
(* built or fails, is suspended and resumed, and once deleted is gone.     *)
(* Provisioning implements this (Provisioning!LifecycleSpec).              *)
(***************************************************************************)
CONSTANTS Ids, Domains, NoDomain

VARIABLE site   \* [Ids -> [status, domain]]

Held(d) == \E i \in Ids : site[i].domain = d /\ site[i].status \notin {"free", "deleted"}

Turn(i, from, to) ==
    /\ site[i].status \in from
    /\ site' = [site EXCEPT ![i].status = to]

Claim(i, d) ==
    /\ site[i].status = "free"
    /\ ~Held(d)
    /\ site' = [site EXCEPT ![i] = [status |-> "provisioning", domain |-> d]]

Build(i)   == Turn(i, {"provisioning"}, "active")
Fail(i)    == Turn(i, {"provisioning"}, "error")
Suspend(i) == Turn(i, {"active"}, "suspended")
Resume(i)  == Turn(i, {"suspended"}, "active")
Delete(i)  == Turn(i, {"provisioning", "active", "error", "suspended"}, "deleted")

Init == site = [i \in Ids |-> [status |-> "free", domain |-> NoDomain]]

Next == \E i \in Ids :
    \/ \E d \in Domains : Claim(i, d)
    \/ Build(i) \/ Fail(i) \/ Suspend(i) \/ Resume(i) \/ Delete(i)

Spec == Init /\ [][Next]_site
==============================================================================
