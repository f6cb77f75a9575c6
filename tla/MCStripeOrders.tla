---------------------------- MODULE MCStripeOrders ----------------------------
(* StripeOrders for TLC: one domain, which one or two clients pay for.     *)
EXTENDS StripeOrders, TLC

CONSTANTS d1, u1, p1, p2, s1, s2, c1, c2, e1, e2

MCProcs == {p1, p2}
MCIds == {s1, s2}
MCDomains == {d1}
MCUsers == {u1}
OneSession == {c1}
TwoSessions == {c1, c2}
MCEmails == {e1, e2}

MCNames == d1 :> {u1}
MCBase == d1 :> u1
MCDBNameOf == u1 :> u1

MCDomainOf == [s \in Sessions |-> d1]
MCAppOf == [s \in Sessions |-> "static"]

(* Every session has a client of its own.                                  *)
MCEmailOf == [s \in Sessions |-> IF s = c1 THEN e1 ELSE e2]

(* Slots and ids are interchangeable, and so are the two sessions together *)
(* with their clients.                                                     *)
SwapClients == c1 :> c2 @@ c2 :> c1 @@ e1 :> e2 @@ e2 :> e1
Symmetry == Permutations(Procs) \cup Permutations(Ids) \cup {SwapClients}
===============================================================================
