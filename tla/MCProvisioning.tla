---------------------------- MODULE MCProvisioning ----------------------------
(* Instances of Provisioning for TLC.                                      *)
EXTENDS Provisioning, TLC

CONSTANTS d1, d2, u1, u2, p1, p2, s1, s2, s3

MCProcs == {p1, p2}
OneProc == {p1}
MCIds == {s1, s2, s3}
TwoIds == {s1, s2}
MCDomains == {d1, d2}
OneDomain == {d1}
TwoUsers == {u1, u2}

(* Domains whose first labels differ (a.fr, b.fr): the account names are   *)
(* apart.                                                                  *)
OwnNames == d1 :> {u1} @@ d2 :> {u2}
OwnBase  == d1 :> u1 @@ d2 :> u2

(* Domains with one first label (a.fr, a.com): both try u1 first, and u2   *)
(* stands for the suffixed name.                                           *)
SharedNames == d1 :> TwoUsers @@ d2 :> TwoUsers
SharedBase  == d1 :> u1 @@ d2 :> u1

OneNames == d1 :> TwoUsers
OneBase  == d1 :> u1

(* Every account has a database name of its own. *)
MCDBNameOf == [u \in Users |-> u]

(* Slots and ids are interchangeable: no definition orders or names them.  *)
Symmetry == Permutations(Procs) \cup Permutations(Ids)
===============================================================================
