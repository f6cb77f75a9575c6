------------------------------ MODULE MCStartup ------------------------------
(* Instances of Startup: two sites with the account name u1, one after the   *)
(* other, and one of another account.                                        *)
EXTENDS Startup, TLC

CONSTANTS p1, p2, s1, s2, s3, u1, u2, j1, j2

MCUserOf == [s \in Sites |-> IF s = s3 THEN u2 ELSE u1]

(* The first job is enabled and the second is not.                           *)
MCEntered == [j \in Jobs |-> IF j = j1 THEN {"line"} ELSE {"disabled"}]
AnyKind == [j \in Jobs |-> JobKinds]

Symmetry == Permutations({p1, p2})

(* Bound: runs go no further once two sites, or two jobs, are gone.          *)
Bounded ==
    /\ Cardinality({s \in Sites : sites[s] = "deleted"}) <= 1
    /\ Cardinality({j \in Jobs : jobs[j].state = "gone"}) <= 1
==============================================================================
