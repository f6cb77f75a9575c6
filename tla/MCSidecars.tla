------------------------------ MODULE MCSidecars ------------------------------
(* Instances of Sidecars.                                                    *)
EXTENDS Sidecars, TLC

CONSTANTS p1, p2, r1, r2, f1, f2, f3, t1, t2

Symmetry ==
    UNION {Permutations(S) : S \in {{p1, p2}, {r1, r2}, {f1, f2, f3}, {t1, t2}}}
==============================================================================
