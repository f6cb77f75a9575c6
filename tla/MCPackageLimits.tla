--------------------------- MODULE MCPackageLimits ---------------------------
(* PackageLimits for TLC: two requests at a time.                          *)
EXTENDS PackageLimits, TLC

CONSTANTS p1, p2, o1, k1, s1, s2, s3

MCProcs == {p1, p2}
MCOwners == {o1}
MCPkgs == {k1}
MCIds == {s1, s2, s3}

(* As typed: less than one becomes one site, and as many databases as      *)
(* sites on a new package but none on an edited one.                       *)
MCLimits == {-1, 1, 2}

(* Bound: one database at most where two sites are allowed, the case in    *)
(* which the two limits differ.                                            *)
FewDatabases == \A k \in Pkgs : packages[k].limits.dbs <= 1

Symmetry == Permutations(Procs) \cup Permutations(Ids)
==============================================================================
