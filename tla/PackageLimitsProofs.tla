------------------------- MODULE PackageLimitsProofs -------------------------
(***************************************************************************)
(* For any number of owners, packages, sites and concurrent requests: the  *)
(* bounds of PackageLimits on sites and databases, and PackageKept.        *)
(*                                                                         *)
(* A bound on the rows alone is not inductive, since a request past its    *)
(* check will add one.  What every step keeps is a bound on the rows plus  *)
(* those requests: passing the check adds a request when the rows are      *)
(* below the limit, and the insertion trades a request for a row.          *)
(***************************************************************************)
EXTENDS PackageLimits, FiniteSetTheorems, TLAPS

(* Requests that passed the check on sites (databases) and have not yet    *)
(* turned into a row that counts.                                          *)
SitesToCome(o, k) ==
    {p \in Procs : req[p].pc \in {"count_dbs", "insert"} /\ req[p].panel
                   /\ req[p].owner = o /\ req[p].pkg = k}
DatabasesToCome(o, k) ==
    {p \in Procs : req[p].pc \in {"insert", "build"} /\ req[p].panel /\ req[p].needsDB
                   /\ req[p].owner = o /\ req[p].pkg = k}

Ordering(p) == req[p].pc \in {"count_sites", "count_dbs", "insert", "build"}

(* What a request carries was read from a package, and what it builds is   *)
(* its own row.                                                            *)
PeakInv ==
    \A k \in Pkgs : /\ packages[k].limits.sites <= peak[k].sites
                    /\ packages[k].limits.dbs <= peak[k].dbs

OrderInv ==
    \A p \in Procs : Ordering(p) =>
        /\ req[p].owner \in Owners /\ req[p].pkg \in Pkgs
        /\ req[p].max.sites <= peak[req[p].pkg].sites
        /\ req[p].max.dbs <= peak[req[p].pkg].dbs

BuildInv ==
    \A p \in Procs : req[p].pc = "build" =>
        /\ req[p].id \in Ids
        /\ rows[req[p].id].state # "free"
        /\ rows[req[p].id].owner = req[p].owner
        /\ rows[req[p].id].pkg = req[p].pkg
        /\ rows[req[p].id].panel = req[p].panel

RowInv == \A i \in Ids : Live(i) => rows[i].pkg \in Pkgs

RequestInv == PeakInv /\ OrderInv /\ BuildInv /\ RowInv

SitesInv ==
    \A o \in Owners, k \in Pkgs :
        Cardinality(PanelSites(o, k)) + Cardinality(SitesToCome(o, k))
            < peak[k].sites + Cardinality(Procs)

DatabasesInv ==
    \A o \in Owners, k \in Pkgs :
        Cardinality(PanelDatabases(o, k)) + Cardinality(DatabasesToCome(o, k))
            < peak[k].dbs + Cardinality(Procs)

------------------------------------------------------------------------------
(* Counting.                                                               *)

(* A finite set and any part of it. *)
LEMMA CardPart ==
    ASSUME NEW S, NEW T, IsFiniteSet(T), S \subseteq T
    PROVE  /\ IsFiniteSet(S)
           /\ Cardinality(S) \in Nat /\ Cardinality(T) \in Nat
           /\ Cardinality(S) <= Cardinality(T)
  BY FS_Subset, FS_CardinalityType

(* One element more, one element less. *)
LEMMA CardTrade ==
    ASSUME NEW S1, NEW S2, NEW T1, NEW T2, NEW x, NEW y,
           IsFiniteSet(S1), IsFiniteSet(T1),
           S2 \subseteq S1 \cup {x}, T2 \subseteq T1 \ {y}, y \in T1
    PROVE  Cardinality(S2) + Cardinality(T2) <= Cardinality(S1) + Cardinality(T1)
  <1>0. Cardinality(S1) \in Nat /\ Cardinality(T1) \in Nat
    BY FS_CardinalityType
  <1>1. /\ IsFiniteSet(S1 \cup {x})
        /\ Cardinality(S1 \cup {x}) <= Cardinality(S1) + 1
    <2>1. /\ IsFiniteSet(S1 \cup {x})
          /\ Cardinality(S1 \cup {x}) =
               IF x \in S1 THEN Cardinality(S1) ELSE Cardinality(S1) + 1
      BY FS_AddElement, Zenon
    <2> QED BY <1>0, <2>1
  <1>2. /\ IsFiniteSet(T1 \ {y})
        /\ Cardinality(T1 \ {y}) = Cardinality(T1) - 1
    BY FS_RemoveElement
  <1>3. /\ Cardinality(S2) \in Nat /\ Cardinality(S2) <= Cardinality(S1 \cup {x})
        /\ Cardinality(S1 \cup {x}) \in Nat
    BY <1>1, CardPart
  <1>4. /\ Cardinality(T2) \in Nat /\ Cardinality(T2) <= Cardinality(T1 \ {y})
        /\ Cardinality(T1 \ {y}) \in Nat
    BY <1>2, CardPart
  <1> QED BY <1>0, <1>1, <1>2, <1>3, <1>4

------------------------------------------------------------------------------
(* Every value stays in its type: whatever limits are typed, the stored    *)
(* ones are natural numbers (handleCreatePackage, handleUpdatePackage).    *)
LEMMA LimitsTyped ==
    ASSUME NEW s \in Int, NEW d \in Int
    PROVE  OnCreate(s, d) \in LimitPair /\ OnUpdate(s, d) \in LimitPair
  BY DEF OnCreate, OnUpdate, Positive, Max2, LimitPair

LEMMA TypeStep ==
    ASSUME LimitsAssumption, TypeOK, [Next]_vars
    PROVE  TypeOK'
  <1> USE DEF TypeOK, Package, SiteRow, Request
  <1> NoRequest \in Request
    BY DEF NoRequest, NoLimit, LimitPair
  <1>1. ASSUME NEW k \in Pkgs, NEW s \in Limits, NEW d \in Limits,
               CreatePackage(k, s, d) \/ UpdatePackage(k, s, d)
        PROVE  TypeOK'
    <2>1. PICK l \in LimitPair : SetLimits(k, l)
      BY <1>1, LimitsTyped DEF CreatePackage, UpdatePackage, LimitsAssumption
    <2> QED BY <2>1 DEF SetLimits, Max2, LimitPair
  <1>2. ASSUME NEW p \in Procs, NEW k \in Pkgs, CountUses(p, k)
        PROVE  TypeOK'
    BY <1>2 DEF CountUses
  <1>3. ASSUME NEW p \in Procs, ErasePackage(p)
        PROVE  TypeOK'
    <2>1. req' \in [Procs -> Request] /\ UNCHANGED <<peak, rows>>
      BY <1>3 DEF ErasePackage, Goto
    <2>2. CASE packages' = packages
      BY <2>1, <2>2
    <2>3. CASE packages' = [packages EXCEPT ![req[p].pkg].state = "gone"]
      <3>1. ASSUME NEW k \in Pkgs
            PROVE  packages'[k] \in Package
        BY <2>3
      <3> QED BY <2>1, <2>3, <3>1
    <2> QED BY <1>3, <2>2, <2>3 DEF ErasePackage
  <1>4. ASSUME NEW p \in Procs, NEW o \in Owners, NEW k \in Pkgs,
               NEW needsDB \in BOOLEAN, NEW panel \in BOOLEAN,
               Order(p, o, k, needsDB, panel)
        PROVE  TypeOK'
    BY <1>4 DEF Order
  <1>5. ASSUME NEW p \in Procs, CountSites(p) \/ CountDatabases(p) \/ Abandon(p)
        PROVE  TypeOK'
    BY <1>5 DEF CountSites, CountDatabases, Abandon, Goto
  <1>6. ASSUME NEW p \in Procs, InsertSite(p)
        PROVE  TypeOK'
    <2>1. CASE packages[req[p].pkg].state = "live"
      <3>1. PICK i \in Ids :
              /\ rows' = [rows EXCEPT ![i] =
                            [state |-> "live", owner |-> req[p].owner, pkg |-> req[p].pkg,
                             db |-> FALSE, panel |-> req[p].panel]]
              /\ req' = [req EXCEPT ![p] = [@ EXCEPT !.pc = "build", !.id = i]]
        BY <1>6, <2>1 DEF InsertSite
      <3>2. rows' \in [Ids -> SiteRow]
        BY <3>1
      <3>3. req' \in [Procs -> Request]
        BY <3>1
      <3> QED BY <1>6, <3>2, <3>3 DEF InsertSite
    <2>2. CASE packages[req[p].pkg].state # "live"
      BY <1>6, <2>2 DEF InsertSite, Goto
    <2> QED BY <2>1, <2>2
  <1>7. ASSUME NEW p \in Procs, NEW made \in BOOLEAN, SaveSite(p, made)
        PROVE  TypeOK'
    <2>1. req' \in [Procs -> Request] /\ UNCHANGED <<packages, peak>>
      BY <1>7 DEF SaveSite, Goto
    <2>2. CASE rows' = rows
      BY <2>1, <2>2
    <2>3. CASE rows' = [rows EXCEPT ![req[p].id].db = req[p].needsDB /\ made]
      <3>1. (req[p].needsDB /\ made) \in BOOLEAN
        BY Zenon
      <3>2. PICK saved \in BOOLEAN : rows' = [rows EXCEPT ![req[p].id].db = saved]
        BY <2>3, <3>1, Zenon
      <3>3. \/ rows' = [rows EXCEPT ![req[p].id].db = TRUE]
            \/ rows' = [rows EXCEPT ![req[p].id].db = FALSE]
        BY <3>2, Zenon
      <3>4. ASSUME NEW i \in Ids
            PROVE  rows'[i] \in SiteRow
        <4>1. rows[i] \in SiteRow
          OBVIOUS
        <4>2. \/ rows'[i] = rows[i]
              \/ rows'[i] = [rows[i] EXCEPT !.db = TRUE]
              \/ rows'[i] = [rows[i] EXCEPT !.db = FALSE]
          BY <3>3
        <4> QED BY <4>1, <4>2
      <3> QED BY <2>1, <3>2, <3>4
    <2> QED BY <1>7, <2>2, <2>3 DEF SaveSite
  <1>8. ASSUME NEW i \in Ids, DeleteSite(i)
        PROVE  TypeOK'
    BY <1>8 DEF DeleteSite
  <1>9. CASE UNCHANGED vars
    BY <1>9 DEF vars
  <1> QED BY <1>1, <1>2, <1>3, <1>4, <1>5, <1>6, <1>7, <1>8, <1>9 DEF Next, Serve

------------------------------------------------------------------------------

LEMMA RequestStep ==
    ASSUME LimitsAssumption, TypeOK, TypeOK', RequestInv, [Next]_vars
    PROVE  RequestInv'
  <1> USE DEF TypeOK, Package, SiteRow, Request, LimitPair
  <1> USE DEF RequestInv, PeakInv, OrderInv, BuildInv, RowInv, Ordering, Live
  <1>1. ASSUME NEW k \in Pkgs, NEW s \in Limits, NEW d \in Limits,
               CreatePackage(k, s, d) \/ UpdatePackage(k, s, d)
        PROVE  RequestInv'
    <2>1. PICK l \in LimitPair : SetLimits(k, l)
      BY <1>1, LimitsTyped DEF CreatePackage, UpdatePackage, LimitsAssumption
    <2>2. \A j \in Pkgs : peak[j].sites <= peak'[j].sites /\ peak[j].dbs <= peak'[j].dbs
      BY <2>1 DEF SetLimits, Max2
    <2>3. PeakInv'
      BY <2>1 DEF SetLimits, Max2
    <2>4. UNCHANGED <<rows, req>>
      BY <2>1 DEF SetLimits
    <2>5. OrderInv'
      <3> SUFFICES ASSUME NEW p \in Procs, Ordering(p)
                   PROVE  /\ req[p].owner \in Owners /\ req[p].pkg \in Pkgs
                          /\ req[p].max.sites <= peak'[req[p].pkg].sites
                          /\ req[p].max.dbs <= peak'[req[p].pkg].dbs
        BY <2>4
      <3>1. /\ req[p].owner \in Owners /\ req[p].pkg \in Pkgs
            /\ req[p].max.sites <= peak[req[p].pkg].sites
            /\ req[p].max.dbs <= peak[req[p].pkg].dbs
        OBVIOUS
      <3> QED BY <2>2, <3>1
    <2> QED BY <2>3, <2>4, <2>5
  <1>2. ASSUME NEW p \in Procs, NEW k \in Pkgs, CountUses(p, k)
        PROVE  RequestInv'
    BY <1>2 DEF CountUses
  <1>3. ASSUME NEW p \in Procs, ErasePackage(p)
        PROVE  RequestInv'
    <2>1. PeakInv'
      <3>1. \A k \in Pkgs : packages'[k].limits = packages[k].limits
        BY <1>3 DEF ErasePackage
      <3> QED BY <1>3, <3>1 DEF ErasePackage
    <2> QED BY <1>3, <2>1 DEF ErasePackage, Goto, NoRequest
  <1>4. ASSUME NEW p \in Procs, NEW o \in Owners, NEW k \in Pkgs,
               NEW needsDB \in BOOLEAN, NEW panel \in BOOLEAN,
               Order(p, o, k, needsDB, panel)
        PROVE  RequestInv'
    BY <1>4 DEF Order
  <1>5. ASSUME NEW p \in Procs, CountSites(p) \/ CountDatabases(p) \/ Abandon(p)
        PROVE  RequestInv'
    <2>1. UNCHANGED <<packages, peak, rows>>
      BY <1>5 DEF CountSites, CountDatabases, Abandon
    <2>2. PICK pc \in {"idle", "count_dbs", "insert"} :
             Goto(p, pc) /\ (pc # "idle" => Ordering(p))
      BY <1>5 DEF CountSites, CountDatabases, Abandon
    <2>3. ASSUME NEW q \in Procs, Ordering(q)'
          PROVE  /\ Ordering(q)
                 /\ req'[q].owner = req[q].owner /\ req'[q].pkg = req[q].pkg
                 /\ req'[q].max = req[q].max
                 /\ req'[q].pc = "build" => req'[q] = req[q]
      <3>1. CASE q # p
        BY <2>2, <2>3, <3>1 DEF Goto
      <3>2. CASE q = p
        <4>1. pc # "idle"
          BY <2>2, <2>3, <3>2 DEF Goto, NoRequest
        <4>2. req'[p] = [req[p] EXCEPT !.pc = pc]
          BY <2>2, <4>1 DEF Goto
        <4> QED BY <2>2, <3>2, <4>1, <4>2
      <3> QED BY <3>1, <3>2
    <2>4. OrderInv'
      BY <2>1, <2>3
    <2>5. BuildInv'
      <3>1. \A q \in Procs : req'[q].pc = "build" => req'[q] = req[q]
        BY <2>3
      <3> QED BY <2>1, <3>1
    <2> QED BY <2>1, <2>4, <2>5
  <1>6. ASSUME NEW p \in Procs, InsertSite(p)
        PROVE  RequestInv'
    <2>1. CASE packages[req[p].pkg].state = "live"
      <3>1. PICK i \in Ids :
              /\ rows[i].state = "free"
              /\ rows' = [rows EXCEPT ![i] =
                            [state |-> "live", owner |-> req[p].owner, pkg |-> req[p].pkg,
                             db |-> FALSE, panel |-> req[p].panel]]
              /\ req' = [req EXCEPT ![p] = [@ EXCEPT !.pc = "build", !.id = i]]
        BY <1>6, <2>1 DEF InsertSite
      <3>2. UNCHANGED <<packages, peak>> /\ Ordering(p)
        BY <1>6 DEF InsertSite
      <3>3. OrderInv'
        BY <3>1, <3>2
      <3>4. BuildInv'
        BY <3>1, <3>2
      <3>5. RowInv'
        BY <3>1, <3>2
      <3> QED BY <3>2, <3>3, <3>4, <3>5
    <2>2. CASE packages[req[p].pkg].state # "live"
      <3>1. UNCHANGED <<packages, peak, rows>>
        BY <1>6, <2>2 DEF InsertSite
      <3>2. \A q \in Procs : req'[q].pc # "idle" => req'[q] = req[q]
        BY <1>6, <2>2 DEF InsertSite, Goto, NoRequest
      <3>3. OrderInv'
        BY <3>1, <3>2
      <3>4. BuildInv'
        BY <3>1, <3>2
      <3> QED BY <3>1, <3>3, <3>4
    <2> QED BY <2>1, <2>2
  <1>7. ASSUME NEW p \in Procs, NEW made \in BOOLEAN, SaveSite(p, made)
        PROVE  RequestInv'
    <2>1. /\ UNCHANGED <<packages, peak>>
          /\ req' = [req EXCEPT ![p] = NoRequest]
      BY <1>7 DEF SaveSite, Goto
    <2>2. ASSUME NEW i \in Ids
          PROVE  /\ rows'[i].state = rows[i].state
                 /\ rows'[i].owner = rows[i].owner
                 /\ rows'[i].pkg = rows[i].pkg
                 /\ rows'[i].panel = rows[i].panel
      BY <1>7 DEF SaveSite
    <2>3. \A q \in Procs : req'[q].pc # "idle" => req'[q] = req[q]
      BY <2>1 DEF NoRequest
    <2>4. BuildInv'
      BY <2>2, <2>3
    <2> QED BY <2>1, <2>2, <2>3, <2>4
  <1>8. ASSUME NEW i \in Ids, DeleteSite(i)
        PROVE  RequestInv'
    BY <1>8 DEF DeleteSite
  <1>9. CASE UNCHANGED vars
    BY <1>9 DEF vars
  <1> QED BY <1>1, <1>2, <1>3, <1>4, <1>5, <1>6, <1>7, <1>8, <1>9 DEF Next, Serve

------------------------------------------------------------------------------

(* Fewer rows, fewer requests and a higher peak keep a bound. *)
LEMMA BoundKept ==
    ASSUME NEW S1, NEW S2, NEW T1, NEW T2, IsFiniteSet(S1), IsFiniteSet(T1),
           S2 \subseteq S1, T2 \subseteq T1,
           NEW m1 \in Nat, NEW m2 \in Nat, NEW n \in Nat, m1 <= m2,
           Cardinality(S1) + Cardinality(T1) < m1 + n
    PROVE  Cardinality(S2) + Cardinality(T2) < m2 + n
  <1>1. /\ Cardinality(S2) \in Nat /\ Cardinality(S1) \in Nat
        /\ Cardinality(S2) <= Cardinality(S1)
    BY CardPart
  <1>2. /\ Cardinality(T2) \in Nat /\ Cardinality(T1) \in Nat
        /\ Cardinality(T2) <= Cardinality(T1)
    BY CardPart
  <1> QED BY <1>1, <1>2

(* The sets that are counted are finite, and so are their sizes. *)
LEMMA Finite ==
    ASSUME LimitsAssumption, NEW o, NEW k
    PROVE  /\ IsFiniteSet(PanelSites(o, k)) /\ IsFiniteSet(PanelDatabases(o, k))
           /\ IsFiniteSet(SitesToCome(o, k)) /\ IsFiniteSet(DatabasesToCome(o, k))
           /\ IsFiniteSet(OwnerSites(o)) /\ IsFiniteSet(OwnerDatabases(o))
           /\ Cardinality(Procs) \in Nat
  <1>1. /\ PanelSites(o, k) \subseteq Ids /\ PanelDatabases(o, k) \subseteq Ids
        /\ OwnerSites(o) \subseteq Ids /\ OwnerDatabases(o) \subseteq Ids
    BY DEF PanelSites, PanelDatabases, OwnerSites, OwnerDatabases
  <1>2. /\ SitesToCome(o, k) \subseteq Procs /\ DatabasesToCome(o, k) \subseteq Procs
    BY DEF SitesToCome, DatabasesToCome
  <1> QED BY <1>1, <1>2, FS_Subset, FS_CardinalityType DEF LimitsAssumption

LEMMA SitesStep ==
    ASSUME LimitsAssumption, TypeOK, TypeOK', RequestInv, SitesInv, [Next]_vars
    PROVE  SitesInv'
  <1> SUFFICES ASSUME NEW o \in Owners, NEW k \in Pkgs
               PROVE  Cardinality(PanelSites(o, k)') + Cardinality(SitesToCome(o, k)')
                        < peak'[k].sites + Cardinality(Procs)
    BY DEF SitesInv
  <1> DEFINE S1 == PanelSites(o, k)
             S2 == PanelSites(o, k)'
             T1 == SitesToCome(o, k)
             T2 == SitesToCome(o, k)'
  <1>0. /\ Cardinality(S1) + Cardinality(T1) < peak[k].sites + Cardinality(Procs)
        /\ IsFiniteSet(S1) /\ IsFiniteSet(T1) /\ Cardinality(Procs) \in Nat
        /\ peak[k].sites \in Nat /\ peak'[k].sites \in Nat
    BY Finite DEF SitesInv, TypeOK, LimitPair
  <1>a. ASSUME S2 \subseteq S1, T2 \subseteq T1, peak[k].sites <= peak'[k].sites
        PROVE  Cardinality(S2) + Cardinality(T2) < peak'[k].sites + Cardinality(Procs)
    <2> DEFINE m1 == peak[k].sites
               m2 == peak'[k].sites
               n == Cardinality(Procs)
    <2>1. /\ IsFiniteSet(S1) /\ IsFiniteSet(T1)
          /\ m1 \in Nat /\ m2 \in Nat /\ n \in Nat /\ m1 <= m2
          /\ Cardinality(S1) + Cardinality(T1) < m1 + n
      BY <1>0, <1>a
    <2> HIDE DEF S1, S2, T1, T2, m1, m2, n
    <2>2. Cardinality(S2) + Cardinality(T2) < m2 + n
      BY <1>a, <2>1, BoundKept
    <2> QED BY <2>2 DEF m2, n
  <1> USE DEF TypeOK, Package, SiteRow, Request, LimitPair
  <1>1. ASSUME NEW j \in Pkgs, NEW s \in Limits, NEW d \in Limits,
               CreatePackage(j, s, d) \/ UpdatePackage(j, s, d)
        PROVE  Cardinality(S2) + Cardinality(T2) < peak'[k].sites + Cardinality(Procs)
    <2>1. PICK l \in LimitPair : SetLimits(j, l)
      BY <1>1, LimitsTyped DEF CreatePackage, UpdatePackage, LimitsAssumption
    <2>2. peak[k].sites <= peak'[k].sites
      BY <2>1 DEF SetLimits, Max2
    <2>3. S2 = S1 /\ T2 = T1
      BY <2>1 DEF SetLimits, PanelSites, SitesToCome, Live
    <2> QED BY <1>a, <2>2, <2>3
  <1>2. ASSUME NEW p \in Procs, UNCHANGED <<peak, rows>>,
               \A q \in Procs : q # p => req'[q] = req[q],
               req'[p].pc \notin {"count_dbs", "insert"}
        PROVE  Cardinality(S2) + Cardinality(T2) < peak'[k].sites + Cardinality(Procs)
    <2>1. S2 = S1 /\ T2 \subseteq T1
      BY <1>2 DEF PanelSites, SitesToCome, Live
    <2> QED BY <1>0, <1>2, <1>a, <2>1
  <1>3. ASSUME NEW p \in Procs, NEW j \in Pkgs, CountUses(p, j)
        PROVE  Cardinality(S2) + Cardinality(T2) < peak'[k].sites + Cardinality(Procs)
    BY <1>3, <1>2 DEF CountUses
  <1>4. ASSUME NEW p \in Procs, ErasePackage(p) \/ Abandon(p)
        PROVE  Cardinality(S2) + Cardinality(T2) < peak'[k].sites + Cardinality(Procs)
    <2>1. /\ UNCHANGED <<peak, rows>>
          /\ \A q \in Procs : q # p => req'[q] = req[q]
          /\ req'[p].pc = "idle"
      BY <1>4 DEF ErasePackage, Abandon, Goto, NoRequest
    <2> QED BY <1>2, <2>1
  <1>5. ASSUME NEW p \in Procs, NEW u \in Owners, NEW j \in Pkgs,
               NEW needsDB \in BOOLEAN, NEW panel \in BOOLEAN,
               Order(p, u, j, needsDB, panel)
        PROVE  Cardinality(S2) + Cardinality(T2) < peak'[k].sites + Cardinality(Procs)
    (* Only a panel order waits for a check; the others never count.       *)
    <2>1. S2 = S1 /\ T2 \subseteq T1
      BY <1>5 DEF Order, PanelSites, SitesToCome, Live
    <2> QED BY <1>0, <1>5, <1>a, <2>1 DEF Order
  <1>6. ASSUME NEW p \in Procs, CountSites(p)
        PROVE  Cardinality(S2) + Cardinality(T2) < peak'[k].sites + Cardinality(Procs)
    <2>1. CASE Cardinality(OwnerSites(req[p].owner)) >= req[p].max.sites
      BY <1>6, <2>1, <1>2 DEF CountSites, Goto, NoRequest
    <2>2. CASE ~(Cardinality(OwnerSites(req[p].owner)) >= req[p].max.sites)
      <3>1. CASE req[p].owner = o /\ req[p].pkg = k
        (* The check: the rows are below the limit the request has read.   *)
        <4>1. S2 = S1 /\ S1 \subseteq OwnerSites(o) /\ T2 \subseteq Procs
          BY <1>6 DEF CountSites, PanelSites, OwnerSites, SitesToCome, Live
        <4>2. /\ Cardinality(S1) <= Cardinality(OwnerSites(o))
              /\ Cardinality(S1) \in Nat /\ Cardinality(OwnerSites(o)) \in Nat
          BY <4>1, Finite, CardPart
        <4>3. Cardinality(T2) <= Cardinality(Procs) /\ Cardinality(T2) \in Nat
          BY <4>1, CardPart DEF LimitsAssumption
        <4>4. req[p].max.sites <= peak[k].sites /\ req[p].max.sites \in Nat
          BY <1>6, <3>1 DEF CountSites, RequestInv, OrderInv, Ordering
        <4>5. peak' = peak
          BY <1>6 DEF CountSites
        <4> HIDE DEF S1, S2, T1, T2
        <4> QED BY <1>0, <2>2, <3>1, <4>1, <4>2, <4>3, <4>4, <4>5
      <3>2. CASE ~(req[p].owner = o /\ req[p].pkg = k)
        <4>1. S2 = S1 /\ T2 \subseteq T1
          BY <1>6, <3>2 DEF CountSites, Goto, NoRequest, PanelSites, SitesToCome, Live
        <4> QED BY <1>0, <1>6, <1>a, <4>1 DEF CountSites
      <3> QED BY <3>1, <3>2
    <2> QED BY <2>1, <2>2
  <1>7. ASSUME NEW p \in Procs, CountDatabases(p)
        PROVE  Cardinality(S2) + Cardinality(T2) < peak'[k].sites + Cardinality(Procs)
    <2>1. S2 = S1 /\ T2 \subseteq T1
      BY <1>7 DEF CountDatabases, Goto, NoRequest, PanelSites, SitesToCome, Live
    <2> QED BY <1>0, <1>7, <1>a, <2>1 DEF CountDatabases
  <1>8. ASSUME NEW p \in Procs, InsertSite(p)
        PROVE  Cardinality(S2) + Cardinality(T2) < peak'[k].sites + Cardinality(Procs)
    <2>1. CASE packages[req[p].pkg].state = "live"
      <3>1. PICK i \in Ids :
              /\ rows[i].state = "free"
              /\ rows' = [rows EXCEPT ![i] =
                            [state |-> "live", owner |-> req[p].owner, pkg |-> req[p].pkg,
                             db |-> FALSE, panel |-> req[p].panel]]
              /\ req' = [req EXCEPT ![p] = [@ EXCEPT !.pc = "build", !.id = i]]
        BY <1>8, <2>1 DEF InsertSite
      <3>2. peak' = peak
        BY <1>8 DEF InsertSite
      <3>3. CASE p \in T1
        (* A request that passed the check turns into a row.               *)
        <4>1. S2 \subseteq S1 \cup {i} /\ T2 \subseteq T1 \ {p}
          BY <3>1 DEF PanelSites, SitesToCome, Live
        <4>2. Cardinality(S2) + Cardinality(T2) <= Cardinality(S1) + Cardinality(T1)
          <5> HIDE DEF S1, S2, T1, T2
          <5> QED BY <1>0, <3>3, <4>1, CardTrade
        <4>3. IsFiniteSet(S2) /\ IsFiniteSet(T2)
          <5> HIDE DEF S1, S2, T1, T2
          <5> QED BY <1>0, <4>1, FS_AddElement, FS_Subset
        <4>4. /\ Cardinality(S1) \in Nat /\ Cardinality(T1) \in Nat
              /\ Cardinality(S2) \in Nat /\ Cardinality(T2) \in Nat
          BY <1>0, <4>3, FS_CardinalityType
        <4> HIDE DEF S1, S2, T1, T2
        <4> QED BY <1>0, <3>2, <4>2, <4>4
      <3>4. CASE p \notin T1
        <4>1. ~(req[p].panel /\ req[p].owner = o /\ req[p].pkg = k)
          BY <1>8, <3>4 DEF InsertSite, SitesToCome
        <4>2. S2 \subseteq S1
          BY <3>1, <4>1 DEF PanelSites, Live
        <4>3. T2 \subseteq T1
          BY <3>1 DEF SitesToCome
        <4> QED BY <1>0, <1>a, <3>2, <4>2, <4>3
      <3> QED BY <3>3, <3>4
    <2>2. CASE packages[req[p].pkg].state # "live"
      <3>1. /\ UNCHANGED <<peak, rows>>
            /\ \A q \in Procs : q # p => req'[q] = req[q]
            /\ req'[p].pc = "idle"
        BY <1>8, <2>2 DEF InsertSite, Goto, NoRequest
      <3> QED BY <1>2, <3>1
    <2> QED BY <2>1, <2>2
  <1>9. ASSUME NEW p \in Procs, NEW made \in BOOLEAN, SaveSite(p, made)
        PROVE  Cardinality(S2) + Cardinality(T2) < peak'[k].sites + Cardinality(Procs)
    <2>1. \A i \in Ids : /\ rows'[i].state = rows[i].state
                         /\ rows'[i].owner = rows[i].owner
                         /\ rows'[i].pkg = rows[i].pkg
                         /\ rows'[i].panel = rows[i].panel
      BY <1>9 DEF SaveSite
    <2>2. S2 = S1
      BY <2>1 DEF PanelSites, Live
    <2>3. T2 \subseteq T1
      BY <1>9 DEF SaveSite, Goto, NoRequest, SitesToCome
    <2> QED BY <1>0, <1>9, <1>a, <2>2, <2>3 DEF SaveSite
  <1>10. ASSUME NEW i \in Ids, DeleteSite(i)
         PROVE  Cardinality(S2) + Cardinality(T2) < peak'[k].sites + Cardinality(Procs)
    <2>1. S2 \subseteq S1 /\ T2 = T1
      BY <1>10 DEF DeleteSite, PanelSites, SitesToCome, Live
    <2> QED BY <1>0, <1>10, <1>a, <2>1 DEF DeleteSite
  <1>11. CASE UNCHANGED vars
    <2>1. S2 = S1 /\ T2 = T1 /\ peak' = peak
      BY <1>11 DEF vars, PanelSites, SitesToCome, Live
    <2> QED BY <1>0, <1>a, <2>1
  <1> QED
    BY <1>1, <1>3, <1>4, <1>5, <1>6, <1>7, <1>8, <1>9, <1>10, <1>11 DEF Next, Serve

LEMMA DatabasesStep ==
    ASSUME LimitsAssumption, TypeOK, TypeOK', RequestInv, DatabasesInv, [Next]_vars
    PROVE  DatabasesInv'
  <1> SUFFICES ASSUME NEW o \in Owners, NEW k \in Pkgs
               PROVE  Cardinality(PanelDatabases(o, k)') + Cardinality(DatabasesToCome(o, k)')
                        < peak'[k].dbs + Cardinality(Procs)
    BY DEF DatabasesInv
  <1> DEFINE S1 == PanelDatabases(o, k)
             S2 == PanelDatabases(o, k)'
             T1 == DatabasesToCome(o, k)
             T2 == DatabasesToCome(o, k)'
  <1>0. /\ Cardinality(S1) + Cardinality(T1) < peak[k].dbs + Cardinality(Procs)
        /\ IsFiniteSet(S1) /\ IsFiniteSet(T1) /\ Cardinality(Procs) \in Nat
        /\ peak[k].dbs \in Nat /\ peak'[k].dbs \in Nat
    BY Finite DEF DatabasesInv, TypeOK, LimitPair
  <1>a. ASSUME S2 \subseteq S1, T2 \subseteq T1, peak[k].dbs <= peak'[k].dbs
        PROVE  Cardinality(S2) + Cardinality(T2) < peak'[k].dbs + Cardinality(Procs)
    <2> DEFINE m1 == peak[k].dbs
               m2 == peak'[k].dbs
               n == Cardinality(Procs)
    <2>1. /\ IsFiniteSet(S1) /\ IsFiniteSet(T1)
          /\ m1 \in Nat /\ m2 \in Nat /\ n \in Nat /\ m1 <= m2
          /\ Cardinality(S1) + Cardinality(T1) < m1 + n
      BY <1>0, <1>a
    <2> HIDE DEF S1, S2, T1, T2, m1, m2, n
    <2>2. Cardinality(S2) + Cardinality(T2) < m2 + n
      BY <1>a, <2>1, BoundKept
    <2> QED BY <2>2 DEF m2, n
  <1> USE DEF TypeOK, Package, SiteRow, Request, LimitPair
  <1>1. ASSUME NEW j \in Pkgs, NEW s \in Limits, NEW d \in Limits,
               CreatePackage(j, s, d) \/ UpdatePackage(j, s, d)
        PROVE  Cardinality(S2) + Cardinality(T2) < peak'[k].dbs + Cardinality(Procs)
    <2>1. PICK l \in LimitPair : SetLimits(j, l)
      BY <1>1, LimitsTyped DEF CreatePackage, UpdatePackage, LimitsAssumption
    <2>2. peak[k].dbs <= peak'[k].dbs
      BY <2>1 DEF SetLimits, Max2
    <2>3. S2 = S1 /\ T2 = T1
      BY <2>1 DEF SetLimits, PanelDatabases, PanelSites, DatabasesToCome, Live
    <2> QED BY <1>a, <2>2, <2>3
  <1>2. ASSUME NEW p \in Procs, UNCHANGED <<peak, rows>>,
               \A q \in Procs : q # p => req'[q] = req[q],
               req'[p].pc \in {"insert", "build"} => ~req'[p].panel \/ ~req'[p].needsDB
        PROVE  Cardinality(S2) + Cardinality(T2) < peak'[k].dbs + Cardinality(Procs)
    <2>1. S2 = S1 /\ T2 \subseteq T1
      BY <1>2 DEF PanelDatabases, PanelSites, DatabasesToCome, Live
    <2> QED BY <1>0, <1>2, <1>a, <2>1
  <1>3. ASSUME NEW p \in Procs, NEW j \in Pkgs, CountUses(p, j)
        PROVE  Cardinality(S2) + Cardinality(T2) < peak'[k].dbs + Cardinality(Procs)
    BY <1>3, <1>2 DEF CountUses
  <1>4. ASSUME NEW p \in Procs, ErasePackage(p) \/ Abandon(p)
        PROVE  Cardinality(S2) + Cardinality(T2) < peak'[k].dbs + Cardinality(Procs)
    <2>1. /\ UNCHANGED <<peak, rows>>
          /\ \A q \in Procs : q # p => req'[q] = req[q]
          /\ req'[p].pc = "idle"
      BY <1>4 DEF ErasePackage, Abandon, Goto, NoRequest
    <2> QED BY <1>2, <2>1
  <1>5. ASSUME NEW p \in Procs, NEW u \in Owners, NEW j \in Pkgs,
               NEW needsDB \in BOOLEAN, NEW panel \in BOOLEAN,
               Order(p, u, j, needsDB, panel)
        PROVE  Cardinality(S2) + Cardinality(T2) < peak'[k].dbs + Cardinality(Procs)
    <2>1. S2 = S1 /\ T2 \subseteq T1
      BY <1>5 DEF Order, PanelDatabases, PanelSites, DatabasesToCome, Live
    <2> QED BY <1>0, <1>5, <1>a, <2>1 DEF Order
  <1>6. ASSUME NEW p \in Procs, CountSites(p)
        PROVE  Cardinality(S2) + Cardinality(T2) < peak'[k].dbs + Cardinality(Procs)
    (* A request that skips the check on databases asks for none.          *)
    <2>1. S2 = S1 /\ T2 \subseteq T1
      BY <1>6 DEF CountSites, Goto, NoRequest, PanelDatabases, PanelSites,
                  DatabasesToCome, Live
    <2> QED BY <1>0, <1>6, <1>a, <2>1 DEF CountSites
  <1>7. ASSUME NEW p \in Procs, CountDatabases(p)
        PROVE  Cardinality(S2) + Cardinality(T2) < peak'[k].dbs + Cardinality(Procs)
    <2>1. CASE Cardinality(OwnerDatabases(req[p].owner)) >= req[p].max.dbs
      <3>1. /\ UNCHANGED <<peak, rows>>
            /\ \A q \in Procs : q # p => req'[q] = req[q]
            /\ req'[p].pc = "idle"
        BY <1>7, <2>1 DEF CountDatabases, Goto, NoRequest
      <3> QED BY <1>2, <3>1
    <2>2. CASE ~(Cardinality(OwnerDatabases(req[p].owner)) >= req[p].max.dbs)
      <3>1. CASE req[p].owner = o /\ req[p].pkg = k
        <4>1. S2 = S1 /\ S1 \subseteq OwnerDatabases(o) /\ T2 \subseteq Procs
          BY <1>7 DEF CountDatabases, PanelDatabases, PanelSites, OwnerDatabases,
                      OwnerSites, DatabasesToCome, Live
        <4>2. /\ Cardinality(S1) <= Cardinality(OwnerDatabases(o))
              /\ Cardinality(S1) \in Nat /\ Cardinality(OwnerDatabases(o)) \in Nat
          BY <4>1, Finite, CardPart
        <4>3. Cardinality(T2) <= Cardinality(Procs) /\ Cardinality(T2) \in Nat
          BY <4>1, CardPart DEF LimitsAssumption
        <4>4. req[p].max.dbs <= peak[k].dbs /\ req[p].max.dbs \in Nat
          BY <1>7, <3>1 DEF CountDatabases, RequestInv, OrderInv, Ordering
        <4>5. peak' = peak
          BY <1>7 DEF CountDatabases
        <4> HIDE DEF S1, S2, T1, T2
        <4> QED BY <1>0, <2>2, <3>1, <4>1, <4>2, <4>3, <4>4, <4>5
      <3>2. CASE ~(req[p].owner = o /\ req[p].pkg = k)
        <4>1. S2 = S1 /\ T2 \subseteq T1
          BY <1>7, <3>2 DEF CountDatabases, Goto, NoRequest, PanelDatabases,
                            PanelSites, DatabasesToCome, Live
        <4> QED BY <1>0, <1>7, <1>a, <4>1 DEF CountDatabases
      <3> QED BY <3>1, <3>2
    <2> QED BY <2>1, <2>2
  <1>8. ASSUME NEW p \in Procs, InsertSite(p)
        PROVE  Cardinality(S2) + Cardinality(T2) < peak'[k].dbs + Cardinality(Procs)
    <2>1. CASE packages[req[p].pkg].state = "live"
      <3>1. PICK i \in Ids :
              /\ rows[i].state = "free"
              /\ rows' = [rows EXCEPT ![i] =
                            [state |-> "live", owner |-> req[p].owner, pkg |-> req[p].pkg,
                             db |-> FALSE, panel |-> req[p].panel]]
              /\ req' = [req EXCEPT ![p] = [@ EXCEPT !.pc = "build", !.id = i]]
        BY <1>8, <2>1 DEF InsertSite
      <3>2. S2 \subseteq S1
        BY <3>1 DEF PanelDatabases, PanelSites, Live
      <3>3. T2 \subseteq T1
        <4>1. req[p].pc = "insert"
          BY <1>8 DEF InsertSite
        <4>2. ASSUME NEW q \in Procs
              PROVE  /\ q # p => req'[q] = req[q]
                     /\ req'[q].panel = req[q].panel /\ req'[q].needsDB = req[q].needsDB
                     /\ req'[q].owner = req[q].owner /\ req'[q].pkg = req[q].pkg
          BY <3>1
        <4> QED BY <4>1, <4>2 DEF DatabasesToCome
      <3>4. peak' = peak
        BY <1>8 DEF InsertSite
      <3> QED BY <1>0, <1>a, <3>2, <3>3, <3>4
    <2>2. CASE packages[req[p].pkg].state # "live"
      <3>1. /\ UNCHANGED <<peak, rows>>
            /\ \A q \in Procs : q # p => req'[q] = req[q]
            /\ req'[p].pc = "idle"
        BY <1>8, <2>2 DEF InsertSite, Goto, NoRequest
      <3> QED BY <1>2, <3>1
    <2> QED BY <2>1, <2>2
  <1>9. ASSUME NEW p \in Procs, NEW made \in BOOLEAN, SaveSite(p, made)
        PROVE  Cardinality(S2) + Cardinality(T2) < peak'[k].dbs + Cardinality(Procs)
    <2> DEFINE i == req[p].id
    <2>1. /\ i \in Ids
          /\ rows[i].owner = req[p].owner /\ rows[i].pkg = req[p].pkg
          /\ rows[i].panel = req[p].panel
      BY <1>9 DEF SaveSite, RequestInv, BuildInv
    <2>2. peak' = peak /\ T2 \subseteq T1 \ {p}
      BY <1>9 DEF SaveSite, Goto, NoRequest, DatabasesToCome
    <2>3. \A j \in Ids :
             /\ rows'[j].state = rows[j].state
             /\ rows'[j].owner = rows[j].owner
             /\ rows'[j].pkg = rows[j].pkg
             /\ rows'[j].panel = rows[j].panel
             /\ j # i => rows'[j] = rows[j]
      BY <1>9 DEF SaveSite
    <2>4. CASE p \in T1
      (* The database that was to come is there.                           *)
      <3>1. S2 \subseteq S1 \cup {i}
        BY <2>3 DEF PanelDatabases, PanelSites, Live
      <3>2. Cardinality(S2) + Cardinality(T2) <= Cardinality(S1) + Cardinality(T1)
        <4> HIDE DEF S1, S2, T1, T2, i
        <4> QED BY <1>0, <2>2, <2>4, <3>1, CardTrade
      <3>3. IsFiniteSet(S2) /\ IsFiniteSet(T2)
        <4>1. IsFiniteSet(S1 \cup {i}) /\ IsFiniteSet(T1 \ {p})
          <5> HIDE DEF S1, T1, i
          <5> QED BY <1>0, FS_AddElement, FS_RemoveElement
        <4> HIDE DEF S1, S2, T1, T2, i
        <4> QED BY <2>2, <3>1, <4>1, CardPart
      <3>4. /\ Cardinality(S1) \in Nat /\ Cardinality(T1) \in Nat
            /\ Cardinality(S2) \in Nat /\ Cardinality(T2) \in Nat
        BY <1>0, <3>3, FS_CardinalityType
      <3> HIDE DEF S1, S2, T1, T2
      <3> QED BY <1>0, <2>2, <3>2, <3>4
    <2>5. CASE p \notin T1
      <3>1. ~(req[p].panel /\ req[p].needsDB /\ req[p].owner = o /\ req[p].pkg = k)
        BY <1>9, <2>5 DEF SaveSite, DatabasesToCome
      <3>2. ASSUME i \in S2 PROVE i \in S1
        <4>1. req[p].panel /\ req[p].owner = o /\ req[p].pkg = k /\ Live(i)
          BY <2>1, <2>3, <3>2 DEF PanelDatabases, PanelSites, Live
        <4>2. rows'[i].db = (req[p].needsDB /\ made)
          BY <1>9, <2>1, <4>1 DEF SaveSite
        <4> QED BY <3>1, <3>2, <4>1, <4>2 DEF PanelDatabases
      <3>3. S2 \subseteq S1
        BY <2>3, <3>2 DEF PanelDatabases, PanelSites, Live
      <3> QED BY <1>0, <1>a, <2>2, <3>3
    <2> QED BY <2>4, <2>5
  <1>10. ASSUME NEW i \in Ids, DeleteSite(i)
         PROVE  Cardinality(S2) + Cardinality(T2) < peak'[k].dbs + Cardinality(Procs)
    <2>1. S2 \subseteq S1 /\ T2 = T1
      BY <1>10 DEF DeleteSite, PanelDatabases, PanelSites, DatabasesToCome, Live
    <2> QED BY <1>0, <1>10, <1>a, <2>1 DEF DeleteSite
  <1>11. CASE UNCHANGED vars
    <2>1. S2 = S1 /\ T2 = T1 /\ peak' = peak
      BY <1>11 DEF vars, PanelDatabases, PanelSites, DatabasesToCome, Live
    <2> QED BY <1>0, <1>a, <2>1
  <1> QED
    BY <1>1, <1>3, <1>4, <1>5, <1>6, <1>7, <1>8, <1>9, <1>10, <1>11 DEF Next, Serve

LEMMA PackageStep ==
    ASSUME TypeOK, RequestInv, PackageKept, [Next]_vars
    PROVE  PackageKept'
  <1> USE DEF TypeOK, Package, SiteRow, Request, RequestInv, RowInv, PackageKept, Live
  <1>1. ASSUME NEW k \in Pkgs, NEW s \in Limits, NEW d \in Limits,
               CreatePackage(k, s, d) \/ UpdatePackage(k, s, d)
        PROVE  PackageKept'
    BY <1>1 DEF CreatePackage, UpdatePackage, SetLimits
  <1>2. ASSUME NEW p \in Procs, ErasePackage(p)
        PROVE  PackageKept'
    (* The foreign key, not the earlier count, is what keeps the package.  *)
    <2>1. rows' = rows
      BY <1>2 DEF ErasePackage
    <2>2. ASSUME NEW i \in Ids, Live(i)
          PROVE  packages'[rows[i].pkg].state = "live"
      <3>1. rows[i].pkg \in Pkgs /\ packages[rows[i].pkg].state = "live"
        BY <2>2
      <3>2. CASE rows[i].pkg = req[p].pkg
        <4>1. Uses(req[p].pkg) # {}
          BY <2>2, <3>2 DEF Uses
        <4> QED BY <1>2, <3>1, <4>1 DEF ErasePackage
      <3>3. CASE rows[i].pkg # req[p].pkg
        BY <1>2, <3>1, <3>3 DEF ErasePackage
      <3> QED BY <3>2, <3>3
    <2> QED BY <2>1, <2>2
  <1>3. ASSUME NEW p \in Procs, InsertSite(p)
        PROVE  PackageKept'
    <2>1. packages' = packages
      BY <1>3 DEF InsertSite
    <2>2. CASE packages[req[p].pkg].state = "live"
      <3>1. PICK i \in Ids :
              rows' = [rows EXCEPT ![i] =
                        [state |-> "live", owner |-> req[p].owner, pkg |-> req[p].pkg,
                         db |-> FALSE, panel |-> req[p].panel]]
        BY <1>3, <2>2 DEF InsertSite
      <3> QED BY <2>1, <2>2, <3>1
    <2>3. CASE packages[req[p].pkg].state # "live"
      BY <1>3, <2>1, <2>3 DEF InsertSite
    <2> QED BY <2>2, <2>3
  <1>4. ASSUME NEW p \in Procs, NEW made \in BOOLEAN, SaveSite(p, made)
        PROVE  PackageKept'
    BY <1>4 DEF SaveSite
  <1>5. ASSUME NEW i \in Ids, DeleteSite(i)
        PROVE  PackageKept'
    BY <1>5 DEF DeleteSite
  <1>6. CASE UNCHANGED <<packages, rows>>
    BY <1>6
  <1> QED
    BY <1>1, <1>2, <1>3, <1>4, <1>5, <1>6
    DEF Next, Serve, CountUses, Order, CountSites, CountDatabases, Abandon, vars

------------------------------------------------------------------------------

IndInv == TypeOK /\ RequestInv /\ SitesInv /\ DatabasesInv /\ PackageKept

LEMMA InitInv ==
    ASSUME LimitsAssumption, Init
    PROVE  IndInv
  <1>1. TypeOK
    BY DEF Init, TypeOK, Package, SiteRow, Request, NoRequest, NoLimit, LimitPair
  <1>2. RequestInv
    BY DEF Init, RequestInv, PeakInv, OrderInv, BuildInv, RowInv, Ordering, Live,
           NoRequest, NoLimit
  <1>3. ASSUME NEW o \in Owners, NEW k \in Pkgs
        PROVE  /\ PanelSites(o, k) = {} /\ PanelDatabases(o, k) = {}
               /\ SitesToCome(o, k) = {} /\ DatabasesToCome(o, k) = {}
               /\ peak[k].sites = 0 /\ peak[k].dbs = 0
    BY DEF Init, PanelSites, PanelDatabases, SitesToCome, DatabasesToCome, Live,
           NoRequest, NoLimit
  <1>4. Cardinality(Procs) \in Nat /\ Cardinality(Procs) # 0
    BY FS_CardinalityType, FS_EmptySet DEF LimitsAssumption
  <1>5. Cardinality({}) = 0
    BY FS_EmptySet
  <1>6. SitesInv /\ DatabasesInv
    <2>1. ASSUME NEW o \in Owners, NEW k \in Pkgs
          PROVE  /\ Cardinality(PanelSites(o, k)) = 0
                 /\ Cardinality(PanelDatabases(o, k)) = 0
                 /\ Cardinality(SitesToCome(o, k)) = 0
                 /\ Cardinality(DatabasesToCome(o, k)) = 0
      BY <1>3, <1>5
    <2> QED BY <1>3, <1>4, <2>1 DEF SitesInv, DatabasesInv
  <1>7. PackageKept
    BY DEF Init, PackageKept, Live
  <1> QED BY <1>1, <1>2, <1>6, <1>7 DEF IndInv

LEMMA StepInv ==
    ASSUME LimitsAssumption, IndInv, [Next]_vars
    PROVE  IndInv'
  <1>1. TypeOK'
    BY TypeStep DEF IndInv
  <1>2. RequestInv'
    BY <1>1, RequestStep DEF IndInv
  <1> QED
    BY <1>1, <1>2, SitesStep, DatabasesStep, PackageStep DEF IndInv

LEMMA InvBounds ==
    ASSUME LimitsAssumption, IndInv
    PROVE  SitesBounded /\ DatabasesBounded
  <1>1. ASSUME NEW o \in Owners, NEW k \in Pkgs
        PROVE  /\ Cardinality(PanelSites(o, k)) < peak[k].sites + Cardinality(Procs)
               /\ Cardinality(PanelDatabases(o, k)) < peak[k].dbs + Cardinality(Procs)
    <2>1. /\ Cardinality(PanelSites(o, k)) \in Nat /\ Cardinality(SitesToCome(o, k)) \in Nat
          /\ Cardinality(PanelDatabases(o, k)) \in Nat
          /\ Cardinality(DatabasesToCome(o, k)) \in Nat
          /\ Cardinality(Procs) \in Nat
      BY Finite, FS_CardinalityType
    <2>2. peak[k].sites \in Nat /\ peak[k].dbs \in Nat
      BY DEF IndInv, TypeOK, LimitPair
    <2> QED BY <2>1, <2>2 DEF IndInv, SitesInv, DatabasesInv
  <1> QED BY <1>1 DEF SitesBounded, DatabasesBounded

(* Whatever is typed and however requests interleave, every value keeps    *)
(* its type.                                                               *)
THEOREM LimitsTypeOK == LimitsAssumption => (Spec => []TypeOK)
  <1> SUFFICES ASSUME LimitsAssumption PROVE Spec => []TypeOK
    OBVIOUS
  <1>1. Init => IndInv
    BY InitInv
  <1>2. IndInv /\ [Next]_vars => IndInv'
    BY StepInv
  <1>3. IndInv => TypeOK
    BY DEF IndInv
  <1> QED BY <1>1, <1>2, <1>3, PTL DEF Spec

(* Concurrent panel orders exceed a package's site limit by less than the  *)
(* number of requests in flight, for any number of requests, owners and    *)
(* packages; with one request slot the limit is exact (provisionSite).     *)
THEOREM SiteOvershootBound == LimitsAssumption => (Spec => []SitesBounded)
  <1> SUFFICES ASSUME LimitsAssumption PROVE Spec => []SitesBounded
    OBVIOUS
  <1>1. Init => IndInv
    BY InitInv
  <1>2. IndInv /\ [Next]_vars => IndInv'
    BY StepInv
  <1>3. IndInv => SitesBounded
    BY InvBounds
  <1> QED BY <1>1, <1>2, <1>3, PTL DEF Spec

(* The same for databases, though a site under way has none in the table   *)
(* that the query could count (provisionSite).                             *)
THEOREM DatabaseOvershootBound == LimitsAssumption => (Spec => []DatabasesBounded)
  <1> SUFFICES ASSUME LimitsAssumption PROVE Spec => []DatabasesBounded
    OBVIOUS
  <1>1. Init => IndInv
    BY InitInv
  <1>2. IndInv /\ [Next]_vars => IndInv'
    BY StepInv
  <1>3. IndInv => DatabasesBounded
    BY InvBounds
  <1> QED BY <1>1, <1>2, <1>3, PTL DEF Spec

(* No interleaving of DeletePackage and provisionSite leaves a site        *)
(* without its package.                                                    *)
THEOREM NoDanglingPackage == LimitsAssumption => (Spec => []PackageKept)
  <1> SUFFICES ASSUME LimitsAssumption PROVE Spec => []PackageKept
    OBVIOUS
  <1>1. Init => IndInv
    BY InitInv
  <1>2. IndInv /\ [Next]_vars => IndInv'
    BY StepInv
  <1>3. IndInv => PackageKept
    BY DEF IndInv
  <1> QED BY <1>1, <1>2, <1>3, PTL DEF Spec
==============================================================================
