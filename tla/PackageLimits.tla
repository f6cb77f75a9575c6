---------------------------- MODULE PackageLimits ----------------------------
(***************************************************************************)
(* Packages, and what they limit: provisionSite counts the owner's sites   *)
(* and databases, compares with the package it read before, and only later *)
(* inserts the row; the database is counted once its name is saved, at the *)
(* very end.  DeletePackage counts the package's sites and then deletes.   *)
(* Requests interleave between any two statements.                         *)
(*                                                                         *)
(* The agent, accounts and domains are Provisioning's; here a build either *)
(* ends with a saved row, with or without its database, or is abandoned.   *)
(***************************************************************************)
EXTENDS Integers, FiniteSets

CONSTANTS
    Procs,      \* request slots
    Owners,     \* client users
    Pkgs,       \* package ids (bound on the packages ever created)
    Ids,        \* site ids (bound on the sites ever created)
    None,       \* no owner, package or site
    Limits      \* the numbers an administrator types for max_sites, max_databases

ASSUME LimitsAssumption ==
    /\ IsFiniteSet(Procs) /\ Procs # {}
    /\ IsFiniteSet(Ids)
    /\ Limits \subseteq Int
    /\ None \notin Ids

VARIABLES
    packages,   \* table packages; a deleted package is "gone"
    peak,       \* history: the largest limits each package ever had
    rows,       \* table sites, reduced to what the limits look at
    req         \* the request each slot is serving

vars == <<packages, peak, rows, req>>

Max2(m, n) == IF m > n THEN m ELSE n

LimitPair == [sites : Nat, dbs : Nat]
NoLimit == [sites |-> 0, dbs |-> 0]

(* handleCreatePackage and handleUpdatePackage repair what was typed; only *)
(* the first reads a zero as "as many databases as sites".                 *)
Positive(s) == IF s <= 0 THEN 1 ELSE s
OnUpdateRaw(s, d) == [sites |-> Positive(s), dbs |-> d]   \* mutant: d as typed
OnUpdate(s, d) == [sites |-> Positive(s), dbs |-> Max2(d, 0)]
OnCreate(s, d) == LET l == OnUpdate(s, d)
                  IN  IF l.dbs = 0 THEN [l EXCEPT !.dbs = l.sites] ELSE l

Live(i) == rows[i].state = "live"

OwnerSites(o) == {i \in Ids : Live(i) /\ rows[i].owner = o}
OwnerDatabases(o) == {i \in OwnerSites(o) : rows[i].db}
Uses(k) == {i \in Ids : Live(i) /\ rows[i].pkg = k}

NoRequest == [pc |-> "idle", owner |-> None, pkg |-> None, needsDB |-> FALSE,
              panel |-> FALSE, max |-> NoLimit, id |-> None]

Idle(p) == req[p].pc = "idle"
Goto(p, pc) == req' = [req EXCEPT ![p] = IF pc = "idle" THEN NoRequest
                                         ELSE [@ EXCEPT !.pc = pc]]

------------------------------------------------------------------------------
(* The package handlers.                                                   *)

SetLimits(k, l) ==
    /\ packages' = [packages EXCEPT ![k] = [state |-> "live", limits |-> l]]
    /\ peak' = [peak EXCEPT ![k] = [sites |-> Max2(@.sites, l.sites),
                                    dbs |-> Max2(@.dbs, l.dbs)]]
    /\ UNCHANGED <<rows, req>>

CreatePackage(k, s, d) ==
    /\ packages[k].state = "free"
    /\ SetLimits(k, OnCreate(s, d))

(* UPDATE ... WHERE id: every column comes from the request, so a package  *)
(* changed since GetPackage is simply overwritten.                         *)
UpdatePackage(k, s, d) ==
    /\ packages[k].state = "live"
    /\ SetLimits(k, OnUpdate(s, d))

(* DeletePackage: first the count, whether the package exists or not ...   *)
CountUses(p, k) ==
    /\ Idle(p)
    /\ Uses(k) = {}
    /\ req' = [req EXCEPT ![p] = [@ EXCEPT !.pc = "erase", !.pkg = k]]
    /\ UNCHANGED <<packages, peak, rows>>

(* Mutant: foreign keys are off, SQLite's default.                         *)
ErasePackageNoKey(p) ==
    /\ req[p].pc = "erase"
    /\ packages' = IF packages[req[p].pkg].state = "live"
                   THEN [packages EXCEPT ![req[p].pkg].state = "gone"]
                   ELSE packages
    /\ Goto(p, "idle")
    /\ UNCHANGED <<peak, rows>>

(* ... then the DELETE, which the foreign key refuses if a site came.      *)
ErasePackage(p) ==
    /\ req[p].pc = "erase"
    /\ packages' = IF packages[req[p].pkg].state = "live" /\ Uses(req[p].pkg) = {}
                   THEN [packages EXCEPT ![req[p].pkg].state = "gone"]
                   ELSE packages
    /\ Goto(p, "idle")
    /\ UNCHANGED <<peak, rows>>

------------------------------------------------------------------------------
(* provisionSite.                                                          *)

(* GetUserByID and GetPackage; panel is FALSE for a paid Stripe order,     *)
(* which skips the limits.                                                 *)
Order(p, o, k, needsDB, panel) ==
    /\ Idle(p)
    /\ packages[k].state = "live"
    /\ req' = [req EXCEPT ![p] =
                 [pc |-> IF panel THEN "count_sites" ELSE "insert", owner |-> o, pkg |-> k,
                  needsDB |-> needsDB, panel |-> panel,
                  max |-> packages[k].limits, id |-> None]]
    /\ UNCHANGED <<packages, peak, rows>>

(* Mutants: > for >=.                                                      *)
CountSitesAbove(p) ==
    /\ req[p].pc = "count_sites"
    /\ Goto(p, IF Cardinality(OwnerSites(req[p].owner)) > req[p].max.sites THEN "idle"
               ELSE IF req[p].needsDB THEN "count_dbs" ELSE "insert")
    /\ UNCHANGED <<packages, peak, rows>>

CountDatabasesAbove(p) ==
    /\ req[p].pc = "count_dbs"
    /\ Goto(p, IF Cardinality(OwnerDatabases(req[p].owner)) > req[p].max.dbs
               THEN "idle" ELSE "insert")
    /\ UNCHANGED <<packages, peak, rows>>

CountSites(p) ==
    /\ req[p].pc = "count_sites"
    /\ Goto(p, IF Cardinality(OwnerSites(req[p].owner)) >= req[p].max.sites THEN "idle"
               ELSE IF req[p].needsDB THEN "count_dbs" ELSE "insert")
    /\ UNCHANGED <<packages, peak, rows>>

CountDatabases(p) ==
    /\ req[p].pc = "count_dbs"
    /\ Goto(p, IF Cardinality(OwnerDatabases(req[p].owner)) >= req[p].max.dbs
               THEN "idle" ELSE "insert")
    /\ UNCHANGED <<packages, peak, rows>>

(* CreateSite; the foreign key refuses a package deleted in between.       *)
InsertSite(p) ==
    /\ req[p].pc = "insert"
    /\ IF packages[req[p].pkg].state = "live"
       THEN \E i \in Ids :
              /\ rows[i].state = "free"
              /\ rows' = [rows EXCEPT ![i] =
                            [state |-> "live", owner |-> req[p].owner, pkg |-> req[p].pkg,
                             db |-> FALSE, panel |-> req[p].panel]]
              /\ req' = [req EXCEPT ![p] = [@ EXCEPT !.pc = "build", !.id = i]]
       ELSE Goto(p, "idle") /\ UNCHANGED rows
    /\ UNCHANGED <<packages, peak>>

(* UpdateSite at the end of the build, or on its error path: db_name is    *)
(* saved if the database had been created (made).                          *)
SaveSite(p, made) ==
    /\ req[p].pc = "build"
    /\ rows' = IF Live(req[p].id)
               THEN [rows EXCEPT ![req[p].id].db = req[p].needsDB /\ made]
               ELSE rows
    /\ Goto(p, "idle")
    /\ UNCHANGED <<packages, peak>>

(* The API crashed, the domain is taken, no account name was free, ...     *)
Abandon(p) ==
    /\ ~Idle(p)
    /\ Goto(p, "idle")
    /\ UNCHANGED <<packages, peak, rows>>

(* handleDeleteSite, or an order that replaces the site.                   *)
DeleteSite(i) ==
    /\ Live(i)
    /\ rows' = [rows EXCEPT ![i].state = "gone"]
    /\ UNCHANGED <<packages, peak, req>>

------------------------------------------------------------------------------

Package == [state : {"free", "live", "gone"}, limits : LimitPair]

SiteRow == [state : {"free", "live", "gone"}, owner : Owners \cup {None},
            pkg : Pkgs \cup {None}, db : BOOLEAN, panel : BOOLEAN]

Request == [pc : {"idle", "erase", "count_sites", "count_dbs", "insert", "build"},
            owner : Owners \cup {None}, pkg : Pkgs \cup {None}, needsDB : BOOLEAN,
            panel : BOOLEAN, max : LimitPair, id : Ids \cup {None}]

Init ==
    /\ packages = [k \in Pkgs |-> [state |-> "free", limits |-> NoLimit]]
    /\ peak = [k \in Pkgs |-> NoLimit]
    /\ rows = [i \in Ids |-> [state |-> "free", owner |-> None, pkg |-> None,
                              db |-> FALSE, panel |-> FALSE]]
    /\ req = [p \in Procs |-> NoRequest]

Serve(p) ==
    \/ \E k \in Pkgs : CountUses(p, k)
    \/ ErasePackage(p)
    \/ \E o \in Owners, k \in Pkgs, needsDB, panel \in BOOLEAN :
          Order(p, o, k, needsDB, panel)
    \/ CountSites(p) \/ CountDatabases(p) \/ InsertSite(p)
    \/ \E made \in BOOLEAN : SaveSite(p, made)
    \/ Abandon(p)

Next ==
    \/ \E k \in Pkgs, s, d \in Limits : CreatePackage(k, s, d) \/ UpdatePackage(k, s, d)
    \/ \E p \in Procs : Serve(p)
    \/ \E i \in Ids : DeleteSite(i)

Spec == Init /\ [][Next]_vars

------------------------------------------------------------------------------
(* Properties.                                                             *)

TypeOK ==
    /\ packages \in [Pkgs -> Package]
    /\ peak \in [Pkgs -> LimitPair]
    /\ rows \in [Ids -> SiteRow]
    /\ req \in [Procs -> Request]

(* The sites an owner got through the panel on one package, and those with *)
(* a database.                                                             *)
PanelSites(o, k) ==
    {i \in Ids : Live(i) /\ rows[i].panel /\ rows[i].owner = o /\ rows[i].pkg = k}
PanelDatabases(o, k) == {i \in PanelSites(o, k) : rows[i].db}

(* Counting and inserting are two statements, so concurrent orders do pass *)
(* the limit; but never by more than the requests in flight less one, for  *)
(* any interleaving with other orders, paid orders and package edits.      *)
(* With one request at a time the limit is exact.  Code: provisionSite,    *)
(* the CountOwnerSites check and CreateSite.                               *)
SitesBounded ==
    \A o \in Owners, k \in Pkgs :
        Cardinality(PanelSites(o, k)) < peak[k].sites + Cardinality(Procs)

(* The same for databases, although CountOwnerDatabases overlooks every    *)
(* site still being built: those have a request of their own in flight.    *)
DatabasesBounded ==
    \A o \in Owners, k \in Pkgs :
        Cardinality(PanelDatabases(o, k)) < peak[k].dbs + Cardinality(Procs)

(* A site's package exists: DeletePackage may count zero sites and delete  *)
(* after one was inserted, or a site may be inserted on a package read     *)
(* before it was deleted; the listing joins on it, so the row would vanish *)
(* from the panel.  Code: DeletePackage and CreateSite, models.go.         *)
PackageKept ==
    \A i \in Ids : Live(i) => packages[rows[i].pkg].state = "live"
==============================================================================
