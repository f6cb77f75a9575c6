----------------------------- MODULE DatabaseFile -----------------------------
(***************************************************************************)
(* What the API promises about its SQLite file, with no request, no        *)
(* statement of a start, no journal and no crontab in sight: while the     *)
(* server is up sites and cron jobs come and go, each once; while it is    *)
(* down the table of sites is brought up to date, at one stroke or not at  *)
(* all, and that never touches a site.  Startup implements this            *)
(* (Startup!FileSpec).                                                     *)
(***************************************************************************)
CONSTANTS
    Sites, Jobs, Kinds, NoSite,
    Misfires  \* a current table may be taken for an old one

VARIABLES
    sites,  \* [Sites -> {"free", "live", "deleted"}]
    jobs,   \* [Jobs -> [state, site, kind]], state one of "free", "row", "gone"
    table,  \* table sites: none, or with the old or the new CHECK
    probe,  \* the probe row is in it
    up      \* the server answers

file == <<sites, jobs, table, probe, up>>

(* The jobs when those of the sites in gone are deleted.                   *)
JobsWithout(gone) ==
    [j \in Jobs |-> IF jobs[j].state = "row" /\ jobs[j].site \in gone
                    THEN [jobs[j] EXCEPT !.state = "gone"] ELSE jobs[j]]

(* While the server is up.                                                 *)

AddSite(s) ==
    /\ sites[s] = "free"
    /\ sites' = [sites EXCEPT ![s] = "live"]
    /\ UNCHANGED jobs

EndSite(s) ==
    /\ sites[s] = "live"
    /\ sites' = [sites EXCEPT ![s] = "deleted"]
    /\ jobs' = JobsWithout({s})

AddJob(j) ==
    /\ jobs[j].state = "free"
    /\ \E s \in Sites, k \in Kinds :
          /\ sites[s] = "live"
          /\ jobs' = [jobs EXCEPT ![j] = [state |-> "row", site |-> s, kind |-> k]]
    /\ UNCHANGED sites

EndJob(j) ==
    /\ jobs[j].state = "row"
    /\ jobs' = [jobs EXCEPT ![j].state = "gone"]
    /\ UNCHANGED sites

Change ==
    /\ up
    /\ \/ \E s \in Sites : AddSite(s) \/ EndSite(s)
       \/ \E j \in Jobs : AddJob(j) \/ EndJob(j)
    /\ UNCHANGED <<table, probe, up>>

(* While it is down.                                                       *)

Create ==
    /\ table = "none"
    /\ table' = "new"
    /\ UNCHANGED <<sites, jobs, probe>>

TryOut ==
    /\ table = "new"
    /\ probe' = ~probe
    /\ UNCHANGED <<sites, jobs, table>>

(* The cron jobs, all of them, are what it costs.                          *)
Rebuild ==
    /\ table = "old" \/ probe \/ Misfires
    /\ table' = "new"
    /\ jobs' = JobsWithout(Sites)
    /\ UNCHANGED <<sites, probe>>

Update == ~up /\ (Create \/ TryOut \/ Rebuild) /\ UNCHANGED up

Open == ~up /\ table = "new" /\ up' = TRUE /\ UNCHANGED <<sites, jobs, table, probe>>
Die  == up /\ up' = FALSE /\ UNCHANGED <<sites, jobs, table, probe>>

(* A new file is empty, one of an older version has jobs for its sites.    *)
Init ==
    /\ sites \in [Sites -> {"free", "live"}]
    /\ \A j \in Jobs : jobs[j].state = "free" \/ (jobs[j].state = "row" /\ sites[jobs[j].site] = "live")
    /\ table = "none" => \A s \in Sites : sites[s] = "free"
    /\ table \in {"none", "old"}
    /\ ~probe /\ ~up

Next == Change \/ Update \/ Open \/ Die

Spec == Init /\ [][Next]_file
==============================================================================
