------------------------------- MODULE Sidecars -------------------------------
(***************************************************************************)
(* Adminer and the file browser: processes the API starts on demand, one   *)
(* of each kind for the whole panel, for the site that was opened last.    *)
(*                                                                         *)
(* Opening one downloads what is missing (EnsureAdminerPHP and             *)
(* EnsureFilebrowserBin, which take no lock), then asks the manager for a  *)
(* process on the site's files (StartPHP, StartFilebrowser, under the      *)
(* manager's mutex): the present one when it is on this site and its port  *)
(* answers, else a new one on a port found free a moment before.           *)
(*                                                                         *)
(* Around that, children die, a port is taken before the child listens on  *)
(* it, downloads break off, and the API crashes (systemd then kills its    *)
(* children with it).  The kernel hands out whatever port nobody listens   *)
(* on: one found before by a child that was killed, too, or by one that    *)
(* has yet to listen.  A program that took a port keeps it.                *)
(***************************************************************************)
EXTENDS Naturals, FiniteSets

CONSTANTS
    Procs,      \* request slots
    Kinds,      \* what clients open: php (Adminer), fb (file browser)
    Roots,      \* the directories of the sites
    NoRoot,
    Ports,      \* TCP ports
    NoPort,
    MaxStarts,  \* bound on the processes ever started, or tried to
    Inodes,     \* files the file browser's binary is downloaded into
    NoFile,
    Mirrors,    \* addresses Adminer is tried from
    MaxOpens,   \* bound on the requests ever made
    MaxUpsets,  \* bound on the children that die, ports taken, downloads cut
    MaxCrashes  \* bound on the crashes of the API

ASSUME SidecarsAssumption ==
    /\ Kinds \subseteq {"php", "fb"}
    /\ NoRoot \notin Roots
    /\ NoPort \notin Ports
    /\ "adminer" \notin Inodes          \* filebrowser.tmp and adminer.php never are one file
    /\ NoFile \notin Inodes \cup {"adminer"}
    /\ Mirrors \in Nat \ {0}
    /\ MaxStarts \in Nat /\ MaxOpens \in Nat /\ MaxUpsets \in Nat /\ MaxCrashes \in Nat

Starts == 1..MaxStarts

VARIABLES
    parts,      \* what has been written of each file since it was truncated
    tmp, dest,  \* the files filebrowser.tmp and filebrowser, or NoFile
    marker,     \* filebrowser.version names the version wanted
    copied,     \* the adminer.php each site has been given
    shared,     \* a request has used or truncated the file of another's download
    started,    \* the starts so far are 1..started, in this order
    kids,       \* the process of each start
    at,         \* the port freePort found for it
    taken,      \* ports some other program listens on
    mgr,        \* the manager's fields for each kind
    lock,       \* which request holds its mutex
    req,        \* the request each slot is serving
    urls,       \* the answers clients have on their screens
    opens, upsets, crashes

files == <<parts, tmp, dest, marker, copied, shared>>
procs == <<started, kids, at, taken, mgr, lock>>
vars == <<files, procs, req, urls, opens, upsets, crashes>>

------------------------------------------------------------------------------
(* A download is written in two parts; adminer.php is always the same      *)
(* file, truncated by every download.                                      *)
Whole == {"head", "tail"}
Files == Inodes \cup {"adminer"}

Kid == [kind : {"php", "fb", "none"}, root : Roots \cup {NoRoot},
        state : {"none", "starting", "listening"}]

NoKid == [kind |-> "none", root |-> NoRoot, state |-> "none"]

(* has: the field phpCmd or fbCmd is not nil; it is then the process of    *)
(* start, and phpPort or fbPort is at[start].  The other fields are not    *)
(* read when it is nil.                                                    *)
Fields == [has : BOOLEAN, start : 0..MaxStarts, root : Roots \cup {NoRoot}]

NoCmd == [has |-> FALSE, start |-> 0, root |-> NoRoot]

PCs == {"idle", "ensure", "create", "head", "tail", "rename", "remove", "again", "mark",
        "install", "lock", "spawn", "poll"}

Request == [pc : PCs, kind : {"php", "fb"}, root : Roots \cup {NoRoot},
            file : Files \cup {NoFile},    \* the file it is downloading, until it has used it
            tries : 0..(Mirrors - 1),      \* addresses that have failed
            start : 0..MaxStarts]

Idle == [pc |-> "idle", kind |-> "php", root |-> NoRoot, file |-> NoFile, tries |-> 0, start |-> 0]

Url == [kind : {"php", "fb"}, root : Roots, port : Ports]

Using(f) == {p \in Procs : req[p].file = f}

Writing(f) == {p \in Using(f) : req[p].pc \in {"head", "tail"}}

(* Requests downloading Adminer, or about to try the next address.         *)
Downloading == {p \in Procs : req[p].pc \in {"create", "head", "tail"} /\ req[p].kind = "php"}

Listening(k) == {at[n] : n \in {n \in Starts : k[n].state = "listening"}}

(* Something accepts connections on the port: whatever it is.              *)
Answers(t) == t \in taken \cup Listening(kids)

Goto(p, pc) == req' = [req EXCEPT ![p].pc = pc]
End(p) == req' = [req EXCEPT ![p] = Idle]

------------------------------------------------------------------------------
(* handleOpenAdminer, handleOpenFiles up to the downloads.                 *)

Open(p, k, r) ==
    /\ req[p].pc = "idle"
    /\ opens < MaxOpens
    /\ opens' = opens + 1
    /\ req' = [req EXCEPT ![p] = [Idle EXCEPT !.pc = "ensure", !.kind = k, !.root = r]]
    /\ UNCHANGED <<files, procs, urls, upsets, crashes>>

(* The file there is accepted by its size, the binary also by its marker   *)
(* or by running it with "version".                                        *)
Ensure(p) ==
    /\ req[p].pc = "ensure"
    /\ IF req[p].kind = "php"
       THEN /\ Goto(p, IF parts["adminer"] # {} THEN "install" ELSE "create")
            /\ shared' = (shared \/ (parts["adminer"] # {} /\ Downloading # {}))
            /\ UNCHANGED marker
       ELSE LET there == dest # NoFile /\ parts[dest] # {}
                runs == there /\ parts[dest] = Whole /\ Writing(dest) = {}
            IN  /\ Goto(p, IF there /\ (marker \/ runs) THEN "lock" ELSE "create")
                /\ marker' = (marker \/ runs)
                /\ UNCHANGED shared
    /\ UNCHANGED <<parts, tmp, dest, copied, procs, urls, opens, upsets, crashes>>

(* download: the request, then os.Create, which truncates.                 *)
Create(p) ==
    /\ req[p].pc = "create"
    /\ \E f \in Files :
          /\ IF req[p].kind = "php" THEN f = "adminer"
             ELSE IF tmp # NoFile THEN f = tmp
             ELSE f \in Inodes \ {dest} /\ Using(f) = {}
          /\ parts' = [parts EXCEPT ![f] = {}]
          /\ shared' = (shared \/ Using(f) # {})
          /\ req' = [req EXCEPT ![p].pc = "head", ![p].file = f]
          /\ tmp' = IF req[p].kind = "fb" THEN f ELSE tmp
    /\ UNCHANGED <<dest, marker, copied, procs, urls, opens, upsets, crashes>>

Downloaded(k) == IF k = "php" THEN "install" ELSE "rename"

(* io.Copy.                                                                *)
Write(p) ==
    /\ req[p].pc \in {"head", "tail"}
    /\ parts' = [parts EXCEPT ![req[p].file] = @ \cup {req[p].pc}]
    /\ Goto(p, IF req[p].pc = "head" THEN "tail" ELSE Downloaded(req[p].kind))
    /\ UNCHANGED <<tmp, dest, marker, copied, shared, procs, urls, opens, upsets, crashes>>

(* Mutant: the error of io.Copy is dropped.                                *)
CutUnnoticed(p) ==
    /\ req[p].pc \in {"create", "head", "tail"}
    /\ upsets < MaxUpsets
    /\ upsets' = upsets + 1
    /\ IF req[p].pc # "create"
       THEN Goto(p, Downloaded(req[p].kind))
       ELSE End(p)
    /\ UNCHANGED <<files, procs, urls, opens, crashes>>

(* Mutant: one address too many.                                           *)
CutOnceMore(p) ==
    /\ req[p].pc \in {"create", "head", "tail"}
    /\ upsets < MaxUpsets
    /\ upsets' = upsets + 1
    /\ IF req[p].kind = "php" /\ req[p].tries + 1 <= Mirrors
       THEN req' = [req EXCEPT ![p].pc = "create", ![p].file = NoFile, ![p].tries = @ + 1]
       ELSE End(p)
    /\ UNCHANGED <<files, procs, urls, opens, crashes>>

(* The download fails, at the request or half-way.  Adminer is tried from  *)
(* its other addresses before it is given up.                              *)
Cut(p) ==
    /\ req[p].pc \in {"create", "head", "tail"}
    /\ upsets < MaxUpsets
    /\ upsets' = upsets + 1
    /\ IF req[p].kind = "php" /\ req[p].tries + 1 < Mirrors
       THEN req' = [req EXCEPT ![p].pc = "create", ![p].file = NoFile, ![p].tries = @ + 1]
       ELSE End(p)
    /\ UNCHANGED <<files, procs, urls, opens, crashes>>

(* OpInstallAdminer: the agent copies the file into the site.              *)
Install(p) ==
    /\ req[p].pc = "install"
    /\ copied' = [copied EXCEPT ![req[p].root] = parts["adminer"]]
    /\ req' = [req EXCEPT ![p].pc = "lock", ![p].file = NoFile, ![p].tries = 0]
    /\ UNCHANGED <<parts, tmp, dest, marker, shared, procs, urls, opens, upsets, crashes>>

(* The agent answers install_adminer or ensure_filebrowser with an error,  *)
(* or is given up.                                                         *)
AgentError(p) ==
    /\ \/ req[p].pc = "install"
       \/ req[p].pc = "ensure" /\ req[p].kind = "fb"
    /\ End(p)
    /\ UNCHANGED <<files, procs, urls, opens, upsets, crashes>>

(* os.Rename(tmp, dest); when it fails, because another request has        *)
(* renamed the file already, dest is removed and the rename tried again.   *)
Rename(p) ==
    /\ req[p].pc \in {"rename", "again"}
    /\ IF tmp # NoFile
       THEN /\ dest' = tmp /\ tmp' = NoFile
            /\ req' = [req EXCEPT ![p].pc = "mark", ![p].file = NoFile]
       ELSE /\ IF req[p].pc = "rename" THEN Goto(p, "remove") ELSE End(p)
            /\ UNCHANGED <<tmp, dest>>
    /\ UNCHANGED <<parts, marker, copied, shared, procs, urls, opens, upsets, crashes>>

Remove(p) ==
    /\ req[p].pc = "remove"
    /\ dest' = NoFile
    /\ Goto(p, "again")
    /\ UNCHANGED <<parts, tmp, marker, copied, shared, procs, urls, opens, upsets, crashes>>

Mark(p) ==
    /\ req[p].pc = "mark"
    /\ marker' = TRUE
    /\ Goto(p, "lock")
    /\ UNCHANGED <<parts, tmp, dest, copied, shared, procs, urls, opens, upsets, crashes>>

------------------------------------------------------------------------------
(* StartPHP, StartFilebrowser.                                             *)

Answer(p, t) ==
    /\ urls' = urls \cup {[kind |-> req[p].kind, root |-> req[p].root, port |-> t]}
    /\ End(p)

(* freePort, once the children are k: it listens on a port that is free    *)
(* and closes it again, or fails.                                          *)
FreePort(p, k) ==
    \/ /\ started < MaxStarts
       /\ \E t \in Ports \ (taken \cup Listening(k)) :
             at' = [at EXCEPT ![started + 1] = t]
       /\ started' = started + 1
       /\ lock' = {p}
       /\ req' = [req EXCEPT ![p].pc = "spawn", ![p].start = started + 1]
    \/ End(p) /\ UNCHANGED <<started, at, lock>>

Reuse(p, m) == Answer(p, at[m.start]) /\ UNCHANGED <<started, kids, at, mgr, lock>>

(* The process m is killed and waited for.                                 *)
Replace(p, m) ==
    LET k == IF m.has THEN [kids EXCEPT ![m.start] = NoKid] ELSE kids
    IN  /\ kids' = k
        /\ mgr' = [mgr EXCEPT ![req[p].kind] = NoCmd]
        /\ FreePort(p, k)
        /\ UNCHANGED urls

(* Mutant: the process is reused for whatever site.                        *)
LockAnyRoot(p) ==
    /\ req[p].pc = "lock"
    /\ lock = {}
    /\ LET m == mgr[req[p].kind]
       IN  IF m.has /\ Answers(at[m.start]) THEN Reuse(p, m) ELSE Replace(p, m)
    /\ UNCHANGED <<files, taken, opens, upsets, crashes>>

(* The process the manager has is reused when it is on this site and its   *)
(* port answers.                                                           *)
Lock(p) ==
    /\ req[p].pc = "lock"
    /\ lock = {}
    /\ LET m == mgr[req[p].kind]
       IN  IF m.has /\ m.root = req[p].root /\ Answers(at[m.start])
           THEN Reuse(p, m) ELSE Replace(p, m)
    /\ UNCHANGED <<files, taken, opens, upsets, crashes>>

Keep(p) == mgr' = [mgr EXCEPT ![req[p].kind] =
                     [has |-> TRUE, start |-> req[p].start, root |-> req[p].root]]

(* cmd.Start: it may fail, and does when the binary is missing or being    *)
(* written.  php is taken to be listening at once.                         *)
Spawn(p) ==
    /\ req[p].pc = "spawn"
    /\ LET n == req[p].start
           k == req[p].kind
       IN  \/ End(p) /\ lock' = {} /\ UNCHANGED <<kids, mgr, urls>>
           \/ /\ k = "fb" => dest # NoFile /\ Writing(dest) = {}
              /\ kids' = [kids EXCEPT ![n] =
                            [kind |-> k, root |-> req[p].root, state |-> "starting"]]
              /\ IF k = "php"
                 THEN Keep(p) /\ Answer(p, at[n]) /\ lock' = {}
                 ELSE Goto(p, "poll") /\ UNCHANGED <<mgr, urls, lock>>
    /\ UNCHANGED <<files, started, at, taken, opens, upsets, crashes>>

(* Mutant: the child is left behind when the 25 seconds are over.          *)
PollForgets(p) ==
    /\ req[p].pc = "poll"
    /\ LET n == req[p].start
       IN  IF Answers(at[n])
           THEN Keep(p) /\ Answer(p, at[n])
           ELSE End(p) /\ UNCHANGED <<mgr, urls>>
    /\ lock' = {}
    /\ UNCHANGED <<files, started, kids, at, taken, opens, upsets, crashes>>

(* The port is dialled until something answers; after 25 seconds the       *)
(* child, whatever became of it, is killed.                                *)
Poll(p) ==
    /\ req[p].pc = "poll"
    /\ LET n == req[p].start
       IN  IF Answers(at[n])
           THEN Keep(p) /\ Answer(p, at[n]) /\ UNCHANGED kids
           ELSE /\ kids' = [kids EXCEPT ![n] = NoKid]
                /\ End(p)
                /\ UNCHANGED <<mgr, urls>>
    /\ lock' = {}
    /\ UNCHANGED <<files, started, at, taken, opens, upsets, crashes>>

------------------------------------------------------------------------------
(* The environment.                                                        *)

(* A child gets its port, or finds it taken and exits.                     *)
Bind(n) ==
    /\ kids[n].state = "starting"
    /\ kids' = [kids EXCEPT ![n] = IF Answers(at[n]) THEN NoKid ELSE [@ EXCEPT !.state = "listening"]]
    /\ UNCHANGED <<files, started, at, taken, mgr, lock, req, urls, opens, upsets, crashes>>

Die(n) ==
    /\ kids[n].state \in {"starting", "listening"}
    /\ upsets < MaxUpsets
    /\ upsets' = upsets + 1
    /\ kids' = [kids EXCEPT ![n] = NoKid]
    /\ UNCHANGED <<files, started, at, taken, mgr, lock, req, urls, opens, crashes>>

(* Another program gets the port freePort found.                           *)
Take(t) ==
    /\ (\E n \in 1..started : at[n] = t) /\ ~Answers(t)
    /\ upsets < MaxUpsets
    /\ upsets' = upsets + 1
    /\ taken' = taken \cup {t}
    /\ UNCHANGED <<files, started, kids, at, mgr, lock, req, urls, opens, crashes>>

Crash ==
    /\ crashes < MaxCrashes
    /\ crashes' = crashes + 1
    /\ kids' = [n \in Starts |-> NoKid]
    /\ mgr' = [k \in {"php", "fb"} |-> NoCmd]
    /\ lock' = {}
    /\ req' = [p \in Procs |-> Idle]
    /\ UNCHANGED <<files, started, at, taken, urls, opens, upsets>>

Init ==
    /\ parts = [f \in Files |-> {}]
    /\ tmp = NoFile /\ dest = NoFile
    /\ marker = FALSE /\ shared = FALSE
    /\ copied = [r \in Roots |-> {}]
    /\ started = 0
    /\ kids = [n \in Starts |-> NoKid]
    /\ at = [n \in Starts |-> NoPort]
    /\ taken = {}
    /\ mgr = [k \in {"php", "fb"} |-> NoCmd]
    /\ lock = {}
    /\ req = [p \in Procs |-> Idle]
    /\ urls = {}
    /\ opens = 0 /\ upsets = 0 /\ crashes = 0

Handle(p) ==
    \/ Ensure(p) \/ Create(p) \/ Write(p) \/ Cut(p)
    \/ Rename(p) \/ Remove(p) \/ Mark(p)
    \/ Install(p) \/ AgentError(p)
    \/ Lock(p) \/ Spawn(p) \/ Poll(p)

Next ==
    \/ \E p \in Procs : (\E k \in Kinds, r \in Roots : Open(p, k, r)) \/ Handle(p)
    \/ \E n \in Starts : Bind(n) \/ Die(n)
    \/ \E t \in Ports : Take(t)
    \/ Crash

Spec == Init /\ [][Next]_vars

------------------------------------------------------------------------------
(* Properties.                                                             *)

TypeOK ==
    /\ parts \in [Files -> SUBSET Whole]
    /\ tmp \in Inodes \cup {NoFile} /\ dest \in Inodes \cup {NoFile}
    /\ marker \in BOOLEAN /\ shared \in BOOLEAN
    /\ copied \in [Roots -> SUBSET Whole]
    /\ started \in 0..MaxStarts
    /\ kids \in [Starts -> Kid]
    /\ at \in [Starts -> Ports \cup {NoPort}]
    /\ taken \subseteq Ports
    /\ mgr \in [{"php", "fb"} -> Fields]
    /\ lock \subseteq Procs
    /\ req \in [Procs -> Request]
    /\ urls \subseteq Url
    /\ opens \in 0..MaxOpens /\ upsets \in 0..MaxUpsets /\ crashes \in 0..MaxCrashes

(* The address a client was given leads, if a sidecar answers there, to    *)
(* the tool and the site it was given for, though the one process of the   *)
(* kind moves from site to site under other clients; until freePort finds  *)
(* the same port a second time, when the address may lead to another site. *)
(* Code: the reuse test and the ports of StartPHP, StartFilebrowser.       *)
UrlsKeepToSite ==
    \A a \in urls, n \in Starts :
        /\ kids[n].state = "listening" /\ at[n] = a.port
        /\ \A i \in 1..started : at[i] = a.port => i = n
        => kids[n].kind = a.kind /\ kids[n].root = a.root

Running(k) == {n \in Starts : kids[n].kind = k /\ kids[n].state \in {"starting", "listening"}}

(* No child is ever left behind: whatever dies, times out or is opened at  *)
(* once, there is one process of a kind at most.  Code: the kills of       *)
(* StartPHP and StartFilebrowser, and KillMode of the service.             *)
OneProcessPerKind == \A k \in {"php", "fb"} : Cardinality(Running(k)) <= 1

(* The binary that is run has been downloaded to its end.  A download that *)
(* fails, or a crash, only gets in the way of that when two requests were  *)
(* downloading at once.  Code: the rename of filebrowser.tmp, the missing  *)
(* lock of EnsureFilebrowserBin.                                           *)
BinaryWhole ==
    \/ dest = NoFile \/ parts[dest] = Whole \/ Writing(dest) # {}
    \/ shared /\ upsets + crashes > 0

(* The Adminer a site is given is whole, unless two requests downloaded it *)
(* at once, every address failed, or the API crashed: the file is written  *)
(* in place, and accepted for its size.  Code: EnsureAdminerPHP,           *)
(* installAdminer.                                                         *)
AdminerWhole ==
    \/ \A r \in Roots : copied[r] \in {{}, Whole}
    \/ shared \/ upsets >= Mirrors \/ crashes > 0
==============================================================================
