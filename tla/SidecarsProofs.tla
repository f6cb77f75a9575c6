---------------------------- MODULE SidecarsProofs ----------------------------
(***************************************************************************)
(* Sidecars for any number of requests, sites, ports and inodes, any       *)
(* deaths, ports taken, downloads cut and crashes.                         *)
(*                                                                         *)
(* Everything about the processes rests on the mutex: no field of the      *)
(* manager names the child a request is starting (StartOK), every child    *)
(* alive is the manager's or that of the request holding the mutex         *)
(* (Owned), and an address was given for a start that is over or that has  *)
(* stayed with its kind and its site (Behind), whatever starts freePort    *)
(* gave the same port later.                                               *)
(*                                                                         *)
(* Everything about the files (FilesInv) rests on who holds which file:    *)
(* while none was used by two, a request knows of the file it holds how    *)
(* much of it is written, and each address it tried in vain was an upset.  *)
(***************************************************************************)
EXTENDS Sidecars, FiniteSetTheorems, TLAPS

K == {"php", "fb"}

(* Whatever runs of start n is a tool of kind k for site r.                *)
Fits(n, k, r) == kids[n].state = "none" \/ (kids[n].kind = k /\ kids[n].root = r)

Starting(p) == req[p].pc \in {"spawn", "poll"}

LockOK ==
    /\ \A p \in Procs : Starting(p) => p \in lock
    /\ \A p \in lock : Starting(p)
    /\ \A p, q \in lock : p = q

StartOK(p) ==
    LET n == req[p].start
        k == req[p].kind
    IN  /\ n \in 1..started
        /\ ~mgr[k].has
        /\ \A j \in K : mgr[j].has => mgr[j].start # n
        /\ req[p].pc = "spawn" => kids[n].state = "none"
        /\ Fits(n, k, req[p].root)

MgrOK == \A k \in K : mgr[k].has => mgr[k].start \in 1..started /\ Fits(mgr[k].start, k, mgr[k].root)

AtOK == \A n \in 1..started : at[n] \in Ports

(* The start an address was given for; it is over, or the manager's.       *)
Behind(a, n) ==
    /\ at[n] = a.port
    /\ Fits(n, a.kind, a.root)
    /\ \A p \in lock : req[p].start # n

UrlsOK == \A a \in urls : \E n \in 1..started : Behind(a, n)

Owned(n) == (\E k \in K : mgr[k].has /\ mgr[k].start = n) \/ (\E p \in lock : req[p].start = n)

KidsOK == \A n \in Starts : kids[n].state # "none" => n \in 1..started /\ Owned(n)

RootsOK == \A p \in Procs : req[p].pc # "idle" => req[p].root \in Roots

ProcessInv ==
    /\ TypeOK
    /\ RootsOK /\ LockOK /\ MgrOK /\ AtOK /\ UrlsOK /\ KidsOK
    /\ \A p \in lock : StartOK(p)

------------------------------------------------------------------------------
(* Types.                                                                  *)

LEMMA NothingTyped ==
    ASSUME SidecarsAssumption
    PROVE  Idle \in Request /\ NoKid \in Kid /\ NoCmd \in Fields
  BY DEF SidecarsAssumption, Idle, Request, PCs, NoKid, Kid, NoCmd, Fields

(* The steps of a request on the files alone.                              *)
FileStep(p) ==
    \/ Ensure(p) \/ Create(p) \/ Write(p) \/ Cut(p) \/ Rename(p) \/ Remove(p)
    \/ Mark(p) \/ Install(p) \/ AgentError(p)

(* What such a step makes of the request.                                  *)
Moved(p) ==
    /\ req' \in [Procs -> Request]
    /\ \A q \in Procs \ {p} : req'[q] = req[q]
    /\ req'[p].pc \notin {"spawn", "poll"}
    /\ req'[p].pc # "idle" => req'[p].root = req[p].root /\ req[p].pc # "idle"

LEMMA GotoMoves ==
    ASSUME req \in [Procs -> Request], NEW p \in Procs, req[p].pc # "idle",
           NEW pc \in PCs \ {"spawn", "poll"}, Goto(p, pc)
    PROVE  Moved(p) /\ req'[p].kind = req[p].kind
  <1>1. req[p] \in Request /\ req' = [req EXCEPT ![p] = [req[p] EXCEPT !.pc = pc]]
    BY DEF Goto
  <1>2. [req[p] EXCEPT !.pc = pc] \in Request
    BY <1>1 DEF Request
  <1>3. req' \in [Procs -> Request] /\ \A q \in Procs \ {p} : req'[q] = req[q]
    BY <1>1, <1>2
  <1>4. req'[p] = [req[p] EXCEPT !.pc = pc]
    BY <1>1
  <1>5. req'[p].pc = pc /\ req'[p].root = req[p].root /\ req'[p].kind = req[p].kind
    BY <1>1, <1>4 DEF Request
  <1> QED BY <1>3, <1>5 DEF Moved

LEMMA GoesMoves ==
    ASSUME req \in [Procs -> Request], NEW p \in Procs, req[p].pc # "idle",
           NEW pc \in PCs \ {"spawn", "poll"}, NEW f \in Files \cup {NoFile},
           NEW t \in 0..(Mirrors - 1),
           req' = [req EXCEPT ![p] = [req[p] EXCEPT !.pc = pc, !.file = f, !.tries = t]]
    PROVE  Moved(p)
  <1> DEFINE x == [req[p] EXCEPT !.pc = pc, !.file = f, !.tries = t]
  <1>1. x \in Request /\ x.pc = pc /\ x.root = req[p].root
    BY DEF Request
  <1> HIDE DEF x
  <1>2. req' = [req EXCEPT ![p] = x]
    BY DEF x
  <1> QED BY <1>1, <1>2 DEF Moved

LEMMA EndMoves ==
    ASSUME SidecarsAssumption, req \in [Procs -> Request], NEW p \in Procs, End(p)
    PROVE  Moved(p) /\ req'[p] = Idle
  BY NothingTyped DEF End, Moved, Idle

LEMMA FileStepMoves ==
    ASSUME SidecarsAssumption, ProcessInv, NEW p \in Procs, FileStep(p)
    PROVE  /\ Moved(p) /\ ~Starting(p)
           /\ UNCHANGED <<procs, urls, opens, crashes>>
  <1>0. req \in [Procs -> Request] /\ req[p] \in Request
    BY DEF ProcessInv, TypeOK
  <1>1. ~Starting(p) /\ req[p].pc # "idle" /\ UNCHANGED <<procs, urls, opens, crashes>>
    BY DEF FileStep, Ensure, Create, Write, Cut, Rename, Remove, Mark, Install, AgentError,
       Starting
  <1>2. /\ req[p].file \in Files \cup {NoFile} /\ req[p].tries \in 0..(Mirrors - 1)
        /\ 0 \in 0..(Mirrors - 1)
    BY <1>0 DEF Request, SidecarsAssumption
  <1>3. Moved(p)
    <2>1. CASE Ensure(p)
      <3>1. PICK pc \in PCs \ {"spawn", "poll"} : Goto(p, pc)
        BY <2>1 DEF Ensure, PCs
      <3> QED BY <1>0, <1>1, <3>1, GotoMoves
    <2>2. CASE Create(p)
      <3>1. PICK f \in Files : req' = [req EXCEPT ![p].pc = "head", ![p].file = f]
        BY <2>2 DEF Create
      <3>2. req' = [req EXCEPT ![p] = [req[p] EXCEPT !.pc = "head", !.file = f,
                                                      !.tries = req[p].tries]]
        BY <1>0, <3>1 DEF Request
      <3>3. "head" \in PCs \ {"spawn", "poll"}
        BY DEF PCs
      <3> QED BY <1>0, <1>1, <1>2, <3>2, <3>3, GoesMoves
    <2>3. CASE Write(p)
      <3>1. PICK pc \in PCs \ {"spawn", "poll"} : Goto(p, pc)
        BY <2>3 DEF Write, Downloaded, PCs
      <3> QED BY <1>0, <1>1, <3>1, GotoMoves
    <2>4. CASE Cut(p)
      <3>1. CASE End(p)
        BY <1>0, <3>1, EndMoves
      <3>2. CASE ~End(p)
        <4>1. /\ req[p].tries + 1 < Mirrors
              /\ req' = [req EXCEPT ![p].pc = "create", ![p].file = NoFile, ![p].tries = @ + 1]
          BY <2>4, <3>2 DEF Cut
        <4>2. PICK t \in 0..(Mirrors - 1) : t = req[p].tries + 1
          BY <1>2, <4>1 DEF SidecarsAssumption
        <4>3. req' = [req EXCEPT ![p] = [req[p] EXCEPT !.pc = "create", !.file = NoFile,
                                                        !.tries = t]]
          BY <1>0, <4>1, <4>2 DEF Request
        <4>4. "create" \in PCs \ {"spawn", "poll"}
          BY DEF PCs
        <4> QED BY <1>0, <1>1, <4>3, <4>4, GoesMoves
      <3> QED BY <3>1, <3>2
    <2>5. CASE Rename(p)
      <3>1. CASE tmp # NoFile
        <4>1. req' = [req EXCEPT ![p].pc = "mark", ![p].file = NoFile]
          BY <2>5, <3>1 DEF Rename
        <4>2. req' = [req EXCEPT ![p] = [req[p] EXCEPT !.pc = "mark", !.file = NoFile,
                                                        !.tries = req[p].tries]]
          BY <1>0, <4>1 DEF Request
        <4>3. "mark" \in PCs \ {"spawn", "poll"}
          BY DEF PCs
        <4> QED BY <1>0, <1>1, <1>2, <4>2, <4>3, GoesMoves
      <3>2. CASE tmp = NoFile
        <4>1. Goto(p, "remove") \/ End(p)
          BY <2>5, <3>2 DEF Rename
        <4>2. "remove" \in PCs \ {"spawn", "poll"}
          BY DEF PCs
        <4> QED BY <1>0, <1>1, <4>1, <4>2, GotoMoves, EndMoves
      <3> QED BY <3>1, <3>2
    <2>6. CASE Remove(p)
      <3>1. Goto(p, "again") /\ "again" \in PCs \ {"spawn", "poll"}
        BY <2>6 DEF Remove, PCs
      <3> QED BY <1>0, <1>1, <3>1, GotoMoves
    <2>7. CASE Mark(p)
      <3>1. Goto(p, "lock") /\ "lock" \in PCs \ {"spawn", "poll"}
        BY <2>7 DEF Mark, PCs
      <3> QED BY <1>0, <1>1, <3>1, GotoMoves
    <2>8. CASE Install(p)
      <3>1. req' = [req EXCEPT ![p].pc = "lock", ![p].file = NoFile, ![p].tries = 0]
        BY <2>8 DEF Install
      <3>2. req' = [req EXCEPT ![p] = [req[p] EXCEPT !.pc = "lock", !.file = NoFile,
                                                      !.tries = 0]]
        BY <3>1
      <3>3. "lock" \in PCs \ {"spawn", "poll"}
        BY DEF PCs
      <3> QED BY <1>0, <1>1, <1>2, <3>2, <3>3, GoesMoves
    <2>9. CASE AgentError(p)
      BY <1>0, <2>9, EndMoves DEF AgentError
    <2> QED BY <2>1, <2>2, <2>3, <2>4, <2>5, <2>6, <2>7, <2>8, <2>9 DEF FileStep
  <1> QED BY <1>1, <1>3

LEMMA FileStepTyped ==
    ASSUME SidecarsAssumption, ProcessInv, NEW p \in Procs, FileStep(p)
    PROVE  TypeOK'
  <1>0. TypeOK /\ req[p] \in Request /\ {"head", "tail"} \subseteq Whole
    BY DEF ProcessInv, TypeOK, Whole
  <1>1. /\ Moved(p) /\ UNCHANGED <<started, kids, at, taken, mgr, lock, urls, opens, crashes>>
        /\ req[p].kind \in {"php", "fb"} /\ req[p].file \in Files \cup {NoFile}
    BY <1>0, FileStepMoves DEF procs, Request
  <1>2. upsets' \in 0..MaxUpsets
    BY <1>0 DEF TypeOK, FileStep, Ensure, Create, Write, Cut, Rename, Remove, Mark, Install,
       AgentError, SidecarsAssumption
  <1>3. /\ parts' \in [Files -> SUBSET Whole] /\ copied' \in [Roots -> SUBSET Whole]
        /\ tmp' \in Inodes \cup {NoFile} /\ dest' \in Inodes \cup {NoFile}
        /\ marker' \in BOOLEAN /\ shared' \in BOOLEAN
    <2>1. CASE Ensure(p)
      BY <1>0, <2>1 DEF Ensure, TypeOK
    <2>2. CASE Create(p)
      BY <1>0, <1>1, <2>2 DEF Create, TypeOK
    <2>3. CASE Write(p)
      <3>1. parts' = [parts EXCEPT ![req[p].file] = parts[req[p].file] \cup {req[p].pc}]
        BY <2>3 DEF Write
      <3>2. req[p].pc \in Whole /\ parts \in [Files -> SUBSET Whole]
        BY <1>0, <2>3 DEF Write, TypeOK
      <3>3. ASSUME req[p].file \in Files
            PROVE  parts[req[p].file] \cup {req[p].pc} \in SUBSET Whole
        BY <3>2, <3>3
      <3>4. parts' \in [Files -> SUBSET Whole]
        BY <3>1, <3>2, <3>3
      <3> QED BY <1>0, <2>3, <3>4 DEF Write, TypeOK
    <2>4. CASE Cut(p) \/ AgentError(p)
      BY <1>0, <2>4 DEF Cut, AgentError, TypeOK, files
    <2>5. CASE Rename(p) \/ Remove(p) \/ Mark(p)
      BY <1>0, <2>5 DEF Rename, Remove, Mark, TypeOK
    <2>6. CASE Install(p)
      <3>1. parts["adminer"] \in SUBSET Whole
        BY <1>0 DEF TypeOK, Files
      <3> QED BY <1>0, <2>6, <3>1 DEF Install, TypeOK
    <2> QED BY <2>1, <2>2, <2>3, <2>4, <2>5, <2>6 DEF FileStep
  <1> QED BY <1>0, <1>1, <1>2, <1>3 DEF TypeOK, Moved

------------------------------------------------------------------------------
(* The processes.                                                          *)

(* A request that starts nothing before the step nor after it.             *)
LEMMA AsideKeeps ==
    ASSUME ProcessInv, TypeOK', NEW p \in Procs, ~Starting(p),
           \A q \in Procs \ {p} : req'[q] = req[q],
           req'[p].pc \notin {"spawn", "poll"},
           req'[p].pc # "idle" => req'[p].root \in Roots,
           UNCHANGED <<procs, urls>>
    PROVE  ProcessInv'
  <1>1. RootsOK' /\ LockOK'
    BY DEF ProcessInv, RootsOK, LockOK, Starting, procs, TypeOK
  <1>2. \A q \in lock : q \in Procs \ {p} /\ req'[q] = req[q]
    BY DEF ProcessInv, LockOK, TypeOK
  <1>3. MgrOK' /\ AtOK'
    BY DEF ProcessInv, MgrOK, AtOK, Fits, procs
  <1>6. UrlsOK'
    BY <1>2 DEF ProcessInv, UrlsOK, Behind, Fits, procs
  <1>4. KidsOK'
    BY <1>2 DEF ProcessInv, KidsOK, Owned, procs
  <1>5. ASSUME NEW q \in lock' PROVE StartOK(q)'
    BY <1>2, <1>5 DEF ProcessInv, StartOK, Fits, procs
  <1> QED BY <1>1, <1>3, <1>4, <1>5, <1>6 DEF ProcessInv

LEMMA ActFiles ==
    ASSUME SidecarsAssumption, ProcessInv, NEW p \in Procs, FileStep(p)
    PROVE  ProcessInv'
  <1>1. Moved(p) /\ ~Starting(p) /\ UNCHANGED <<procs, urls>> /\ TypeOK'
    BY FileStepMoves, FileStepTyped
  <1>2. req'[p].pc # "idle" => req'[p].root \in Roots
    BY <1>1 DEF Moved, ProcessInv, RootsOK
  <1> QED BY <1>1, <1>2, AsideKeeps DEF Moved

LEMMA ActOpen ==
    ASSUME SidecarsAssumption, ProcessInv,
           NEW p \in Procs, NEW k \in Kinds, NEW r \in Roots, Open(p, k, r)
    PROVE  ProcessInv'
  <1> DEFINE x == [Idle EXCEPT !.pc = "ensure", !.kind = k, !.root = r]
  <1>1. x \in Request /\ x.pc = "ensure" /\ x.root = r
    BY NothingTyped DEF Idle, Request, PCs, SidecarsAssumption
  <1> HIDE DEF x
  <1>2. req' = [req EXCEPT ![p] = x] /\ req[p].pc = "idle"
    BY DEF Open, x
  <1>3. /\ req' \in [Procs -> Request] /\ req'[p] = x
        /\ \A q \in Procs \ {p} : req'[q] = req[q]
    BY <1>1, <1>2 DEF ProcessInv, TypeOK
  <1>4. TypeOK'
    BY <1>3 DEF Open, ProcessInv, TypeOK, files, procs, SidecarsAssumption
  <1>5. UNCHANGED <<procs, urls>>
    BY DEF Open
  <1> QED BY <1>1, <1>2, <1>3, <1>4, <1>5, AsideKeeps DEF Starting

(* A child gets its port, exits, or nothing happens to it.                 *)
LEMMA KidsKeep ==
    ASSUME SidecarsAssumption, ProcessInv, TypeOK',
           UNCHANGED <<started, at, mgr, lock, req, urls>>,
           \A n \in Starts : \/ kids'[n] = kids[n]
                            \/ kids'[n].state = "none"
                            \/ /\ kids[n].state # "none"
                               /\ kids'[n].kind = kids[n].kind /\ kids'[n].root = kids[n].root
    PROVE  ProcessInv'
  <1>0. \A n \in 1..started : n \in Starts
    BY DEF ProcessInv, TypeOK, Starts, SidecarsAssumption
  <1>1. RootsOK' /\ LockOK'
    BY DEF ProcessInv, RootsOK, LockOK, Starting
  <1>2. ASSUME NEW n \in Starts, NEW k, NEW r, Fits(n, k, r)
        PROVE  kids'[n].state = "none" \/ (kids'[n].kind = k /\ kids'[n].root = r)
    BY <1>2 DEF Fits
  <1>3. MgrOK' /\ AtOK'
    BY <1>0, <1>2 DEF ProcessInv, MgrOK, AtOK, Fits
  <1>6. UrlsOK'
    BY <1>0, <1>2 DEF ProcessInv, UrlsOK, Behind, Fits
  <1>4. KidsOK'
    BY DEF ProcessInv, KidsOK, Owned
  <1>5. ASSUME NEW q \in lock' PROVE StartOK(q)'
    <2>1. StartOK(q) /\ req[q].start \in Starts
      BY <1>0, <1>5 DEF ProcessInv, StartOK
    <2>2. Fits(req[q].start, req[q].kind, req[q].root)'
      BY <1>2, <2>1 DEF StartOK, Fits
    <2>3. req[q].pc = "spawn" => kids'[req[q].start].state = "none"
      BY <2>1 DEF StartOK
    <2> QED BY <2>1, <2>2, <2>3 DEF StartOK
  <1> QED BY <1>1, <1>3, <1>4, <1>5, <1>6 DEF ProcessInv

LEMMA ActKids ==
    ASSUME SidecarsAssumption, ProcessInv, NEW n \in Starts, Bind(n) \/ Die(n)
    PROVE  ProcessInv'
  <1>0. TypeOK /\ kids[n] \in Kid /\ NoKid \in Kid /\ NoKid.state = "none"
    BY NothingTyped DEF ProcessInv, TypeOK, NoKid
  <1>1. UNCHANGED <<files, started, at, taken, mgr, lock, req, urls, opens, crashes>>
    BY DEF Bind, Die
  <1>2. upsets' \in 0..MaxUpsets
    BY <1>0 DEF Bind, Die, TypeOK, SidecarsAssumption
  <1>3. PICK x \in Kid : /\ kids' = [kids EXCEPT ![n] = x]
                         /\ \/ x = kids[n] \/ x.state = "none"
                            \/ /\ kids[n].state # "none"
                               /\ x.kind = kids[n].kind /\ x.root = kids[n].root
    <2>1. CASE Bind(n)
      <3> DEFINE y == [kids[n] EXCEPT !.state = "listening"]
      <3>1. y \in Kid /\ y.kind = kids[n].kind /\ y.root = kids[n].root
        BY <1>0 DEF Kid
      <3>2. kids' = [kids EXCEPT ![n] = NoKid] \/ kids' = [kids EXCEPT ![n] = y]
        BY <2>1 DEF Bind
      <3>3. kids[n].state # "none"
        BY <2>1 DEF Bind
      <3> HIDE DEF y
      <3> QED BY <1>0, <3>1, <3>2, <3>3
    <2>2. CASE Die(n)
      BY <1>0, <2>2 DEF Die
    <2> QED BY <2>1, <2>2
  <1>4. kids' \in [Starts -> Kid] /\ \A m \in Starts : m = n \/ kids'[m] = kids[m]
    BY <1>0, <1>3 DEF TypeOK
  <1>5. kids'[n] = x
    BY <1>0, <1>3 DEF TypeOK
  <1>6. TypeOK'
    BY <1>0, <1>1, <1>2, <1>4 DEF TypeOK, files
  <1> QED BY <1>1, <1>3, <1>4, <1>5, <1>6, KidsKeep

LEMMA ActTake ==
    ASSUME SidecarsAssumption, ProcessInv, NEW t \in Ports, Take(t)
    PROVE  ProcessInv'
  <1>1. UNCHANGED <<files, started, kids, at, mgr, lock, req, urls, opens, crashes>>
    BY DEF Take
  <1>2. TypeOK'
    BY <1>1 DEF Take, ProcessInv, TypeOK, files, SidecarsAssumption
  <1> QED BY <1>1, <1>2, KidsKeep

(* A request that ends and leaves the mutex free.                          *)
LEMMA EndFrees ==
    ASSUME SidecarsAssumption, ProcessInv, NEW p \in Procs, End(p), lock \subseteq {p}, lock' = {}
    PROVE  req' \in [Procs -> Request] /\ RootsOK' /\ LockOK'
  <1>1. Moved(p) /\ req'[p] = Idle /\ Idle.pc = "idle"
    BY EndMoves DEF ProcessInv, TypeOK, Idle
  <1>2. \A q \in Procs \ {p} : req'[q] = req[q] /\ ~Starting(q)
    BY <1>1 DEF Moved, ProcessInv, LockOK
  <1> QED BY <1>1, <1>2 DEF Moved, ProcessInv, RootsOK, LockOK, Starting

(* What a client is told.                                                  *)
LEMMA AnswerTyped ==
    ASSUME SidecarsAssumption, ProcessInv, NEW p \in Procs, req[p].pc # "idle",
           NEW t \in Ports, Answer(p, t)
    PROVE  /\ End(p) /\ urls' \subseteq Url
           /\ \A a \in urls' : \/ a \in urls
                               \/ a.port = t /\ a.kind = req[p].kind /\ a.root = req[p].root
  <1>1. req[p].kind \in {"php", "fb"} /\ req[p].root \in Roots /\ urls \subseteq Url
    BY DEF ProcessInv, TypeOK, RootsOK, Request
  <1>2. [kind |-> req[p].kind, root |-> req[p].root, port |-> t] \in Url
    BY <1>1 DEF Url
  <1> QED BY <1>1, <1>2 DEF Answer

LEMMA ActReuse ==
    ASSUME SidecarsAssumption, ProcessInv, NEW p \in Procs, req[p].pc = "lock", lock = {},
           mgr[req[p].kind].has, mgr[req[p].kind].root = req[p].root,
           Reuse(p, mgr[req[p].kind]),
           UNCHANGED <<files, taken, opens, upsets, crashes>>
    PROVE  ProcessInv'
  <1> DEFINE k == req[p].kind
             n == mgr[k].start
  <1>1. TypeOK /\ k \in K
    BY DEF ProcessInv, TypeOK, Request, K
  <1>2. n \in 1..started /\ at[n] \in Ports /\ Fits(n, k, req[p].root)
    BY <1>1 DEF ProcessInv, MgrOK, AtOK
  <1>3. Answer(p, at[n]) /\ UNCHANGED <<started, kids, at, mgr, lock>>
    BY DEF Reuse
  <1>4. /\ End(p) /\ urls' \subseteq Url
        /\ \A a \in urls' : a \in urls \/ (a.port = at[n] /\ a.kind = k /\ a.root = req[p].root)
    BY <1>2, <1>3, AnswerTyped
  <1>5. req' \in [Procs -> Request] /\ RootsOK' /\ LockOK'
    BY <1>3, <1>4, EndFrees
  <1>6. TypeOK'
    BY <1>1, <1>3, <1>4, <1>5 DEF TypeOK, files
  <1>7. UrlsOK'
    <2> SUFFICES ASSUME NEW a \in urls'
                 PROVE  \E i \in 1..started : at[i] = a.port /\ Fits(i, a.kind, a.root)
      BY <1>3 DEF UrlsOK, Behind, Fits
    <2>1. CASE a \in urls
      BY <2>1 DEF ProcessInv, UrlsOK, Behind
    <2>2. CASE a \notin urls
      BY <1>2, <1>4, <2>2
    <2> QED BY <2>1, <2>2
  <1>8. MgrOK' /\ AtOK' /\ KidsOK'
    BY <1>3 DEF ProcessInv, MgrOK, AtOK, Fits, KidsOK, Owned
  <1> QED BY <1>3, <1>5, <1>6, <1>7, <1>8 DEF ProcessInv

LEMMA ActReplace ==
    ASSUME SidecarsAssumption, ProcessInv, NEW p \in Procs, req[p].pc = "lock", lock = {},
           Replace(p, mgr[req[p].kind]),
           UNCHANGED <<files, taken, opens, upsets, crashes>>
    PROVE  ProcessInv'
  <1> DEFINE k == req[p].kind
             m == mgr[k]
  <1>0. TypeOK /\ req[p] \in Request /\ k \in K /\ m \in Fields /\ req[p].root \in Roots
    BY DEF ProcessInv, TypeOK, Request, K, RootsOK
  <1>1. NoKid \in Kid /\ NoCmd \in Fields /\ NoKid.state = "none" /\ ~NoCmd.has
    BY NothingTyped DEF NoKid, NoCmd
  <1>2. /\ kids' = IF m.has THEN [kids EXCEPT ![m.start] = NoKid] ELSE kids
        /\ mgr' = [mgr EXCEPT ![k] = NoCmd] /\ urls' = urls
        /\ FreePort(p, kids')
    BY DEF Replace
  <1>3. /\ kids' \in [Starts -> Kid] /\ mgr' \in [K -> Fields] /\ mgr'[k] = NoCmd
        /\ \A j \in K \ {k} : mgr'[j] = mgr[j]
    BY <1>0, <1>1, <1>2 DEF TypeOK, K
  <1>4. /\ \A n \in Starts : kids'[n] = kids[n] \/ kids'[n].state = "none"
        /\ m.has /\ m.start \in Starts => kids'[m.start].state = "none"
    BY <1>0, <1>1, <1>2 DEF TypeOK
  <1>5. started \in 0..MaxStarts /\ \A n \in 1..started : n \in Starts
    BY <1>0 DEF TypeOK, Starts, SidecarsAssumption
  <1>6. \/ /\ started < MaxStarts
           /\ \E t \in Ports : at' = [at EXCEPT ![started + 1] = t]
           /\ started' = started + 1 /\ lock' = {p}
           /\ req' = [req EXCEPT ![p].pc = "spawn", ![p].start = started + 1]
        \/ End(p) /\ UNCHANGED <<started, at, lock>>
    BY <1>2 DEF FreePort
  <1>7. started' \in {started, started + 1} /\ \A n \in 1..started : n \in 1..started' /\ at'[n] = at[n]
    BY <1>0, <1>5, <1>6 DEF TypeOK
  <1>8. MgrOK'
    BY <1>1, <1>3, <1>4, <1>5, <1>7 DEF ProcessInv, MgrOK, Fits
  <1>9. \A a \in urls' : \E n \in 1..started : at'[n] = a.port /\ Fits(n, a.kind, a.root)'
    BY <1>2, <1>4, <1>5, <1>7 DEF ProcessInv, UrlsOK, Behind, Fits
  <1>10. KidsOK'
    <2> SUFFICES ASSUME NEW n \in Starts, kids'[n].state # "none"
                 PROVE  n \in 1..started' /\ \E j \in K : mgr'[j].has /\ mgr'[j].start = n
      BY DEF KidsOK, Owned
    <2>1. kids[n].state # "none" /\ n \in 1..started
      BY <1>4 DEF ProcessInv, KidsOK
    <2>2. PICK j \in K : mgr[j].has /\ mgr[j].start = n
      BY <2>1 DEF ProcessInv, KidsOK, Owned
    <2>3. j # k
      BY <1>4, <2>2
    <2> QED BY <1>3, <1>7, <2>1, <2>2, <2>3
  <1>11. CASE End(p) /\ UNCHANGED <<started, at, lock>>
    <2>1. req' \in [Procs -> Request] /\ RootsOK' /\ LockOK'
      BY <1>11, EndFrees
    <2>2. TypeOK'
      BY <1>0, <1>2, <1>3, <1>11, <2>1 DEF TypeOK, K, files
    <2>3. AtOK' /\ UrlsOK'
      BY <1>9, <1>11 DEF ProcessInv, AtOK, UrlsOK, Behind
    <2> QED BY <1>8, <1>10, <1>11, <2>1, <2>2, <2>3 DEF ProcessInv
  <1>12. ASSUME NEW t \in Ports, started < MaxStarts, started' = started + 1, lock' = {p},
                at' = [at EXCEPT ![started + 1] = t],
                req' = [req EXCEPT ![p].pc = "spawn", ![p].start = started + 1]
         PROVE  ProcessInv'
    <2> DEFINE s == started + 1
               x == [req[p] EXCEPT !.pc = "spawn", !.start = s]
    <2>1. s \in 0..MaxStarts /\ s \in 1..started' /\ s \in Starts /\ s \notin 1..started
      BY <1>5, <1>12 DEF SidecarsAssumption, Starts
    <2>2. /\ x \in Request /\ x.pc = "spawn" /\ x.start = s
          /\ x.kind = k /\ x.root = req[p].root
      BY <1>0, <2>1 DEF Request, PCs
    <2>3. req' = [req EXCEPT ![p] = x] /\ at' = [at EXCEPT ![s] = t]
      BY <1>12
    <2>4. started' = s
      BY <1>12
    <2> HIDE DEF x, s
    <2>5. /\ req' \in [Procs -> Request] /\ req'[p] = x
          /\ \A q \in Procs \ {p} : req'[q] = req[q]
      BY <1>0, <2>2, <2>3 DEF TypeOK
    <2>6. at' \in [Starts -> Ports \cup {NoPort}] /\ at'[s] = t
      BY <1>0, <2>1, <2>3 DEF TypeOK
    <2>7. TypeOK'
      BY <1>0, <1>2, <1>3, <1>12, <2>1, <2>4, <2>5, <2>6 DEF TypeOK, K, files
    <2>8. LockOK' /\ RootsOK'
      BY <1>0, <1>12, <2>2, <2>5 DEF ProcessInv, LockOK, RootsOK, Starting
    <2>9. AtOK'
      <3>1. \A n \in 1..started' : n \in 1..started \/ n = s
        BY <1>5, <1>12, <2>4
      <3> QED BY <1>7, <2>6, <3>1 DEF ProcessInv, AtOK
    <2>10. UrlsOK'
      <3>1. \A n \in 1..started : \A q \in lock' : req'[q].start # n
        BY <1>12, <2>1, <2>2, <2>5
      <3> QED BY <1>7, <1>9, <3>1 DEF UrlsOK, Behind
    <2>11. StartOK(p)'
      <3>1. \A j \in K : mgr'[j].has => mgr'[j].start # s
        BY <1>1, <1>3, <2>1 DEF ProcessInv, MgrOK
      <3>2. kids'[s].state = "none"
        BY <1>4, <2>1 DEF ProcessInv, KidsOK
      <3> QED BY <1>1, <1>3, <2>1, <2>2, <2>5, <3>1, <3>2 DEF StartOK, Fits
    <2> QED BY <1>8, <1>10, <1>12, <2>7, <2>8, <2>9, <2>10, <2>11 DEF ProcessInv
  <1> QED BY <1>6, <1>11, <1>12

LEMMA ActLock ==
    ASSUME SidecarsAssumption, ProcessInv, NEW p \in Procs, Lock(p)
    PROVE  ProcessInv'
  BY ActReuse, ActReplace DEF Lock

LEMMA ActCrash ==
    ASSUME SidecarsAssumption, ProcessInv, Crash
    PROVE  ProcessInv'
  <1>1. /\ TypeOK /\ Idle \in Request /\ Idle.pc = "idle" /\ NoKid \in Kid /\ NoKid.state = "none"
        /\ NoCmd \in Fields /\ ~NoCmd.has
    BY NothingTyped DEF ProcessInv, TypeOK, Idle, NoKid, NoCmd
  <1>2. /\ kids' = [n \in Starts |-> NoKid] /\ mgr' = [k \in K |-> NoCmd] /\ lock' = {}
        /\ req' = [p \in Procs |-> Idle] /\ crashes' \in 0..MaxCrashes
        /\ UNCHANGED <<files, taken, started, at, urls, opens, upsets>>
    BY <1>1 DEF Crash, TypeOK, K, SidecarsAssumption
  <1>3. TypeOK'
    BY <1>1, <1>2 DEF TypeOK, K, files
  <1>4. RootsOK' /\ LockOK' /\ MgrOK' /\ AtOK' /\ KidsOK'
    BY <1>1, <1>2 DEF ProcessInv, RootsOK, LockOK, MgrOK, AtOK, KidsOK, Starting
  <1>5. UrlsOK'
    <2>1. \A n \in 1..started : n \in Starts
      BY <1>1 DEF TypeOK, Starts, SidecarsAssumption
    <2> QED BY <1>1, <1>2, <2>1 DEF ProcessInv, UrlsOK, Behind, Fits
  <1> QED BY <1>2, <1>3, <1>4, <1>5 DEF ProcessInv

LEMMA ActPoll ==
    ASSUME SidecarsAssumption, ProcessInv, NEW p \in Procs, Poll(p)
    PROVE  ProcessInv'
  <1> DEFINE k == req[p].kind
             r == req[p].root
             n == req[p].start
             cmd == [has |-> TRUE, start |-> n, root |-> r]
  <1>0. /\ TypeOK /\ req[p] \in Request /\ k \in K /\ r \in Roots /\ n \in 0..MaxStarts
        /\ lock = {p} /\ lock' = {} /\ req[p].pc # "idle"
        /\ UNCHANGED <<files, taken, started, at, opens, upsets, crashes>>
    BY DEF Poll, ProcessInv, TypeOK, Request, K, RootsOK, LockOK, Starting
  <1>1. StartOK(p) /\ n \in 1..started /\ n \in Starts
    BY <1>0 DEF ProcessInv, StartOK, TypeOK, Starts, SidecarsAssumption
  <1>4. at[n] \in Ports
    BY <1>1 DEF ProcessInv, AtOK
  <1>2. CASE Answers(at[n])
    <2>1. Answer(p, at[n]) /\ UNCHANGED kids /\ mgr' = [mgr EXCEPT ![k] = cmd]
      BY <1>2 DEF Poll, Keep
    <2>2. /\ End(p) /\ urls' \subseteq Url
          /\ \A a \in urls' : a \in urls \/ (a.port = at[n] /\ a.kind = k /\ a.root = r)
      BY <1>0, <1>4, <2>1, AnswerTyped
    <2>3. req' \in [Procs -> Request] /\ RootsOK' /\ LockOK'
      BY <1>0, <2>2, EndFrees
    <2>4. cmd \in Fields /\ cmd.start = n /\ cmd.root = r /\ cmd.has
      BY <1>0 DEF Fields
    <2> HIDE DEF cmd
    <2>5. /\ mgr' \in [K -> Fields] /\ mgr'[k] = cmd
          /\ \A j \in K \ {k} : mgr'[j] = mgr[j]
      BY <1>0, <2>1, <2>4 DEF TypeOK, K
    <2>6. TypeOK'
      BY <1>0, <2>1, <2>2, <2>3, <2>5 DEF TypeOK, K, files
    <2>7. Fits(n, k, r)
      BY <1>1 DEF StartOK
    <2>8. UrlsOK'
      <3> SUFFICES ASSUME NEW a \in urls'
                   PROVE  \E i \in 1..started : at[i] = a.port /\ Fits(i, a.kind, a.root)
        BY <1>0, <2>1 DEF UrlsOK, Behind, Fits
      <3>1. CASE a \in urls
        BY <3>1 DEF ProcessInv, UrlsOK, Behind
      <3>2. CASE a \notin urls
        BY <1>1, <2>2, <2>7, <3>2
      <3> QED BY <3>1, <3>2
    <2>9. MgrOK' /\ AtOK'
      BY <1>0, <1>1, <2>1, <2>4, <2>5, <2>7 DEF ProcessInv, MgrOK, AtOK, Fits
    <2>10. KidsOK'
      <3> SUFFICES ASSUME NEW i \in Starts, kids'[i].state # "none"
                   PROVE  i \in 1..started' /\ \E j \in K : mgr'[j].has /\ mgr'[j].start = i
        BY DEF KidsOK, Owned
      <3>1. i \in 1..started /\ ((\E j \in K : mgr[j].has /\ mgr[j].start = i) \/ i = n)
        BY <1>0, <2>1 DEF ProcessInv, KidsOK, Owned
      <3>2. ~mgr[k].has
        BY <1>1 DEF StartOK
      <3> QED BY <1>0, <2>4, <2>5, <3>1, <3>2
    <2> QED BY <1>0, <2>3, <2>6, <2>8, <2>9, <2>10 DEF ProcessInv
  <1>3. CASE ~Answers(at[n])
    <2>1. kids' = [kids EXCEPT ![n] = NoKid] /\ End(p) /\ UNCHANGED <<mgr, urls>>
      BY <1>3 DEF Poll
    <2>2. NoKid \in Kid /\ NoKid.state = "none"
      BY NothingTyped DEF NoKid
    <2>3. /\ kids' \in [Starts -> Kid] /\ kids'[n].state = "none"
          /\ \A i \in Starts \ {n} : kids'[i] = kids[i]
      BY <1>0, <1>1, <2>1, <2>2 DEF TypeOK
    <2>4. req' \in [Procs -> Request] /\ RootsOK' /\ LockOK'
      BY <1>0, <2>1, EndFrees
    <2>5. TypeOK'
      BY <1>0, <2>1, <2>3, <2>4 DEF TypeOK, files
    <2>6. \A i \in 1..started : i \in Starts
      BY <1>0 DEF TypeOK, Starts, SidecarsAssumption
    <2>7. UrlsOK' /\ MgrOK' /\ AtOK'
      BY <1>0, <2>1, <2>3, <2>6 DEF ProcessInv, UrlsOK, Behind, MgrOK, AtOK, Fits
    <2>8. KidsOK'
      BY <1>0, <2>1, <2>3 DEF ProcessInv, KidsOK, Owned
    <2> QED BY <1>0, <2>4, <2>5, <2>7, <2>8 DEF ProcessInv
  <1> QED BY <1>2, <1>3

LEMMA ActSpawn ==
    ASSUME SidecarsAssumption, ProcessInv, NEW p \in Procs, Spawn(p)
    PROVE  ProcessInv'
  <1> DEFINE k == req[p].kind
             r == req[p].root
             n == req[p].start
             cmd == [has |-> TRUE, start |-> n, root |-> r]
             kid == [kind |-> k, root |-> r, state |-> "starting"]
  <1>0. /\ TypeOK /\ req[p] \in Request /\ k \in K /\ r \in Roots /\ n \in 0..MaxStarts
        /\ lock = {p} /\ req[p].pc = "spawn"
        /\ UNCHANGED <<files, taken, started, at, opens, upsets, crashes>>
    BY DEF Spawn, ProcessInv, TypeOK, Request, K, RootsOK, LockOK, Starting
  <1>1. StartOK(p) /\ n \in 1..started /\ n \in Starts /\ kids[n].state = "none"
    BY <1>0 DEF ProcessInv, StartOK, TypeOK, Starts, SidecarsAssumption
  <1>5. at[n] \in Ports /\ AtOK'
    BY <1>0, <1>1 DEF ProcessInv, AtOK
  <1>2. \A i \in 1..started : i \in Starts
    BY <1>0 DEF TypeOK, Starts, SidecarsAssumption
  <1>3. CASE End(p) /\ lock' = {} /\ UNCHANGED <<kids, mgr, urls>>
    <2>1. req' \in [Procs -> Request] /\ RootsOK' /\ LockOK'
      BY <1>0, <1>3, EndFrees
    <2>2. TypeOK'
      BY <1>0, <1>3, <2>1 DEF TypeOK, files
    <2>3. UrlsOK' /\ MgrOK'
      BY <1>0, <1>3 DEF ProcessInv, UrlsOK, Behind, MgrOK, Fits
    <2>4. KidsOK'
      BY <1>0, <1>1, <1>3 DEF ProcessInv, KidsOK, Owned
    <2> QED BY <1>3, <1>5, <2>1, <2>2, <2>3, <2>4 DEF ProcessInv
  <1>4. CASE /\ kids' = [kids EXCEPT ![n] = kid]
             /\ IF k = "php"
                THEN Keep(p) /\ Answer(p, at[n]) /\ lock' = {}
                ELSE Goto(p, "poll") /\ UNCHANGED <<mgr, urls, lock>>
    <2>1. kid \in Kid /\ kid.kind = k /\ kid.root = r /\ kid.state = "starting"
      BY <1>0 DEF Kid, K
    <2>2. kids' = [kids EXCEPT ![n] = kid]
      BY <1>4
    <2> HIDE DEF kid
    <2>3. /\ kids' \in [Starts -> Kid] /\ kids'[n] = kid
          /\ \A i \in Starts \ {n} : kids'[i] = kids[i]
      BY <1>0, <1>1, <2>1, <2>2 DEF TypeOK
    <2>6. ASSUME NEW a \in urls
          PROVE  \E i \in 1..started \ {n} : at[i] = a.port /\ Fits(i, a.kind, a.root)'
      BY <1>0, <1>2, <2>3 DEF ProcessInv, UrlsOK, Behind, Fits
    <2>4. CASE k = "php"
      <3>1. Answer(p, at[n]) /\ lock' = {} /\ mgr' = [mgr EXCEPT ![k] = cmd]
        BY <1>4, <2>4 DEF Keep
      <3>2. /\ End(p) /\ urls' \subseteq Url
            /\ \A a \in urls' : a \in urls \/ (a.port = at[n] /\ a.kind = k /\ a.root = r)
        BY <1>0, <1>5, <3>1, AnswerTyped
      <3>3. req' \in [Procs -> Request] /\ RootsOK' /\ LockOK'
        BY <1>0, <3>1, <3>2, EndFrees
      <3>4. cmd \in Fields /\ cmd.start = n /\ cmd.root = r /\ cmd.has
        BY <1>0 DEF Fields
      <3> HIDE DEF cmd
      <3>5. /\ mgr' \in [K -> Fields] /\ mgr'[k] = cmd
            /\ \A j \in K \ {k} : mgr'[j] = mgr[j]
        BY <1>0, <3>1, <3>4 DEF TypeOK, K
      <3>6. TypeOK'
        BY <1>0, <2>3, <3>1, <3>2, <3>3, <3>5 DEF TypeOK, K, files
      <3>7. UrlsOK'
        <4> SUFFICES ASSUME NEW a \in urls'
                     PROVE  \E i \in 1..started : at[i] = a.port /\ Fits(i, a.kind, a.root)'
          BY <1>0, <3>1 DEF UrlsOK, Behind
        <4>1. CASE a \in urls
          BY <2>6, <4>1
        <4>2. CASE a \notin urls
          BY <1>1, <2>1, <2>3, <3>2, <4>2 DEF Fits
        <4> QED BY <4>1, <4>2
      <3>8. MgrOK'
        <4>1. \A j \in K : mgr[j].has => /\ mgr[j].start \in 1..started /\ mgr[j].start # n
                                         /\ Fits(mgr[j].start, j, mgr[j].root)
          BY <1>1 DEF ProcessInv, MgrOK, StartOK
        <4> QED BY <1>0, <1>1, <1>2, <2>1, <2>3, <3>4, <3>5, <4>1 DEF MgrOK, Fits
      <3>9. KidsOK'
        <4> SUFFICES ASSUME NEW i \in Starts, kids'[i].state # "none"
                     PROVE  i \in 1..started' /\ \E j \in K : mgr'[j].has /\ mgr'[j].start = i
          BY DEF KidsOK, Owned
        <4>1. CASE i = n
          BY <1>0, <1>1, <3>4, <3>5, <4>1
        <4>2. CASE i # n
          <5>1. i \in 1..started /\ \E j \in K : mgr[j].has /\ mgr[j].start = i
            BY <1>0, <2>3, <4>2 DEF ProcessInv, KidsOK, Owned
          <5>2. ~mgr[k].has
            BY <1>1 DEF StartOK
          <5> QED BY <1>0, <3>5, <5>1, <5>2
        <4> QED BY <4>1, <4>2
      <3> QED BY <1>5, <3>1, <3>3, <3>6, <3>7, <3>8, <3>9 DEF ProcessInv
    <2>5. CASE k # "php"
      <3> DEFINE x == [req[p] EXCEPT !.pc = "poll"]
      <3>1. UNCHANGED <<mgr, urls, lock>> /\ req' = [req EXCEPT ![p] = x]
        BY <1>4, <2>5 DEF Goto
      <3>2. /\ x \in Request /\ x.pc = "poll" /\ x.kind = k /\ x.root = r /\ x.start = n
        BY <1>0 DEF Request, PCs
      <3> HIDE DEF x
      <3>3. /\ req' \in [Procs -> Request] /\ req'[p] = x
            /\ \A q \in Procs \ {p} : req'[q] = req[q]
        BY <1>0, <3>1, <3>2 DEF TypeOK
      <3>4. TypeOK'
        BY <1>0, <2>3, <3>1, <3>3 DEF TypeOK, files
      <3>5. LockOK' /\ RootsOK'
        BY <1>0, <3>1, <3>2, <3>3 DEF ProcessInv, LockOK, RootsOK, Starting
      <3>6. UrlsOK'
        <4>1. \A i \in 1..started \ {n} : \A q \in lock' : req'[q].start # i
          BY <1>0, <3>1, <3>2, <3>3
        <4> QED BY <1>0, <2>6, <3>1, <4>1 DEF UrlsOK, Behind
      <3>7. MgrOK'
        <4>1. \A j \in K : mgr[j].has => /\ mgr[j].start \in 1..started /\ mgr[j].start # n
                                         /\ Fits(mgr[j].start, j, mgr[j].root)
          BY <1>1 DEF ProcessInv, MgrOK, StartOK
        <4> QED BY <1>0, <1>2, <2>3, <3>1, <4>1 DEF MgrOK, Fits
      <3>8. KidsOK'
        <4> SUFFICES ASSUME NEW i \in Starts, kids'[i].state # "none"
                     PROVE  i \in 1..started' /\ Owned(i)'
          BY DEF KidsOK
        <4>1. CASE i = n
          BY <1>0, <1>1, <3>1, <3>2, <3>3, <4>1 DEF Owned
        <4>2. CASE i # n
          <5>1. i \in 1..started /\ \E j \in K : mgr[j].has /\ mgr[j].start = i
            BY <1>0, <2>3, <4>2 DEF ProcessInv, KidsOK, Owned
          <5> QED BY <1>0, <3>1, <5>1 DEF Owned
        <4> QED BY <4>1, <4>2
      <3>9. StartOK(p)'
        <4>1. /\ n \in 1..started' /\ ~mgr'[k].has
              /\ \A j \in K : mgr'[j].has => mgr'[j].start # n
          BY <1>0, <1>1, <3>1 DEF StartOK
        <4> QED BY <2>1, <2>3, <3>2, <3>3, <4>1 DEF StartOK, Fits
      <3> QED BY <1>0, <1>5, <3>1, <3>4, <3>5, <3>6, <3>7, <3>8, <3>9 DEF ProcessInv
    <2> QED BY <2>4, <2>5
  <1> QED BY <1>3, <1>4 DEF Spawn

LEMMA ProcessStep ==
    ASSUME SidecarsAssumption, ProcessInv, [Next]_vars
    PROVE  ProcessInv'
  <1>1. ASSUME NEW p \in Procs, NEW k \in Kinds, NEW r \in Roots, Open(p, k, r)
        PROVE  ProcessInv'
    BY <1>1, ActOpen
  <1>2. ASSUME NEW p \in Procs, Handle(p)
        PROVE  ProcessInv'
    <2>1. CASE FileStep(p)
      BY <2>1, ActFiles
    <2>2. CASE Lock(p) \/ Spawn(p) \/ Poll(p)
      BY <2>2, ActLock, ActSpawn, ActPoll
    <2> QED BY <1>2, <2>1, <2>2 DEF Handle, FileStep
  <1>3. ASSUME NEW n \in Starts, Bind(n) \/ Die(n)
        PROVE  ProcessInv'
    BY <1>3, ActKids
  <1>6. ASSUME NEW t \in Ports, Take(t)
        PROVE  ProcessInv'
    BY <1>6, ActTake
  <1>4. CASE Crash
    BY <1>4, ActCrash
  <1>5. CASE UNCHANGED vars
    <2>1. TypeOK' /\ UNCHANGED <<procs, req, urls>>
      BY <1>5 DEF ProcessInv, TypeOK, vars, files, procs
    <2> QED BY <2>1, KidsKeep DEF procs
  <1> QED BY <1>1, <1>2, <1>3, <1>4, <1>5, <1>6 DEF Next

LEMMA ProcessStart == SidecarsAssumption /\ Init => ProcessInv
  <1> SUFFICES ASSUME SidecarsAssumption, Init PROVE ProcessInv
    OBVIOUS
  <1>1. /\ Idle \in Request /\ Idle.pc = "idle" /\ NoKid \in Kid /\ NoKid.state = "none"
        /\ NoCmd \in Fields /\ ~NoCmd.has
    BY NothingTyped DEF Idle, NoKid, NoCmd
  <1>2. TypeOK
    <2>1. /\ parts \in [Files -> SUBSET Whole] /\ copied \in [Roots -> SUBSET Whole]
          /\ kids \in [Starts -> Kid] /\ at \in [Starts -> Ports \cup {NoPort}] /\ mgr \in [{"php", "fb"} -> Fields]
          /\ req \in [Procs -> Request]
      BY <1>1 DEF Init
    <2>2. 0 \in 0..MaxStarts /\ 0 \in 0..MaxOpens /\ 0 \in 0..MaxUpsets /\ 0 \in 0..MaxCrashes
      BY DEF SidecarsAssumption
    <2> QED BY <2>1, <2>2 DEF Init, TypeOK
  <1>3. RootsOK /\ LockOK /\ MgrOK /\ AtOK /\ UrlsOK /\ KidsOK /\ lock = {}
    BY <1>1 DEF Init, RootsOK, LockOK, Starting, MgrOK, AtOK, UrlsOK, KidsOK, K
  <1> QED BY <1>2, <1>3 DEF ProcessInv

THEOREM ProcessInvariant == SidecarsAssumption => (Spec => []ProcessInv)
  <1> SUFFICES ASSUME SidecarsAssumption PROVE Spec => []ProcessInv
    OBVIOUS
  <1>1. Init => ProcessInv
    BY ProcessStart
  <1>2. ProcessInv /\ [Next]_vars => ProcessInv'
    BY ProcessStep
  <1> QED BY <1>1, <1>2, PTL DEF Spec

------------------------------------------------------------------------------
(* The properties.                                                         *)

(* Every variable keeps its type: no child but of a start that was made,   *)
(* no address without a port and a site.                                   *)
THEOREM SidecarsKeepTypes == SidecarsAssumption => (Spec => []TypeOK)
  <1>1. ProcessInv => TypeOK
    BY DEF ProcessInv
  <1> QED BY <1>1, ProcessInvariant, PTL

(* Until freePort finds its port again, an address leads to the tool and   *)
(* the site it was given for, or nowhere: StartPHP and StartFilebrowser    *)
(* move to another site by another process, and keep the present one only  *)
(* for the site it serves.                                                 *)
THEOREM AddressesKeepToSite == SidecarsAssumption => (Spec => []UrlsKeepToSite)
  <1>1. ProcessInv => UrlsKeepToSite
    <2> SUFFICES ASSUME ProcessInv, NEW a \in urls, NEW n \in Starts,
                        kids[n].state = "listening",
                        \A i \in 1..started : at[i] = a.port => i = n
                 PROVE  kids[n].kind = a.kind /\ kids[n].root = a.root
      BY DEF UrlsKeepToSite
    <2>1. Behind(a, n)
      BY DEF ProcessInv, UrlsOK, Behind
    <2> QED BY <2>1 DEF Behind, Fits
  <1> QED BY <1>1, ProcessInvariant, PTL

LEMMA RunningAlone ==
    ASSUME ProcessInv, NEW k \in K, NEW m \in Running(k), NEW n \in Running(k)
    PROVE  m = n
  <1> DEFINE Named(i) == mgr[k].has /\ mgr[k].start = i
             Held(i) == ~mgr[k].has /\ \E p \in lock : req[p].start = i
  <1>1. ASSUME NEW i \in Running(k)
        PROVE  Named(i) \/ Held(i)
    <2>1. i \in Starts /\ kids[i].kind = k /\ kids[i].state # "none" /\ Owned(i)
      BY <1>1 DEF Running, ProcessInv, KidsOK
    <2>2. CASE \E j \in K : mgr[j].has /\ mgr[j].start = i
      BY <2>1, <2>2 DEF ProcessInv, MgrOK, Fits
    <2>3. CASE \E p \in lock : req[p].start = i
      BY <2>1, <2>3 DEF ProcessInv, StartOK, Fits
    <2> QED BY <2>1, <2>2, <2>3 DEF Owned
  <1>2. Named(m) \/ Held(m)
    BY <1>1
  <1>3. Named(n) \/ Held(n)
    BY <1>1
  <1>4. \A p, q \in lock : p = q
    BY DEF ProcessInv, LockOK
  <1> QED BY <1>2, <1>3, <1>4

(* However requests, deaths, timeouts and crashes overlap, there is at     *)
(* most one process of a kind: the manager's mutex, and the kills of       *)
(* StartPHP and StartFilebrowser before a start and after a timeout.       *)
THEOREM OneOfEachKind == SidecarsAssumption => (Spec => []OneProcessPerKind)
  <1>1. ProcessInv => OneProcessPerKind
    <2> SUFFICES ASSUME ProcessInv, NEW k \in K
                 PROVE  Cardinality(Running(k)) <= 1
      BY DEF OneProcessPerKind, K
    <2>1. CASE Running(k) = {}
      BY <2>1, FS_EmptySet
    <2>2. ASSUME NEW n \in Running(k)
          PROVE  Cardinality(Running(k)) <= 1
      <3>1. Running(k) = {n}
        BY <2>2, RunningAlone
      <3>2. Cardinality({n}) = 1
        BY FS_Singleton
      <3> QED BY <3>1, <3>2
    <2> QED BY <2>1, <2>2
  <1> QED BY <1>1, ProcessInvariant, PTL

------------------------------------------------------------------------------
(* The files.                                                              *)

Fetching == {"head", "tail"}

(* A request holds a file from os.Create until it has used it, and only    *)
(* its own tool's.  Every address it has tried without success was a cut.  *)
PlaceOK(p) ==
    LET r == req[p]
    IN  /\ r.file # NoFile => r.pc \in Fetching \cup {"rename", "remove", "again", "install"}
        /\ r.pc \in Fetching \cup {"rename", "remove", "again"} => r.file # NoFile
        /\ IF r.kind = "php" THEN r.file \in {NoFile, "adminer"} /\ r.pc \notin {"rename", "remove", "again"}
           ELSE r.file \in Inodes \cup {NoFile} /\ r.pc # "install"
        /\ r.tries <= upsets

(* What a request knows of the file it holds as long as no file was used   *)
(* by two: how much of it is written, and that it still has its name.      *)
OwnFileOK(p) ==
    LET r == req[p]
    IN  r.file # NoFile =>
          /\ \A q \in Procs : req[q].file = r.file => q = p
          /\ r.kind = "fb" => r.file = tmp
          /\ r.pc = "tail" => "head" \in parts[r.file]
          /\ r.pc \notin Fetching => parts[r.file] = Whole
          /\ r.pc \notin {"remove", "again"}

(* Whoever writes the file has yet to write what it lacks.                 *)
Covered(f) ==
    \/ parts[f] = Whole
    \/ \E p \in Using(f) : req[p].pc = "head"
    \/ "head" \in parts[f] /\ \E p \in Using(f) : req[p].pc = "tail"

(* Of the binary's two files: each has its inode; dest is whole when no    *)
(* download was shared, and both are being completed when none was cut.    *)
BinaryOK ==
    /\ dest = NoFile \/ dest # tmp
    /\ ~shared => dest = NoFile \/ parts[dest] = Whole
    /\ upsets + crashes = 0 => \A f \in {tmp, dest} \ {NoFile} : Covered(f)

(* Of adminer.php, as long as an address is left to whoever downloads it.  *)
AdminerOK ==
    ~shared /\ upsets < Mirrors /\ crashes = 0 =>
        /\ parts["adminer"] \in {{}, Whole} \/ Downloading # {}
        /\ \A p \in Procs : req[p].pc = "install" /\ req[p].file = NoFile =>
               parts["adminer"] = Whole /\ Downloading = {}

FilesInv ==
    /\ \A p \in Procs : PlaceOK(p)
    /\ ~shared => \A p \in Procs : OwnFileOK(p)
    /\ BinaryOK /\ AdminerOK /\ AdminerWhole

(* Everything a step does not make of the files and of whoever downloads.  *)
Resting(r) ==
    /\ r.file = NoFile
    /\ r.pc \notin Fetching \cup {"rename", "remove", "again", "install"}
    /\ ~(r.kind = "php" /\ r.pc = "create")

LEMMA SumOfNothing ==
    ASSUME NEW a \in Nat, NEW b \in Nat, NEW c \in Nat, NEW d \in Nat, a <= b, c <= d, b + d = 0
    PROVE  a + c = 0
  OBVIOUS

(* Requests may come to rest at any time, as long as the budget of upsets  *)
(* is charged for the downloads that end.                                  *)
LEMMA RestKeeps ==
    ASSUME SidecarsAssumption, TypeOK, TypeOK', FilesInv,
           UNCHANGED <<parts, tmp, dest, copied, shared>>,
           upsets <= upsets', crashes <= crashes',
           \A q \in Procs :
               \/ req'[q] = req[q]
               \/ /\ Resting(req'[q]) /\ req'[q].tries <= upsets'
                  /\ upsets' + crashes' = 0 => req[q].pc \notin Fetching
                  /\ upsets' < Mirrors /\ crashes' = 0 => q \notin Downloading
    PROVE  FilesInv'
  <1>0. /\ upsets \in Nat /\ upsets' \in Nat /\ crashes \in Nat /\ crashes' \in Nat
        /\ \A q \in Procs : req[q].tries \in Nat
        /\ Mirrors \in Nat
    BY DEF TypeOK, Request, SidecarsAssumption
  <1>1. ASSUME NEW q \in Procs PROVE PlaceOK(q)'
    <2>1. CASE req'[q] = req[q]
      BY <1>0, <2>1 DEF FilesInv, PlaceOK
    <2>2. CASE Resting(req'[q]) /\ req'[q].tries <= upsets'
      BY <2>2 DEF Resting, PlaceOK
    <2> QED BY <2>1, <2>2
  <1>2. ASSUME ~shared', NEW q \in Procs PROVE OwnFileOK(q)'
    <2>1. CASE req'[q] = req[q]
      BY <1>2, <2>1 DEF FilesInv, OwnFileOK, Resting
    <2>2. CASE Resting(req'[q])
      BY <2>2 DEF Resting, OwnFileOK
    <2> QED BY <2>1, <2>2
  <1>3. BinaryOK'
    <2>1. ASSUME upsets' + crashes' = 0, NEW f \in {tmp, dest} \ {NoFile}
          PROVE  Covered(f)'
      <3>0. upsets + crashes = 0
        BY <1>0, <2>1, SumOfNothing
      <3>1. Covered(f)
        BY <2>1, <3>0 DEF FilesInv, BinaryOK
      <3>2. \A q \in Procs : req[q].pc \in Fetching => req'[q] = req[q]
        BY <2>1
      <3> QED BY <3>1, <3>2 DEF Covered, Using, Fetching
    <2> QED BY <2>1 DEF FilesInv, BinaryOK
  <1>4. AdminerOK'
    <2>1. SUFFICES ASSUME ~shared, upsets' < Mirrors, crashes' = 0
                   PROVE  /\ parts["adminer"] \in {{}, Whole} \/ Downloading' # {}
                          /\ \A q \in Procs : req'[q].pc = "install" /\ req'[q].file = NoFile =>
                                 parts["adminer"] = Whole /\ Downloading' = {}
      BY DEF AdminerOK
    <2>2. upsets < Mirrors /\ crashes = 0
      BY <1>0, <2>1
    <2>3. Downloading' = Downloading
      <3>1. \A q \in Procs : q \in Downloading => req'[q] = req[q]
        BY <2>1
      <3>2. \A q \in Procs : Resting(req'[q]) => q \notin Downloading'
        BY DEF Resting, Downloading, Fetching
      <3> QED BY <3>1, <3>2 DEF Downloading
    <2>4. \A q \in Procs : req'[q].pc = "install" => req'[q] = req[q]
      BY DEF Resting
    <2> QED BY <2>1, <2>2, <2>3, <2>4 DEF FilesInv, AdminerOK
  <1>5. AdminerWhole'
    BY <1>0 DEF FilesInv, AdminerWhole
  <1> QED BY <1>1, <1>2, <1>3, <1>4, <1>5 DEF FilesInv

LEMMA FilesStart == SidecarsAssumption /\ Init => FilesInv
  <1> SUFFICES ASSUME SidecarsAssumption, Init PROVE FilesInv
    OBVIOUS
  <1>1. \A p \in Procs : req[p] = Idle
    BY DEF Init
  <1>2. /\ Idle.pc = "idle" /\ Idle.kind = "php" /\ Idle.file = NoFile /\ Idle.tries = 0
        /\ upsets = 0 /\ tmp = NoFile /\ dest = NoFile
    BY DEF Idle, Init
  <1>3. \A p \in Procs : PlaceOK(p) /\ OwnFileOK(p)
    BY <1>1, <1>2 DEF PlaceOK, OwnFileOK, Fetching
  <1>4. BinaryOK
    BY <1>2 DEF BinaryOK
  <1>5. parts["adminer"] = {}
    BY DEF Init, Files
  <1>6. AdminerOK /\ AdminerWhole
    BY <1>1, <1>2, <1>5 DEF AdminerOK, AdminerWhole, Init
  <1> QED BY <1>3, <1>4, <1>6 DEF FilesInv

(* The request p as the step leaves it.                                    *)
Becomes(p, pc, f, t) ==
    /\ \A q \in Procs \ {p} : req'[q] = req[q]
    /\ req'[p].pc = pc /\ req'[p].file = f /\ req'[p].tries = t
    /\ req'[p].kind = req[p].kind

LEMMA GotoBecomes ==
    ASSUME TypeOK, NEW p \in Procs, NEW pc, Goto(p, pc)
    PROVE  Becomes(p, pc, req[p].file, req[p].tries)
  <1>1. req \in [Procs -> Request] /\ req[p] \in Request
    BY DEF TypeOK
  <1>2. req' = [req EXCEPT ![p] = [req[p] EXCEPT !.pc = pc]]
    BY <1>1 DEF Goto
  <1>3. req'[p] = [req[p] EXCEPT !.pc = pc] /\ \A q \in Procs \ {p} : req'[q] = req[q]
    BY <1>1, <1>2
  <1> QED BY <1>1, <1>3 DEF Becomes, Request

LEMMA EndRests ==
    ASSUME TypeOK, NEW p \in Procs, End(p)
    PROVE  /\ \A q \in Procs \ {p} : req'[q] = req[q]
           /\ Resting(req'[p]) /\ req'[p].tries = 0
  BY DEF TypeOK, End, Idle, Resting, Fetching

LEMMA KeepsEnsure ==
    ASSUME SidecarsAssumption, TypeOK, TypeOK', FilesInv, NEW p \in Procs, Ensure(p)
    PROVE  FilesInv'
  <1>0. /\ req[p].pc = "ensure" /\ req[p].kind \in {"php", "fb"}
        /\ req[p].file = NoFile /\ req[p].tries <= upsets /\ PlaceOK(p)
        /\ UNCHANGED <<parts, tmp, dest, copied, upsets, crashes>>
        /\ "adminer" # NoFile
        /\ upsets \in Nat /\ crashes \in Nat
    BY DEF Ensure, TypeOK, Request, FilesInv, PlaceOK, Fetching, SidecarsAssumption
  <1>1. CASE req[p].kind = "fb"
    <2>1. shared' = shared
      BY <1>1 DEF Ensure
    <2>2. PICK pc \in {"lock", "create"} : Goto(p, pc)
      BY <1>1 DEF Ensure
    <2>3. Becomes(p, pc, NoFile, req[p].tries)
      BY <1>0, <2>2, GotoBecomes
    <2>4. Resting(req'[p]) /\ req'[p].tries <= upsets'
      BY <1>0, <1>1, <2>3 DEF Resting, Becomes, Fetching
    <2>5. p \notin Downloading /\ req[p].pc \notin Fetching
      BY <1>0 DEF Downloading, Fetching
    <2> QED BY <1>0, <2>1, <2>3, <2>4, <2>5, RestKeeps DEF Becomes
  <1>2. CASE req[p].kind = "php"
    <2> DEFINE there == parts["adminer"] # {}
               pc == IF there THEN "install" ELSE "create"
    <2>1. shared' = (shared \/ (there /\ Downloading # {})) /\ Goto(p, pc)
      BY <1>2 DEF Ensure
    <2>2. Becomes(p, pc, NoFile, req[p].tries)
      BY <1>0, <2>1, GotoBecomes
    <2>3. \A q \in Procs : req'[q].file = req[q].file
      BY <1>0, <2>2 DEF Becomes
    <2>4. \A q \in Procs : req'[q] = req[q] \/ q = p
      BY <2>2 DEF Becomes
    <2>5. ASSUME NEW q \in Procs PROVE PlaceOK(q)'
      BY <1>0, <1>2, <2>2, <2>5 DEF Becomes, PlaceOK, FilesInv, Fetching
    <2>6. ASSUME ~shared', NEW q \in Procs PROVE OwnFileOK(q)'
      <3>1. ~shared /\ \A r \in Procs : OwnFileOK(r)
        BY <2>1, <2>6 DEF FilesInv
      <3>2. CASE q = p
        BY <1>0, <2>3, <3>2 DEF OwnFileOK
      <3>3. CASE q # p
        <4>1. req'[q] = req[q] /\ OwnFileOK(q)
          BY <2>4, <2>6, <3>1, <3>3
        <4> QED BY <1>0, <2>3, <4>1 DEF OwnFileOK
      <3> QED BY <3>2, <3>3
    <2>7. BinaryOK'
      <3>1. ASSUME NEW f \in {tmp, dest} \ {NoFile}, Covered(f)
            PROVE  Covered(f)'
        BY <1>0, <2>3, <2>4, <3>1 DEF Covered, Using
      <3> QED BY <1>0, <2>1, <3>1 DEF BinaryOK, FilesInv
    <2>8. AdminerOK'
      <3>1. SUFFICES ASSUME ~shared', upsets < Mirrors, crashes = 0
                     PROVE  /\ parts["adminer"] \in {{}, Whole} \/ Downloading' # {}
                            /\ \A q \in Procs : req'[q].pc = "install" /\ req'[q].file = NoFile =>
                                   parts["adminer"] = Whole /\ Downloading' = {}
        BY <1>0 DEF AdminerOK
      <3>2. /\ ~shared /\ ~(there /\ Downloading # {})
            /\ parts["adminer"] \in {{}, Whole} \/ Downloading # {}
            /\ \A q \in Procs : req[q].pc = "install" /\ req[q].file = NoFile =>
                   parts["adminer"] = Whole /\ Downloading = {}
        BY <2>1, <3>1 DEF AdminerOK, FilesInv
      <3>3. CASE there
        <4>1. Downloading = {} /\ parts["adminer"] = Whole
          BY <3>2, <3>3
        <4>2. Downloading' = {}
          BY <2>2, <3>3, <4>1 DEF Downloading, Becomes
        <4> QED BY <4>1, <4>2
      <3>4. CASE ~there
        <4>1. parts["adminer"] = {} /\ Whole # {}
          BY <3>4 DEF Whole
        <4>2. \A q \in Procs : ~(req'[q].pc = "install" /\ req'[q].file = NoFile)
          BY <2>2, <3>2, <3>4, <4>1 DEF Becomes
        <4> QED BY <4>1, <4>2
      <3> QED BY <3>3, <3>4
    <2>9. AdminerWhole'
      BY <1>0, <2>1 DEF AdminerWhole, FilesInv
    <2> QED BY <2>5, <2>6, <2>7, <2>8, <2>9 DEF FilesInv
  <1> QED BY <1>0, <1>1, <1>2

LEMMA GoesBecomes ==
    ASSUME TypeOK, NEW p \in Procs, NEW pc, NEW f, NEW t,
           req' = [req EXCEPT ![p] = [req[p] EXCEPT !.pc = pc, !.file = f, !.tries = t]]
    PROVE  Becomes(p, pc, f, t)
  <1>1. req \in [Procs -> Request] /\ req[p] \in Request
    BY DEF TypeOK
  <1>2. /\ req'[p] = [req[p] EXCEPT !.pc = pc, !.file = f, !.tries = t]
        /\ \A q \in Procs \ {p} : req'[q] = req[q]
    BY <1>1
  <1> QED BY <1>1, <1>2 DEF Becomes, Request

LEMMA KeepsCreate ==
    ASSUME SidecarsAssumption, TypeOK, TypeOK', FilesInv, NEW p \in Procs, Create(p)
    PROVE  FilesInv'
  <1>0. /\ req[p].pc = "create" /\ req[p].kind \in {"php", "fb"}
        /\ req[p].file = NoFile /\ req[p].tries <= upsets /\ PlaceOK(p)
        /\ UNCHANGED <<dest, copied, upsets, crashes>>
        /\ parts \in [Files -> SUBSET Whole]
        /\ "adminer" \notin Inodes /\ NoFile \notin Files
        /\ tmp \in Inodes \cup {NoFile} /\ dest \in Inodes \cup {NoFile}
    BY DEF Create, TypeOK, Request, FilesInv, PlaceOK, Fetching, SidecarsAssumption, Files
  <1>1. PICK f \in Files :
          /\ IF req[p].kind = "php" THEN f = "adminer"
             ELSE IF tmp # NoFile THEN f = tmp
             ELSE f \in Inodes \ {dest} /\ Using(f) = {}
          /\ parts' = [parts EXCEPT ![f] = {}]
          /\ shared' = (shared \/ Using(f) # {})
          /\ req' = [req EXCEPT ![p].pc = "head", ![p].file = f]
          /\ tmp' = IF req[p].kind = "fb" THEN f ELSE tmp
    BY DEF Create
  <1>2. Becomes(p, "head", f, req[p].tries)
    <2>1. req[p] \in Request
      BY DEF TypeOK
    <2>2. req' = [req EXCEPT ![p] = [req[p] EXCEPT !.pc = "head", !.file = f,
                                                    !.tries = req[p].tries]]
      BY <1>1, <2>1 DEF Request
    <2> QED BY <2>2, GoesBecomes
  <1>3. /\ f # NoFile /\ parts'[f] = {} /\ \A g \in Files \ {f} : parts'[g] = parts[g]
        /\ req[p].kind = "php" => f = "adminer" /\ tmp' = tmp
        /\ req[p].kind = "fb" => f \in Inodes /\ f # dest /\ tmp' = f /\ (tmp = NoFile \/ f = tmp)
    BY <1>0, <1>1 DEF FilesInv, BinaryOK
  <1>4. \A q \in Procs : q = p \/ req'[q] = req[q]
    BY <1>2 DEF Becomes
  <1>5. ASSUME NEW q \in Procs PROVE PlaceOK(q)'
    <2>1. CASE q = p
      BY <1>0, <1>2, <1>3, <2>1 DEF PlaceOK, Becomes, Fetching
    <2>2. CASE req'[q] = req[q]
      BY <1>0, <1>5, <2>2 DEF PlaceOK, FilesInv
    <2> QED BY <1>4, <2>1, <2>2
  <1>6. ASSUME ~shared', NEW q \in Procs PROVE OwnFileOK(q)'
    <2>1. /\ ~shared /\ \A r \in Procs : OwnFileOK(r) /\ PlaceOK(r) /\ req[r].file # f
      BY <1>1, <1>6 DEF FilesInv, Using
    <2>2. CASE q = p
      <3>1. \A r \in Procs : req'[r].file = f => r = p
        BY <1>4, <2>1
      <3> QED BY <1>2, <1>3, <2>2, <3>1 DEF OwnFileOK, Becomes, Fetching
    <2>3. CASE q # p /\ req[q].file # NoFile
      <3>1. req'[q] = req[q] /\ req[q].file # f /\ OwnFileOK(q)
        BY <1>4, <2>1, <2>3
      <3>2. req[q].file \in Files \ {f}
        BY <2>3, <3>1 DEF TypeOK, Request
      <3>3. req[q].kind = "fb" => req[q].file = tmp'
        BY <1>0, <1>3, <2>3, <3>1 DEF OwnFileOK
      <3>4. \A r \in Procs : req'[r].file = req[q].file => r = q
        BY <1>2, <1>4, <2>3, <3>1 DEF OwnFileOK, Becomes
      <3> QED BY <1>3, <2>3, <3>1, <3>2, <3>3, <3>4 DEF OwnFileOK
    <2>4. CASE q # p /\ req[q].file = NoFile
      BY <1>4, <2>4 DEF OwnFileOK
    <2> QED BY <2>2, <2>3, <2>4
  <1>7. BinaryOK'
    <2>1. dest = NoFile \/ (dest \in Files \ {f} /\ dest # tmp')
      BY <1>0, <1>3 DEF FilesInv, BinaryOK, Files
    <2>2. ~shared' => dest' = NoFile \/ parts'[dest'] = Whole
      <3>1. ~shared' => ~shared
        BY <1>1
      <3> QED BY <1>0, <1>3, <2>1, <3>1 DEF FilesInv, BinaryOK
    <2>3. ASSUME upsets + crashes = 0, NEW g \in {tmp', dest} \ {NoFile}
          PROVE  Covered(g)'
      <3>1. CASE g = f
        BY <1>2, <3>1 DEF Covered, Using, Becomes
      <3>2. CASE g # f
        <4>1. g \in {tmp, dest} \ {NoFile} /\ g \in Files \ {f}
          BY <1>0, <1>3, <2>3, <3>2 DEF Files
        <4>2. Covered(g)
          BY <2>3, <4>1 DEF FilesInv, BinaryOK
        <4>3. \A q \in Using(g) : req'[q] = req[q]
          BY <1>0, <1>4, <4>1 DEF Using
        <4> QED BY <1>3, <4>1, <4>2, <4>3 DEF Covered, Using
      <3> QED BY <3>1, <3>2
    <2> QED BY <1>0, <2>1, <2>2, <2>3 DEF BinaryOK
  <1>8. AdminerOK'
    <2>1. SUFFICES ASSUME ~shared', upsets < Mirrors, crashes = 0
                   PROVE  /\ parts'["adminer"] \in {{}, Whole} \/ Downloading' # {}
                          /\ \A q \in Procs : req'[q].pc = "install" /\ req'[q].file = NoFile =>
                                 parts'["adminer"] = Whole /\ Downloading' = {}
      BY <1>0 DEF AdminerOK
    <2>2. /\ parts["adminer"] \in {{}, Whole} \/ Downloading # {}
          /\ \A q \in Procs : req[q].pc = "install" /\ req[q].file = NoFile =>
                 parts["adminer"] = Whole /\ Downloading = {}
      BY <1>1, <2>1 DEF AdminerOK, FilesInv
    <2>3. Downloading' = Downloading
      BY <1>0, <1>2, <1>4 DEF Downloading, Becomes
    <2>4. \A q \in Procs : req'[q].pc = "install" => req'[q] = req[q]
      BY <1>2, <1>4 DEF Becomes
    <2>5. CASE req[p].kind = "php"
      <3>1. p \in Downloading
        BY <1>0, <2>5 DEF Downloading
      <3> QED BY <2>2, <2>3, <2>4, <3>1
    <2>6. CASE req[p].kind = "fb"
      <3>1. parts'["adminer"] = parts["adminer"]
        BY <1>0, <1>3, <2>6 DEF Files
      <3> QED BY <2>2, <2>3, <2>4, <3>1
    <2> QED BY <1>0, <2>5, <2>6
  <1>9. AdminerWhole'
    BY <1>0, <1>1 DEF AdminerWhole, FilesInv
  <1> QED BY <1>5, <1>6, <1>7, <1>8, <1>9 DEF FilesInv

LEMMA KeepsWrite ==
    ASSUME SidecarsAssumption, TypeOK, TypeOK', FilesInv, NEW p \in Procs, Write(p)
    PROVE  FilesInv'
  <1> DEFINE f == req[p].file
             pc == IF req[p].pc = "head" THEN "tail" ELSE Downloaded(req[p].kind)
  <1>0. /\ req[p].pc \in {"head", "tail"} /\ req[p].kind \in {"php", "fb"}
        /\ PlaceOK(p) /\ f \in Files /\ f # NoFile
        /\ UNCHANGED <<tmp, dest, copied, shared, upsets, crashes>>
        /\ parts \in [Files -> SUBSET Whole]
        /\ "adminer" \notin Inodes /\ NoFile \notin Files
        /\ tmp \in Inodes \cup {NoFile} /\ dest \in Inodes \cup {NoFile}
    BY DEF Write, TypeOK, Request, FilesInv, PlaceOK, Fetching, SidecarsAssumption, Files
  <1>1. Becomes(p, pc, f, req[p].tries)
    BY GotoBecomes DEF Write
  <1>2. /\ parts'[f] = parts[f] \cup {req[p].pc}
        /\ \A g \in Files \ {f} : parts'[g] = parts[g]
    BY <1>0 DEF Write
  <1>3. \A q \in Procs : /\ q = p \/ req'[q] = req[q]
                         /\ req'[q].file = req[q].file /\ req'[q].kind = req[q].kind
    BY <1>1 DEF Becomes
  <1>4. /\ req[p].pc = "head" => pc = "tail"
        /\ req[p].pc = "tail" => pc = IF req[p].kind = "php" THEN "install" ELSE "rename"
    BY DEF Downloaded
  <1> HIDE DEF f, pc
  <1>5. ASSUME NEW q \in Procs PROVE PlaceOK(q)'
    <2>1. CASE q = p
      BY <1>0, <1>1, <1>4, <2>1 DEF PlaceOK, Becomes, Fetching, f
    <2>2. CASE req'[q] = req[q]
      BY <1>0, <1>5, <2>2 DEF PlaceOK, FilesInv
    <2> QED BY <1>3, <2>1, <2>2
  <1>6. parts[f] \subseteq Whole /\ parts'[f] \subseteq Whole /\ Whole = {"head", "tail"}
    BY <1>0, <1>2 DEF Whole
  <1>7. ASSUME ~shared', NEW q \in Procs PROVE OwnFileOK(q)'
    <2>1. ~shared /\ OwnFileOK(q) /\ OwnFileOK(p)
      BY <1>0, <1>7 DEF FilesInv
    <2>2. CASE q = p
      <3>1. pc = "tail" => "head" \in parts'[f]
        BY <1>0, <1>2, <1>4
      <3>2. pc # "tail" => parts'[f] = Whole
        BY <1>0, <1>2, <1>4, <1>6, <2>1 DEF OwnFileOK, f
      <3>3. pc \notin {"remove", "again"}
        BY <1>0, <1>4
      <3>4. req'[q].pc = pc /\ req'[q].file = f /\ req'[q].kind = req[q].kind
        BY <1>1, <2>2 DEF Becomes
      <3>5. \A r \in Procs : req'[r].file = f => r = q
        BY <1>0, <1>3, <2>1, <2>2 DEF OwnFileOK, f
      <3>6. req[q].kind = "fb" => f = tmp'
        BY <1>0, <2>1, <2>2 DEF OwnFileOK, f
      <3> QED BY <3>1, <3>2, <3>3, <3>4, <3>5, <3>6 DEF OwnFileOK, Fetching
    <2>3. CASE q # p /\ req[q].file # NoFile
      <3>1. req'[q] = req[q] /\ req[q].file # f
        BY <1>0, <1>3, <2>1, <2>3 DEF OwnFileOK, f
      <3>2. req[q].file \in Files \ {f}
        BY <2>3, <3>1 DEF TypeOK, Request
      <3>3. \A r \in Procs : req'[r].file = req[q].file => r = q
        BY <1>3, <2>1, <2>3 DEF OwnFileOK
      <3> QED BY <1>0, <1>2, <2>1, <2>3, <3>1, <3>2, <3>3 DEF OwnFileOK
    <2>4. CASE q # p /\ req[q].file = NoFile
      BY <1>3, <2>4 DEF OwnFileOK
    <2> QED BY <2>2, <2>3, <2>4
  <1>8. BinaryOK'
    <2>1. ~shared' => dest' = NoFile \/ parts'[dest'] = Whole
      <3>1. CASE dest = f
        BY <1>0, <1>2, <1>6, <3>1 DEF FilesInv, BinaryOK
      <3>2. CASE dest \in Files \ {f}
        BY <1>0, <1>2, <3>2 DEF FilesInv, BinaryOK
      <3> QED BY <1>0, <3>1, <3>2 DEF Files
    <2>2. ASSUME NEW g \in Files, Covered(g) PROVE Covered(g)'
      <3>1. CASE g # f
        <4>1. \A q \in Using(g) : req'[q] = req[q]
          BY <1>3, <3>1 DEF Using, f
        <4> QED BY <1>2, <1>3, <2>2, <3>1, <4>1 DEF Covered, Using
      <3>2. CASE g = f /\ req[p].pc = "head"
        <4>1. p \in Using(g)' /\ req'[p].pc = "tail" /\ "head" \in parts'[g]
          BY <1>1, <1>2, <1>4, <3>2 DEF Becomes, Using
        <4> QED BY <4>1 DEF Covered
      <3>3. CASE g = f /\ req[p].pc = "tail"
        <4>1. CASE "head" \in parts[g]
          <5>1. parts'[g] = Whole
            BY <1>2, <1>6, <3>3, <4>1
          <5> QED BY <5>1 DEF Covered
        <4>2. CASE "head" \notin parts[g]
          <5>1. PICK q \in Using(g) : req[q].pc = "head"
            BY <1>6, <2>2, <4>2 DEF Covered
          <5>2. q \in Using(g)' /\ req'[q].pc = "head"
            BY <1>3, <3>3, <5>1 DEF Using
          <5> QED BY <5>2 DEF Covered
        <4> QED BY <4>1, <4>2
      <3> QED BY <1>0, <3>1, <3>2, <3>3
    <2>3. \A g \in {tmp, dest} \ {NoFile} : g \in Files
      BY <1>0 DEF Files
    <2>4. upsets' + crashes' = 0 => \A g \in {tmp', dest'} \ {NoFile} : Covered(g)'
      BY <1>0, <2>2, <2>3 DEF FilesInv, BinaryOK
    <2> QED BY <1>0, <2>1, <2>4 DEF FilesInv, BinaryOK
  <1>9. AdminerOK'
    <2>1. SUFFICES ASSUME ~shared, upsets < Mirrors, crashes = 0
                   PROVE  /\ parts'["adminer"] \in {{}, Whole} \/ Downloading' # {}
                          /\ \A q \in Procs : req'[q].pc = "install" /\ req'[q].file = NoFile =>
                                 parts'["adminer"] = Whole /\ Downloading' = {}
      BY <1>0 DEF AdminerOK
    <2>2. /\ parts["adminer"] \in {{}, Whole} \/ Downloading # {}
          /\ \A q \in Procs : req[q].pc = "install" /\ req[q].file = NoFile =>
                 parts["adminer"] = Whole /\ Downloading = {}
      BY <2>1 DEF AdminerOK, FilesInv
    <2>3. \A q \in Procs : req'[q].pc = "install" /\ req'[q].file = NoFile => req'[q] = req[q]
      BY <1>0, <1>1, <1>3 DEF Becomes
    <2>4. CASE req[p].kind = "php"
      <3>1. p \in Downloading /\ f = "adminer"
        BY <1>0, <2>4 DEF Downloading, PlaceOK, f
      <3>2. CASE req[p].pc = "head"
        <4>1. p \in Downloading'
          BY <1>1, <1>4, <2>4, <3>2 DEF Downloading, Becomes
        <4> QED BY <2>2, <2>3, <3>1, <4>1
      <3>3. CASE req[p].pc = "tail"
        <4>1. OwnFileOK(p)
          BY <2>1 DEF FilesInv
        <4>2. parts'["adminer"] = Whole
          BY <1>0, <1>2, <1>6, <3>1, <3>3, <4>1 DEF OwnFileOK, f
        <4> QED BY <2>2, <2>3, <3>1, <4>2
      <3> QED BY <1>0, <3>2, <3>3
    <2>5. CASE req[p].kind = "fb"
      <3>1. f # "adminer" /\ "adminer" \in Files
        BY <1>0, <2>5 DEF PlaceOK, Files, f
      <3>2. Downloading' = Downloading
        BY <1>3, <2>5 DEF Downloading
      <3> QED BY <1>2, <2>2, <2>3, <3>1, <3>2
    <2> QED BY <1>0, <2>4, <2>5
  <1>10. AdminerWhole'
    BY <1>0 DEF AdminerWhole, FilesInv
  <1> QED BY <1>5, <1>7, <1>8, <1>9, <1>10 DEF FilesInv

LEMMA KeepsCut ==
    ASSUME SidecarsAssumption, TypeOK, TypeOK', FilesInv, NEW p \in Procs, Cut(p)
    PROVE  FilesInv'
  <1>0. /\ req[p].pc \in {"create", "head", "tail"} /\ req[p].kind \in {"php", "fb"}
        /\ req[p].tries \in Nat /\ req[p].tries <= upsets
        /\ upsets \in Nat /\ upsets' = upsets + 1 /\ crashes \in Nat /\ Mirrors \in Nat
        /\ UNCHANGED <<parts, tmp, dest, copied, shared, crashes>>
    BY DEF Cut, TypeOK, Request, FilesInv, PlaceOK, files, SidecarsAssumption
  <1>1. CASE req[p].kind = "php" /\ req[p].tries + 1 < Mirrors
    <2>1. req' = [req EXCEPT ![p] = [req[p] EXCEPT !.pc = "create", !.file = NoFile,
                                                    !.tries = req[p].tries + 1]]
      <3>1. req' = [req EXCEPT ![p].pc = "create", ![p].file = NoFile, ![p].tries = @ + 1]
        BY <1>1 DEF Cut
      <3>2. req[p] \in Request
        BY DEF TypeOK
      <3> QED BY <3>1, <3>2 DEF Request
    <2>2. Becomes(p, "create", NoFile, req[p].tries + 1)
      BY <2>1, GoesBecomes
    <2>3. \A q \in Procs : q = p \/ req'[q] = req[q]
      BY <2>2 DEF Becomes
    <2>4. ASSUME NEW q \in Procs PROVE PlaceOK(q)'
      <3>1. CASE q = p
        BY <1>0, <1>1, <2>2, <3>1 DEF PlaceOK, Becomes, Fetching
      <3>2. CASE req'[q] = req[q]
        <4>1. PlaceOK(q) /\ req[q].tries \in Nat
          BY DEF FilesInv, TypeOK, Request, SidecarsAssumption
        <4> QED BY <1>0, <3>2, <4>1 DEF PlaceOK
      <3> QED BY <2>3, <3>1, <3>2
    <2>5. ASSUME ~shared', NEW q \in Procs PROVE OwnFileOK(q)'
      <3>1. OwnFileOK(q)
        BY <1>0, <2>5 DEF FilesInv
      <3>2. CASE q = p
        BY <2>2, <3>2 DEF OwnFileOK, Becomes
      <3>3. CASE q # p
        BY <1>0, <2>2, <2>3, <3>1, <3>3 DEF OwnFileOK, Becomes
      <3> QED BY <3>2, <3>3
    <2>6. BinaryOK'
      <3>1. upsets' + crashes' # 0
        BY <1>0
      <3> QED BY <1>0, <3>1 DEF FilesInv, BinaryOK
    <2>7. AdminerOK'
      <3>1. Downloading' = Downloading
        BY <1>0, <1>1, <2>2, <2>3 DEF Downloading, Becomes
      <3>2. \A q \in Procs : req'[q].pc = "install" => req'[q] = req[q]
        BY <2>2, <2>3 DEF Becomes
      <3>3. upsets' < Mirrors => upsets < Mirrors
        BY <1>0
      <3> QED BY <1>0, <3>1, <3>2, <3>3 DEF FilesInv, AdminerOK
    <2>8. AdminerWhole'
      BY <1>0 DEF FilesInv, AdminerWhole
    <2> QED BY <2>4, <2>5, <2>6, <2>7, <2>8 DEF FilesInv
  <1>2. CASE ~(req[p].kind = "php" /\ req[p].tries + 1 < Mirrors)
    <2>1. End(p)
      BY <1>2 DEF Cut
    <2>2. /\ \A q \in Procs \ {p} : req'[q] = req[q]
          /\ Resting(req'[p]) /\ req'[p].tries = 0
      BY <2>1, EndRests
    <2>3. upsets' + crashes' # 0
      BY <1>0
    <2>4. upsets' < Mirrors => p \notin Downloading
      <3>1. req[p].kind = "php" => req[p].tries + 1 >= Mirrors
        BY <1>0, <1>2
      <3>2. upsets' >= req[p].tries + 1
        BY <1>0
      <3>3. req[p].kind = "php" => ~(upsets' < Mirrors)
        BY <1>0, <3>1, <3>2
      <3> QED BY <3>3 DEF Downloading
    <2> QED BY <1>0, <2>2, <2>3, <2>4, RestKeeps
  <1> QED BY <1>1, <1>2

LEMMA KeepsInstall ==
    ASSUME SidecarsAssumption, TypeOK, TypeOK', FilesInv, RootsOK, NEW p \in Procs, Install(p)
    PROVE  FilesInv'
  <1>0. /\ req[p].pc = "install" /\ req[p].kind = "php" /\ req[p].file \in {NoFile, "adminer"}
        /\ req[p].root \in Roots /\ copied \in [Roots -> SUBSET Whole]
        /\ UNCHANGED <<parts, tmp, dest, shared, upsets, crashes>>
        /\ 0 <= upsets
    BY DEF Install, TypeOK, Request, FilesInv, PlaceOK, RootsOK
  <1>1. Becomes(p, "lock", NoFile, 0)
    <2>1. req' = [req EXCEPT ![p].pc = "lock", ![p].file = NoFile, ![p].tries = 0]
      BY DEF Install
    <2>2. req' = [req EXCEPT ![p] = [req[p] EXCEPT !.pc = "lock", !.file = NoFile, !.tries = 0]]
      BY <2>1
    <2> QED BY <2>2, GoesBecomes
  <1>2. \A q \in Procs : q = p \/ req'[q] = req[q]
    BY <1>1 DEF Becomes
  <1>3. ASSUME NEW q \in Procs PROVE PlaceOK(q)'
    <2>1. CASE q = p
      BY <1>0, <1>1, <2>1 DEF PlaceOK, Becomes, Fetching
    <2>2. CASE req'[q] = req[q]
      BY <1>0, <1>3, <2>2 DEF PlaceOK, FilesInv
    <2> QED BY <1>2, <2>1, <2>2
  <1>4. ASSUME ~shared', NEW q \in Procs PROVE OwnFileOK(q)'
    <2>1. OwnFileOK(q)
      BY <1>0, <1>4 DEF FilesInv
    <2>2. CASE q = p
      BY <1>1, <2>2 DEF OwnFileOK, Becomes
    <2>3. CASE q # p
      BY <1>0, <1>1, <1>2, <2>1, <2>3 DEF OwnFileOK, Becomes
    <2> QED BY <2>2, <2>3
  <1>5. BinaryOK'
    <2>1. ASSUME NEW f, Covered(f) PROVE Covered(f)'
      BY <1>0, <1>2, <2>1 DEF Covered, Using
    <2> QED BY <1>0, <2>1 DEF FilesInv, BinaryOK
  <1>6. AdminerOK'
    <2>1. Downloading' = Downloading
      BY <1>0, <1>1, <1>2 DEF Downloading, Becomes
    <2>2. \A q \in Procs : req'[q].pc = "install" => req'[q] = req[q]
      BY <1>1, <1>2 DEF Becomes
    <2> QED BY <1>0, <2>1, <2>2 DEF FilesInv, AdminerOK
  <1>7. AdminerWhole'
    <2>1. SUFFICES ASSUME ~shared, ~(upsets >= Mirrors), ~(crashes > 0)
                   PROVE  \A r \in Roots : copied'[r] \in {{}, Whole}
      BY <1>0 DEF AdminerWhole
    <2>2. parts["adminer"] = Whole
      <3>1. CASE req[p].file = NoFile
        <4>1. upsets < Mirrors /\ crashes = 0
          BY <2>1 DEF TypeOK, SidecarsAssumption
        <4> QED BY <1>0, <2>1, <3>1, <4>1 DEF FilesInv, AdminerOK
      <3>2. CASE req[p].file # NoFile
        BY <1>0, <2>1, <3>2 DEF FilesInv, OwnFileOK, Fetching
      <3> QED BY <3>1, <3>2
    <2>3. copied' = [copied EXCEPT ![req[p].root] = Whole]
      BY <2>2 DEF Install
    <2> QED BY <1>0, <2>1, <2>3 DEF FilesInv, AdminerWhole
  <1> QED BY <1>3, <1>4, <1>5, <1>6, <1>7 DEF FilesInv

LEMMA KeepsRename ==
    ASSUME SidecarsAssumption, TypeOK, TypeOK', FilesInv, NEW p \in Procs, Rename(p)
    PROVE  FilesInv'
  <1>0. /\ req[p].pc \in {"rename", "again"} /\ req[p].kind = "fb" /\ PlaceOK(p)
        /\ req[p].file \in Inodes /\ req[p].file # NoFile
        /\ UNCHANGED <<parts, copied, shared, upsets, crashes>>
        /\ p \notin Downloading /\ req[p].pc \notin Fetching /\ req[p].pc # "install"
    BY DEF Rename, TypeOK, Request, FilesInv, PlaceOK, Downloading, Fetching
  <1>1. ~shared => OwnFileOK(p)
    BY DEF FilesInv
  <1>2. CASE tmp # NoFile
    <2>1. /\ dest' = tmp /\ tmp' = NoFile
          /\ req' = [req EXCEPT ![p].pc = "mark", ![p].file = NoFile]
      BY <1>2 DEF Rename
    <2>2. Becomes(p, "mark", NoFile, req[p].tries)
      <3>1. req[p] \in Request
        BY DEF TypeOK
      <3>2. req' = [req EXCEPT ![p] = [req[p] EXCEPT !.pc = "mark", !.file = NoFile,
                                                      !.tries = req[p].tries]]
        BY <2>1, <3>1 DEF Request
      <3> QED BY <3>2, GoesBecomes
    <2>3. \A q \in Procs : q = p \/ req'[q] = req[q]
      BY <2>2 DEF Becomes
    <2>4. ASSUME NEW q \in Procs PROVE PlaceOK(q)'
      <3>1. CASE q = p
        BY <1>0, <2>2, <3>1 DEF PlaceOK, Becomes, Fetching
      <3>2. CASE req'[q] = req[q]
        BY <1>0, <2>4, <3>2 DEF PlaceOK, FilesInv
      <3> QED BY <2>3, <3>1, <3>2
    <2>5. ASSUME ~shared', NEW q \in Procs PROVE OwnFileOK(q)'
      <3>1. ~shared /\ OwnFileOK(p) /\ OwnFileOK(q) /\ PlaceOK(q)
        BY <1>0, <2>5 DEF FilesInv
      <3>2. CASE q = p
        BY <2>2, <3>2 DEF OwnFileOK, Becomes
      <3>3. CASE q # p
        <4>1. req'[q] = req[q]
          BY <2>3, <3>3
        <4>2. req[q].file # NoFile => req[q].kind # "fb"
          BY <1>0, <3>1, <3>3 DEF OwnFileOK
        <4> QED BY <1>0, <2>2, <2>3, <3>1, <3>3, <4>1, <4>2 DEF OwnFileOK, Becomes
      <3> QED BY <3>2, <3>3
    <2>6. BinaryOK'
      <3>1. PICK g : g = tmp /\ g = dest'
        BY <2>1
      <3>2. ~shared => parts[g] = Whole
        BY <1>0, <1>1, <3>1 DEF OwnFileOK, Fetching
      <3>3. upsets + crashes = 0 => Covered(g)
        BY <1>2, <3>1 DEF FilesInv, BinaryOK
      <3>4. Covered(g) => Covered(g)'
        BY <1>0, <2>3 DEF Covered, Using, Fetching
      <3>5. /\ dest' = NoFile \/ dest' # tmp'
            /\ ~shared' => parts'[dest'] = Whole
        BY <1>0, <2>1, <3>1, <3>2
      <3>6. ASSUME upsets' + crashes' = 0, NEW f \in {tmp', dest'} \ {NoFile} PROVE Covered(f)'
        <4>1. f = g
          BY <2>1, <3>1, <3>6
        <4>2. Covered(g)'
          BY <1>0, <3>3, <3>4, <3>6
        <4> QED BY <4>1, <4>2
      <3> QED BY <3>5, <3>6 DEF BinaryOK
    <2>7. AdminerOK'
      <3>1. Downloading' = Downloading
        BY <1>0, <2>2, <2>3 DEF Downloading, Becomes
      <3>2. \A q \in Procs : req'[q].pc = "install" => req'[q] = req[q]
        BY <2>2, <2>3 DEF Becomes
      <3> QED BY <1>0, <3>1, <3>2 DEF FilesInv, AdminerOK
    <2>8. AdminerWhole'
      BY <1>0 DEF FilesInv, AdminerWhole
    <2> QED BY <2>4, <2>5, <2>6, <2>7, <2>8 DEF FilesInv
  <1>3. CASE tmp = NoFile
    <2>1. shared /\ UNCHANGED <<tmp, dest>>
      BY <1>0, <1>1, <1>3 DEF Rename, OwnFileOK
    <2>2. Goto(p, "remove") \/ End(p)
      BY <1>3 DEF Rename
    <2>3. CASE Goto(p, "remove")
      <3>1. Becomes(p, "remove", req[p].file, req[p].tries)
        BY <2>3, GotoBecomes
      <3>2. \A q \in Procs : q = p \/ req'[q] = req[q]
        BY <3>1 DEF Becomes
      <3>3. ASSUME NEW q \in Procs PROVE PlaceOK(q)'
        <4>1. CASE q = p
          BY <1>0, <3>1, <4>1 DEF PlaceOK, Becomes, Fetching
        <4>2. CASE req'[q] = req[q]
          BY <1>0, <3>3, <4>2 DEF PlaceOK, FilesInv
        <4> QED BY <3>2, <4>1, <4>2
      <3>4. BinaryOK'
        <4>1. ASSUME NEW f, Covered(f) PROVE Covered(f)'
          BY <1>0, <3>2, <4>1 DEF Covered, Using, Fetching
        <4> QED BY <1>0, <2>1, <4>1 DEF FilesInv, BinaryOK
      <3>5. shared' /\ AdminerOK' /\ AdminerWhole'
        BY <1>0, <2>1 DEF AdminerOK, AdminerWhole
      <3> QED BY <3>3, <3>4, <3>5 DEF FilesInv
    <2>4. CASE End(p)
      <3>1. /\ \A q \in Procs \ {p} : req'[q] = req[q]
            /\ Resting(req'[p]) /\ req'[p].tries = 0 /\ 0 <= upsets
        BY <2>4, EndRests DEF TypeOK
      <3>2. upsets <= upsets /\ crashes <= crashes
        BY DEF TypeOK
      <3> QED BY <1>0, <2>1, <3>1, <3>2, RestKeeps
    <2> QED BY <2>2, <2>3, <2>4
  <1> QED BY <1>2, <1>3

LEMMA KeepsRemove ==
    ASSUME SidecarsAssumption, TypeOK, TypeOK', FilesInv, NEW p \in Procs, Remove(p)
    PROVE  FilesInv'
  <1>0. /\ req[p].pc = "remove" /\ req[p].kind = "fb" /\ PlaceOK(p) /\ req[p].file # NoFile
        /\ dest' = NoFile /\ UNCHANGED <<parts, tmp, copied, shared, upsets, crashes>>
    BY DEF Remove, TypeOK, Request, FilesInv, PlaceOK, Fetching
  <1>1. shared /\ shared'
    BY <1>0 DEF FilesInv, OwnFileOK
  <1>2. Becomes(p, "again", req[p].file, req[p].tries)
    BY GotoBecomes DEF Remove
  <1>3. \A q \in Procs : q = p \/ req'[q] = req[q]
    BY <1>2 DEF Becomes
  <1>4. ASSUME NEW q \in Procs PROVE PlaceOK(q)'
    <2>1. CASE q = p
      BY <1>0, <1>2, <2>1 DEF PlaceOK, Becomes, Fetching
    <2>2. CASE req'[q] = req[q]
      BY <1>0, <1>4, <2>2 DEF PlaceOK, FilesInv
    <2> QED BY <1>3, <2>1, <2>2
  <1>5. BinaryOK'
    <2>1. ASSUME NEW f, Covered(f) PROVE Covered(f)'
      BY <1>0, <1>3, <2>1 DEF Covered, Using
    <2> QED BY <1>0, <1>1, <2>1 DEF FilesInv, BinaryOK
  <1>6. AdminerOK' /\ AdminerWhole'
    BY <1>1 DEF AdminerOK, AdminerWhole
  <1> QED BY <1>1, <1>4, <1>5, <1>6 DEF FilesInv

(* The steps after which a request holds nothing, and did not download.    *)
LEMMA KeepsElsewhere ==
    ASSUME SidecarsAssumption, TypeOK, TypeOK', FilesInv,
           UNCHANGED <<parts, tmp, dest, copied, shared, crashes>>, upsets <= upsets',
           NEW p \in Procs, req[p].pc \notin {"create", "head", "tail"},
           \A q \in Procs \ {p} : req'[q] = req[q],
           Resting(req'[p]), req'[p].tries <= upsets
    PROVE  FilesInv'
  <1>1. /\ crashes <= crashes' /\ req'[p].tries <= upsets'
        /\ p \notin Downloading /\ req[p].pc \notin Fetching
    BY DEF TypeOK, Request, SidecarsAssumption, Downloading, Fetching
  <1> QED BY <1>1, RestKeeps

LEMMA KeepsQuiet ==
    ASSUME SidecarsAssumption, TypeOK, TypeOK', FilesInv, NEW p \in Procs,
           Mark(p) \/ AgentError(p) \/ Lock(p) \/ Spawn(p) \/ Poll(p)
    PROVE  FilesInv'
  <1>0. /\ req[p].pc \in {"mark", "install", "ensure", "lock", "spawn", "poll"}
        /\ UNCHANGED <<parts, tmp, dest, copied, shared, crashes, upsets>>
        /\ upsets \in Nat /\ req[p] \in Request /\ PlaceOK(p)
    BY DEF Mark, AgentError, Lock, Spawn, Poll, files, TypeOK, FilesInv
  <1>1. upsets <= upsets' /\ req[p].tries <= upsets /\ req[p].pc \notin {"create", "head", "tail"}
    BY <1>0 DEF PlaceOK
  <1>2. CASE End(p)
    <2>1. /\ \A q \in Procs \ {p} : req'[q] = req[q]
          /\ Resting(req'[p]) /\ req'[p].tries <= upsets
      BY <1>0, <1>2, EndRests
    <2> QED BY <1>0, <1>1, <2>1, KeepsElsewhere
  <1>3. ASSUME NEW pc \in {"lock", "poll"}, Goto(p, pc), req[p].pc # "install"
        PROVE  FilesInv'
    <2>1. Becomes(p, pc, req[p].file, req[p].tries)
      BY <1>3, GotoBecomes
    <2>2. Resting(req'[p]) /\ req'[p].tries <= upsets /\ \A q \in Procs \ {p} : req'[q] = req[q]
      BY <1>0, <1>1, <1>3, <2>1 DEF Resting, Becomes, PlaceOK, Fetching
    <2> QED BY <1>0, <1>1, <2>2, KeepsElsewhere
  <1>4. ASSUME NEW n \in 0..MaxStarts, req[p].pc = "lock",
               req' = [req EXCEPT ![p].pc = "spawn", ![p].start = n]
        PROVE  FilesInv'
    <2>1. req' = [req EXCEPT ![p] = [req[p] EXCEPT !.pc = "spawn", !.start = n]]
      BY <1>4
    <2>2. /\ req'[p] = [req[p] EXCEPT !.pc = "spawn", !.start = n]
          /\ \A q \in Procs \ {p} : req'[q] = req[q]
      BY <2>1 DEF TypeOK
    <2>3. /\ req'[p].pc = "spawn" /\ req'[p].file = req[p].file /\ req'[p].tries = req[p].tries
      BY <1>0, <2>2 DEF Request
    <2>4. Resting(req'[p]) /\ req'[p].tries <= upsets
      BY <1>0, <1>1, <1>4, <2>3 DEF Resting, PlaceOK, Fetching
    <2> QED BY <1>0, <1>1, <2>2, <2>4, KeepsElsewhere
  <1>5. CASE Mark(p) \/ AgentError(p)
    BY <1>2, <1>3, <1>5 DEF Mark, AgentError
  <1>6. CASE Spawn(p)
    BY <1>2, <1>3, <1>6 DEF Spawn, Answer
  <1>7. CASE Poll(p)
    BY <1>2, <1>7 DEF Poll, Answer
  <1>8. CASE Lock(p)
    <2>1. \/ End(p)
          \/ /\ started < MaxStarts
             /\ req' = [req EXCEPT ![p].pc = "spawn", ![p].start = started + 1]
      BY <1>8 DEF Lock, Reuse, Replace, FreePort, Answer
    <2>2. started < MaxStarts => started + 1 \in 0..MaxStarts
      BY DEF TypeOK, SidecarsAssumption
    <2>3. req[p].pc = "lock"
      BY <1>8 DEF Lock
    <2> QED BY <1>2, <1>4, <2>1, <2>2, <2>3
  <1> QED BY <1>5, <1>6, <1>7, <1>8

LEMMA FilesStep ==
    ASSUME SidecarsAssumption, TypeOK, TypeOK', RootsOK, FilesInv, [Next]_vars
    PROVE  FilesInv'
  <1>0. upsets \in Nat /\ crashes \in Nat
    BY DEF TypeOK
  <1>1. ASSUME NEW p \in Procs, NEW k \in Kinds, NEW r \in Roots, Open(p, k, r)
        PROVE  FilesInv'
    <2> DEFINE x == [Idle EXCEPT !.pc = "ensure", !.kind = k, !.root = r]
    <2>1. x.pc = "ensure" /\ x.file = NoFile /\ x.tries = 0
      BY DEF Idle
    <2> HIDE DEF x
    <2>2. req' = [req EXCEPT ![p] = x] /\ req[p].pc = "idle"
      BY <1>1 DEF Open, x
    <2>3. /\ \A q \in Procs \ {p} : req'[q] = req[q]
          /\ Resting(req'[p]) /\ req'[p].tries <= upsets
      BY <1>0, <2>1, <2>2 DEF TypeOK, Resting, Fetching
    <2>4. UNCHANGED <<parts, tmp, dest, copied, shared, crashes>> /\ upsets <= upsets'
      BY <1>0, <1>1 DEF Open, files
    <2> QED BY <2>2, <2>3, <2>4, KeepsElsewhere
  <1>2. ASSUME NEW p \in Procs, Handle(p)
        PROVE  FilesInv'
    BY <1>2, KeepsEnsure, KeepsCreate, KeepsWrite, KeepsCut, KeepsRename, KeepsRemove,
       KeepsInstall, KeepsQuiet DEF Handle
  <1>3. ASSUME UNCHANGED <<parts, tmp, dest, copied, shared, req, crashes>>, upsets <= upsets'
        PROVE  FilesInv'
    BY <1>0, <1>3, RestKeeps
  <1>4. ASSUME \/ \E n \in Starts : Bind(n) \/ Die(n)
               \/ \E t \in Ports : Take(t)
        PROVE  FilesInv'
    <2>1. UNCHANGED <<parts, tmp, dest, copied, shared, req, crashes>> /\ upsets <= upsets'
      BY <1>0, <1>4 DEF Bind, Die, Take, files
    <2> QED BY <1>3, <2>1
  <1>5. CASE Crash
    <2>1. \A q \in Procs : req'[q] = Idle
      BY <1>5 DEF Crash
    <2>2. Resting(Idle) /\ Idle.tries = 0
      BY DEF Resting, Idle, Fetching
    <2>3. /\ UNCHANGED <<parts, tmp, dest, copied, shared>> /\ upsets <= upsets' /\ crashes <= crashes'
          /\ crashes' # 0 /\ upsets' + crashes' # 0 /\ 0 <= upsets'
      BY <1>0, <1>5 DEF Crash, files
    <2> QED BY <2>1, <2>2, <2>3, RestKeeps
  <1>6. CASE UNCHANGED vars
    <2>1. UNCHANGED <<parts, tmp, dest, copied, shared, req, crashes>> /\ upsets <= upsets'
      BY <1>0, <1>6 DEF vars, files
    <2> QED BY <1>3, <2>1
  <1> QED BY <1>1, <1>2, <1>4, <1>5, <1>6 DEF Next

THEOREM FilesInvariant == SidecarsAssumption => (Spec => []FilesInv)
  <1> SUFFICES ASSUME SidecarsAssumption PROVE Spec => []FilesInv
    OBVIOUS
  <1>1. Init => FilesInv
    BY FilesStart
  <1>2. ProcessInv /\ ProcessInv' /\ FilesInv /\ [Next]_vars => FilesInv'
    BY FilesStep DEF ProcessInv
  <1>3. Spec => []ProcessInv
    BY ProcessInvariant
  <1> QED BY <1>1, <1>2, <1>3, PTL DEF Spec

(* The binary that is run is whole, or some request is about to complete   *)
(* it, or two requests downloaded at once and one of them was cut short:   *)
(* nothing but the rename of filebrowser.tmp in EnsureFilebrowserBin puts  *)
(* a file there.                                                           *)
THEOREM WholeBinary == SidecarsAssumption => (Spec => []BinaryWhole)
  <1>1. TypeOK /\ FilesInv => BinaryWhole
    <2> SUFFICES ASSUME TypeOK, FilesInv, dest # NoFile PROVE BinaryWhole
      BY DEF BinaryWhole
    <2>1. CASE ~shared
      BY <2>1 DEF FilesInv, BinaryOK, BinaryWhole
    <2>2. CASE upsets + crashes = 0
      <3>1. Covered(dest)
        BY <2>2 DEF FilesInv, BinaryOK
      <3> QED BY <3>1 DEF Covered, BinaryWhole, Writing
    <2>3. CASE shared /\ upsets + crashes # 0
      <3>1. upsets + crashes > 0
        BY <2>3 DEF TypeOK
      <3> QED BY <2>3, <3>1 DEF BinaryWhole
    <2> QED BY <2>1, <2>2, <2>3
  <1> QED BY <1>1, FilesInvariant, SidecarsKeepTypes, PTL

(* Every adminer.php copied into a site is whole while no file was shared, *)
(* an address is left, and the API has not crashed: EnsureAdminerPHP can   *)
(* only accept by its size a file somebody finished.                       *)
THEOREM WholeAdminer == SidecarsAssumption => (Spec => []AdminerWhole)
  <1>1. FilesInv => AdminerWhole
    BY DEF FilesInv
  <1> QED BY <1>1, FilesInvariant, PTL
==============================================================================
