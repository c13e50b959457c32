---------------------------- MODULE ServersProofs ----------------------------
(***************************************************************************)
(* What holds of model servers and of the files they are started from, for *)
(* any number of processes, kinds of server, blocks, attempts and          *)
(* revisions.                                                              *)
(***************************************************************************)
EXTENDS Servers, TLAPS

(* Who runs what, and which processes the history variables hold.           *)
ServersType ==
  /\ uses \in [Pids -> Kinds \cup {"other", None}]
  /\ sentinel \in [Kinds -> Pids \cup {None}]
  /\ run \in {"none", "swept", "starting", "up"}
  /\ by \in {"worker", "session", None}
  /\ ready \subseteq Kinds /\ waiting \in Kinds \cup {None}
  /\ stop \in {"no", "term", "pkill", "done"} /\ doomed \in BOOLEAN
  /\ spawned \subseteq Pids /\ condemned \subseteq Pids /\ died \subseteq Pids

(* Only a run that is starting or up was launched or is waiting.            *)
RunShape ==
  /\ run \in {"none", "swept"} => by = None /\ waiting = None /\ ~doomed
  /\ waiting # None => sentinel[waiting] # None

(* After the worker's sweep, a sentinel names a living process or one that  *)
(* died since.                                                              *)
Swept ==
  run = "swept" \/ by = "worker" =>
    \A k \in Kinds : sentinel[k] # None =>
      Alive(sentinel[k]) \/ sentinel[k] \in died

(* The servers a stop is about are alive; once the run is gone they become  *)
(* no more; and pkill ends those that are llama-servers.                    *)
Condemnation ==
  /\ \A p \in spawned \cup condemned : Alive(p)
  /\ doomed => stop = "term"
  /\ stop = "done" => \A p \in condemned : uses[p] # Llama

SInv == ServersType /\ RunShape /\ Swept

LEMMA SInvInit == Init => SInv
  BY ServersAssumption
  DEF Init, ServersInit, SInv, ServersType, RunShape, Swept

LEMMA EndKeeps ==
  ASSUME SInv, NEW P \in SUBSET Pids, End(P)
  PROVE  /\ uses' \in [Pids -> Kinds \cup {"other", None}]
         /\ died' \subseteq Pids /\ died \subseteq died'
         /\ spawned' \subseteq Pids /\ condemned' \subseteq Pids
         /\ \A p \in Pids : Alive(p) => Alive(p)' \/ p \in died'
         /\ \A p \in Pids : p \notin P => uses'[p] = uses[p]
         /\ spawned' = spawned \ P /\ condemned' = condemned \ P
  BY DEF SInv, ServersType, End, Alive

(* Whatever ends a run: what is left of it. *)
LEMMA NoRunShape ==
  ASSUME SInv, NoRun
  PROVE  /\ run' = "none" /\ by' = None /\ ready' \subseteq Kinds
         /\ waiting' \in Kinds \cup {None} /\ doomed' \in BOOLEAN
         /\ RunShape' /\ Swept'
  BY ServersAssumption DEF NoRun, RunShape, Swept

LEMMA SInvStep == SInv /\ [Next]_vars => SInv'
<1> SUFFICES ASSUME SInv, [Next]_vars PROVE SInv'
  OBVIOUS
<1> USE ServersAssumption
<1>1. CASE Sweep
  BY <1>1 DEF SInv, ServersType, RunShape, Swept, Sweep, Stale, Alive
<1>2. ASSUME NEW who \in {"worker", "session"}, Launch(who) PROVE SInv'
  BY <1>2 DEF SInv, ServersType, RunShape, Swept, Launch, Alive
<1>3. ASSUME NEW k \in Kinds, Attach(k) PROVE SInv'
  BY <1>3 DEF SInv, ServersType, RunShape, Swept, Attach, Wanting, Alive
<1>4. ASSUME NEW k \in Kinds, NEW p \in Pids, Spawn(k, p) PROVE SInv'
  BY <1>4 DEF SInv, ServersType, RunShape, Swept, Spawn, Wanting, Alive
<1>5. ASSUME NEW k \in Kinds, SpawnFails(k) PROVE SInv'
  BY <1>5, NoRunShape DEF SInv, ServersType, SpawnFails
<1>6. CASE AllReady
  BY <1>6 DEF SInv, ServersType, RunShape, Swept, AllReady, Alive
<1>7. ASSUME NEW P \in SUBSET Pids, NEW K \in SUBSET Kinds, RunEnds(P, K) PROVE SInv'
  BY <1>7, EndKeeps, NoRunShape DEF SInv, ServersType, RunEnds
<1>8. CASE RunDies
  BY <1>8, NoRunShape DEF SInv, ServersType, RunDies
<1>9. CASE StopRun
  BY <1>9 DEF SInv, ServersType, RunShape, Swept, StopRun, Alive
<1>10. CASE ForceLeftovers
  <2>1. CASE doomed
    BY <1>10, <2>1, NoRunShape DEF SInv, ServersType, ForceLeftovers
  <2>2. CASE ~doomed
    BY <1>10, <2>2 DEF SInv, ServersType, RunShape, Swept, ForceLeftovers, Alive, runvars
  <2> QED BY <2>1, <2>2
<1>11. ASSUME NEW works \in BOOLEAN, Pkill(works) PROVE SInv'
  <2>1. CASE works
    <3> DEFINE P == {p \in Pids : uses[p] = Llama}
    <3>1. End(P) /\ P \in SUBSET Pids
      BY <1>11, <2>1 DEF Pkill
    <3>2. UNCHANGED <<sentinel, run, by, ready, waiting, doomed>> /\ stop' = "done"
      BY <1>11 DEF Pkill, runvars
    <3> HIDE DEF P
    <3> QED BY <3>1, <3>2, EndKeeps DEF SInv, ServersType, RunShape, Swept
  <2>2. CASE ~works
    BY <1>11, <2>2 DEF SInv, ServersType, RunShape, Swept, Pkill, Alive, runvars
  <2> QED BY <2>1, <2>2
<1>12. ASSUME NEW p \in Pids, ProcessEnds(p) PROVE SInv'
  <2>1. End({p}) /\ {p} \in SUBSET Pids
    BY <1>12 DEF ProcessEnds
  <2>2. UNCHANGED <<sentinel, run, by, ready, waiting, doomed, stop>>
    BY <1>12 DEF ProcessEnds, runvars
  <2> QED BY <2>1, <2>2, EndKeeps DEF SInv, ServersType, RunShape, Swept
<1>13. ASSUME NEW p \in Pids, OtherStarts(p) PROVE SInv'
  BY <1>13 DEF SInv, ServersType, RunShape, Swept, OtherStarts, Alive, runvars
<1>14. CASE OwnerActs
  BY <1>14 DEF SInv, ServersType, RunShape, Swept, OwnerActs, Alive, runvars
<1>15. CASE UNCHANGED svars
  BY <1>15 DEF SInv, ServersType, RunShape, Swept, Alive, svars, runvars
<1> QED
  BY <1>1, <1>2, <1>3, <1>4, <1>5, <1>6, <1>7, <1>8, <1>9, <1>10, <1>11, <1>12,
     <1>13, <1>14, <1>15
  DEF Next, MachineStep, RunStep, UserStep, vars

(* A run launched by the worker never waits for a server that was gone when *)
(* the sentinels were swept (jobs.py:146-177, worker.py:131-136).           *)
THEOREM TheSweepSpares == Spec => []WaitsOnlyForTheNewlyDead
<1>1. SInv => WaitsOnlyForTheNewlyDead
  BY ServersAssumption DEF SInv, ServersType, RunShape, Swept, WaitsOnlyForTheNewlyDead
<1> QED BY SInvInit, SInvStep, <1>1, PTL DEF Spec
------------------------------------------------------------------------------
LEMMA CondemnationInit == Init => Condemnation
  BY DEF Init, ServersInit, Condemnation

LEMMA EndCondemns ==
  ASSUME SInv, Condemnation, NEW P \in SUBSET Pids, End(P),
         doomed' => stop' = "term", stop' = "done" => stop = "done"
  PROVE  Condemnation'
<1>1. \A p \in spawned' \cup condemned' :
         p \in Pids /\ p \in spawned \cup condemned /\ uses'[p] = uses[p]
  BY EndKeeps DEF SInv, ServersType
<1>2. condemned' \subseteq condemned
  BY EndKeeps
<1> QED BY <1>2, <1>1 DEF Condemnation, Alive

LEMMA CondemnationStep ==
  ASSUME ~PkillFails
  PROVE  SInv /\ Condemnation /\ [Next]_vars => Condemnation'
<1> SUFFICES ASSUME SInv, Condemnation, [Next]_vars PROVE Condemnation'
  OBVIOUS
<1> USE ServersAssumption
<1>1. CASE Sweep
  BY <1>1 DEF SInv, ServersType, RunShape, Condemnation, Sweep, Alive
<1>2. ASSUME NEW who \in {"worker", "session"}, Launch(who) PROVE Condemnation'
  BY <1>2 DEF SInv, ServersType, Condemnation, Launch, Alive
<1>3. ASSUME NEW k \in Kinds, Attach(k) PROVE Condemnation'
  BY <1>3 DEF Condemnation, Attach, Alive
<1>4. ASSUME NEW k \in Kinds, NEW p \in Pids, Spawn(k, p) PROVE Condemnation'
  <2>1. p \notin spawned \cup condemned /\ uses' = [uses EXCEPT ![p] = k]
        /\ ~(k = None) /\ UNCHANGED <<doomed, stop>>
        /\ spawned' = spawned \cup {p}
        /\ condemned' = IF doomed THEN condemned \cup {p} ELSE condemned
    BY <1>4 DEF Condemnation, Spawn, Alive
  <2>2. \A q \in spawned \cup condemned : uses'[q] = uses[q] /\ q \in Pids
    BY <2>1 DEF SInv, ServersType
  <2>3. uses'[p] = k
    BY <2>1 DEF SInv, ServersType
  <2> QED BY <2>1, <2>2, <2>3 DEF Condemnation, Alive
<1>5. ASSUME NEW k \in Kinds, SpawnFails(k) PROVE Condemnation'
  BY <1>5 DEF Condemnation, SpawnFails, NoRun, Alive
<1>6. CASE AllReady
  BY <1>6 DEF Condemnation, AllReady, Alive
<1>7. ASSUME NEW P \in SUBSET Pids, NEW K \in SUBSET Kinds, RunEnds(P, K)
      PROVE  Condemnation'
  BY <1>7, EndCondemns DEF RunEnds, NoRun
<1>8. CASE RunDies
  BY <1>8 DEF Condemnation, RunDies, NoRun, Alive
<1>9. CASE StopRun
  BY <1>9 DEF Condemnation, StopRun, Alive
<1>10. CASE ForceLeftovers
  BY <1>10 DEF Condemnation, ForceLeftovers, NoRun, runvars, Alive
<1>11. ASSUME NEW works \in BOOLEAN, Pkill(works) PROVE Condemnation'
  <2> DEFINE P == {p \in Pids : uses[p] = Llama}
  <2>1. End(P) /\ P \in SUBSET Pids /\ stop = "pkill" /\ doomed' = doomed
    BY <1>11 DEF Pkill, runvars
  <2>2. \A p \in spawned' \cup condemned' :
           p \in Pids /\ p \notin P /\ p \in spawned \cup condemned
           /\ uses'[p] = uses[p]
    BY <2>1, EndKeeps DEF SInv, ServersType
  <2> QED BY <2>1, <2>2 DEF Condemnation, Alive
<1>12. ASSUME NEW p \in Pids, ProcessEnds(p) PROVE Condemnation'
  BY <1>12, EndCondemns DEF ProcessEnds, runvars, Condemnation
<1>13. ASSUME NEW p \in Pids, OtherStarts(p) PROVE Condemnation'
  <2>1. p \notin spawned \cup condemned /\ uses' = [uses EXCEPT ![p] = "other"]
        /\ UNCHANGED <<doomed, stop, spawned, condemned>>
    BY <1>13 DEF Condemnation, OtherStarts, Alive, runvars
  <2>2. \A q \in spawned \cup condemned : uses'[q] = uses[q] /\ q \in Pids
    BY <2>1 DEF SInv, ServersType
  <2> QED BY <2>1, <2>2 DEF Condemnation, Alive
<1>14. CASE OwnerActs
  BY <1>14 DEF Condemnation, OwnerActs, Alive, runvars
<1>15. CASE UNCHANGED svars
  BY <1>15 DEF Condemnation, Alive, svars, runvars
<1> QED
  BY <1>1, <1>2, <1>3, <1>4, <1>5, <1>6, <1>7, <1>8, <1>9, <1>10, <1>11, <1>12,
     <1>13, <1>14, <1>15
  DEF Next, MachineStep, RunStep, UserStep, vars

(* If pkill works, a stop that is over has left no llama-server of the run  *)
(* it stopped, not even one started after its SIGTERM (jobs.py:280-303).    *)
THEOREM AStopLeavesNoServer ==
  ASSUME ~PkillFails
  PROVE  Spec => []NoServerLeftBehind
<1>1. Condemnation => NoServerLeftBehind
  BY DEF Condemnation, NoServerLeftBehind
<1>2. Init => SInv /\ Condemnation
  BY SInvInit, CondemnationInit
<1>3. SInv /\ Condemnation /\ [Next]_vars => (SInv /\ Condemnation)'
  BY SInvStep, CondemnationStep
<1> QED BY <1>1, <1>2, <1>3, PTL DEF Spec
------------------------------------------------------------------------------
(* A partial file holds a beginning of its file and nothing else; one that  *)
(* is about to get the file's name holds all of it; and whatever has a      *)
(* name or is linked is whole.                                              *)
WholeFile == [size |-> Size, clean |-> TRUE]
Parts == {Absent} \cup [size : 0..Size, clean : {TRUE}]

Stages == {"off", "authed", "fetch", "rename", "link", "hub"}

FetchInv ==
  /\ latest \in 1..Revisions
  /\ blobs \in [Etags -> {Absent, WholeFile}]
  /\ partials \in [Etags -> Parts]
  /\ snapshots \subseteq 1..Revisions
  /\ \A c \in snapshots : blobs[Etag[c]] = WholeFile
  /\ warm \in [pc : Stages, commit : 0..Revisions, tries : Nat]
  /\ warm.pc # "off" => warm.commit \in 1..Revisions
  /\ warm.pc = "rename" => partials[Id] = WholeFile
  /\ warm.pc = "link" => blobs[Id] = WholeFile

LEMMA HaveType ==
  ASSUME NEW f \in Parts
  PROVE  /\ Have(f) \in 0..Size /\ f.clean = TRUE
         /\ Have(f) = Size => f = WholeFile
<1> USE WarmupAssumption
<1>1. CASE f = Absent
  BY <1>1 DEF Have, Absent
<1>2. CASE f # Absent
  <2>1. f \in [size : 0..Size, clean : {TRUE}] /\ Have(f) = f.size
    BY <1>2 DEF Parts, Have
  <2>2. f.size \in 0..Size /\ f.clean = TRUE /\ f = [size |-> f.size, clean |-> f.clean]
    BY <2>1
  <2> QED BY <2>1, <2>2 DEF WholeFile
<1> QED BY <1>1, <1>2

LEMMA OffType ==
  Off \in [pc : Stages, commit : 0..Revisions, tries : Nat] /\ Off.pc = "off"
  BY WarmupAssumption DEF Off, Stages

LEMMA EtagType == \A c \in 1..Revisions : Etag[c] \in Etags
  BY DEF Etags

LEMMA FetchStep ==
  ASSUME ~ErrorPages
  PROVE  FetchInv /\ [Next]_vars => FetchInv'
<1> SUFFICES ASSUME FetchInv, [Next]_vars PROVE FetchInv'
  OBVIOUS
<1> USE WarmupAssumption, EtagType DEF Stages
<1>1. CASE Publish
  BY <1>1 DEF FetchInv, Publish, Id
<1>2. CASE Authed
  BY <1>2 DEF FetchInv, Authed, Id, Off
<1>3. CASE Look
  <2>1. PICK pc \in {IF Have(blobs[Etag[latest]]) = Size THEN "link" ELSE "fetch", "hub"} :
          warm' = [pc |-> pc, commit |-> latest, tries |-> 0]
    BY <1>3 DEF Look
  <2>2. blobs[Etag[latest]] \in {Absent, WholeFile}
    BY DEF FetchInv
  <2>3. Have(blobs[Etag[latest]]) = Size => blobs[Etag[latest]] = WholeFile
    BY <2>2 DEF Have, Absent, WholeFile
  <2>4. UNCHANGED <<latest, blobs, partials, snapshots>>
    BY <1>3 DEF Look
  <2> QED BY <2>1, <2>3, <2>4 DEF FetchInv, Id
<1>4. CASE Curl
  <2>1. PICK n \in 0..(Size - Have(partials[Id])) :
          partials' = [partials EXCEPT ![Id] =
                         [size |-> Have(@) + n, clean |-> @.clean]]
    BY <1>4 DEF Curl
  <2>2. Id \in Etags /\ partials[Id] \in Parts
    BY <1>4 DEF FetchInv, Curl, Id
  <2>3. partials[Id].clean = TRUE
    BY <2>2, HaveType
  <2>4. Have(partials[Id]) \in 0..Size
    BY <2>2, HaveType
  <2>5. [size |-> Have(partials[Id]) + n, clean |-> partials[Id].clean] \in Parts
    <3>1. n \in Int /\ Have(partials[Id]) + n \in 0..Size
      BY <2>4
    <3> QED BY <2>3, <3>1 DEF Parts
  <2>6. partials' \in [Etags -> Parts]
    BY <2>1, <2>5 DEF FetchInv
  <2>7. warm' = [warm EXCEPT !.tries = @ + 1] /\ warm.pc = "fetch"
        /\ UNCHANGED <<latest, blobs, snapshots>>
    BY <1>4 DEF Curl
  <2>8. warm'.pc = "fetch" /\ warm'.commit = warm.commit
    BY <2>7 DEF FetchInv
  <2> QED BY <2>6, <2>7, <2>8 DEF FetchInv, Off
<1>5. CASE Fetched
  <2>1. warm' = [warm EXCEPT !.pc = IF Whole THEN "rename" ELSE "hub"]
        /\ warm.pc = "fetch" /\ UNCHANGED <<latest, blobs, partials, snapshots>>
    BY <1>5 DEF Fetched
  <2>2. warm'.commit = warm.commit /\ warm.commit \in 1..Revisions
        /\ warm'.pc \in {"rename", "hub"} /\ (warm'.pc = "rename" => Whole)
    BY <2>1 DEF FetchInv
  <2>3. Whole => partials[Id] = WholeFile
    BY <2>2, HaveType DEF Whole, Id, FetchInv
  <2> QED BY <2>1, <2>2, <2>3 DEF FetchInv, Id, Off
<1>6. CASE Rename
  <2>1. warm.pc = "rename" /\ Id \in Etags /\ partials[Id] = WholeFile
    BY <1>6 DEF Rename, FetchInv, Id
  <2>2. blobs' = [blobs EXCEPT ![Id] = WholeFile]
        /\ partials' = [partials EXCEPT ![Id] = Absent]
        /\ warm' = [warm EXCEPT !.pc = "link"] /\ UNCHANGED <<latest, snapshots>>
    BY <1>6, <2>1 DEF Rename
  <2>3. warm'.pc = "link" /\ warm'.commit = warm.commit
    BY <2>2 DEF FetchInv
  <2>4. blobs' \in [Etags -> {Absent, WholeFile}] /\ partials' \in [Etags -> Parts]
    BY <2>2 DEF FetchInv, Parts
  <2>5. \A c \in snapshots : blobs'[Etag[c]] = WholeFile
    BY <2>2 DEF FetchInv
  <2>6. blobs'[Id] = WholeFile
    BY <2>1, <2>2 DEF FetchInv
  <2> QED BY <2>1, <2>2, <2>3, <2>4, <2>5, <2>6 DEF FetchInv, Id, Off
<1>7. CASE Link
  BY <1>7, OffType DEF FetchInv, Link, Id
<1>8. ASSUME NEW works \in BOOLEAN, HubClient(works) PROVE FetchInv'
  <2>1. Id \in Etags /\ warm.commit \in 1..Revisions
    BY <1>8 DEF HubClient, FetchInv, Id
  <2>2. CASE works
    <3>1. blobs' = [blobs EXCEPT ![Id] = WholeFile]
          /\ snapshots' = snapshots \cup {warm.commit}
          /\ warm' = Off /\ UNCHANGED <<latest, partials>>
      BY <1>8, <2>2 DEF HubClient, WholeFile
    <3>2. blobs' \in [Etags -> {Absent, WholeFile}]
      BY <3>1 DEF FetchInv
    <3>3. \A c \in snapshots' : blobs'[Etag[c]] = WholeFile
      BY <2>1, <3>1 DEF FetchInv, Id
    <3> QED BY <3>1, <3>2, <3>3, OffType, <2>1 DEF FetchInv
  <2>3. CASE ~works
    BY <1>8, <2>3, OffType DEF HubClient, FetchInv
  <2> QED BY <2>2, <2>3
<1>9. CASE WarmKilled
  BY <1>9, OffType DEF FetchInv, WarmKilled
<1>10. CASE UNCHANGED wvars
  BY <1>10 DEF FetchInv, wvars, Id
<1> QED
  BY <1>1, <1>2, <1>3, <1>4, <1>5, <1>6, <1>7, <1>8, <1>9, <1>10
  DEF Next, WarmNext, vars

(* If no error page gets into a file, what is linked for the model servers  *)
(* is a whole file, over any kills, resumptions and new revisions           *)
(* (warmup.py:105-145).                                                     *)
THEOREM LinkedIsWhole ==
  ASSUME ~ErrorPages
  PROVE  Spec => []LinkedMeansWhole
<1>1. Init => FetchInv
  BY WarmupAssumption DEF Init, WarmInit, FetchInv, Parts, Off, Stages
<1>2. FetchInv => LinkedMeansWhole
  BY DEF FetchInv, LinkedMeansWhole, WholeFile
<1> QED BY <1>1, <1>2, FetchStep, PTL DEF Spec
==============================================================================
