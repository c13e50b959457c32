------------------------------- MODULE Machine -------------------------------
(***************************************************************************)
(* The processes of the machine and the lock files that name them          *)
(* (bt.jobs): launching runs from the GUI, from workers and by hand;       *)
(* workers claiming and releasing their lock; stopping runs and workers;   *)
(* processes dying without cleaning up; pids being used again.  Every      *)
(* check (is that pid alive? is a run listed by ps?) is a step of its own, *)
(* before the step that acts on it, and any number of callers may be       *)
(* between the two.                                                        *)
(***************************************************************************)
EXTENDS Integers

CONSTANTS
  Pids,         \* numbers: ps lists lower ones first
  Folders,      \* output folders
  Sessions,     \* GUI sessions
  NoPid, NoFolder

ASSUME MachineAssumption ==
  /\ Pids \subseteq Nat
  /\ NoPid \notin Pids /\ NoFolder \notin Folders
  /\ Sessions \cap Pids = {}

VARIABLES
  kind,         \* pid -> "free", "run" (launched by bt.jobs), "hand" (a run
                \* started as python -m bt.run or bt.transcribe), "hidden" (one
                \* started as bt-transcribe), "worker" or "other"
  group,        \* pid -> the leader of its process group
  folder,       \* pid -> the output folder in a run's command line
  runLock,      \* folder -> the pid in .run.lock
  workerLock,   \* the pid in .worker.lock
  asked,        \* workers that have got SIGTERM
  pc,           \* caller (a session or a worker) -> where it is
  goal,         \* caller -> the folder it launches a run in, or clears
  hold,         \* caller -> the pids it is about to write down or to signal
  unseen,       \* history: caller -> launched runs that ps did not show it,
                \* because they are younger than its look or because ps failed
  rivals,       \* history: run -> what had been unseen when it was launched
  crossed       \* history: of the workers there are, have two been between
                \* look and claim at once?

procs == <<kind, group, folder>>
locks == <<runLock, workerLock>>
calls == <<pc, goal, hold>>
history == <<unseen, rivals, crossed>>
vars == <<procs, locks, asked, calls, history>>

Callers == Sessions \cup Pids
Alive(p) == p # NoPid /\ kind[p] # "free"
Free == {p \in Pids : kind[p] = "free"}
Launched == {p \in Pids : kind[p] = "run"}

(* What find_pipeline_processes makes of ps: a run started by its installed *)
(* name, bt-transcribe, has no "-m bt.transcribe" in its command line.      *)
Runs == {p \in Pids : kind[p] \in {"run", "hand"}}
Up == {p \in Pids : kind[p] = "worker" /\ pc[p] \notin {"born", "claim"}}
Least(S) == CHOOSE p \in S : \A q \in S : p <= q

Init ==
  /\ kind = [p \in Pids |-> "free"]
  /\ group = [p \in Pids |-> p]
  /\ folder = [p \in Pids |-> NoFolder]
  /\ runLock = [f \in Folders |-> NoPid]
  /\ workerLock = NoPid
  /\ asked = {}
  /\ pc = [c \in Callers |-> "idle"]
  /\ goal = [c \in Callers |-> NoFolder]
  /\ hold = [c \in Callers |-> {}]
  /\ unseen = [c \in Callers |-> {}]
  /\ rivals = [p \in Pids |-> {}]
  /\ crossed = FALSE

(* Processes in P appear as kind k, in one group.                           *)
Spawn(P, k, f) ==
  /\ kind' = [p \in Pids |-> IF p \in P THEN k ELSE kind[p]]
  /\ group' = [p \in Pids |-> IF p \in P THEN Least(P) ELSE group[p]]
  /\ folder' = [p \in Pids |-> IF p \in P THEN f ELSE folder[p]]

(* ...and disappear: whatever they had in memory goes with them.            *)
Vanish(P) ==
  /\ kind' = [p \in Pids |-> IF p \in P THEN "free" ELSE kind[p]]
  /\ group' = [p \in Pids |-> IF p \in P THEN p ELSE group[p]]
  /\ folder' = [p \in Pids |-> IF p \in P THEN NoFolder ELSE folder[p]]
  /\ asked' = asked \ P
  /\ unseen' = [c \in Callers |-> IF c \in P THEN {} ELSE unseen[c] \ P]
  /\ rivals' = [p \in Pids |-> IF p \in P THEN {} ELSE rivals[p] \ P]
  /\ crossed' = (crossed /\ \E p \in Pids \ P : kind[p] = "worker")

Reset(P) ==
  /\ pc' = [c \in Callers |-> IF c \in P THEN "idle" ELSE pc[c]]
  /\ goal' = [c \in Callers |-> IF c \in P THEN NoFolder ELSE goal[c]]
  /\ hold' = [c \in Callers |-> IF c \in P THEN {} ELSE hold[c]]

(* The call c is in is over.  (The slip: its arguments linger.)              *)
Linger(c) == /\ pc' = [pc EXCEPT ![c] = "idle"]
             /\ UNCHANGED <<goal, hold>>
Return(c) == Reset({c})

At(c, l) == pc' = [pc EXCEPT ![c] = l]
------------------------------------------------------------------------------
(* jobs.start, called by a GUI session or a worker that is up: the folder's *)
(* lock, then ps, then Popen, then the lock file.                           *)
CheckLock(c, f) ==
  /\ pc[c] = "idle"
  /\ c \in Sessions \/ c \in Up
  /\ ~Alive(runLock[f])
  /\ goal' = [goal EXCEPT ![c] = f]
  /\ At(c, "ps")
  /\ UNCHANGED <<procs, locks, asked, hold, history>>

(* The slip: to trust the lock file alone.                                  *)
PsIgnored(c) ==
  /\ pc[c] = "ps"
  /\ unseen' = [unseen EXCEPT ![c] = {}]
  /\ At(c, "popen")
  /\ UNCHANGED <<procs, locks, asked, goal, hold, rivals, crossed>>

PsClear(c) ==
  /\ pc[c] = "ps"
  /\ Runs = {}
  /\ unseen' = [unseen EXCEPT ![c] = {}]
  /\ At(c, "popen")
  /\ UNCHANGED <<procs, locks, asked, goal, hold, rivals, crossed>>

(* ps failing, or taking longer than 10 s, counts as nothing found.         *)
PsFails(c) ==
  /\ pc[c] = "ps"
  /\ unseen' = [unseen EXCEPT ![c] = Launched]
  /\ At(c, "popen")
  /\ UNCHANGED <<procs, locks, asked, goal, hold, rivals, crossed>>

PsRefuses(c) ==
  /\ pc[c] = "ps"
  /\ Runs # {}
  /\ Return(c)
  /\ UNCHANGED <<procs, locks, asked, history>>

Popen(c) ==
  /\ pc[c] = "popen"
  /\ \E p \in Free :
       /\ Spawn({p}, "run", goal[c])
       /\ hold' = [hold EXCEPT ![c] = {p}]
       /\ rivals' = [rivals EXCEPT ![p] = unseen[c]]
       /\ unseen' = [b \in Callers |-> IF b # c /\ pc[b] = "popen"
                                       THEN unseen[b] \cup {p} ELSE {}]
  /\ At(c, "lock")
  /\ UNCHANGED <<locks, asked, goal, crossed>>

WriteLock(c) ==
  /\ pc[c] = "lock"
  /\ runLock' = [runLock EXCEPT ![goal[c]] = Least(hold[c])]
  /\ Return(c)
  /\ UNCHANGED <<procs, workerLock, asked, history>>

(* Clear progress, offered where the lock names no process that is alive:   *)
(* it removes the lock after the folder's chunks, whatever it says by then. *)
WillClear(s, f) ==
  /\ pc[s] = "idle"
  /\ ~Alive(runLock[f])
  /\ goal' = [goal EXCEPT ![s] = f]
  /\ At(s, "clear")
  /\ UNCHANGED <<procs, locks, asked, hold, history>>

ClearLock(s) ==
  /\ pc[s] = "clear"
  /\ runLock' = [runLock EXCEPT ![goal[s]] = NoPid]
  /\ Return(s)
  /\ UNCHANGED <<procs, workerLock, asked, history>>

(* A run started in a terminal, `uv run python -m bt.run` or `uv run        *)
(* bt-transcribe`: the wrapper and its child, no lock, nothing checked.     *)
HandRun(f) ==
  /\ \E p, q \in Free, k \in {"hand", "hidden"} : p # q /\ Spawn({p, q}, k, f)
  /\ UNCHANGED <<locks, asked, calls, history>>

(* A run ends, by itself or because it was told to; so does its group.      *)
RunEnds(p) ==
  /\ kind[p] \in {"run", "hand", "hidden"}
  /\ Vanish({q \in Pids : kind[q] = kind[p] /\ group[q] = group[p]})
  /\ UNCHANGED <<locks, calls>>
------------------------------------------------------------------------------
(* start_worker from the GUI: look at the lock, then launch.                *)
WorkerWanted(s) ==
  /\ pc[s] = "idle"
  /\ ~Alive(workerLock)
  /\ At(s, "hire")
  /\ UNCHANGED <<procs, locks, asked, goal, hold, history>>

Hire(s) ==
  /\ pc[s] = "hire"
  /\ \E p \in Free : /\ Spawn({p}, "worker", NoFolder)
                     /\ pc' = [pc EXCEPT ![s] = "idle", ![p] = "born"]
  /\ UNCHANGED <<locks, asked, goal, hold, history>>

(* A worker started from a terminal. *)
HandWorker ==
  /\ \E p \in Free : /\ Spawn({p}, "worker", NoFolder)
                     /\ At(p, "born")
  /\ UNCHANGED <<locks, asked, goal, hold, history>>

(* claim_worker_lock: look, then write; or find a worker and exit.  (Slips: *)
(* not to look; to release the lock on the way out in any case.)            *)
ClaimUnseen(p) ==
  /\ kind[p] = "worker" /\ pc[p] = "born"
  /\ At(p, "claim")
  /\ crossed' = (crossed \/ \E q \in Pids : pc[q] = "claim")
  /\ UNCHANGED <<procs, locks, asked, goal, hold, unseen, rivals>>

MayClaim(p) ==
  /\ kind[p] = "worker" /\ pc[p] = "born"
  /\ ~Alive(workerLock)
  /\ At(p, "claim")
  /\ crossed' = (crossed \/ \E q \in Pids : pc[q] = "claim")
  /\ UNCHANGED <<procs, locks, asked, goal, hold, unseen, rivals>>

ReleaseAnyway(p) ==
  /\ kind[p] = "worker" /\ pc[p] = "born"
  /\ Alive(workerLock)
  /\ workerLock' = NoPid
  /\ Vanish({p}) /\ Reset({p})
  /\ UNCHANGED <<runLock>>

TurnedAway(p) ==
  /\ kind[p] = "worker" /\ pc[p] = "born"
  /\ Alive(workerLock)
  /\ Vanish({p}) /\ Reset({p})
  /\ UNCHANGED <<locks>>

Claim(p) ==
  /\ kind[p] = "worker" /\ pc[p] = "claim"
  /\ workerLock' = p
  /\ At(p, "idle")
  /\ UNCHANGED <<procs, runLock, asked, goal, hold, history>>

(* Told to stop, the worker removes the lock file, whoever it names.        *)
Leave(p) ==
  /\ p \in Up /\ pc[p] = "idle" /\ p \in asked
  /\ workerLock' = NoPid
  /\ Vanish({p}) /\ Reset({p})
  /\ UNCHANGED <<runLock>>

(* Killed, at any point; the lock stays.                                    *)
WorkerDies(p) ==
  /\ kind[p] = "worker"
  /\ Vanish({p}) /\ Reset({p})
  /\ UNCHANGED <<locks>>
------------------------------------------------------------------------------
(* SIGTERM.  A worker makes a note of it; a run dies of it, sooner or later *)
(* (RunEnds), and so may an unrelated process (OtherEnds).                  *)
Signal(P) == asked' = asked \cup {p \in P : kind[p] = "worker"}

Groups(P) == {q \in Pids : kind[q] # "free" /\ \E p \in P : group[q] = group[p]}

(* stop_worker: read the lock, then signal the pid.                         *)
StopWorker(s) ==
  /\ pc[s] = "idle"
  /\ Alive(workerLock)
  /\ hold' = [hold EXCEPT ![s] = {workerLock}]
  /\ At(s, "fire")
  /\ UNCHANGED <<procs, locks, asked, goal, history>>

Fire(s) ==
  /\ pc[s] = "fire"
  /\ Signal({p \in hold[s] : Alive(p)})
  /\ Return(s)
  /\ UNCHANGED <<procs, locks, history>>

(* stop_pids of an active run, all its processes found by ps: SIGTERM to    *)
(* the group of the first one that can be signalled -- any() stops there -- *)
(* then, after some seconds, SIGKILL to the groups of those still alive.    *)
StopRun(s, f) ==
  /\ pc[s] = "idle"
  /\ {p \in Runs : folder[p] = f} # {}
  /\ hold' = [hold EXCEPT ![s] = {p \in Runs : folder[p] = f}]
  /\ At(s, "term")
  /\ UNCHANGED <<procs, locks, asked, goal, history>>

Signalled(P) == IF P = {} THEN {} ELSE Groups({Least(P)})

Term(s) ==
  /\ pc[s] = "term"
  /\ Signal(Signalled({p \in hold[s] : Alive(p)}))
  /\ At(s, "force")
  /\ UNCHANGED <<procs, locks, goal, hold, history>>

ForceLeftovers(s) ==
  LET P == Groups({p \in hold[s] : Alive(p)})
  IN  /\ pc[s] = "force"
      /\ Vanish(P) /\ Reset(P \cup {s})
      /\ UNCHANGED locks
------------------------------------------------------------------------------
(* The rest of the machine. *)
OtherStarts(p) ==
  /\ kind[p] = "free"
  /\ Spawn({p}, "other", NoFolder)
  /\ UNCHANGED <<locks, asked, calls, history>>

OtherEnds(p) ==
  /\ kind[p] = "other"
  /\ Vanish({p})
  /\ UNCHANGED <<locks, calls>>

Next ==
  \/ \E c \in Callers :
        \/ \E f \in Folders : CheckLock(c, f)
        \/ PsClear(c) \/ PsFails(c) \/ PsRefuses(c) \/ Popen(c) \/ WriteLock(c)
  \/ \E s \in Sessions :
        \/ WorkerWanted(s) \/ Hire(s) \/ StopWorker(s) \/ Fire(s)
        \/ \E f \in Folders : StopRun(s, f) \/ WillClear(s, f)
        \/ ClearLock(s) \/ Term(s) \/ ForceLeftovers(s)
  \/ \E p \in Pids :
        \/ RunEnds(p) \/ OtherStarts(p) \/ OtherEnds(p)
        \/ MayClaim(p) \/ TurnedAway(p) \/ Claim(p) \/ Leave(p) \/ WorkerDies(p)
  \/ \E f \in Folders : HandRun(f)
  \/ HandWorker

Spec == Init /\ [][Next]_vars
------------------------------------------------------------------------------
TypeOK ==
  /\ kind \in [Pids -> {"free", "run", "hand", "hidden", "worker", "other"}]
  /\ group \in [Pids -> Pids]
  /\ folder \in [Pids -> Folders \cup {NoFolder}]
  /\ runLock \in [Folders -> Pids \cup {NoPid}]
  /\ workerLock \in Pids \cup {NoPid}
  /\ asked \subseteq Pids
  /\ pc \in [Callers -> {"idle", "ps", "popen", "lock", "clear", "hire", "born",
                         "claim", "fire", "term", "force"}]
  /\ goal \in [Callers -> Folders \cup {NoFolder}]
  /\ hold \in [Callers -> SUBSET Pids]
  /\ unseen \in [Callers -> SUBSET Pids]
  /\ rivals \in [Pids -> SUBSET Pids]
  /\ crossed \in BOOLEAN
  /\ \A p \in Pids : /\ (kind[p] # "worker") => pc[p] = "idle"
                     /\ (kind[p] = "free") => p \notin asked /\ folder[p] = NoFolder
  /\ \A c \in Callers :
        /\ (pc[c] \in {"ps", "popen", "lock", "clear"}) = (goal[c] \in Folders)
        /\ (pc[c] = "lock") => \E p \in Pids : hold[c] = {p}

(* jobs.start refuses "if a job is already running here": of two runs that  *)
(* sessions and workers have launched and that are both alive, in whatever  *)
(* folders, one was launched by a caller that could not know of the other,  *)
(* because it appeared between that caller's ps and its Popen or because    *)
(* ps had failed.  Locks that are stale, cleared, overwritten or name a pid *)
(* used again change nothing in that.                                       *)
OnlyUnseenRivals ==
  \A p, q \in Launched : p # q => p \in rivals[q] \/ q \in rivals[p]

(* "A second worker must not start": two workers are past claiming the lock *)
(* only if two of them have been between looking at it and writing it at    *)
(* the same time, since there was last no worker at all.                    *)
OneWorker == ~crossed => \A p, q \in Up : p = q

(* With the same proviso the worker that is up is the one the lock names,   *)
(* so that the GUI shows it and can stop it; others that started later,     *)
(* found it and went away have not taken its name out.                      *)
WorkerIsNamed == ~crossed => \A p \in Up : workerLock = p
==============================================================================
