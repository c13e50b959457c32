------------------------------- MODULE Servers -------------------------------
(***************************************************************************)
(* The model servers a run has marker start, the sentinel files by which   *)
(* later runs find them, and what the project does about both: the worker  *)
(* sweeps stale sentinels before a launch (jobs.clear_stale_sentinels),    *)
(* and stopping a run ends its servers (jobs.stop_pids).  marker and surya *)
(* are external: they are modelled by what the comments in src/ say of     *)
(* them.  One run at a time.  Weights are fetched (module Warmup) before   *)
(* anything is started from them.                                          *)
(***************************************************************************)
EXTENDS Warmup

CONSTANTS
  Pids, Kinds, Llama,  \* kinds of server; Llama is llama-server
  None,
  OwnServer,           \* may the user run a llama-server, for translating?
  PkillFails           \* may pkill fail or time out?

ASSUME ServersAssumption ==
  /\ Llama \in Kinds /\ "other" \notin Kinds
  /\ None \notin Pids \cup Kinds \cup {"other", "worker", "session"}
  /\ OwnServer \in BOOLEAN /\ PkillFails \in BOOLEAN

VARIABLES
  uses,      \* pid -> the kind of server, "other" program, or None
  sentinel,  \* kind -> the pid its sentinel names, or None
  run,       \* "none", "swept", "starting", "up": the run on this machine
  by,        \* who launched it: "worker", "session" or None
  ready,     \* kinds of server it is attached to
  waiting,   \* the kind whose health check it is waiting for, or None
  stop,      \* how far stop_pids has got: "no", "term", "pkill", "done"
  doomed,    \* is the run the one it is stopping?
  spawned,   \* history: servers the run started
  condemned, \* history: servers the run being stopped started
  died,      \* history: processes that ended since the run was prepared
  own        \* the user's llama-server: "down", "up", or "killed" by us

runvars == <<run, by, ready, waiting, doomed>>
svars == <<uses, sentinel, runvars, stop, spawned, condemned, died, own>>
vars == <<svars, wvars>>

Alive(pid) == uses[pid] # None

ServersInit ==
  /\ uses = [p \in Pids |-> None] /\ sentinel = [k \in Kinds |-> None]
  /\ run = "none" /\ by = None /\ ready = {} /\ waiting = None
  /\ stop = "no" /\ doomed = FALSE
  /\ spawned = {} /\ condemned = {} /\ died = {} /\ own = "down"

(* Processes end, and their pids are free; the run ends.                    *)
End(pids) ==
  /\ uses' = [p \in Pids |-> IF p \in pids THEN None ELSE uses[p]]
  /\ died' = died \cup {p \in pids : Alive(p)}
  /\ spawned' = spawned \ pids /\ condemned' = condemned \ pids
NoRun ==
  /\ run' = "none" /\ by' = None /\ ready' = {} /\ waiting' = None
  /\ doomed' = FALSE
------------------------------------------------------------------------------
(* clear_stale_sentinels: those whose pid is alive are kept.  (The slip:    *)
(* those that name a pid are.)                                              *)
StaleIfNameless(kind) == sentinel[kind] = None
Stale(kind) == sentinel[kind] # None /\ ~Alive(sentinel[kind])

Sweep ==
  /\ run = "none"
  /\ sentinel' = [k \in Kinds |-> IF Stale(k) THEN None ELSE sentinel[k]]
  /\ run' = "swept" /\ died' = {}
  /\ UNCHANGED <<uses, by, ready, waiting, doomed, stop, spawned, condemned, own>>

(* jobs.start: by the worker after its sweep, from a session without one.   *)
Launch(who) ==
  /\ \/ who = "worker" /\ run = "swept" /\ UNCHANGED died
     \/ who = "session" /\ run \in {"none", "swept"} /\ died' = {}
  /\ run' = "starting" /\ by' = who /\ spawned' = {}
  /\ UNCHANGED <<uses, sentinel, ready, waiting, doomed, stop, condemned, own>>

(* marker, for each kind of server: attach to the one the sentinel names,   *)
(* and wait for its health check if it is not there; or start one, which    *)
(* does not pass the check in time if it has its weights to fetch first.    *)
Wanting(kind) ==
  run = "starting" /\ waiting = None /\ kind \notin ready

Startable(kind) == kind = Llama => Cached

Attach(kind) ==
  /\ Wanting(kind) /\ sentinel[kind] # None
  /\ IF uses[sentinel[kind]] = kind
     THEN ready' = ready \cup {kind} /\ UNCHANGED waiting
     ELSE waiting' = kind /\ UNCHANGED ready
  /\ UNCHANGED <<uses, sentinel, run, by, doomed, stop, spawned, condemned,
                 died, own>>

Spawn(kind, pid) ==
  /\ Wanting(kind) /\ sentinel[kind] = None /\ Startable(kind)
  /\ ~Alive(pid)
  /\ uses' = [uses EXCEPT ![pid] = kind]
  /\ sentinel' = [sentinel EXCEPT ![kind] = pid]
  /\ ready' = ready \cup {kind} /\ spawned' = spawned \cup {pid}
  /\ condemned' = IF doomed THEN condemned \cup {pid} ELSE condemned
  /\ UNCHANGED <<run, by, waiting, doomed, stop, died, own>>

SpawnFails(kind) ==
  /\ Wanting(kind) /\ sentinel[kind] = None /\ ~Startable(kind)
  /\ NoRun
  /\ UNCHANGED <<uses, sentinel, stop, spawned, condemned, died, own>>

AllReady ==
  /\ run = "starting" /\ ready = Kinds
  /\ run' = "up"
  /\ UNCHANGED <<uses, sentinel, by, ready, waiting, doomed, stop, spawned,
                 condemned, died, own>>

(* The run ends by itself, or after the start-up time-out: shutdown_models  *)
(* stops its servers, or some (KEEP_ALIVE); sentinels may outlive them.     *)
RunEnds(pids, kinds) ==
  /\ run = "up" \/ waiting # None
  /\ \A p \in pids : uses[p] \in ready
  /\ NoRun /\ End(pids)
  /\ sentinel' = [k \in Kinds |-> IF k \in kinds THEN None ELSE sentinel[k]]
  /\ UNCHANGED <<stop, own>>

(* A run killed from outside: neither servers nor sentinels go with it.     *)
RunDies ==
  /\ run \in {"starting", "up"} /\ NoRun
  /\ UNCHANGED <<uses, sentinel, stop, spawned, condemned, died, own>>
------------------------------------------------------------------------------
(* stop_pids, from the Stop button or the watchdog: SIGTERM, which RunDies  *)
(* may follow; after five seconds SIGKILL, to a run that is still there.    *)
(* (The slip: nothing forces it.)                                           *)
StopRun ==
  /\ run \in {"starting", "up"} /\ stop \in {"no", "done"}
  /\ stop' = "term" /\ doomed' = TRUE /\ condemned' = spawned
  /\ UNCHANGED <<uses, sentinel, run, by, ready, waiting, spawned, died, own>>

NoForce ==
  /\ stop = "term" /\ stop' = "pkill"
  /\ UNCHANGED <<uses, sentinel, runvars, spawned, condemned, died, own>>
ForceLeftovers ==
  /\ stop = "term" /\ stop' = "pkill"
  /\ IF doomed THEN NoRun ELSE UNCHANGED runvars
  /\ UNCHANGED <<uses, sentinel, spawned, condemned, died, own>>

(* pkill -f llama-server, whosever it is.                                   *)
Pkill(works) ==
  /\ stop = "pkill" /\ (works \/ PkillFails)
  /\ stop' = "done"
  /\ IF works
     THEN /\ End({p \in Pids : uses[p] = Llama})
          /\ own' = IF own = "up" THEN "killed" ELSE own
     ELSE UNCHANGED <<uses, spawned, condemned, died, own>>
  /\ UNCHANGED <<sentinel, runvars>>
------------------------------------------------------------------------------
(* Around it: processes end, other programs come and get their pids, and    *)
(* the user starts and stops a llama-server to translate with.              *)
ProcessEnds(pid) ==
  /\ Alive(pid) /\ End({pid})
  /\ UNCHANGED <<sentinel, runvars, stop, own>>

OtherStarts(pid) ==
  /\ ~Alive(pid) /\ uses' = [uses EXCEPT ![pid] = "other"]
  /\ UNCHANGED <<sentinel, runvars, stop, spawned, condemned, died, own>>

OwnerActs ==
  /\ OwnServer
  /\ own' = IF own = "up" THEN "down" ELSE "up"
  /\ UNCHANGED <<uses, sentinel, runvars, stop, spawned, condemned, died>>

MachineStep ==
  \/ \E pid \in Pids : ProcessEnds(pid) \/ OtherStarts(pid)
  \/ OwnerActs \/ RunDies

RunStep ==
  \/ AllReady
  \/ \E kind \in Kinds : Attach(kind) \/ SpawnFails(kind)
                            \/ \E pid \in Pids : Spawn(kind, pid)
  \/ \E pids \in SUBSET Pids, kinds \in SUBSET Kinds : RunEnds(pids, kinds)

UserStep ==
  \/ Sweep \/ StopRun \/ ForceLeftovers
  \/ \E who \in {"worker", "session"} : Launch(who)
  \/ \E works \in BOOLEAN : Pkill(works)

(* Before anything is on the machine. *)
Quiet ==
  /\ run = "none" /\ stop = "no" /\ own = "down" /\ died = {}
  /\ \A p \in Pids : ~Alive(p)
  /\ \A k \in Kinds : sentinel[k] = None

Init == ServersInit /\ WarmInit
Next ==
  \/ warm = Off /\ (MachineStep \/ RunStep \/ UserStep) /\ UNCHANGED wvars
  \/ Quiet /\ WarmNext /\ UNCHANGED svars

Spec == Init /\ [][Next]_vars
------------------------------------------------------------------------------
(* A run launched by the worker waits for a server that is not there only   *)
(* if its process ended after the sweep, or another process has its pid;    *)
(* never for one that earlier runs left behind (jobs.py:146-177).           *)
WaitsOnlyForTheNewlyDead ==
  by = "worker" /\ waiting # None =>
    Alive(sentinel[waiting]) \/ sentinel[waiting] \in died

(* When a stop is over, no llama-server that the run had started holds on   *)
(* to its memory, not even one it started while it was being stopped        *)
(* (jobs.py:280-303).                                                       *)
NoServerLeftBehind ==
  stop = "done" => \A pid \in condemned : uses[pid] # Llama

(* A llama-server the user runs for translating is left alone: the two      *)
(* kinds of job "can share the machine" (jobs.py:30-33).                    *)
OwnServerSurvives == own # "killed"
==============================================================================
