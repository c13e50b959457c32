------------------------------- MODULE Worker --------------------------------
(***************************************************************************)
(* The unattended worker (bt.worker) and its judgement of documents: pick  *)
(* the next one from bt.queue's survey, count its chunks, launch a run,    *)
(* watch it, count again, record a fruitless attempt or reset the count,   *)
(* rest, repeat.  The run itself is reduced to what the worker can see of  *)
(* it: chunks appearing, output in its log, its end, or silence.  One      *)
(* worker and at most one run at a time are assumed here (module Machine   *)
(* says when that is so); queue.json is taken as atomic (module Overlay    *)
(* says when it is).                                                       *)
(***************************************************************************)
EXTENDS Integers, FiniteSets

CONSTANTS
  Docs,           \* documents, as numbers in the order of their names
  Total,          \* chunks the survey computes from the page count
  Need,           \* chunks a complete run really writes
  MAX_ATTEMPTS,
  StallPolls,     \* STALL_TIMEOUT / WATCH_POLL: looks without any change
  Events,         \* what may happen around the worker, see below
  NoJob, NoDoc

ASSUME WorkerAssumption ==
  /\ Docs \subseteq Nat
  /\ Total \in [Docs -> Nat] /\ Need \in [Docs -> Nat]
  /\ MAX_ATTEMPTS \in Nat \ {0} /\ StallPolls \in Nat
  /\ Events \subseteq {"foreign", "sigterm", "stopjob", "skip", "clear",
                       "reuse", "upload"}
  /\ NoDoc \notin Docs

VARIABLES
  pdf,        \* document -> "absent", "partial" (being uploaded, and not yet a
              \* PDF that opens) or "whole"
  chunks,     \* document -> chunk files in its folder
  attempts,   \* document -> fruitless attempts on record
  skip,       \* document -> the user's skip flag
  runLock,    \* document -> what its .run.lock names: nothing ("none"), the
              \* running job, a dead process, or a process that got its pid
  clearing,   \* the document whose progress is being cleared, if any
  left,       \* its chunk files that are still to be unlinked
  job,        \* the run: [doc, by, hung]; by the worker that is up, from the
              \* GUI (or by an earlier worker), or from a terminal
  spoke,      \* has the watched folder changed since the worker last looked?
  wpc,        \* where the worker is
  stop,       \* _stop, set by SIGTERM
  cur,        \* the document in hand
  before,     \* its chunks before the run
  after,      \* and after it
  quiet,      \* looks since anything changed
  gained,     \* history: between the two counts the worker's run has saved
              \* "nothing" or a "chunk", or its document was being "cleared"
  dry         \* history: document -> the worker's runs since one that saved

docs == <<pdf, attempts, skip>>
folder == <<chunks, runLock, clearing, left>>
worker == <<wpc, stop, cur, before, after, quiet>>
vars == <<docs, folder, job, spoke, worker, gained, dry>>

Done(d) == Total[d] > 0 /\ chunks[d] >= Total[d]
Stalled(d) == ~skip[d] /\ ~Done(d) /\ attempts[d] >= MAX_ATTEMPTS

(* Two documents that differ in being started are ranked by that, others by *)
(* name.  (Slip: to leave the limit out.)                                   *)
AnyAttempts == {d \in Docs : pdf[d] = "whole" /\ ~skip[d] /\ ~Done(d)}
Candidates == {d \in Docs : /\ pdf[d] = "whole" /\ ~skip[d] /\ ~Done(d)
                            /\ attempts[d] < MAX_ATTEMPTS}
Preferred(d, e) ==
  \/ chunks[d] > 0 /\ chunks[e] = 0
  \/ (chunks[d] > 0) = (chunks[e] > 0) /\ d <= e
NextPending == CHOOSE d \in Candidates : \A e \in Candidates : Preferred(d, e)

Running == job # NoJob
OwnRuns == Running /\ job.by = "worker"
LockAlive(d) == runLock[d] \in {"job", "other"}
RunOver == [d \in Docs |-> IF runLock[d] = "job" THEN "dead" ELSE runLock[d]]

Watching == wpc \in {"watch", "nap"}
BetweenCounts == wpc \in {"start", "watch", "nap", "recount"}

Init ==
  /\ pdf \in [Docs -> IF "upload" \in Events THEN {"absent", "whole"}
                                             ELSE {"whole"}]
  /\ chunks = [d \in Docs |-> 0] /\ attempts = [d \in Docs |-> 0]
  /\ skip = [d \in Docs |-> FALSE] /\ runLock = [d \in Docs |-> "none"]
  /\ clearing = NoDoc /\ left = 0
  /\ job = NoJob /\ spoke = FALSE
  /\ wpc = "check" /\ stop = FALSE /\ cur = NoDoc
  /\ before = 0 /\ after = 0 /\ quiet = 0
  /\ gained = "nothing" /\ dry = [d \in Docs |-> 0]
------------------------------------------------------------------------------
(* A step of the loop that only moves on.                                   *)
Goes(from, to) ==
  /\ wpc = from /\ wpc' = to
  /\ UNCHANGED <<docs, folder, job, spoke, stop, cur, before, after, quiet,
                 gained, dry>>

(* run_one returns, and what it knew is gone.                               *)
Return ==
  /\ wpc' = "rest" /\ cur' = NoDoc
  /\ before' = 0 /\ after' = 0 /\ quiet' = 0 /\ spoke' = FALSE
  /\ gained' = "nothing"

(* loop(): leave on _stop; wait while a run is active.                      *)
Leave == stop /\ Goes("check", "off")
Busy == ~stop /\ Running /\ Goes("check", "rest")
Free == ~stop /\ ~Running /\ Goes("check", "disk")

(* free_gb() against START_FREE_GB.                                         *)
DiskTight == Goes("disk", "rest")
DiskRoomy == Goes("disk", "pick")

(* next_pending(): survey every document.  Opening a PDF that cannot be     *)
(* read raises, and nothing in the loop catches it.                         *)
Readable == \A d \in Docs : pdf[d] # "partial"

Pick ==
  /\ wpc = "pick" /\ Readable
  /\ IF Candidates = {} THEN wpc' = "rest" /\ cur' = NoDoc
                        ELSE wpc' = "count" /\ cur' = NextPending
  /\ UNCHANGED <<docs, folder, job, spoke, stop, before, after, quiet,
                 gained, dry>>

PickRaises == ~Readable /\ Goes("pick", "off")

(* run_one(): count the chunks; then, after the sweep of the sentinels      *)
(* (module Servers), launch the run.                                        *)
Count ==
  /\ wpc = "count" /\ wpc' = "start"
  /\ before' = chunks[cur] /\ gained' = "nothing"
  /\ UNCHANGED <<docs, folder, job, spoke, stop, cur, after, quiet, dry>>

(* jobs.start refuses while the lock's process is alive or a run is active: *)
(* back to resting, and nothing is recorded.                                *)
Refused ==
  /\ wpc = "start" /\ (LockAlive(cur) \/ Running)
  /\ Return
  /\ UNCHANGED <<docs, folder, job, stop, dry>>

Launched ==
  /\ wpc = "start" /\ ~LockAlive(cur) /\ ~Running
  /\ job' = [doc |-> cur, by |-> "worker", hung |-> FALSE]
  /\ quiet' = 0 /\ spoke' = FALSE
  /\ UNCHANGED <<docs, chunks, left, stop, cur, before, after, gained, dry>>

Start ==
  /\ Launched
  /\ runLock' = [runLock EXCEPT ![cur] = "job"]
  /\ wpc' = "watch"
  /\ UNCHANGED clearing

(* The end of a Clear progress takes the new lock away before start() reads *)
(* the pid from it: the run goes on, and nobody watches it.                 *)
StartUnwatched ==
  /\ Launched
  /\ clearing = cur /\ left = 0
  /\ runLock' = [runLock EXCEPT ![cur] = "none"] /\ clearing' = NoDoc
  /\ wpc' = "recount"

(* supervise(): while the process is alive, sleep a WATCH_POLL and look     *)
(* whether the chunks or the log have changed.                              *)
Alive == OwnRuns /\ Goes("watch", "nap")
Exited == ~OwnRuns /\ Goes("watch", "recount")
NapCut == stop /\ Goes("nap", "recount")

Look ==
  /\ wpc = "nap" /\ ~stop /\ wpc' = "watch"
  /\ spoke \/ quiet < StallPolls
  /\ quiet' = IF spoke THEN 0 ELSE quiet + 1
  /\ spoke' = FALSE
  /\ UNCHANGED <<docs, folder, job, stop, cur, before, after, gained, dry>>

(* Silence for longer than STALL_TIMEOUT: stop_pids, without another look   *)
(* whether the process is still there.  Its pkill also ends the servers of  *)
(* a run that has taken its place: that one may hang from here on.          *)
Kill ==
  /\ wpc = "nap" /\ ~stop /\ wpc' = "recount"
  /\ ~spoke /\ quiet >= StallPolls
  /\ \/ OwnRuns /\ job' = NoJob /\ runLock' = RunOver
     \/ ~OwnRuns /\ UNCHANGED <<job, runLock>>
     \/ /\ Running /\ ~OwnRuns
        /\ job' = [job EXCEPT !.hung = TRUE] /\ UNCHANGED runLock
  /\ UNCHANGED <<docs, chunks, clearing, left, spoke, stop, cur, before, after,
                 quiet, gained, dry>>

Recount ==
  /\ wpc = "recount" /\ wpc' = "record"
  /\ after' = chunks[cur]
  /\ UNCHANGED <<docs, folder, job, spoke, stop, cur, before, quiet, gained, dry>>

(* record_attempt: more chunks than before resets the count.  (Slips: to    *)
(* ask for a finished book; never to count.)                                *)
Finished == Total[cur] > 0 /\ after >= Total[cur]
Progressed == after > before

NeverCounts(n) == IF Progressed THEN 0 ELSE n
Recorded(n) == IF Progressed THEN 0 ELSE n + 1

Record ==
  /\ wpc = "record"
  /\ attempts' = [attempts EXCEPT ![cur] = Recorded(@)]
  /\ dry' = [dry EXCEPT ![cur] =
               CASE gained = "chunk"   -> 0
                 [] gained = "nothing" -> IF @ < MAX_ATTEMPTS THEN @ + 1 ELSE @
                 [] gained = "cleared" -> Recorded(attempts[cur])]
  /\ Return
  /\ UNCHANGED <<pdf, skip, folder, job, stop>>

(* Any of the sleeps: SIGTERM cuts it short.                                *)
Wake == Goes("rest", "check")
------------------------------------------------------------------------------
(* The run, seen from outside.  It may end at any time: finished, stopped   *)
(* by the disk guard, failed or killed by the system.                       *)
JobSaves ==
  /\ Running /\ ~job.hung
  /\ chunks[job.doc] < Need[job.doc]
  /\ chunks' = [chunks EXCEPT ![job.doc] = @ + 1]
  /\ spoke' = (spoke \/ (Watching /\ cur = job.doc))
  /\ gained' = IF OwnRuns /\ BetweenCounts /\ gained = "nothing"
                  THEN "chunk" ELSE gained
  /\ UNCHANGED <<docs, runLock, clearing, left, job, worker, dry>>

(* Only jobs.start() sends a run's output to the log of its folder.         *)
JobSpeaks ==
  /\ Running /\ ~job.hung /\ job.by # "terminal"
  /\ Watching /\ cur = job.doc /\ ~spoke
  /\ spoke' = TRUE
  /\ UNCHANGED <<docs, folder, job, worker, gained, dry>>

JobEnds ==
  /\ Running /\ ~job.hung
  /\ job' = NoJob /\ runLock' = RunOver
  /\ UNCHANGED <<docs, chunks, clearing, left, spoke, worker, gained, dry>>

(* From here on it is alive and writes nothing: a dead model server.        *)
JobHangs ==
  /\ Running /\ ~job.hung
  /\ job' = [job EXCEPT !.hung = TRUE]
  /\ UNCHANGED <<docs, folder, spoke, worker, gained, dry>>
------------------------------------------------------------------------------
(* Around the worker.  Each of these happens only if it is in Events.       *)

(* A run started from the GUI (with a lock) or from a terminal (without).   *)
ForeignStart(d, by) ==
  /\ "foreign" \in Events
  /\ ~Running /\ pdf[d] = "whole" /\ (by = "gui" => ~LockAlive(d))
  /\ job' = [doc |-> d, by |-> by, hung |-> FALSE]
  /\ runLock' = IF by = "gui" THEN [runLock EXCEPT ![d] = "job"] ELSE runLock
  /\ UNCHANGED <<docs, chunks, clearing, left, spoke, worker, gained, dry>>

(* The Stop button of a run.                                                *)
StopJob ==
  /\ "stopjob" \in Events /\ Running
  /\ job' = NoJob /\ runLock' = RunOver
  /\ UNCHANGED <<docs, chunks, clearing, left, spoke, worker, gained, dry>>

(* stop_worker: SIGTERM to the worker; a run it launched keeps running.     *)
Sigterm ==
  /\ "sigterm" \in Events
  /\ wpc # "off" /\ ~stop
  /\ stop' = TRUE
  /\ UNCHANGED <<docs, folder, job, spoke, wpc, cur, before, after, quiet,
                 gained, dry>>

(* A new worker: it does not watch a run it did not launch.                 *)
StartWorker ==
  /\ wpc = "off" /\ wpc' = "check" /\ stop' = FALSE
  /\ job' = IF OwnRuns THEN [job EXCEPT !.by = "gui"] ELSE job
  /\ UNCHANGED <<docs, folder, spoke, cur, before, after, quiet, gained, dry>>

SetSkip(d) ==
  /\ "skip" \in Events
  /\ skip' = [skip EXCEPT ![d] = ~@]
  /\ UNCHANGED <<pdf, attempts, folder, job, spoke, worker, gained, dry>>

(* Clear progress: offered when the lock names no live process.  The click  *)
(* lists the chunk files, they are unlinked one by one, then the lock goes, *)
(* whoever it names by then.                                                *)
ClearProgress(d) ==
  /\ "clear" \in Events
  /\ clearing = NoDoc /\ chunks[d] > 0 /\ ~LockAlive(d)
  /\ clearing' = d /\ left' = chunks[d]
  /\ UNCHANGED <<docs, chunks, runLock, job, spoke, worker, gained, dry>>

Unlink ==
  /\ clearing # NoDoc /\ left > 0
  /\ chunks' = [chunks EXCEPT ![clearing] = @ - 1] /\ left' = left - 1
  /\ spoke' = (spoke \/ (Watching /\ cur = clearing))
  /\ gained' = IF BetweenCounts /\ cur = clearing THEN "cleared" ELSE gained
  /\ UNCHANGED <<docs, runLock, clearing, job, worker, dry>>

ClearLock ==
  /\ clearing # NoDoc /\ left = 0
  /\ runLock' = [runLock EXCEPT ![clearing] = "none"] /\ clearing' = NoDoc
  /\ UNCHANGED <<docs, chunks, left, job, spoke, worker, gained, dry>>

(* The system gives the pid in a stale lock to another process; that one    *)
(* may end too, or stay: a service, say.                                    *)
PidReused(d) ==
  /\ "reuse" \in Events
  /\ runLock[d] = "dead"
  /\ runLock' = [runLock EXCEPT ![d] = "other"]
  /\ UNCHANGED <<docs, chunks, clearing, left, job, spoke, worker, gained, dry>>

OtherEnds(d) ==
  /\ runLock[d] = "other"
  /\ runLock' = [runLock EXCEPT ![d] = "dead"]
  /\ UNCHANGED <<docs, chunks, clearing, left, job, spoke, worker, gained, dry>>

(* A PDF dropped in uploads/: the GUI writes it in place.                   *)
Upload(d) ==
  /\ "upload" \in Events
  /\ pdf[d] # "whole"
  /\ pdf' = [pdf EXCEPT ![d] = IF @ = "absent" THEN "partial" ELSE "whole"]
  /\ UNCHANGED <<attempts, skip, folder, job, spoke, worker, gained, dry>>

Loop == \/ Leave \/ Busy \/ Free \/ DiskTight \/ DiskRoomy
        \/ Pick \/ PickRaises \/ Count \/ Refused \/ Start \/ StartUnwatched
        \/ Alive \/ Exited \/ NapCut \/ Look \/ Kill \/ Recount \/ Record \/ Wake

Job == JobSaves \/ JobSpeaks \/ JobEnds \/ JobHangs

Around ==
  \/ Sigterm \/ StopJob \/ StartWorker \/ Unlink \/ ClearLock
  \/ \E d \in Docs : \/ \E by \in {"gui", "terminal"} : ForeignStart(d, by)
                     \/ SetSkip(d) \/ ClearProgress(d)
                     \/ PidReused(d) \/ OtherEnds(d) \/ Upload(d)

Next == Loop \/ Job \/ Around

Spec == Init /\ [][Next]_vars

(* A worker that is up keeps stepping; a run that does not hang saves a     *)
(* chunk or ends; the disk is not low at every look.  Nothing is assumed of *)
(* what happens around the worker, nor that anybody starts it again.        *)
Fairness ==
  /\ WF_vars(Loop) /\ SF_vars(DiskRoomy)
  /\ WF_vars(JobSaves \/ JobEnds)

FairSpec == Spec /\ Fairness
------------------------------------------------------------------------------
TypeOK ==
  /\ pdf \in [Docs -> {"absent", "partial", "whole"}]
  /\ chunks \in [Docs -> Nat] /\ \A d \in Docs : chunks[d] <= Need[d]
  /\ attempts \in [Docs -> 0..MAX_ATTEMPTS]
  /\ skip \in [Docs -> BOOLEAN]
  /\ runLock \in [Docs -> {"none", "job", "dead", "other"}]
  /\ clearing \in Docs \cup {NoDoc} /\ left \in Nat
  /\ IF clearing \in Docs THEN left <= chunks[clearing] ELSE left = 0
  /\ job \in [doc : Docs, by : {"worker", "gui", "terminal"}, hung : BOOLEAN]
             \cup {NoJob}
  /\ spoke \in BOOLEAN /\ stop \in BOOLEAN
  /\ gained \in {"nothing", "chunk", "cleared"}
  /\ wpc \in {"off", "check", "disk", "pick", "count", "start", "watch", "nap",
               "recount", "record", "rest"}
  /\ cur \in Docs \cup {NoDoc}
  /\ wpc \in {"count", "start", "watch", "nap", "recount", "record"} => cur \in Docs
  /\ before \in Nat /\ after \in Nat /\ quiet \in 0..StallPolls
  /\ dry \in [Docs -> 0..MAX_ATTEMPTS]

(* A document is given up only after MAX_ATTEMPTS of the worker's runs in a *)
(* row without a single chunk: a run that had advanced any chunk when the   *)
(* worker counts again resets the count, however the run ended              *)
(* (queue.py:175-181).  One kind of run is set aside: if Clear progress     *)
(* takes a chunk of the document between the two counts (worker.py:121,     *)
(* 149), be it before the launch, during the run or after it, the attempt   *)
(* counts as the code records it, which may be against a run that did save: *)
(* what it did cannot be seen any more.                                     *)
StalledOnlyAfterDryRuns ==
  \A d \in Docs : attempts[d] <= dry[d]

(* Given up is given up for good: whatever the user, other runs or the      *)
(* system do to a document, unskipping it included (app.py:991-993 tells    *)
(* the user that this clears the count; nothing does), the worker never     *)
(* launches it again and its count never changes.                           *)
GivenUpForGood ==
  [][\A d \in Docs : attempts[d] >= MAX_ATTEMPTS =>
        /\ attempts'[d] = attempts[d]
        /\ ~(wpc = "start" /\ ~Running /\ OwnRuns' /\ job'.doc = d)]_vars

(* No document blocks the queue for ever: each one that is not skipped is   *)
(* finished or given up, even one whose spreads give fewer pages, and so    *)
(* fewer chunks, than the survey expects (queue.py:224-230, 252-259),       *)
(* provided that in the end a worker stays up, only runs that it watches    *)
(* are active, nobody clears progress, and no lock names a process that got *)
(* a dead run's pid.  The code guarantees none of the four: a PDF that does *)
(* not open ends the worker, a hung run that no worker watches and such a   *)
(* lock do block the queue.                                                 *)
InOrder ==
  /\ wpc # "off" /\ (Running => OwnRuns /\ Watching)
  /\ clearing = NoDoc /\ \A d \in Docs : runLock[d] # "other"

QueueMovesOn ==
  <>[]InOrder =>
    \A d \in Docs : <>[](pdf[d] = "whole" /\ ~skip[d]) =>
       <>[](Done(d) \/ Stalled(d))
==============================================================================
