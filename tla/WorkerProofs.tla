---------------------------- MODULE WorkerProofs -----------------------------
(***************************************************************************)
(* What holds of the worker for every set of documents, every limit and    *)
(* every combination of the events around it.                              *)
(***************************************************************************)
EXTENDS Worker, NumberLemmas

(* Whenever some document may be picked, one is. *)
LEMMA PickExists ==
  ASSUME TypeOK, Candidates # {}
  PROVE  NextPending \in Candidates
<1> DEFINE Started == {d \in Candidates : chunks[d] > 0}
<1>1. Candidates \in SUBSET Nat
  BY WorkerAssumption DEF Candidates
<1>2. \A d \in Candidates : chunks[d] \in Nat
  BY DEF Candidates, TypeOK
<1>3. \E d \in Candidates : \A e \in Candidates : Preferred(d, e)
  <2>1. CASE Started = {}
    <3>1. PICK d \in Candidates : \A e \in Candidates : d <= e
      BY <1>1, LeastExists
    <3> QED BY <1>2, <2>1, <3>1 DEF Preferred
  <2>2. CASE Started # {}
    <3>1. PICK d \in Started : \A e \in Started : d <= e
      <4>1. Started \in SUBSET Nat
        BY <1>1
      <4> QED BY <2>2, <4>1, LeastExists
    <3> QED BY <1>2, <3>1 DEF Preferred
  <2> QED BY <2>1, <2>2
<1> QED BY <1>3 DEF NextPending

(* While a document is in hand its count is below the limit.                *)
InHand ==
  wpc \in {"count", "start", "watch", "nap", "recount", "record"} =>
    attempts[cur] < MAX_ATTEMPTS

WInv == TypeOK /\ InHand

LEMMA WInvInit == Init => WInv
<1> SUFFICES ASSUME Init PROVE WInv
  OBVIOUS
<1>1. pdf \in [Docs -> {"absent", "partial", "whole"}]
  BY DEF Init
<1>2. /\ chunks \in [Docs -> Nat] /\ \A d \in Docs : chunks[d] <= Need[d]
      /\ attempts \in [Docs -> 0..MAX_ATTEMPTS]
      /\ dry \in [Docs -> 0..MAX_ATTEMPTS]
  BY WorkerAssumption DEF Init
<1>3. quiet \in 0..StallPolls
  BY WorkerAssumption DEF Init
<1>4. clearing \notin Docs
  BY WorkerAssumption DEF Init
<1> QED BY <1>1, <1>2, <1>3, <1>4 DEF Init, WInv, TypeOK, InHand

LEMMA WInvStep == WInv /\ [Next]_vars => WInv'
<1> SUFFICES ASSUME WInv, [Next]_vars PROVE WInv'
  OBVIOUS
<1> USE WorkerAssumption
    DEF WInv, TypeOK, InHand, OwnRuns, Running, docs, folder, worker, Goes
<1>1. CASE Leave \/ Busy \/ Free
  BY <1>1 DEF Leave, Busy, Free
<1>2. CASE DiskTight \/ DiskRoomy \/ PickRaises \/ Wake
  BY <1>2 DEF DiskTight, DiskRoomy, PickRaises, Wake
<1>3. CASE Alive \/ Exited \/ NapCut
  BY <1>3 DEF Alive, Exited, NapCut
<1>4. CASE Pick
  <2>1. CASE Candidates = {}
    BY <1>4, <2>1 DEF Pick
  <2>2. CASE Candidates # {}
    <3>1. NextPending \in Candidates
      BY <2>2, PickExists
    <3>2. cur' \in Docs /\ attempts[cur'] < MAX_ATTEMPTS
      BY <1>4, <2>2, <3>1 DEF Pick, Candidates
    <3> QED BY <1>4, <2>2, <3>2 DEF Pick
  <2> QED BY <2>1, <2>2
<1>5. CASE Count
  BY <1>5 DEF Count
<1>6. CASE Refused
  <2>1. quiet' \in 0..StallPolls
    BY <1>6 DEF Refused, Return
  <2> QED BY <1>6, <2>1 DEF Refused, Return
<1>7. CASE Start \/ StartUnwatched
  <2>0. Launched
    BY <1>7 DEF Start, StartUnwatched
  <2>1. cur \in Docs /\ attempts[cur] < MAX_ATTEMPTS
    BY <2>0 DEF Launched
  <2>2. job' \in [doc : Docs, by : {"worker", "gui", "terminal"}, hung : BOOLEAN]
    <3>1. job' = [doc |-> cur, by |-> "worker", hung |-> FALSE]
      BY <2>0 DEF Launched
    <3> QED BY <2>1, <3>1
  <2>3. runLock' \in [Docs -> {"none", "job", "dead", "other"}]
    BY <1>7 DEF Start, StartUnwatched
  <2>4. IF clearing' \in Docs THEN left' <= chunks'[clearing'] ELSE left' = 0
    BY <1>7 DEF Start, StartUnwatched, Launched
  <2>5. quiet' \in 0..StallPolls
    BY <1>7 DEF Start, StartUnwatched, Launched
  <2> QED BY <1>7, <2>1, <2>2, <2>3, <2>4, <2>5 DEF Start, StartUnwatched, Launched
<1>8. CASE Look
  <2>1. quiet' \in 0..StallPolls
    BY <1>8 DEF Look
  <2> QED BY <1>8, <2>1 DEF Look
<1>9. CASE Kill
  <2>1. runLock' \in [Docs -> {"none", "job", "dead", "other"}]
    BY <1>9 DEF Kill, RunOver
  <2>2. job' \in [doc : Docs, by : {"worker", "gui", "terminal"}, hung : BOOLEAN]
                  \cup {NoJob}
    BY <1>9 DEF Kill
  <2> QED BY <1>9, <2>1, <2>2 DEF Kill
<1>10. CASE Recount
  BY <1>10 DEF Recount
<1>11. CASE Record
  <2>1. cur \in Docs /\ attempts[cur] \in 0..MAX_ATTEMPTS /\ attempts[cur] < MAX_ATTEMPTS
    BY <1>11 DEF Record
  <2>2. Recorded(attempts[cur]) \in 0..MAX_ATTEMPTS
    BY <2>1 DEF Recorded
  <2>3. attempts' \in [Docs -> 0..MAX_ATTEMPTS]
    BY <1>11, <2>2 DEF Record
  <2>4. dry' \in [Docs -> 0..MAX_ATTEMPTS]
    BY <1>11, <2>2 DEF Record
  <2>5. quiet' \in 0..StallPolls
    BY <1>11 DEF Record, Return
  <2> QED BY <1>11, <2>3, <2>4, <2>5 DEF Record, Return
<1>12. CASE JobSaves
  <2>1. job \in [doc : Docs, by : {"worker", "gui", "terminal"}, hung : BOOLEAN]
    BY <1>12 DEF JobSaves
  <2>2. chunks' = [chunks EXCEPT ![job.doc] = chunks[job.doc] + 1]
           /\ chunks[job.doc] < Need[job.doc]
    BY <1>12 DEF JobSaves
  <2>3. \A d \in Docs : /\ chunks'[d] \in Nat /\ chunks'[d] <= Need[d]
                        /\ chunks[d] <= chunks'[d]
    <3>1. job.doc \in Docs
      BY <2>1
    <3>2. chunks \in [Docs -> Nat] /\ \A d \in Docs : chunks[d] <= Need[d]
      OBVIOUS
    <3> HIDE DEF WInv, TypeOK, InHand
    <3> QED BY <2>2, <3>1, <3>2
  <2>4. chunks' \in [Docs -> Nat]
    BY <2>2, <2>3
  <2>5. gained' \in {"nothing", "chunk", "cleared"} /\ spoke' \in BOOLEAN
    BY <1>12 DEF JobSaves
  <2>6. IF clearing' \in Docs THEN left' <= chunks'[clearing'] ELSE left' = 0
    <3>1. clearing' = clearing /\ left' = left
      BY <1>12 DEF JobSaves
    <3>2. clearing \in Docs => left <= chunks[clearing] /\ left \in Nat
                               /\ chunks[clearing] \in Nat
      OBVIOUS
    <3>3. clearing \notin Docs => left = 0
      OBVIOUS
    <3> HIDE DEF WInv, TypeOK, InHand
    <3>4. ASSUME clearing \in Docs PROVE left <= chunks'[clearing]
      BY <2>3, <3>2, <3>4
    <3>5. CASE clearing \in Docs
      BY <3>1, <3>4, <3>5
    <3>6. CASE clearing \notin Docs
      BY <3>1, <3>3, <3>6
    <3> QED BY <3>5, <3>6
  <2>7. UNCHANGED <<docs, runLock, clearing, left, job, worker, dry>>
    BY <1>12 DEF JobSaves
  <2>8. TypeOK'
    BY <2>3, <2>4, <2>5, <2>6, <2>7
  <2> QED BY <2>7, <2>8
<1>13. CASE JobSpeaks
  BY <1>13 DEF JobSpeaks
<1>14. CASE JobEnds \/ StopJob
  BY <1>14 DEF JobEnds, StopJob, RunOver
<1>15. CASE JobHangs
  BY <1>15 DEF JobHangs
<1>16. ASSUME NEW d \in Docs, NEW by \in {"gui", "terminal"}, ForeignStart(d, by)
       PROVE  WInv'
  BY <1>16 DEF ForeignStart
<1>17. CASE Sigterm
  BY <1>17 DEF Sigterm
<1>18. CASE StartWorker
  BY <1>18 DEF StartWorker
<1>19. ASSUME NEW d \in Docs, SetSkip(d) \/ Upload(d) PROVE WInv'
  BY <1>19 DEF SetSkip, Upload
<1>20. ASSUME NEW d \in Docs, ClearProgress(d) PROVE WInv'
  BY <1>20 DEF ClearProgress
<1>21. CASE Unlink
  <2>1. clearing \in Docs /\ left \in Nat /\ left > 0 /\ left <= chunks[clearing]
    BY <1>21 DEF Unlink
  <2>2. /\ chunks' = [chunks EXCEPT ![clearing] = chunks[clearing] - 1]
        /\ left' = left - 1 /\ clearing' = clearing
    BY <1>21 DEF Unlink
  <2>3. /\ left' \in Nat /\ left' <= chunks'[clearing]
        /\ chunks' \in [Docs -> Nat] /\ \A d \in Docs : chunks'[d] <= Need[d]
    <3>1. chunks \in [Docs -> Nat] /\ \A d \in Docs : chunks[d] <= Need[d]
      OBVIOUS
    <3>2. Need \in [Docs -> Nat]
      OBVIOUS
    <3> HIDE DEF WInv, TypeOK, InHand
    <3>3. chunks[clearing] - 1 \in Nat
      BY <2>1, <3>1
    <3>4. chunks' \in [Docs -> Nat]
      BY <2>1, <2>2, <3>1, <3>3
    <3>5. \A d \in Docs : chunks'[d] <= chunks[d]
      BY <2>1, <2>2, <3>1
    <3> QED BY <2>1, <2>2, <3>1, <3>2, <3>4, <3>5
  <2>4. gained' \in {"nothing", "chunk", "cleared"} /\ spoke' \in BOOLEAN
    BY <1>21 DEF Unlink
  <2> QED BY <1>21, <2>1, <2>2, <2>3, <2>4 DEF Unlink
<1>22. CASE ClearLock
  BY <1>22 DEF ClearLock
<1>23. ASSUME NEW d \in Docs, PidReused(d) \/ OtherEnds(d) PROVE WInv'
  BY <1>23 DEF PidReused, OtherEnds
<1>24. CASE UNCHANGED vars
  BY <1>24 DEF vars
<1> QED BY <1>1, <1>2, <1>3, <1>4, <1>5, <1>6, <1>7, <1>8, <1>9, <1>10, <1>11,
           <1>12, <1>13, <1>14, <1>15, <1>16, <1>17, <1>18, <1>19, <1>20, <1>21,
           <1>22, <1>23, <1>24
        DEF Next, Loop, Job, Around

(* The counts never pass MAX_ATTEMPTS, a document is always in hand when    *)
(* one is launched, watched or recorded, and Clear progress never unlinks   *)
(* more chunks than there are, whatever happens around the worker.          *)
THEOREM WorkerTypeCorrect == Spec => []TypeOK
<1>1. WInv => TypeOK
  BY DEF WInv
<1> QED BY <1>1, WInvInit, WInvStep, PTL DEF Spec

(* A document that has used up its attempts is never launched again by the  *)
(* worker, nor is its count changed, by anything that may happen around it: *)
(* clearing it, finishing it by hand, and skipping and unskipping it, though *)
(* app.py:991-993 tells the user that unskipping clears the count.          *)
THEOREM NeverAgain == Spec => GivenUpForGood
<1>1. ASSUME WInv, [Next]_vars, NEW d \in Docs, attempts[d] >= MAX_ATTEMPTS
      PROVE  /\ attempts'[d] = attempts[d]
             /\ ~(wpc = "start" /\ ~Running /\ OwnRuns' /\ job'.doc = d)
  <2> USE <1>1 DEF docs, folder, worker, Goes, OwnRuns, Running
  <2>1. wpc \in {"count", "start", "watch", "nap", "recount", "record"} => cur # d
    BY WorkerAssumption DEF WInv, TypeOK, InHand
  <2>2. CASE Record
    BY <2>1, <2>2 DEF Record, WInv, TypeOK
  <2>3. CASE Start \/ StartUnwatched
    BY <2>1, <2>3 DEF Start, StartUnwatched, Launched
  <2>4. CASE Leave \/ Busy \/ Free \/ DiskTight \/ DiskRoomy \/ Pick \/ PickRaises
    BY <2>4 DEF Leave, Busy, Free, DiskTight, DiskRoomy, Pick, PickRaises
  <2>5. CASE Count \/ Refused \/ Alive \/ Exited \/ NapCut \/ Look \/ Kill \/ Recount \/ Wake
    BY <2>5 DEF Count, Refused, Alive, Exited, NapCut, Look, Kill, Recount, Wake
  <2>6. CASE Job
    BY <2>6 DEF Job, JobSaves, JobSpeaks, JobEnds, JobHangs
  <2>7. CASE Sigterm \/ StopJob \/ StartWorker \/ Unlink \/ ClearLock
    BY <2>7 DEF Sigterm, StopJob, StartWorker, Unlink, ClearLock
  <2>8. ASSUME NEW e \in Docs, NEW by \in {"gui", "terminal"}, ForeignStart(e, by)
        PROVE  attempts'[d] = attempts[d] /\ ~OwnRuns'
    BY <2>8 DEF ForeignStart
  <2>9. ASSUME NEW e \in Docs,
               SetSkip(e) \/ ClearProgress(e) \/ PidReused(e) \/ OtherEnds(e) \/ Upload(e)
        PROVE  attempts'[d] = attempts[d] /\ job' = job
    BY <2>9 DEF SetSkip, ClearProgress, PidReused, OtherEnds, Upload
  <2>10. CASE UNCHANGED vars
    BY <2>10 DEF vars
  <2> QED BY <2>2, <2>3, <2>4, <2>5, <2>6, <2>7, <2>8, <2>9, <2>10
          DEF Next, Loop, Around
<1>2. WInv /\ [Next]_vars =>
        [\A d \in Docs : attempts[d] >= MAX_ATTEMPTS =>
           /\ attempts'[d] = attempts[d]
           /\ ~(wpc = "start" /\ ~Running /\ OwnRuns' /\ job'.doc = d)]_vars
  BY <1>1
<1> QED BY <1>2, WInvInit, WInvStep, PTL DEF Spec, GivenUpForGood
------------------------------------------------------------------------------
(* While the worker chooses a document no run of its own is active, and the *)
(* one it launches then is on that document.  As long as nobody clears the  *)
(* document, its chunks only grow from the first count to the second, and a *)
(* chunk saved by the run shows in the second.                              *)
Gains ==
  /\ wpc \in {"disk", "pick", "count", "start"} => ~OwnRuns
  /\ BetweenCounts /\ OwnRuns => job.doc = cur
  /\ BetweenCounts /\ gained # "cleared" =>
       /\ before <= chunks[cur]
       /\ gained = "chunk" => before < chunks[cur]
  /\ wpc = "record" /\ gained = "chunk" => before < after

DInv == WInv /\ Gains /\ StalledOnlyAfterDryRuns

LEMMA DInvStep == DInv /\ [Next]_vars => DInv'
<1> SUFFICES ASSUME DInv, [Next]_vars PROVE DInv'
  OBVIOUS
<1>0. WInv /\ WInv'
  BY WInvStep DEF DInv
<1> SUFFICES Gains' /\ StalledOnlyAfterDryRuns'
  BY <1>0 DEF DInv
<1>1. /\ chunks \in [Docs -> Nat]
      /\ wpc \in {"count", "start", "watch", "nap", "recount", "record"} => cur \in Docs
      /\ attempts \in [Docs -> 0..MAX_ATTEMPTS] /\ dry \in [Docs -> 0..MAX_ATTEMPTS]
      /\ before \in Nat /\ after \in Nat /\ gained \in {"nothing", "chunk", "cleared"}
      /\ job \in [doc : Docs, by : {"worker", "gui", "terminal"}, hung : BOOLEAN]
                \cup {NoJob}
  BY <1>0 DEF WInv, TypeOK
<1>2. Gains /\ \A d \in Docs : attempts[d] <= dry[d]
  BY DEF DInv, StalledOnlyAfterDryRuns
<1> USE DEF Gains, StalledOnlyAfterDryRuns, docs, folder, worker, Goes, OwnRuns,
            Running, BetweenCounts
<1>3. CASE Leave \/ Busy \/ Free \/ DiskTight \/ DiskRoomy \/ Pick \/ PickRaises \/ Wake
  BY <1>2, <1>3 DEF Leave, Busy, Free, DiskTight, DiskRoomy, Pick, PickRaises, Wake
<1>4. CASE Count
  BY <1>1, <1>2, <1>4 DEF Count
<1>5. CASE Refused
  BY <1>2, <1>5 DEF Refused, Return
<1>6. CASE Start \/ StartUnwatched
  BY <1>1, <1>2, <1>6 DEF Start, StartUnwatched, Launched
<1>7. CASE Alive \/ Exited \/ NapCut \/ Look
  BY <1>2, <1>7 DEF Alive, Exited, NapCut, Look
<1>8. CASE Kill
  <2>1. OwnRuns' => OwnRuns /\ job'.doc = job.doc
    BY <1>1, <1>8 DEF Kill
  <2> QED BY <1>2, <1>8, <2>1 DEF Kill
<1>9. CASE Recount
  BY <1>1, <1>2, <1>9 DEF Recount
<1>10. CASE Record
  <2>1. wpc = "record" /\ cur \in Docs /\ wpc' = "rest"
    BY <1>1, <1>10 DEF Record, Return
  <2>2. attempts' = [attempts EXCEPT ![cur] = Recorded(attempts[cur])]
    BY <1>10 DEF Record
  <2>3. dry' = [dry EXCEPT ![cur] =
                   CASE gained = "chunk"   -> 0
                     [] gained = "nothing" -> IF dry[cur] < MAX_ATTEMPTS
                                                THEN dry[cur] + 1 ELSE dry[cur]
                     [] gained = "cleared" -> Recorded(attempts[cur])]
    BY <1>10 DEF Record
  <2>4. attempts'[cur] = Recorded(attempts[cur]) /\ attempts'[cur] \in 0..MAX_ATTEMPTS
    BY <1>0, <1>1, <2>1, <2>2 DEF WInv, TypeOK
  <2>5. attempts'[cur] <= dry'[cur]
    <3>1. CASE gained = "chunk"
      <4>1. attempts'[cur] = 0
        BY <1>2, <2>1, <2>4, <3>1 DEF Recorded, Progressed
      <4>2. dry'[cur] = 0
        BY <1>1, <2>1, <2>3, <3>1
      <4> QED BY <4>1, <4>2
    <3>2. CASE gained = "nothing" /\ dry[cur] < MAX_ATTEMPTS
      <4>1. dry'[cur] = dry[cur] + 1
        BY <1>1, <2>1, <2>3, <3>2
      <4>2. attempts'[cur] <= attempts[cur] + 1
        BY <1>1, <2>1, <2>4 DEF Recorded
      <4> QED BY <1>1, <1>2, <2>1, <2>4, <4>1, <4>2
    <3>3. CASE gained = "nothing" /\ ~(dry[cur] < MAX_ATTEMPTS)
      <4>1. dry'[cur] = MAX_ATTEMPTS
        BY <1>1, <2>1, <2>3, <3>3, WorkerAssumption
      <4> QED BY <2>4, <4>1, WorkerAssumption
    <3>4. CASE gained = "cleared"
      <4>1. dry'[cur] = Recorded(attempts[cur])
        BY <1>1, <2>1, <2>3, <3>4
      <4> QED BY <2>4, <4>1, <1>1
    <3> QED BY <3>1, <3>2, <3>3, <3>4, <1>1
  <2>6. \A d \in Docs : d # cur => attempts'[d] = attempts[d] /\ dry'[d] = dry[d]
    BY <1>1, <2>2, <2>3
  <2> QED BY <1>2, <2>1, <2>5, <2>6
<1>11. CASE JobSaves
  <2>1. chunks' = [chunks EXCEPT ![job.doc] = chunks[job.doc] + 1]
           /\ gained' = (IF OwnRuns /\ BetweenCounts /\ gained = "nothing"
                            THEN "chunk" ELSE gained)
           /\ job # NoJob /\ job.doc \in Docs
           /\ UNCHANGED <<attempts, dry, wpc, cur, before, after, job>>
    BY <1>1, <1>11 DEF JobSaves
  <2>2. \A d \in Docs : chunks[d] <= chunks'[d]
    BY <1>1, <2>1
  <2>3. BetweenCounts /\ OwnRuns => chunks'[cur] = chunks[cur] + 1
    BY <1>1, <1>2, <2>1
  <2>4. cur \in Docs => chunks[cur] \in Nat /\ chunks'[cur] \in Nat
    BY <1>0, <1>1 DEF WInv, TypeOK
  <2> QED BY <1>1, <1>2, <2>1, <2>2, <2>3, <2>4
<1>12. CASE JobSpeaks \/ JobEnds \/ StopJob
  BY <1>2, <1>12 DEF JobSpeaks, JobEnds, StopJob
<1>13. CASE JobHangs
  <2>1. job'.by = job.by /\ job'.doc = job.doc
    BY <1>1, <1>13 DEF JobHangs
  <2> QED BY <1>2, <1>13, <2>1 DEF JobHangs
<1>14. CASE Sigterm \/ StartWorker \/ ClearLock
  BY <1>2, <1>14 DEF Sigterm, StartWorker, ClearLock
<1>15. CASE Unlink
  <2>1. clearing \in Docs
    BY <1>0, <1>15 DEF Unlink, WInv, TypeOK
  <2>2. \A d \in Docs : d # clearing => chunks'[d] = chunks[d]
    BY <1>1, <1>15, <2>1 DEF Unlink
  <2> QED BY <1>1, <1>2, <1>15, <2>1, <2>2 DEF Unlink
<1>16. ASSUME NEW d \in Docs, NEW by \in {"gui", "terminal"}, ForeignStart(d, by)
       PROVE  Gains' /\ StalledOnlyAfterDryRuns'
  BY <1>2, <1>16 DEF ForeignStart
<1>17. ASSUME NEW d \in Docs,
              SetSkip(d) \/ ClearProgress(d) \/ PidReused(d) \/ OtherEnds(d) \/ Upload(d)
       PROVE  Gains' /\ StalledOnlyAfterDryRuns'
  BY <1>2, <1>17 DEF SetSkip, ClearProgress, PidReused, OtherEnds, Upload
<1>18. CASE UNCHANGED vars
  BY <1>2, <1>18 DEF vars
<1> QED BY <1>3, <1>4, <1>5, <1>6, <1>7, <1>8, <1>9, <1>10, <1>11, <1>12, <1>13,
           <1>14, <1>15, <1>16, <1>17, <1>18
        DEF Next, Loop, Job, Around

(* The count of a document never runs ahead of the worker's runs on it that *)
(* had saved nothing, since one that had, when the worker counted again --  *)
(* hanging, killed, stopped by the disk guard or with other runs in between *)
(* -- unless a chunk of it is cleared between the two counts of a run       *)
(* (worker.py:121 and 149).                                                 *)
THEOREM CountsOnlyDryRuns == Spec => []StalledOnlyAfterDryRuns
<1>1. Init => DInv
  <2>1. Init => StalledOnlyAfterDryRuns /\ Gains
    BY DEF Init, StalledOnlyAfterDryRuns, Gains, BetweenCounts
  <2> QED BY <2>1, WInvInit DEF DInv
<1>2. DInv => StalledOnlyAfterDryRuns
  BY DEF DInv
<1> QED BY <1>1, <1>2, DInvStep, PTL DEF Spec
==============================================================================
