-------------------------- MODULE TranslationProofs --------------------------
(***************************************************************************)
(* What holds of the translator and its backend for every document, chunk  *)
(* size, budget of requests, number of retries and history of stops, kills *)
(* and resumes; and that the translator with its backend is the one of     *)
(* module Translate, whose page is one step.                               *)
(***************************************************************************)
EXTENDS Translation, NumberLemmas, TLAPS

Stages == {"idle", "begin", "page", "save", "join", "write", "report"}

(* The stages after which a page may still be sent. *)
Working == {"idle", "begin", "page", "save"}

(* A request belongs to the page in hand. *)
Asking ==
  /\ pc \in Stages
  /\ call # "none" => pc = "page" /\ ThisPage # Blank

(* While pages may still be sent: what is left to wait covers what is left  *)
(* of the interval and of what is waited of the time the provider asked     *)
(* for, unless a request is out, or has failed and its run is about to      *)
(* stop; and a run that was refused for good is about to stop.              *)
Waiting ==
  pc \in Working =>
    /\ call \in {"none", "ready", "text"} => quiet + slot >= Interval
    /\ call \in {"none", "posted", "text"} => owed = 0 \/ bound = 0
    /\ call = "ready" => owed <= pause \/ bound <= pause
    /\ fatal => call = "error"

BInv == BackendType /\ Asking /\ Waiting

LEMMA ThisPageKept == UNCHANGED <<job, todo, got>> => ThisPage' = ThisPage
  BY DEF ThisPage, Position, Current, First

LEMMA BInvInit == TranslationInit => BInv
  BY BackendAssumption
  DEF TranslationInit, Init, BackendInit, BInv, BackendType, Asking, Waiting,
      Stages, Working

LEMMA Pausing ==
  ASSUME BackendType, NEW ra \in RetryAfters, NEW form \in Forms,
         attempt < MaxRetries, Asked(ra, form)
  PROVE  /\ Backoff(ra, form) \in Nat
         /\ owed' \in Nat /\ bound' \in 0..Longest
         /\ owed' <= Backoff(ra, form) \/ bound' <= Backoff(ra, form)
<1>1. ra \in Nat /\ Longest \in Nat /\ MaxRetries \in Nat
  BY BackendAssumption
<1>2. Doubling[attempt] \in Nat
  BY <1>1, BackendAssumption DEF BackendType
<1> QED BY <1>1, <1>2 DEF Backoff, Lesser, Asked, Forms

LEMMA ForgetMakesBInv ==
  ASSUME Forget, pc' = "idle"
  PROVE  BInv'
<1>1. Asking'
  BY DEF Forget, Asking, Stages
<1>2. fatal' \in BOOLEAN /\ ~fatal'
  BY Zenon DEF Forget
<1>3. BackendType'
  BY <1>2, BackendAssumption DEF Forget, BackendType
<1>4. Waiting'
  BY <1>2, BackendAssumption DEF Forget, Waiting
<1> QED BY <1>1, <1>3, <1>4 DEF BInv

LEMMA ExchangeKeepsBInv ==
  ASSUME BInv, (Post \/ Response \/ Tick) /\ UNCHANGED tvars
  PROVE  BInv'
<1> USE BackendAssumption
<1>1. pc' = pc /\ ThisPage' = ThisPage
  BY ThisPageKept DEF tvars, mem
<1>2. BackendType /\ Asking /\ Waiting
  BY DEF BInv
<1>3. CASE Post
  BY <1>1, <1>2, <1>3
  DEF BInv, BackendType, Asking, Waiting, Post, Due, Working
<1>4. ASSUME NEW body \in Bodies, ReadBody(body) PROVE BInv'
  BY <1>1, <1>2, <1>4
  DEF BInv, BackendType, Asking, Waiting, ReadBody, Responded, Working
<1>5. ASSUME NEW ra \in RetryAfters, NEW form \in Forms, Throttled(ra, form)
      PROVE  BInv'
  <2>1. Asked(ra, form)
    BY <1>5 DEF Throttled
  <2>2. CASE attempt = MaxRetries
    <3>1. owed' \in Nat /\ bound' \in 0..Longest
      BY <2>1 DEF Asked
    <3> QED
      BY <1>1, <1>2, <1>5, <2>2, <3>1
      DEF BInv, BackendType, Asking, Waiting, Throttled, Responded, Working
  <2>3. CASE attempt # MaxRetries
    <3>1. attempt < MaxRetries
      BY <1>2, <2>3 DEF BackendType
    <3>2. /\ Backoff(ra, form) \in Nat
          /\ owed' \in Nat /\ bound' \in 0..Longest
          /\ owed' <= Backoff(ra, form) \/ bound' <= Backoff(ra, form)
      BY <1>2, <2>1, <3>1, Pausing
    <3> QED
      BY <1>1, <1>2, <1>5, <2>3, <3>1, <3>2
      DEF BInv, BackendType, Asking, Waiting, Throttled, Responded, Working
  <2> QED BY <2>2, <2>3
<1>6. CASE Refused
  BY <1>1, <1>2, <1>6
  DEF BInv, BackendType, Asking, Waiting, Refused, Responded, Working
<1>7. CASE Unreachable
  BY <1>1, <1>2, <1>7 DEF BInv, BackendType, Asking, Waiting, Unreachable, Working
<1>8. CASE Tick
  BY <1>1, <1>2, <1>8
  DEF BInv, BackendType, Asking, Waiting, Tick, Down, Lesser, Working
<1> QED BY <1>3, <1>4, <1>5, <1>6, <1>7, <1>8 DEF Response

LEMMA WorkKeepsBInv ==
  ASSUME BInv, Work
  PROVE  BInv'
<1> USE BackendAssumption
<1>1. BackendType /\ Asking /\ Waiting
  BY DEF BInv
<1>2. CASE OwnStep /\ IF pc' = "idle" THEN Forget ELSE UNCHANGED bvars
  <2>1. CASE pc' = "idle"
    BY <1>2, <2>1, ForgetMakesBInv
  <2>2. CASE pc' # "idle"
    <3>1. call = "none" /\ UNCHANGED bvars
      BY <1>1, <1>2, <2>2
      DEF OwnStep, Begin, BlankPage, SaveChunk, Join, ChunkGone, OpenBook, Report,
          Asking
    <3>2. pc' \in Stages /\ (pc' \in Working => pc \in Working)
      BY <1>2, <2>2 DEF OwnStep, Begin, BlankPage, PageDone, SaveChunk, Join, ChunkGone,
          OpenBook, Report, NextChunk, Stages, Working, Gone
    <3> QED
      BY <1>1, <3>1, <3>2 DEF BInv, BackendType, Asking, Waiting, bvars
  <2> QED BY <2>1, <2>2
<1>3. CASE Send
  <2>1. pc' = pc /\ ThisPage' = ThisPage
    BY <1>3, ThisPageKept DEF Send, tvars, mem
  <2> QED
    BY <1>1, <1>3, <2>1
    DEF BInv, BackendType, Asking, Waiting, Send, Ask, Working
<1>4. ASSUME NEW nothing \in BOOLEAN, Receive(nothing) PROVE BInv'
  <2>1. pc = "page" /\ call = "text" /\ call' = "none" /\ attempt' = 0
        /\ UNCHANGED <<slot, pause, quiet, owed, bound, fatal>>
    BY <1>1, <1>4 DEF Receive, Return, Asking
  <2>2. pc' \in Stages
    BY <1>4 DEF Receive, Stop, Translated, PageDone, Stages
  <2> QED BY <1>1, <2>1, <2>2 DEF BInv, BackendType, Asking, Waiting, Working
<1>5. ASSUME NEW long \in BOOLEAN, Raise(long) PROVE BInv'
  <2>1. call' = "none" /\ pc' = "join" /\ attempt' = 0
        /\ UNCHANGED <<slot, pause, quiet, owed, bound, fatal>>
    BY <1>5 DEF Raise, Return, Stop
  <2> QED BY <1>1, <2>1 DEF BInv, BackendType, Asking, Waiting, Working, Stages
<1> QED BY <1>2, <1>3, <1>4, <1>5 DEF Work

LEMMA OutsideKeepsBInv ==
  ASSUME BInv, FromOutside, UNCHANGED bvars
  PROVE  BInv'
<1>1. BackendType /\ Asking /\ Waiting
  BY DEF BInv
<1>2. ASSUME NEW j \in Jobs, Launch(j) PROVE BInv'
  BY <1>1, <1>2
  DEF BInv, BackendType, Asking, Waiting, Launch, bvars, Stages, Working
<1>3. CASE ~ \E j \in Jobs : Launch(j)
  <2>1. UNCHANGED <<pc, job, mem>>
    BY <1>3 DEF FromOutside, ClearProgress, Unlink, ClearLock, ClearBreaksOff,
       BookFinished
  <2>2. ThisPage' = ThisPage
    BY <2>1, ThisPageKept DEF mem
  <2> QED BY <1>1, <2>1, <2>2 DEF BInv, BackendType, Asking, Waiting, bvars
<1> QED BY <1>2, <1>3

LEMMA BInvStep == BInv /\ [TranslationNext]_vars => BInv'
<1> SUFFICES ASSUME BInv, [TranslationNext]_vars PROVE BInv'
  OBVIOUS
<1>1. CASE Ending /\ Forget
  BY <1>1, ForgetMakesBInv DEF Ending, Kill, NoKey, Gone
<1>2. CASE UNCHANGED vars
  <2>1. pc' = pc /\ ThisPage' = ThisPage /\ UNCHANGED bvars
    BY <1>2, ThisPageKept DEF vars, tvars, mem
  <2> QED BY <2>1 DEF BInv, BackendType, Asking, Waiting, bvars
<1> QED
  BY <1>1, <1>2, ExchangeKeepsBInv, WorkKeepsBInv, OutsideKeepsBInv
  DEF TranslationNext, Exchange, Time

(* No request comes before the interval is over, nor before the time is     *)
(* that a refusal asked for in seconds, or Longest: for every budget, every *)
(* Longest and number of retries.  What a refusal asks for beyond Longest,  *)
(* or with a date, is not waited out (translate.py:586-598, 646-654).       *)
THEOREM RequestsArePaced == TranslationSpec => Paced
<1>1. BInv /\ [TranslationNext]_vars =>
        [call = "ready" /\ call' = "posted" => quiet >= Interval /\ (owed = 0 \/ bound = 0)]_bvars
  <2> SUFFICES ASSUME BInv, [TranslationNext]_vars, call = "ready", call' = "posted"
               PROVE  quiet >= Interval /\ (owed = 0 \/ bound = 0)
    OBVIOUS
  <2>1. Post
    BY DEF TranslationNext, FromOutside, Work, Ending, Exchange, Time, Tick, Send,
       Ask, Receive, Raise, Return, Response, ReadBody, Throttled, Refused,
       Unreachable, Responded, Forget, bvars, vars
  <2> QED
    BY <2>1, BackendAssumption
    DEF BInv, BackendType, Asking, Waiting, Working, Post, Due
<1> QED BY BInvInit, BInvStep, <1>1, PTL DEF TranslationSpec, Paced

(* After a refusal that retrying cannot mend, a run sends nothing more      *)
(* (translate.py:636-639, 233).                                             *)
THEOREM NoRequestAfterAFatalOne == TranslationSpec => []FatalMeansSilent
<1>1. BInv => FatalMeansSilent
  BY DEF BInv, Asking, Waiting, Working, FatalMeansSilent
<1> QED BY BInvInit, BInvStep, <1>1, PTL DEF TranslationSpec
------------------------------------------------------------------------------
LEMMA StepRefines == [TranslationNext]_vars => [Next]_tvars
  BY DEF TranslationNext, vars, Work, Send, Receive, Raise, Exchange, Time, Next

(* The translator with its backend does nothing that the one whose page is  *)
(* a single step does not do: what holds of that one's files and reports    *)
(* holds whatever the endpoint answers and however long it takes            *)
(* (translate.py:210-252, 600-644).                                         *)
THEOREM BackendIsOneStep == TranslationSpec => Spec
<1>1. TranslationInit => Init
  BY DEF TranslationInit
<1> QED BY <1>1, StepRefines, PTL DEF TranslationSpec, Spec
------------------------------------------------------------------------------
(* The chunks a run has to make are some of its own; a resumed run's are    *)
(* none of those on disk; while it is at one, there is one.                 *)
AtWork ==
  /\ pc \in Stages
  /\ IF pc = "idle" THEN job = NoJob
                    ELSE job \in Jobs /\ todo \subseteq Bounds(job)
  /\ pc \in {"idle", "begin"} => todo = {}
  /\ pc \in {"page", "save"} => todo # {}
  /\ pc # "idle" /\ job.resume => todo \cap DOMAIN chunks = {}

OnDisk ==
  /\ result \in Sources
  /\ DOMAIN chunks \subseteq UNION {Bounds(j) : j \in Jobs}
  /\ DOMAIN book = {"parts", "whole"} /\ book.whole \in BOOLEAN
  /\ toClear \subseteq UNION {Bounds(j) : j \in Jobs}
  /\ lock \in BOOLEAN /\ tail \in BOOLEAN /\ clearing \in BOOLEAN
  /\ mixed \in BOOLEAN /\ stopped \in BOOLEAN

JobInv == AtWork /\ OnDisk

(* The chunk in hand is one of those to make. *)
LEMMA CurrentIsOne ==
  ASSUME NEW j \in Jobs, todo \subseteq Bounds(j), todo # {}
  PROVE  Current \in todo
<1> DEFINE Starts == {c[1] : c \in todo}
<1>1. Len(Document[j.src]) \in Nat
  BY TranslateAssumption DEF Jobs
<1>2. \A c \in todo : c[1] \in Nat
  BY <1>1 DEF Bounds
<1>3. PICK m \in Starts : \A k \in Starts : m <= k
  <2>1. Starts \in SUBSET Nat /\ Starts # {}
    BY <1>2
  <2> HIDE DEF Starts
  <2> QED BY <2>1, LeastExists
<1>4. \E c \in todo : \A d \in todo : c[1] <= d[1]
  BY <1>3
<1> QED BY <1>4 DEF Current, First

LEMMA PutDomain ==
  ASSUME NEW dir, NEW name, NEW x
  PROVE  DOMAIN Put(dir, name, x) = DOMAIN dir \cup {name}
  BY DEF Put

LEMMA BookType ==
  ASSUME NEW parts, NEW w
  PROVE  LET b == [parts |-> parts, whole |-> w]
         IN DOMAIN b = {"parts", "whole"} /\ b.parts = parts /\ b.whole = w
  OBVIOUS

LEMMA JobInvInit == Init => JobInv
<1> SUFFICES ASSUME Init PROVE JobInv
  OBVIOUS
<1>1. result \in Sources
  BY TranslateAssumption DEF Init
<1>2. DOMAIN chunks = {} /\ toClear = {}
  BY DEF Init, Empty
<1>3. /\ lock \in BOOLEAN /\ tail \in BOOLEAN /\ clearing \in BOOLEAN
      /\ mixed \in BOOLEAN /\ stopped \in BOOLEAN
  BY Zenon DEF Init
<1>4. DOMAIN book = {"parts", "whole"} /\ book.whole \in BOOLEAN
  BY DEF Init, NoBook
<1> QED BY <1>1, <1>2, <1>3, <1>4 DEF Init, JobInv, AtWork, OnDisk, Stages

LEMMA GoneAtWork ==
  ASSUME JobInv, Gone
  PROVE  AtWork'
  BY DEF JobInv, Gone, AtWork, Stages

(* What is said goes to the log of a run from the GUI, or nowhere. *)
LEMMA SaysType ==
  ASSUME OnDisk, NEW long \in BOOLEAN, Says(long)
  PROVE  tail' \in BOOLEAN /\ stopped' \in BOOLEAN
<1>1. CASE job.byHand
  BY <1>1 DEF Says, OnDisk
<1>2. CASE ~job.byHand
  BY <1>2, Zenon DEF Says
<1> QED BY <1>1, <1>2

(* Clearing the progress takes chunks away, and no more. *)
LEMMA ClearingKeepsJobInv ==
  ASSUME JobInv,
         ClearProgress \/ (\E c \in toClear : Unlink(c)) \/ ClearLock \/ ClearBreaksOff
  PROVE  JobInv'
<1>1. AtWork /\ OnDisk
  BY DEF JobInv
<1>2. /\ UNCHANGED <<result, book, tail, pc, job, todo, mixed, stopped>>
      /\ DOMAIN chunks' \subseteq DOMAIN chunks
      /\ toClear' \subseteq toClear \cup DOMAIN chunks
  BY DEF ClearProgress, Unlink, ClearLock, ClearBreaksOff, files, mem, history
<1>3. lock' \in BOOLEAN /\ clearing' \in BOOLEAN
  <2>1. lock' \in {lock, FALSE} /\ clearing' \in {clearing, TRUE, FALSE}
    BY DEF ClearProgress, Unlink, ClearLock, ClearBreaksOff
  <2> QED BY <1>1, <2>1 DEF OnDisk
<1>4. OnDisk'
  BY <1>1, <1>2, <1>3 DEF OnDisk
<1>5. AtWork'
  BY <1>1, <1>2 DEF AtWork
<1> QED BY <1>4, <1>5 DEF JobInv

LEMMA JobInvStep == JobInv /\ [Next]_tvars => JobInv'
<1> SUFFICES ASSUME JobInv, [Next]_tvars PROVE JobInv'
  OBVIOUS
<1>0. AtWork /\ OnDisk
  BY DEF JobInv
<1>1. ASSUME NEW j \in Jobs, Launch(j) PROVE JobInv'
  <2>1. mixed' \in BOOLEAN /\ stopped' \in BOOLEAN /\ lock' \in BOOLEAN
    BY <1>1, Zenon DEF Launch
  <2>2. OnDisk'
    BY <1>0, <1>1, <2>1 DEF OnDisk, Launch, clear, NoBook
  <2>3. AtWork'
    BY <1>0, <1>1 DEF AtWork, Launch, mem, Stages
  <2> QED BY <2>2, <2>3 DEF JobInv
<1>2. CASE ClearProgress \/ (\E c \in toClear : Unlink(c)) \/ ClearLock \/ ClearBreaksOff
  BY <1>2, ClearingKeepsJobInv
<1>3. CASE BookFinished
  BY <1>0, <1>3 DEF JobInv, AtWork, OnDisk, BookFinished, files, clear, mem, history
<1>4. CASE Begin
  <2>1. /\ pc = "begin" /\ todo' = Pending(job) /\ pc' = NextChunk(todo')
        /\ UNCHANGED <<result, files, lock, tail, clear, job, history>>
    BY <1>4 DEF Begin
  <2>2. todo' \subseteq Bounds(job) /\ (job.resume => todo' \cap DOMAIN chunks = {})
    BY <2>1 DEF Pending
  <2>3. pc' \in {"join", "page"} /\ (pc' = "page" => todo' # {})
    BY <2>1 DEF NextChunk
  <2> QED
    BY <1>0, <2>1, <2>2, <2>3
    DEF JobInv, AtWork, OnDisk, Stages, files, clear, history
<1>5. ASSUME pc = "page", PageDone PROVE JobInv'
  <2>1. pc' \in {"page", "save"}
        /\ UNCHANGED <<result, files, lock, tail, clear, job, todo, history>>
    BY <1>5 DEF PageDone
  <2> QED
    BY <1>0, <1>5, <2>1 DEF JobInv, AtWork, OnDisk, Stages, files, clear, history
<1>6. ASSUME NEW long \in BOOLEAN, Stop(long) PROVE JobInv'
  <2>1. pc = "page" /\ pc' = "join"
        /\ UNCHANGED <<result, files, lock, clear, job, todo, mixed>>
    BY <1>6 DEF Stop
  <2>2. tail' \in BOOLEAN /\ stopped' \in BOOLEAN
    BY <1>0, <1>6, SaysType DEF Stop
  <2> QED BY <1>0, <2>1, <2>2 DEF JobInv, AtWork, OnDisk, Stages, files, clear
<1>7. CASE SaveChunk
  <2>1. /\ pc = "save" /\ todo' = todo \ {Current} /\ pc' = NextChunk(todo')
        /\ chunks' = Put(chunks, Current, Rendered(Current[1], got))
        /\ UNCHANGED <<result, book, lock, clear, job, history>>
    BY <1>7 DEF SaveChunk
  <2>2. DOMAIN chunks' = DOMAIN chunks \cup {Current}
    BY <2>1, PutDomain
  <2>3. job \in Jobs /\ Current \in Bounds(job)
    BY <1>0, <2>1, CurrentIsOne DEF AtWork
  <2>4. pc' \in {"join", "page"} /\ (pc' = "page" => todo' # {})
    BY <2>1 DEF NextChunk
  <2>5. tail' \in BOOLEAN
    <3>1. job.byHand \in BOOLEAN
      BY <2>3 DEF Jobs
    <3>2. {tail, tail /\ job.byHand} \subseteq BOOLEAN
      BY <1>0, <3>1 DEF OnDisk
    <3> QED BY <1>7, <3>2 DEF SaveChunk
  <2>6. OnDisk'
    BY <1>0, <2>1, <2>2, <2>3, <2>5 DEF OnDisk, clear, history
  <2>7. AtWork'
    BY <1>0, <2>1, <2>2, <2>3, <2>4 DEF AtWork, Stages
  <2> QED BY <2>6, <2>7 DEF JobInv
<1>8. CASE Join \/ OpenBook
  <2>1. pc # "idle" /\ pc' \in {"write", "report"}
        /\ UNCHANGED <<result, files, lock, tail, clear, job, todo, history>>
    BY <1>8 DEF Join, OpenBook, mem
  <2> QED BY <1>0, <2>1 DEF JobInv, AtWork, OnDisk, Stages, files, clear, history
<1>9. CASE Report
  <2>1. /\ Gone /\ UNCHANGED <<result, chunks, lock, tail, clear, history>>
        /\ book' = [parts |-> got, whole |-> todo = {}]
    BY <1>9 DEF Report
  <2>2. DOMAIN book' = {"parts", "whole"} /\ book'.whole = (todo = {})
    BY <2>1, BookType
  <2>3. book'.whole \in BOOLEAN
    BY <2>2, Zenon
  <2> QED
    BY <1>0, <2>1, <2>2, <2>3, GoneAtWork DEF JobInv, OnDisk, clear, history
<1>10. CASE ChunkGone \/ Kill \/ NoKey
  <2>1. Gone /\ UNCHANGED <<result, files, lock, tail, clear, history>>
    BY <1>10 DEF ChunkGone, Kill, NoKey
  <2> QED BY <1>0, <2>1, GoneAtWork DEF JobInv, OnDisk, files, clear, history
<1>11. CASE UNCHANGED tvars
  BY <1>0, <1>11 DEF JobInv, AtWork, OnDisk, tvars, files, clear, mem, history
<1> QED
  BY <1>1, <1>2, <1>3, <1>4, <1>5, <1>6, <1>7, <1>8, <1>9, <1>10, <1>11
  DEF Next, FromOutside, OwnStep, Ending, BlankPage, Translated

LEMMA JobInvAlways == TranslationSpec => []JobInv
<1>1. TranslationInit => JobInv
  BY JobInvInit DEF TranslationInit
<1> QED BY <1>1, JobInvStep, StepRefines, PTL DEF TranslationSpec

(* Type correctness of the job, its files and the call in hand.             *)
THEOREM TypeCorrect == TranslationSpec => []TypeOK
<1>1. BInv /\ JobInv => TypeOK
  BY DEF BInv, Asking, JobInv, AtWork, OnDisk, TypeOK, Stages
<1> QED BY BInvInit, BInvStep, JobInvAlways, <1>1, PTL DEF TranslationSpec

------------------------------------------------------------------------------
(* A run from the GUI that still has pages to send has not stopped; and what *)
(* was said of a stop is still in the tail.                                  *)
StopLogged ==
  /\ stopped => tail
  /\ pc \in {"begin", "page", "save"} /\ ~job.byHand => ~stopped

LEMMA StopLoggedStep == JobInv /\ StopLogged /\ [Next]_tvars => StopLogged'
<1> SUFFICES ASSUME JobInv, StopLogged, [Next]_tvars PROVE StopLogged'
  OBVIOUS
<1>0. tail \in BOOLEAN /\ stopped \in BOOLEAN
  BY DEF JobInv, OnDisk
<1>1. ASSUME NEW j \in Jobs, Launch(j) PROVE StopLogged'
  <2>1. stopped' = (j.byHand /\ stopped) /\ tail' = tail /\ job' = j
    BY <1>1 DEF Launch
  <2> QED BY <1>0, <2>1, Zenon DEF StopLogged
<1>2. CASE SaveChunk
  <2>1. /\ pc = "save" /\ tail' \in {tail, tail /\ job.byHand}
        /\ stopped' = stopped /\ job' = job
    BY <1>2 DEF SaveChunk, history
  <2>2. stopped => job.byHand
    BY <2>1 DEF StopLogged
  <2> QED BY <2>1, <2>2, Zenon DEF StopLogged
<1>3. ASSUME NEW long \in BOOLEAN, Stop(long) PROVE StopLogged'
  <2>1. pc' = "join" /\ Says(long)
    BY <1>3 DEF Stop
  <2>2. stopped' => tail'
    BY <2>1, Zenon DEF Says, StopLogged
  <2> QED BY <2>1, <2>2 DEF StopLogged
<1>4. CASE UNCHANGED <<tail, stopped, job>>
           /\ (pc' \in {"begin", "page", "save"} => pc \in {"begin", "page", "save"})
  BY <1>4 DEF StopLogged
<1>5. CASE Gone /\ UNCHANGED <<tail, stopped>>
  BY <1>5 DEF Gone, StopLogged
<1>6. CASE FromOutside
  BY <1>1, <1>4, <1>6
  DEF FromOutside, ClearProgress, Unlink, ClearLock, ClearBreaksOff, BookFinished, history
<1>7. CASE OwnStep
  BY <1>2, <1>4, <1>5, <1>7
  DEF OwnStep, Begin, BlankPage, PageDone, Join, ChunkGone, OpenBook, Report, history
<1>8. CASE Ending
  BY <1>5, <1>8 DEF Ending, Kill, NoKey, history
<1>9. CASE Translated
  BY <1>4, <1>9 DEF Translated, PageDone, history
<1>10. CASE UNCHANGED tvars
  BY <1>4, <1>10 DEF tvars, history
<1> QED BY <1>3, <1>6, <1>7, <1>8, <1>9, <1>10 DEF Next

(* That the last run from the GUI stopped early, with a message that leaves *)
(* the word in the log's tail, is said until the next run from the GUI,     *)
(* whatever was saved, cleared, killed or run from a terminal since         *)
(* (translate.py:237-243, jobs.py:364-367, 496-499).                        *)
THEOREM StopsAreReported == TranslationSpec => []AStopIsReported
<1>1. TranslationInit => StopLogged
  BY DEF TranslationInit, Init, StopLogged
<1>2. JobInv /\ StopLogged /\ [TranslationNext]_vars => StopLogged'
  BY StopLoggedStep, StepRefines
<1>3. StopLogged => AStopIsReported
  BY DEF StopLogged, AStopIsReported, StoppedEarly
<1> QED BY JobInvAlways, <1>1, <1>2, <1>3, PTL DEF TranslationSpec
------------------------------------------------------------------------------
LEMMA JobType ==
  ASSUME NEW j \in Jobs
  PROVE  /\ j.src \in Sources /\ j.into \in Targets
         /\ Document[j.src] \in Seq(Nat \cup {Blank})
         /\ Len(Document[j.src]) \in Nat /\ j.size \in Nat \ {0}
         /\ Bounds(j) = Blocks(Len(Document[j.src]), j.size)
<1>1. j.src \in Sources /\ j.into \in Targets /\ j.size \in Sizes
  BY DEF Jobs
<1>2. Document[j.src] \in Seq(Nat \cup {Blank}) /\ j.size \in Nat \ {0}
  BY <1>1, TranslateAssumption
<1> QED BY <1>1, <1>2 DEF Bounds, Blocks

(* The pages a run has of the chunk in hand are the source's from the       *)
(* chunk's first on; all of them once it saves.                             *)
FromSource ==
  /\ got \in Seq([text : Nat \cup {Blank}, into : Targets])
  /\ \A k \in 1..Len(got) : /\ got[k].text = Document[job.src][Current[1] + k]
                             /\ got[k].into = job.into

InHand ==
  /\ pc \in {"idle", "begin", "join"} => got = <<>>
  /\ pc \in {"page", "save"} => FromSource
  /\ pc = "page" => Position <= Current[2]
  /\ pc = "save" => Position = Current[2] + 1

LEMMA CurrentInBounds ==
  ASSUME AtWork, pc \in {"page", "save"}
  PROVE  /\ job \in Jobs /\ Current \in todo /\ Current \in Bounds(job)
         /\ Current[1] \in Nat /\ Current[2] \in Nat
         /\ Current[1] <= Current[2] /\ Current[2] < Len(Document[job.src])
<1>1. job \in Jobs /\ todo \subseteq Bounds(job) /\ todo # {}
  BY DEF AtWork
<1>2. Current \in todo /\ Current \in Bounds(job)
  BY <1>1, CurrentIsOne
<1> QED BY <1>1, <1>2, JobType, BlockType

(* The chunk it saves is the source's text at the chunk's bounds.           *)
LEMMA SavedIsFaithful ==
  ASSUME AtWork, InHand, pc = "save"
  PROVE  Faithful(Rendered(Current[1], got), Current, job.src, job.into)
<1> DEFINE c == Current
           part == Rendered(c[1], got)
<1>1. /\ job \in Jobs /\ c[1] \in Nat /\ c[2] \in Nat /\ c[1] <= c[2]
      /\ c[2] < Len(Document[job.src])
  BY CurrentInBounds
<1>2. FromSource /\ c[1] + Len(got) = c[2] + 1
  BY DEF InHand, Position
<1> HIDE DEF c
<1>3. Len(got) \in Nat /\ DOMAIN got = 1..Len(got) /\ c[1] + Len(got) = c[2] + 1
  BY <1>2 DEF FromSource
<1>4. Len(Document[job.src]) \in Nat
  BY <1>1, JobType
<1>5. \A k \in 1..Len(got) : /\ got[k].text = Document[job.src][c[1] + k]
                             /\ got[k].into = job.into
  BY <1>2 DEF FromSource, c
<1>6. ASSUME NEW p \in c[1]..c[2], p \in Text(job.src) PROVE p \in DOMAIN part
  <2>1. p - c[1] + 1 \in 1..Len(got) /\ p = c[1] + (p - c[1] + 1) - 1
    BY <1>1, <1>3
  <2>2. got[p - c[1] + 1].text # Blank
    <3>1. Document[job.src][p + 1] # Blank
      BY <1>6 DEF Text
    <3>2. c[1] + (p - c[1] + 1) = p + 1
      BY <1>1
    <3> QED BY <1>5, <2>1, <3>1, <3>2
  <2> QED BY <1>3, <2>1, <2>2 DEF Rendered
<1>7. ASSUME NEW p \in DOMAIN part
      PROVE  /\ p \in (c[1]..c[2]) \cap Text(job.src)
             /\ part[p].text = Document[job.src][p + 1] /\ part[p].into = job.into
  <2>1. PICK k \in 1..Len(got) : p = c[1] + k - 1 /\ got[k].text # Blank
    BY <1>3 DEF Rendered
  <2>2. part[p] = got[k]
    <3>1. p - c[1] + 1 = k
      BY <1>1, <1>3, <2>1
    <3> QED BY <3>1 DEF Rendered
  <2>3. c[1] + k = p + 1 /\ p \in c[1]..c[2] /\ p \in 0..(Len(Document[job.src]) - 1)
    BY <1>1, <1>3, <1>4, <2>1
  <2> QED BY <1>5, <2>1, <2>2, <2>3 DEF Text
<1> QED BY <1>6, <1>7 DEF Faithful, Renders, c

LEMMA PageKeepsInHand ==
  ASSUME JobInv, InHand, pc = "page", PageDone
  PROVE  InHand'
<1> DEFINE page == [text |-> ThisPage, into |-> job.into]
<1>1. /\ job \in Jobs /\ Current[1] \in Nat /\ Current[2] \in Nat
      /\ Current[2] < Len(Document[job.src])
  BY CurrentInBounds DEF JobInv
<1>2. FromSource /\ Position <= Current[2]
  BY DEF InHand
<1>3. Len(got) \in Nat /\ Current[1] + Len(got) <= Current[2]
  BY <1>2 DEF FromSource, Position
<1>4. job' = job /\ Current' = Current
  BY DEF PageDone, Current, First
<1>5. page \in [text : Nat \cup {Blank}, into : Targets]
  <2>1. Position + 1 \in 1..Len(Document[job.src])
    BY <1>1, <1>3, JobType DEF Position
  <2>2. ThisPage \in Nat \cup {Blank}
    BY <1>1, <2>1, JobType DEF ThisPage
  <2> QED BY <1>1, <2>2, JobType
<1>6. got' = Append(got, page) /\ pc' = IF Position = Current[2] THEN "save" ELSE "page"
  BY DEF PageDone
<1>7. /\ got' \in Seq([text : Nat \cup {Blank}, into : Targets])
      /\ Len(got') = Len(got) + 1
      /\ \A k \in 1..Len(got) : got'[k] = got[k]
      /\ got'[Len(got) + 1] = page
  <2> HIDE DEF page
  <2> QED BY <1>2, <1>5, <1>6 DEF FromSource
<1>8. \A k \in 1..Len(got') : /\ got'[k].text = Document[job.src][Current[1] + k]
                              /\ got'[k].into = job.into
  <2> SUFFICES ASSUME NEW k \in 1..Len(got')
               PROVE  /\ got'[k].text = Document[job.src][Current[1] + k]
                      /\ got'[k].into = job.into
    OBVIOUS
  <2>1. CASE k \in 1..Len(got)
    BY <1>2, <1>7, <2>1 DEF FromSource
  <2>2. CASE k = Len(got) + 1
    BY <1>1, <1>3, <1>7, <2>2 DEF ThisPage, Position
  <2> QED BY <1>3, <1>7, <2>1, <2>2
<1>9. Position' = Position + 1 /\ Position \in Nat /\ Position <= Current[2]
  BY <1>1, <1>3, <1>4, <1>7 DEF Position
<1>10. CASE Position = Current[2]
  BY <1>4, <1>6, <1>7, <1>8, <1>9, <1>10 DEF InHand, FromSource
<1>11. CASE Position # Current[2]
  BY <1>1, <1>4, <1>6, <1>7, <1>8, <1>9, <1>11 DEF InHand, FromSource
<1> QED BY <1>10, <1>11

(* With no page of a chunk made yet, all of it is to come. *)
LEMMA NewChunkInHand ==
  ASSUME job' \in Jobs, todo' \subseteq Bounds(job'), todo' # {}, got' = <<>>,
         pc' = "page"
  PROVE  InHand'
<1>1. \A c \in todo' : c[1] \in Nat /\ c[2] \in Nat /\ c[1] <= c[2]
  BY JobType, BlockType
<1>2. First(todo') \in todo'
  <2> DEFINE Starts == {c[1] : c \in todo'}
  <2>1. Starts \in SUBSET Nat /\ Starts # {}
    BY <1>1
  <2>2. PICK m \in Starts : \A k \in Starts : m <= k
    <3> HIDE DEF Starts
    <3> QED BY <2>1, LeastExists
  <2>3. \E c \in todo' : \A d \in todo' : c[1] <= d[1]
    BY <2>2
  <2> QED BY <2>3 DEF First
<1>3. Position' <= Current[2]'
  BY <1>1, <1>2 DEF Position, Current
<1>4. FromSource'
  BY DEF FromSource
<1> QED BY <1>3, <1>4 DEF InHand

LEMMA InHandStep == JobInv /\ InHand /\ [Next]_tvars => InHand'
<1> SUFFICES ASSUME JobInv, InHand, [Next]_tvars PROVE InHand'
  OBVIOUS
<1>1. CASE Gone
  BY <1>1 DEF Gone, InHand
<1>2. CASE Begin
  <2>1. pc = "begin" /\ got' = got /\ got = <<>> /\ job' = job
        /\ todo' = Pending(job) /\ pc' = NextChunk(todo')
    BY <1>2 DEF Begin, InHand
  <2>2. CASE todo' = {}
    BY <2>1, <2>2 DEF InHand, NextChunk
  <2>3. CASE todo' # {}
    BY <2>1, <2>3, NewChunkInHand DEF NextChunk, Pending, JobInv, AtWork
  <2> QED BY <2>2, <2>3
<1>3. ASSUME pc = "page", PageDone PROVE InHand'
  BY <1>3, PageKeepsInHand
<1>4. CASE SaveChunk
  <2>1. pc = "save" /\ got' = <<>> /\ job' = job
        /\ todo' = todo \ {Current} /\ pc' = NextChunk(todo')
    BY <1>4 DEF SaveChunk
  <2>2. CASE todo' = {}
    BY <2>1, <2>2 DEF InHand, NextChunk
  <2>3. CASE todo' # {}
    BY <2>1, <2>3, NewChunkInHand DEF NextChunk, JobInv, AtWork
  <2> QED BY <2>2, <2>3
<1>5. ASSUME NEW long \in BOOLEAN, Stop(long) PROVE InHand'
  BY <1>5 DEF Stop, InHand
<1>6. CASE Join \/ OpenBook
  BY <1>6 DEF Join, OpenBook, InHand
<1>7. ASSUME NEW j \in Jobs, Launch(j) PROVE InHand'
  BY <1>7 DEF Launch, InHand, mem
<1>8. CASE UNCHANGED <<pc, job, mem>>
  <2>1. UNCHANGED <<pc, got, job, todo>>
    BY <1>8 DEF mem
  <2> QED BY <2>1 DEF InHand, FromSource, Position, Current, First
<1> QED
  BY <1>1, <1>2, <1>3, <1>4, <1>5, <1>6, <1>7, <1>8
  DEF Next, FromOutside, ClearProgress, Unlink, ClearLock, ClearBreaksOff, BookFinished,
      OwnStep, Ending, BlankPage, Translated, ChunkGone, Kill, NoKey, Report, tvars

LEMMA InHandAlways == TranslationSpec => []InHand
<1>1. TranslationInit => InHand
  BY DEF TranslationInit, Init, InHand
<1>2. JobInv /\ InHand /\ [TranslationNext]_vars => InHand'
  BY InHandStep, StepRefines
<1> QED BY JobInvAlways, <1>1, <1>2, PTL DEF TranslationSpec

(* The page a resumed run is at is in no chunk on disk that has the bounds  *)
(* of that run's chunk size, for every document and size and whatever was   *)
(* saved, cleared or killed since it made its list; a page of a chunk of    *)
(* another size is paid for again (translate.py:217, 246-252).              *)
THEOREM ResumePaysForNothingTwice == TranslationSpec => []NothingPaidTwice
<1>1. JobInv /\ InHand => NothingPaidTwice
  <2> SUFFICES ASSUME JobInv, InHand, pc = "page", job.resume,
                      NEW c \in DOMAIN chunks \cap Bounds(job),
                      Position \in c[1]..c[2]
               PROVE  FALSE
    BY DEF NothingPaidTwice
  <2>1. /\ job \in Jobs /\ Current \in todo /\ Current \in Bounds(job)
        /\ Current[1] \in Nat /\ Current[2] \in Nat
    BY CurrentInBounds DEF JobInv
  <2>2. Current[1] <= Position /\ Position <= Current[2] /\ Position \in Nat
    <3>1. Len(got) \in Nat
      BY DEF InHand, FromSource
    <3> QED BY <2>1, <3>1 DEF InHand, Position
  <2>3. c \notin todo
    BY DEF JobInv, AtWork
  <2>4. c # Current
    BY <2>1, <2>3
  <2>5. (c[1]..c[2]) \cap (Current[1]..Current[2]) = {}
    BY <2>1, <2>4, JobType, BlocksApart
  <2> QED BY <2>1, <2>2, <2>5
<1> QED BY JobInvAlways, InHandAlways, <1>1, PTL
------------------------------------------------------------------------------
LEMMA PutValue ==
  ASSUME NEW dir, NEW name, NEW x, NEW n \in DOMAIN Put(dir, name, x)
  PROVE  /\ n = name => Put(dir, name, x)[n] = x
         /\ n # name => n \in DOMAIN dir /\ Put(dir, name, x)[n] = dir[n]
  BY DEF Put

(* Only saving a chunk changes what a chunk file says.                      *)
LEMMA ChunksStep ==
  ASSUME JobInv, InHand, [Next]_tvars, NEW c \in DOMAIN chunks'
  PROVE  \/ c \in DOMAIN chunks /\ chunks'[c] = chunks[c]
         \/ /\ pc = "save" /\ job' = job /\ last' = last /\ job \in Jobs
            /\ Faithful(chunks'[c], c, job.src, job.into)
<1>1. CASE UNCHANGED chunks
  BY <1>1
<1>2. ASSUME NEW d \in toClear, Unlink(d) PROVE c \in DOMAIN chunks /\ chunks'[c] = chunks[c]
  BY <1>2 DEF Unlink
<1>3. CASE SaveChunk
  <2>1. /\ pc = "save" /\ job' = job /\ last' = last
        /\ chunks' = Put(chunks, Current, Rendered(Current[1], got))
    BY <1>3 DEF SaveChunk, history
  <2>2. job \in Jobs /\ Faithful(Rendered(Current[1], got), Current, job.src, job.into)
    BY <2>1, SavedIsFaithful, CurrentInBounds DEF JobInv
  <2> QED BY <2>1, <2>2, PutValue
<1>4. UNCHANGED chunks \/ (\E d \in toClear : Unlink(d)) \/ SaveChunk
  BY DEF Next, FromOutside, OwnStep, Ending, BlankPage, Translated, PageDone, Stop, Launch,
     ClearProgress, ClearLock, ClearBreaksOff, BookFinished, Begin, Join, ChunkGone, OpenBook, Report, Kill, NoKey, files, tvars
<1> QED BY <1>1, <1>2, <1>3, <1>4

(* A file that resume takes for a finished chunk holds its bounds' pages,   *)
(* all of them, of one source and in one language: for every document, any  *)
(* chunk sizes, and whatever stopped, failed or was killed (translate.py:   *)
(* 233-252).                                                                *)
THEOREM SavedChunksAreWhole == TranslationSpec => []SavedMeansTranslated
<1>1. TranslationInit => SavedMeansTranslated
  BY DEF TranslationInit, Init, SavedMeansTranslated, Empty
<1>2. JobInv /\ InHand /\ SavedMeansTranslated /\ [TranslationNext]_vars
        => SavedMeansTranslated'
  <2> SUFFICES ASSUME JobInv, InHand, SavedMeansTranslated, [Next]_tvars
               PROVE  SavedMeansTranslated'
    BY StepRefines
  <2>1. ASSUME NEW c \in DOMAIN chunks'
        PROVE  \E src \in Sources, into \in Targets : Faithful(chunks'[c], c, src, into)
    BY ChunksStep, JobType DEF SavedMeansTranslated
  <2> QED BY <2>1 DEF SavedMeansTranslated, Faithful, Renders, Text
<1> QED BY JobInvAlways, InHandAlways, <1>1, <1>2, PTL DEF TranslationSpec
------------------------------------------------------------------------------
(* Sorting the bounds of a job gives each of them once, in page order.      *)
LEMMA SortedBounds ==
  ASSUME NEW j \in Jobs, NEW names, names = InOrder(Bounds(j))
  PROVE  /\ \A k \in DOMAIN names : names[k] \in Bounds(j)
         /\ \A c \in Bounds(j) : \E k \in DOMAIN names : names[k] = c
         /\ DOMAIN names \subseteq Nat
         /\ \A k, l \in DOMAIN names : k < l => names[k][1] < names[l][1]
<1> DEFINE n == Len(Document[j.src])
           m == j.size
           B == Bounds(j)
           N == Cardinality(B)
           Sorted(x) == \A k, l \in DOMAIN x : k < l => x[k][1] < x[l][1]
<1>1. n \in Nat /\ m \in Nat \ {0} /\ B = Blocks(n, m)
  BY JobType
<1>2. IsFiniteSet(B) /\ N = (n + m - 1) \div m /\ N \in Nat
  BY <1>1, BlocksCount, FS_CardinalityType
<1>3. Row(n, m) \in [1..N -> B] /\ Sorted(Row(n, m))
  BY <1>1, <1>2, RowIsBlocks DEF Bijection, Injection
<1>4. \A c \in B : c[1] \in Nat
  BY <1>1, BlockType
<1> HIDE DEF n, m, B, N
<1>5. names \in [1..N -> B] /\ Sorted(names)
  BY <1>3 DEF InOrder, N, B
<1>6. names \in Injection(1..N, B)
  <2>1. ASSUME NEW k \in 1..N, NEW l \in 1..N, names[k] = names[l] PROVE k = l
    <3>1. ~ (k < l) /\ ~ (l < k)
      BY <1>4, <1>5, <2>1
    <3> QED BY <1>2, <3>1
  <2> QED BY <1>5, <2>1 DEF Injection, IsInjective
<1>7. names \in Surjection(1..N, B)
  <2>1. Cardinality(1..N) = N
    BY <1>2, FS_Interval
  <2> QED BY <1>2, <1>6, <2>1, FS_Injection DEF N
<1>8. DOMAIN names = 1..N
  BY <1>5
<1> QED BY <1>2, <1>5, <1>7, <1>8 DEF Surjection, B

(* Unless it may have found others, a run has the chunks of its own source  *)
(* and language only.                                                       *)
FromLast ==
  /\ pc # "idle" => last = OutPath(job)
  /\ ~mixed => \A c \in DOMAIN chunks : Faithful(chunks[c], c, last[1], last[2])

(* What such a run that has made all chunks is about to write is the book.  *)
BookInHand ==
  pc \in {"write", "report"} /\ todo = {} /\ ~mixed
    => Complete(got, job.src, job.into)

LEMMA JoinedIsComplete ==
  ASSUME JobInv, FromLast, Join, todo = {}, ~mixed
  PROVE  Complete(got', job.src, job.into)
<1> DEFINE names == InOrder(Bounds(job))
           n == Len(Document[job.src])
<1>1. job \in Jobs /\ last[1] = job.src /\ last[2] = job.into
  BY DEF Join, JobInv, AtWork, FromLast, OutPath
<1>2. n \in Nat /\ job.size \in Nat \ {0} /\ Bounds(job) = Blocks(n, job.size)
  BY <1>1, JobType
<1>3. DoneBounds = Bounds(job)
  BY DEF DoneBounds
<1>4. got' = [k \in DOMAIN names |-> chunks[names[k]]] /\ Bounds(job) \subseteq DOMAIN chunks
  BY <1>3 DEF Join
<1>5. /\ \A k \in DOMAIN names : names[k] \in Bounds(job)
      /\ \A c \in Bounds(job) : \E k \in DOMAIN names : names[k] = c
      /\ DOMAIN names \subseteq Nat
      /\ \A k, l \in DOMAIN names : k < l => names[k][1] < names[l][1]
  BY <1>1, SortedBounds
<1> HIDE DEF names
<1>6. DOMAIN got' = DOMAIN names /\ \A k \in DOMAIN names : got'[k] = chunks[names[k]]
  BY <1>4
<1>7. ASSUME NEW k \in DOMAIN names
      PROVE  Faithful(got'[k], names[k], job.src, job.into)
  BY <1>1, <1>4, <1>5, <1>6 DEF FromLast
<1>8. UNION {DOMAIN got'[k] : k \in DOMAIN got'} = Text(job.src)
  <2>1. ASSUME NEW p \in Text(job.src) PROVE \E k \in DOMAIN names : p \in DOMAIN got'[k]
    <3>1. p \in 0..(n - 1)
      BY DEF Text
    <3>2. PICK c \in Bounds(job) : p \in c[1]..c[2]
      BY <1>2, <3>1, BlocksCover
    <3>3. PICK k \in DOMAIN names : names[k] = c
      BY <1>5
    <3> QED BY <1>7, <3>2, <3>3 DEF Faithful
  <2>2. \A k \in DOMAIN names : DOMAIN got'[k] \subseteq Text(job.src)
    BY <1>7 DEF Faithful
  <2> QED BY <1>6, <2>1, <2>2
<1>9. ASSUME NEW k \in DOMAIN names, NEW l \in DOMAIN names, k < l,
             NEW p \in DOMAIN got'[k], NEW q \in DOMAIN got'[l]
      PROVE  p < q
  <2>1. p \in names[k][1]..names[k][2] /\ q \in names[l][1]..names[l][2]
    BY <1>7 DEF Faithful
  <2>2. names[k][2] < names[l][1]
    BY <1>2, <1>5, <1>9, BlocksInOrder
  <2>3. /\ names[k][1] \in Nat /\ names[k][2] \in Nat
        /\ names[l][1] \in Nat /\ names[l][2] \in Nat
    BY <1>2, <1>5, BlockType
  <2> QED BY <2>1, <2>2, <2>3
<1>10. \A k \in DOMAIN got' : Renders(got'[k], job.src, job.into)
  BY <1>6, <1>7 DEF Faithful
<1> QED BY <1>6, <1>8, <1>9, <1>10 DEF Complete

(* Between launches the last job and its arguments stand. *)
LEMMA LastStep ==
  ASSUME JobInv, [Next]_tvars
  PROVE  \/ \E j \in Jobs : Launch(j)
         \/ UNCHANGED <<last, mixed>> /\ (pc' # "idle" => pc # "idle" /\ job' = job)
<1>1. CASE Gone /\ UNCHANGED <<last, mixed>>
  BY <1>1 DEF Gone
<1>2. CASE UNCHANGED <<last, mixed, job>> /\ pc # "idle"
  BY <1>2
<1>3. CASE UNCHANGED <<last, mixed, job, pc>>
  BY <1>3
<1>4. CASE FromOutside
  BY <1>3, <1>4
  DEF FromOutside, ClearProgress, Unlink, ClearLock, ClearBreaksOff, BookFinished, history
<1>5. CASE OwnStep
  BY <1>1, <1>2, <1>5
  DEF OwnStep, Begin, BlankPage, PageDone, SaveChunk, Join, ChunkGone, OpenBook, Report,
      history
<1>6. CASE Ending
  BY <1>1, <1>6 DEF Ending, Kill, NoKey, history
<1>7. CASE Translated
  BY <1>2, <1>7 DEF Translated, PageDone, history
<1>8. ASSUME NEW long \in BOOLEAN, Stop(long)
      PROVE  UNCHANGED <<last, mixed, job>> /\ pc # "idle"
  BY <1>8 DEF Stop
<1> QED BY <1>2, <1>3, <1>4, <1>5, <1>6, <1>7, <1>8 DEF Next, tvars, history

LEMMA FromLastStep == JobInv /\ InHand /\ FromLast /\ [Next]_tvars => FromLast'
<1> SUFFICES ASSUME JobInv, InHand, FromLast, [Next]_tvars PROVE FromLast'
  OBVIOUS
<1>1. ASSUME NEW j \in Jobs, Launch(j) PROVE FromLast'
  <2>1. /\ UNCHANGED chunks /\ last' = OutPath(j) /\ job' = j
        /\ mixed' = (chunks # Empty /\ (mixed \/ last # OutPath(j)))
    BY <1>1 DEF Launch
  <2>2. ~mixed' => chunks = Empty \/ (~mixed /\ last = OutPath(j))
    BY <2>1
  <2>3. ~mixed' => \A c \in DOMAIN chunks' : Faithful(chunks'[c], c, last'[1], last'[2])
    BY <2>1, <2>2 DEF Empty, FromLast
  <2> QED BY <2>1, <2>3 DEF FromLast, Faithful, Renders, Text, OutPath
<1>2. ASSUME UNCHANGED <<last, mixed>>, pc' # "idle" => pc # "idle" /\ job' = job
      PROVE  FromLast'
  <2>1. ASSUME ~mixed', NEW c \in DOMAIN chunks'
        PROVE  Faithful(chunks'[c], c, last'[1], last'[2])
    <3>1. CASE c \in DOMAIN chunks /\ chunks'[c] = chunks[c]
      BY <1>2, <2>1, <3>1 DEF FromLast
    <3>2. CASE pc = "save" /\ Faithful(chunks'[c], c, job.src, job.into)
      BY <1>2, <3>2 DEF FromLast, OutPath
    <3> QED BY <3>1, <3>2, ChunksStep
  <2>2. pc' # "idle" => last' = OutPath(job')
    BY <1>2 DEF FromLast, OutPath
  <2> QED BY <2>1, <2>2 DEF FromLast, Faithful, Renders, Text
<1> QED BY <1>1, <1>2, LastStep

LEMMA BookInHandStep ==
  JobInv /\ FromLast /\ BookInHand /\ [Next]_tvars => BookInHand'
<1> SUFFICES ASSUME JobInv, FromLast, BookInHand, [Next]_tvars PROVE BookInHand'
  OBVIOUS
<1> USE DEF BookInHand
<1>1. CASE Join
  <2>1. todo' = todo /\ job' = job /\ mixed' = mixed
    BY <1>1 DEF Join, history
  <2>2. CASE todo = {} /\ ~mixed
    BY <1>1, <2>1, <2>2, JoinedIsComplete DEF Complete, Renders, Text
  <2> QED BY <2>1, <2>2
<1>2. CASE UNCHANGED <<todo, job, got, mixed>>
           /\ (pc' \in {"write", "report"} => pc \in {"write", "report"})
  BY <1>2 DEF Complete, Renders, Text
<1>3. CASE pc' \notin {"write", "report"}
  BY <1>3
<1>4. CASE FromOutside
  BY <1>2, <1>3, <1>4
  DEF FromOutside, Launch, ClearProgress, Unlink, ClearLock, ClearBreaksOff,
      BookFinished, mem, history
<1>5. CASE OwnStep
  BY <1>1, <1>2, <1>3, <1>5
  DEF OwnStep, Begin, NextChunk, BlankPage, PageDone, SaveChunk, ChunkGone, OpenBook,
      Report, Gone, mem, history
<1>6. CASE Ending
  BY <1>3, <1>6 DEF Ending, Kill, NoKey, Gone
<1>7. CASE Translated
  BY <1>3, <1>7 DEF Translated, PageDone
<1>8. ASSUME NEW long \in BOOLEAN, Stop(long) PROVE pc' \notin {"write", "report"}
  BY <1>8 DEF Stop
<1> QED BY <1>2, <1>3, <1>4, <1>5, <1>6, <1>7, <1>8 DEF Next, tvars, mem, history

LEMMA BookStep ==
  JobInv /\ FromLast /\ BookInHand /\ BookIsFaithful /\ [Next]_tvars => BookIsFaithful'
<1> SUFFICES ASSUME JobInv, FromLast, BookInHand, BookIsFaithful, [Next]_tvars
             PROVE  BookIsFaithful'
  OBVIOUS
<1>1. CASE UNCHANGED <<book, last, mixed>>
  BY <1>1 DEF BookIsFaithful, Complete, Renders, Text
<1>2. ASSUME NEW j \in Jobs, Launch(j) PROVE BookIsFaithful'
  <2>1. ~book'.whole
    BY <1>2 DEF Launch, NoBook
  <2> QED BY <2>1 DEF BookIsFaithful
<1>3. CASE Report
  <2>1. /\ book' = [parts |-> got, whole |-> todo = {}] /\ pc = "report"
        /\ UNCHANGED <<last, mixed>> /\ last = OutPath(job)
    BY <1>3 DEF Report, history, FromLast
  <2>2. book'.parts = got /\ book'.whole = (todo = {})
    BY <2>1, BookType
  <2>3. todo = {} /\ ~mixed => Complete(book'.parts, last[1], last[2])
    BY <2>1, <2>2 DEF BookInHand, OutPath
  <2>4. book'.whole => todo = {}
    BY <2>2, Zenon
  <2>5. book'.whole /\ ~mixed' => Complete(book'.parts, last'[1], last'[2])
    BY <2>1, <2>3, <2>4
  <2> QED BY <2>5 DEF BookIsFaithful, Complete, Renders, Text
<1>4. CASE FromOutside
  BY <1>1, <1>2, <1>4
  DEF FromOutside, ClearProgress, Unlink, ClearLock, ClearBreaksOff, BookFinished, files,
      history
<1>5. CASE OwnStep
  BY <1>1, <1>3, <1>5
  DEF OwnStep, Begin, BlankPage, PageDone, SaveChunk, Join, ChunkGone, OpenBook, files,
      history
<1>6. CASE Ending
  BY <1>1, <1>6 DEF Ending, Kill, NoKey, files, history
<1>7. CASE Translated
  BY <1>1, <1>7 DEF Translated, PageDone, files, history
<1>8. ASSUME NEW long \in BOOLEAN, Stop(long) PROVE UNCHANGED <<book, last, mixed>>
  BY <1>8 DEF Stop, files
<1> QED
  BY <1>1, <1>4, <1>5, <1>6, <1>7, <1>8 DEF Next, tvars, files, history

(* A book whose run exits with 0 and found no chunks of another source or   *)
(* language is the named source, page for page and in order, in the named   *)
(* language: for every document, for chunks of any sizes side by side, and  *)
(* over any history of stops, kills, errors, clears broken off and resumes  *)
(* (translate.py:210-254, transcribe.py:306-337, app.py:860-865).           *)
THEOREM FinishedBooksAreFaithful == TranslationSpec => []BookIsFaithful
<1>1. TranslationInit => FromLast /\ BookInHand /\ BookIsFaithful
  BY DEF TranslationInit, Init, FromLast, BookInHand, BookIsFaithful, Empty, NoBook
<1>2. JobInv /\ InHand /\ FromLast /\ BookInHand /\ BookIsFaithful
        /\ [TranslationNext]_vars
        => FromLast' /\ BookInHand' /\ BookIsFaithful'
  BY StepRefines, FromLastStep, BookInHandStep, BookStep
<1> QED BY JobInvAlways, InHandAlways, <1>1, <1>2, PTL DEF TranslationSpec
==============================================================================
