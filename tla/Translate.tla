------------------------------ MODULE Translate ------------------------------
(***************************************************************************)
(* Translating a finished book (bt.translate) and the job around it        *)
(* (jobs.start_translate, jobs.translate_status, the Translate tab): one   *)
(* folder with its translation/chunks, its lock and its log; runs started  *)
(* from the GUI or a terminal, stopped by an error, killed at any point,   *)
(* resumed, over chunks of whatever source and language there are.  A page *)
(* is one step here; module Backend opens that step up.  Runs in the       *)
(* folder do not overlap; the GUI may be used during one.                  *)
(***************************************************************************)
EXTENDS Integers, Sequences, FiniteSets

CONSTANTS
  Sources,      \* the Markdown files to translate: subset of {"raw", "final"}
  Document,     \* source -> its pages as split_pages gives them, or Blank
  Blank,        \* a page with nothing but white space
  Targets,      \* languages
  Sizes,        \* values of --pages-per-chunk
  Resumes       \* values of the resume flag (FALSE is --no-resume)

ASSUME TranslateAssumption ==
  /\ Sources \subseteq {"raw", "final"} /\ Sources # {}
  /\ \A s \in Sources : Document[s] \in Seq(Nat \cup {Blank})
  /\ Sizes \subseteq Nat \ {0}
  /\ Resumes \subseteq BOOLEAN

VARIABLES
  result,    \* the file the Translate tab offers as the source
  chunks,    \* translation/chunks/NNNN-NNNN.md: name -> its text
  book,      \* what the last run has written: its parts, and are they all?
             \* NoBook until its output file is complete on disk
  lock,      \* does .translate.lock name the run (or the last one)?
  tail,      \* is the word STOPPING in the last 8000 bytes of translate.log?
  clearing,  \* is somebody clearing the progress?
  toClear,   \* chunk files that are still to be unlinked
  pc,        \* where the run is; "idle" when there is none
  job,       \* its arguments, and whether it was started from a terminal
  todo,      \* chunks it has to make; the first is in hand
  got,       \* pages of that chunk it has; then the chunks of the book
  last,      \* history: source and language of the last run to start
  mixed,     \* history: may it have found chunks of another source or language?
  stopped    \* history: has the last run from the GUI stopped early, with a
             \* message that fits into the log's tail?

files == <<chunks, book>>
clear == <<clearing, toClear>>
mem == <<todo, got>>
history == <<last, mixed, stopped>>
tvars == <<result, files, lock, tail, clear, pc, job, mem, history>>

Jobs == [src : Sources, into : Targets, size : Sizes, resume : Resumes,
         byHand : BOOLEAN]
NoJob == [src |-> "none"]

(* default_out_path: beside the source, named for it and for the language.  *)
(* Nothing in here reads an output file: of those the last run did not      *)
(* write nothing is kept.                                                   *)
OutPath(j) == <<j.src, j.into>>
NoBook == [parts |-> <<>>, whole |-> FALSE]

(* Chunk bounds are positions in the list of pages, from 0.                 *)
Bounds(j) ==
  LET total == Len(Document[j.src])
  IN {<<i, IF i + j.size <= total THEN i + j.size - 1 ELSE total - 1>> :
         i \in {k \in 0..(total - 1) : k % j.size = 0}}
First(S) == CHOOSE c \in S : \A d \in S : c[1] <= d[1]
InOrder(S) == CHOOSE names \in [1..Cardinality(S) -> S] :
                \A k, l \in DOMAIN names : k < l => names[k][1] < names[l][1]

Put(dir, name, x) == [n \in DOMAIN dir \cup {name} |->
                         IF n = name THEN x ELSE dir[n]]
Empty == [n \in {} |-> 0]

(* translate_status, as far as the tab decides by it.                       *)
Running == lock /\ pc # "idle"
IfLocked == lock /\ tail   \* the slip: the log is read only if there is a lock
StoppedEarly == tail

(* The process is gone, and its memory with it. *)
Gone ==
  pc' = "idle" /\ job' = NoJob /\ todo' = {} /\ got' = <<>>

Init ==
  /\ result = IF "raw" \in Sources THEN "raw" ELSE "final"
  /\ chunks = Empty /\ book = NoBook
  /\ lock = FALSE /\ tail = FALSE
  /\ clearing = FALSE /\ toClear = {}
  /\ pc = "idle" /\ job = NoJob
  /\ todo = {} /\ got = <<>>
  /\ last = <<>> /\ mixed = FALSE /\ stopped = FALSE
------------------------------------------------------------------------------
(* start_translate: only with the source the tab shows, and with resume;    *)
(* the process, then the lock; what it prints is added to the log.  From a  *)
(* terminal: no lock, no log, any arguments.                                *)
Launch(j) ==
  /\ pc = "idle"
  /\ j.byHand \/ (j.resume /\ j.src = result)
  /\ last' = OutPath(j)
  /\ mixed' = (chunks # Empty /\ (mixed \/ last # OutPath(j)))
  /\ stopped' = (j.byHand /\ stopped)
  /\ job' = j /\ pc' = "begin" /\ book' = NoBook
  /\ lock' = ~j.byHand
  /\ UNCHANGED <<result, chunks, tail, clear, mem>>

(* A crash, a reboot, or the Stop button: nothing in bt.translate handles   *)
(* the SIGTERM.                                                             *)
Kill ==
  /\ pc # "idle"
  /\ Gone
  /\ UNCHANGED <<result, files, lock, tail, clear, history>>

(* Clear progress, offered when the lock names no live process: the files   *)
(* there are, one by one, then the lock; a run may begin meanwhile, and the *)
(* session may be gone before it is done.                                   *)
ClearProgress ==
  /\ ~Running /\ chunks # Empty /\ ~clearing
  /\ clearing' = TRUE /\ toClear' = DOMAIN chunks
  /\ UNCHANGED <<result, files, lock, tail, pc, job, mem, history>>

Unlink(c) ==
  /\ c \in toClear
  /\ toClear' = toClear \ {c}
  /\ chunks' = [d \in DOMAIN chunks \ {c} |-> chunks[d]]
  /\ UNCHANGED <<result, book, lock, tail, clearing, pc, job, mem, history>>

ClearLock ==
  /\ clearing /\ toClear = {}
  /\ clearing' = FALSE /\ lock' = FALSE
  /\ UNCHANGED <<result, files, tail, toClear, pc, job, mem, history>>

ClearBreaksOff ==
  /\ clearing
  /\ clearing' = FALSE /\ toClear' = {}
  /\ UNCHANGED <<result, files, lock, tail, pc, job, mem, history>>

(* The pipeline finishes the book: from now on the tab offers <book>.md.    *)
BookFinished ==
  /\ result = "raw" /\ "final" \in Sources
  /\ result' = "final"
  /\ UNCHANGED <<files, lock, tail, clear, pc, job, mem, history>>
------------------------------------------------------------------------------
(* No key for a provider that wants one: exit before any request.           *)
NoKey ==
  /\ pc = "begin"
  /\ Gone
  /\ UNCHANGED <<result, files, lock, tail, clear, history>>

(* Which chunks to make; and the slip of making them all.                   *)
MakeAll(j) == Bounds(j)
Pending(j) == {c \in Bounds(j) : ~(j.resume /\ c \in DOMAIN chunks)}

NextChunk(S) == IF S = {} THEN "join" ELSE "page"

Begin ==
  /\ pc = "begin"
  /\ todo' = Pending(job)
  /\ pc' = NextChunk(todo')
  /\ UNCHANGED <<result, files, lock, tail, clear, job, got, history>>

(* The chunk in hand, and the page of it that comes next.                   *)
Current == First(todo)
Position == Current[1] + Len(got)
ThisPage == Document[job.src][Position + 1]

(* What is kept of a page: what it translates, and into what.               *)
PageDone ==
  /\ got' = Append(got, [text |-> ThisPage, into |-> job.into])
  /\ pc' = IF Position = Current[2] THEN "save" ELSE "page"
  /\ UNCHANGED <<result, files, lock, tail, clear, job, todo, history>>

(* A blank page is not sent. *)
BlankPage == pc = "page" /\ ThisPage = Blank /\ PageDone
Translated == pc = "page" /\ ThisPage # Blank /\ PageDone

(* Any exception stops the run; what it has of the chunk is dropped.  What  *)
(* is printed reaches the log if the run was started from the GUI; a long   *)
(* message pushes the word STOPPING out of the tail by itself.  (The slip:  *)
(* what there is of the chunk is saved.)                                    *)
Says(long) ==
  IF job.byHand THEN UNCHANGED <<tail, stopped>>
                ELSE tail' = ~long /\ stopped' = ~long

KeepHalf(long) ==
  /\ pc = "page" /\ ThisPage # Blank
  /\ pc' = "save" /\ Says(long)
  /\ UNCHANGED <<result, files, lock, clear, job, mem, last, mixed>>

Stop(long) ==
  /\ pc = "page" /\ ThisPage # Blank
  /\ pc' = "join" /\ got' = <<>>
  /\ Says(long)
  /\ UNCHANGED <<result, files, lock, clear, job, todo, last, mixed>>

(* The text of a chunk, by the position of each page; it has them in that   *)
(* order.  render_pages leaves blank pages out.  The chunk is written as    *)
(* .partial, a name nobody reads, and renamed: it appears at once or not at *)
(* all.  Each chunk prints a line; enough of them push older words out.     *)
Rendered(from, pages) ==
  [p \in {from + k - 1 : k \in {x \in DOMAIN pages : pages[x].text # Blank}} |->
     pages[p - from + 1]]

SaveChunk ==
  /\ pc = "save"
  /\ chunks' = Put(chunks, Current, Rendered(Current[1], got))
  /\ todo' = todo \ {Current}
  /\ got' = <<>> /\ pc' = NextChunk(todo')
  /\ tail' \in {tail, tail /\ job.byHand}
  /\ UNCHANGED <<result, book, lock, clear, job, history>>

(* Joining what this run found or made, also when it stopped early; and the *)
(* slip of joining every file there is.                                     *)
AllFiles == DOMAIN chunks
DoneBounds == Bounds(job) \ todo

Join ==
  /\ pc = "join" /\ DoneBounds \subseteq DOMAIN chunks
  /\ LET names == InOrder(DoneBounds)
     IN got' = [k \in DOMAIN names |-> chunks[names[k]]]
  /\ pc' = "write"
  /\ UNCHANGED <<result, files, lock, tail, clear, job, todo, history>>

(* Somebody cleared the progress meanwhile: an exception nobody catches.    *)
ChunkGone ==
  /\ pc = "join" /\ ~(DoneBounds \subseteq DOMAIN chunks)
  /\ Gone
  /\ UNCHANGED <<result, files, lock, tail, clear, history>>

(* The output file is opened, which empties it, and then filled.            *)
OpenBook ==
  /\ pc = "write"
  /\ pc' = "report"
  /\ UNCHANGED <<result, files, lock, tail, clear, job, mem, history>>

(* The book and the exit code, which is 0 if no chunk is missing.           *)
Report ==
  /\ pc = "report"
  /\ book' = [parts |-> got, whole |-> todo = {}]
  /\ Gone
  /\ UNCHANGED <<result, chunks, lock, tail, clear, history>>
------------------------------------------------------------------------------
OwnStep == Begin \/ BlankPage \/ SaveChunk \/ Join \/ ChunkGone \/ OpenBook
             \/ Report

FromOutside ==
  \/ \E j \in Jobs : Launch(j)
  \/ ClearProgress \/ (\E c \in toClear : Unlink(c)) \/ ClearLock \/ ClearBreaksOff
  \/ BookFinished

Ending == Kill \/ NoKey

Next == FromOutside \/ OwnStep \/ Ending
          \/ Translated \/ \E long \in BOOLEAN : Stop(long)

Spec == Init /\ [][Next]_tvars
==============================================================================
