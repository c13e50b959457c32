----------------------------- MODULE Transcribe ------------------------------
(***************************************************************************)
(* The resumable pipeline (bt.run, bt.transcribe) working in ONE output    *)
(* folder, over any number of launches: chunks converted one at a time,    *)
(* each saved through a .partial file, its figures first; the disk guard;  *)
(* joining the chunks and post-processing; a run killed between any two    *)
(* steps; Clear progress in the GUI.  Files are modelled by what a later   *)
(* reader finds in them: Torn stands for a file whose writer has not       *)
(* finished.  Runs in the folder do not overlap here: who may run at the   *)
(* same time as whom is the business of the machine-wide checks.  A folder *)
(* is cleared by one session at a time.                                    *)
(***************************************************************************)
EXTENDS Pages, FiniteSets

CONSTANTS
  Requests,     \* what may be asked of this folder: a set of [split, range]
  Sizes,        \* the chunk sizes runs are given
  Resumes,      \* values of the resume flag (FALSE is --no-resume)
  FigureModes,  \* values of --images
  HasFigure,    \* the pages that carry a figure
  ByHand,       \* subset of BOOLEAN: TRUE if runs may come from a terminal
  NoFile,       \* in place of a file's content: there is no such file
  Torn          \* in place of a file's content: its writer has not finished

ASSUME TranscribeAssumption ==
  /\ Sizes \subseteq Nat \ {0}
  /\ \A r \in Requests : TotalPages(r) \in Nat
  /\ Resumes \subseteq BOOLEAN
  /\ FigureModes \subseteq BOOLEAN
  /\ ByHand \subseteq BOOLEAN

VARIABLES
  chunks,    \* chunks/NNNN-NNNN.md: name -> [text, figs]
  partial,   \* chunks/NNNN-NNNN.partial: name -> [text, figs] or Torn
  images,    \* the figure folder: name -> the page the picture was cut from
  hidden,    \* temporary pictures left beside them: name -> page or Torn
  raw,       \* raw.md: chunk name -> text, Torn, or NoFile
  final,     \* <book>.md, made from raw.md: the same values
  pc,        \* where the run is; "idle" when there is none
  job,       \* the run's arguments
  todo,      \* chunks still to convert; the first is in hand
  shots,     \* pages of the chunk in hand whose figure is not saved yet
  early,     \* stopped_early
  joined,    \* the text the run holds in memory while joining
  toClear    \* chunk files that Clear progress, under way, has yet to remove

disk == <<chunks, partial, images, hidden, raw, final>>
vars == <<disk, pc, job, todo, shots, early, joined, toClear>>

Names == UNION {Bounds(TotalPages(r), n) : r \in Requests, n \in Sizes}

(* Only a terminal run can be given --no-resume. *)
Jobs == {j \in [req : Requests, size : Sizes, resume : Resumes,
                figures : FigureModes, byHand : ByHand] :
            j.resume \/ j.byHand}

JobBounds == Bounds(TotalPages(job.req), job.size)

(* Chunks are taken in page order. *)
First(S) == CHOOSE c \in S : \A d \in S : c[1] <= d[1]
Current == First(todo)

(* The picture's name on disk: the chunk's bounds, then the page number     *)
(* marker gave it, which starts again at 0 in every chunk.  (The slip: the  *)
(* name without the bounds.)                                                *)
MarkerName(c, i) == << <<0, 0>>, i - c[1]>>
SavedName(c, i) == <<c, i - c[1]>>

(* What marker makes of chunk c of a job: text, and the pages whose figure  *)
(* the text links.                                                          *)
FigurePages(j, c) ==
  IF j.figures THEN {i \in PagesOf(c) : OcrPdf(j.req)[i + 1] \in HasFigure}
               ELSE {}

Chunk(j, c) == [text |-> ChunkText(j.req, c), figs |-> FigurePages(j, c)]

(* Put one file in a directory, or take one out. *)
Put(dir, name, x) == [n \in DOMAIN dir \cup {name} |->
                         IF n = name THEN x ELSE dir[n]]
Take(dir, name) == [n \in DOMAIN dir \ {name} |-> dir[n]]
Empty == [n \in {} |-> 0]

(* The process is gone, and its memory with it. *)
Exit ==
  /\ pc' = "idle"
  /\ todo' = {} /\ shots' = {} /\ early' = FALSE /\ joined' = Empty

Init ==
  /\ chunks = Empty /\ partial = Empty
  /\ images = Empty /\ hidden = Empty
  /\ raw = NoFile /\ final = NoFile
  /\ pc = "idle"
  /\ job \in Jobs
  /\ todo = {} /\ shots = {} /\ early = FALSE /\ joined = Empty
  /\ toClear = {}
------------------------------------------------------------------------------
(* The chunks a run has to convert; and the slip of converting all of them. *)
EveryChunk(j) == Bounds(TotalPages(j.req), j.size)
Pending(j) == {c \in Bounds(TotalPages(j.req), j.size) :
                  ~(j.resume /\ c \in DOMAIN chunks)}

(* Where the loop goes when the chunks S are left; and the slip of going    *)
(* round once more after the last one.                                      *)
OnceMore(S) == "guard"
NextChunk(S) == IF S = {} THEN "join" ELSE "guard"

(* bt.run up to the chunk loop: split, then see which chunks are missing.   *)
Launch(j) ==
  /\ pc = "idle"
  /\ job' = j
  /\ todo' = Pending(j)
  /\ pc' = IF todo' = {} THEN "join" ELSE "guard"
  /\ early' = FALSE
  /\ UNCHANGED <<disk, shots, joined, toClear>>

(* The disk guard, before every chunk.                                      *)
StopEarly ==
  /\ pc = "guard"
  /\ early' = TRUE
  /\ pc' = "join"
  /\ UNCHANGED <<disk, job, todo, shots, joined, toClear>>

Proceed ==
  /\ pc = "guard"
  /\ pc' = "convert"
  /\ UNCHANGED <<disk, job, todo, shots, early, joined, toClear>>

(* marker converts the range.  If it raises, the models are shut down and   *)
(* the exception ends the run.                                              *)
Convert ==
  /\ pc = "convert"
  /\ shots' = FigurePages(job, Current)
  /\ pc' = IF shots' = {} THEN "write" ELSE "shoot"
  /\ UNCHANGED <<disk, job, todo, early, joined, toClear>>

ConvertFails ==
  /\ pc = "convert"
  /\ Exit
  /\ UNCHANGED <<disk, job, toClear>>

(* save_images: each picture goes to a hidden name, then is renamed.        *)
Shot == CHOOSE i \in shots : \A k \in shots : i <= k

OpenShot ==
  /\ pc = "shoot"
  /\ hidden' = Put(hidden, SavedName(Current, Shot), Torn)
  /\ pc' = "fillshot"
  /\ UNCHANGED <<chunks, partial, images, raw, final,
                 job, todo, shots, early, joined, toClear>>

FillShot ==
  /\ pc = "fillshot"
  /\ hidden' = Put(hidden, SavedName(Current, Shot), OcrPdf(job.req)[Shot + 1])
  /\ pc' = "saveshot"
  /\ UNCHANGED <<chunks, partial, images, raw, final,
                 job, todo, shots, early, joined, toClear>>

SaveShot ==
  LET name == SavedName(Current, Shot)
  IN  /\ pc = "saveshot"
      /\ images' = Put(images, name, hidden[name])
      /\ hidden' = Take(hidden, name)
      /\ shots' = shots \ {Shot}
      /\ pc' = IF shots' = {} THEN "write" ELSE "shoot"
      /\ UNCHANGED <<chunks, partial, raw, final, job, todo, early, joined, toClear>>

(* The chunk itself: .partial opened, filled, renamed over the target.  The *)
(* slip would be to open the target itself.                                 *)
WriteInPlace ==
  /\ pc = "write"
  /\ chunks' = Put(chunks, Current, Torn)
  /\ partial' = Put(partial, Current, Torn)
  /\ pc' = "fill"
  /\ UNCHANGED <<images, hidden, raw, final, job, todo, shots, early, joined, toClear>>

OpenPartial ==
  /\ pc = "write"
  /\ partial' = Put(partial, Current, Torn)
  /\ pc' = "fill"
  /\ UNCHANGED <<chunks, images, hidden, raw, final,
                 job, todo, shots, early, joined, toClear>>

FillPartial ==
  /\ pc = "fill"
  /\ partial' = Put(partial, Current, Chunk(job, Current))
  /\ pc' = "rename"
  /\ UNCHANGED <<chunks, images, hidden, raw, final,
                 job, todo, shots, early, joined, toClear>>

SaveChunk ==
  /\ pc = "rename"
  /\ chunks' = Put(chunks, Current, partial[Current])
  /\ partial' = Take(partial, Current)
  /\ todo' = todo \ {Current}
  /\ pc' = NextChunk(todo')
  /\ UNCHANGED <<images, hidden, raw, final, job, shots, early, joined, toClear>>
------------------------------------------------------------------------------
(* concatenate: the chunks this run expects or, after an early stop,        *)
(* whatever chunk files there are, by first page.  A missing chunk ends the *)
(* run with an error, and so does one that is removed between the look at   *)
(* the names and the reading.  The text is read before raw.md is opened:    *)
(* what was read is what there was when the last name was looked at.        *)
(* (Slips: the old one, always whatever there is; after an early stop only  *)
(* what this run has done or found done.)                                   *)
Whatever == DOMAIN chunks
ItsOwn == IF early THEN JobBounds \ todo ELSE JobBounds
ToJoin == IF early THEN DOMAIN chunks ELSE JobBounds

Join ==
  /\ pc = "join"
  /\ ToJoin \subseteq DOMAIN chunks
  /\ joined' = [c \in ToJoin |-> chunks[c].text]
  /\ raw' = Torn
  /\ pc' = "fillraw"
  /\ UNCHANGED <<chunks, partial, images, hidden, final,
                 job, todo, shots, early, toClear>>

JoinFails ==
  /\ pc = "join"
  /\ ~(ToJoin \subseteq DOMAIN chunks) \/ toClear # {}
  /\ Exit
  /\ UNCHANGED <<disk, job, toClear>>

FillRaw ==
  /\ pc = "fillraw"
  /\ raw' = joined
  /\ pc' = "post"
  /\ UNCHANGED <<chunks, partial, images, hidden, final,
                 job, todo, shots, early, joined, toClear>>

(* Post-processing reads raw.md and writes the final Markdown in place.     *)
OpenFinal ==
  /\ pc = "post"
  /\ joined' = raw
  /\ final' = Torn
  /\ pc' = "fillfinal"
  /\ UNCHANGED <<chunks, partial, images, hidden, raw,
                 job, todo, shots, early, toClear>>

FillFinal ==
  /\ pc = "fillfinal"
  /\ final' = joined
  /\ Exit
  /\ UNCHANGED <<chunks, partial, images, hidden, raw, job, toClear>>
------------------------------------------------------------------------------
(* SIGTERM or SIGKILL from Stop, the watchdog or the operating system: no   *)
(* handler runs, the files stay as they are.                                *)
Killed ==
  /\ pc # "idle"
  /\ Exit
  /\ UNCHANGED <<disk, job, toClear>>

(* The Clear progress button shows whenever the lock names no live process: *)
(* no run, or one started from a terminal, which writes no lock.  It lists  *)
(* the chunk files and removes one after the other, in any order; that is   *)
(* all it looks at, so a run may be launched, or go on, meanwhile.  It ends *)
(* with the list, or before: the GUI dies, a file is gone already.          *)
ClearProgress ==
  /\ DOMAIN chunks # {} /\ toClear = {}
  /\ pc = "idle" \/ job.byHand
  /\ toClear' = DOMAIN chunks
  /\ UNCHANGED <<disk, pc, job, todo, shots, early, joined>>

Unlink(c) ==
  /\ c \in toClear
  /\ chunks' = Take(chunks, c)
  /\ toClear' = toClear \ {c}
  /\ UNCHANGED <<partial, images, hidden, raw, final,
                 pc, job, todo, shots, early, joined>>

ClearBreaksOff ==
  /\ toClear # {}
  /\ toClear' = {}
  /\ UNCHANGED <<disk, pc, job, todo, shots, early, joined>>

Clearing == ClearProgress \/ (\E c \in Names : Unlink(c)) \/ ClearBreaksOff

Step ==
  \/ StopEarly \/ Proceed
  \/ Convert \/ ConvertFails
  \/ OpenShot \/ FillShot \/ SaveShot
  \/ OpenPartial \/ FillPartial \/ SaveChunk
  \/ Join \/ JoinFails \/ FillRaw \/ OpenFinal \/ FillFinal

Next ==
  \/ \E j \in Jobs : Launch(j)
  \/ Step
  \/ Killed
  \/ Clearing

Spec == Init /\ [][Next]_vars
------------------------------------------------------------------------------
Contents(c) == {Chunk(j, c) : j \in Jobs}

TypeOK ==
  /\ DOMAIN chunks \subseteq Names /\ DOMAIN partial \subseteq Names
  /\ \A c \in DOMAIN partial : partial[c] \in Contents(c) \cup {Torn}
  /\ DOMAIN images \subseteq Names \X Nat /\ DOMAIN hidden \subseteq Names \X Nat
  /\ job \in Jobs
  /\ todo \subseteq JobBounds
  /\ shots \subseteq Nat
  /\ early \in BOOLEAN
  /\ toClear \subseteq Names
  /\ pc \in {"idle", "guard", "convert", "shoot", "fillshot", "saveshot",
             "write", "fill", "rename", "join", "fillraw", "post", "fillfinal"}
  /\ pc \notin {"idle", "join", "fillraw", "post", "fillfinal"} => todo # {}
  /\ pc \in {"shoot", "fillshot", "saveshot"} => shots # {}

(* "A chunk killed mid-write would otherwise look complete on resume and    *)
(* silently truncate the book": a file with a chunk's name always holds the *)
(* complete conversion of its page range, whatever was killed when.         *)
ChunksWhole == \A c \in DOMAIN chunks : chunks[c] \in Contents(c)

(* Images first, then the chunk that links them: every figure a finished    *)
(* chunk links is on disk, complete, and is the figure of that very page,   *)
(* although marker numbers the pages of every chunk from 0.                 *)
LinksResolve ==
  \A c \in DOMAIN chunks : \A i \in chunks[c].figs :
     /\ SavedName(c, i) \in DOMAIN images
     /\ images[SavedName(c, i)] = chunks[c].text[i]

(* The pages a request names, which is not always what OcrPdf hands over.   *)
AskedText(r, c) ==
  [i \in PagesOf(c) |-> IF r.split THEN OcrPdf(r)[i + 1]
                                   ELSE <<r.range[i + 1], "page">>]
Book(j) == [c \in Bounds(TotalPages(j.req), j.size) |-> AskedText(j.req, c)]

(* A run that was not stopped early and gets as far as writing the final    *)
(* Markdown writes the pages that were asked for, all of them, even when    *)
(* its chunks come from many earlier runs.                                  *)
BookIsTheRequest ==
  pc = "fillfinal" /\ ~early => joined = Book(job)

(* No page goes twice into the book: the parameter bounds of concatenate is *)
(* there because "a changed --chunk-size would leave stale chunks with      *)
(* different boundaries in the directory [...] and globbing would           *)
(* concatenate overlapping page ranges into a duplicated book".             *)
NoPageTwice ==
  pc = "fillfinal" =>
    \A c, d \in DOMAIN joined : c # d => PagesOf(c) \cap PagesOf(d) = {}

(* Re-running resumes where it left off: a resuming run never starts the    *)
(* conversion, a matter of minutes, of a chunk that is already on disk.     *)
NothingRedone ==
  [][pc = "guard" /\ pc' = "convert" /\ job.resume
       => Current \notin DOMAIN chunks]_vars
------------------------------------------------------------------------------
(* What a reader of the folder sees: the texts of its chunk files, the text *)
(* on its way into the book (in memory, then in raw.md, then in memory      *)
(* again), the book.                                                        *)
Saved == [c \in DOMAIN chunks |-> chunks[c].text]
Held == CASE pc \in {"fillraw", "fillfinal"} -> {joined}
          [] pc = "post"                     -> {raw}
          [] OTHER                           -> {}

Store == INSTANCE ChunkStore
           WITH Chunks <- Names,
                Texts <- [c \in Names |-> {ChunkText(r, c) : r \in Requests}],
                Volumes <- {Bounds(TotalPages(r), n) : r \in Requests, n \in Sizes},
                saved <- Saved, held <- Held, book <- final

(* The folder is a chunk store: chunks come whole and one by one, and       *)
(* whatever is killed, cleared under way or started over, a book is all the *)
(* chunks of one request, or all there were, at one moment                  *)
(* (transcribe.py:281-285, 295-337).                                        *)
ImplementsStore == Store!Spec
------------------------------------------------------------------------------
(* Liveness.  A run goes on until it ends or is killed, and no step of a    *)
(* run is cut short EVERY time it is reached; that runs are killed, stopped *)
(* by the disk guard or fail for ever is not ruled out.  Nothing is assumed *)
(* of who launches: the worker leaves out a book that counts as done,       *)
(* whether its Markdown was written or not.                                 *)
Fairness ==
  /\ WF_vars(Step)
  /\ SF_vars(Proceed) /\ SF_vars(Convert)
  /\ SF_vars(OpenShot) /\ SF_vars(FillShot) /\ SF_vars(SaveShot)
  /\ SF_vars(OpenPartial) /\ SF_vars(FillPartial) /\ SF_vars(SaveChunk)
  /\ SF_vars(Join) /\ SF_vars(FillRaw) /\ SF_vars(OpenFinal) /\ SF_vars(FillFinal)

FairSpec == Spec /\ Fairness

(* Interrupted again and again, the book gets finished for whoever launches *)
(* resuming runs again and again and stops clearing, because every chunk    *)
(* that was saved stays saved.                                              *)
BookGetsFinished ==
  /\ []<>(pc # "idle")
  /\ <>[](job.resume) /\ <>[](toClear = {})
  => []<>(final = Book(job))
==============================================================================
