----------------------------- MODULE Translation -----------------------------
(***************************************************************************)
(* The translator with its backend: every page that is sent is a call of   *)
(* Backend, which takes many steps and any amount of time.                 *)
(***************************************************************************)
EXTENDS Translate, Backend

vars == <<tvars, bvars>>

(* Only a page with text on it is sent.                                     *)
Send == pc = "page" /\ ThisPage # Blank /\ Ask /\ UNCHANGED tvars

(* strip_fence may leave nothing of an answer: an error too.                *)
Receive(nothing) ==
  /\ call = "text" /\ Return
  /\ IF nothing THEN Stop(FALSE) ELSE Translated

Raise(long) == call = "error" /\ Return /\ Stop(long)

(* What the run does by itself.                                             *)
Work ==
  \/ OwnStep /\ IF pc' = "idle" THEN Forget ELSE UNCHANGED bvars
  \/ Send
  \/ \E nothing \in BOOLEAN : Receive(nothing)
  \/ \E long \in BOOLEAN : Raise(long)

Exchange == (Post \/ Response) /\ UNCHANGED tvars
Time == Tick /\ UNCHANGED tvars

TranslationNext ==
  \/ FromOutside /\ UNCHANGED bvars
  \/ Work
  \/ Ending /\ Forget
  \/ Exchange \/ Time

(* A run goes on by itself, the endpoint answers or the request times out,  *)
(* and time passes.                                                         *)
Fairness == WF_vars(Work) /\ WF_vars(Exchange) /\ WF_vars(Time)

TranslationInit == Init /\ BackendInit

TranslationSpec == TranslationInit /\ [][TranslationNext]_vars /\ Fairness
------------------------------------------------------------------------------
TypeOK ==
  /\ BackendType
  /\ result \in Sources
  /\ DOMAIN chunks \subseteq UNION {Bounds(j) : j \in Jobs}
  /\ DOMAIN book = {"parts", "whole"} /\ book.whole \in BOOLEAN
  /\ lock \in BOOLEAN /\ tail \in BOOLEAN /\ clearing \in BOOLEAN
  /\ toClear \subseteq UNION {Bounds(j) : j \in Jobs}
  /\ mixed \in BOOLEAN /\ stopped \in BOOLEAN
  /\ pc \in {"idle", "begin", "page", "save", "join", "write", "report"}
  /\ IF pc = "idle" THEN job = NoJob
                    ELSE job \in Jobs /\ todo \subseteq Bounds(job)

(* A chunk's text is, page for page, the source's at its bounds, without    *)
(* the blank pages, in the language.                                        *)
Text(src) == {p \in 0..(Len(Document[src]) - 1) : Document[src][p + 1] # Blank}

Renders(part, src, into) ==
  \A p \in DOMAIN part : part[p].text = Document[src][p + 1] /\ part[p].into = into

Faithful(part, c, src, into) ==
  DOMAIN part = (c[1]..c[2]) \cap Text(src) /\ Renders(part, src, into)

(* The chunks joined into a book hold all pages of the source, in their     *)
(* order and each once, in the language.                                    *)
Complete(parts, src, into) ==
  /\ UNION {DOMAIN parts[k] : k \in DOMAIN parts} = Text(src)
  /\ \A k, l \in DOMAIN parts :
       k < l => \A p \in DOMAIN parts[k], q \in DOMAIN parts[l] : p < q
  /\ \A k \in DOMAIN parts : Renders(parts[k], src, into)

(* A book whose run exits with 0, made in a folder that had no chunks of    *)
(* another source or language when the run began, is page for page the      *)
(* named source in the named language, nothing twice and nothing missing,   *)
(* over any history of stops, kills, resumes, half cleared progress and     *)
(* other chunk sizes (translate.py:210-217, 233-254; transcribe.py:306).    *)
(* Over chunks of another source or language nothing is promised: they are  *)
(* taken for the book's own (translate.py:217).                             *)
BookIsFaithful ==
  book.whole /\ ~mixed => Complete(book.parts, last[1], last[2])

(* A file resume takes for a finished chunk holds every page of its bounds, *)
(* all from one source and in one language (translate.py:246-252).          *)
SavedMeansTranslated ==
  \A c \in DOMAIN chunks :
    \E src \in Sources, into \in Targets : Faithful(chunks[c], c, src, into)

(* The page that a resumed run is at is in no chunk on disk of that run's   *)
(* own --pages-per-chunk, though its list of missing chunks is hours old    *)
(* (translate.py:217).  In a chunk of other bounds the page may be: it is   *)
(* translated, and paid for, again.                                         *)
NothingPaidTwice ==
  pc = "page" /\ job.resume =>
    \A c \in DOMAIN chunks \cap Bounds(job) : Position \notin c[1]..c[2]

(* If the last run started from the GUI stopped early, with a message that  *)
(* does not fill the tail by itself, the page says that it stopped,         *)
(* whatever was cleared, killed or run from a terminal since (translate.py: *)
(* 237-243, jobs.py:364-367, 496-499, app.py:238).                          *)
AStopIsReported == stopped => StoppedEarly

(* Every run ends by itself, however the endpoint behaves, as long as it    *)
(* answers or times out (translate.py:624-644).                             *)
EveryRunEnds == pc # "idle" ~> pc = "idle"
==============================================================================
