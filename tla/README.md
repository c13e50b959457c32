# A TLA+ verification of pdf-to-markdown-marker

The program turns scanned books into Markdown on a small machine. A run takes
hours, stops early on purpose when the disk fills up, is killed, resumed,
watched by an unattended worker and steered from a GUI, and all of them agree
with each other only through files: chunk files, lock files, `queue.json` and
the process table. What can go wrong is therefore a matter of ordering, and
that is what these modules are about.

`tlc -config MCTranscribe.cfg MCTranscribe` runs one configuration, `tlapm
TranscribeProofs.tla` checks one module of proofs. `PROJECT.json` lists the
runs, the mutants that show each property can fail, the lines behind every
definition, the findings, the hazards and the theorems.

## The system

| Component | State it keeps | Operations | Talks to |
|---|---|---|---|
| page preparation (`run.py`, `split_spreads.py`) | `pages.pdf`, `pagemap.json` | cut spreads in two, drop blank halves, `--pages`, `--no-split` | hands a PDF and a page count to transcription |
| transcription (`transcribe.py`, `run.py`) | `chunks/NNNN-NNNN.md`, `.partial`, figures, `raw.md`, the book | convert a chunk, save figures, save the chunk, disk guard, concatenate, post-process, resume | marker and its model servers |
| overlay (`queue.py`) | `queue.json`: skip flag, attempts, cached analysis | `set_skip`, `record_attempt`, `_cached_analysis` | written by worker and GUI |
| survey and choice (`queue.py`) | none: derived from disk | `survey`, `next_pending`, `resolve_out_dir` | reads chunks, locks, overlay |
| worker (`worker.py`) | `_stop`, its place in the loop | wait, pick, count, launch, supervise, count again, record | `jobs.start`, `jobs.stop_pids`, overlay |
| processes and locks (`jobs.py`) | `.run.lock`, `.worker.lock`, the process table | `start`, `stop_pids`, `start_worker`, `stop_worker`, `claim_worker_lock` | `ps`, signals |
| GUI (`app.py`) | session state only | start, stop, clear progress, skip, upload, worker buttons | everything above |
| translation (`translate.py`) | `translation/chunks`, `.partial`, the translated book; in memory what a request needs: its attempt, the time of the last call | page-chunk loop, resume, stop at the first failure, pacing, retries, checks on the answer | an HTTP API |
| translation job (`jobs.py`, `app.py`) | `.translate.lock`, `translate.log` | `start_translate`, `translate_status`, Stop, Clear progress, choice of `raw.md` or the finished book | `bt.translate` |
| model servers (`jobs.py`, marker's surya) | server processes, sentinel files | sweep stale sentinels, attach or spawn, `pkill` | started by a run, outlive it |
| model warm-up (`warmup.py`) | blobs, partial files, snapshots of the model cache | fetch with curl, resume, check the size, rename, link | read by the model servers |
| folders (`queue.py`, `app.py`) | which folder holds whose chunks, known from locks | `discover`, `resolve_out_dir`, `folder_belongs_to` | every run resumes in the folder it is given |
| post-processing (`postprocess.py`) | none: a function on text | running heads, joins, footnotes | called by `run.py` |
| gutter (`split_spreads.py`) | none: a function on a row of columns | `find_gutter` | called by page preparation |
| analysis, verification, preflight, GPU set-up | caches | heuristics, environment checks | called around a run |

Hard behaviours: a kill between any two steps of a run; the same folder used by
runs with other arguments; two processes rewriting one file; checks followed by
actions with time in between; pids that outlive their meaning in lock files and
sentinels; a supervisor that goes away; an endpoint that throttles, refuses,
truncates or never answers; and, in all of it, that the book must get finished.

What makes each component correct:

- *transcription*: a file with a chunk's name is that chunk, complete; links
  resolve to the right picture; the book holds the pages asked for, once;
  resumption redoes nothing; the book gets finished;
- *overlay*: an update is atomic, whatever crashes, and touches one field;
- *choice and worker*: only fruitless runs count against a document; no document
  blocks the queue for ever;
- *processes*: one run and one worker at a time, the lock names the worker;
- *translation*: the translated book is its source page for page; a saved chunk
  holds every page of its bounds, and a resumed run of the same chunk size does
  not pay for it again; no request goes out before it may; a stop is shown as
  one; every run ends;
- *model servers and warm-up*: a run does not wait for a server that earlier runs
  left behind, a stop leaves none behind, weights are whole when linked;
- *folders*: a run resumes on its own document's chunks;
- *post-processing and gutter*: nothing but running heads is dropped, paragraphs
  become lines and structure stays, only notes become definitions, the cut goes
  through the widest blank band.

The code does not keep all of this. "Where the code does less than it says"
below lists where not; the properties say what is left.

## The modules

| Module | What it models |
|---|---|
| `Pages` | Operators: what `run.py` hands to marker for a request, and the chunk bounds |
| `ChunkStore` | The abstract specification of an output folder: a store of chunks and a book |
| `Transcribe` | All launches of `bt.run` in one output folder, one after the other |
| `MCTranscribe` | Small documents for TLC |
| `OverlayTable` | The table in `queue.json` and the updates to it |
| `AtomicOverlay` | The abstract specification: each update happens at once |
| `Overlay`, `MCOverlay` | How `queue.py` really does it: load, temporary file, rename, on inodes |
| `Worker`, `MCWorker` | The worker's loop and its judgement of documents |
| `Machine`, `MCMachine` | Processes, pids, lock files, signals |
| `Folders`, `MCFolders` | Which folder a document's work lives in, and what runs find there |
| `Translate` | All launches of `bt.translate` in one folder, and the job around them |
| `Backend` | One page through the HTTP client, in time |
| `Translation`, `MCTranslation` | Both together: a page of `Translate` is a call of `Backend` |
| `Warmup` | Fetching model weights into the cache |
| `Servers`, `MCServers` | Model servers, their sentinels, the sweep and `pkill`, on top of `Warmup` |
| `Postprocess` | Operators: what `process` makes of a text |
| `Gutter` | Operators: where `find_gutter` cuts |
| `Inputs`, `MCInputs` | Every short text and narrow spread, against what the comments promise |
| `NumberLemmas` | Least and greatest elements, loops, multiples of a chunk size (for the proofs) |
| `TranscribeProofs`, `WorkerProofs`, `MachineProofs`, `TranslationProofs`, `ServersProofs`, `InputsProofs` | Theorems about the module of that name and those it composes |
| `QueueProofs` | Theorems about `Overlay` and `Folders` |

`Transcribe` composes `Pages` and instantiates `ChunkStore` with what a reader
of its folder sees; `Overlay` and `AtomicOverlay` share
`OverlayTable`, and `Overlay` instantiates `AtomicOverlay` with the table that
a reader of the file gets; `Translation` composes `Translate` and `Backend`;
`Servers` composes with `Warmup`. The others meet through what they assume of
each other:

- `Transcribe` assumes that runs in one folder do not overlap, and `Worker` that
  there is one worker and one run; `Machine` says when there are two
  (`OnlyUnseenRivals`, `OneWorker`).
- `Worker` assumes an atomic overlay; `Overlay` says until when it is one.
- `Worker` reduces a run to what the worker sees of it: chunk counts, silence,
  the end. `Transcribe` says what the run does, `Servers` why it may hang.
- `Transcribe` is about one document's folder; `Folders` asks when a folder is
  one document's.
- `Transcribe` writes the book as one step; `Postprocess` says what is written.

### Transcribe

A request is `[split, range]`; a job adds the chunk size, `--no-resume`,
`--images` and whether it was started by hand. The text of a chunk is the
function from its page numbers to the halves (or pages) of the source they show,
so that a wrong, missing or doubled page is a wrong value. `pc` follows the run:
`guard` (disk), `convert`, `shoot`/`fillshot`/`saveshot` (one figure at a time
through its hidden temporary file), `write`/`fill`/`rename` (the chunk through
`.partial`), `join`, `fillraw`, `post`, `fillfinal`. `Torn` is the content of a
file between its opening and the end of the write. `Killed` may strike anywhere.
Clear progress in the GUI lists the chunk files (`ClearProgress`) and removes
one after the other (`Unlink`), or breaks off (`ClearBreaksOff`); it looks at
the lock only, and is therefore also offered while a run started from a terminal
is at work, and a run may be launched meanwhile. Post-processing appears as a
step that reads `raw.md` and writes the book; what it does to the words is not
modelled.

`ChunkStore` is what the folder promises its readers: chunks appear and
disappear whole, one at a time; a book is replaced only by what the
store held at one moment, either all chunks of one request or everything there
was, and is torn while that happens. `Store` in `Transcribe` maps the texts of
the chunk files to the store, and to the text on its way into the book what the
run holds in memory, then `raw.md`, then its memory again (`Held`). Clear
progress may come between the join and the book, and the book is then still the
one that was joined.

### Overlay

Names and inodes are kept apart because the code's safety depends on it:
`write_text` truncates whatever inode `queue.json.tmp` names, `rename` moves
that inode, and a writer that opened it goes on writing the published file. A
file written by two writers after one truncation may keep the tail of the longer
text, hence `Torn`. `load_overlay` takes an unreadable file for an empty table.
The cached analysis is not a field: an update that stores it rewrites all other
entries as it had loaded them, which is what matters (`Analysis`). Nothing keeps
two updates apart. `apart` is a history variable: no update has begun while
another was under way. The promises of a table hold that long and no longer
(`QueueFileWhole`, `ImplementsAtomic`); `OnlyLateWriters` needs no such proviso.
`MaxCount` bounds the counts for TLC: an update that would pass it is not made.

### Worker

`wpc` is the place in `loop`, `run_one` and `supervise`: `check`, `disk`, `pick`,
then `count` (worker.py:121), `start` (140), `watch` and `nap`, `recount` (149),
`record` (151) and `rest`, or `off`. Every step between two places lets others
in, so a run may end, a folder be cleared or another run start between a count
and the launch, or between the last look at a process and its stop (`Kill`,
whose pkill then takes the model servers from somebody else's run). Time is the
number of looks without any change (`StallPolls` = `STALL_TIMEOUT / WATCH_POLL`).
`job` is the run on the machine and who launched it: the worker that is up, the
GUI (or an earlier worker), or a terminal. `clearing` and `left` are Clear
progress under way; if it takes the lock away before `start` has read the pid
from it, nobody watches the run (`StartUnwatched`). `Events` says which outside
events a configuration allows: foreign runs, Stop, SIGTERM to the worker, Skip,
Clear progress, pid reuse, uploads. `Total` is the number of chunks the survey
computes, `Need` the number the book really has. `gained` and `dry` are history
variables, to compare the count on disk with: `gained` is what happened to the
document between the two counts (nothing, the worker's run saved a chunk, or a
chunk was cleared, after which nobody can tell), `dry` the worker's fruitless runs
of a document in a row.

### Machine

Each check and the act that follows it are separate steps of a caller (a GUI
session or a worker), and any number of callers may be between the two. A run is
of one of three kinds: launched by `jobs.start` (`"run"`), or started from a
terminal as `python -m bt.run` or `bt.transcribe` (`"hand"`) or as
`bt-transcribe` (`"hidden"`), whose command line does not match `PIPELINE_CMD`, so
that ps shows it to nobody. `group` is the process group, because `_kill_group`
signals groups and a run from a terminal with `uv run` is two processes in one.
Killed processes leave their locks behind; other programs get free pids. `PsFails`
is a ps that cannot be run or takes too long, `WillClear` and `ClearLock` are what
Clear progress does to a lock. `unseen`, `rivals` and `crossed` are history
variables: the launched runs that a caller's look at ps did not show it; what was
unseen when a run was launched; and whether two workers have been between their
look at the lock and their claim at once, since there was last no worker.
`asked` is the SIGTERM a worker has noted and not acted on yet.

### Translate, Backend, Translation

`pc` follows a run: `begin` (which chunks are missing), `page`, `save` (the
`.partial` and its rename: a name nobody reads in between), `join`, `write`,
`report`. A page in a chunk is a record of its text and of the language it was
translated into, so that a page of another source or language is a wrong value.
A chunk's text is the pages that were put into it, each with its place
(`Rendered`), and a book the pages of its chunks in the order of their names
(`InOrder`), so that a page lost, doubled or out of place shows. `book` is what
the last run has written; nothing reads an output file, so that of earlier ones
nothing is kept. `tail` is whether the word STOPPING is in the part of the log
that `_read_status` reads: a stop of a run from the GUI puts it there, unless
the message fills that part by itself, and later output may push it out; a run
from a terminal writes no log. `lock` is whether the lock names the run, which
is not so for a run from a terminal; the Stop and Clear buttons go by the lock,
and Clear progress removes the files one by one. `mixed` and `stopped` are
history variables: whether the last run may have found chunks of another source
or language, and whether the last run from the GUI stopped early with such a
message. `Backend` counts time in ticks: `slot` is what `_wait_for_slot` still
has to wait, `pause` the sleep after a refusal. `quiet`, `owed` and `bound` are
history variables: the time since the last request, what is left of the time the
provider asked for, in seconds or as a date, and what is left of the longest
that the code waits for it (nothing, for a date). In `Translation` a page with
text is a call of the backend, of any length, that may be killed; a new run has
a new translator, which knows nothing of the calls of the one before.

### Servers and Warmup

A server is a process with a pid and a kind; its sentinel names the pid. marker
and surya are external: they attach to a server a sentinel names, wait for it if
it is not there, start one if there is no sentinel, as the comments in
`jobs.py:141-158` and `warmup.py:1-16` say. A run's end stops its servers or
some of them (`SURYA_INFERENCE_KEEP_ALIVE`) and may leave sentinels. `stop`
follows `stop_pids`; `condemned` are the servers of the run it stops, those
included that the run starts between SIGTERM and its death. `died` are the
processes that ended since the run was prepared. Files in `Warmup` are a number
of blocks and whether they are the file's; the weights are fetched before
anything is started (`Quiet`).

### Folders

A chunk file's name says a position and nothing of a document, so the model
keeps the document as the content. `Launch` takes what `resolve_out_dir`
proposes, `LaunchTyped` is a GUI user who types `output/` instead, which nothing
checks (constant `Typed`), `HandRun` a terminal without a lock (`HandRuns`). Clear
progress removes file after file and then the lock, as in `Worker`.

### Postprocess, Gutter and Inputs

A line is one of fourteen kinds, by what the regular expressions can tell of it
(two of them fences, code and display math, which close with their own kind), and
a line of output remembers which lines of the input it is made of. So the
properties relate output to input without a second implementation: order and
loss of lines, what may be joined to what, which line became a definition. A
spread is a row of columns that are blank or not. `Inputs` lets texts and rows
grow by an element at a time, and so visits all up to the bounds. The loops of
the code (`Kept` for its filters, `JoinHyphens`, `ReflowLines`, `BlankRuns`,
`MergeFolds`, `Widest`) are recursive functions from the number of elements
consumed to what is there by then, one operator per turn of the loop, so that
they can be proved about.

## The runs

| Run | What it shows | Bounds |
|---|---|---|
| `transcribe` | the safety of the pipeline, with kills and clears at every step; the folder implements `ChunkStore` | 2 spreads, one blank half, so 3 book pages in chunks of 2: a full and a short last chunk, both with a figure on marker's page 0 |
| `transcribe_live` | the book gets finished for whoever goes on launching it | the same without figures |
| `overlay` | until two updates overlap the file implements the table; overlapping, only late writers touch the published file | 2 documents, counts up to 1, one worker and one GUI, 3 inodes (two open files and the published one); documents and inodes are symmetric |
| `worker` | only dry runs count, whatever happens between the counts | 2 documents of 2 and 1 chunks, 2 attempts, a run is silent at the first look without a change; foreign runs, Stop, SIGTERM to the worker, Clear progress |
| `worker_live` | the queue moves on for a worker left in order | the same documents, but the survey expects 3 chunks of the first; 1 attempt; foreign runs, SIGTERM, Skip, pid reuse, uploads, runs that hang or fail |
| `machine` | which two runs or workers there can be, and whom the lock names | 3 pids, 2 symmetric folders, a session; its calls, workers' and terminals' at once; ps failing |
| `translate` | the translated book is its source, chunks of a run's size are not paid for again, requests are paced, a stop is shown, every run ends | a raw text of 3 pages, one blank, and a finished book of 1; chunks of 1 or 2; one retry, a Retry-After above the cap, as a date, or none, with a doubling below and at the cap |
| `text` | what cleaning does to any text and where any spread is cut | texts of 5 lines of eleven kinds, 6 lines of six, books of up to 8 short lines over several pages; bands of 12 columns, folds of 2 |
| `serving` | no waiting for servers left behind, none left behind by a stop, weights whole when linked | 2 kinds of server, 2 pids; files of 2 blocks, 2 attempts, 2 revisions |

Two chunks are enough for `transcribe` because a property there relates at most
two chunks (or a chunk and its figures). Two documents are enough for `worker`
because documents meet only in the choice of the next one, and in the overlay in
one file. Three pids are enough for two rivals and a third process that takes
over a dead one's pid, for two workers and a session that launch at once, or for
a run from a terminal (two processes) beside a worker. In `translate` two sizes
over three pages give chunks that overlap without being equal, and one blank
page gives a chunk with nothing to send. In `text` reflow looks at one line
before and remembers the open fence and two bits, so five lines reach each of
its states with each kind of line before and after; head detection is given a
threshold of two pages and 60 %, so that both halves of the threshold decide
within few pages. Two pids are enough for `serving`: a sentinel's and the one
that is reused.

Three runs end in a counterexample: places where the program does not do what its
comments, documentation or tests say. `findings` in `PROJECT.json` quotes the
lines.

| Run | What happens |
|---|---|
| `folders` | two PDFs with one name in two folders of the library: the second resumes onto the first one's chunks |
| `serving_own_server` | stopping a transcription ends the `llama-server` the user translates with |
| `transcribe_sizes` | a folder with chunks of one size, resumed with another (`bt.run`'s default is 20, that of queue and GUI 10) and stopped early: all files are joined, pages are in the book twice |

### What the settings exclude

Some constants of the passing runs leave out a case in which a property does
not hold of the code. Changing the setting in the `.cfg` (for requests, in
`MCTranscribe`) shows it.

| Setting | Property that then fails | What happens |
|---|---|---|
| two page selections in `Requests` | `BookIsTheRequest` | chunk files are named by position: the second selection takes over the chunks of the first |
| a request `[split: FALSE]` of fewer pages than the PDF has | `BookIsTheRequest` | `--no-split --pages` reads the first pages of the PDF, not those asked for (run.py:100) |
| two chunk sizes in `Sizes` of `Transcribe` | `NoPageTwice` | `transcribe_sizes`; all other properties hold with them |
| `ErrorPages = TRUE` | `LinkedMeansWhole` | curl has no `-f`: an error answer becomes the head of the file, which is as long as it should be in the end |
| `PkillFails = TRUE` | `NoServerLeftBehind` | nothing looks whether pkill succeeded |
| distinct stems in `MCStem` | none: `ResumesOnlyItsOwn` then holds | see `folders`; with `HandRuns = TRUE` it fails again, since a run from a terminal leaves no lock, and with `Typed = TRUE`, since nothing looks whose chunks are in a folder that is typed in |

### Where the code does less than it says

The following are in the models too. The properties of the passing runs allow
them, by a premise or a disjunct of their own, and say so in their comments; none
of them is what the comment, the text or the test named here promises.

- *Updates of `queue.json` may overlap*, and then one is lost, an old count
  comes back, or the file is read as empty (`apart`).
- *One run at a time*: "The app also refuses to start while another pipeline is
  running anywhere on the machine" (README.md:158), "however it was started"
  (jobs.py:181). A run may appear between ps and Popen; ps may fail; and a run
  started as `uv run bt-transcribe`, as README.md:88 has it, matches no pattern
  and is seen by nobody (`OnlyUnseenRivals`).
- *"A second worker must not start"* (tests/test_jobs.py:148): two started at
  once do (`crossed`). And a stale lock that names the pid a new worker happens
  to get turns that worker away.
- *Unskipping* does not "clear the attempt count" (app.py:991-993): nothing does
  but a run of the worker that saves a chunk, and there will be none
  (`NeverAgain`).
- *"A run that advanced any chunk resets the counter"* (queue.py:176): not if
  Clear progress takes a chunk between the two counts. And SIGTERM to the worker
  records an attempt for a run that goes on.
- *"One bad document cannot block the queue forever"* (tests/test_worker.py:107):
  a PDF that does not open ends the worker, and nothing starts it again; a hung
  run that no worker watches, and a stale lock whose pid a long-lived process
  has got, block it (`InOrder`).
- *A document counts as done* by the number of its chunk files (queue.py:58),
  whatever their sizes, and whether or not its Markdown was written: a run killed
  after its last chunk leaves the book missing or torn, and the worker does not
  launch it again (queue.py:252).
- *Translation chunks* of another source or language are reused (`mixed`), and
  pages saved in chunks of other bounds are translated, and paid for, again.
- *"The server's own number if it gave one"* (translate.py:647): above 300 s, or
  given as a date, it is not waited out (`bound`).
- *A stop of a translation* whose message is longer than 8000 bytes is not shown
  as one (`Says`). Of cross-references that came back changed a killed run
  reports nothing (translate.py:167-170; not modelled). Clear progress during a
  translation from a terminal ends it with an exception (`ChunkGone`).
- *Running heads*: "an identical string mid-paragraph is body text"
  (postprocess.py: 213-214), and is dropped with them all the same.
- *Reflow*: "fenced code and block math are left verbatim" (284), but a hyphen is
  joined over line ends in code, markers there become notes, and a line of math
  is appended to prose; a list item with a number is taken for the rest of a
  hyphenated word (124); the hard break of a line that was itself appended is
  lost (271-272); a reference wrapped behind a hard break, a hyphen or a heading
  becomes a note (288-290).
- *A launch from the GUI* sweeps no sentinels, so its run may wait for a server
  long dead. SIGTERM and SIGKILL reach whatever has the pid by then (`Fire`,
  `Term`, `ForceLeftovers`); `any()` in `stop_pids` signals one process group, the
  others get SIGKILL at once.

### Fairness

- `Transcribe!FairSpec`: a run goes on until it ends or is killed, and each of its
  steps is *strongly* fair: runs may be killed, stopped by the disk guard or fail
  for ever, but not every single time just before the same step. Without that the
  book is never finished, and nothing in the code could change it. Nothing is
  assumed of who launches: the worker leaves out a book that counts as done
  (queue.py:252), so that it is a premise of `BookGetsFinished` that somebody goes
  on launching resuming runs, and that Clear progress is not used for ever.
- `Worker!FairSpec`: the loop of a worker that is up is weakly fair (its sleeps
  end); the disk is not low at every look for ever (`SF DiskRoomy`); a run that
  does not hang ends or saves a chunk in the end. A hung run has no fairness,
  the events around the worker have none, and nobody has to start a worker
  again: the repository has nothing that does. `QueueMovesOn` has `InOrder` as
  its premise, that in the end a worker stays up, only watched runs are active,
  nobody clears progress and no lock names a stranger's pid; none of it is
  guaranteed, and before that end all of it is violated at will.
- `Translation!Fairness`: a run goes on by itself, time passes, and every request
  is answered or times out (`urlopen` is given 300 s). Nothing is assumed of what
  is answered; `EveryRunEnds` says that this is enough.
- `Overlay`, `Machine`, `Servers`, `Folders` and `Inputs` have no liveness
  property: what a hung run does to the queue is `QueueMovesOn`.

## What is proved

Every theorem holds for all values of the constants allowed by the named
assumptions of its module, and for any number of documents, processes and
sessions.

| Theorem | Statement | Extra assumption |
|---|---|---|
| `TranscribeTypeCorrect` | `TypeOK` | |
| `ChunksAreWhole` | `ChunksWhole` | |
| `ResumeRedoesNothing` | `NothingRedone` | |
| `LinksAlwaysResolve` | `LinksResolve` | one request |
| `TheBookIsTheRequest` | `BookIsTheRequest` | one request, split |
| `FolderIsAStore` | `ImplementsStore` | |
| `OnlyEarlyStopsRepeat` | `NoPageTwice` while `~early` | |
| `OverlayTypeCorrect`, `LateWritersOnly`, `FileWhole`, `UpdatesAreAtomic` | `TypeOK`, `OnlyLateWriters`, `QueueFileWhole`, `ImplementsAtomic` | |
| `WorkerTypeCorrect`, `NeverAgain` | `TypeOK`, `GivenUpForGood` (in no run) | |
| `CountsOnlyDryRuns` | `StalledOnlyAfterDryRuns` | |
| `MachineTypeCorrect`, `RivalsWereUnseen` | `TypeOK`, `OnlyUnseenRivals` | |
| `TheLockNamesTheWorker`, `OnlyOneWorker` | `WorkerIsNamed`, `OneWorker` | |
| `TypeCorrect` | `TypeOK` of `Translation` | |
| `RequestsArePaced`, `NoRequestAfterAFatalOne` | `Paced`, `FatalMeansSilent` | |
| `ResumePaysForNothingTwice` | `NothingPaidTwice` | |
| `StopsAreReported` | `AStopIsReported` | |
| `BackendIsOneStep` | `TranslationSpec => Spec` of `Translate` | |
| `TheSweepSpares` | `WaitsOnlyForTheNewlyDead` | |
| `AStopLeavesNoServer` | `NoServerLeftBehind` | `pkill` works |
| `LinkedIsWhole` | `LinkedMeansWhole` | no error pages |
| `OwnNamesKeepApart` | `ResumesOnlyItsOwn` | documents have different names, no runs from a terminal, `output/` not typed in over another document's chunks |
| `SavedChunksAreWhole` | `SavedMeansTranslated` | |
| `FinishedBooksAreFaithful` | `BookIsFaithful` | |
| `NothingElseIsLost` | `OnlyHeadsAreDropped` | |
| `StructureStays`, `NotesAreNotes` | `ParagraphsAreLines`, `OnlyNotesAreDefined` | |
| `WidestGutter` | `GutterIsWidest` | |

The extra assumptions are necessary: "What the settings exclude" names what
happens without each of them. Premises that are part of a property (`apart`,
`crossed`, `mixed`, `stopped`, `bound`, `InOrder`) are not repeated here.

The arguments:

- **Chunks.** A file becomes a chunk only by renaming a `.partial`. The
  invariant strengthens `ChunksWhole` with what is true of the `.partial` of the
  run: at `rename` it is the complete conversion of the chunk in hand. A run
  always has the first of its remaining chunks in hand, which needs the least
  element of a set of numbers (`LeastExists`).
- **Resume.** A resuming run's remaining chunks are never on disk: true at
  launch by the definition of `Pending`, kept because the only chunk that
  appears is the one that leaves the list, and Clear progress only removes.
- **Links.** Two facts carry it: the figures of the chunk in hand that are no
  longer in `shots` are on disk and right, and a figure once saved under its
  name is only ever replaced by the same picture. The second holds because the
  name carries the bounds of the chunk and all jobs ask for the same pages.
- **The store.** Every step of `Transcribe` is a `Save`, `Gather`, `Drop`,
  `Open`, `Publish` or `Remove` of the store or leaves it alone, one case each. It
  takes the invariant about the `.partial` (so that what is saved is a whole
  chunk) and that a run about to fill the book has opened it; nothing about the
  requests or chunk sizes.
- **Early stops.** From the join on, a run that was not stopped holds the chunks
  of its own chunk size (`OwnBounds`), and those do not overlap. So of the two
  halves of "a changed size, then an early stop" the second is needed.
- **Overlay.** While no two updates have overlapped at most one client is past
  `idle`; the temporary file is never the published one; at `replace` it holds
  that client's table. Renaming it is then one `Update`, every other step leaves
  what a reader gets unchanged. After an overlap, what remains is that a
  descriptor on the published inode belongs to a writer that opened it before the
  rename.
- **Dry runs.** `attempts` and the history variable move together at the record;
  the invariant adds that between the counts a run that saved anything, and whose
  document was not cleared meanwhile, has left more chunks than there were at the
  first count, and at the record that the second count is such a one.
- **Rivals.** Every launched run there is, is `unseen` to a caller that is about
  to launch (`Uninformed`): a look that shows nothing is made when there is none,
  a failed one leaves them all unseen, and each launch adds its process to the
  `unseen` of those who have looked. A new run's `rivals` are what its caller had
  not seen, hence all the others; processes that end leave every one of these
  sets, so a pid used again inherits nothing.
- **One worker.** As long as no two workers were between look and claim at once, a
  worker that is up is named by the lock and alive, so nobody gets past the look;
  hence one about to write the lock is alone, and the write keeps
  `WorkerIsNamed`. A worker that leaves removes the lock, which by the same fact
  is its own. When the last worker is gone all of it holds anew, whatever was
  before. Most steps touch none of this: one lemma says so for all of them.
- **Pacing.** While pages may still be sent (`Working`), the wait that is left
  covers what is left of the interval and of the time the provider asked for, or
  of the longest wait if that is over sooner (`Waiting`), except while a request
  is out or has failed. A failed one leaves both uncovered, and it is the next
  step, which ends the sending, that saves the invariant: `Raise` leads to
  `join`, and only a new process, with a new translator, sends again. `fatal` is
  carried the same way.
- **The job.** A step of the translator with its backend is a step of `Translate`
  or leaves it alone (`StepRefines`), so what concerns the job is proved of the
  smaller next-state relation. The list of chunks to make and the chunks on disk
  are disjoint, as for transcription; that the chunk in hand is on the list is
  the least-number principle again. For the report: only a chunk saved by a run
  from the GUI pushes the word out of the tail, and such a run has not stopped
  early yet; one that has saves no more.
- **The sweep.** From the sweep to the end of the run, what a sentinel names is
  alive or in `died`. Every way for a process to end adds it to `died`, and a
  session's launch, which empties it, is not the worker's.
- **The stop.** The servers condemned are alive until they end; once the leftover
  run is gone nothing is started in its name (`doomed` only during SIGTERM), so
  `pkill` finds them all.
- **Weights.** A partial file is a beginning of its file; at `rename` it has its
  size, hence is all of it; a named file is never changed, only replaced by a
  whole one; and a link is made to a named file.
- **Folders.** A document's own folder holds its chunks only; `output/` holds
  those of one document, the one its lock names if it names any, also while the
  files are being cleared one by one, and a run there is that document's.
- **Translated chunks and books.** The pages a run has got are the source's from
  the chunk's first on (`InHand`), so at `save` they are all of the chunk's. As
  long as no run has met chunks of another source or language (`mixed`), all
  chunks on disk say what their names promise of the run's own source
  (`FromLast`), whatever sizes they were made with. A run with none left to make
  joins those of its own partition in the order of their first pages; that they
  cover the source and do not overlap is arithmetic (`BlocksCover`,
  `BlocksInOrder`), so the book is all pages, in order and once (`BookInHand`).
- **Loops.** What a recursive function computes is not taken from the library's
  induction theorems, which need an operator as a parameter. Instead the steps
  after which an invariant holds are a set of numbers: it contains 0 and with
  each number the next, so it contains them all (`EachInTurn`, from the least
  element principle). That such a function exists at all is the same argument
  about the set of its beginnings (`LoopExists`, with the turn of the loop as a
  function); `KeptLoop`, `RunsLoop`, `MergeLoop`, `WidestLoop`, `JoinLoop` and
  `ReflowLoop` are its instances.
- **Gutter.** The runs found so far are the maximal blank intervals of the
  columns seen so far (`RunsAre`); the merged ones begin and end on a blank
  column, have no dark strip wider than a fold in them and more than a fold
  between them (`MergedAre`), so any band lies inside one of them (`BandInside`);
  and the first of the widest merged ones is the first of the widest bands.
- **Lost lines.** Every turn of joining and of reflowing adds a line at the end
  or appends to an earlier one, with nothing but blank lines dropped between
  (`Grows`, `Extends`); both keep the order of the lines of input and their
  being there (`GrowsHas`, `ExtendsHas`, `GrowsOrdered`, `ExtendsOrdered`). What a
  page loses before is what the filter takes, the form of a head at its edge, and
  a head has the pages that the threshold asks for (`HeadMayBe`).
- **Paragraphs and notes.** The invariant says what reflow's state means in
  terms of the lines already written (`Remembered`): the open fence is the one
  that the lines so far leave open, each closed by its own kind only; at the
  start of a paragraph is after a blank line outside code; and in a paragraph of
  notes is, up to fences, that a note opens it. Both properties of a line look
  only at the lines before it, so they stay when more are added (`RightStays`),
  and a line that is appended to is still right because it accepted the
  continuation (`ContinuesKeeps`). That a line which ends in a hard break takes
  nothing holds for its own break only, since an appended line is stripped:
  hence the middle case of `Made`.

Model-checked only: the liveness properties (`BookGetsFinished`, `QueueMovesOn`,
`EveryRunEnds`), which the proof system does not reach.

## What is not modelled

What a page looks like: the ink of a half or a column, what marker makes of a
page. The characters of a line: the regular expressions of `postprocess.py`
classify lines, and the kinds are where the model begins; `convert_margin_numbers`
is off by default. Verification (`verify.py`) compares statistics of words, and
analysis (`analyze.py`) and `detect_spreads` those of images and fonts: they keep
no state, and without words and images nothing tells a right answer from a wrong
one. Listing a provider's models and the wording of errors. `warm_s3` and
`warm_layout`, which are calls of libraries; preflight, which reports and changes
nothing; GPU set-up, a straight line of shell commands. Widgets. Two translations
in one folder at once: `start_translate` keeps them apart as `start` does runs,
by a check of the lock before the launch, which `Machine` models. `--test` only
adds a suffix to every file name, `--split-only` stops before the first chunk.

## Plan

Done: transcription, overlay, worker and processes with their theorems;
translation with its backend; folders; model servers and warm-up;
post-processing and the gutter; and theorems about all of them, so that every
safety property of a passing run is proved, all but four of them (the table
names them) for every setting; the folder of a transcription as a `ChunkStore`;
what a changed chunk size leaves of `NoPageTwice`.

Next:

1. The folder of a translation as a store of the same kind: its books are joined
   from the chunks a run found or made, in order, and name their source and
   language.
2. Verification as far as it decides something: which exit code and which report
   follow from which files.
