------------------------------- MODULE Folders -------------------------------
(***************************************************************************)
(* Which folder a document's work lives in (bt.queue.resolve_out_dir,      *)
(* folder_belongs_to) and what runs find and leave there.  A chunk file is *)
(* named by its position alone, and what tells whose it is, is the folder. *)
(* One run at a time.                                                      *)
(***************************************************************************)
EXTENDS Naturals, FiniteSets

CONSTANTS
  Pdfs,       \* the library: the project root and uploads/
  Stem,       \* pdf -> its file name without the suffix
  Length,     \* pdf -> how many chunks it has
  Typed,      \* do users of the GUI type output/ instead of what it proposes?
  HandRuns    \* are runs started from a terminal, into output/?

OutputRoot == "output/"
PerDoc(pdf) == Stem[pdf]
AllFolders == {OutputRoot} \cup {PerDoc(pdf) : pdf \in Pdfs}
Nobody == "nobody"

VARIABLES
  chunks,   \* folder -> the chunks in it: position -> the document it is of
  named,    \* folder -> the document its lock names, or Nobody
  run,      \* the run in progress: [pdf, folder, locked], or Idle
  clearing, \* Clear progress under way: [folder, left], or NotClearing
  found     \* history: the chunks that run found when it started

folderVars == <<chunks, named, run, clearing, found>>

Idle == [pdf |-> Nobody, folder |-> Nobody, locked |-> FALSE]
NotClearing == [folder |-> Nobody, left |-> {}]
NoChunks == [n \in {} |-> Nobody]

FoldersInit ==
  /\ chunks = [f \in AllFolders |-> NoChunks]
  /\ named = [f \in AllFolders |-> Nobody]
  /\ run = Idle /\ clearing = NotClearing /\ found = NoChunks

HasChunks(folder) == chunks[folder] # NoChunks
FolderBelongsTo(folder, pdf) == named[folder] = pdf

ResolveOutDir(pdf) ==
  IF /\ ~HasChunks(PerDoc(pdf))
     /\ HasChunks(OutputRoot) /\ FolderBelongsTo(OutputRoot, pdf)
  THEN OutputRoot ELSE PerDoc(pdf)

Begin(pdf, folder, locked) ==
  /\ run = Idle
  /\ run' = [pdf |-> pdf, folder |-> folder, locked |-> locked]
  /\ found' = chunks[folder]
  /\ UNCHANGED <<chunks, clearing>>

(* By the worker, or from the GUI with the folder it proposes.              *)
Launch(pdf) ==
  /\ Begin(pdf, ResolveOutDir(pdf), TRUE)
  /\ named' = [named EXCEPT ![ResolveOutDir(pdf)] = pdf]

(* From the GUI with output/ typed in, which nothing checks; from a         *)
(* terminal, which leaves no lock.                                          *)
LaunchTyped(pdf) ==
  /\ Typed
  /\ Begin(pdf, OutputRoot, TRUE)
  /\ named' = [named EXCEPT ![OutputRoot] = pdf]
HandRun(pdf) == HandRuns /\ Begin(pdf, OutputRoot, FALSE) /\ UNCHANGED named

(* Chunks that are there are taken as they are.                             *)
SaveChunk ==
  /\ run # Idle
  /\ \E n \in 1..Length[run.pdf] \ DOMAIN chunks[run.folder] :
       chunks' = [chunks EXCEPT ![run.folder] =
         [k \in DOMAIN @ \cup {n} |-> IF k = n THEN run.pdf ELSE @[k]]]
  /\ UNCHANGED <<named, run, clearing, found>>

RunEnds ==
  /\ run # Idle
  /\ run' = Idle /\ found' = NoChunks
  /\ UNCHANGED <<chunks, named, clearing>>

(* Clear progress, offered unless the lock names a live run, lists the      *)
(* chunks, removes one after the other, then the lock, whoever has taken    *)
(* the folder meanwhile.                                                    *)
ClearProgress(pdf) ==
  LET folder == ResolveOutDir(pdf)
  IN /\ clearing = NotClearing
     /\ HasChunks(folder) /\ ~(run.folder = folder /\ run.locked)
     /\ clearing' = [folder |-> folder, left |-> DOMAIN chunks[folder]]
     /\ UNCHANGED <<chunks, named, run, found>>

Unlink ==
  /\ \E n \in clearing.left :
       /\ chunks' = [chunks EXCEPT ![clearing.folder] =
                       [k \in DOMAIN @ \ {n} |-> @[k]]]
       /\ clearing' = [clearing EXCEPT !.left = @ \ {n}]
  /\ UNCHANGED <<named, run, found>>

ClearLock ==
  /\ clearing # NotClearing /\ clearing.left = {}
  /\ named' = [named EXCEPT ![clearing.folder] = Nobody]
  /\ clearing' = NotClearing
  /\ UNCHANGED <<chunks, run, found>>

FoldersNext ==
  \/ \E pdf \in Pdfs : Launch(pdf) \/ LaunchTyped(pdf) \/ HandRun(pdf)
                         \/ ClearProgress(pdf)
  \/ SaveChunk \/ RunEnds \/ Unlink \/ ClearLock

FoldersSpec == FoldersInit /\ [][FoldersNext]_folderVars
------------------------------------------------------------------------------
(* A run resumes on chunks of its own document only: one book never takes   *)
(* another's output for its own (queue.py:101-114, tests/test_queue.py:45). *)
ResumesOnlyItsOwn ==
  run # Idle => \A n \in DOMAIN found : found[n] = run.pdf
==============================================================================
