----------------------------- MODULE ChunkStore ------------------------------
(***************************************************************************)
(* An output folder as its readers may take it, whatever runs do in it: a  *)
(* store of finished chunks and one book.  A chunk appears, and            *)
(* disappears, whole and by itself; a book is replaced only by what the    *)
(* store held at ONE moment, either a whole document or everything there   *)
(* was, and is torn while that happens.                                    *)
(***************************************************************************)
CONSTANTS
  Chunks,    \* the names of chunks
  Texts,     \* name -> the texts a finished chunk may have
  Volumes,   \* the sets of chunks that make a whole document
  NoFile,    \* in place of the book: there is none
  Torn       \* in place of the book: its writer has not finished

VARIABLES
  saved,     \* the store: name -> text
  held,      \* the text taken from it for the next book, if any: a set
  book       \* the book: name -> text, Torn or NoFile

svars == <<saved, held, book>>

Nothing == [c \in {} |-> 0]

Init == saved = Nothing /\ held = {} /\ book = NoFile

Save(c) ==
  /\ \E text \in Texts[c] :
       saved' = [d \in DOMAIN saved \cup {c} |-> IF d = c THEN text ELSE saved[d]]
  /\ UNCHANGED <<held, book>>

Remove(c) ==
  /\ saved' = [d \in DOMAIN saved \ {c} |-> saved[d]]
  /\ UNCHANGED <<held, book>>

Gather(S) ==
  /\ S \subseteq DOMAIN saved
  /\ S \in Volumes \/ S = DOMAIN saved
  /\ held' = {[c \in S |-> saved[c]]}
  /\ UNCHANGED <<saved, book>>

Drop == held' = {} /\ UNCHANGED <<saved, book>>

Open == held # {} /\ book' = Torn /\ UNCHANGED <<saved, held>>

Publish ==
  /\ book = Torn
  /\ \E text \in held : book' = text
  /\ held' = {}
  /\ UNCHANGED saved

Next ==
  \/ \E c \in Chunks : Save(c) \/ Remove(c)
  \/ Drop \/ Open \/ Publish
  \/ \E S \in Volumes \cup {DOMAIN saved} : Gather(S)

Spec == Init /\ [][Next]_svars
==============================================================================
