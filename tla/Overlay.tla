------------------------------- MODULE Overlay -------------------------------
(***************************************************************************)
(* queue.json: how bt.queue stores the overlay.  The worker and the GUI    *)
(* each load the whole file, change one entry in memory, write the whole   *)
(* table to queue.json.tmp -- one name, shared by all -- and rename it     *)
(* over queue.json.  Nothing locks the file.  Two names and the inodes     *)
(* behind them: opening for writing truncates the inode the name has now,  *)
(* renaming moves an inode, and a writer keeps writing the inode it opened *)
(* whatever happened to the name since.                                    *)
(***************************************************************************)
EXTENDS OverlayTable

CONSTANTS
  Workers,      \* processes that survey and record attempts
  Guis,         \* GUI sessions: they survey and set the skip flag
  Inodes,       \* enough of them for every open file
  NoInode,      \* a name that does not exist
  None,         \* no update in hand
  Torn,         \* content that is not a JSON document
  MaxCount      \* a bound for TLC: attempts beyond it are not recorded

Clients == Workers \cup Guis

ASSUME OverlayAssumption ==
  /\ MaxCount \in Nat
  /\ NoInode \notin Inodes
  /\ Torn \notin Table

VARIABLES
  queue,     \* the inode named queue.json
  tmp,       \* the inode named queue.json.tmp
  content,   \* inode -> table or Torn
  pc,        \* client -> where it is in its update
  update,    \* client -> the update it is making
  data,      \* client -> the table it holds in memory
  fd,        \* client -> the inode it has open
  apart      \* history: no update has begun while another was under way

files == <<queue, tmp, content>>
vars == <<files, pc, update, data, fd, apart>>

(* What a reader of queue.json gets: load_overlay takes a missing or an     *)
(* unreadable file for an empty table.                                      *)
Readable == queue # NoInode /\ content[queue] # Torn
Stored == IF Readable THEN content[queue] ELSE NewTable

Atomic == INSTANCE AtomicOverlay WITH store <- Stored

Mine(c) == Analysis \cup (IF c \in Workers THEN Record ELSE {})
                    \cup (IF c \in Guis THEN SetSkip ELSE {})

Init ==
  /\ queue = NoInode /\ tmp = NoInode
  /\ content = [i \in Inodes |-> Torn]
  /\ pc = [c \in Clients |-> "idle"]
  /\ update = [c \in Clients |-> None]
  /\ data = [c \in Clients |-> NewTable]
  /\ fd = [c \in Clients |-> NoInode]
  /\ apart = TRUE

(* The call is over, one way or another, and its memory is gone.            *)
Return(c) ==
  /\ pc' = [pc EXCEPT ![c] = "idle"]
  /\ update' = [update EXCEPT ![c] = None]
  /\ data' = [data EXCEPT ![c] = NewTable]

Bounded(t) == \A d \in Docs : t[d].attempts <= MaxCount

(* Load the file and change the entry in memory. *)
Load(c, u) ==
  /\ pc[c] = "idle"
  /\ Bounded(Applied(u, Stored))
  /\ update' = [update EXCEPT ![c] = u]
  /\ data' = [data EXCEPT ![c] = Applied(u, Stored)]
  /\ pc' = [pc EXCEPT ![c] = "open"]
  /\ apart' = (apart /\ \A b \in Clients : pc[b] = "idle")
  /\ UNCHANGED <<files, fd>>

(* Open queue.json.tmp for writing: truncate the file of that name, or      *)
(* create one.                                                              *)
InUse == {queue, tmp} \cup {fd[b] : b \in Clients}
Unused == Inodes \ InUse

(* The inodes opening the file may yield; and the slip of opening           *)
(* queue.json itself.                                                       *)
InPlace == IF queue = NoInode THEN Unused ELSE {queue}
Opened == IF tmp = NoInode THEN Unused ELSE {tmp}

Open(c) ==
  /\ pc[c] = "open"
  /\ \E i \in Opened :
        /\ tmp' = i
        /\ content' = [content EXCEPT ![i] = Torn]
        /\ fd' = [fd EXCEPT ![c] = i]
  /\ pc' = [pc EXCEPT ![c] = "write"]
  /\ UNCHANGED <<queue, update, data, apart>>

(* Write and close.  If another writer has written the same inode since it  *)
(* was truncated, a shorter table leaves the tail of the other in place.    *)
Write(c) ==
  /\ pc[c] = "write"
  /\ \E x \in {data[c]} \cup (IF content[fd[c]] = Torn THEN {} ELSE {Torn}) :
        content' = [content EXCEPT ![fd[c]] = x]
  /\ fd' = [fd EXCEPT ![c] = NoInode]
  /\ pc' = [pc EXCEPT ![c] = "replace"]
  /\ UNCHANGED <<queue, tmp, update, data, apart>>

(* Rename over queue.json; the file it names until now is gone.            *)
Replace(c) ==
  /\ pc[c] = "replace"
  /\ tmp # NoInode
  /\ queue' = tmp
  /\ tmp' = NoInode
  /\ content' = [i \in Inodes |-> IF i = queue THEN Torn ELSE content[i]]
  /\ Return(c)
  /\ UNCHANGED <<fd, apart>>

(* Somebody else's rename took the file away: FileNotFoundError, which      *)
(* nobody catches.                                                          *)
ReplaceFails(c) ==
  /\ pc[c] = "replace"
  /\ tmp = NoInode
  /\ Return(c)
  /\ UNCHANGED <<files, fd, apart>>

(* The process dies, or the GUI's script is rerun, in mid-update. *)
Crash(c) ==
  /\ pc[c] # "idle"
  /\ Return(c)
  /\ fd' = [fd EXCEPT ![c] = NoInode]
  /\ UNCHANGED <<files, apart>>

Next ==
  \E c \in Clients :
    \/ \E u \in Mine(c) : Load(c, u)
    \/ Open(c) \/ Write(c) \/ Replace(c) \/ ReplaceFails(c) \/ Crash(c)

Spec == Init /\ [][Next]_vars
------------------------------------------------------------------------------
TypeOK ==
  /\ queue \in Inodes \cup {NoInode}
  /\ tmp \in Inodes \cup {NoInode}
  /\ content \in [Inodes -> Table \cup {Torn}]
  /\ pc \in [Clients -> {"idle", "open", "write", "replace"}]
  /\ update \in [Clients -> Updates \cup {None}]
  /\ data \in [Clients -> Table]
  /\ fd \in [Clients -> Inodes \cup {NoInode}]
  /\ apart \in BOOLEAN

(* As long as no two updates have overlapped, queue.json is never caught    *)
(* half written, wherever updates crash: load_overlay would take it for an  *)
(* empty table, and the next update would erase every skip flag and attempt *)
(* count for good.  After an overlap it may be.                             *)
QueueFileWhole == apart /\ queue # NoInode => content[queue] # Torn

(* Even when updates overlap, opening the temporary file never truncates    *)
(* the published one: what queue.json holds changes under its name only     *)
(* through a descriptor that was open before the file was published.        *)
OnlyLateWriters ==
  [][queue # NoInode /\ queue' = queue /\ content'[queue] # content[queue]
       => \E c \in Clients : pc[c] = "write" /\ fd[c] = queue]_vars

(* As long as no two updates have overlapped they are atomic, crashes       *)
(* included: what readers get goes through the steps of AtomicOverlay.      *)
(* Nothing keeps updates apart, and nothing is claimed after an overlap:    *)
(* one of the two may be lost.                                              *)
ImplementsAtomic == Atomic!Init /\ [][Atomic!Next \/ ~apart']_Stored
==============================================================================
