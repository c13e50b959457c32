----------------------------- MODULE QueueProofs -----------------------------
(***************************************************************************)
(* What bt.queue keeps: queue.json, for every set of documents and clients, *)
(* and the folders, for every library.                                     *)
(***************************************************************************)
EXTENDS Overlay, Folders, TLAPS

(* Reading queue.json always gives a table. *)
LEMMA StoredType == ASSUME TypeOK PROVE Stored \in Table
<1>1. NewTable \in Table
  BY DEF NewTable, Table, Entry
<1>2. Readable => content[queue] \in Table
  BY DEF TypeOK, Readable
<1> QED BY <1>1, <1>2 DEF Stored

(* An update turns a table into a table.                                    *)
LEMMA AppliedType ==
  ASSUME NEW u \in Updates, NEW t \in Table
  PROVE  Applied(u, t) \in Table
<1> DEFINE e == t[u.doc]
<1>1. u.doc \in Docs
  BY DEF Updates, SetSkip, Record, Analysis
<1>2. e \in Entry
  BY <1>1 DEF Table
<1>3. NewEntry(u, e) \in Entry
  <2>1. CASE u \in SetSkip
    BY <1>2, <2>1 DEF NewEntry, Entry, SetSkip
  <2>2. CASE u \in Analysis
    BY <1>2, <2>2 DEF NewEntry, Entry, Analysis
  <2>3. CASE u \in Record
    <3>1. u.kind = "record" /\ u.value \in BOOLEAN
      BY <2>3 DEF Record
    <3>2. NewEntry(u, e) = [e EXCEPT !.attempts = IF u.value THEN 0 ELSE e.attempts + 1]
      BY <3>1 DEF NewEntry
    <3>3. (IF u.value THEN 0 ELSE e.attempts + 1) \in Nat
      BY <1>2 DEF Entry
    <3> QED BY <1>2, <3>2, <3>3 DEF Entry
  <2> QED BY <2>1, <2>2, <2>3 DEF Updates
<1> QED BY <1>1, <1>3 DEF Applied, Table

LEMMA MineUpdates == \A c \in Clients : Mine(c) \subseteq Updates
  BY DEF Mine, Updates

(* Every step keeps the types. *)
LEMMA TypeStep == TypeOK /\ [Next]_vars => TypeOK'
<1> SUFFICES ASSUME TypeOK, [Next]_vars PROVE TypeOK'
  OBVIOUS
<1> USE DEF TypeOK, files
<1>0. NewTable \in Table
  BY DEF NewTable, Table, Entry
<1>1. ASSUME NEW c \in Clients, NEW u \in Mine(c), Load(c, u) PROVE TypeOK'
  <2>1. u \in Updates
    BY MineUpdates
  <2>2. Stored \in Table
    BY StoredType
  <2>3. Applied(u, Stored) \in Table
    BY <1>1, <2>1, <2>2, AppliedType DEF Load
  <2> QED BY <1>1, <2>1, <2>3 DEF Load
<1>2. ASSUME NEW c \in Clients, Open(c) PROVE TypeOK'
  <2>1. PICK i \in Opened : /\ tmp' = i
                            /\ content' = [content EXCEPT ![i] = Torn]
                            /\ fd' = [fd EXCEPT ![c] = i]
    BY <1>2 DEF Open
  <2>2. i \in Inodes
    BY DEF Opened, Unused
  <2> QED BY <1>2, <2>1, <2>2 DEF Open
<1>3. ASSUME NEW c \in Clients, Write(c) PROVE TypeOK'
  <2>1. PICK x \in {data[c]} \cup (IF content[fd[c]] = Torn THEN {} ELSE {Torn}) :
           content' = [content EXCEPT ![fd[c]] = x]
    BY <1>3 DEF Write
  <2>2. x \in Table \cup {Torn}
    OBVIOUS
  <2> QED BY <1>3, <2>1, <2>2 DEF Write
<1>4. ASSUME NEW c \in Clients, Replace(c) PROVE TypeOK'
  BY <1>0, <1>4 DEF Replace, Return
<1>5. ASSUME NEW c \in Clients, ReplaceFails(c) PROVE TypeOK'
  BY <1>0, <1>5 DEF ReplaceFails, Return
<1>6. ASSUME NEW c \in Clients, Crash(c) PROVE TypeOK'
  BY <1>0, <1>6 DEF Crash, Return
<1>7. CASE UNCHANGED vars
  BY <1>7 DEF vars
<1> QED BY <1>1, <1>2, <1>3, <1>4, <1>5, <1>6, <1>7 DEF Next

(* Whoever writes when, queue.json names the content of one file, a table   *)
(* or torn, and every update in flight holds a table of counts and flags.   *)
THEOREM OverlayTypeCorrect == Spec => []TypeOK
<1>1. Init => TypeOK
  BY DEF Init, TypeOK, NewTable, Table, Entry
<1> QED BY <1>1, TypeStep, PTL DEF Spec
------------------------------------------------------------------------------
(* The published file is never also the temporary one. *)
NamesApart == tmp # NoInode => tmp # queue

LEMMA ApartStep == TypeOK /\ NamesApart /\ [Next]_vars => NamesApart'
<1> SUFFICES ASSUME TypeOK, NamesApart, [Next]_vars PROVE NamesApart'
  OBVIOUS
<1> USE DEF NamesApart, files
<1>1. ASSUME NEW c \in Clients, NEW u \in Mine(c), Load(c, u) PROVE NamesApart'
  BY <1>1 DEF Load
<1>2. ASSUME NEW c \in Clients, Open(c) PROVE NamesApart'
  BY <1>2 DEF Open, Opened, Unused, InUse
<1>3. ASSUME NEW c \in Clients, Write(c) PROVE NamesApart'
  BY <1>3 DEF Write
<1>4. ASSUME NEW c \in Clients, Replace(c) PROVE NamesApart'
  BY <1>4 DEF Replace
<1>5. ASSUME NEW c \in Clients, ReplaceFails(c) PROVE NamesApart'
  BY <1>5 DEF ReplaceFails
<1>6. ASSUME NEW c \in Clients, Crash(c) PROVE NamesApart'
  BY <1>6 DEF Crash
<1>7. CASE UNCHANGED vars
  BY <1>7 DEF vars
<1> QED BY <1>1, <1>2, <1>3, <1>4, <1>5, <1>6, <1>7 DEF Next

LateStep == queue # NoInode /\ queue' = queue /\ content'[queue] # content[queue]
              => \E c \in Clients : pc[c] = "write" /\ fd[c] = queue

LEMMA LateWriters == TypeOK /\ NamesApart /\ [Next]_vars => LateStep
<1> SUFFICES ASSUME TypeOK, NamesApart, [Next]_vars,
                    queue # NoInode, queue' = queue,
                    content'[queue] # content[queue]
             PROVE  \E c \in Clients : pc[c] = "write" /\ fd[c] = queue
  BY DEF LateStep
<1> USE DEF NamesApart, files
<1>1. queue \in Inodes
  BY DEF TypeOK
<1>2. ASSUME NEW c \in Clients, NEW u \in Mine(c), Load(c, u) PROVE FALSE
  BY <1>2 DEF Load
<1>3. ASSUME NEW c \in Clients, Open(c) PROVE FALSE
  <2>1. PICK i \in Opened : content' = [content EXCEPT ![i] = Torn]
    BY <1>3 DEF Open
  <2>2. i # queue
    BY DEF Opened, Unused, InUse
  <2> QED BY <1>1, <2>1, <2>2 DEF TypeOK
<1>4. ASSUME NEW c \in Clients, Write(c) PROVE pc[c] = "write" /\ fd[c] = queue
  <2>1. PICK x : content' = [content EXCEPT ![fd[c]] = x]
    BY <1>4 DEF Write
  <2> QED BY <1>1, <1>4, <2>1 DEF Write, TypeOK
<1>5. ASSUME NEW c \in Clients, Replace(c) PROVE FALSE
  BY <1>5 DEF Replace
<1>6. ASSUME NEW c \in Clients, ReplaceFails(c) PROVE FALSE
  BY <1>6 DEF ReplaceFails
<1>7. ASSUME NEW c \in Clients, Crash(c) PROVE FALSE
  BY <1>7 DEF Crash
<1>8. CASE UNCHANGED vars
  BY <1>8 DEF vars
<1> QED BY <1>2, <1>3, <1>4, <1>5, <1>6, <1>7, <1>8 DEF Next

(* Whoever overlaps with whom: opening queue.json.tmp never truncates the   *)
(* published queue.json.  Only a writer that opened the inode before it was *)
(* published can change it under its name.                                  *)
THEOREM LateWritersOnly == Spec => OnlyLateWriters
<1>1. Init => NamesApart
  BY DEF Init, NamesApart
<1>2. TypeOK /\ NamesApart /\ [Next]_vars =>
        [queue # NoInode /\ queue' = queue /\ content'[queue] # content[queue]
           => \E c \in Clients : pc[c] = "write" /\ fd[c] = queue]_vars
  BY LateWriters DEF LateStep
<1> QED BY <1>1, <1>2, ApartStep, OverlayTypeCorrect, PTL DEF Spec, OnlyLateWriters
------------------------------------------------------------------------------
(* As long as updates have not overlapped there is one at a time; it holds  *)
(* what the file will be; from the moment it opens the temporary file until *)
(* it renames it, nobody else touches that file.                            *)
OneAtATime ==
  \A b, c \in Clients : pc[b] # "idle" /\ pc[c] # "idle" => b = c

InHand ==
  \A c \in Clients : pc[c] # "idle" =>
     /\ update[c] \in Updates
     /\ data[c] = Applied(update[c], Stored)

TmpIsMine ==
  \A c \in Clients :
     /\ pc[c] = "write" => /\ tmp # NoInode /\ fd[c] = tmp
                           /\ content[tmp] = Torn
     /\ pc[c] = "replace" => tmp # NoInode /\ content[tmp] = data[c]

OneWriter == QueueFileWhole /\ OneAtATime /\ InHand /\ TmpIsMine

IInv == TypeOK /\ NamesApart /\ (apart => OneWriter)

LEMMA IInvInit == Init => IInv
<1> SUFFICES ASSUME Init PROVE IInv
  OBVIOUS
<1>1. TypeOK
  BY DEF Init, TypeOK, NewTable, Table, Entry
<1>2. NamesApart /\ QueueFileWhole
  BY DEF Init, NamesApart, QueueFileWhole
<1>3. OneAtATime /\ InHand /\ TmpIsMine
  BY DEF Init, OneAtATime, InHand, TmpIsMine
<1> QED BY <1>1, <1>2, <1>3 DEF IInv, OneWriter

(* Steps other than a rename leave what readers of queue.json get; a rename *)
(* publishes the update in hand.                                            *)
LEMMA Published ==
  ASSUME IInv, apart, NEW c \in Clients, Replace(c)
  PROVE  /\ update[c] \in Updates
         /\ Stored' = Applied(update[c], Stored)
         /\ Readable'
<1>1. pc[c] = "replace" /\ tmp # NoInode
  BY DEF Replace
<1>2. content[tmp] = data[c] /\ data[c] = Applied(update[c], Stored)
  BY <1>1 DEF IInv, OneWriter, TmpIsMine, InHand
<1>3. update[c] \in Updates
  BY <1>1 DEF IInv, OneWriter, InHand
<1>4. tmp \in Inodes /\ tmp # queue
  BY <1>1 DEF IInv, TypeOK, NamesApart
<1>5. queue' = tmp /\ content'[tmp] = content[tmp]
  BY <1>4 DEF Replace
<1>6. content[tmp] # Torn
  BY <1>2, OverlayAssumption DEF IInv, TypeOK
<1>7. Readable' /\ Stored' = content[tmp]
  BY <1>1, <1>5, <1>6 DEF Readable, Stored
<1> QED BY <1>2, <1>3, <1>7

LEMMA Unpublished ==
  ASSUME IInv, apart, NEW c \in Clients,
         \/ \E u \in Mine(c) : Load(c, u)
         \/ Open(c) \/ Write(c) \/ Crash(c)
  PROVE  Stored' = Stored /\ (Readable' <=> Readable)
<1> SUFFICES queue' = queue /\ (queue # NoInode => content'[queue] = content[queue])
  BY DEF Stored, Readable
<1>1. queue # NoInode => queue \in Inodes /\ queue # tmp
  BY DEF IInv, TypeOK, NamesApart
<1>2. CASE Open(c)
  <2>1. PICK i \in Opened : content' = [content EXCEPT ![i] = Torn]
    BY <1>2 DEF Open
  <2>2. queue # NoInode => i # queue
    BY <1>1 DEF Opened, Unused, InUse
  <2> QED BY <1>1, <1>2, <2>1, <2>2 DEF Open, IInv, TypeOK
<1>3. CASE Write(c)
  <2>1. PICK x : content' = [content EXCEPT ![fd[c]] = x]
    BY <1>3 DEF Write
  <2>2. fd[c] = tmp /\ tmp # NoInode
    BY <1>3 DEF Write, IInv, OneWriter, TmpIsMine
  <2> QED BY <1>1, <1>3, <2>1, <2>2 DEF Write, IInv, TypeOK
<1>4. CASE \E u \in Mine(c) : Load(c, u)
  BY <1>4 DEF Load, files
<1>5. CASE Crash(c)
  BY <1>5 DEF Crash, files
<1> QED BY <1>2, <1>3, <1>4, <1>5

(* Till an overlap, somebody else's rename never takes the file away. *)
LEMMA NeverFails == ASSUME IInv, apart, NEW c \in Clients PROVE ~ReplaceFails(c)
  BY DEF IInv, OneWriter, TmpIsMine, ReplaceFails

LEMMA IInvStep == IInv /\ [Next]_vars => IInv'
<1> SUFFICES ASSUME IInv, [Next]_vars PROVE IInv'
  OBVIOUS
<1>1. TypeOK' /\ NamesApart'
  BY TypeStep, ApartStep DEF IInv
<1> SUFFICES ASSUME apart' PROVE OneWriter'
  BY <1>1 DEF IInv
<1>0. apart /\ OneWriter
  <2>1. apart
    BY DEF Next, Load, Open, Write, Replace, ReplaceFails, Crash, vars
  <2> QED BY <2>1 DEF IInv
<1> USE <1>0 DEF OneWriter, files
<1>2. ASSUME NEW c \in Clients, NEW u \in Mine(c), Load(c, u)
      PROVE  QueueFileWhole' /\ OneAtATime' /\ InHand' /\ TmpIsMine'
  <2>1. \A b \in Clients : pc[b] = "idle"
    BY <1>2 DEF Load
  <2>2. Stored' = Stored
    BY <1>2, Unpublished
  <2>3. u \in Updates
    BY MineUpdates
  <2>4. pc' = [pc EXCEPT ![c] = "open"]
    BY <1>2 DEF Load
  <2>5. QueueFileWhole' /\ TmpIsMine'
    BY <1>2, <2>1, <2>4 DEF Load, IInv, TypeOK, QueueFileWhole, TmpIsMine
  <2>6. OneAtATime'
    BY <2>1, <2>4 DEF IInv, TypeOK, OneAtATime
  <2>7. InHand'
    <3>1. update' = [update EXCEPT ![c] = u]
             /\ data' = [data EXCEPT ![c] = Applied(u, Stored)]
      BY <1>2 DEF Load
    <3>2. ASSUME NEW b \in Clients, pc'[b] # "idle"
          PROVE  b = c
      BY <2>1, <2>4, <3>2 DEF IInv, TypeOK
    <3> SUFFICES /\ update'[c] \in Updates
                 /\ data'[c] = Applied(update'[c], Stored')
      BY <3>2 DEF InHand
    <3> QED BY <2>2, <2>3, <3>1 DEF IInv, TypeOK
  <2> QED BY <2>5, <2>6, <2>7
<1>3. ASSUME NEW c \in Clients, Open(c)
      PROVE  QueueFileWhole' /\ OneAtATime' /\ InHand' /\ TmpIsMine'
  <2>1. Stored' = Stored /\ (Readable' <=> Readable)
    BY <1>3, Unpublished
  <2>2. PICK i \in Opened : /\ tmp' = i
                            /\ content' = [content EXCEPT ![i] = Torn]
                            /\ fd' = [fd EXCEPT ![c] = i]
    BY <1>3 DEF Open
  <2>3. i \in Inodes
    BY DEF Opened, Unused, IInv, TypeOK
  <2>4. QueueFileWhole'
    BY <1>3, <2>1 DEF Open, IInv, QueueFileWhole, Readable
  <2>5. pc' = [pc EXCEPT ![c] = "write"] /\ pc[c] = "open"
    BY <1>3 DEF Open
  <2>6. OneAtATime'
    BY <2>5 DEF IInv, TypeOK, OneAtATime
  <2>7. InHand'
    BY <1>3, <2>1, <2>5 DEF Open, IInv, TypeOK, InHand
  <2>8. TmpIsMine'
    <3>1. \A b \in Clients : pc'[b] # "idle" => b = c
      BY <2>5, <2>6 DEF OneAtATime, IInv, TypeOK
    <3> QED BY <2>2, <2>3, <2>5, <3>1, OverlayAssumption
            DEF TmpIsMine, IInv, TypeOK
  <2> QED BY <2>4, <2>6, <2>7, <2>8
<1>4. ASSUME NEW c \in Clients, Write(c)
      PROVE  QueueFileWhole' /\ OneAtATime' /\ InHand' /\ TmpIsMine'
  <2>1. Stored' = Stored /\ (Readable' <=> Readable)
    BY <1>4, Unpublished
  <2>2. pc[c] = "write" /\ fd[c] = tmp /\ tmp # NoInode /\ content[tmp] = Torn
    BY <1>4 DEF Write, IInv, TmpIsMine
  <2>3. content' = [content EXCEPT ![tmp] = data[c]]
    BY <1>4, <2>2 DEF Write
  <2>4. QueueFileWhole'
    BY <1>4, <2>1 DEF Write, IInv, QueueFileWhole, Readable
  <2>5. pc' = [pc EXCEPT ![c] = "replace"]
    BY <1>4 DEF Write
  <2>6. OneAtATime'
    BY <2>2, <2>5 DEF IInv, TypeOK, OneAtATime
  <2>7. InHand'
    BY <1>4, <2>1, <2>2, <2>5 DEF Write, IInv, TypeOK, InHand
  <2>8. TmpIsMine'
    <3>1. \A b \in Clients : pc'[b] # "idle" => b = c
      BY <2>5, <2>6 DEF OneAtATime, IInv, TypeOK
    <3>2. tmp' = tmp /\ data' = data /\ tmp \in Inodes
      BY <1>4, <2>2 DEF Write, IInv, TypeOK
    <3>3. pc'[c] = "replace" /\ content'[tmp] = data[c]
      BY <2>3, <2>5, <3>2 DEF IInv, TypeOK
    <3> QED BY <2>2, <3>1, <3>2, <3>3 DEF TmpIsMine
  <2> QED BY <2>4, <2>6, <2>7, <2>8
<1>5. ASSUME NEW c \in Clients, Replace(c) \/ Crash(c)
      PROVE  QueueFileWhole' /\ OneAtATime' /\ InHand' /\ TmpIsMine'
  <2>1. pc[c] # "idle" /\ pc' = [pc EXCEPT ![c] = "idle"]
    BY <1>5 DEF Replace, Crash, Return
  <2>2. \A b \in Clients : pc'[b] = "idle"
    BY <2>1 DEF IInv, TypeOK, OneAtATime
  <2>3. QueueFileWhole'
    <3>1. CASE Replace(c)
      BY <3>1, Published DEF QueueFileWhole, Readable
    <3>2. CASE Crash(c)
      BY <3>2 DEF Crash, IInv, QueueFileWhole
    <3> QED BY <1>5, <3>1, <3>2
  <2> QED BY <2>2, <2>3 DEF OneAtATime, InHand, TmpIsMine
<1>6. ASSUME UNCHANGED vars
      PROVE  QueueFileWhole' /\ OneAtATime' /\ InHand' /\ TmpIsMine'
  BY <1>6 DEF vars, IInv, QueueFileWhole, OneAtATime, InHand, TmpIsMine,
              Stored, Readable
<1> QED BY <1>1, <1>2, <1>3, <1>4, <1>5, <1>6, NeverFails DEF Next

LEMMA Inductive == Spec => []IInv
  BY IInvInit, IInvStep, PTL DEF Spec

(* As long as updates have not overlapped, queue.json is never half         *)
(* written, wherever they crash.                                            *)
THEOREM FileWhole == Spec => []QueueFileWhole
<1>1. IInv => QueueFileWhole
  BY DEF IInv, OneWriter, QueueFileWhole
<1> QED BY <1>1, Inductive, PTL

LEMMA StoreStep ==
  ASSUME IInv, [Next]_vars, apart'
  PROVE  \/ Stored' = Stored
         \/ \E c \in Clients : /\ pc[c] = "replace"
                               /\ update[c] \in Updates
                               /\ Stored' = Applied(update[c], Stored)
<1>0. apart
  BY DEF Next, Load, Open, Write, Replace, ReplaceFails, Crash, vars
<1>1. CASE UNCHANGED vars
  BY <1>1 DEF vars, files, Stored, Readable
<1>2. ASSUME NEW c \in Clients, Replace(c)
      PROVE  /\ pc[c] = "replace" /\ update[c] \in Updates
             /\ Stored' = Applied(update[c], Stored)
  BY <1>0, <1>2, Published DEF Replace
<1> QED BY <1>0, <1>1, <1>2, Unpublished, NeverFails DEF Next

(* As long as they have not overlapped, updates are atomic, for any number  *)
(* of documents, workers and GUI sessions, and with crashes anywhere: what  *)
(* a reader of queue.json gets goes through the steps of AtomicOverlay.     *)
THEOREM UpdatesAreAtomic == Spec => ImplementsAtomic
<1>1. Init => Atomic!Init
  BY DEF Init, Atomic!Init, Stored, Readable, NewTable, Atomic!NewTable
<1>2. Atomic!Updates = Updates
  BY DEF Updates, SetSkip, Record, Analysis,
         Atomic!Updates, Atomic!SetSkip, Atomic!Record, Atomic!Analysis
<1>3. ASSUME NEW u PROVE Atomic!Update(u) <=> Stored' = Applied(u, Stored)
  BY DEF Atomic!Update, Applied, NewEntry, Atomic!Applied, Atomic!NewEntry
<1>4. IInv /\ [Next]_vars => [Atomic!Next \/ ~apart']_Stored
  BY <1>2, <1>3, StoreStep DEF Atomic!Next
<1> QED BY <1>1, <1>4, Inductive, PTL DEF Spec, ImplementsAtomic
------------------------------------------------------------------------------
(* The folders.  What the three assumptions rule out, documents of one      *)
(* name, runs from a terminal and output/ typed in where another document's *)
(* chunks are, is what makes folders be shared.                             *)

(* No two documents of one name, and none named like the folder itself.     *)
OwnNames ==
  /\ \A p, q \in Pdfs : Stem[p] = Stem[q] => p = q
  /\ \A p \in Pdfs : Stem[p] # OutputRoot
  /\ Nobody \notin Pdfs

(* Who types output/ into the GUI types it where there are no chunks but    *)
(* those of the document at hand.                                           *)
TypedAtHome ==
  \A pdf \in Pdfs : LaunchTyped(pdf) =>
     \A n \in DOMAIN chunks[OutputRoot] : chunks[OutputRoot][n] = pdf

(* Whose a folder is: a document's own, or, of output/, what its lock says, *)
(* if it says anything.                                                     *)
MayHold(folder, pdf) ==
  IF folder = OutputRoot THEN named[folder] \in {pdf, Nobody}
                         ELSE folder = PerDoc(pdf)

HeldApart ==
  /\ DOMAIN chunks = AllFolders /\ DOMAIN named = AllFolders
  /\ \A f \in AllFolders : \A n \in DOMAIN chunks[f] :
       chunks[f][n] \in Pdfs /\ MayHold(f, chunks[f][n])
  /\ run # Idle =>
       /\ run.pdf \in Pdfs /\ run.folder \in AllFolders
       /\ MayHold(run.folder, run.pdf)
       /\ \A n \in DOMAIN chunks[run.folder] : chunks[run.folder][n] = run.pdf
  /\ \A n \in DOMAIN found : found[n] = run.pdf
  /\ \A n, k \in DOMAIN chunks[OutputRoot] :
       chunks[OutputRoot][n] = chunks[OutputRoot][k]

LEMMA HeldInit == FoldersInit => HeldApart
  BY DEF FoldersInit, HeldApart, NoChunks, Idle, AllFolders

LEMMA HeldStep ==
  ASSUME OwnNames, ~HandRuns
  PROVE  HeldApart /\ [FoldersNext /\ TypedAtHome]_folderVars => HeldApart'
<1> SUFFICES ASSUME HeldApart, [FoldersNext /\ TypedAtHome]_folderVars
             PROVE  HeldApart'
  OBVIOUS
<1>0. OutputRoot \in AllFolders
  BY DEF AllFolders
<1>1. ASSUME NEW pdf \in Pdfs, NEW folder \in AllFolders, Begin(pdf, folder, TRUE),
             named' = [named EXCEPT ![folder] = pdf],
             folder = OutputRoot \/ folder = PerDoc(pdf),
             \A n \in DOMAIN chunks[folder] : chunks[folder][n] = pdf
      PROVE  HeldApart'
  <2>1. run' = [pdf |-> pdf, folder |-> folder, locked |-> TRUE] /\ found' = chunks[folder]
        /\ chunks' = chunks
    BY <1>1 DEF Begin
  <2>2. DOMAIN named' = AllFolders /\ named'[folder] = pdf
        /\ \A f \in AllFolders : f # folder => named'[f] = named[f]
    BY <1>1 DEF HeldApart
  <2>3. MayHold(folder, pdf)'
    BY <1>1, <2>2 DEF MayHold
  <2>4. ASSUME NEW f \in AllFolders, NEW n \in DOMAIN chunks[f]
        PROVE  chunks[f][n] \in Pdfs /\ MayHold(f, chunks[f][n])'
    <3>1. CASE f = folder
      BY <1>1, <2>1, <2>3, <2>4, <3>1
    <3>2. CASE f # folder
      BY <2>1, <2>2, <2>4, <3>2 DEF HeldApart, MayHold
    <3> QED BY <3>1, <3>2
  <2> QED BY <1>1, <2>1, <2>2, <2>3, <2>4 DEF HeldApart
<1>2. ASSUME NEW pdf \in Pdfs, Launch(pdf) PROVE HeldApart'
  <2> DEFINE folder == ResolveOutDir(pdf)
  <2>1. folder = PerDoc(pdf) \/ (folder = OutputRoot /\ named[folder] = pdf)
    BY DEF ResolveOutDir, FolderBelongsTo
  <2>2. folder \in AllFolders /\ PerDoc(pdf) # OutputRoot
    BY <2>1 DEF AllFolders, PerDoc, OwnNames
  <2>3. \A n \in DOMAIN chunks[folder] : chunks[folder][n] = pdf
    <3>1. \A n \in DOMAIN chunks[folder] :
             chunks[folder][n] \in Pdfs /\ MayHold(folder, chunks[folder][n])
      BY <2>2 DEF HeldApart
    <3>2. CASE folder = PerDoc(pdf)
      BY <2>2, <3>1, <3>2 DEF MayHold, PerDoc, OwnNames
    <3>3. CASE folder = OutputRoot /\ named[folder] = pdf
      BY <3>1, <3>3 DEF MayHold, OwnNames
    <3> QED BY <2>1, <3>2, <3>3
  <2>4. Begin(pdf, folder, TRUE) /\ named' = [named EXCEPT ![folder] = pdf]
    BY <1>2 DEF Launch
  <2> HIDE DEF folder
  <2> QED BY <1>1, <2>1, <2>2, <2>3, <2>4
<1>3. ASSUME NEW pdf \in Pdfs, LaunchTyped(pdf), TypedAtHome PROVE HeldApart'
  BY <1>0, <1>1, <1>3 DEF LaunchTyped, TypedAtHome
<1>4. ASSUME NEW pdf \in Pdfs, HandRun(pdf) PROVE HeldApart'
  BY <1>4 DEF HandRun
<1>5. ASSUME NEW pdf \in Pdfs, ClearProgress(pdf) PROVE HeldApart'
  BY <1>5 DEF ClearProgress, HeldApart, MayHold
<1>9. CASE Unlink
  <2>1. PICK n \in clearing.left :
          chunks' = [chunks EXCEPT ![clearing.folder] =
                       [k \in DOMAIN @ \ {n} |-> @[k]]]
    BY <1>9 DEF Unlink
  <2>2. UNCHANGED <<named, run, found>>
    BY <1>9 DEF Unlink
  <2>3. ASSUME NEW f \in AllFolders
        PROVE  /\ DOMAIN chunks'[f] \subseteq DOMAIN chunks[f]
               /\ \A k \in DOMAIN chunks'[f] : chunks'[f][k] = chunks[f][k]
    <3>1. CASE f = clearing.folder
      BY <2>1, <3>1 DEF HeldApart
    <3>2. CASE f # clearing.folder
      BY <2>1, <3>2 DEF HeldApart
    <3> QED BY <3>1, <3>2
  <2>4. DOMAIN chunks' = AllFolders
    BY <2>1 DEF HeldApart
  <2>5. ASSUME NEW f \in AllFolders, NEW k \in DOMAIN chunks'[f]
        PROVE  chunks'[f][k] \in Pdfs /\ MayHold(f, chunks'[f][k])
    BY <2>3, <2>5 DEF HeldApart
  <2>6. run # Idle =>
          \A k \in DOMAIN chunks'[run.folder] : chunks'[run.folder][k] = run.pdf
    BY <2>3 DEF HeldApart
  <2>7. \A k, l \in DOMAIN chunks'[OutputRoot] :
          chunks'[OutputRoot][k] = chunks'[OutputRoot][l]
    BY <1>0, <2>3 DEF HeldApart
  <2> QED BY <2>2, <2>4, <2>5, <2>6, <2>7 DEF HeldApart, MayHold
<1>10. CASE ClearLock
  <2>1. named' = [named EXCEPT ![clearing.folder] = Nobody]
        /\ UNCHANGED <<chunks, run, found>>
    BY <1>10 DEF ClearLock
  <2>2. DOMAIN named' = AllFolders
        /\ \A f \in AllFolders : named'[f] \in {named[f], Nobody}
    BY <2>1 DEF HeldApart
  <2>3. \A f \in AllFolders, pdf \in Pdfs : MayHold(f, pdf) => MayHold(f, pdf)'
    BY <2>2 DEF MayHold
  <2> QED BY <2>1, <2>2, <2>3 DEF HeldApart
<1>6. CASE SaveChunk
  <2>1. PICK n \in 1..Length[run.pdf] \ DOMAIN chunks[run.folder] :
          chunks' = [chunks EXCEPT ![run.folder] =
            [k \in DOMAIN @ \cup {n} |-> IF k = n THEN run.pdf ELSE @[k]]]
    BY <1>6 DEF SaveChunk
  <2>2. run # Idle /\ UNCHANGED <<named, run, found>>
    BY <1>6 DEF SaveChunk
  <2>r. run.pdf \in Pdfs /\ run.folder \in AllFolders /\ MayHold(run.folder, run.pdf)
    BY <2>2 DEF HeldApart
  <2>o. \A k \in DOMAIN chunks'[run.folder] : chunks'[run.folder][k] = run.pdf
    BY <2>1, <2>2, <2>r DEF HeldApart
  <2>n. \A f \in AllFolders : f # run.folder => chunks'[f] = chunks[f]
    BY <2>1 DEF HeldApart
  <2>3. ASSUME NEW f \in AllFolders, NEW k \in DOMAIN chunks'[f]
        PROVE  chunks'[f][k] \in Pdfs /\ MayHold(f, chunks'[f][k])
    BY <2>3, <2>r, <2>o, <2>n DEF HeldApart
  <2>4. DOMAIN chunks' = AllFolders
    BY <2>1 DEF HeldApart
  <2>5. \A k, l \in DOMAIN chunks'[OutputRoot] :
          chunks'[OutputRoot][k] = chunks'[OutputRoot][l]
    BY <1>0, <2>o, <2>n DEF HeldApart
  <2> QED BY <2>2, <2>3, <2>4, <2>5, <2>o DEF HeldApart, MayHold
<1>7. CASE RunEnds
  BY <1>7 DEF HeldApart, RunEnds, NoChunks, MayHold
<1>8. CASE UNCHANGED folderVars
  BY <1>8 DEF HeldApart, folderVars, MayHold
<1> QED
  BY <1>2, <1>3, <1>4, <1>5, <1>6, <1>7, <1>8, <1>9, <1>10 DEF FoldersNext

(* Where every document has a name of its own, every run leaves a lock and  *)
(* output/ is not typed in over another document's chunks, a run resumes on *)
(* chunks of its own document only: output/, when it is proposed, still has *)
(* the chunks of the document its lock names and no others, after any       *)
(* clearing and any run (queue.py:93-122).                                  *)
THEOREM OwnNamesKeepApart ==
  ASSUME OwnNames, ~HandRuns
  PROVE  FoldersSpec /\ [][TypedAtHome]_folderVars => []ResumesOnlyItsOwn
<1>1. HeldApart => ResumesOnlyItsOwn
  BY DEF HeldApart, ResumesOnlyItsOwn
<1> QED BY HeldInit, HeldStep, <1>1, PTL DEF FoldersSpec
==============================================================================
