--------------------------- MODULE TranscribeProofs ---------------------------
(***************************************************************************)
(* What holds of an output folder for every document, every chunk size and *)
(* every sequence of launches, kills, failures and clearings.              *)
(***************************************************************************)
EXTENDS Transcribe, NumberLemmas, FiniteSetTheorems

LEMMA BoundsType ==
  ASSUME NEW n \in Nat, NEW m \in Nat \ {0}, NEW c \in Bounds(n, m)
  PROVE  /\ c[1] \in Nat /\ c[2] \in Nat
         /\ c = <<c[1], c[2]>>
         /\ c[1] <= c[2] /\ c[2] < n
         /\ c[1] % m = 0
         /\ c[2] < c[1] + m
  BY DEF Bounds

LEMMA JobType ==
  ASSUME NEW j \in Jobs
  PROVE  /\ j.req \in Requests /\ j.size \in Nat \ {0}
         /\ TotalPages(j.req) \in Nat
         /\ j.resume \in BOOLEAN /\ j.figures \in BOOLEAN
         /\ Bounds(TotalPages(j.req), j.size) \subseteq Names
<1>1. j.req \in Requests /\ j.size \in Sizes /\ j.resume \in Resumes /\ j.figures \in FigureModes
  BY DEF Jobs
<1> QED BY <1>1, TranscribeAssumption DEF Names

LEMMA NamesType == \A c \in Names : c[1] \in Nat /\ c[2] \in Nat
  BY BoundsType, TranscribeAssumption DEF Names

(* Some chunk comes first among those to do, some page among those to save. *)
LEMMA FirstExists ==
  ASSUME NEW S \in SUBSET Names, S # {}
  PROVE  First(S) \in S
<1>1. PICK n \in {c[1] : c \in S} : \A k \in {c[1] : c \in S} : n <= k
  <2>1. {c[1] : c \in S} \in SUBSET Nat /\ {c[1] : c \in S} # {}
    BY NamesType
  <2> QED BY <2>1, LeastExists
<1>2. \E c \in S : \A d \in S : c[1] <= d[1]
  BY <1>1
<1> QED BY <1>2 DEF First

LEMMA ShotExists ==
  ASSUME shots \in SUBSET Nat, shots # {}
  PROVE  Shot \in shots
<1>1. \E i \in shots : \A k \in shots : i <= k
  BY LeastExists
<1> QED BY <1>1 DEF Shot

LEMMA EmptyDir == DOMAIN Empty = {}
  BY DEF Empty
------------------------------------------------------------------------------
(* What a run knows about the chunk in hand. *)
Working == {"guard", "convert", "shoot", "fillshot", "saveshot", "write", "fill",
            "rename"}
Joining == {"join", "fillraw", "post", "fillfinal"}

InHand ==
  /\ pc \in Working => todo # {}
  /\ IF pc \in {"shoot", "fillshot", "saveshot"}
       THEN shots # {} /\ shots \subseteq FigurePages(job, Current)
       ELSE shots = {}
  /\ pc = "rename" => /\ Current \in DOMAIN partial
                      /\ partial[Current] = Chunk(job, Current)

Folder ==
  /\ DOMAIN chunks \subseteq Names /\ DOMAIN partial \subseteq Names
  /\ \A c \in DOMAIN partial : partial[c] \in Contents(c) \cup {Torn}
  /\ DOMAIN images \subseteq Names \X Nat /\ DOMAIN hidden \subseteq Names \X Nat

Memory ==
  /\ job \in Jobs
  /\ todo \subseteq JobBounds
  /\ shots \subseteq Nat
  /\ early \in BOOLEAN
  /\ toClear \subseteq Names
  /\ pc \in {"idle"} \cup Working \cup Joining

TInv == Folder /\ Memory /\ InHand /\ ChunksWhole

LEMMA TInvType == TInv => TypeOK
  BY DEF TInv, Folder, Memory, InHand, TypeOK, Working, Joining

LEMMA CurrentType ==
  ASSUME Memory, todo # {}
  PROVE  Current \in todo /\ Current \in JobBounds /\ Current \in Names
<1>1. todo \subseteq Names /\ todo \subseteq JobBounds
  BY JobType DEF Memory, JobBounds
<1>2. Current \in todo
  BY <1>1, FirstExists DEF Current
<1> QED BY <1>1, <1>2

(* The pages of a chunk, and the names of its pictures. *)
LEMMA ShotType ==
  ASSUME TInv, pc \in {"shoot", "fillshot", "saveshot"}
  PROVE  /\ Shot \in shots /\ Shot \in FigurePages(job, Current)
         /\ SavedName(Current, Shot) \in Names \X Nat
<1>1. Shot \in shots
  BY ShotExists DEF TInv, Memory, InHand
<1>2. Shot \in FigurePages(job, Current)
  BY <1>1 DEF TInv, InHand, Working
<1>3. Current \in Names
  BY CurrentType DEF TInv, InHand, Working
<1>4. Shot \in Current[1]..Current[2]
  BY <1>2 DEF FigurePages, PagesOf
<1>5. Shot - Current[1] \in Nat
  BY <1>3, <1>4, NamesType
<1> QED BY <1>1, <1>2, <1>3, <1>5 DEF SavedName

LEMMA WholeChunk == ASSUME NEW c, job \in Jobs PROVE Chunk(job, c) \in Contents(c)
  BY DEF Contents

LEMMA FigurePagesType ==
  ASSUME Memory, todo # {} PROVE FigurePages(job, Current) \subseteq Nat
<1>1. Current[1] \in Nat /\ Current[2] \in Nat
  BY CurrentType, NamesType
<1> QED BY <1>1 DEF FigurePages, PagesOf

LEMMA TInvInit == Init => TInv
  BY EmptyDir DEF Init, TInv, Folder, Memory, InHand, ChunksWhole, Working, Joining

LEMMA TInvExit == ASSUME TInv, Exit, UNCHANGED <<disk, job, toClear>> PROVE TInv'
  BY DEF TInv, Exit, disk, Folder, Memory, InHand, ChunksWhole, Working, JobBounds,
         Contents

LEMMA TInvStep == TInv /\ [Next]_vars => TInv'
<1> SUFFICES ASSUME TInv, [Next]_vars PROVE TInv'
  OBVIOUS
<1>0. Folder /\ Memory /\ InHand /\ ChunksWhole
  BY DEF TInv
<1> USE DEF disk
<1>1. ASSUME NEW j \in Jobs, Launch(j) PROVE TInv'
  <2>1. todo' \subseteq JobBounds'
    BY <1>1 DEF Launch, Pending, JobBounds
  <2>2. Folder' /\ ChunksWhole'
    BY <1>0, <1>1 DEF Launch, Folder, ChunksWhole, Contents
  <2>3. Memory'
    BY <1>0, <1>1, <2>1 DEF Launch, Memory, Working, Joining
  <2> QED BY <1>0, <1>1, <2>2, <2>3 DEF Launch, TInv, InHand, Working
<1>2. CASE StopEarly \/ Proceed
  BY <1>0, <1>2 DEF StopEarly, Proceed, TInv, Folder, Memory, InHand, ChunksWhole,
                    Contents, JobBounds, Working, Joining
<1>3. CASE Convert
  <2>1. todo # {} /\ pc = "convert" /\ UNCHANGED <<disk, job, todo, early, joined, toClear>>
    BY <1>0, <1>3 DEF Convert, InHand, Working
  <2>2. shots' = FigurePages(job, Current) /\ shots' \subseteq Nat
    BY <1>0, <1>3, <2>1, FigurePagesType DEF Convert
  <2>3. pc' = IF shots' = {} THEN "write" ELSE "shoot"
    BY <1>3 DEF Convert
  <2>4. Current' = Current
    BY <2>1 DEF Current, First
  <2>5. Folder' /\ ChunksWhole'
    BY <1>0, <2>1 DEF Folder, ChunksWhole, Contents
  <2>6. Memory'
    BY <1>0, <2>1, <2>2, <2>3 DEF Memory, JobBounds, Working, Joining
  <2>7. InHand'
    BY <2>1, <2>2, <2>3, <2>4 DEF InHand, Working
  <2> QED BY <2>5, <2>6, <2>7 DEF TInv
<1>4. CASE ConvertFails \/ JoinFails \/ Killed
  BY <1>0, <1>4, TInvExit DEF ConvertFails, JoinFails, Killed
<1>5. CASE OpenShot \/ FillShot
  <2>1. PICK x : hidden' = Put(hidden, SavedName(Current, Shot), x)
    BY <1>5 DEF OpenShot, FillShot
  <2>2. /\ pc \in {"shoot", "fillshot"} /\ pc' \in {"fillshot", "saveshot"}
        /\ UNCHANGED <<chunks, partial, images, raw, final, job, todo, shots,
                       early, joined, toClear>>
    BY <1>5 DEF OpenShot, FillShot
  <2>3. DOMAIN hidden' \subseteq Names \X Nat
    <3>1. DOMAIN hidden' = DOMAIN hidden \cup {SavedName(Current, Shot)}
      BY <2>1 DEF Put
    <3>2. SavedName(Current, Shot) \in Names \X Nat
      BY <2>2, ShotType
    <3> QED BY <1>0, <3>1, <3>2, Zenon DEF Folder
  <2>4. Folder' /\ ChunksWhole'
    BY <1>0, <2>2, <2>3 DEF Folder, ChunksWhole, Contents
  <2>5. Memory'
    BY <1>0, <2>2 DEF Memory, JobBounds, Working, Joining
  <2>6. InHand'
    BY <1>0, <2>2 DEF InHand, Working, Current, First
  <2> QED BY <2>4, <2>5, <2>6 DEF TInv
<1>6. CASE SaveShot
  <2>1. PICK x : images' = Put(images, SavedName(Current, Shot), x)
    BY <1>6 DEF SaveShot
  <2>2. /\ pc = "saveshot" /\ hidden' = Take(hidden, SavedName(Current, Shot))
        /\ shots' = shots \ {Shot}
        /\ pc' = IF shots' = {} THEN "write" ELSE "shoot"
        /\ UNCHANGED <<chunks, partial, raw, final, job, todo, early, joined, toClear>>
    BY <1>6 DEF SaveShot
  <2>3. DOMAIN images' \subseteq Names \X Nat
    <3>1. DOMAIN images' = DOMAIN images \cup {SavedName(Current, Shot)}
      BY <2>1 DEF Put
    <3>2. SavedName(Current, Shot) \in Names \X Nat
      BY <2>2, ShotType
    <3> QED BY <1>0, <3>1, <3>2, Zenon DEF Folder
  <2>4. DOMAIN hidden' \subseteq Names \X Nat
    BY <1>0, <2>2 DEF Take, Folder
  <2>5. Folder' /\ ChunksWhole'
    BY <1>0, <2>2, <2>3, <2>4 DEF Folder, ChunksWhole, Contents
  <2>6. Memory'
    BY <1>0, <2>2 DEF Memory, JobBounds, Working, Joining
  <2>7. InHand'
    <3>1. todo # {} /\ shots \subseteq FigurePages(job, Current)
      BY <1>0, <2>2 DEF InHand, Working
    <3>2. Current' = Current /\ job' = job /\ todo' = todo
      BY <2>2 DEF Current, First
    <3> QED BY <2>2, <3>1, <3>2 DEF InHand, Working
  <2> QED BY <2>5, <2>6, <2>7 DEF TInv
<1>7. CASE OpenPartial \/ FillPartial
  <2>1. /\ pc \in {"write", "fill"}
        /\ UNCHANGED <<chunks, images, hidden, raw, final, job, todo, shots,
                       early, joined, toClear>>
    BY <1>7 DEF OpenPartial, FillPartial
  <2>2. PICK x \in {Torn, Chunk(job, Current)} :
           /\ partial' = Put(partial, Current, x)
           /\ \/ x = Torn /\ pc' = "fill"
              \/ x = Chunk(job, Current) /\ pc' = "rename"
    BY <1>7 DEF OpenPartial, FillPartial
  <2>3. Current \in Names /\ todo # {} /\ shots = {} /\ job \in Jobs
    BY <1>0, <2>1, CurrentType DEF InHand, Working, Memory
  <2>4. x \in Contents(Current) \cup {Torn}
    BY <2>3, WholeChunk
  <2>p. /\ DOMAIN partial' = DOMAIN partial \cup {Current}
        /\ partial'[Current] = x
        /\ \A c \in DOMAIN partial : c # Current => partial'[c] = partial[c]
    BY <2>2 DEF Put
  <2>5. \A c \in DOMAIN partial' : partial'[c] \in Contents(c) \cup {Torn}
    BY <1>0, <2>p, <2>4, Zenon DEF Folder
  <2>6. DOMAIN partial' \subseteq Names
    BY <1>0, <2>p, <2>3, Zenon DEF Folder
  <2>7. Folder' /\ ChunksWhole'
    BY <1>0, <2>1, <2>5, <2>6 DEF Folder, ChunksWhole, Contents
  <2>8. Memory'
    BY <1>0, <2>1, <2>2 DEF Memory, JobBounds, Working, Joining
  <2>9. Current' = Current /\ Chunk(job, Current)' = Chunk(job, Current)
    BY <2>1 DEF Current, First, Chunk, FigurePages
  <2>10. InHand'
    <3>1. Current \in DOMAIN partial' /\ partial'[Current] = x
      BY <2>p
    <3> QED BY <2>1, <2>2, <2>3, <2>9, <3>1 DEF InHand, Working
  <2> QED BY <2>7, <2>8, <2>10 DEF TInv
<1>8. CASE SaveChunk
  <2>1. /\ pc = "rename" /\ chunks' = Put(chunks, Current, partial[Current])
        /\ partial' = Take(partial, Current)
        /\ todo' = todo \ {Current}
        /\ pc' = IF todo' = {} THEN "join" ELSE "guard"
        /\ UNCHANGED <<images, hidden, raw, final, job, shots, early, joined, toClear>>
    BY <1>8 DEF SaveChunk, NextChunk
  <2>2. Current \in Names /\ partial[Current] \in Contents(Current)
    BY <1>0, <2>1, CurrentType, WholeChunk DEF InHand, Working, Memory
  <2>p. /\ DOMAIN chunks' = DOMAIN chunks \cup {Current}
        /\ chunks'[Current] = partial[Current]
        /\ \A c \in DOMAIN chunks : c # Current => chunks'[c] = chunks[c]
    BY <2>1 DEF Put
  <2>t. /\ DOMAIN partial' = DOMAIN partial \ {Current}
        /\ \A c \in DOMAIN partial' : partial'[c] = partial[c]
    BY <2>1 DEF Take
  <2>c. \A c : Contents(c)' = Contents(c)
    BY DEF Contents
  <2>3. ChunksWhole'
    BY <1>0, <2>p, <2>2, <2>c, Zenon DEF ChunksWhole
  <2>4. Folder'
    <3>1. DOMAIN chunks' \subseteq Names /\ DOMAIN partial' \subseteq Names
      BY <1>0, <2>p, <2>t, <2>2, Zenon DEF Folder
    <3>2. \A c \in DOMAIN partial' : partial'[c] \in Contents(c)' \cup {Torn}
      BY <1>0, <2>t, <2>c, Zenon DEF Folder
    <3> QED BY <1>0, <2>1, <3>1, <3>2, Zenon DEF Folder
  <2>5. Memory'
    BY <1>0, <2>1 DEF Memory, JobBounds, Working, Joining
  <2>6. InHand'
    BY <1>0, <2>1 DEF InHand, Working
  <2> QED BY <2>3, <2>4, <2>5, <2>6 DEF TInv
<1>9. CASE Join \/ FillRaw \/ OpenFinal
  BY <1>0, <1>9 DEF Join, FillRaw, OpenFinal, TInv, Folder, Memory, InHand,
                    ChunksWhole, Contents, JobBounds, Working, Joining
<1>10. CASE FillFinal
  BY <1>0, <1>10 DEF FillFinal, Exit, TInv, Folder, Memory, InHand,
                     ChunksWhole, Contents, JobBounds, Working
<1>11. CASE ClearProgress \/ ClearBreaksOff
  <2>1. /\ toClear' \subseteq DOMAIN chunks
        /\ UNCHANGED <<disk, pc, job, todo, shots, early, joined>>
    BY <1>11 DEF ClearProgress, ClearBreaksOff
  <2>2. Folder' /\ ChunksWhole'
    BY <1>0, <2>1 DEF Folder, ChunksWhole, Contents
  <2>3. Memory' /\ InHand'
    BY <1>0, <2>1 DEF Folder, Memory, JobBounds, InHand, Current, First, Chunk,
                      FigurePages
  <2> QED BY <2>2, <2>3 DEF TInv
<1>13. ASSUME NEW c \in Names, Unlink(c) PROVE TInv'
  <2>1. /\ chunks' = Take(chunks, c) /\ toClear' \subseteq toClear
        /\ UNCHANGED <<partial, images, hidden, raw, final,
                       pc, job, todo, shots, early, joined>>
    BY <1>13 DEF Unlink
  <2>2. /\ DOMAIN chunks' \subseteq DOMAIN chunks
        /\ \A d \in DOMAIN chunks' : chunks'[d] = chunks[d]
    BY <2>1 DEF Take
  <2>3. Folder' /\ ChunksWhole'
    BY <1>0, <2>1, <2>2 DEF Folder, ChunksWhole, Contents
  <2>4. Memory' /\ InHand'
    BY <1>0, <2>1 DEF Memory, JobBounds, InHand, Current, First, Chunk, FigurePages
  <2> QED BY <2>3, <2>4 DEF TInv
<1>12. CASE UNCHANGED vars
  BY <1>0, <1>12 DEF vars, TInv, Folder, Memory, InHand, ChunksWhole, Contents,
                     JobBounds, Current, First, Chunk, FigurePages
<1> QED BY <1>1, <1>2, <1>3, <1>4, <1>5, <1>6, <1>7, <1>8, <1>9, <1>10, <1>11, <1>12,
        <1>13 DEF Next, Step, Clearing

(* Whatever was launched, killed, cleared or failed in the folder, chunk    *)
(* files and pictures carry the names of chunks some run may ask for, and a *)
(* run in the chunk loop has a chunk in hand.                               *)
THEOREM TranscribeTypeCorrect == Spec => []TypeOK
  BY TInvInit, TInvStep, TInvType, PTL DEF Spec

(* A file that carries a chunk's name is always a complete conversion of    *)
(* that page range, for documents and chunk sizes of any size, wherever     *)
(* runs are killed.                                                         *)
THEOREM ChunksAreWhole == Spec => []ChunksWhole
<1>1. TInv => ChunksWhole
  BY DEF TInv
<1> QED BY <1>1, TInvInit, TInvStep, PTL DEF Spec
------------------------------------------------------------------------------
(* A resuming run has only missing chunks to do, and nobody but itself adds *)
(* one.                                                                     *)
OnlyMissing ==
  pc \in Working /\ job.resume => todo \cap DOMAIN chunks = {}

LEMMA MissingStep == TInv /\ OnlyMissing /\ [Next]_vars => OnlyMissing'
<1> SUFFICES ASSUME TInv, OnlyMissing, [Next]_vars PROVE OnlyMissing'
  OBVIOUS
<1> USE DEF OnlyMissing, disk
<1>1. ASSUME NEW j \in Jobs, Launch(j) PROVE OnlyMissing'
  BY <1>1, JobType DEF Launch, Pending
<1>2. CASE SaveChunk
  <2>1. DOMAIN chunks' = DOMAIN chunks \cup {Current}
    BY <1>2 DEF SaveChunk, Put
  <2> QED BY <1>2, <2>1 DEF SaveChunk, Working
<1>3. CASE Clearing
  <2>1. ASSUME NEW c, chunks' = Take(chunks, c)
        PROVE  DOMAIN chunks' \subseteq DOMAIN chunks
    BY <2>1 DEF Take
  <2> QED BY <1>3, <2>1 DEF Clearing, ClearProgress, Unlink, ClearBreaksOff
<1>4. CASE ConvertFails \/ JoinFails \/ Killed \/ FillFinal
  BY <1>4 DEF ConvertFails, JoinFails, Killed, FillFinal, Exit, Working
<1>5. CASE \/ StopEarly \/ Proceed \/ Convert \/ OpenShot \/ FillShot \/ SaveShot
           \/ OpenPartial \/ FillPartial \/ Join \/ FillRaw \/ OpenFinal
  BY <1>5 DEF StopEarly, Proceed, Convert, OpenShot, FillShot, SaveShot,
              OpenPartial, FillPartial, Join, FillRaw, OpenFinal, Working
<1>6. CASE UNCHANGED vars
  BY <1>6 DEF vars
<1> QED BY <1>1, <1>2, <1>3, <1>4, <1>5, <1>6 DEF Next, Step

(* A resuming run never spends its time on a chunk that is on disk already. *)
THEOREM ResumeRedoesNothing == Spec => NothingRedone
<1>1. Init => OnlyMissing
  BY DEF Init, OnlyMissing, Working
<1>2. ASSUME TInv, OnlyMissing, [Next]_vars,
             pc = "guard", pc' = "convert", job.resume
      PROVE  Current \notin DOMAIN chunks
  <2>1. Current \in todo
    BY <1>2, CurrentType DEF TInv, InHand, Working
  <2> QED BY <1>2, <2>1 DEF OnlyMissing, Working
<1>3. TInv /\ OnlyMissing /\ [Next]_vars =>
        [pc = "guard" /\ pc' = "convert" /\ job.resume
           => Current \notin DOMAIN chunks]_vars
  BY <1>2
<1> QED BY <1>1, <1>3, MissingStep, TInvInit, TInvStep, PTL DEF Spec, NothingRedone
------------------------------------------------------------------------------
(* One request, whatever the chunk sizes, flags and figure modes of the     *)
(* runs: a picture's name tells which page it was cut from.                 *)
OneRequest == \A r, q \in Requests : r = q

PicturesRight ==
  \A n \in DOMAIN images : images[n] = OcrPdf(job.req)[n[1][1] + n[2] + 1]

ShotInHand ==
  pc = "saveshot" =>
     hidden[SavedName(Current, Shot)] = OcrPdf(job.req)[Shot + 1]

ShotsSaved ==
  pc \in {"shoot", "fillshot", "saveshot", "write", "fill", "rename"} =>
     \A i \in FigurePages(job, Current) \ shots :
        SavedName(Current, i) \in DOMAIN images

LinksThere ==
  \A c \in DOMAIN chunks : \A i \in chunks[c].figs :
     SavedName(c, i) \in DOMAIN images

FInv == TInv /\ PicturesRight /\ ShotInHand /\ ShotsSaved /\ LinksThere

LEMMA FInvInit == Init => FInv
<1> SUFFICES ASSUME Init PROVE FInv
  OBVIOUS
<1>1. PicturesRight /\ LinksThere
  BY EmptyDir DEF Init, PicturesRight, LinksThere
<1>2. ShotInHand /\ ShotsSaved
  BY DEF Init, ShotInHand, ShotsSaved
<1> QED BY <1>1, <1>2, TInvInit DEF FInv

LEMMA PageOfPicture ==
  ASSUME NEW c \in Names, NEW i \in PagesOf(c)
  PROVE  SavedName(c, i)[1][1] + SavedName(c, i)[2] + 1 = i + 1
<1>1. c[1] \in Nat /\ c[2] \in Nat
  BY NamesType
<1>2. i \in Int
  BY <1>1 DEF PagesOf
<1>3. SavedName(c, i)[1][1] = c[1] /\ SavedName(c, i)[2] = i - c[1]
  BY DEF SavedName
<1> QED BY <1>1, <1>2, <1>3

LEMMA FInvStep == ASSUME OneRequest PROVE FInv /\ [Next]_vars => FInv'
<1> SUFFICES ASSUME FInv, [Next]_vars PROVE FInv'
  OBVIOUS
<1>0. TInv /\ PicturesRight /\ ShotInHand /\ ShotsSaved /\ LinksThere /\ TInv'
  BY TInvStep DEF FInv
<1>r. job'.req = job.req
  BY <1>0, JobType DEF TInv, Memory, OneRequest
<1> SUFFICES PicturesRight' /\ ShotInHand' /\ ShotsSaved' /\ LinksThere'
  BY <1>0 DEF FInv
<1>p. images' = images => PicturesRight'
  BY <1>0, <1>r DEF PicturesRight, OcrPdf
<1>l. chunks' = chunks /\ images' = images => LinksThere'
  BY <1>0 DEF LinksThere
<1> USE DEF disk
<1>1. ASSUME NEW j \in Jobs, Launch(j)
      PROVE  PicturesRight' /\ ShotInHand' /\ ShotsSaved' /\ LinksThere'
  BY <1>1, <1>p, <1>l DEF Launch, ShotInHand, ShotsSaved
<1>2. CASE StopEarly \/ Proceed \/ Join \/ FillRaw \/ OpenFinal
  BY <1>2, <1>p, <1>l DEF StopEarly, Proceed, Join, FillRaw, OpenFinal,
                          ShotInHand, ShotsSaved
<1>3. CASE Convert
  <2>1. /\ UNCHANGED <<disk, job, todo>>
        /\ shots' = FigurePages(job, Current)
        /\ pc' = IF shots' = {} THEN "write" ELSE "shoot"
    BY <1>3 DEF Convert
  <2>2. Current' = Current /\ FigurePages(job, Current)' = FigurePages(job, Current)
    BY <2>1 DEF Current, First, FigurePages
  <2> QED BY <1>p, <1>l, <2>1, <2>2 DEF ShotInHand, ShotsSaved
<1>4. CASE ConvertFails \/ JoinFails \/ Killed
  BY <1>4, <1>p, <1>l DEF ConvertFails, JoinFails, Killed, Exit, ShotInHand, ShotsSaved
<1>5. CASE FillFinal
  BY <1>5, <1>p, <1>l DEF FillFinal, Exit, ShotInHand, ShotsSaved
<1>6. CASE OpenShot \/ FillShot \/ OpenPartial \/ FillPartial
  <2>1. UNCHANGED <<chunks, images, job, todo, shots>>
    BY <1>6 DEF OpenShot, FillShot, OpenPartial, FillPartial
  <2>2. /\ Current' = Current /\ FigurePages(job, Current)' = FigurePages(job, Current)
        /\ \A i : SavedName(Current, i)' = SavedName(Current, i)
        /\ Shot' = Shot
    BY <2>1 DEF Current, First, FigurePages, SavedName, Shot
  <2>3. pc \in {"shoot", "fillshot", "saveshot", "write", "fill", "rename"}
    BY <1>6 DEF OpenShot, FillShot, OpenPartial, FillPartial
  <2>4. ShotsSaved'
    BY <1>0, <2>1, <2>2, <2>3 DEF ShotsSaved
  <2>5. ShotInHand'
    <3>1. CASE FillShot
      <4>1. hidden'[SavedName(Current, Shot)] = OcrPdf(job.req)[Shot + 1]
        BY <3>1 DEF FillShot, Put
      <4> QED BY <2>1, <2>2, <4>1 DEF ShotInHand, SavedName
    <3>2. CASE pc' # "saveshot"
      BY <3>2 DEF ShotInHand
    <3> QED BY <1>6, <3>1, <3>2 DEF OpenShot, OpenPartial, FillPartial
  <2> QED BY <1>p, <1>l, <2>1, <2>4, <2>5
<1>7. CASE SaveShot
  <2> DEFINE name == SavedName(Current, Shot)
  <2>1. /\ pc = "saveshot" /\ images' = Put(images, name, hidden[name])
        /\ shots' = shots \ {Shot}
        /\ pc' = IF shots' = {} THEN "write" ELSE "shoot"
        /\ UNCHANGED <<chunks, job, todo>>
    BY <1>7 DEF SaveShot
  <2>2. Current \in Names /\ Shot \in PagesOf(Current)
    BY <1>0, <2>1, ShotType, CurrentType DEF TInv, InHand, Working, FigurePages
  <2>3. hidden[name] = OcrPdf(job.req)[Shot + 1]
    BY <1>0, <2>1 DEF ShotInHand
  <2>4. hidden[name] = OcrPdf(job.req)[name[1][1] + name[2] + 1]
    BY <2>2, <2>3, PageOfPicture
  <2>5. /\ DOMAIN images' = DOMAIN images \cup {name}
        /\ images'[name] = hidden[name]
        /\ \A n \in DOMAIN images : n # name => images'[n] = images[n]
    <3> HIDE DEF name
    <3> QED BY <2>1 DEF Put
  <2>6. PicturesRight'
    <3> HIDE DEF name
    <3> QED BY <1>0, <2>1, <2>4, <2>5 DEF PicturesRight, OcrPdf
  <2>7. Current' = Current /\ FigurePages(job, Current)' = FigurePages(job, Current)
    BY <2>1 DEF Current, First, FigurePages
  <2>8. ShotsSaved'
    <3>1. ASSUME NEW i \in FigurePages(job, Current) \ shots'
          PROVE  SavedName(Current, i) \in DOMAIN images'
      BY <1>0, <2>1, <2>5, <3>1 DEF ShotsSaved
    <3> QED BY <2>7, <3>1 DEF ShotsSaved, SavedName
  <2>9. LinksThere'
    BY <1>0, <2>1, <2>5 DEF LinksThere
  <2> QED BY <2>1, <2>6, <2>8, <2>9 DEF ShotInHand
<1>8. CASE SaveChunk
  <2>1. /\ pc = "rename" /\ chunks' = Put(chunks, Current, partial[Current])
        /\ UNCHANGED images
        /\ pc' \in {"join", "guard"}
    BY <1>8 DEF SaveChunk, NextChunk
  <2>2. partial[Current] = Chunk(job, Current) /\ shots = {}
    BY <1>0, <2>1 DEF TInv, InHand
  <2>3. partial[Current].figs = FigurePages(job, Current)
    BY <2>2 DEF Chunk
  <2>4. \A i \in partial[Current].figs : SavedName(Current, i) \in DOMAIN images
    BY <1>0, <2>1, <2>2, <2>3 DEF ShotsSaved
  <2>5. /\ DOMAIN chunks' = DOMAIN chunks \cup {Current}
        /\ chunks'[Current] = partial[Current]
        /\ \A c \in DOMAIN chunks : c # Current => chunks'[c] = chunks[c]
    BY <2>1 DEF Put
  <2>6. LinksThere'
    BY <1>0, <2>1, <2>4, <2>5 DEF LinksThere
  <2> QED BY <1>p, <2>1, <2>6 DEF ShotInHand, ShotsSaved
<1>9. CASE Clearing
  <2>1. UNCHANGED <<images, hidden, pc, job, todo, shots>>
    BY <1>9 DEF Clearing, ClearProgress, Unlink, ClearBreaksOff
  <2>u. chunks' = chunks \/ \E c : chunks' = Take(chunks, c)
    BY <1>9 DEF Clearing, ClearProgress, Unlink, ClearBreaksOff
  <2>2. LinksThere'
    BY <1>0, <2>1, <2>u DEF LinksThere, Take
  <2>3. ShotInHand' /\ ShotsSaved'
    BY <1>0, <2>1 DEF ShotInHand, ShotsSaved, Current, First, FigurePages,
                      SavedName, Shot
  <2> QED BY <1>p, <2>1, <2>2, <2>3
<1>10. CASE UNCHANGED vars
  BY <1>0, <1>p, <1>l, <1>10 DEF vars, ShotInHand, ShotsSaved, Current, First,
                                 FigurePages, SavedName, Shot
<1> QED BY <1>1, <1>2, <1>3, <1>4, <1>5, <1>6, <1>7, <1>8, <1>9, <1>10
        DEF Next, Step

LEMMA FInvLinks == ASSUME OneRequest PROVE FInv => LinksResolve
<1> SUFFICES ASSUME FInv, NEW c \in DOMAIN chunks, NEW i \in chunks[c].figs
             PROVE  /\ SavedName(c, i) \in DOMAIN images
                    /\ images[SavedName(c, i)] = chunks[c].text[i]
  BY DEF LinksResolve
<1>1. SavedName(c, i) \in DOMAIN images
  BY DEF FInv, LinksThere
<1>2. PICK j \in Jobs : chunks[c] = Chunk(j, c)
  BY DEF FInv, TInv, ChunksWhole, Contents
<1>3. j.req = job.req
  BY JobType DEF FInv, TInv, Memory, OneRequest
<1>4. c \in Names /\ i \in PagesOf(c)
  BY <1>2 DEF FInv, TInv, Folder, Chunk, FigurePages
<1>5. chunks[c].text[i] = OcrPdf(job.req)[i + 1]
  BY <1>2, <1>3, <1>4 DEF Chunk, ChunkText
<1>6. images[SavedName(c, i)] = OcrPdf(job.req)[i + 1]
  BY <1>1, <1>4, PageOfPicture DEF FInv, PicturesRight
<1> QED BY <1>1, <1>5, <1>6

(* A folder used for one request, by runs of any chunk sizes, resuming or   *)
(* not, with kills anywhere: every figure a finished chunk links is there   *)
(* and is the figure of that page.                                          *)
THEOREM LinksAlwaysResolve ==
  ASSUME OneRequest PROVE Spec => []LinksResolve
  BY FInvInit, FInvStep, FInvLinks, PTL DEF Spec
------------------------------------------------------------------------------
(* From joining the chunks to the final Markdown, the text of a run that    *)
(* was not stopped early is the book.                                       *)
AllSplit == \A r \in Requests : r.split

TextIsBook ==
  ~early => /\ pc \in {"fillraw", "fillfinal"} => joined = Book(job)
            /\ pc = "post" => raw = Book(job)

LEMMA AskedIsRead ==
  ASSUME OneRequest, AllSplit, NEW j \in Jobs, NEW c, chunks[c] \in Contents(c)
  PROVE  chunks[c].text = AskedText(j.req, c)
<1>1. PICK k \in Jobs : chunks[c] = Chunk(k, c)
  BY DEF Contents
<1>2. k.req = j.req /\ j.req.split
  BY JobType DEF OneRequest, AllSplit
<1>3. chunks[c].text = ChunkText(j.req, c)
  BY <1>1, <1>2 DEF Chunk
<1> QED BY <1>2, <1>3 DEF ChunkText, AskedText

LEMMA TextStep ==
  ASSUME OneRequest, AllSplit PROVE TInv /\ TextIsBook /\ [Next]_vars => TextIsBook'
<1> SUFFICES ASSUME TInv, TextIsBook, [Next]_vars PROVE TextIsBook'
  OBVIOUS
<1>0. job \in Jobs /\ ChunksWhole
  BY DEF TInv, Memory
<1> USE DEF TextIsBook, disk
<1>1. ASSUME NEW j \in Jobs, Launch(j) PROVE TextIsBook'
  BY <1>1 DEF Launch
<1>2. CASE \/ StopEarly \/ Proceed \/ Convert \/ OpenShot \/ FillShot \/ SaveShot
           \/ OpenPartial \/ FillPartial \/ SaveChunk
  BY <1>2 DEF StopEarly, Proceed, Convert, OpenShot, FillShot, SaveShot,
              OpenPartial, FillPartial, SaveChunk, NextChunk
<1>3. CASE ConvertFails \/ JoinFails \/ Killed \/ FillFinal
  BY <1>3 DEF ConvertFails, JoinFails, Killed, FillFinal, Exit
<1>4. CASE Join
  <2>1. /\ ToJoin \subseteq DOMAIN chunks
        /\ joined' = [c \in ToJoin |-> chunks[c].text]
        /\ pc' = "fillraw" /\ job' = job /\ early' = early
    BY <1>4 DEF Join
  <2>2. ASSUME ~early PROVE joined' = Book(job)
    <3>1. ToJoin = Bounds(TotalPages(job.req), job.size)
      BY <2>2 DEF ToJoin, JobBounds
    <3>2. \A c \in ToJoin : chunks[c].text = AskedText(job.req, c)
      BY <1>0, <2>1, AskedIsRead DEF ChunksWhole
    <3> QED BY <2>1, <3>1, <3>2 DEF Book
  <2>3. Book(job)' = Book(job)
    BY <2>1 DEF Book, AskedText
  <2> QED BY <2>1, <2>2, <2>3
<1>5. CASE FillRaw \/ OpenFinal \/ Clearing \/ UNCHANGED vars
  BY <1>5 DEF FillRaw, OpenFinal, Clearing, ClearProgress, Unlink, ClearBreaksOff,
              vars, Book, AskedText
<1> QED BY <1>1, <1>2, <1>3, <1>4, <1>5 DEF Next, Step

(* A split document asked for in one way, with chunks of any size from any  *)
(* number of runs: what is written as the final Markdown by a run that the  *)
(* disk guard did not stop is the whole book, page for page.                *)
THEOREM TheBookIsTheRequest ==
  ASSUME OneRequest, AllSplit PROVE Spec => []BookIsTheRequest
<1>1. Init => TextIsBook
  BY DEF Init, TextIsBook
<1>2. TextIsBook => BookIsTheRequest
  BY DEF TextIsBook, BookIsTheRequest
<1> QED BY <1>1, <1>2, TextStep, TInvInit, TInvStep, PTL DEF Spec
------------------------------------------------------------------------------
LEMMA BoundsAreBlocks == ASSUME NEW n, NEW m PROVE Bounds(n, m) = Blocks(n, m)
  BY DEF Bounds, Blocks

(* Chunks of one size do not overlap. *)
LEMMA BoundsApart ==
  ASSUME NEW n \in Nat, NEW m \in Nat \ {0},
         NEW c \in Bounds(n, m), NEW d \in Bounds(n, m), c # d
  PROVE  PagesOf(c) \cap PagesOf(d) = {}
  BY BoundsAreBlocks, BlocksApart DEF PagesOf

(* From joining on, a run the disk guard did not stop has the chunks of its *)
(* own chunk size, whatever sizes other runs have left chunks of.           *)
OwnBounds ==
  ~early => /\ pc \in {"fillraw", "fillfinal"} => DOMAIN joined = JobBounds
            /\ pc = "post" => DOMAIN raw = JobBounds

LEMMA OwnBoundsStep == OwnBounds /\ [Next]_vars => OwnBounds'
<1> SUFFICES ASSUME OwnBounds, [Next]_vars PROVE OwnBounds'
  OBVIOUS
<1> USE DEF OwnBounds, disk
<1>1. ASSUME NEW j \in Jobs, Launch(j) PROVE OwnBounds'
  BY <1>1 DEF Launch
<1>2. CASE \/ StopEarly \/ Proceed \/ Convert \/ OpenShot \/ FillShot \/ SaveShot
           \/ OpenPartial \/ FillPartial \/ SaveChunk
  BY <1>2 DEF StopEarly, Proceed, Convert, OpenShot, FillShot, SaveShot,
              OpenPartial, FillPartial, SaveChunk, NextChunk
<1>3. CASE ConvertFails \/ JoinFails \/ Killed \/ FillFinal
  BY <1>3 DEF ConvertFails, JoinFails, Killed, FillFinal, Exit
<1>4. CASE Join
  <2>1. /\ DOMAIN joined' = ToJoin /\ pc' = "fillraw"
        /\ UNCHANGED <<job, early>>
    BY <1>4 DEF Join
  <2>2. ~early => ToJoin = JobBounds
    BY DEF ToJoin
  <2>3. JobBounds' = JobBounds
    BY <2>1 DEF JobBounds
  <2> QED BY <2>1, <2>2, <2>3
<1>5. CASE FillRaw \/ OpenFinal \/ Clearing \/ UNCHANGED vars
  BY <1>5 DEF FillRaw, OpenFinal, Clearing, ClearProgress, Unlink, ClearBreaksOff,
              vars, JobBounds
<1> QED BY <1>1, <1>2, <1>3, <1>4, <1>5 DEF Next, Step

(* Any chunk sizes and page selections one after another: only a run that   *)
(* the disk guard stopped can write a page twice.  The parameter bounds of  *)
(* concatenate does what its docstring says, where it is given              *)
(* (transcribe.py:297, 311-320).                                            *)
THEOREM OnlyEarlyStopsRepeat == Spec => [](~early => NoPageTwice)
<1>1. Init => OwnBounds
  BY DEF Init, OwnBounds
<1>2. TInv /\ OwnBounds => (~early => NoPageTwice)
  <2> SUFFICES ASSUME TInv, OwnBounds, ~early, pc = "fillfinal",
                      NEW c \in DOMAIN joined, NEW d \in DOMAIN joined, c # d
               PROVE  PagesOf(c) \cap PagesOf(d) = {}
    BY DEF NoPageTwice
  <2>1. c \in JobBounds /\ d \in JobBounds
    BY DEF OwnBounds
  <2>2. TotalPages(job.req) \in Nat /\ job.size \in Nat \ {0}
    BY JobType DEF TInv, Memory
  <2> QED BY <2>1, <2>2, BoundsApart DEF JobBounds
<1> QED BY <1>1, <1>2, OwnBoundsStep, TInvInit, TInvStep, PTL DEF Spec
------------------------------------------------------------------------------
(* The folder implements a chunk store.  Besides the invariant above it     *)
(* takes only that a run about to fill the book has opened it.              *)
Opened == pc = "fillfinal" => final = Torn

LEMMA OpenedStep == Opened /\ [Next]_vars => Opened'
<1> SUFFICES ASSUME Opened, [Next]_vars PROVE Opened'
  OBVIOUS
<1> USE DEF Opened, disk
<1>1. ASSUME NEW j \in Jobs, Launch(j) PROVE Opened'
  BY <1>1 DEF Launch
<1>2. CASE \/ StopEarly \/ Proceed \/ Convert \/ OpenShot \/ FillShot \/ SaveShot
           \/ OpenPartial \/ FillPartial \/ SaveChunk
  BY <1>2 DEF StopEarly, Proceed, Convert, OpenShot, FillShot, SaveShot,
              OpenPartial, FillPartial, SaveChunk, NextChunk
<1>3. CASE ConvertFails \/ JoinFails \/ Killed \/ FillFinal
  BY <1>3 DEF ConvertFails, JoinFails, Killed, FillFinal, Exit
<1>4. CASE Join \/ FillRaw \/ OpenFinal \/ Clearing \/ UNCHANGED vars
  BY <1>4 DEF Join, FillRaw, OpenFinal, Clearing, ClearProgress, Unlink,
              ClearBreaksOff, vars
<1> QED BY <1>1, <1>2, <1>3, <1>4 DEF Next, Step

LEMMA SavedKept == UNCHANGED chunks => UNCHANGED Saved
  BY DEF Saved

LEMMA StoreInit == Init => Store!Init
<1> SUFFICES ASSUME Init PROVE Store!Init
  OBVIOUS
<1>1. Saved = Store!Nothing
  BY DEF Init, Saved, Empty, Store!Nothing
<1> QED BY <1>1 DEF Init, Held, Store!Init

(* A chunk file appears in the folder: the store saves it.                  *)
LEMMA SaveIsSave == ASSUME TInv, SaveChunk PROVE Store!Save(Current)
<1>1. /\ pc = "rename" /\ chunks' = Put(chunks, Current, partial[Current])
      /\ pc' \in {"join", "guard"} /\ UNCHANGED <<joined, raw, final>>
  BY DEF SaveChunk, NextChunk
<1>2. /\ todo # {} /\ job \in Jobs
      /\ partial[Current] = Chunk(job, Current)
  BY <1>1 DEF TInv, Memory, InHand, Working
<1>3. Current \in Names
  BY <1>2, CurrentType DEF TInv
<1> DEFINE text == ChunkText(job.req, Current)
           Texts == [c \in Names |-> {ChunkText(r, c) : r \in Requests}]
<1>4. text \in Texts[Current]
  BY <1>2, <1>3, JobType
<1>5. partial[Current].text = text
  BY <1>2 DEF Chunk
<1>6. /\ DOMAIN chunks' = DOMAIN chunks \cup {Current}
      /\ \A d \in DOMAIN chunks' :
            chunks'[d] = IF d = Current THEN partial[Current] ELSE chunks[d]
  BY <1>1 DEF Put
<1>7. Saved' = [d \in DOMAIN Saved \cup {Current} |->
                  IF d = Current THEN text ELSE Saved[d]]
  <2> HIDE DEF text
  <2>1. DOMAIN Saved = DOMAIN chunks
    BY DEF Saved
  <2>2. \A d \in DOMAIN chunks : Saved[d] = chunks[d].text
    BY DEF Saved
  <2>3. Saved' = [d \in DOMAIN chunks' |-> chunks'[d].text]
    BY DEF Saved
  <2> QED BY <1>5, <1>6, <2>1, <2>2, <2>3
<1>8. Held = {} /\ Held' = {}
  BY <1>1 DEF Held
<1> HIDE DEF text, Texts
<1>9. UNCHANGED <<Held, final>>
  BY <1>1, <1>8
<1> QED BY <1>4, <1>7, <1>9 DEF Store!Save, Texts

(* Joining takes a whole document from the store, or, after an early stop,  *)
(* all it has.                                                              *)
LEMMA JoinIsGather ==
  ASSUME TInv, Join
  PROVE  \E S \in {Bounds(TotalPages(r), n) : r \in Requests, n \in Sizes}
                   \cup {DOMAIN Saved} : Store!Gather(S)
<1> DEFINE Volumes == {Bounds(TotalPages(r), n) : r \in Requests, n \in Sizes}
<1>1. /\ pc = "join" /\ pc' = "fillraw" /\ ToJoin \subseteq DOMAIN chunks
      /\ joined' = [c \in ToJoin |-> chunks[c].text]
      /\ UNCHANGED <<chunks, final>>
  BY DEF Join
<1>2. DOMAIN Saved = DOMAIN chunks /\ Saved' = Saved
  BY <1>1 DEF Saved
<1>3. ToJoin \in Volumes \/ ToJoin = DOMAIN Saved
  BY <1>2 DEF ToJoin, JobBounds, TInv, Memory, Jobs
<1>4. joined' = [c \in ToJoin |-> Saved[c]]
  BY <1>1 DEF Saved
<1>5. Held' = {joined'}
  BY <1>1 DEF Held
<1> HIDE DEF Volumes
<1>6. Store!Gather(ToJoin)
  BY <1>1, <1>2, <1>3, <1>4, <1>5 DEF Store!Gather, Volumes
<1> QED BY <1>3, <1>6 DEF Volumes

(* A run that goes drops the text it holds, if it holds any.                *)
LEMMA ExitIsDrop ==
  ASSUME Exit, UNCHANGED disk
  PROVE  Store!Drop
<1>1. Held' = {}
  BY DEF Exit, Held
<1> QED BY <1>1, SavedKept DEF disk, Store!Drop

LEMMA StoreStep == TInv /\ Opened /\ [Next]_vars => [Store!Next]_(Store!svars)
<1> SUFFICES ASSUME TInv, Opened, [Next]_vars PROVE [Store!Next]_(Store!svars)
  OBVIOUS
<1> DEFINE Same == UNCHANGED <<Saved, Held, final>>
<1>s. ASSUME Same PROVE [Store!Next]_(Store!svars)
  BY <1>s DEF Store!svars
<1>1. ASSUME NEW j \in Jobs, Launch(j) PROVE Same
  <2>1. Held = {} /\ Held' = {}
    BY <1>1 DEF Launch, Held
  <2> QED BY <1>1, <2>1, SavedKept DEF Launch, disk
<1>2. CASE \/ StopEarly \/ Proceed \/ Convert \/ OpenShot \/ FillShot \/ SaveShot
           \/ OpenPartial \/ FillPartial
  <2>1. Held = {} /\ Held' = {}
    BY <1>2 DEF StopEarly, Proceed, Convert, OpenShot, FillShot, SaveShot,
                OpenPartial, FillPartial, Held
  <2>2. UNCHANGED <<chunks, final>>
    BY <1>2 DEF StopEarly, Proceed, Convert, OpenShot, FillShot, SaveShot,
                OpenPartial, FillPartial, disk
  <2> QED BY <1>s, <2>1, <2>2, SavedKept
<1>3. CASE SaveChunk
  <2>1. Current \in Names
    BY <1>3, CurrentType DEF SaveChunk, TInv, InHand, Working
  <2> QED BY <1>3, <2>1, SaveIsSave DEF Store!Next
<1>4. CASE Join
  BY <1>4, JoinIsGather DEF Store!Next
<1>5. CASE ConvertFails \/ JoinFails \/ Killed
  BY <1>5, ExitIsDrop DEF ConvertFails, JoinFails, Killed, Store!Next
<1>6. CASE FillRaw
  <2>1. Held = {joined} /\ Held' = {joined}
    BY <1>6 DEF FillRaw, Held
  <2> QED BY <1>6, <1>s, <2>1, SavedKept DEF FillRaw
<1>7. CASE OpenFinal
  <2>1. Held = {raw} /\ Held' = {raw}
    BY <1>7 DEF OpenFinal, Held
  <2>2. Store!Open
    BY <1>7, <2>1, SavedKept DEF OpenFinal, Store!Open
  <2> QED BY <2>2 DEF Store!Next
<1>8. CASE FillFinal
  <2>1. Held = {joined} /\ Held' = {} /\ final = Torn /\ final' = joined
    BY <1>8 DEF FillFinal, Exit, Held, Opened
  <2>2. Store!Publish
    BY <1>8, <2>1, SavedKept DEF FillFinal, Store!Publish
  <2> QED BY <2>2 DEF Store!Next
<1>9. ASSUME NEW c \in Names, Unlink(c) PROVE Store!Remove(c)
  <2>1. chunks' = Take(chunks, c) /\ UNCHANGED <<final, pc, joined, raw>>
    BY <1>9 DEF Unlink
  <2>2. DOMAIN chunks' = DOMAIN chunks \ {c}
        /\ \A d \in DOMAIN chunks' : chunks'[d] = chunks[d]
    BY <2>1 DEF Take
  <2>3. Saved' = [d \in DOMAIN Saved \ {c} |-> Saved[d]]
    BY <2>2 DEF Saved
  <2>4. Held' = Held
    BY <2>1 DEF Held
  <2> QED BY <2>1, <2>3, <2>4 DEF Store!Remove
<1>11. CASE ClearProgress \/ ClearBreaksOff
  <2>1. UNCHANGED <<chunks, final>> /\ Held' = Held
    BY <1>11 DEF ClearProgress, ClearBreaksOff, disk, Held
  <2> QED BY <1>s, <2>1, SavedKept
<1>10. CASE UNCHANGED vars
  <2>1. UNCHANGED <<chunks, final>> /\ Held' = Held
    BY <1>10 DEF vars, disk, Held
  <2> QED BY <1>s, <2>1, SavedKept
<1> QED BY <1>s, <1>1, <1>2, <1>3, <1>4, <1>5, <1>6, <1>7, <1>8, <1>9, <1>10, <1>11
        DEF Next, Step, Clearing, Store!Next

(* What a folder shows its readers, over any history of launches, kills,    *)
(* failures and clearings, for any requests and chunk sizes, is a chunk     *)
(* store: every step of a run or of the GUI is one step of the store, or    *)
(* leaves it alone (transcribe.py:278-285, 295-337).                        *)
THEOREM FolderIsAStore == Spec => ImplementsStore
<1>1. Init => Opened
  BY DEF Init, Opened
<1> QED BY <1>1, TInvInit, TInvStep, OpenedStep, StoreInit, StoreStep, PTL
        DEF Spec, ImplementsStore, Store!Spec
==============================================================================
