------------------------------- MODULE Warmup -------------------------------
(***************************************************************************)
(* Fetching the model weights ahead (bt.warmup: warm_gguf and its          *)
(* _curl_into_hf_cache) into the cache the model servers are started from. *)
(* One file, in blocks; its publisher may replace it; a fetch may be       *)
(* killed at any point and is resumed by the next.                         *)
(***************************************************************************)
EXTENDS Integers, FiniteSets

CONSTANTS
  Size,        \* blocks in the file
  Attempts,    \* how often one fetch calls curl
  Revisions,   \* commits of its repository: 1 .. Revisions
  Etag,        \* commit -> the file's etag, the same if it did not change
  ErrorPages,  \* may an error answer be written to the file? (curl has no -f)
  NoFile       \* the length of a file that is not there

ASSUME WarmupAssumption ==
  /\ Size \in Nat \ {0} /\ Attempts \in Nat /\ Revisions \in Nat \ {0}
  /\ DOMAIN Etag = 1..Revisions /\ ErrorPages \in BOOLEAN

VARIABLES
  latest,     \* the commit the repository is at
  blobs,      \* etag -> what blobs/<etag> holds
  partials,   \* etag -> what <etag>.partial holds
  snapshots,  \* commits in which the file is linked
  warm        \* the fetch in progress: [pc, commit, tries]

wvars == <<latest, blobs, partials, snapshots, warm>>

Etags == {Etag[c] : c \in 1..Revisions}
Absent == [size |-> NoFile, clean |-> TRUE]
Have(file) == IF file = Absent THEN 0 ELSE file.size
Off == [pc |-> "off", commit |-> 0, tries |-> 0]
Id == Etag[warm.commit]

WarmInit ==
  /\ latest = 1
  /\ blobs = [e \in Etags |-> Absent] /\ partials = [e \in Etags |-> Absent]
  /\ snapshots = {} /\ warm = Off

Publish ==
  /\ latest < Revisions /\ latest' = latest + 1
  /\ UNCHANGED <<blobs, partials, snapshots, warm>>

(* With a token the hub client is tried first.  The metadata are asked for  *)
(* once, at the beginning; without them it is left to the hub client, and a *)
(* blob of the right size is the file.                                      *)
Authed ==
  /\ warm.pc = "off"
  /\ warm' = [pc |-> "authed", commit |-> latest, tries |-> 0]
  /\ UNCHANGED <<latest, blobs, partials, snapshots>>

Look ==
  /\ warm.pc = "off"
  /\ \E pc \in {IF Have(blobs[Etag[latest]]) = Size THEN "link" ELSE "fetch",
                "hub"} :
       warm' = [pc |-> pc, commit |-> latest, tries |-> 0]
  /\ UNCHANGED <<latest, blobs, partials, snapshots>>

More == warm.tries < Attempts /\ Have(partials[Id]) < Size

(* curl appends what it gets before the connection gives out, perhaps       *)
(* nothing; a resumed one refuses what is not a range, so only a first one  *)
(* may write an error page.                                                 *)
Curl ==
  /\ warm.pc = "fetch" /\ More
  /\ \/ \E n \in 0..(Size - Have(partials[Id])) :
          partials' = [partials EXCEPT ![Id] =
            [size |-> Have(@) + n, clean |-> @.clean]]
     \/ /\ ErrorPages /\ Have(partials[Id]) = 0
        /\ partials' = [partials EXCEPT ![Id] = [size |-> 1, clean |-> FALSE]]
  /\ warm' = [warm EXCEPT !.tries = @ + 1]
  /\ UNCHANGED <<latest, blobs, snapshots>>

(* Whole by its size, or handed to the hub client.                          *)
EnoughTries == warm.tries = Attempts   \* the slip
Whole == Have(partials[Id]) = Size
Fetched ==
  /\ warm.pc = "fetch" /\ ~More
  /\ warm' = [warm EXCEPT !.pc = IF Whole THEN "rename" ELSE "hub"]
  /\ UNCHANGED <<latest, blobs, partials, snapshots>>

Rename ==
  /\ warm.pc = "rename"
  /\ blobs' = [blobs EXCEPT ![Id] = partials[Id]]
  /\ partials' = [partials EXCEPT ![Id] = Absent]
  /\ warm' = [warm EXCEPT !.pc = "link"]
  /\ UNCHANGED <<latest, snapshots>>

Link ==
  /\ warm.pc = "link"
  /\ snapshots' = snapshots \cup {warm.commit}
  /\ warm' = Off
  /\ UNCHANGED <<latest, blobs, partials>>

(* hf_hub_download, which keeps the cache by itself: it fetches the file    *)
(* whole, or raises; then curl is tried, or the warm-up ends.               *)
HubClient(works) ==
  /\ warm.pc \in {"authed", "hub"}
  /\ IF works
     THEN /\ blobs' = [blobs EXCEPT ![Id] = [size |-> Size, clean |-> TRUE]]
          /\ snapshots' = snapshots \cup {warm.commit}
     ELSE UNCHANGED <<blobs, snapshots>>
  /\ warm' = Off
  /\ UNCHANGED <<latest, partials>>

WarmKilled ==
  /\ warm # Off /\ warm' = Off
  /\ UNCHANGED <<latest, blobs, partials, snapshots>>

WarmNext ==
  \/ Publish \/ Authed \/ Look \/ Curl \/ Fetched \/ Rename \/ Link \/ WarmKilled
  \/ \E works \in BOOLEAN : HubClient(works)

Cached == latest \in snapshots
------------------------------------------------------------------------------
(* What a snapshot links is the whole file and nothing else, over any       *)
(* history of stalled connections, killed fetches, resumed ones and new     *)
(* revisions: a model server reads it without looking (warmup.py:105-145).  *)
LinkedMeansWhole ==
  \A c \in snapshots : blobs[Etag[c]] = [size |-> Size, clean |-> TRUE]
==============================================================================
