---------------------------- MODULE OverlayTable -----------------------------
(***************************************************************************)
(* The table bt.queue keeps in queue.json -- per document the skip flag    *)
(* and the number of fruitless attempts -- and the updates made to it.     *)
(* The cached analysis is left out of the entries: an update that stores   *)
(* one writes the table back with the same flags and counts.               *)
(***************************************************************************)
EXTENDS Naturals

CONSTANT Docs   \* documents, by key

Entry == [skip : BOOLEAN, attempts : Nat]
Table == [Docs -> Entry]

(* A document without an entry is not skipped and has no attempts.          *)
NewTable == [d \in Docs |-> [skip |-> FALSE, attempts |-> 0]]

SetSkip   == [kind : {"skip"}, doc : Docs, value : BOOLEAN]
Record    == [kind : {"record"}, doc : Docs, value : BOOLEAN]
Analysis  == [kind : {"analysis"}, doc : Docs, value : {TRUE}]
Updates   == SetSkip \cup Record \cup Analysis

(* The slip of taking one attempt back after progress, not all of them.     *)
TakenBack(u, e) ==
  CASE u.kind = "skip"     -> [e EXCEPT !.skip = u.value]
    [] u.kind = "record"   -> [e EXCEPT !.attempts =
                                  IF u.value THEN @ - 1 ELSE @ + 1]
    [] u.kind = "analysis" -> e

NewEntry(u, e) ==
  CASE u.kind = "skip"     -> [e EXCEPT !.skip = u.value]
    [] u.kind = "record"   -> [e EXCEPT !.attempts =
                                  IF u.value THEN 0 ELSE e.attempts + 1]
    [] u.kind = "analysis" -> e

Applied(u, t) == [t EXCEPT ![u.doc] = NewEntry(u, t[u.doc])]
==============================================================================
