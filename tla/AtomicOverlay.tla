---------------------------- MODULE AtomicOverlay ----------------------------
(***************************************************************************)
(* What callers of bt.queue rely on: an update changes the field it names  *)
(* of the document it names, at once, and nothing else.                    *)
(***************************************************************************)
EXTENDS OverlayTable

VARIABLE store

Init == store = NewTable

Update(u) == store' = Applied(u, store)

Next == \E u \in Updates : Update(u)

Spec == Init /\ [][Next]_store
==============================================================================
