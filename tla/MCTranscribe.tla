---------------------------- MODULE MCTranscribe -----------------------------
(* Small documents and folders for TLC. *)
EXTENDS Transcribe

(* Spreads, the first with a blank left half: two of them make three book   *)
(* pages, three of them five.                                               *)
MCBlankHalves == {<<0, "left">>}
Split == [split |-> TRUE, range |-> AllPages]
MCRequests == {Split}

(* Book pages 0 and 2 carry a figure: page 0 of both chunks, to marker.     *)
MCHasFigure == {<<0, "right">>, <<1, "right">>}
MCNoFigure == {}
==============================================================================
