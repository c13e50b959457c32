---------------------------- MODULE MCTranslation ----------------------------
(* Books and endpoints of the translation runs.                             *)
EXTENDS Translation

(* raw.md and the finished book do not agree on the pages: cleaning has     *)
(* dropped the empty one and one that had running heads only.               *)
MCDocument == [s \in {"raw", "final"} |->
                 IF s = "final" THEN <<3>> ELSE <<1, Blank, 2>>]
MCDoubling == [k \in 0..MaxRetries |-> k + 1]
==============================================================================
