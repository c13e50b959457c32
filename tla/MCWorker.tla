------------------------------ MODULE MCWorker -------------------------------
(* Two documents for TLC. *)
EXTENDS Worker, TLC

MCTotal == (1 :> 2) @@ (2 :> 1)

(* The first document has spreads with a blank half: the survey, which      *)
(* counts two pages to a spread, expects a chunk more than there will be.   *)
MCSurvey == (1 :> 3) @@ (2 :> 1)
==============================================================================
