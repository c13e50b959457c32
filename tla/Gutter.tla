------------------------------- MODULE Gutter -------------------------------
(***************************************************************************)
(* Where a spread is cut (bt.split_spreads.find_gutter): the widest run of *)
(* blank columns in the central band, a binding shadow of at most Fold     *)
(* columns not counting against it.  Columns are numbered from 0; of their *)
(* ink only whether it is below the floor is kept.                         *)
(***************************************************************************)
EXTENDS Integers, Sequences, SequencesExt

CONSTANT Fold   \* FOLD_MAX_WIDTH in columns, at least 1

(* Runs of blank columns, from left to right, as <<start, end>>, the end    *)
(* not included: a column more.                                             *)
WithColumn(runs, i, isBlank) ==
  CASE ~isBlank -> runs
    [] isBlank /\ runs # <<>> /\ Last(runs)[2] = i ->
         [runs EXCEPT ![Len(runs)] = <<@[1], i + 1>>]
    [] OTHER -> Append(runs, <<i, i + 1>>)
BlankRuns(blank) ==
  LET runs[n \in 0..Len(blank)] ==
        IF n = 0 THEN <<>> ELSE WithColumn(runs[n - 1], n - 1, blank[n])
  IN runs[Len(blank)]

BridgedFromStart(a, b) == b[1] - a[1] <= Fold   \* the slip: ends mixed up
Bridged(a, b) == b[1] - a[2] <= Fold
WithRun(merged, run) ==
  IF merged # <<>> /\ Bridged(Last(merged), run)
  THEN [merged EXCEPT ![Len(merged)] = <<@[1], run[2]>>]
  ELSE Append(merged, run)
MergeFolds(runs) ==
  LET merged[n \in 0..Len(runs)] ==
        IF n = 0 THEN <<>> ELSE WithRun(merged[n - 1], runs[n])
  IN merged[Len(runs)]

(* The first of the widest; <<0, 0>> when no column is blank, and the       *)
(* caller cuts in the middle.                                               *)
Width(run) == run[2] - run[1]
Wider(best, run) == IF Width(run) > Width(best) THEN run ELSE best
Widest(merged) ==
  LET best[n \in 0..Len(merged)] ==
        IF n = 0 THEN <<0, 0>> ELSE Wider(best[n - 1], merged[n])
  IN best[Len(merged)]
FindGutter(blank) == Widest(MergeFolds(BlankRuns(blank)))
==============================================================================
