------------------------------ MODULE MCInputs ------------------------------
(* Alphabets for the texts: paragraphs with every kind of line, longer ones *)
(* with notes and code, and books of up to five pages with running heads.   *)
EXTENDS Inputs

MCAlphabets == {
  [kinds |-> {}, longest |-> 0],
  [kinds |-> {"blank", "prose", "hyphen", "hard", "note", "item", "number",
              "whole", "formula", "fence", "display"}, longest |-> 5],
  [kinds |-> {"blank", "prose", "hyphen", "hard", "note", "fence"}, longest |-> 6],
  [kinds |-> {"mark", "blank", "prose", "note"}, longest |-> 6],
  [kinds |-> {"mark", "label", "prose"}, longest |-> 8]}
==============================================================================
