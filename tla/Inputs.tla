------------------------------- MODULE Inputs -------------------------------
(***************************************************************************)
(* Every short raw text and every narrow spread, and what the code makes   *)
(* of them, against what its comments promise.  A text grows by a line, a  *)
(* spread by a column of its central band.                                 *)
(***************************************************************************)
EXTENDS Postprocess, Gutter

CONSTANTS
  Alphabets,   \* [kinds, longest]: the lines a text may have, and how many;
               \* no kinds at all: a spread
  Columns      \* how wide the central band may be

ASSUME InputsAssumption ==
  /\ Columns \in Nat /\ Fold \in Nat \ {0}
  /\ HeadMinPages \in Nat /\ HeadFrequency \in 0..100 /\ HeadScanLines \in Nat
  /\ \A a \in Alphabets : a.longest \in Nat

VARIABLES
  alphabet,   \* the lines this text may have
  text,       \* raw.md
  blank       \* the columns of the band: is there (almost) no ink?

vars == <<alphabet, text, blank>>

Init == alphabet \in Alphabets /\ text = <<>> /\ blank = <<>>

NextLine ==
  /\ Len(text) < alphabet.longest
  /\ \E kind \in alphabet.kinds : text' = Append(text, kind)
  /\ UNCHANGED <<alphabet, blank>>

NextColumn ==
  /\ Len(blank) < Columns /\ alphabet.kinds = {}
  /\ \E b \in BOOLEAN : blank' = Append(blank, b)
  /\ UNCHANGED <<alphabet, text>>

Next == NextLine \/ NextColumn
Spec == Init /\ [][Next]_vars
------------------------------------------------------------------------------
Pages == SplitPages(text)
Cleaned == [n \in DOMAIN Pages |->
              CleanPage(text, Pages[n], RunningHeads(text, Pages))]

(* Lines that say anything; and the lines a page of output is made of.      *)
Said(lines) == {i \in lines : text[i] # "blank"}
Of(page) == UNION {ToSet(page.lines[k].of) : k \in DOMAIN page.lines}

(* What stands at the edge of too few pages to be a running head.           *)
PagesHeaded(form) ==
  {n \in DOMAIN Pages :
     \E i \in EdgeLines(text, Pages[n].lines) : text[i] = form}
MayBeHead(form) ==
  /\ form \in Labels
  /\ Cardinality(PagesHeaded(form)) >= HeadMinPages
  /\ 100 * (Cardinality(PagesHeaded(form)) + 1) > HeadFrequency * Len(Pages)

(* Every line of the text is on a page, and of every page all lines come    *)
(* out under its number, in their order, once; but for a short line that    *)
(* many different pages have at an edge, this page among them.  Of such a   *)
(* page every line that reads the same is dropped, in mid-page, too, which  *)
(* the comment at :213-214 calls body text (postprocess.py:96-109, 187-219, *)
(* 379).                                                                    *)
OnlyHeadsAreDropped ==
  /\ \A i \in DOMAIN text : text[i] \notin {"mark", "blank"} =>
       \E n \in DOMAIN Pages : i \in ToSet(Pages[n].lines)
  /\ \A n \in DOMAIN Pages :
       LET lines == Said(ToSet(Pages[n].lines))
           page == Cleaned[n]
           out == page.lines
           kept == Said(Of(page))
           done == Process(text)
       IN /\ kept \subseteq lines
          /\ \A i \in lines \ kept : MayBeHead(text[i]) /\ n \in PagesHeaded(text[i])
          /\ \A k, l \in DOMAIN out : \A x \in DOMAIN out[k].of, y \in DOMAIN out[l].of :
               k < l \/ (k = l /\ x < y) => out[k].of[x] < out[l].of[y]
          /\ kept # {} =>
               \E m \in DOMAIN done : done[m] = [page EXCEPT !.number = Pages[n].number]

(* The fence that is open behind a line, and after k lines of the output; is *)
(* line k in code or display math; the line that opens its paragraph; does  *)
(* its newline stay.                                                        *)
After(open, kind) ==
  IF open # "none" THEN IF kind = open THEN "none" ELSE open
  ELSE IF kind \in Fences THEN kind ELSE "none"
OpenFence(out) ==
  LET open[k \in 0..Len(out)] ==
        IF k = 0 THEN "none" ELSE After(open[k - 1], out[k].opens)
  IN open
InCode(out, k) == out[k].opens \in Fences \/ OpenFence(out)[k - 1] # "none"
Opener(out, k) ==
  LET starts == {j \in 1..k : j = 1 \/ (out[j - 1].opens = "blank"
                                          /\ ~InCode(out, j - 1))}
  IN out[CHOOSE j \in starts : \A l \in starts : l <= j].opens
EndsLine(line) ==
  \/ line.opens \in {"whole", "formula"} \cup Fences
  \/ text[Last(line.of)] \in {"hyphen", "hard"}

(* Soft line breaks go, and structure stays: nothing is appended to a       *)
(* heading, a figure, a line of math or code, nothing that opens a block is *)
(* appended to anything, and no two lines of a paragraph are left apart     *)
(* without such a reason, whatever fences, blank lines and hyphens lie      *)
(* about.  Less than the docstring says, where the code does less: behind a *)
(* hyphen a numbered item is taken for the rest of the word, in code and    *)
(* after blank lines, too (postprocess.py:124); a line of math is appended  *)
(* to prose, though block math is to be left verbatim (:139, 284); and a    *)
(* hard break stays only at the end of a line that was not itself appended  *)
(* to one (:271-272, 320) (postprocess.py:269-324).                         *)
ParagraphsAreLines ==
  \A n \in DOMAIN Cleaned :
    LET out == Cleaned[n].lines
    IN \A k \in DOMAIN out :
         /\ \A j \in 2..Len(out[k].of) :
              LET before == text[out[k].of[j - 1]]
                  added == text[out[k].of[j]]
              IN /\ added \notin {"item", "whole", "blank"} \cup Fences
                 /\ before = "hyphen" => added \in OpensWithWord
                 /\ before # "hyphen" =>
                      /\ added # "number"
                      /\ ~InCode(out, k) /\ out[k].opens \notin {"whole", "formula"}
                      /\ before = "hard" => \E l \in 2..(j - 1) :
                           text[out[k].of[l - 1]] # "hyphen"
         /\ k > 1 /\ ~InCode(out, k) /\ out[k - 1].opens # "blank"
               /\ out[k].opens \notin {"blank", "item", "number", "whole", "note"} =>
              EndsLine(out[k - 1])

(* A footnote marker becomes a definition if its paragraph is one of notes. *)
(* Of other paragraphs, a reference that was wrapped to the start of a line *)
(* stays one if the line before could take it, which needs the lines        *)
(* reflowed before the notes are named.  If it could not, because of a hard *)
(* break, a hyphen or a heading, the reference becomes a definition, and so *)
(* does a marker in or right after code: the docstring joins the one back   *)
(* and leaves the other verbatim (postprocess.py:281-324, 362-366).         *)
OnlyNotesAreDefined ==
  \A n \in DOMAIN Cleaned :
    LET out == Cleaned[n].lines
    IN /\ \A i \in Cleaned[n].defined : \E k \in DOMAIN out :
            /\ out[k].of[1] = i
            /\ \/ InCode(out, k) \/ Opener(out, k) \in {"note"} \cup Fences
               \/ EndsLine(out[k - 1])
       /\ \A k \in DOMAIN out :
            Opener(out, k) = "note" /\ ~InCode(out, k) =>
              \A j \in 2..Len(out[k].of) : text[out[k].of[j]] # "note"

(* Intervals that begin and end on a blank column and in which no dark      *)
(* strip is wider than a fold.                                              *)
Bands ==
  {b \in (0..Len(blank)) \X (1..Len(blank)) :
     /\ b[1] < b[2] /\ blank[b[1] + 1] /\ blank[b[2]]
     /\ \A i \in b[1]..(b[2] - 1) : \E j \in i..(i + Fold) :
          j < Len(blank) /\ blank[j + 1]}

(* The cut goes through the widest band and, of several, the first; without *)
(* a blank column there is no gutter (split_spreads.py:78-123).             *)
GutterIsWidest ==
  LET cut == FindGutter(blank)
  IN IF Bands = {} THEN cut = <<0, 0>>
     ELSE /\ cut \in Bands
          /\ \A b \in Bands : Width(b) < Width(cut)
                 \/ (Width(b) = Width(cut) /\ cut[1] <= b[1])
==============================================================================
