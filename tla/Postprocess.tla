----------------------------- MODULE Postprocess -----------------------------
(***************************************************************************)
(* Cleaning marker's Markdown (bt.postprocess.process): running heads are  *)
(* dropped, words hyphenated at a line end rejoined, soft line breaks      *)
(* joined, and the footnote markers that open a line made definitions.     *)
(* A text is a sequence of lines, and a line is what the code can tell of  *)
(* it:                                                                     *)
(*   mark    a page separator            blank                             *)
(*   prose   hyphen, hard: text that ends openly, in a hyphen, in the two  *)
(*           spaces of a hard break      note    a footnote marker opens it *)
(*   item    opens a list item or quote  number  a list item with a number  *)
(*   whole   heading, row, figure        formula a line of math, $$ and all *)
(*   fence   opens or closes code        display opens or closes math       *)
(*   label, title: short lines that may recur on page after page            *)
(***************************************************************************)
EXTENDS Integers, Sequences, SequencesExt, FiniteSets

CONSTANTS HeadMinPages, HeadFrequency, HeadScanLines   \* the frequency in %

Labels == {"label", "title"}
OpensWithWord == {"prose", "hyphen", "hard", "number"} \cup Labels
Fences == {"fence", "display"}   \* each closes with its own kind

(* The elements of s that are in S, in their order. *)
WithItem(kept, x, S) == IF x \in S THEN Append(kept, x) ELSE kept
Kept(s, S) ==
  LET kept[n \in 0..Len(s)] ==
        IF n = 0 THEN <<>> ELSE WithItem(kept[n - 1], s[n], S)
  IN kept[Len(s)]

(* split_pages: marker's own numbers; what comes before the first separator *)
(* is another page 0.                                                       *)
LinesFrom(text, i) ==
  LET ends == {m \in DOMAIN text : text[m] = "mark" /\ m > i}
                \cup {Len(text) + 1}
      end == CHOOSE e \in ends : \A f \in ends : e <= f
  IN [k \in 1..(end - i - 1) |-> i + k]
IsBlank(text, lines) == \A k \in DOMAIN lines : text[lines[k]] = "blank"
SplitPages(text) ==
  LET starts == Kept([i \in DOMAIN text |-> i], {i \in DOMAIN text : text[i] = "mark"})
      preamble == LinesFrom(text, 0)
      marked == [n \in DOMAIN starts |->
                   [number |-> n - 1, lines |-> LinesFrom(text, starts[n])]]
  IN IF IsBlank(text, preamble) /\ starts # <<>> THEN marked
     ELSE <<[number |-> 0, lines |-> preamble]>> \o marked

(* The first and the last lines of a page that say anything.                *)
EdgeLines(text, lines) ==
  LET said == Kept(lines, {i \in DOMAIN text : text[i] # "blank"})
  IN {said[k] : k \in {k \in DOMAIN said :
        k <= HeadScanLines \/ k > Len(said) - HeadScanLines}}
EdgeForms(text, page) ==
  {text[i] : i \in EdgeLines(text, page.lines)} \cap Labels

Threshold(n) ==
  LET share == (n * HeadFrequency) \div 100
  IN IF share > HeadMinPages THEN share ELSE HeadMinPages

(* A form that enough pages have at an edge; each page counts once.  (The   *)
(* slip: each line counts.)                                                 *)
CountedByLine(text, pages) ==
  {form \in Labels :
     Cardinality({i \in DOMAIN text : text[i] = form /\
       \E n \in DOMAIN pages : i \in EdgeLines(text, pages[n].lines)})
       >= Threshold(Len(pages))}
RunningHeads(text, pages) ==
  IF Len(pages) < HeadMinPages THEN {}
  ELSE {form \in Labels :
          Cardinality({n \in DOMAIN pages : form \in EdgeForms(text, pages[n])})
            >= Threshold(Len(pages))}

(* A page loses its heads wherever they stand, if one stands at an edge: it *)
(* is the string that is looked up.                                         *)
StripRunningHeads(text, page, heads) ==
  Kept(page.lines,
       {i \in DOMAIN text : text[i] \notin heads \cap EdgeForms(text, page)})
------------------------------------------------------------------------------
(* A line of output: the lines it is made of, how it opens and how it ends. *)
Plain(text, i) == [of |-> <<i>>, opens |-> text[i], ends |-> text[i]]
Joined(a, b) == [of |-> a.of \o b.of, opens |-> a.opens, ends |-> b.ends]
LastSaid(out) ==
  LET said == {k \in DOMAIN out : out[k].opens # "blank"}
  IN IF said = {} THEN 0 ELSE CHOOSE k \in said : \A l \in said : l <= k

(* The pattern skips any white space between the hyphen and the next word,  *)
(* blank lines included.                                                    *)
WithLine(text, out, i) ==
  LET k == LastSaid(out)
  IN IF text[i] \in OpensWithWord /\ k > 0 /\ out[k].ends = "hyphen"
     THEN Append(SubSeq(out, 1, k - 1), Joined(out[k], Plain(text, i)))
     ELSE Append(out, Plain(text, i))
JoinHyphens(text, lines) ==
  LET out[n \in 0..Len(lines)] ==
        IF n = 0 THEN <<>> ELSE WithLine(text, out[n - 1], lines[n])
  IN out[Len(lines)]

AcceptsAnything(line) ==   \* the slip: hyphens and hard breaks are not seen
  line.opens \notin {"whole", "formula"} \cup Fences
AcceptsContinuation(line) ==
  /\ line.ends \notin {"hyphen", "hard"}
  /\ line.opens \notin {"whole", "formula"} \cup Fences
StartsBlock(line, notes) ==
  line.opens \in {"item", "number", "whole"} \/ (notes /\ line.opens = "note")

(* The line is stripped as it is appended: its own hard break is gone.      *)
Continued(a, b) ==
  [Joined(a, b) EXCEPT !.ends = IF @ = "hard" THEN "prose" ELSE @]

ReflowLine(st, line) ==
  LET kept == [st EXCEPT !.out = Append(@, line)]
      outside == st.fence = "none"
  IN CASE ~outside ->
            [kept EXCEPT !.fence = IF line.opens = @ THEN "none" ELSE @]
       [] outside /\ line.opens \in Fences ->
            [kept EXCEPT !.fence = line.opens, !.start = FALSE]
       [] outside /\ line.opens = "blank" -> [kept EXCEPT !.start = TRUE]
       [] outside /\ line.opens \notin Fences \cup {"blank"} /\ st.start ->
            [kept EXCEPT !.start = FALSE, !.notes = line.opens = "note"]
       [] OTHER ->
            IF ~StartsBlock(line, st.notes) /\ AcceptsContinuation(Last(st.out))
            THEN [st EXCEPT !.out[Len(st.out)] = Continued(@, line)]
            ELSE kept
ReflowStart == [out |-> <<>>, fence |-> "none", start |-> TRUE, notes |-> FALSE]
ReflowLines(lines) ==
  LET st[n \in 0..Len(lines)] ==
        IF n = 0 THEN ReflowStart ELSE ReflowLine(st[n - 1], lines[n])
  IN st[Len(lines)].out

(* A marker that opens a line of output becomes a definition.               *)
Definitions(lines) ==
  {lines[k].of[1] : k \in {k \in DOMAIN lines : lines[k].opens = "note"}}

FootnotesFirst(text, page, heads) ==   \* the slip: namespaced, then reflowed
  LET joined == JoinHyphens(text, StripRunningHeads(text, page, heads))
  IN [number |-> page.number, lines |-> ReflowLines(joined),
      defined |-> Definitions(joined)]
CleanPage(text, page, heads) ==
  LET joined == JoinHyphens(text, StripRunningHeads(text, page, heads))
      lines == ReflowLines(joined)
  IN [number |-> page.number, lines |-> lines, defined |-> Definitions(lines)]

(* Pages left with nothing lose their anchor, too.                          *)
Process(text) ==
  LET pages == SplitPages(text)
      heads == RunningHeads(text, pages)
      clean == [n \in DOMAIN pages |-> CleanPage(text, pages[n], heads)]
  IN Kept(clean, {clean[n] : n \in {n \in DOMAIN clean :
                    \E k \in DOMAIN clean[n].lines : clean[n].lines[k].opens # "blank"}})
==============================================================================
