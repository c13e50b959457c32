-------------------------------- MODULE Pages --------------------------------
(***************************************************************************)
(* What a run of bt.run reads, and how it cuts it into chunks: stage 1     *)
(* (split_document, or the source handed over as it is) and the chunk      *)
(* bounds of bt.transcribe.  Source pages are numbered from 0, like in the *)
(* code.  A half is below the ink threshold or it is not: that is all that *)
(* finding the gutter decides here.                                        *)
(***************************************************************************)
EXTENDS Integers, Sequences, SequencesExt

CONSTANTS
  PageCount,    \* pages of the source PDF
  BlankHalves   \* the halves <<page, side>> that hold (almost) no ink

ASSUME PagesAssumption == PageCount \in Nat

(* The whole document, as a page range. *)
AllPages == [k \in 1..PageCount |-> k - 1]

(* A spread gives one output page per half that has ink; a fully blank      *)
(* spread gives none.                                                       *)
InkedHalves(p) == SelectSeq(<< <<p, "left">>, <<p, "right">> >>,
                            LAMBDA h : h \notin BlankHalves)

SplitDocument(range) ==
  FlattenSeq([k \in 1..Len(range) |-> InkedHalves(range[k])])

(* A request is what the command line asks for: [split, range].             *)
(* OcrPdf(r) is the PDF handed to marker.  With --no-split that is the      *)
(* source PDF as it is: the range only gives the NUMBER of pages to read.   *)
OcrPdf(r) ==
  IF r.split THEN SplitDocument(r.range)
             ELSE [k \in 1..PageCount |-> <<k - 1, "page">>]

TotalPages(r) == IF r.split THEN Len(OcrPdf(r)) ELSE Len(r.range)

(* Chunks are named by their first and last page, from 0.                   *)
Bounds(total, size) ==
  {<<s, IF s + size <= total THEN s + size - 1 ELSE total - 1>> :
      s \in {i \in 0..(total - 1) : i % size = 0}}

PagesOf(c) == c[1]..c[2]

(* The Markdown of chunk c: page i of the chunk is page i of the PDF that   *)
(* marker was given.                                                        *)
ChunkText(r, c) == [i \in PagesOf(c) |-> OcrPdf(r)[i + 1]]
==============================================================================
