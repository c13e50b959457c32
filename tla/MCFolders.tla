------------------------------ MODULE MCFolders ------------------------------
(* One PDF in the project root and one of the same name in uploads/.        *)
EXTENDS Folders

MCStem == [pdf \in Pdfs |-> IF pdf = "other.pdf" THEN "other" ELSE "book"]
MCLength == [pdf \in Pdfs |-> 2]
==============================================================================
