CONSTANTS
  Pdfs = {"book.pdf", "uploads/book.pdf", "other.pdf"}
  Stem <- MCStem
  Length <- MCLength
  Typed = FALSE
  HandRuns = FALSE
SPECIFICATION FoldersSpec
INVARIANT ResumesOnlyItsOwn
