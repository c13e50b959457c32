CONSTANTS
  PageCount = 2
  BlankHalves <- MCBlankHalves
  Requests <- MCRequests
  Sizes = {1, 2}
  Resumes = {TRUE}
  FigureModes = {FALSE}
  HasFigure <- MCNoFigure
  ByHand = {TRUE}
  NoFile = NoFile
  Torn = Torn
SPECIFICATION Spec
INVARIANT NoPageTwice
