CONSTANTS
  PageCount = 2
  BlankHalves <- MCBlankHalves
  Requests <- MCRequests
  Sizes = {2}
  Resumes = {TRUE}
  FigureModes = {FALSE}
  HasFigure <- MCNoFigure
  ByHand = {TRUE}
  NoFile = NoFile
  Torn = Torn
SPECIFICATION FairSpec
PROPERTY BookGetsFinished
