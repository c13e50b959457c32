CONSTANTS
  PageCount = 2
  BlankHalves <- MCBlankHalves
  Requests <- MCRequests
  Sizes = {2}
  Resumes = {TRUE, FALSE}
  FigureModes = {TRUE}
  HasFigure <- MCHasFigure
  ByHand = {TRUE, FALSE}
  NoFile = NoFile
  Torn = Torn
SPECIFICATION Spec
INVARIANTS TypeOK ChunksWhole LinksResolve BookIsTheRequest
PROPERTIES NothingRedone ImplementsStore
