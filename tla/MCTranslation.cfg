CONSTANTS
  Sources = {"raw", "final"}
  Document <- MCDocument
  Blank = Blank
  Targets = {"English"}
  Sizes = {1, 2}
  Resumes = {TRUE, FALSE}
  Interval = 1
  MaxRetries = 1
  RetryAfters = {3}
  Longest = 2
  Doubling <- MCDoubling
SPECIFICATION TranslationSpec
INVARIANTS TypeOK BookIsFaithful SavedMeansTranslated NothingPaidTwice
  AStopIsReported FatalMeansSilent
PROPERTIES Paced EveryRunEnds
