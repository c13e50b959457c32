CONSTANTS
  Docs = {1, 2}
  Total <- MCSurvey
  Need <- MCTotal
  MAX_ATTEMPTS = 1
  StallPolls = 1
  Events = {"foreign", "sigterm", "skip", "reuse", "upload"}
  NoJob = NoJob
  NoDoc = NoDoc
SPECIFICATION FairSpec
PROPERTY QueueMovesOn
