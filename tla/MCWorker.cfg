CONSTANTS
  Docs = {1, 2}
  Total <- MCTotal
  Need <- MCTotal
  MAX_ATTEMPTS = 2
  StallPolls = 0
  Events = {"foreign", "sigterm", "clear", "stopjob"}
  NoJob = NoJob
  NoDoc = NoDoc
SPECIFICATION Spec
INVARIANTS TypeOK StalledOnlyAfterDryRuns
