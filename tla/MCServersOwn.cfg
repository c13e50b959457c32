CONSTANTS
  Pids = {p1, p2}
  Kinds = {"llama", "other server"}
  Llama = "llama"
  None = None
  OwnServer = TRUE
  PkillFails = FALSE
  Size = 2
  Attempts = 2
  Revisions = 2
  Etag <- MCEtag
  ErrorPages = FALSE
  NoFile = NoFile
SPECIFICATION Spec
INVARIANT OwnServerSurvives
