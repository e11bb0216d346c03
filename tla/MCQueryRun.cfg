SPECIFICATION FairQuerySpec
CONSTANTS
  script = script
  single = single
  explain = explain
  Requests = {script, single, explain}
  Unnamed = {explain}
  Length <- MCLength
  Conns = {c, d, e}
  None = None
PROPERTIES
  KillsAreOwed
  CancelEndsTheRequest
