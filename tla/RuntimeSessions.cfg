SPECIFICATION Spec
CONSTANTS
  None = None
  w1 = w1
  w2 = w2
  r1 = r1
  r2 = r2
  Workflow = {w1, w2}
  Resource = {r1, r2}
  Definitions <- Shared
  SourceOf <- Mixed
  WriteAtStart = {w1}
  AllowWrites = TRUE
  Ambiguous = TRUE
  Deleting = {w1, w2}
  MaxReads = 1
  MaxWrites = 1
INVARIANTS
  PendingBacked
  PollersMatch
  BelievedIsWritten
CHECK_DEADLOCK FALSE
