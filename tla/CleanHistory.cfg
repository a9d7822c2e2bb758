SPECIFICATION Spec
CONSTANTS
  Path = {src, data, env, keep}
  Content = {e, s, w}
  Absent = Absent
  None = None
  Placeholder = keep
  Empty = e
  Untrackable = {data}
  Review = {env}
  Doubtful = {}
  Secret = {s}
  Suspect = {w}
  Covered = {data}
  BaseIgnored = {}
  Payload = {src}
  Barred = {data}
  InitialFiles = {{data, env}}
  MaxEdits = 2
  MaxCommits = 2
  MaxScripts = 2
INVARIANTS
  Recoverable
  PublishedIsClean
  UntrackedForGood
CHECK_DEADLOCK FALSE
