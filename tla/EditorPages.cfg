CONSTANTS
  x = x
  y = y
  Lines <- LinesOfFiles
  Endings = {"LF", "CRLF"}
  Longest = 5
  Context = 1
  Most = 20
  NoFile = NoFile
  NoLines = NoLines
  NoJob = NoJob
  Refused = Refused
  MaxJobs = 2
  Questions = {"all", "problems"}
  Kinds <- LogKinds
  Capacity = 2
  FirstLimit = 1
  NextLimit = 1
  Held = 2
  NoCursor = NoCursor
  Unanswered = Unanswered
  MaxLines = 3
  NearRestart = 1
  MaxPolls = 2
  MaxRuns = 2
  Edits = {1, 2}
  None = None
  MaxKept = 3
  MaxReads = 2
  Required = {"lambda"}
  Optional = {"features"}
  Pending = Pending
  Lost = Lost
  MaxChanges = 1
  MaxRefreshes = 2
  MaxBuilds = 2
  MaxAsking = 2
SPECIFICATION PagesSpec
CHECK_DEADLOCK FALSE
INVARIANT LeastChanged
INVARIANT HunksTell
INVARIANT EndSaidOnce
INVARIANT OwnerOneQuestion
INVARIANT OwnerSeesAll
 
INVARIANT NothingBroughtBack
PROPERTY SpinnerStopsPolled
PROPERTY FollowersCatchUp
PROPERTY SavesBuildOn
PROPERTY FeatureCatchesUp
PROPERTY ShownCatchesUp
PROPERTY WorkingEnds
