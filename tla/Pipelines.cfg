SPECIFICATION Spec
CONSTANTS
  Lanes = {l1, l2}
  Twins = {t1, t2}
  i1 = i1
  i2 = i2
  NoFile = NoFile
  BadFile = BadFile
  Nights = {n1, n2}
  NULL = NULL
  MaxItems = 1
  MaxRecords = 1
  Operations = {"o1", "o2"}
  MaxToken = 4
  MaxAttempt = 3
  Owners = {"w1", "w2"}
  Compositions = {"c"}
  Destinations = {"d"}
  Attempts = {"a1", "a2"}
  Evidence = {"e"}
  Receipts = {"r"}
  MaxFence = 3
  MaxSends = 3
  DayLength = 3
  DueHour = 1
  MaxHour = 4
  MaxMails = 2
  Workers = {"w1", "w2"}
  Claims = 3
  MaxSequence = 2
  Checkpoints = {"c1", "c2"}
  Failures = {"x"}
  Letters = {"q"}
  Repos = {"r"}
  Issues = {"i"}
  CommentPage = 1
INVARIANTS BaselineWasBriefed RetryIsRecognised TwiceOnlyIfMisjudged TwoMessagesNeedAWrongProof
  SecondMailIsExplained  TrackingIsOnce ResultIsTheLastClaims
SYMMETRY Symmetry
CHECK_DEADLOCK FALSE
