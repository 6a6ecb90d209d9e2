SPECIFICATION FairSpec
CONSTANTS
  j1 = j1
  h1 = h1
  h2 = h2
  NULL = NULL
  Job = {j1}
  Payload <- OnePush
  Repo <- OneRepo
  MaxAttempts = 3
  Handler = {h1, h2}
  WorkerOf <- SharedWorker
  MaxRetries = 1
  Routed = {"DEN-1"}
  CanClose = TRUE
  PageSize = 1
  MaxChatter = 1
INVARIANTS  DuplicateOnlyWhenMissed
PROPERTIES EveryPushJobEnds
CHECK_DEADLOCK FALSE
