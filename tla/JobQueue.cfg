SPECIFICATION FairSpec
CONSTANTS
  j1 = j1
  j2 = j2
  w1 = w1
  c1 = c1
  c2 = c2
  NULL = NULL
  Job = {j1, j2}
  Client = {c1, c2}
  Worker = {w1}
  Request <- LiveRequests
  Filter <- LiveFilters
  LeaseSeconds = {1}
  RetryDelay = {1}
  MaxRetryDelay = 1
  SlackTask = "slack_agent_run"
  ClaimWindow = 1
  OrgConcurrency <- NoLimits
  DefaultOrgConcurrency = 1
  RepoConcurrency <- OneRepoCap
  DefaultRepoConcurrency = 2

INVARIANTS CapsRespected ExclusiveLease
PROPERTIES EveryJobFinishes ImplementsLifecycle
