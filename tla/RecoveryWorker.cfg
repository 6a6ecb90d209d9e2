CONSTANTS
  NULL = NULL
  REJECTED = REJECTED
  Workers = {w1, w2}
  Jobs = {j1}
  Payload <- MCPayload
  Sources = {"chatgpt", "linear", "claude"}
  Specs <- MCSpecs
  Required = {"chatgpt"}
  Authorized = {"chatgpt"}
  Observed <- MCObserved
  Unusable <- MCUnusable
  Skew = 1
  MaxAge = 1
  MaxPages = 2
  BatchSize = 1
  MailConfigured = TRUE
  MaxAttempts = 2
  MaxNow = 2
SPECIFICATION Spec
INVARIANTS SucceededIsResolved MarksAreCovered SucceededIsReported
PROPERTY MarksGrow
SYMMETRY WorkerSymmetry
