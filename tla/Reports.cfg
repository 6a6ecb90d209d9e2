SPECIFICATION Spec
CONSTANTS
    NULL = NULL
    REJECTED = REJECTED
    Targets = {t1}
    Keys = {k1, k2}
    Workflows = {f}
    Compensations = {"none"}
    MutationPolicies = {p1, p2}
    MaxSkew = 0
    MaxSnapshotAge = 1
    MaxLease = 1
    MaxTries = 2
    MaxIntents = 2
    MaxVersion = 1
    MaxMutationTime = 2
    Subjects = {s1}
    Owners = {o1, o2}
    Revisions = {r1, r2}
    EvidenceDigests = {d1, d2}
    Risks = {"low"}
    MaxEvidence = 2
    MaxEvidenceTime = 3
    PubRuns = {u1, u2}
INVARIANTS KeyAcceptedOnce ExpiredStaysExpired CycleIsFound GitlinksResolve
    MergedWasReviewed AcceptedCanBeActedOn 
SYMMETRY Symmetry
CHECK_DEADLOCK FALSE
