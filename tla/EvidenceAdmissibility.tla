------------------------ MODULE EvidenceAdmissibility ------------------------
(***************************************************************************)
(* Whether a piece of evidence may still be relied on:                     *)
(* tools/artifact_recovery/evidence_admissibility.py.                      *)
(*                                                                         *)
(* Evidence is captured for a revision of a subject, under a policy and    *)
(* with the digests of what it depends on.  All of these are digests of    *)
(* contents, so they may change to something new and may change back.      *)
(* Around the report is the world it is made for; `expired` remembers      *)
(* which evidence a report has called expired, and under which policy.     *)
(***************************************************************************)
EXTENDS RecoveryCommon

CONSTANTS Subjects, Owners, Revisions, Digests, Risks,
          Policies,     \* policies, each a function risk -> [stale, expires]
          MaxSkew, MaxTime, MaxEvidence

VARIABLES time, policy, subject, evidence, expired

vars == <<time, policy, subject, evidence, expired>>

\* _normalize_policy: the version is the digest of the limits, so a policy is
\* its limits.
ValidPolicy(p) ==
    \A risk \in Risks : p[risk].stale >= 1 /\ p[risk].stale < p[risk].expires

\* _normalize_evidence_record and _normalize_dependencies: one digest a kind.
ValidEvidence(e) == e.risk \in Risks /\ e.captured_at <= time + MaxSkew
-----------------------------------------------------------------------------
(* _derive_assessment                                                      *)

age_seconds(e) == AtLeastZero(time - e.captured_at)

\* A subject that is not in the report has no revision.
ReasonCodes(e) ==
    LET s == subject[e.subject]
        when(condition, reason) == IF condition THEN {reason} ELSE {}
    IN  IF s.revision = NULL THEN {"subject_unresolved"}
        ELSE when(e.revision # s.revision, "subject_revision_changed")
             \union when(e.policy # policy, "policy_version_changed")
             \union when(e.dependency # NULL /\ s.dependency = NULL, "dependency_unresolved")
             \union when(e.dependency # NULL /\ s.dependency # NULL
                           /\ e.dependency # s.dependency, "dependency_changed")

ExactSeconds(e, limit) == age_seconds(e) # limit
WithinSeconds(e, limit) == age_seconds(e) <= limit

derive_assessment(e) ==
    LET codes == ReasonCodes(e)
        ttl == policy[e.risk]
    IN  IF "subject_unresolved" \in codes THEN "unverifiable"
        ELSE IF "subject_revision_changed" \in codes THEN "superseded"
        ELSE IF codes \intersect {"policy_version_changed", "dependency_changed"} # {}
        THEN "invalidated"
        ELSE IF "dependency_unresolved" \in codes THEN "unverifiable"
        ELSE IF ~WithinSeconds(e, ttl.expires) THEN "expired"
        ELSE IF ~WithinSeconds(e, ttl.stale) THEN "stale"
        ELSE "current"
-----------------------------------------------------------------------------
(* _build_recertification_queue and the report.                            *)

STATE_SEVERITY == [current |-> 0, stale |-> 1, expired |-> 2, unverifiable |-> 3,
                   superseded |-> 4, invalidated |-> 5]

\* The subject's revision is part of the fingerprint; the kind is left out,
\* as all evidence here is of one kind.
Fingerprint(e) == <<e.subject, subject[e.subject].revision>>

Due == {e \in evidence : derive_assessment(e) # "current"}
DueTogether(f) == {e \in Due : Fingerprint(e) = f}
ConflictingOwners ==
    \E e, f \in Due : Fingerprint(e) = Fingerprint(f) /\ e.owner # f.owner

recertification_queue ==
    {[fingerprint |-> f, owner |-> (CHOOSE e \in DueTogether(f) : TRUE).owner,
      evidence |-> DueTogether(f),
      highest_state |-> LET states == {derive_assessment(e) : e \in DueTogether(f)}
                        IN  CHOOSE s \in states :
                              \A t \in states : STATE_SEVERITY[t] <= STATE_SEVERITY[s]]
     : f \in {Fingerprint(e) : e \in Due}}

status ==
    LET states == {derive_assessment(e) : e \in evidence}
    IN  IF states \intersect {"superseded", "invalidated", "unverifiable", "expired"} # {}
        THEN "blocked"
        ELSE IF "stale" \in states THEN "partial" ELSE "complete"

build_evidence_admissibility_report ==
    IF \/ ~ValidPolicy(policy)
       \/ \E e \in evidence : ~ValidEvidence(e)
       \/ \E e, f \in evidence : e # f /\ e.identity = f.identity
       \/ ConflictingOwners
    THEN REJECTED
    ELSE [status |-> status, queue |-> recertification_queue]
-----------------------------------------------------------------------------
(* The world.                                                              *)

Init ==
    /\ time = 0
    /\ policy \in Policies
    /\ subject \in [Subjects -> [revision : Revisions, dependency : Digests]]
    /\ evidence = {}
    /\ expired = {}

\* What reports have called expired, of the evidence there is; a rejected report
\* calls nothing anything.
Noted ==
    expired' = {x \in expired : x[1] \in evidence'} \union
        IF build_evidence_admissibility_report' = REJECTED THEN {}
        ELSE {<<e, policy'>> : e \in {x \in evidence' : derive_assessment(x)' = "expired"}}

\* Evidence is captured for what its subject is, and replaces what it certifies
\* anew.
Capture(s, owner, risk) ==
    /\ subject[s].revision # NULL
    /\ \E i \in 1 .. MaxEvidence :
         evidence' = {e \in evidence : e.identity # i} \union
             {[identity |-> i, subject |-> s, revision |-> subject[s].revision,
               dependency |-> subject[s].dependency, policy |-> policy,
               captured_at |-> time, risk |-> risk, owner |-> owner]}
    /\ UNCHANGED <<time, policy, subject>>
    /\ Noted

\* The subject or what it depends on changes, disappears or comes back.
Change(s) ==
    /\ subject' \in {[subject EXCEPT ![s].revision = r] :
                        r \in (Revisions \union {NULL}) \ {subject[s].revision}}
               \union {[subject EXCEPT ![s].dependency = d] :
                        d \in (Digests \union {NULL}) \ {subject[s].dependency}}
    /\ UNCHANGED <<time, policy, evidence>>
    /\ Noted

ChangePolicy ==
    /\ policy' \in Policies \ {policy}
    /\ UNCHANGED <<time, subject, evidence>>
    /\ Noted

Tick ==
    /\ time < MaxTime
    /\ time' = time + 1
    /\ UNCHANGED <<policy, subject, evidence>>
    /\ Noted

Next ==
    \/ \E s \in Subjects, o \in Owners, risk \in Risks : Capture(s, o, risk)
    \/ \E s \in Subjects : Change(s)
    \/ ChangePolicy \/ Tick

Spec == Init /\ [][Next]_vars
-----------------------------------------------------------------------------
(* What a report has called expired is never admissible again under that   *)
(* policy, whatever the subject, its dependencies and the policy go        *)
(* through in between: only capturing it anew helps.                       *)
ExpiredStaysExpired ==
    \A x \in expired :
        x[2] = policy
            => derive_assessment(x[1]) \notin {"current", "stale"}

(* What has been called expired under a policy is older than that policy's *)
(* limit, and age only grows.                                              *)
EvidenceInv ==
    /\ time \in Nat
    /\ policy \in Policies
    /\ \A e \in evidence : e.captured_at \in Nat /\ e.risk \in Risks
    /\ \A x \in expired :
         /\ x[1] \in evidence /\ x[2] \in Policies
         /\ ~WithinSeconds(x[1], x[2][x[1].risk].expires)
=============================================================================
