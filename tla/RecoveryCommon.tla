---------------------------- MODULE RecoveryCommon ----------------------------
(***************************************************************************)
(* What the artifact-recovery tools share, tools/artifact_recovery/        *)
(* common.py.  REJECTED stands for a raised RecoveryError.  Digests are    *)
(* modelled by the values they are made of.                                *)
(***************************************************************************)
EXTENDS Integers, Sequences, FiniteSets

CONSTANTS NULL, REJECTED

ASSUME CommonAssumption == NULL # REJECTED

\* expect_string, parse_timestamp, normalize_sha and their like: whether all fields
\* of a record have the type, the shape and the length their names ask for.
Legible(record) == record.fields

\* validate_public_safety: of all strings in a record, the worst.
validate_public_safety(record) == record.content \notin {"credential", "personal", "unbounded"}

\* normalize_artifact: a known kind, with paths below the artifact's directory.
normalize_artifact(artifact) ==
    IF \/ artifact = NULL
       \/ /\ artifact.kind \in {"archive", "file", "git_bundle", "draft", "directory"}
          /\ artifact.paths \subseteq {"relative"}
    THEN artifact ELSE REJECTED

\* validate_github_url: a URL is [repo, kind, value] and lies in one repository.
Within(url, repo) == url = NULL \/ url.repo = repo

\* ledger_key
LedgerKey(item) == <<item.origin, item.id, item.repo>>

AtLeastZero(n) == IF n > 0 THEN n ELSE 0
=============================================================================
