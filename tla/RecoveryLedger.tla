---------------------------- MODULE RecoveryLedger ----------------------------
(***************************************************************************)
(* Observations of intended artifacts, their classification, and the       *)
(* durable ledger and command-line queue made of them:                     *)
(* tools/artifact_recovery/observation.py and ledger.py; and the coverage  *)
(* receipts of the sources a run read, source_coverage.py.                 *)
(*                                                                         *)
(* An item is a record of the fields the classification reads.  Names,     *)
(* URLs and digests are model values or numbers; NULL is a missing one.    *)
(* local_branches holds the checked-out branch too.  Instants are seconds. *)
(***************************************************************************)
EXTENDS RecoveryCommon, SequencesExt

CONSTANTS Sources,      \* SUPPORTED_SOURCES
          Skew          \* policy.max_clock_skew_seconds

ASSUME CoverageAssumption == Skew \in Nat

-----------------------------------------------------------------------------
(* normalize_observation_item: every URL of an item must lie in the item's *)
(* own repository and name the object it stands for.                       *)

ConsistentItem(item) ==
    /\ Legible(item) /\ validate_public_safety(item)
    /\ normalize_artifact(item.artifact) # REJECTED
    /\ item.origin \in {"chatgpt", "claude", "file_library", "conversation", "task"}
    /\ item.kind \in {"code", "documentation", "none"}
    /\ Within(item.repo_url, item.repo)
    /\ \A b \in item.remote_branches : b.name # NULL /\ b.sha # NULL
    /\ \A c \in item.commits :
         /\ c.sha # NULL /\ Within(c.url, item.repo)
         /\ c.url.kind = "commit" /\ c.url.value = c.sha
    /\ \A p \in item.pulls :
         /\ p.number >= 1 /\ Within(p.url, item.repo)
         /\ p.url.kind = "pull" /\ p.url.value = p.number
    /\ Within(item.claimed_repo, item.repo)
    /\ item.claimed_pull # NULL =>
         /\ Within(item.claimed_pull, item.repo)
         /\ item.claimed_pull.kind = "pull" /\ item.claimed_pull.value >= 1

\* The defaults that depend on other fields.
normalize_observation_item(item) ==
    IF ~ConsistentItem(item) THEN REJECTED
    ELSE [item EXCEPT
            !.expected = IF @ = NULL THEN item.kind # "none" ELSE @,
            !.head = IF @ = NULL /\ item.artifact # NULL
                     THEN item.artifact.commit ELSE @]

\* validate_observation: items in the order of their keys, one per key.
Accepted(items) ==
    LET normalized(n) == normalize_observation_item(items[n])
    IN  /\ \A n \in DOMAIN items : normalized(n) # REJECTED
        /\ \A m, n \in DOMAIN items :
              LedgerKey(normalized(m)) = LedgerKey(normalized(n)) => m = n

validate_observation(items) ==
    IF Accepted(items) THEN [n \in DOMAIN items |-> normalize_observation_item(items[n])]
    ELSE REJECTED
-----------------------------------------------------------------------------
(* classify                                                                *)

RemoteBranches(item) == {b.name : b \in item.remote_branches}
RemoteCommits(item) == {c.sha : c \in item.commits} \union {b.sha : b \in item.remote_branches}

Finding(item) == [
    ownership_ambiguous |-> ~item.owned,
    remote_evidence_incomplete |-> ~item.collected,
    repository_missing |-> item.collected /\ ~item.repo_exists,
    artifact_only |-> item.artifact # NULL /\ ~item.git,
    repository_has_no_remote |-> item.git /\ ~item.remote_present,
    changes_uncommitted |-> item.dirty,
    commits_unpushed |->
        item.head # NULL /\ item.repo_exists /\ item.head \notin RemoteCommits(item),
    branch_not_created |->
        /\ item.branch # NULL
        /\ item.branch \notin item.local_branches \union RemoteBranches(item),
    branch_not_published |->
        /\ item.branch # NULL
        /\ item.branch \in item.local_branches \ RemoteBranches(item),
    branch_without_pull_request |->
        /\ item.branch # NULL /\ item.branch \in RemoteBranches(item)
        /\ item.pull_required
        /\ \A p \in item.pulls : p.head # item.branch,
    claimed_repository_unverified |->
        /\ item.claimed_repo # NULL
        /\ ~item.repo_exists \/ item.claimed_repo # item.repo_url,
    claimed_commit_unverified |->
        item.claimed_commit # NULL /\ item.claimed_commit \notin RemoteCommits(item),
    claimed_branch_unverified |->
        item.claimed_branch # NULL /\ item.claimed_branch \notin RemoteBranches(item),
    claimed_pull_request_unverified |->
        /\ item.claimed_pull # NULL
        /\ item.claimed_pull.value \notin {p.number : p \in item.pulls}]

FailClosed == {"ownership_ambiguous", "remote_evidence_incomplete",
               "claimed_repository_unverified", "claimed_commit_unverified",
               "claimed_branch_unverified", "claimed_pull_request_unverified"}

LocalWork == {"artifact_only", "repository_has_no_remote", "changes_uncommitted",
              "commits_unpushed", "branch_not_created", "branch_not_published"}

Verdict(status, findings, action) ==
    [status |-> status, findings |-> findings, next_action |-> action]

classify(item) ==
    LET findings == {f \in DOMAIN Finding(item) : Finding(item)[f]}
    IN  IF item.kind = "none" \/ ~item.expected
        THEN Verdict("excluded", {}, "none")
        ELSE IF findings = {} THEN Verdict("complete", {}, "none")
        ELSE IF findings \intersect FailClosed # {}
        THEN Verdict("blocked", findings, "manual_review")
        ELSE IF "repository_missing" \in findings
        THEN IF item.may_create
             THEN Verdict("actionable", findings, "cli_create_repository")
             ELSE Verdict("blocked", findings, "manual_review")
        ELSE IF findings \intersect LocalWork # {}
        THEN Verdict("actionable", findings, "cli_recover_local_artifact")
        ELSE Verdict("actionable", findings, "open_draft_pull_request")
-----------------------------------------------------------------------------
(* reconcile: the first batch_size items replace their entries.            *)

EmptyLedger == <<>>

\* The digest of an observation is the observation; when an entry was seen
\* first and last is left out.
Entry(ledger, item) ==
    LET key == LedgerKey(item)
        known == key \in DOMAIN ledger
    IN  [attempts |-> IF ~known THEN 1
                      ELSE IF ledger[key].observation # item
                      THEN ledger[key].attempts + 1 ELSE ledger[key].attempts,
         observation |-> item,
         classification |-> classify(item)]

reconcile(items, ledger, batch_size) ==
    LET normalized == validate_observation(items)
        batch == SubSeq(normalized, 1, IF batch_size < Len(items)
                                       THEN batch_size ELSE Len(items))
        keys == {LedgerKey(item) : item \in ToSet(batch)}
    IN  IF ~Accepted(items) THEN REJECTED
        ELSE [k \in DOMAIN ledger \union keys |->
                IF k \in keys
                THEN Entry(ledger, CHOOSE i \in ToSet(batch) : LedgerKey(i) = k)
                ELSE ledger[k]]

\* The chunks of a long observation, one after the other (engine.run).
ReconcileAll(items, ledger, batch_size) ==
    LET last == (Len(items) + batch_size - 1) \div batch_size
        chunk(n) == SubSeq(items, (n - 1) * batch_size + 1,
                           IF n < last THEN n * batch_size ELSE Len(items))
        after[n \in 0 .. last] ==
            IF n = 0 THEN ledger ELSE reconcile(chunk(n), after[n - 1], batch_size)
    IN  IF \E n \in 1 .. last : ~Accepted(chunk(n)) THEN REJECTED ELSE after[last]

summarize_entries(ledger) ==
    LET with(status) == {k \in DOMAIN ledger : ledger[k].classification.status = status}
    IN  [complete |-> Cardinality(with("complete")),
         actionable |-> Cardinality(with("actionable")),
         blocked |-> Cardinality(with("blocked")),
         excluded |-> Cardinality(with("excluded"))]

\* build_cli_item: what the command-line worker is given.
CliQueue(ledger) ==
    {k \in DOMAIN ledger : ledger[k].classification.next_action \in
        {"cli_create_repository", "cli_recover_local_artifact"}}
-----------------------------------------------------------------------------
(* Source coverage: states, errors and the policy of a run.                *)

States == {"complete", "partial", "unavailable", "stale", "unauthorized",
           "not_configured", "excluded"}
BlockedStates == {"unauthorized", "not_configured", "excluded"}
PartialStates == {"partial", "unavailable", "stale"}
ErrorClasses == {"authorization", "availability", "clock_skew", "pagination",
                 "rate_limited", "stale_watermark", "validation"}

ValidPolicy(policy) ==
    /\ policy.required # {}
    /\ policy.required \intersect policy.optional = {}
    /\ policy.required \union policy.optional \subseteq Sources
-----------------------------------------------------------------------------
(* _normalize_receipt: the checks in the order of the code.                *)

ValidTimes(r, generated_at) ==
    /\ r.window_start <= r.window_end
    /\ r.captured_at <= generated_at + Skew
    /\ r.window_end <= r.captured_at + Skew
    /\ r.watermark_at <= r.captured_at + Skew
    /\ generated_at - r.watermark_at >= -Skew

age_seconds(r, generated_at) == AtLeastZero(generated_at - r.watermark_at)

ValidAge(r, generated_at) ==
    r.age_seconds \in {NULL, age_seconds(r, generated_at)}

ValidPagination(r) ==
    /\ ~r.started => r.pages_read = 0 /\ r.items_read = 0
    /\ r.complete => r.started /\ r.pages_read >= 1
    /\ r.items_read > 0 => r.pages_read >= 1

derived_state(r, generated_at) ==
    IF r.reported_state # "complete" THEN r.reported_state
    ELSE IF ~(r.started /\ r.complete /\ r.last_page_complete) THEN "partial"
    ELSE IF age_seconds(r, generated_at) > r.max_age_seconds THEN "stale"
    ELSE "complete"

derived_error_class(r, state) ==
    CASE state = "unauthorized" -> "authorization"
      [] state = "stale" -> "stale_watermark"
      [] state = "partial" /\ r.reported_state = "complete" -> "pagination"
      [] state = "partial" /\ r.error_class = NULL -> "pagination"
      [] state = "unavailable" /\ r.error_class = NULL -> "availability"
      [] OTHER -> r.error_class

\* The states that contradict what else the receipt says.
ValidState(r, state) ==
    /\ state = "unauthorized" => r.error_class \in {NULL, "authorization"}
    /\ state = "complete" => r.error_class = NULL
    /\ state \in {"not_configured", "excluded"} =>
          ~r.started /\ r.pages_read = 0 /\ r.items_read = 0 /\ r.error_class = NULL
    /\ r.state \in {NULL, state}

normalize_receipt(r, generated_at) ==
    LET state == derived_state(r, generated_at)
    IN  IF /\ ValidTimes(r, generated_at) /\ ValidAge(r, generated_at)
           /\ ValidPagination(r) /\ ValidState(r, state)
        THEN [r EXCEPT !.state = state,
                       !.age_seconds = age_seconds(r, generated_at),
                       !.error_class = derived_error_class(r, state)]
        ELSE REJECTED
-----------------------------------------------------------------------------
(* build_source_coverage_report, of one receipt per source.  The report's  *)
(* own digest is over the normalized receipts, so a report that carried    *)
(* one is accepted only if normalizing changed nothing of it.              *)

Summary(policy, receipts) ==
    LET in(states) == {s \in policy.required : receipts[s].state \in states}
        status == IF in(BlockedStates) # {} THEN "blocked"
                  ELSE IF in(PartialStates) # {} THEN "partial"
                  ELSE "complete"
    IN  [status |-> status,
         complete |-> status = "complete",
         complete_sources |-> {s \in DOMAIN receipts : receipts[s].state = "complete"},
         partial_sources |-> in(PartialStates),
         blocked_sources |-> in(BlockedStates)]

\* `given` is the summary and the receipts the report came with, or NULL.
build_source_coverage_report(policy, raw, generated_at, given) ==
    LET receipts == [s \in DOMAIN raw |-> normalize_receipt(raw[s], generated_at)]
    IN  IF \/ ~ValidPolicy(policy)
           \/ REJECTED \in {receipts[s] : s \in DOMAIN raw}
           \/ DOMAIN raw # policy.required \union policy.optional
           \/ given # NULL /\ (given.summary # Summary(policy, receipts)
                                \/ given.receipts # receipts)
        THEN REJECTED
        ELSE [policy |-> policy, receipts |-> receipts,
              summary |-> Summary(policy, receipts)]
=============================================================================
