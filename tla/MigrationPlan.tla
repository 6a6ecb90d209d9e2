---------------------------- MODULE MigrationPlan ----------------------------
(***************************************************************************)
(* What scripts/publish_zpkg_v023_migration.py demands of its plan before   *)
(* it asks GitHub anything (load_plan, load_reconciled), and of the world    *)
(* outside the repositories it changes: the owners, the directories the new  *)
(* manifests name, the manifests that somebody has reconciled already.       *)
(* Before that, how scripts/build_zpkg_v023_migration_plan.py makes the plan *)
(* from an inventory: a scan of the manifests on the default branches, the   *)
(* repositories, three tables of reviewed exceptions, and the downloaded     *)
(* blobs.  What rewriting does to a blob is part of the inventory.           *)
(* A blob, a path and a repository are values that are equal or not;        *)
(* NoValue stands for one that is malformed or leaves the plan's directory.  *)
(***************************************************************************)
EXTENDS Integers, FiniteSets, Sequences
LOCAL INSTANCE SequencesExt

NoValue == "none"

Members(s) == {s[i] : i \in DOMAIN s}
NoTwice(s, key(_)) == \A i, j \in DOMAIN s : key(s[i]) = key(s[j]) => i = j
PathOf(item) == <<item.repository, item.path>>

WellFormed(item) ==
    /\ item.repository # NoValue /\ item.path # NoValue
    /\ item.source_blob # NoValue /\ item.current_blob # NoValue

\* A manifest that somebody else brought to the new format, validated by the
\* same revision of the interface; none is listed twice.
load_reconciled(plan) ==
    /\ \A i \in DOMAIN plan.reconciled :
         /\ WellFormed(plan.reconciled[i])
         /\ plan.reconciled[i].size > 0 /\ plan.reconciled[i].sha256 # NoValue
         /\ plan.reconciled[i].validated_by = plan.interface
    /\ NoTwice(plan.reconciled, PathOf)

\* The file of the proposal hashes to the blob that the plan and its table of
\* proposals name for the source.
MutationHolds(plan, mu) ==
    /\ WellFormed(mu) /\ mu.phase \in {1, 2}
    /\ \E p \in Members(plan.proposals) : p.source_blob = mu.source_blob /\ p.proposed_blob = mu.current_blob
    /\ mu.file = mu.current_blob

Planned(plan) == {mu.repository : mu \in Members(plan.mutations)}
Identity(mu) == <<mu.repository, mu.fields, mu.phase>>

load_plan(plan) ==
    /\ plan.contract
    /\ NoTwice(plan.proposals, LAMBDA p : p.source_blob)
    /\ \A mu \in Members(plan.mutations) : MutationHolds(plan, mu)
    /\ NoTwice(plan.mutations, PathOf)
    /\ \A mu, nu \in Members(plan.mutations) :
         mu.repository = nu.repository => Identity(mu) = Identity(nu)
    /\ plan.repositories = Cardinality(Planned(plan))
    /\ plan.instances = Len(plan.mutations)
    /\ load_reconciled(plan)
    /\ {PathOf(i) : i \in Members(plan.reconciled)} \intersect
          {PathOf(mu) : mu \in Members(plan.mutations)} = {}

-----------------------------------------------------------------------------
(* The inventory: scan, repositories, the tables immutable, reconciled and  *)
(* overrides of [repository, path, snapshot, ...], the downloads that are    *)
(* what they should be, rewrite: the proposal for a blob, and zed: the blobs *)
(* the released binary accepts.                                             *)

NoPlan == [contract |-> FALSE]

load_instances(scan) ==
    /\ scan # <<>>
    /\ \A i \in Members(scan) : NoValue \notin {i.repository, i.path, i.blob}
    /\ NoTwice(scan, PathOf)

load_repositories(repositories) ==
    /\ \A r \in Members(repositories) : r.name # NoValue
    /\ NoTwice(repositories, LAMBDA r : r.name)

Entry(table, i) == {t \in table : PathOf(t) = PathOf(i)}
Immutable(inv, i) == Entry(inv.immutable, i) # {}
AlreadyReconciled(inv, i) == \E t \in Entry(inv.reconciled, i) : t.snapshot = i.blob

\* The blob that is rewritten: the scanned one, unless a newer one was reviewed.
SourceBlob(inv, i) ==
    IF Entry(inv.overrides, i) = {} THEN i.blob ELSE (CHOOSE t \in Entry(inv.overrides, i) : TRUE).current

\* The text that the recipes make of a blob; NoValue for one that names no package.
transform(inv, blob) == inv.rewrite[blob]
validate_with_zed(inv, blob) == blob \in inv.zed
phase_for(i) ==
    IF \/ i.repository = ".github" \/ i.place \in {"blueprint", "seed"}
       \/ i.repository = "canonical.cloud" /\ i.path # ".zpkg.toml"
    THEN 1 ELSE 2

\* A manifest of the scan that does not end the builder with a PlanError.
Plannable(inv, i) ==
    IF Immutable(inv, i) THEN \A t \in Entry(inv.immutable, i) : t.snapshot = i.blob
    ELSE /\ \E r \in Members(inv.repositories) :
              r.name = i.repository /\ ~r.archived /\ r.branch = i.branch
         /\ IF AlreadyReconciled(inv, i)
            THEN \A t \in Entry(inv.reconciled, i) :
                   t.current \in inv.downloads /\ validate_with_zed(inv, t.current)
            ELSE /\ \A t \in Entry(inv.overrides, i) : t.snapshot = i.blob
                 /\ SourceBlob(inv, i) \in inv.downloads
                 /\ transform(inv, SourceBlob(inv, i)) \in {SourceBlob(inv, i)} \union inv.zed

Changes(inv, i) ==
    /\ ~Immutable(inv, i) /\ ~AlreadyReconciled(inv, i)
    /\ transform(inv, SourceBlob(inv, i)) # SourceBlob(inv, i)

Mutation(inv, i) ==
    LET proposed == transform(inv, SourceBlob(inv, i))
    IN  [repository |-> i.repository, path |-> i.path, source_blob |-> SourceBlob(inv, i),
         current_blob |-> proposed, file |-> proposed, phase |-> phase_for(i),
         fields |-> i.branch, targets |-> inv.targets]
ReconciledEntry(inv, i) ==
    LET t == CHOOSE t \in Entry(inv.reconciled, i) : TRUE
    IN  [repository |-> i.repository, path |-> i.path, source_blob |-> t.snapshot,
         current_blob |-> t.current, size |-> t.size, sha256 |-> t.sha256,
         validated_by |-> inv.interface]

\* One proposal for a source blob, whichever manifest came first.
Proposals(inv) ==
    LET blobs == {SourceBlob(inv, i) : i \in {i \in Members(inv.scan) : Changes(inv, i)}}
    IN  SetToSeq({[source_blob |-> b, proposed_blob |-> transform(inv, b)] : b \in blobs})

\* Mutations of phase 1 first; the scan is sorted otherwise.
MutationsOf(inv, phase) ==
    LET changed == SelectSeq(inv.scan, LAMBDA i : Changes(inv, i) /\ phase_for(i) = phase)
    IN  [n \in DOMAIN changed |-> Mutation(inv, changed[n])]

build_plan(inv) ==
    LET mutations == MutationsOf(inv, 1) \o MutationsOf(inv, 2)
        settled == SelectSeq(inv.scan, LAMBDA i : ~Immutable(inv, i) /\ AlreadyReconciled(inv, i))
        plan == [contract |-> TRUE, interface |-> inv.interface, proposals |-> Proposals(inv),
                 mutations |-> mutations,
                 reconciled |-> [n \in DOMAIN settled |-> ReconciledEntry(inv, settled[n])],
                 repositories |-> Cardinality({mu.repository : mu \in Members(mutations)}),
                 instances |-> Len(mutations)]
    IN  IF /\ load_instances(inv.scan) /\ load_repositories(inv.repositories)
           /\ \A i \in Members(inv.scan) : Plannable(inv, i)
           /\ \A mu, nu \in Members(mutations) : mu.repository = nu.repository => mu.phase = nu.phase
        THEN plan ELSE NoPlan
-----------------------------------------------------------------------------
PhaseOf(plan, r) == (CHOOSE mu \in Members(plan.mutations) : mu.repository = r).phase

\* A namespace is the actor's own account or an organization it administers.
validate_owner(owner) ==
    CASE owner.type = "User" -> owner.login = owner.actor
      [] owner.type = "Organization" -> owner.membership = "active" /\ owner.role = "admin"
      [] OTHER -> FALSE

\* Every target of the new manifest is a directory of the repository.
target_dirs_exist(mu, dirs) == mu.targets \subseteq dirs

\* The blob on main is the reconciled one, of the size and the digest recorded.
verify_reconciled_blob(item, blob) ==
    /\ item.current_blob = blob.sha
    /\ item.size = blob.size /\ item.sha256 = blob.sha256
=============================================================================
