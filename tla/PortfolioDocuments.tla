-------------------------- MODULE PortfolioDocuments --------------------------
(***************************************************************************)
(* Three documents people act on once a validator accepts them:            *)
(*   the remediation queue (scripts/portfolio_remediation_queue.py), whose  *)
(*   findings are then worked off in the order of their ranks,              *)
(*   the release manifest (scripts/portfolio_release_manifest.py), which    *)
(*   says go or not, and                                                    *)
(*   the receipt of clean consumers (scripts/zed_clean_consumer_receipt.py).*)
(* All checks run and the failing ones are collected.  `fields` stands for  *)
(* the types, lengths, patterns and vocabularies of a record's own fields.  *)
(***************************************************************************)
EXTENDS Integers, FiniteSets, Sequences, Relation, ContractChecks
LOCAL INSTANCE SequencesExt

CONSTANTS Documents,
          MaxBaselineAge,                     \* 31 days
          RequiredLaneKinds, DestructiveLaneKinds,
          PackageRoles, RequiredLanguages, RequiredOperations

VARIABLES document, dstep, faults, worked

pdvars == <<document, dstep, faults, worked>>

Actionable == {"draft_pr", "amend_existing"}
Noop == {"noop_completed", "noop_exempt", "noop_blocked", "noop_duplicate"}
DispositionTier(d) == CASE d \in Actionable -> 0 [] d = "noop_blocked" -> 1 [] OTHER -> 2

\* The field validators of the queue: _object, _text, _slug, _sha, _url and so on.
WellFormed(record) == record.fields

\* An issue or a pull request by its number; anything else is unreadable.
_github_anchor(a) == IF a.kind \in {"issues", "pull"} /\ a.number >= 1 THEN a ELSE NULL

\* No key that names a credential or a payload, however deep.
_walk_safe(q) == Tag("prohibited key", q.content # "plain")

\* The file is read, not too large, and one JSON object without a key given twice;
\* otherwise nothing is validated.
load(q) == q.file = "object"
-----------------------------------------------------------------------------
(* The remediation queue.                                                   *)

_validate_repository_record(r) ==
    Tag("repository", ~WellFormed(r))
    \union Tag("active without a head", r.lifecycle = "active" /\ (r.branch = NULL \/ r.head = NULL))

_score_composite(s) ==
    s.security * 25 + s.data_integrity * 20 + s.user_impact * 15 + s.dependency_centrality * 15
    + s.operational_risk * 15 + (100 - s.effort) * 5 + s.test_evidence * 5

_validate_remediation(remediation, disposition) ==
    Tag("remediation", ~WellFormed(remediation))
    \union Tag("actionable without branch, base or checks",
               disposition \in Actionable /\ (NULL \in {remediation.branch, remediation.base}
                                              \/ remediation.checks < 2))
    \union Tag("no-op with a branch",
               disposition \in Noop /\ {remediation.branch, remediation.base} # {NULL})
    \union Tag("not a dry run", ~remediation.dry_run \/ remediation.apply_authorized)

_validate_safety(safety) ==
    Tag("safety", ~safety.read_only \/ ~safety.dry_run \/ safety.authorized # {})

BaselineErrors(q) ==
    Tag("baseline from the future", q.observed > q.generated)
    \union Tag("baseline too old", q.generated - q.observed > MaxBaselineAge)
    \union Tag("repository count", q.count # Len(q.repositories))
    \union Tag("duplicate repository", Duplicated(Field(q.repositories, LAMBDA r : r.id)))
    \union Tag("no repositories", q.repositories = <<>>)
    \union Tag("no findings", q.findings = <<>>)

FindingErrors(q, f) ==
    Tag("finding", ~WellFormed(f) \/ NULL \in {f.id, f.rank, f.linear, _github_anchor(f.github), f.scores})
    \union Tag("unknown repository",
               f.repository \notin {q.repositories[i].id : i \in DOMAIN q.repositories})
    \union Tag("actionable though over",
               /\ f.disposition \in Actionable
               /\ f.state \in {"already_remediated", "intentionally_exempt", "superseded"})
    \union Tag("blocked by nothing", f.disposition = "noop_blocked" /\ f.state # "externally_blocked")
    \union Tag("duplicate_of", (f.disposition = "noop_duplicate") # (f.duplicate_of # NULL))
    \union _validate_remediation(f.remediation, f.disposition)

\* Of findings with one anchor, the later ones are duplicates.
AnchorErrors(fs, anchors) ==
    Tag("anchor is shared",
        \E i, j \in DOMAIN fs :
            /\ i < j /\ anchors[i] # NULL /\ anchors[i] = anchors[j]
            /\ NULL \notin {fs[i].id, fs[i].rank, fs[j].id, fs[j].rank}
            /\ fs[j].disposition # "noop_duplicate")

\* Dicts: the last finding with an id stays.
Ids(fs) == {fs[i].id : i \in DOMAIN fs} \ {NULL}
by_id(fs, id) ==
    fs[CHOOSE i \in DOMAIN fs : fs[i].id = id /\ \A j \in DOMAIN fs : fs[j].id = id => j <= i]

ranked(fs) ==
    LET readable(f) == NULL \notin {f.id, f.rank, f.scores}
        entry(f) == [rank |-> f.rank, key |-> <<DispositionTier(f.disposition), -f.severity,
                                                 -_score_composite(f.scores), f.id>>]
    IN  Field(SelectSeq(fs, readable), entry)

DependencyErrorsUnranked(fs) ==
    LET deps(id) == by_id(fs, id).depends_on
    IN  Tag("depends on itself", \E id \in Ids(fs) : id \in deps(id))
        \union Tag("depends on unknown", \E id \in Ids(fs) : deps(id) \ Ids(fs) # {})
DependencyErrors(fs) ==
    LET deps(id) == by_id(fs, id).depends_on
        rank(id) == by_id(fs, id).rank
    IN  Tag("depends on itself", \E id \in Ids(fs) : id \in deps(id))
        \union Tag("depends on unknown", \E id \in Ids(fs) : deps(id) \ Ids(fs) # {})
        \union Tag("dependency ranks later",
                   \E id \in Ids(fs) : \E dep \in (deps(id) \ {id}) \intersect Ids(fs) :
                       /\ NULL \notin {rank(id), rank(dep)}
                       /\ rank(dep) >= rank(id))

\* The search is the one of digest_provenance.py, stepped through in DigestProvenance;
\* it finds a cycle when there is one.
_find_cycles(fs) ==
    LET edges == [pair \in Ids(fs) \X Ids(fs) |-> pair[2] \in by_id(fs, pair[1]).depends_on]
        reaches == TransitiveClosure(edges, Ids(fs))
    IN  Tag("cycle", \E id \in Ids(fs) : reaches[id, id])

DuplicateErrors(fs) ==
    LET duplicates == {id \in Ids(fs) : by_id(fs, id).disposition = "noop_duplicate"}
        target(id) == by_id(fs, id).duplicate_of
    IN  Tag("duplicate of unknown", \E id \in duplicates : target(id) \notin Ids(fs))
        \union Tag("duplicate of a duplicate", \E id \in duplicates : target(id) \in duplicates)

validate_queue(q) ==
    LET fs == q.findings
    IN  Tag("queue", ~WellFormed(q)) \union _walk_safe(q) \union BaselineErrors(q)
        \union UNION {_validate_repository_record(q.repositories[i]) : i \in DOMAIN q.repositories}
        \union UNION {FindingErrors(q, fs[i]) : i \in DOMAIN fs}
        \union Tag("duplicate id", Duplicated(Field(fs, LAMBDA f : f.id)))
        \union AnchorErrors(fs, [i \in DOMAIN fs |-> fs[i].linear])
        \union AnchorErrors(fs, [i \in DOMAIN fs |-> _github_anchor(fs[i].github)])
        \union RankErrors(ranked(fs), Len(fs))
        \union DependencyErrors(fs) \union _find_cycles(fs) \union DuplicateErrors(fs)
        \union _validate_safety(q.safety)
-----------------------------------------------------------------------------
(* The release manifest.                                                    *)

\* The field validators of manifest and receipt.
Sound(record) == record.fields
NamesOf(records) == Field(records, LAMBDA r : r.id)

\* Keys of credentials; credentials, addresses and too much text among the values.
_walk(m) == Tag("prohibited content", m.content # "plain")

\* The text is searched for credentials and addresses before it is parsed.
load_text(m) == m.content \notin {"secret", "address"} /\ m.file = "object"

RepositoryErrors(m) ==
    Tag("repositories", m.repositories = <<>> \/ \E r \in ToSet(m.repositories) : ~Sound(r))
    \union Tag("duplicate repository", Duplicated(NamesOf(m.repositories))
                                       \/ Duplicated(Field(m.repositories, LAMBDA r : r.url)))
    \union Tag("verified without a head",
               \E r \in ToSet(m.repositories) : r.status = "verified" /\ r.head = NULL)
    \union Tag("observed count", m.observed # NULL /\ m.observed # Len(m.repositories))
    \union Tag("coverage counts", NULL \notin {m.expected, m.observed, m.unresolved}
                                  /\ m.observed + m.unresolved # m.expected)

LaneErrors(m) ==
    Tag("lanes", m.lanes = <<>> \/ \E l \in ToSet(m.lanes) : ~Sound(l))
    \union Tag("duplicate lane", Duplicated(NamesOf(m.lanes)))
    \union Tag("green lane", \E l \in ToSet(m.lanes) :
                  l.status = "green" /\ (NULL \in {l.head, l.evidence} \/ l.blockers # {}))

RepositoryIds(m) == ToSet(NamesOf(m.repositories))
LaneIds(m) == ToSet(NamesOf(m.lanes))
\* Of several lanes with one id the last stays.
lanes_by_id(m, id) == Last(SelectSeq(m.lanes, LAMBDA l : l.id = id))

CapabilityErrors(m) ==
    Tag("capabilities", m.capabilities = <<>> \/ \E c \in ToSet(m.capabilities) :
            ~Sound(c) \/ c.repositories = {} \/ c.lanes = {})
    \union Tag("duplicate capability", Duplicated(NamesOf(m.capabilities)))
    \union Tag("unknown repository",
               \E c \in ToSet(m.capabilities) : ~(c.repositories \subseteq RepositoryIds(m)))
    \union Tag("unknown lane", \E c \in ToSet(m.capabilities) : ~(c.lanes \subseteq LaneIds(m)))

ArtifactErrors(m) ==
    Tag("artifacts", m.artifacts = <<>> \/ \E a \in ToSet(m.artifacts) : ~Sound(a))
    \union Tag("duplicate artifact", Duplicated(NamesOf(m.artifacts)))
    \union Tag("unknown repository",
               \E a \in ToSet(m.artifacts) : a.repository \notin RepositoryIds(m))
    \union Tag("verified artifact", \E a \in ToSet(m.artifacts) :
                  a.status = "verified" /\ NULL \in {a.sha, a.provenance})

Certified(l) == l.status = "green" /\ l.independent

closure_reasons(m) ==
    Tag("catalog", ~m.catalog_complete)
    \union Tag("coverage", NULL \in {m.expected, m.observed, m.unresolved}
                           \/ m.unresolved # 0 \/ m.expected # m.observed)
    \union Tag("not releasable", \E r \in ToSet(m.repositories) :
                  r.status # "verified" \/ r.head = NULL \/ r.archived \/ r.superseded)
    \union Tag("capability", \E c \in ToSet(m.capabilities) :
                  \/ c.status # "verified" \/ c.maturity < 4 \/ c.blockers # {} \/ c.lanes = {}
                  \/ \E id \in c.lanes : id \notin LaneIds(m) \/ ~Certified(lanes_by_id(m, id)))
    \union Tag("artifact", \E a \in ToSet(m.artifacts) :
                  a.status # "verified" \/ NULL \in {a.sha, a.provenance})
    \union Tag("lane kind", \E kind \in RequiredLaneKinds :
                  ~\E l \in ToSet(m.lanes) : /\ l.kind = kind /\ Certified(l)
                                             /\ kind \in DestructiveLaneKinds => l.destructive)
    \union Tag("blockers", m.blockers # {})
    \union Tag("decision", m.decision # "go" \/ m.approved_by = {})

\* In planning a manifest may be short of closure, as long as it does not say go.
validate_manifest(m) ==
    Tag("manifest", ~Sound(m)) \union _walk(m) \union RepositoryErrors(m) \union LaneErrors(m)
    \union CapabilityErrors(m) \union ArtifactErrors(m)
    \union Tag("safety", ~m.safety.read_only \/ m.safety.authorized # {})
    \union Tag("go before closure", m.decision = "go" /\ closure_reasons(m) # {})
    \union Tag("closure", m.mode = "closure" /\ closure_reasons(m) # {})
-----------------------------------------------------------------------------
(* The receipt of clean consumers: packages and submodules that depend on   *)
(* each other, the consumers that were built with them, and the operations  *)
(* that were tried.                                                         *)

PackageErrors(r) ==
    LET roles == Field(r.packages, LAMBDA p : p.role)
    IN  Tag("packages", \E p \in ToSet(r.packages) : ~Sound(p))
        \union Tag("not one package a role", Len(r.packages) # Cardinality(PackageRoles)
                                             \/ Duplicated(roles) \/ ToSet(roles) # PackageRoles)
        \union Tag("duplicate package", Duplicated(NamesOf(r.packages)))
        \union Tag("verified package", \E p \in ToSet(r.packages) :
                      p.status = "verified" /\ NULL \in p.digests)

\* A repository or a directory on the path that is called infra or ends so.
_infra_like(s) == "infra" \in {s.repository} \union ToSet(s.path)
SafePath(path) == path # <<>> /\ ToSet(path) \intersect {"/", ".."} = {} /\ Head(path) # ".git"

SubmoduleErrors(r) ==
    Tag("submodules", \E s \in ToSet(r.submodules) : ~Sound(s) \/ ~SafePath(s.path) \/ _infra_like(s))
    \union Tag("duplicate submodule", Duplicated(NamesOf(r.submodules)))
    \union Tag("verified submodule", \E s \in ToSet(r.submodules) :
                  s.status = "verified" /\ s.commit = NULL)

PackageIds(r) == ToSet(NamesOf(r.packages))
SubmoduleIds(r) == ToSet(NamesOf(r.submodules))
Nodes(r) == PackageIds(r) \union SubmoduleIds(r)

\* Built and run from a clean checkout, without local paths or leaks from the monorepo.
Clean(c) == c.flags = {"clean_checkout", "compiled", "executed"} /\ c.evidence # NULL

ConsumerErrors(r) ==
    Tag("consumers", Len(r.consumers) < Cardinality(RequiredLanguages)
                     \/ \E c \in ToSet(r.consumers) : ~Sound(c))
    \union Tag("duplicate consumer", Duplicated(NamesOf(r.consumers)))
    \union Tag("part of the packages", \E c \in ToSet(r.consumers) : c.packages # PackageIds(r))
    \union Tag("unknown submodule",
               \E c \in ToSet(r.consumers) : ~(c.submodules \subseteq SubmoduleIds(r)))
    \union Tag("green consumer", \E c \in ToSet(r.consumers) : c.status = "green" /\ ~Clean(c))

OperationErrors(r) ==
    LET kinds == Field(r.operations, LAMBDA o : o.kind)
    IN  Tag("operations", \E o \in ToSet(r.operations) : ~Sound(o))
        \union Tag("duplicate operation", Duplicated(NamesOf(r.operations)))
        \union Tag("operation kinds", Duplicated(kinds) \/ ToSet(kinds) # RequiredOperations)
        \union Tag("green operation", \E o \in ToSet(r.operations) :
                      o.status = "green" /\ (o.evidence = NULL \/ o.blockers # {}))

\* An edge is <<from, to, kind>>; the search is again the one of digest_provenance.py.
Graph(r) == [pair \in Nodes(r) \X Nodes(r) |->
                \E e \in ToSet(r.edges) : pair = <<e[1], e[2]>> /\ e[1] # e[2]]
_cycles(r) == \E n \in Nodes(r) : TransitiveClosure(Graph(r), Nodes(r))[n, n]

EdgeErrors(r) ==
    Tag("unknown node", \E e \in ToSet(r.edges) : {e[1], e[2]} \ Nodes(r) # {})
    \union Tag("duplicate edge", Duplicated(r.edges))
    \union Tag("self-edge", \E e \in ToSet(r.edges) : e[1] = e[2])
    \union Tag("cycle", _cycles(r))

\* The first operation of a kind is the one that counts.
Tried(r, kind) == SelectSeq(r.operations, LAMBDA o : o.kind = kind)

certification_reasons(r) ==
    Tag("not verified", \E n \in ToSet(r.packages) \union ToSet(r.submodules) : n.status # "verified")
    \union Tag("languages", ~(RequiredLanguages \subseteq {c.language : c \in ToSet(r.consumers)}))
    \union Tag("consumer", \E c \in ToSet(r.consumers) : c.status # "green" \/ ~Clean(c))
    \union Tag("operation", \E kind \in RequiredOperations :
                  LET tried == Tried(r, kind)
                  IN  \/ tried = <<>> \/ Head(tried).status # "green"
                      \/ Head(tried).evidence = NULL \/ Head(tried).blockers # {})
    \union Tag("not offline", Tried(r, "offline-reuse") # <<>> /\ ~Head(Tried(r, "offline-reuse")).offline)
    \union Tag("not concurrent",
               Tried(r, "concurrent-install") # <<>> /\ ~Head(Tried(r, "concurrent-install")).concurrent)
    \union Tag("blockers", r.blockers # {})

validate_receipt(r) ==
    Tag("receipt", ~Sound(r)) \union _walk(r) \union PackageErrors(r) \union SubmoduleErrors(r)
    \union ConsumerErrors(r) \union OperationErrors(r) \union EdgeErrors(r)
    \union Tag("safety", r.safety.authorized # {})
    \union Tag("closure", r.mode = "closure" /\ certification_reasons(r) # {})
-----------------------------------------------------------------------------
PDInit ==
    /\ document \in Documents
    /\ dstep = "check" /\ faults = {} /\ worked = {}

Validate ==
    /\ dstep = "check"
    /\ faults' = CASE document.kind = "queue" /\ load(document) -> validate_queue(document)
                   [] document.kind = "manifest" /\ load_text(document) -> validate_manifest(document)
                   [] document.kind = "receipt" /\ load_text(document) -> validate_receipt(document)
                   [] OTHER -> {"unreadable"}
    /\ dstep' = "checked"
    /\ UNCHANGED <<document, worked>>

accepted == dstep = "checked" /\ faults = {}

\* Somebody works the accepted queue off, a rank at a time.
WorkNext ==
    /\ accepted /\ document.kind = "queue"
    /\ \E id \in Ids(document.findings) \ worked :
         /\ by_id(document.findings, id).rank = Cardinality(worked) + 1
         /\ worked' = worked \union {id}
    /\ UNCHANGED <<document, dstep, faults>>

\* Somebody installs what an accepted receipt describes, dependencies first.
Missing(r, n) == {m \in Nodes(r) : Graph(r)[n, m]} \ worked
InstallNext ==
    /\ accepted /\ document.kind = "receipt"
    /\ \E n \in Nodes(document) \ worked :
         Missing(document, n) = {} /\ worked' = worked \union {n}
    /\ UNCHANGED <<document, dstep, faults>>

PDNext == Validate \/ WorkNext \/ InstallNext
-----------------------------------------------------------------------------
\* What was worked on had its dependencies behind it, an actionable finding waits
\* for no blocked one, and a duplicate leads to a finding somebody really has.
Workable(fs) ==
    /\ \A id \in worked : by_id(fs, id).depends_on \subseteq worked
    /\ \A id \in Ids(fs) : by_id(fs, id).disposition \in Actionable =>
          \A dep \in by_id(fs, id).depends_on : by_id(fs, dep).disposition \in Actionable
    /\ \A id \in Ids(fs) : by_id(fs, id).disposition = "noop_duplicate" =>
          by_id(fs, by_id(fs, id).duplicate_of).disposition # "noop_duplicate"

\* Every capability that is let go stands on repositories at known heads, and on
\* lanes with evidence and nothing in their way.
Releasable(m) ==
    m.decision = "go" => \A c \in ToSet(m.capabilities) :
        /\ \A r \in ToSet(m.repositories) : r.id \in c.repositories => r.head # NULL /\ ~r.superseded
        /\ c.lanes # {}
        /\ \A id \in c.lanes : \E l \in ToSet(m.lanes) :
              l.id = id /\ l.evidence # NULL /\ l.blockers = {}

\* Until everything is installed, something can be installed next; and a certified
\* consumer was built with packages whose digests are known.
Installable(r) ==
    /\ Nodes(r) \ worked # {} => \E n \in Nodes(r) \ worked : Missing(r, n) = {}
    /\ r.mode = "closure" => \A c \in ToSet(r.consumers) : \A p \in ToSet(r.packages) :
          p.id \in c.packages /\ NULL \notin p.digests

(* What a validator accepts can be acted on: no finding of the queue comes   *)
(* before what it depends on, none that is to be done waits for one that is  *)
(* blocked (which no single check says), a go rests on evidence throughout,  *)
(* and installing what a receipt certifies never gets stuck (validate of the *)
(* three scripts).                                                           *)
AcceptedCanBeActedOn ==
    accepted => CASE document.kind = "queue" -> Workable(document.findings)
                  [] document.kind = "manifest" -> Releasable(document)
                  [] document.kind = "receipt" -> Installable(document)
=============================================================================
