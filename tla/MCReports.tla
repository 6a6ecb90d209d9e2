------------------------------ MODULE MCReports ------------------------------
(* The reports of the recovery tools, the checked documents, the publishers  *)
(* of repositories and the merge guard, each in a world of its own: `part`   *)
(* says which one a behaviour is about, the others stand still.              *)
EXTENDS RecoveryCommon, SequencesExt

CONSTANTS Targets, Keys, Workflows, Compensations, MutationPolicies,
          MaxSkew, MaxSnapshotAge, MaxLease, MaxTries, MaxIntents, MaxVersion,
          Subjects, Owners, Revisions, EvidenceDigests, Risks, MaxEvidence,
          MaxMutationTime, MaxEvidenceTime, PubRuns

VARIABLES part,
          mtime, mpolicy, target, intents, results,
          etime, epolicy, subject, evidence, expired,
          digest, derrors, dstage, todo, stack, visited,
          order, remote, runs, foreign,
          job, repos, run, merges, meddled,
          document, dstep, faults, worked,
          refs, checkout, moves, guard, agreed, output

mvars == <<mtime, mpolicy, target, intents, results>>
evars == <<etime, epolicy, subject, evidence, expired>>
dpvars == <<digest, derrors, dstage, todo, stack, visited>>
pubvars == <<order, remote, runs, foreign>>
prvars == <<job, repos, run, merges, meddled>>
pdvars == <<document, dstep, faults, worked>>
guardvars == <<refs, checkout, moves, guard, agreed, output>>
vars == <<part, mvars, evars, dpvars, pubvars, prvars, pdvars, guardvars>>
-----------------------------------------------------------------------------
(* Mutation receipts and evidence: two intents, two pieces of evidence.     *)

Strict == [r \in Risks |-> [stale |-> 1, expires |-> 2]]
Lenient == [r \in Risks |-> [stale |-> 1, expires |-> 3]]

M == INSTANCE MutationReceipts WITH
        time <- mtime, policy <- mpolicy, Policies <- MutationPolicies,
        MaxTime <- MaxMutationTime
E == INSTANCE EvidenceAdmissibility WITH
        time <- etime, policy <- epolicy, Policies <- {Strict, Lenient},
        MaxTime <- MaxEvidenceTime, Digests <- EvidenceDigests

\* Keys and policies are alike, so the first one used may be any; the first piece of
\* evidence keeps its owner.
FirstOf(S) == CHOOSE x \in S : TRUE
FirstKey == Cardinality(intents') = 1 => \A i \in intents' : i.key = FirstOf(Keys)
FirstOwner == \A e \in evidence' : e.identity = 1 => e.owner = FirstOf(Owners)
-----------------------------------------------------------------------------
(* Digests: three papers with every list of what they supersede, and two    *)
(* roles in every order.                                                    *)

Root(kind, items) ==
    [file |-> "object", fields |-> TRUE, kind |-> kind, forbidden |-> FALSE, generated |-> 5,
     window |-> [start |-> 0, end |-> 9], items |-> items, authorised |-> {}]
Lists == UNION {{s \in [1..n -> 1..3] : \A i, j \in 1..n : i # j => s[i] # s[j]} : n \in 0..2}
Scores(r) == [relevance |-> r, novelty |-> 50, evidence_quality |-> 50,
              implementation_cost |-> 50, falsifiability |-> 50]
Paper(id, list) ==
    [fields |-> TRUE, id |-> id, rank |-> id, url |-> id, identifier |-> id, retrieved |-> 4,
     published |-> 3, updated |-> NULL, status |-> "active", supersedes |-> list,
     scores |-> Scores(90 - 20 * id)]
Role(n, company, score, rank, fid) ==
    [fields |-> TRUE, id |-> n, rank |-> rank, company |-> company, requisition |-> n, url |-> n,
     verified |-> 4, posted |-> 3, expires |-> NULL, compensation |-> NULL, score |-> score,
     fiducia |-> fid]
OddRole(r) == {r, [r EXCEPT !.requisition = 1], [r EXCEPT !.verified = 9], [r EXCEPT !.rank = NULL]}

DigestDocuments ==
    {Root("research", <<Paper(1, a), Paper(2, b), Paper(3, c)>>) : a, b, c \in Lists}
    \union {Root("research", <<Paper(1, <<2>>), Paper(1, <<1, 2>>)>>),
            Root("research", <<[Paper(1, <<>>) EXCEPT !.scores = NULL]>>)}
    \union {Root("opportunity", <<Role(1, 1, s1, r1, f), b>>) :
              s1 \in {70, 80}, r1 \in 1..2, f \in {{}, {"f"}},
              b \in UNION {OddRole(Role(2, c, 70, r2, {"f"})) : c \in {1, 2}, r2 \in 1..2}}
    \union {[Root("research", <<>>) EXCEPT !.authorised = {"outreach"}],
            [Root("research", <<>>) EXCEPT !.file = "unreadable"],
            [Root("other", <<>>) EXCEPT !.window = [start |-> 2, end |-> 2]]}

P == INSTANCE DigestProvenance WITH Digests <- DigestDocuments, MaxDigestItems <- 3
-----------------------------------------------------------------------------
(* Publication: two libraries and their monorepo, and the memebank plan of  *)
(* an end-to-end kit; two runs, and somebody who pushes once.               *)

Commit(tree) == [name |-> "x", tree |-> tree, links |-> <<>>]

\* What a fleet is sealed from needs no orders.
Seal == INSTANCE FleetPublication WITH
        Orders <- {}, AllowedOrgs <- {"o"}, ExpectedLinks <- [o |-> 2, k |-> 1],
        Foreign <- {}, RecoveryBase <- Commit("recovered"), MaxForeign <- 0

Made(org, name, kind) == [org |-> org, name |-> name, kind |-> kind, tree |-> "t"]
Libraries == <<Made("o", "a", "lib"), Made("o", "b", "lib"), Made("o", "m", "monorepo")>>
Governance == Made("k", ".github", "governance")
Kits == <<Made("k", "e", "e2e"), Made("k", "m", "monorepo")>>
Checkouts(rs) == [n \in {rs[i].name : i \in DOMAIN rs} |->
                     Seal!Checkout(rs, CHOOSE r \in ToSet(rs) : r.name = n)]

Fleet == [tool |-> "fleet", plan |-> Seal!reconstruct_fleet(Libraries), checkouts |-> Checkouts(Libraries)]
Meme ==
    LET kits == Seal!reconstruct_fleet(Kits).records
        governance == [kits[1] EXCEPT !.name = ".github", !.kind = "governance",
                                      !.commit.name = ".github"]
        plan == [sealed |-> TRUE, records |-> <<governance>> \o kits,
                 links |-> Seal!add_local_gitlinks(Kits, "k")]
    IN  [tool |-> "memebank", plan |-> plan,
         checkouts |-> Checkouts(Kits) @@ (".github" :> Seal!Checkout(Kits, Governance))]

\* As sealed, with a child changed since, out of order, with an unclean checkout, and
\* with a link to a commit nobody sealed.
MCOrders ==
    {Fleet,
     [Fleet EXCEPT !.plan.records[1].commit.tree = "u", !.checkouts["a"].head.tree = "u"],
     [Fleet EXCEPT !.plan.records = Reverse(@)],
     [Fleet EXCEPT !.checkouts["m"].clean = FALSE],
     Meme, [Meme EXCEPT !.plan.links["e"].tree = "u"]}

\* A record is of a repository there is a checkout of, and a path of the memebank
\* monorepo is the name of the repository its URL points at.
ASSUME OrdersAssumption ==
    \A o \in MCOrders : \A r \in ToSet(o.plan.records) :
        /\ r.name \in DOMAIN o.checkouts /\ r.commit # NULL
        /\ o.tool = "memebank" =>
             \A path \in DOMAIN r.commit.links : o.checkouts[r.name].modules[path] = path

U == INSTANCE FleetPublication WITH
        Orders <- MCOrders, AllowedOrgs <- {"o"}, ExpectedLinks <- [o |-> 2, k |-> 1],
        Foreign <- {Commit("theirs"), Commit("recovered")},
        RecoveryBase <- Commit("recovered"), MaxForeign <- 1

\* A memebank run meets another run or a foreign commit; both only where the kit has
\* a recovered history.
OneDisturbs ==
    order.tool = "memebank" =>
        \/ Cardinality({p \in PubRuns : runs'[p].at # "idle"}) + foreign' <= 2
        \/ Commit("recovered") \in remote'["e"].history
-----------------------------------------------------------------------------
(* Rollouts of pull requests: one repository and two starts, or two         *)
(* repositories and one; somebody interferes once with the former.          *)

Rollout(tool, names, starts, others) ==
    [tool |-> tool, order |-> names, starts |-> starts, meddling |-> others]

Q0 == INSTANCE MigrationPlan

\* zpkg: inventories of one or two repositories, whole and each with one thing wrong,
\* and plans that were changed after they had been built.
Found(r, path, place) ==
    [repository |-> r, path |-> path, branch |-> "main", blob |-> "source", place |-> place]
InUse(r) == [name |-> r, branch |-> "main", archived |-> FALSE]
Except(path, snapshot) ==
    [repository |-> "a", path |-> path, snapshot |-> snapshot, current |-> "new", size |-> 1, sha256 |-> "new"]
Inventory(scan) ==
    [scan |-> Append(scan, [Found("a", "q", "plain") EXCEPT !.blob = "old"]),
     repositories |-> <<InUse("a"), InUse("b")>>, immutable |-> {}, overrides |-> {},
     reconciled |-> {Except("q", "old")}, downloads |-> {"source", "new"},
     rewrite |-> [b \in {"source", "old", "new"} |-> IF b = "source" THEN "proposed" ELSE b],
     zed |-> {"proposed", "new"}, targets |-> {"lib"}, interface |-> "8428"]
Migration(names, starts, others, inventory) ==
    [tool |-> "zpkg", order |-> names, starts |-> starts, meddling |-> others, inventory |-> inventory,
     plan |-> Q0!NoPlan,
     modes |-> <<"merge-reviewed", "merge-reviewed">>, phase |-> 1, reviewed |-> TRUE, dirs |-> {"lib"},
     owners |-> {[type |-> "User", login |-> "o", actor |-> "o"],
                 [type |-> "Organization", membership |-> "active", role |-> "admin"]},
     blobs |-> [r \in {"a"} |-> [sha |-> "new", size |-> 1, sha256 |-> "new"]]]
OneInventory == Inventory(<<Found("a", "p", "seed")>>)
TwoInventories(place) == Inventory(<<Found("a", "p", "seed"), Found("b", "p", place)>>)
OddInventories ==
    {[OneInventory EXCEPT !.repositories[1].archived = TRUE], [OneInventory EXCEPT !.scan = @ \o @],
     [OneInventory EXCEPT !.repositories[1].branch = "dev"], [OneInventory EXCEPT !.zed = {"new"}],
     [OneInventory EXCEPT !.repositories = @ \o @], [OneInventory EXCEPT !.downloads = {"new"}],
     [OneInventory EXCEPT !.immutable = {Except("p", "older")}], [OneInventory EXCEPT !.scan[1].path = "none"],
     [OneInventory EXCEPT !.overrides = {Except("p", "older")}], [OneInventory EXCEPT !.scan = <<>>],
     [OneInventory EXCEPT !.scan[1].blob = "older", !.overrides = {[Except("p", "older") EXCEPT !.current = "source"]}],
     [OneInventory EXCEPT !.immutable = {Except("q", "old")}],
     Inventory(<<Found("a", "p", "seed"), Found("a", "r", "plain")>>)}
OneMigration == Migration(<<"a">>, 1, 0, OneInventory)
OnePlan == Q0!build_plan(OneInventory)
OddPlans ==
    {[OnePlan EXCEPT !.contract = FALSE], [OnePlan EXCEPT !.instances = 2],
     [OnePlan EXCEPT !.proposals = @ \o @], [OnePlan EXCEPT !.mutations[1].file = "foreign"],
     [OnePlan EXCEPT !.reconciled[1].path = "p"], [OnePlan EXCEPT !.reconciled[1].size = 0],
     [OnePlan EXCEPT !.reconciled = @ \o @], [OnePlan EXCEPT !.mutations = @ \o @, !.instances = 2]}
OddMigrations ==
    {[OneMigration EXCEPT !.plan = p] : p \in OddPlans}
        \union {[OneMigration EXCEPT !.inventory = i] : i \in OddInventories}
        \union {[OneMigration EXCEPT !.reviewed = FALSE], [OneMigration EXCEPT !.dirs = {}],
                [OneMigration EXCEPT !.owners = {[type |-> "User", login |-> "o", actor |-> "x"]}],
                [OneMigration EXCEPT !.owners = {[type |-> "Organization", membership |-> "active", role |-> "member"]}],
                [OneMigration EXCEPT !.blobs["a"].sha256 = "old"],
                [OneMigration EXCEPT !.modes = <<"preflight">>]}
Migrations ==
    {Migration(<<"a">>, 2, 1, OneInventory), Migration(<<"a", "b">>, 1, 0, TwoInventories("seed")),
     [Migration(<<"a">>, 2, 0, OneInventory) EXCEPT !.modes = <<"create-pulls", "merge-reviewed">>],
     Migration(<<"a", "b">>, 1, 0, TwoInventories("plain"))}

Q == INSTANCE PullRequestRollout WITH
        Jobs <- {Rollout(t, <<"a">>, 2, 1) : t \in {"deep", "installed", "hhaus", "notes", "astro"}}
                \union {Rollout("deep", <<"a", "b">>, 1, 0)} \union Migrations \union OddMigrations
-----------------------------------------------------------------------------
(* Remediation queues of three findings that wait for, repeat or block each *)
(* other, closure manifests of one repository and two lanes, and receipts of *)
(* two packages and a submodule.                                             *)

Fix(branch) == [fields |-> TRUE, branch |-> branch, base |-> branch,
                checks |-> IF branch = NULL THEN 0 ELSE 2,
                dry_run |-> TRUE, apply_authorized |-> FALSE]
Points(s) == [security |-> s, data_integrity |-> 50, user_impact |-> 50, dependency_centrality |-> 50,
              operational_risk |-> 50, effort |-> 50, test_evidence |-> 50]
Todo(id, rank, deps) ==
    [fields |-> TRUE, id |-> id, rank |-> rank, repository |-> "r", state |-> "missing", severity |-> 2,
     disposition |-> "draft_pr", linear |-> id, github |-> [kind |-> "issues", number |-> id],
     duplicate_of |-> NULL, depends_on |-> deps, scores |-> Points(50), remediation |-> Fix("b")]
Blocked(f) == [f EXCEPT !.disposition = "noop_blocked", !.state = "externally_blocked",
                        !.remediation = Fix(NULL)]
CopyOf(f, id) == [f EXCEPT !.disposition = "noop_duplicate", !.duplicate_of = id, !.linear = id,
                           !.remediation = Fix(NULL)]
Variants(f) == {f, [f EXCEPT !.severity = 3], Blocked(f)} \union {CopyOf(f, id) : id \in {1, 2}}
OddFindings(f) == {[f EXCEPT !.state = "superseded"], [f EXCEPT !.id = NULL], [f EXCEPT !.scores = NULL],
                   [f EXCEPT !.linear = 1], [f EXCEPT !.remediation = Fix(NULL)],
                   [f EXCEPT !.github.kind = "pull"]}
Queue(findings) ==
    [kind |-> "queue", file |-> "object", content |-> "plain", fields |-> TRUE,
     generated |-> 9, observed |-> 8, count |-> 1,
     repositories |-> <<[fields |-> TRUE, id |-> "r", lifecycle |-> "active",
                         branch |-> "main", head |-> "h"]>>,
     findings |-> findings, safety |-> [read_only |-> TRUE, dry_run |-> TRUE, authorized |-> {}]]
Queues ==
    {Queue(<<a, b, c>>) :
        a \in UNION {Variants(Todo(1, r, d)) : r \in 1..3, d \in {{}, {2}}},
        b \in UNION {Variants(Todo(2, r, d)) : r \in 1..3, d \in {{}, {1}, {3}}},
        c \in {Todo(3, 3, {}), Todo(3, 3, {1, 2}), Blocked(Todo(3, 3, {})), CopyOf(Todo(3, 3, {}), 1)}}
    \union {Queue(<<Todo(1, 1, {}), b>>) : b \in OddFindings(Todo(2, 2, {1})) \union {Todo(1, 2, {})}}
    \union {[Queue(<<Todo(1, 1, {})>>) EXCEPT !.observed = o, !.count = n, !.safety.authorized = s,
                                             !.content = c] :
              o \in {1, 8, 10}, n \in {1, 2}, s \in {{}, {"merge"}}, c \in {"plain", "secret"}}

Lane(id, kind, status, proof) ==
    [fields |-> TRUE, id |-> id, kind |-> kind, status |-> status, head |-> "h", evidence |-> proof,
     destructive |-> TRUE, independent |-> TRUE, blockers |-> {}]
Manifest(status, head, lanes, decision, mode, maturity) ==
    [kind |-> "manifest", file |-> "object", content |-> "plain", fields |-> TRUE, mode |-> mode,
     catalog_complete |-> TRUE, expected |-> 1, observed |-> 1, unresolved |-> 0,
     repositories |-> <<[fields |-> TRUE, id |-> "r", url |-> "r", status |-> status, head |-> head,
                         archived |-> FALSE, superseded |-> FALSE]>>,
     lanes |-> lanes,
     artifacts |-> <<[fields |-> TRUE, id |-> "a", repository |-> "r", status |-> "verified",
                      sha |-> "s", provenance |-> "p"]>>,
     capabilities |-> <<[fields |-> TRUE, id |-> "c", status |-> "verified", maturity |-> maturity,
                         blockers |-> {}, repositories |-> {"r"}, lanes |-> {"l1", "l2"}]>>,
     blockers |-> {}, decision |-> decision, approved_by |-> {"a"},
     safety |-> [read_only |-> TRUE, authorized |-> {}]]
Whole == Manifest("verified", "h",
            <<Lane("l1", "contract", "green", "e"), Lane("l2", "security", "green", "e")>>, "go", "closure", 4)
Manifests ==
    {Manifest(s[1], s[2], <<Lane("l1", "contract", "green", "e"), Lane(id, k, st, ev)>>, dec, mode, mat) :
        s \in {<<"verified", "h">>, <<"verified", NULL>>, <<"planned", NULL>>}, id \in {"l1", "l2"},
        k \in {"contract", "security"}, st \in {"green", "red"}, ev \in {"e", NULL},
        dec \in {"go", "hold"}, mode \in {"planning", "closure"}, mat \in {3, 4}}
    \union {[Whole EXCEPT !.repositories = @ \o @], [Whole EXCEPT !.content = "address"],
            [Whole EXCEPT !.repositories[1].superseded = TRUE], [Whole EXCEPT !.unresolved = NULL],
            [Whole EXCEPT !.capabilities[1].lanes = {"l3"}], [Whole EXCEPT !.artifacts = <<>>],
            [Whole EXCEPT !.lanes[2].destructive = FALSE]}

\* Receipts of two packages and a submodule with every pair of edges.
Built(id, role) == [fields |-> TRUE, id |-> id, role |-> role, status |-> "verified", digests |-> {"d"}]
Consumer(id, language) ==
    [fields |-> TRUE, id |-> id, language |-> language, status |-> "green", evidence |-> "e",
     flags |-> {"clean_checkout", "compiled", "executed"}, packages |-> {"p", "q"}, submodules |-> {"s"}]
Operation(id, kind) ==
    [fields |-> TRUE, id |-> id, kind |-> kind, status |-> "green", offline |-> TRUE,
     concurrent |-> TRUE, evidence |-> "e", blockers |-> {}]
ConsumerReceipt(edges) ==
    [kind |-> "receipt", file |-> "object", content |-> "plain", fields |-> TRUE, mode |-> "closure",
     packages |-> <<Built("p", "clients"), Built("q", "library")>>,
     submodules |-> <<[fields |-> TRUE, id |-> "s", path |-> <<"v", "s">>, repository |-> "s",
                       commit |-> "c", status |-> "verified"]>>,
     consumers |-> <<Consumer("x", "rust"), Consumer("y", "go")>>,
     operations |-> <<Operation("o", "offline-reuse"), Operation("n", "concurrent-install")>>,
     edges |-> edges, blockers |-> {}, safety |-> [authorized |-> {}]]
Edges == {<<m, n, k>> : m \in {"p", "q", "s"}, n \in {"p", "q", "s"}, k \in {"package-dependency", "git-submodule"}}
Plain == ConsumerReceipt(<<<<"p", "q", "package-dependency">>>>)
ConsumerReceipts ==
    {ConsumerReceipt(es) : es \in UNION {[1..n -> Edges] : n \in 0..2}}
    \union {ConsumerReceipt(<<<<"p", "q", "package-dependency">>, <<"q", "s", "git-submodule">>, e>>) : e \in Edges}
    \union {[Plain EXCEPT !.mode = m, !.packages[1].digests = d, !.packages[1].status = st] :
               m \in {"planning", "closure"}, d \in {{"d"}, {"d", NULL}}, st \in {"planned", "verified"}}
    \union {[Plain EXCEPT !.packages = @ \o @], [Plain EXCEPT !.consumers[1].packages = {"p"}],
            [Plain EXCEPT !.consumers[1].flags = {"compiled"}], [Plain EXCEPT !.submodules[1].path = <<"..">>],
            [Plain EXCEPT !.submodules[1].repository = "infra"], [Plain EXCEPT !.submodules[1].commit = NULL],
            [Plain EXCEPT !.operations[1].offline = FALSE], [Plain EXCEPT !.operations[2].kind = "offline-reuse"],
            [Plain EXCEPT !.operations[2].concurrent = FALSE], [Plain EXCEPT !.edges[1][2] = "z"]}

D == INSTANCE PortfolioDocuments WITH
        Documents <- Queues \union Manifests \union ConsumerReceipts, MaxBaselineAge <- 3,
        RequiredLaneKinds <- {"contract", "security"}, DestructiveLaneKinds <- {"security"},
        PackageRoles <- {"clients", "library"}, RequiredLanguages <- {"rust", "go"},
        RequiredOperations <- {"offline-reuse", "concurrent-install"}
-----------------------------------------------------------------------------
(* The merge guard: two branches and a remote one, moved by others twice.   *)

Ref(r) == [kind |-> "ref", ref |-> r, sha |-> 0]
Sha(n) == [kind |-> "sha", ref |-> "", sha |-> n]
Line(k, n, o, c) == [kind |-> k, name |-> n, opens |-> o, closes |-> c]
File(s) == [regular |-> TRUE, large |-> FALSE, binary |-> FALSE, markers |-> FALSE, parses |-> TRUE,
            suffix |-> s, names |-> <<>>, lines |-> <<>>]

G == INSTANCE SemanticMergeGuard WITH
        Branches <- {"main", "topic"}, Tracking <- {"origin"}, MaxMoves <- 2,
        Calls <- {[base |-> Ref("main"), head |-> h] : h \in {Ref("topic"), Ref("origin"), Sha(2)}}
                 \union {[base |-> b, head |-> Ref("topic")] : b \in {Ref("HEAD"), Sha(1)}},
        Merged <- {[File("rs") EXCEPT !.lines =
                       <<Line("field", "a", 1, 0), Line("field", "a", 0, 0),
                         Line("other", "", 0, 1), Line("mod", "m", 0, 0)>>],
                   [File("rs") EXCEPT !.lines =
                       <<Line("other", "", 1, 0), Line("field", "a", 0, 0), Line("field", "a", 0, 1)>>],
                   [File("json") EXCEPT !.names = <<"k", "k">>, !.large = TRUE],
                   [File("toml") EXCEPT !.names = <<"t", "t">>]}
-----------------------------------------------------------------------------
Init ==
    /\ part \in {"mutations", "evidence", "provenance", "publication", "rollout", "documents", "guard"}
    /\ IF part = "mutations" THEN M!Init /\ mpolicy = FirstOf(MutationPolicies)
       ELSE mtime = 0 /\ mpolicy = NULL /\ target = NULL /\ intents = {} /\ results = {}
    /\ IF part = "evidence" THEN E!Init
       ELSE etime = 0 /\ epolicy = NULL /\ subject = NULL /\ evidence = {} /\ expired = {}
    /\ IF part = "provenance" THEN P!DPInit
       ELSE /\ digest = NULL /\ derrors = {} /\ dstage = NULL
            /\ todo = {} /\ stack = <<>> /\ visited = {}
    /\ IF part = "publication" THEN U!PubInit
       ELSE order = NULL /\ remote = NULL /\ runs = NULL /\ foreign = 0
    /\ IF part = "rollout" THEN Q!PRInit
       ELSE job = NULL /\ repos = NULL /\ run = NULL /\ merges = {} /\ meddled = 0
    /\ IF part = "documents" THEN D!PDInit
       ELSE document = NULL /\ dstep = NULL /\ faults = {} /\ worked = {}
    /\ IF part = "guard" THEN G!GuardInit
       ELSE /\ refs = NULL /\ checkout = NULL /\ moves = 0
            /\ guard = NULL /\ agreed = NULL /\ output = NULL

Next ==
    \/ /\ part = "mutations"
       /\ M!Next
       /\ FirstKey
       /\ UNCHANGED <<part, evars, dpvars, pubvars, prvars, pdvars, guardvars>>
    \/ /\ part = "evidence"
       /\ E!Next
       /\ FirstOwner
       /\ UNCHANGED <<part, mvars, dpvars, pubvars, prvars, pdvars, guardvars>>
    \/ /\ part = "provenance"
       /\ P!DPNext
       /\ UNCHANGED <<part, mvars, evars, pubvars, prvars, pdvars, guardvars>>
    \/ /\ part = "publication"
       /\ U!PubNext
       /\ OneDisturbs
       /\ UNCHANGED <<part, mvars, evars, dpvars, prvars, pdvars, guardvars>>
    \/ /\ part = "rollout"
       /\ Q!PRNext
       /\ UNCHANGED <<part, mvars, evars, dpvars, pubvars, pdvars, guardvars>>
    \/ /\ part = "documents"
       /\ D!PDNext
       /\ UNCHANGED <<part, mvars, evars, dpvars, pubvars, prvars, guardvars>>
    \/ /\ part = "guard"
       /\ G!GuardNext
       /\ UNCHANGED <<part, mvars, evars, dpvars, pubvars, prvars, pdvars>>

Symmetry == Permutations(Revisions) \union Permutations(EvidenceDigests)

Spec == Init /\ [][Next]_vars
-----------------------------------------------------------------------------
(* Writers that keep to the report have one change accepted for a key.     *)
KeyAcceptedOnce == part = "mutations" => M!KeyAcceptedOnce
(* Evidence that has expired under a policy stays so under that policy.    *)
ExpiredStaysExpired == part = "evidence" => E!ExpiredStaysExpired
(* The search reports a cycle of superseded papers exactly when one exists. *)
CycleIsFound == part = "provenance" => P!CycleIsFound
(* Every gitlink of a published monorepo names a commit that is there.      *)
GitlinksResolve == part = "publication" => U!GitlinksResolve
(* What a rollout merges is what it looked at.                              *)
MergedWasReviewed == part = "rollout" => Q!MergedWasReviewed
(* An accepted document can be acted on.                                    *)
AcceptedCanBeActedOn == part = "documents" => D!AcceptedCanBeActedOn
(* A report of the merge guard is about the commits its inputs named.       *)
PreviewIsOfTheInputs == part = "guard" => G!PreviewIsOfTheInputs
=============================================================================
