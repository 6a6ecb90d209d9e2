-------------------------- MODULE DigestProvenance --------------------------
(***************************************************************************)
(* The validator of opportunity and research digests,                      *)
(* scripts/digest_provenance.py.  It never stops at the first error: every *)
(* check runs and the errors are collected.  The search for a cycle among  *)
(* the research items that supersede one another is stepped through, with  *)
(* its stack, its open and its closed items.  Names that are compared      *)
(* (companies, requisitions, item ids) are their places in their order.    *)
(***************************************************************************)
EXTENDS Integers, FiniteSets, Sequences, Relation, ContractChecks

CONSTANTS Digests, MaxDigestItems

VARIABLES digest, derrors, dstage, \* the input, the errors, "checks", "search" or "done"
          todo,                    \* ids still to be visited from the outer loop
          stack,                   \* the calls of visit: [id, deps not looked at yet]
          visited                  \* ids visit has left

dpvars == <<digest, derrors, dstage, todo, stack, visited>>

Places(items) == DOMAIN items
Precedes(a, b) == a # NULL /\ b # NULL /\ a < b

\* The exact keys of a record, and the types, lengths, patterns and ranges of the
\* single values; a value that others are compared with is NULL when it is unreadable.
Legible(record) == record.fields

\* No key of credentials or of personal data, however deep, and no unbounded text.
_walk_safe(d) == Tag("forbidden key", d.forbidden)

\* The file is bounded, UTF-8, JSON without a key given twice, and an object.
load(d) == d.file = "object"

\* What was verified or retrieved falls in the window [start, end).
WindowErrors(at, window) ==
    Tag("outside the window", Precedes(at, window.start) \/ (at # NULL /\ window.end # NULL
                                                            /\ at >= window.end))
-----------------------------------------------------------------------------
_validate_window(w) ==
    Tag("window", w.start = NULL \/ w.end = NULL \/ w.start >= w.end)

_validate_safety(authorised) == Tag("safety", authorised # {})

_validate_compensation(c) ==
    IF c = NULL THEN {} ELSE Tag("compensation", c.minimum > c.maximum)

\* _validate_fit gives the score, and an error when there is none.
_validate_fit(item) == Tag("fit", item.score = NULL)

OpportunityErrors(item, window) ==
    Tag("fields", ~Legible(item) \/ NULL \in {item.id, item.rank, item.company, item.requisition,
                                            item.url, item.verified})
    \union WindowErrors(item.verified, window)
    \union Tag("posted after verified", Precedes(item.verified, item.posted))
    \union Tag("expired when verified",
               /\ item.expires # NULL /\ item.verified # NULL
               /\ item.expires <= item.verified)
    \union _validate_compensation(item.compensation)
    \union _validate_fit(item)

Roles(items, company) == {i \in Places(items) : items[i].company = company}
Companies(items) == {items[i].company : i \in Places(items)} \ {NULL}

\* The Fiducia set of a company is the one of its first role; a company with one
\* has two or three roles.
FiduciaErrors(items) ==
    LET first(c) == CHOOSE i \in Roles(items, c) : \A j \in Roles(items, c) : i <= j
        fiducia(c) == items[first(c)].fiducia
    IN  Tag("fiducia sets differ",
            \E c \in Companies(items) : \E i \in Roles(items, c) : items[i].fiducia # fiducia(c))
        \union Tag("fiducia roles",
            \E c \in Companies(items) :
               fiducia(c) # {} /\ Cardinality(Roles(items, c)) \notin {2, 3})

_validate_opportunities(items, window) ==
    LET readable(item) == NULL \notin {item.rank, item.score, item.company, item.requisition}
        entry(item) == [rank |-> item.rank, key |-> <<-item.score, item.company, item.requisition>>]
        ranked == SelectSeq(items, readable)
    IN  UNION {OpportunityErrors(items[i], window) : i \in Places(items)}
        \union Tag("duplicate id", Duplicated(Field(items, LAMBDA x : x.id)))
        \union Tag("duplicate url", Duplicated(Field(items, LAMBDA x : x.url)))
        \union Tag("duplicate requisition",
                   Duplicated(Field(items, LAMBDA x :
                      IF NULL \in {x.company, x.requisition} THEN NULL
                      ELSE <<x.company, x.requisition>>)))
        \union RankErrors(Field(ranked, entry), Len(items))
        \union FiduciaErrors(items)
-----------------------------------------------------------------------------
_research_composite(s) ==
    s.relevance * 30 + s.novelty * 20 + s.evidence_quality * 25
    + (100 - s.implementation_cost) * 10 + s.falsifiability * 15

ResearchErrors(item, window) ==
    Tag("fields", ~Legible(item) \/ NULL \in {item.id, item.rank, item.url, item.identifier,
                                            item.retrieved, item.scores})
    \union WindowErrors(item.retrieved, window)
    \union Tag("published in the future", Precedes(item.retrieved, item.published))
    \union Tag("updated after retrieved", Precedes(item.retrieved, item.updated))
    \union Tag("not active", item.status # "active")

\* A dict: of two items with one id the later one's list stays.
supersession(items) ==
    LET ids == {items[i].id : i \in Places(items)} \ {NULL}
        last(id) == CHOOSE i \in Places(items) :
                      items[i].id = id /\ \A j \in Places(items) : items[j].id = id => j <= i
    IN  [id \in ids |-> items[last(id)].supersedes]

SupersessionErrors(items) ==
    LET deps(id) == {supersession(items)[id][n] : n \in DOMAIN supersession(items)[id]}
        ids == DOMAIN supersession(items)
    IN  Tag("supersedes itself", \E id \in ids : id \in deps(id))
        \union Tag("supersedes unknown", \E id \in ids : deps(id) \ ids # {})

\* All of _validate_research but the search for cycles.
_validate_research(items, window) ==
    LET readable(item) == NULL \notin {item.rank, item.id, item.scores}
        entry(item) == [rank |-> item.rank, key |-> <<-_research_composite(item.scores), item.id>>]
        ranked == SelectSeq(items, readable)
    IN  UNION {ResearchErrors(items[i], window) : i \in Places(items)}
        \union Tag("duplicate id", Duplicated(Field(items, LAMBDA x : x.id)))
        \union Tag("duplicate url", Duplicated(Field(items, LAMBDA x : x.url)))
        \union Tag("duplicate identifier", Duplicated(Field(items, LAMBDA x : x.identifier)))
        \union RankErrors(Field(ranked, entry), Len(items))
        \union SupersessionErrors(items)

\* An oversized or empty list of items is reported and then taken as empty.
Items(d) == IF Len(d.items) \in 1..MaxDigestItems THEN d.items ELSE <<>>

_validate_root(d) ==
    Tag("root", ~Legible(d)) \union Tag("kind", d.kind \notin {"opportunity", "research"})
    \union _walk_safe(d)
    \union WindowErrors(d.generated, d.window) \union _validate_window(d.window)
    \union Tag("items", Len(d.items) \notin 1..MaxDigestItems)
    \union _validate_safety(d.authorised)
-----------------------------------------------------------------------------
DPInit ==
    /\ digest \in Digests
    /\ derrors = {} /\ dstage = "checks"
    /\ todo = {} /\ stack = <<>> /\ visited = {}

\* validate: all the checks; for a research digest the search follows.
Checks ==
    /\ dstage = "checks"
    /\ derrors' = IF ~load(digest) THEN {"unreadable"} ELSE _validate_root(digest) \union
          (CASE digest.kind = "opportunity" -> _validate_opportunities(Items(digest), digest.window)
             [] digest.kind = "research" -> _validate_research(Items(digest), digest.window)
             [] OTHER -> {})
    /\ IF digest.kind = "research" /\ load(digest)
       THEN dstage' = "search" /\ todo' = DOMAIN supersession(Items(digest))
       ELSE dstage' = "done" /\ UNCHANGED todo
    /\ UNCHANGED <<digest, stack, visited>>

Deps(id) == SelectSeq(supersession(Items(digest))[id], LAMBDA d : d \in DOMAIN supersession(Items(digest)))
Frame(id) == [id |-> id, deps |-> Deps(id)]
visiting == {stack[n].id : n \in DOMAIN stack}
Top == stack[Len(stack)]
Under(top) == [stack EXCEPT ![Len(stack)] = top]

\* The outer loop calls visit; a visited item returns at once.
Begin(id) ==
    /\ dstage = "search" /\ stack = <<>> /\ id \in todo
    /\ todo' = todo \ {id}
    /\ stack' = IF id \in visited THEN stack ELSE <<Frame(id)>>
    /\ UNCHANGED <<digest, derrors, dstage, visited>>

\* visit calls itself for the next dependency.
visit_entering ==
    /\ dstage = "search" /\ stack # <<>> /\ Top.deps # <<>>
    /\ LET dep == Head(Top.deps)
           rest == Under([Top EXCEPT !.deps = Tail(@)])
       IN  IF dep \in visited THEN stack' = rest /\ UNCHANGED <<derrors, visited>>
           ELSE IF dep \in visiting
           THEN stack' = rest /\ derrors' = derrors \union {"cycle"} /\ UNCHANGED visited
           ELSE /\ stack' = Append(rest, Frame(dep)) /\ visited' = visited \union {dep}
                /\ UNCHANGED derrors
    /\ UNCHANGED <<digest, dstage, todo>>
visit ==
    /\ dstage = "search" /\ stack # <<>> /\ Top.deps # <<>>
    /\ LET dep == Head(Top.deps)
           rest == Under([Top EXCEPT !.deps = Tail(@)])
       IN  IF dep \in visited THEN stack' = rest /\ UNCHANGED derrors
           ELSE IF dep \in visiting
           THEN stack' = rest /\ derrors' = derrors \union {"cycle"}
           ELSE stack' = Append(rest, Frame(dep)) /\ UNCHANGED derrors
    /\ UNCHANGED <<digest, dstage, todo, visited>>

\* visit has looked at all dependencies and returns.
Leave ==
    /\ dstage = "search" /\ stack # <<>> /\ Top.deps = <<>>
    /\ visited' = visited \union {Top.id}
    /\ stack' = SubSeq(stack, 1, Len(stack) - 1)
    /\ UNCHANGED <<digest, derrors, dstage, todo>>

Report ==
    /\ dstage = "search" /\ stack = <<>> /\ todo = {}
    /\ dstage' = "done"
    /\ UNCHANGED <<digest, derrors, todo, stack, visited>>

valid == dstage = "done" /\ derrors = {}

DPNext == Checks \/ (\E id \in todo : Begin(id)) \/ visit \/ Leave \/ Report
-----------------------------------------------------------------------------
(* The search reports a cycle exactly when some item supersedes itself      *)
(* through any number of others, from whichever item it starts and however *)
(* its lists are ordered (visit, digest_provenance.py).                    *)
CycleIsFound ==
    dstage = "done" /\ digest.kind = "research" =>
        LET items == supersession(Items(digest))
            ids == DOMAIN items
            direct == [pair \in ids \X ids |-> \E n \in DOMAIN items[pair[1]] :
                                                   items[pair[1]][n] = pair[2]]
            reaches == TransitiveClosure(direct, ids)
        IN  "cycle" \in derrors <=> \E id \in ids : reaches[id, id]
=============================================================================
