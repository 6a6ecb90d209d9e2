---------------------------- MODULE ContractChecks ----------------------------
(***************************************************************************)
(* What the validators of documents share: every check runs, and the tags  *)
(* of the ones that fail are collected.                                     *)
(***************************************************************************)
LOCAL INSTANCE Integers
LOCAL INSTANCE FiniteSets
LOCAL INSTANCE Sequences

CONSTANT NULL

Tag(name, condition) == IF condition THEN {name} ELSE {}
Duplicated(values) == \E i, j \in DOMAIN values : i < j /\ values[i] # NULL /\ values[i] = values[j]
Field(items, f(_)) == [i \in DOMAIN items |-> f(items[i])]

\* A key is a tuple compared from the left.
Less(a, b) ==
    \E n \in DOMAIN a : a[n] < b[n] /\ \A k \in 1..(n - 1) : a[k] = b[k]

\* Ranks are 1..n, and the rank of an entry is its place in the stable order of the keys.
\* Only entries whose parts were all readable count.
RankErrors(entries, size) ==
    LET place(i) == 1 + Cardinality({j \in DOMAIN entries :
                          \/ Less(entries[j].key, entries[i].key)
                          \/ entries[j].key = entries[i].key /\ j < i})
    IN  Tag("ranks not contiguous",
            \/ Len(entries) # size
            \/ {entries[i].rank : i \in DOMAIN entries} # 1..size)
        \union Tag("ranks out of order", \E i \in DOMAIN entries : entries[i].rank # place(i))
        \union Tag("entry unreadable", Len(entries) # size)
=============================================================================
