---------------------------- MODULE RecoveryProofs ----------------------------
(***************************************************************************)
(* Proofs about the parts of artifact recovery: the worker and its ledger, *)
(* the supervisor that keeps workers running, and the schedules that ask   *)
(* for the work.  The parts share no state; each has a section of its own. *)
(***************************************************************************)
EXTENDS RecoveryWorker, RecoverySupervisor, RecoverySchedules,
        FiniteSetTheorems, SequenceTheorems, TLAPS

-----------------------------------------------------------------------------
(* Induction over the natural numbers, for a set in the place of a         *)
(* predicate.                                                              *)

\* Induction on the naturals, with a set in place of a predicate.
LEMMA Induction ==
  ASSUME NEW G, 0 \in G, \A n \in Nat : n \in G => n + 1 \in G
  PROVE  \A n \in Nat : n \in G
<1> SUFFICES ASSUME NEW k \in Nat, k \notin G PROVE FALSE
  OBVIOUS
<1> DEFINE bad == {n \in Nat : n \notin G}
           T == {0 .. n : n \in bad}
           R == StrictSubsetOrdering(Nat)
<1>1. T \subseteq FiniteSubsetsOf(Nat) /\ T # {}
  <2> SUFFICES ASSUME NEW n \in Nat PROVE 0 .. n \in FiniteSubsetsOf(Nat)
    OBVIOUS
  <2>1. IsFiniteSet(0 .. n) /\ 0 .. n \subseteq Nat
    BY FS_Interval
  <2> QED BY <2>1 DEF FiniteSubsetsOf
<1>2. IsWellFoundedOn(R, FiniteSubsetsOf(Nat))
  BY FS_StrictSubsetOrderingWellFounded
<1> HIDE DEF T, R
<1>3. \E x \in T : \A y \in T : ~(<<y, x>> \in R)
  BY <1>1, <1>2, WFMin
<1>4. PICK n \in bad : \A m \in bad : ~(<<0 .. m, 0 .. n>> \in R)
  BY <1>3 DEF T
<1>5. n # 0 /\ n \in Nat
  OBVIOUS
<1>6. n - 1 \in bad
  BY <1>5
<1>7. 0 .. (n - 1) \in SUBSET Nat /\ 0 .. n \in SUBSET Nat
  BY <1>5
<1>8. 0 .. (n - 1) \subseteq 0 .. n /\ n \in 0 .. n /\ n \notin 0 .. (n - 1)
  BY <1>5
<1>9. <<0 .. (n - 1), 0 .. n>> \in R
  BY <1>7, <1>8 DEF R, StrictSubsetOrdering
<1> QED BY <1>4, <1>6, <1>9

-----------------------------------------------------------------------------
(* Sequences                                                               *)

\* A sequence that lists a finite set.
LEMMA SetToSeqFacts ==
  ASSUME NEW S, IsFiniteSet(S)
  PROVE  /\ SetToSeq(S) \in Seq(S)
         /\ ToSet(SetToSeq(S)) = S
<1> DEFINE c == Cardinality(S)
           f == SetToSeq(S)
<1>1. c \in Nat /\ ExistsBijection(1 .. c, S)
  BY FS_CardinalityType
<1>2. \E g \in [1 .. c -> S] : IsInjective(g)
  BY <1>1 DEF ExistsBijection, Bijection, Injection
<1>3. f \in [1 .. c -> S] /\ IsInjective(f)
  BY <1>2 DEF SetToSeq
<1>4. f \in Injection(1 .. c, S)
  BY <1>3 DEF Injection
<1>5. Cardinality(1 .. c) = c
  BY <1>1, FS_Interval
<1>6. f \in Surjection(1 .. c, S)
  BY <1>4, <1>5, FS_Injection
<1>7. \A x \in S : \E n \in 1 .. c : f[n] = x
  BY <1>6 DEF Surjection
<1> HIDE DEF f, c
<1>8. f \in Seq(S)
  BY <1>1, <1>3, SeqDef
<1>9. ToSet(f) = S
  BY <1>3, <1>7 DEF ToSet
<1> QED BY <1>8, <1>9 DEF f, c

-----------------------------------------------------------------------------
(* The ledger                                                              *)

\* The key and the verdict an item gets.
KeyOf(item) == LedgerKey(normalize_observation_item(item))
VerdictOn(item) == classify(normalize_observation_item(item))
KeysOf(items) == {KeyOf(items[n]) : n \in DOMAIN items}

\* Every item has its entry, with its verdict, and the other entries stay.
Merged(new, old, items) ==
    /\ DOMAIN new = DOMAIN old \union KeysOf(items)
    /\ \A n \in DOMAIN items : new[KeyOf(items[n])].classification = VerdictOn(items[n])
    /\ \A k \in DOMAIN old \ KeysOf(items) : new[k] = old[k]

\* reconcile, for a batch that is not longer than it may be.
LEMMA ReconcileFacts ==
  ASSUME NEW S, NEW items \in Seq(S), Accepted(items), NEW known, NEW b \in Nat, Len(items) <= b
  PROVE  Merged(reconcile(items, known, b), known, items)
<1>1. DOMAIN items = 1 .. Len(items) /\ Len(items) \in Nat
  BY LenProperties
<1>b. ~(b < Len(items))
  BY <1>1
<1> DEFINE normalized == [n \in DOMAIN items |-> normalize_observation_item(items[n])]
           T == {normalize_observation_item(items[n]) : n \in DOMAIN items}
           r == reconcile(items, known, b)
<1>2. normalized \in [1 .. Len(items) -> T]
  BY <1>1
<1>3. normalized \in Seq(T)
  BY <1>1, <1>2, SeqDef
<1>4. Len(normalized) = Len(items)
  BY <1>1, <1>2, <1>3, LenProperties
<1>5. SubSeq(normalized, 1, Len(items)) = normalized
  BY <1>3, <1>4, SubSeqFull
<1>7. validate_observation(items) = normalized
  BY DEF validate_observation
<1>8. ToSet(normalized) = T
  BY DEF ToSet
<1> DEFINE batch == SubSeq(validate_observation(items), 1,
                          IF b < Len(items) THEN b ELSE Len(items))
           made(B) == [k \in DOMAIN known \union {LedgerKey(item) : item \in B} |->
                         IF k \in {LedgerKey(item) : item \in B}
                         THEN Entry(known, CHOOSE i \in B : LedgerKey(i) = k) ELSE known[k]]
           keys == {LedgerKey(item) : item \in T}
<1>6. ToSet(batch) = T
  BY <1>b, <1>5, <1>7, <1>8
<1>9. r = made(T)
  <2>1. r = made(ToSet(batch))
    BY Zenon DEF reconcile
  <2> HIDE DEF batch, T, made, r
  <2> QED BY <1>6, <2>1
<1>10. keys = KeysOf(items)
  BY DEF KeysOf, KeyOf
<1>11. ASSUME NEW n \in DOMAIN items
       PROVE  r[KeyOf(items[n])].classification = VerdictOn(items[n])
  <2> DEFINE k == KeyOf(items[n])
             i == CHOOSE j \in T : LedgerKey(j) = k
  <2>1. normalize_observation_item(items[n]) \in T /\ LedgerKey(normalize_observation_item(items[n])) = k
    BY DEF KeyOf
  <2>2. i \in T /\ LedgerKey(i) = k
    BY <2>1
  <2>3. \A j \in T : LedgerKey(j) = k => j = normalize_observation_item(items[n])
    BY DEF Accepted, KeyOf
  <2>4. i = normalize_observation_item(items[n])
    BY <2>2, <2>3
  <2>5. r[k] = Entry(known, i)
    BY <1>9, <2>1
  <2> HIDE DEF i
  <2>6. Entry(known, i).classification = classify(i)
    BY DEF Entry
  <2> QED BY <2>4, <2>5, <2>6 DEF VerdictOn
<1> HIDE DEF T
<1> QED BY <1>9, <1>10, <1>11 DEF Merged

\* Where the chunks of b items end.
Ends(len, b, n) == IF n < (len + b - 1) \div b THEN n * b ELSE len

\* Multiplication by a batch size is monotonic.
LEMMA TimesGrows ==
  ASSUME NEW x \in Nat, NEW y \in Nat, NEW b \in Nat, x <= y
  PROVE  x * b <= y * b
<1>1. y * b = x * b + (y - x) * b /\ (y - x) * b \in Nat /\ x * b \in Nat
  BY Z3
<1> QED BY <1>1

\* The chunks ReconcileAll cuts a sequence into: each begins where the last one ended,
\* none is longer than a batch, and the last one ends at the end.
LEMMA ChunksFacts ==
  ASSUME NEW len \in Nat, NEW b \in Nat \ {0}
  PROVE  LET last == (len + b - 1) \div b
         IN  /\ last \in Nat
             /\ Ends(len, b, last) = len
             /\ last = 0 => len = 0
             /\ 0 < last => Ends(len, b, 0) = 0
             /\ \A n \in 1 .. last :
                   /\ Ends(len, b, n) \in 0 .. len
                   /\ Ends(len, b, n - 1) = (n - 1) * b
                   /\ Ends(len, b, n - 1) \in 0 .. Ends(len, b, n)
                   /\ Ends(len, b, n) - Ends(len, b, n - 1) <= b
<1> DEFINE last == (len + b - 1) \div b
<1>1. last \in Int /\ last * b <= len + b - 1 /\ len + b - 1 < last * b + b
  BY Z3
<1>2. last \in Nat
  BY <1>1, Z3
<1> HIDE DEF last
<1>3. last = 0 => len = 0
  BY <1>1
<1>4. ASSUME NEW n \in 1 .. last
      PROVE  /\ Ends(len, b, n) \in 0 .. len
             /\ Ends(len, b, n - 1) = (n - 1) * b
             /\ Ends(len, b, n - 1) \in 0 .. Ends(len, b, n)
             /\ Ends(len, b, n) - Ends(len, b, n - 1) <= b
  <2> DEFINE low == (n - 1) * b
             all == last * b
  <2>1. n \in Nat /\ n - 1 \in Nat /\ n - 1 < last /\ n <= last
    BY <1>2
  <2>2. low \in Nat /\ n * b = low + b /\ all \in Nat
    BY <2>1, <1>2, Z3
  <2>3. n < last => (n + 1) * b <= all
    BY <2>1, <1>2, TimesGrows
  <2>4. (n + 1) * b = low + b + b
    BY <2>1, <2>2, Z3
  <2>5. n * b <= all
    BY <2>1, <1>2, TimesGrows
  <2>6. Ends(len, b, n - 1) = low
    BY <2>1 DEF Ends, last
  <2>7. Ends(len, b, n) = IF n < last THEN n * b ELSE len
    BY DEF Ends, last
  <2>8. all <= len + b - 1 /\ len + b - 1 < all + b
    BY <1>1
  <2>9. n = last => all = n * b
    OBVIOUS
  <2>10. CASE n < last
    <3>1. low + b + b <= all /\ Ends(len, b, n) = low + b
      BY <2>2, <2>3, <2>4, <2>7, <2>10
    <3> HIDE DEF low, all
    <3>2. low + b <= len
      BY <3>1, <2>2, <2>8
    <3> QED BY <3>1, <3>2, <2>2, <2>6 DEF low
  <2>11. CASE n = last
    <3>1. all = low + b /\ Ends(len, b, n) = len
      BY <2>2, <2>7, <2>9, <2>11
    <3> HIDE DEF low, all
    <3>2. low <= len /\ len <= low + b
      BY <3>1, <2>2, <2>8
    <3> QED BY <3>1, <3>2, <2>2, <2>6 DEF low
  <2> QED BY <2>1, <2>10, <2>11, <1>2
<1>5. Ends(len, b, last) = len
  BY <1>2 DEF Ends, last
<1>6. 0 < last => Ends(len, b, 0) = 0
  BY DEF Ends, last
<1> QED BY <1>2, <1>3, <1>4, <1>5, <1>6 DEF last

\* engine.run: the chunks of an accepted observation, one after the other, leave an
\* entry with its verdict for every item, and no other key.
LEMMA ReconcileAllFacts ==
  ASSUME NEW S, NEW items \in Seq(S), Accepted(items), NEW known, NEW b \in Nat \ {0}
  PROVE  LET r == ReconcileAll(items, known, b)
         IN  /\ DOMAIN r = DOMAIN known \union KeysOf(items)
             /\ \A n \in DOMAIN items : r[KeyOf(items[n])].classification = VerdictOn(items[n])
<1> DEFINE len == Len(items)
           last == (len + b - 1) \div b
           ends(n) == Ends(len, b, n)
           chunk(n) == SubSeq(items, (n - 1) * b + 1, IF n < last THEN n * b ELSE len)
           body(f, m) == [n \in 0 .. m |-> IF n = 0 THEN known ELSE reconcile(chunk(n), f[n - 1], b)]
           after == CHOOSE f : f = body(f, last)
           r == ReconcileAll(items, known, b)
<1>1. len \in Nat /\ DOMAIN items = 1 .. len /\ \A n \in 1 .. len : items[n] \in S
  BY LenProperties, ElementOfSeq
<1>2. last \in Nat /\ ends(last) = len /\ (last = 0 => len = 0) /\ (0 < last => ends(0) = 0)
  BY <1>1, ChunksFacts
<1>3. \A n \in 1 .. last : /\ ends(n) \in 0 .. len /\ ends(n - 1) = (n - 1) * b
                           /\ ends(n - 1) \in 0 .. ends(n) /\ ends(n) - ends(n - 1) <= b
  BY <1>1, ChunksFacts
<1>4. \A n \in 1 .. last : chunk(n) = SubSeq(items, ends(n - 1) + 1, ends(n))
  BY <1>3 DEF Ends
<1>5. ASSUME NEW n \in 1 .. last
      PROVE  /\ chunk(n) \in Seq(S)
             /\ DOMAIN chunk(n) = 1 .. ends(n) - ends(n - 1)
             /\ Len(chunk(n)) <= b
             /\ \A i \in DOMAIN chunk(n) : ends(n - 1) + i \in 1 .. ends(n)
                                           /\ chunk(n)[i] = items[ends(n - 1) + i]
  <2> DEFINE lo == ends(n - 1)
             hi == ends(n)
  <2>1. lo \in Nat /\ hi \in Nat /\ lo <= hi /\ hi <= len /\ hi - lo <= b
    BY <1>1, <1>3
  <2> HIDE DEF lo, hi
  <2>2. \A i \in lo + 1 .. hi : items[i] \in S
    BY <1>1, <2>1
  <2> DEFINE c == SubSeq(items, lo + 1, hi)
  <2>3. /\ c \in Seq(S)
        /\ Len(c) = IF lo + 1 <= hi THEN hi - (lo + 1) + 1 ELSE 0
        /\ \A i \in 1 .. hi - (lo + 1) + 1 : c[i] = items[lo + 1 + i - 1]
    BY <2>1, <2>2, SubSeqProperties
  <2>4. chunk(n) = c
    BY <1>4 DEF lo, hi
  <2> HIDE DEF c, chunk
  <2>5. Len(c) = hi - lo /\ DOMAIN c = 1 .. hi - lo
    BY <2>1, <2>3, LenProperties
  <2>6. \A i \in 1 .. hi - lo : c[i] = items[lo + i] /\ lo + i \in 1 .. hi
    BY <2>1, <2>3
  <2> QED BY <2>1, <2>3, <2>4, <2>5, <2>6 DEF lo, hi
<1>6. ASSUME NEW n \in 1 .. last
      PROVE  Accepted(chunk(n))
  <2> DEFINE c == chunk(n)
             lo == ends(n - 1)
  <2>1. \A i \in DOMAIN c : c[i] = items[lo + i] /\ lo + i \in DOMAIN items
    <3>1. ends(n) \in 0 .. len
      BY <1>3
    <3> HIDE DEF c, lo, ends
    <3>2. 1 .. ends(n) \subseteq DOMAIN items
      BY <1>1, <3>1
    <3> QED BY <1>5, <3>2 DEF c, lo
  <2>2. DOMAIN c \subseteq Int /\ lo \in Int
    <3>1. lo \in Int
      BY <1>3
    <3>2. DOMAIN c = 1 .. (ends(n) - ends(n - 1))
      BY <1>5
    <3> HIDE DEF c, lo, ends
    <3> QED BY <3>1, <3>2
  <2> HIDE DEF c, lo
  <2>3. \A i \in DOMAIN c : normalize_observation_item(c[i]) # REJECTED
    BY <2>1 DEF Accepted
  <2>4. \A i, j \in DOMAIN c :
           LedgerKey(normalize_observation_item(c[i])) = LedgerKey(normalize_observation_item(c[j]))
             => lo + i = lo + j
    BY <2>1 DEF Accepted
  <2>5. \A i, j \in DOMAIN c : lo + i = lo + j => i = j
    BY <2>2
  <2> QED BY <2>3, <2>4, <2>5 DEF Accepted, c
<1> HIDE DEF chunk, ends, last
<1>7. \E f : f = body(f, last)
  <2> DEFINE G == {m \in Nat : \E f : f = body(f, m)}
  <2>1. 0 \in G
    <3> DEFINE f == [n \in 0 .. 0 |-> known]
    <3>1. f = body(f, 0)
      OBVIOUS
    <3> QED BY <3>1
  <2>2. ASSUME NEW m \in Nat, m \in G
        PROVE  m + 1 \in G
    <3>1. PICK f : f = body(f, m)
      BY <2>2
    <3> DEFINE g == [n \in 0 .. m + 1 |-> IF n = m + 1 THEN reconcile(chunk(m + 1), f[m], b) ELSE f[n]]
    <3>2. ASSUME NEW n \in 0 .. m + 1
          PROVE  g[n] = IF n = 0 THEN known ELSE reconcile(chunk(n), g[n - 1], b)
      <4>1. CASE n = m + 1
        BY <4>1
      <4>2. CASE n \in 0 .. m
        <5>1. f[n] = IF n = 0 THEN known ELSE reconcile(chunk(n), f[n - 1], b)
          BY <3>1, <4>2
        <5>2. n # 0 => g[n - 1] = f[n - 1]
          BY <4>2
        <5>3. g[n] = f[n]
          BY <4>2
        <5> QED BY <5>1, <5>2, <5>3
      <4> QED BY <4>1, <4>2
    <3>3. g = body(g, m + 1)
      BY <3>2
    <3> HIDE DEF body
    <3> QED BY <3>3
  <2> HIDE DEF G
  <2>3. last \in G
    BY <1>2, <2>1, <2>2, Induction
  <2> QED BY <2>3 DEF G
<1>8. after = body(after, last)
  BY <1>7
<1>9. r = after[last]
  BY <1>6 DEF ReconcileAll, chunk, last
<1> HIDE DEF after
<1>10. after[0] = known /\ \A n \in 1 .. last : after[n] = reconcile(chunk(n), after[n - 1], b)
  BY <1>2, <1>8
<1> DEFINE Done(n) == /\ DOMAIN after[n] = DOMAIN known \union {KeyOf(items[m]) : m \in 1 .. ends(n)}
                      /\ \A m \in 1 .. ends(n) :
                            after[n][KeyOf(items[m])].classification = VerdictOn(items[m])
<1>11. 0 < last => Done(0)
  <2> SUFFICES ASSUME 0 < last PROVE Done(0)
    OBVIOUS
  <2>1. 1 .. ends(0) = {}
    BY <1>2
  <2> QED BY <1>10, <2>1
<1>12. ASSUME NEW n \in 1 .. last, Done(n - 1)
       PROVE  Done(n)
  <2> DEFINE lo == ends(n - 1)
             hi == ends(n)
             c == chunk(n)
             old == after[n - 1]
             new == after[n]
  <2>1. lo \in Nat /\ hi \in Nat /\ lo <= hi /\ hi <= len
    BY <1>1, <1>3
  <2>2. /\ c \in Seq(S) /\ DOMAIN c = 1 .. hi - lo /\ Len(c) <= b
        /\ \A i \in 1 .. hi - lo : c[i] = items[lo + i]
    BY <1>5
  <2>3. new = reconcile(c, old, b) /\ Accepted(c)
    BY <1>6, <1>10
  <2>4. /\ DOMAIN old = DOMAIN known \union {KeyOf(items[m]) : m \in 1 .. lo}
        /\ \A m \in 1 .. lo : old[KeyOf(items[m])].classification = VerdictOn(items[m])
    BY <1>12
  <2>5. \A i, j \in 1 .. len : KeyOf(items[i]) = KeyOf(items[j]) => i = j
    BY <1>1 DEF Accepted, KeyOf
  <2> HIDE DEF lo, hi, c, old, new
  <2>6. /\ DOMAIN new = DOMAIN old \union KeysOf(c)
        /\ \A i \in DOMAIN c : new[KeyOf(c[i])].classification = VerdictOn(c[i])
        /\ \A k \in DOMAIN old \ KeysOf(c) : new[k] = old[k]
    <3>1. b \in Nat
      OBVIOUS
    <3>2. Merged(reconcile(c, old, b), old, c)
      BY <2>2, <2>3, <3>1, ReconcileFacts
    <3> QED BY <2>3, <3>2 DEF Merged
  <2>7. KeysOf(c) = {KeyOf(items[m]) : m \in lo + 1 .. hi}
    <3>1. \A i \in 1 .. hi - lo : lo + i \in lo + 1 .. hi
      BY <2>1
    <3>2. \A m \in lo + 1 .. hi : m - lo \in 1 .. hi - lo /\ lo + (m - lo) = m
      BY <2>1
    <3>3. \A i \in 1 .. hi - lo : c[i] = items[lo + i]
      BY <2>2
    <3>4. \A m \in lo + 1 .. hi : c[m - lo] = items[m]
      BY <3>2, <3>3
    <3> QED BY <2>2, <3>1, <3>2, <3>3, <3>4 DEF KeysOf
  <2>8. DOMAIN new = DOMAIN known \union {KeyOf(items[m]) : m \in 1 .. hi}
    <3>1. 1 .. hi = (1 .. lo) \union (lo + 1 .. hi)
      BY <2>1
    <3> QED BY <2>4, <2>6, <2>7, <3>1
  <2>9. ASSUME NEW m \in 1 .. hi
        PROVE  new[KeyOf(items[m])].classification = VerdictOn(items[m])
    <3>1. CASE m <= lo
      <4>1. m \in 1 .. lo /\ KeyOf(items[m]) \in DOMAIN old
        BY <2>1, <2>4, <3>1
      <4>2. KeyOf(items[m]) \notin KeysOf(c)
        BY <2>1, <2>5, <2>7, <3>1
      <4> QED BY <2>4, <2>6, <4>1, <4>2
    <3>2. CASE m > lo
      <4>1. m - lo \in DOMAIN c /\ c[m - lo] = items[m]
        BY <2>1, <2>2, <3>2
      <4> QED BY <2>6, <4>1
    <3> QED BY <2>1, <3>1, <3>2
  <2> QED BY <2>8, <2>9 DEF hi, new
<1>13. 0 < last => Done(last)
  <2> SUFFICES ASSUME 0 < last PROVE Done(last)
    OBVIOUS
  <2> DEFINE G == {n \in Nat : n <= last => Done(n)}
  <2>1. 0 \in G
    BY <1>11
  <2>2. ASSUME NEW n \in Nat, n \in G
        PROVE  n + 1 \in G
    <3>1. CASE n + 1 <= last
      <4>1. n + 1 \in 1 .. last /\ (n + 1) - 1 = n /\ n <= last
        BY <1>2, <3>1
      <4>2. Done(n)
        BY <2>2, <4>1
      <4> HIDE DEF Done
      <4>3. Done((n + 1) - 1)
        BY <4>1, <4>2
      <4> QED BY <1>12, <4>1, <4>3
    <3> QED BY <1>2, <3>1
  <2> HIDE DEF G
  <2>3. last \in G
    BY <1>2, <2>1, <2>2, Induction
  <2> QED BY <1>2, <2>3 DEF G
<1>14. CASE last = 0
  BY <1>1, <1>2, <1>9, <1>10, <1>14 DEF KeysOf
<1>15. CASE 0 < last
  BY <1>1, <1>2, <1>9, <1>13, <1>15 DEF KeysOf
<1> QED BY <1>2, <1>14, <1>15

\* The sources of the manifest.
LEMMA Manifest ==
  /\ Len(Specs) \in Nat /\ DOMAIN Specs = 1 .. Len(Specs)
  /\ \A n \in DOMAIN Specs : Specs[n] \in ToSet(Specs)
  /\ \A s \in ToSet(Specs) : \E n \in DOMAIN Specs : Specs[n] = s
  /\ \A m, n \in DOMAIN Specs : Specs[m] = Specs[n] => m = n
  /\ Required \subseteq ToSet(Specs) /\ Authorized \subseteq ToSet(Specs)
  /\ MaxAge \in Nat \ {0} /\ MaxNow \in Nat /\ BatchSize \in Nat \ {0}
  /\ NULL \notin Workers /\ NULL \notin Jobs /\ NULL \notin Int /\ NULL \notin States
<1>1. Specs \in Seq(Sources)
  BY WorkerAssumption
<1>2. Len(Specs) \in Nat /\ DOMAIN Specs = 1 .. Len(Specs)
  BY <1>1, LenProperties
<1>3. BatchSize \in Nat \ {0}
  BY WorkerAssumption
<1> QED BY <1>2, <1>3, WorkerAssumption, AdapterAssumption DEF ValidManifest, ToSet

\* The fields of a run.
LEMMA RunFields ==
  /\ DOMAIN NoRun = {"job", "started", "prior", "at", "pages", "items", "watermark", "captured",
                     "collections", "summary", "coverage", "retryable"}
  /\ NoRun.job = NULL /\ NoRun.started = 0 /\ NoRun.at = 1 /\ NoRun.pages = 0
  /\ NoRun.prior = [s \in ToSet(Specs) |-> NULL] /\ NoRun.items = {}
  /\ NoRun.watermark = WindowStart /\ NoRun.collections = <<>>
BY DEF NoRun

-----------------------------------------------------------------------------
(* What no step takes back.                                                *)

Onward ==
    /\ now' \in Nat /\ now <= now'
    /\ \A s \in ToSet(Specs) : born'[s] = born[s] \/ (born[s] = NULL /\ born'[s] = now)
    /\ \A s \in ToSet(Specs) : phase[s] = "done" => phase'[s] = "done"
    /\ DOMAIN ledger \subseteq DOMAIN ledger'
    /\ mails \subseteq mails'

\* An instant of the past keeps meaning the same items: what appears later is younger.
LEMMA OlderStays ==
  ASSUME WorkerTypeOK, Onward, NEW s \in ToSet(Specs), NEW t \in Int, t <= now, Older(s, t)'
  PROVE  Older(s, t)
<1>1. now \in Nat /\ born[s] \in Int \union {NULL}
  BY DEF WorkerTypeOK
<1> QED BY <1>1, Manifest DEF Onward, Older

\* A covered mark stays covered, for the ledger forgets no key.
LEMMA CoveredStays ==
  ASSUME WorkerTypeOK, Onward, NEW s \in ToSet(Specs), NEW m, Covered(s, m)
  PROVE  Covered(s, m)'
<1> SUFFICES ASSUME m # NULL PROVE Covered(s, m)'
  BY DEF Covered
<1>1. m \in Int /\ m <= now /\ (Older(s, m) => Known(s))
  BY DEF Covered
<1>2. m <= now'
  BY <1>1 DEF Onward, WorkerTypeOK
<1>3. Known(s) => Known(s)'
  BY DEF Onward, Known
<1>4. Older(s, m)' => Older(s, m)
  BY <1>1, OlderStays
<1> QED BY <1>1, <1>2, <1>3, <1>4 DEF Covered

\* So does one that counts on items still to be saved.
LEMMA ReachedStays ==
  ASSUME WorkerTypeOK, Onward, NEW s \in ToSet(Specs), NEW m, NEW items, Reached(s, m, items)
  PROVE  Reached(s, m, items)'
<1> SUFFICES ASSUME m # NULL PROVE Reached(s, m, items)'
  BY DEF Reached
<1>1. m \in Int /\ m <= now /\ (Older(s, m) => items # {} \/ Known(s))
  BY DEF Reached
<1>2. m <= now'
  BY <1>1 DEF Onward, WorkerTypeOK
<1>3. Known(s) => Known(s)'
  BY DEF Onward, Known
<1>4. Older(s, m)' => Older(s, m)
  BY <1>1, OlderStays
<1> QED BY <1>1, <1>2, <1>3, <1>4 DEF Reached

\* A complete collection stays one.
LEMMA ToldStays ==
  ASSUME WorkerTypeOK, Onward, NEW s \in ToSet(Specs), NEW t \in Int, t <= now, NEW items,
         Told(s, t, items)
  PROVE  Told(s, t, items)'
<1>1. t - MaxAge \in Int /\ t - MaxAge <= now
  BY Manifest DEF WorkerTypeOK
<1>2. Older(s, t - MaxAge)' => Older(s, t - MaxAge)
  BY <1>1, OlderStays
<1> QED BY <1>2 DEF Told

\* What was gathered stays genuine: an item that is done stays done.
LEMMA GatheredStays ==
  ASSUME Onward, NEW s \in ToSet(Specs), NEW items, Gathered(s, items)
  PROVE  Gathered(s, items)'
BY DEF Onward, Gathered, Genuine

\* What is settled stays settled.
LEMMA SettledStays ==
  ASSUME WorkerTypeOK, Onward, NEW t \in Int, t <= now, Settled(t)
  PROVE  Settled(t)'
<1>1. t - MaxAge \in Int /\ t - MaxAge <= now
  BY Manifest DEF WorkerTypeOK
<1>2. ASSUME NEW s \in Required, Older(s, t - MaxAge)'
      PROVE  phase'[s] = "done"
  <2>1. Older(s, t - MaxAge)
    BY <1>1, <1>2, OlderStays, Manifest
  <2> QED BY <2>1, Manifest DEF Settled, Onward
<1> QED BY <1>2 DEF Settled

\* A receipt keeps telling the truth.
LEMMA ToldByStays ==
  ASSUME WorkerTypeOK, Onward, NEW s \in ToSet(Specs), NEW t \in Int, t <= now, NEW c,
         ToldBy(s, t, c)
  PROVE  ToldBy(s, t, c)'
<1>1. Told(s, t, c.items) => Told(s, t, c.items)'
  BY ToldStays
<1> QED BY <1>1 DEF ToldBy

\* A run that rests keeps what it relies on.
LEMMA RunStays ==
  ASSUME WorkerTypeOK, Onward, NEW w \in Workers, RunInv(w),
         pc'[w] = pc[w], run'[w] = run[w]
  PROVE  RunInv(w)'
<1>n. now \in Nat /\ now' \in Nat /\ now <= now'
  BY DEF WorkerTypeOK, Onward
<1>1. /\ DOMAIN run'[w] = DOMAIN NoRun
      /\ run[w].started \in Int /\ run[w].started <= now
      /\ run'[w].started \in Int /\ run'[w].started <= now'
      /\ pc'[w] \notin {"idle", "down"} => run'[w].job \in Jobs
  BY <1>n DEF RunInv
<1>2. ASSUME CollectingInv(w)
      PROVE  CollectingInv(w)'
  <2>1. ASSUME NEW n \in 1 .. run[w].at - 1
        PROVE  /\ Gathered(Specs[n], run[w].collections[n].items)'
               /\ Reached(Specs[n], run[w].collections[n].mark, run[w].collections[n].items)'
               /\ ToldBy(Specs[n], run[w].started, run[w].collections[n])'
    <3> DEFINE c == run[w].collections[n]
               s == Specs[n]
    <3>1. s \in ToSet(Specs)
      BY <1>2, Manifest DEF CollectingInv
    <3>2. Gathered(s, c.items) /\ Reached(s, c.mark, c.items) /\ ToldBy(s, run[w].started, c)
      BY <1>2 DEF CollectingInv
    <3>3. run'[w].collections[n] = c
      OBVIOUS
    <3>4. Gathered(s, c.items)'
      BY <3>1, <3>2, <3>3, GatheredStays
    <3>5. Reached(s, c.mark, c.items)'
      BY <3>1, <3>2, <3>3, ReachedStays
    <3>6. ToldBy(s, run[w].started, c)'
      BY <1>1, <3>1, <3>2, <3>3, ToldByStays
    <3> QED BY <3>4, <3>5, <3>6
  <2>2. \A s \in ToSet(Specs) : Covered(s, run[w].prior[s])'
    BY <1>2, CoveredStays DEF CollectingInv
  <2>3. (run[w].at <= Len(Specs) => Gathered(Specs[run[w].at], run[w].items))'
    <3> SUFFICES ASSUME run[w].at <= Len(Specs) PROVE Gathered(Specs[run[w].at], run[w].items)'
      OBVIOUS
    <3>1. Specs[run[w].at] \in ToSet(Specs)
      BY <1>2, Manifest DEF CollectingInv
    <3>2. Gathered(Specs[run[w].at], run[w].items)
      BY <1>2 DEF CollectingInv
    <3> QED BY <3>1, <3>2, GatheredStays
  <2>4. run[w].watermark \in Int /\ run[w].watermark <= now'
    BY <1>n, <1>2 DEF CollectingInv
  <2> QED BY <1>2, <2>1, <2>2, <2>3, <2>4 DEF CollectingInv
<1>3. ASSUME SavingInv(w)
      PROVE  SavingInv(w)'
  <2>1. ASSUME NEW n \in DOMAIN Specs
        PROVE  /\ Gathered(Specs[n], run[w].collections[n].items)'
               /\ Reached(Specs[n], run[w].collections[n].mark, run[w].collections[n].items)'
               /\ (run[w].coverage /\ Specs[n] \in Required =>
                     Told(Specs[n], run[w].started, run[w].collections[n].items))'
    <3> DEFINE c == run[w].collections[n]
               s == Specs[n]
    <3>1. s \in ToSet(Specs)
      BY Manifest
    <3>2. Gathered(s, c.items) /\ Reached(s, c.mark, c.items)
      BY <1>3 DEF SavingInv
    <3>3. run[w].coverage /\ s \in Required => Told(s, run[w].started, c.items)
      BY <1>3 DEF SavingInv
    <3>4. Gathered(s, c.items)'
      BY <3>1, <3>2, GatheredStays
    <3>5. Reached(s, c.mark, c.items)'
      BY <3>1, <3>2, ReachedStays
    <3>6. (run[w].coverage /\ s \in Required => Told(s, run[w].started, c.items))'
      BY <1>1, <3>1, <3>3, ToldStays
    <3> QED BY <3>4, <3>5, <3>6
  <2>2. AllItems(w)' = AllItems(w)
    BY DEF AllItems
  <2>3. Accepted(SetToSeq(AllItems(w)))'
    BY <1>3, <2>2 DEF SavingInv
  <2>4. (DOMAIN run[w].collections = DOMAIN Specs)'
    BY <1>3 DEF SavingInv
  <2> QED BY <2>1, <2>3, <2>4 DEF SavingInv
<1>4. ASSUME SavedInv(w)
      PROVE  SavedInv(w)'
  <2>1. ASSUME NEW n \in DOMAIN Specs
        PROVE  Covered(Specs[n], run[w].collections[n].mark)'
    BY <1>4, Manifest, CoveredStays DEF SavedInv
  <2> QED BY <1>4, <2>1 DEF SavedInv
<1>5. succeeded(w)' = succeeded(w)
  BY DEF succeeded
<1>6. Settled(run[w].started) => Settled(run[w].started)'
  BY <1>1, SettledStays
<1>7. (run[w].job \in mails => run[w].job \in mails')
  BY DEF Onward
<1> QED BY <1>1, <1>2, <1>3, <1>4, <1>5, <1>6, <1>7 DEF RunInv

\* A job nobody touches keeps its part of the invariant.
LEMMA JobStays ==
  ASSUME WorkerTypeOK, Onward, NEW j \in Jobs, JobInv(j),
         job'[j].status = "succeeded" => job[j].status = "succeeded", basis'[j] = basis[j]
  PROVE  JobInv(j)'
<1> SUFFICES ASSUME job'[j].status = "succeeded" PROVE JobInv(j)'
  BY DEF JobInv
<1>1. /\ basis[j] \in Int /\ basis[j] <= now /\ Settled(basis[j])
      /\ MailConfigured => j \in mails
  BY DEF JobInv
<1>2. Settled(basis[j])'
  BY <1>1, SettledStays
<1>3. basis[j] <= now'
  BY <1>1 DEF WorkerTypeOK, Onward
<1> QED BY <1>1, <1>2, <1>3 DEF JobInv, Onward

\* A step of one worker.
LEMMA Assemble ==
  ASSUME WorkerInv, Onward, WorkerTypeOK', NEW w \in Workers, RunInv(w)',
         \A v \in Workers \ {w} : pc'[v] = pc[v] /\ run'[v] = run[v],
         \A s \in ToSet(Specs) : Covered(s, cursors[s])',
         \A j \in Jobs : JobInv(j)'
  PROVE  WorkerInv'
<1>1. ASSUME NEW v \in Workers \ {w}
      PROVE  RunInv(v)'
  BY <1>1, RunStays DEF WorkerInv
<1> QED BY <1>1 DEF WorkerInv

\* A step that leaves the world and the ledger alone moves it onward.
LEMMA StayOnward ==
  ASSUME WorkerTypeOK, UNCHANGED <<now, world, ledger>>, mails \subseteq mails'
  PROVE  Onward
BY DEF WorkerTypeOK, Onward, world

\* A step that moves one worker, and nothing that others rely on.
LEMMA Moves ==
  ASSUME WorkerInv, NEW w \in Workers, NEW there \in Places,
         UNCHANGED <<now, world, cursors, ledger, basis>>, mails \subseteq mails',
         DOMAIN job' = Jobs,
         \A j \in Jobs : /\ DOMAIN job'[j] = {"status", "holder", "attempts"}
                         /\ job'[j].status = "succeeded" => job[j].status = "succeeded",
         Goto(w, there), DOMAIN run' = Workers,
         \A v \in Workers \ {w} : run'[v] = run[v],
         RunInv(w)'
  PROVE  WorkerInv'
<1>1. WorkerTypeOK /\ \A j \in Jobs : JobInv(j)
  BY DEF WorkerInv
<1>2. Onward
  BY <1>1, StayOnward
<1>3. pc' \in [Workers -> Places] /\ \A v \in Workers \ {w} : pc'[v] = pc[v]
  BY <1>1 DEF WorkerTypeOK, Goto
<1>4. WorkerTypeOK'
  BY <1>1, <1>3 DEF WorkerTypeOK, world
<1>5. \A s \in ToSet(Specs) : Covered(s, cursors[s])'
  BY <1>1, <1>2, CoveredStays DEF WorkerInv
<1>6. \A j \in Jobs : JobInv(j)'
  BY <1>1, <1>2, JobStays
<1> QED BY <1>2, <1>3, <1>4, <1>5, <1>6, Assemble

\* A step of one worker that changes nothing but its run.
LEMMA MovesAlone ==
  ASSUME WorkerInv, NEW w \in Workers, NEW there \in Places,
         UNCHANGED <<now, world, job, cursors, ledger, basis>>, mails \subseteq mails',
         Goto(w, there), DOMAIN run' = Workers,
         \A v \in Workers \ {w} : run'[v] = run[v],
         RunInv(w)'
  PROVE  WorkerInv'
<1>1. DOMAIN job = Jobs /\ \A j \in Jobs : DOMAIN job[j] = {"status", "holder", "attempts"}
  BY DEF WorkerInv, WorkerTypeOK
<1> QED BY <1>1, Moves

\* A run that ended.
LEMMA AttemptEnds ==
  ASSUME WorkerInv, now' = now, NEW w \in Workers, pc'[w] \in {"idle", "down"}, run'[w] = NoRun
  PROVE  RunInv(w)'
BY RunFields DEF WorkerInv, WorkerTypeOK, RunInv

\* A worker that dies forgets its run and lets go of the file lock.
LEMMA Dying ==
  ASSUME WorkerInv, NEW w \in Workers, Dies(w),
         UNCHANGED <<now, world, job, cursors, ledger, mails, basis>>
  PROVE  WorkerInv'
<1>1. DOMAIN run = Workers /\ pc \in [Workers -> Places]
  BY DEF WorkerInv, WorkerTypeOK
<1>2. Goto(w, "down") /\ pc'[w] = "down"
  BY <1>1 DEF Dies, Goto
<1>3. DOMAIN run' = Workers /\ run'[w] = NoRun /\ \A v \in Workers \ {w} : run'[v] = run[v]
  BY <1>1 DEF Dies
<1>4. RunInv(w)'
  BY <1>2, <1>3, AttemptEnds
<1> QED BY <1>2, <1>3, <1>4, MovesAlone DEF Places

\* A run that raises may rely on nothing any more.
LEMMA Raising ==
  ASSUME WorkerInv, NEW w \in Workers, pc[w] \notin {"idle", "down"}, NEW r, Raise(w, r),
         UNCHANGED <<now, world, job, cursors, ledger, basis>>, mails \subseteq mails'
  PROVE  WorkerInv'
<1>1. DOMAIN run = Workers /\ pc \in [Workers -> Places] /\ RunInv(w)
  BY DEF WorkerInv, WorkerTypeOK
<1>2. Goto(w, "failing") /\ pc'[w] = "failing"
  BY <1>1 DEF Raise, Goto
<1>3. /\ DOMAIN run' = Workers /\ \A v \in Workers \ {w} : run'[v] = run[v]
      /\ run'[w] = [run[w] EXCEPT !.retryable = r]
  BY <1>1 DEF Raise
<1>4. RunInv(w)'
  BY <1>1, <1>2, <1>3, RunFields DEF RunInv
<1> QED BY <1>2, <1>3, <1>4, MovesAlone DEF Places

-----------------------------------------------------------------------------
(* The steps of the coordinator, of the sources and of the clock           *)

\* The invariant holds at the start.
LEMMA InitWorker == Init => WorkerInv
<1> SUFFICES ASSUME Init PROVE WorkerInv
  OBVIOUS
<1>1. WorkerTypeOK
  BY FS_EmptySet DEF Init, WorkerTypeOK, EmptyLedger, Places
<1>2. \A s \in ToSet(Specs) : Covered(s, cursors[s])
  BY DEF Init, Covered
<1>3. \A w \in Workers : RunInv(w)
  BY RunFields DEF Init, RunInv
<1>4. \A j \in Jobs : JobInv(j)
  BY DEF Init, JobInv
<1> QED BY <1>1, <1>2, <1>3, <1>4 DEF WorkerInv

\* A step that moves no worker.
LEMMA Elsewhere ==
  ASSUME WorkerInv, Onward, WorkerTypeOK', UNCHANGED <<cursors, pc, run, basis>>,
         \A j \in Jobs : job'[j].status = "succeeded" => job[j].status = "succeeded"
  PROVE  WorkerInv'
<1>1. WorkerTypeOK /\ (\A j \in Jobs : JobInv(j)) /\ (\A w \in Workers : RunInv(w))
  BY DEF WorkerInv
<1>2. \A w \in Workers : RunInv(w)'
  BY <1>1, RunStays
<1>3. \A j \in Jobs : JobInv(j)'
  BY <1>1, JobStays
<1>4. \A s \in ToSet(Specs) : Covered(s, cursors[s])'
  BY <1>1, CoveredStays DEF WorkerInv
<1> QED BY <1>2, <1>3, <1>4 DEF WorkerInv

\* The sweep requeues or fails a job whose lease ran out; it makes none succeed.
LEMMA LeaseExpiresStep ==
  ASSUME WorkerInv, NEW j \in Jobs, LeaseExpires(j) PROVE WorkerInv'
<1>1. WorkerTypeOK
  BY DEF WorkerInv
<1>2. /\ UNCHANGED <<now, world, cursors, ledger, pc, run, mails, basis>>
      /\ job' = [job EXCEPT ![j] = Retried(job[j])]
  BY DEF LeaseExpires, files
<1>3. DOMAIN Retried(job[j]) = DOMAIN job[j] /\ Retried(job[j]).status # "succeeded"
  BY <1>1 DEF Retried, WorkerTypeOK
<1>4. WorkerTypeOK'
  BY <1>1, <1>2, <1>3 DEF WorkerTypeOK, world
<1>5. Onward
  BY <1>1, <1>2, StayOnward
<1>6. \A i \in Jobs : job'[i].status = "succeeded" => job[i].status = "succeeded"
  BY <1>1, <1>2, <1>3 DEF WorkerTypeOK
<1> QED BY <1>2, <1>4, <1>5, <1>6, Elsewhere

\* Items appear and are resolved, and time passes.
LEMMA WorldStep ==
  ASSUME WorkerInv, (\E s \in Authorized : Appears(s) \/ Resolved(s)) \/ Tick PROVE WorkerInv'
<1>1. WorkerTypeOK
  BY DEF WorkerInv
<1>2. UNCHANGED <<job, cursors, ledger, pc, run, mails, basis>>
  BY DEF Appears, Resolved, Tick, files
<1>3. Onward /\ WorkerTypeOK'
  <2>1. ASSUME NEW s \in Authorized, Appears(s)
        PROVE  Onward /\ WorkerTypeOK'
    <3>1. s \in ToSet(Specs) /\ born[s] = NULL /\ born' = [born EXCEPT ![s] = now]
          /\ now' = now /\ phase' = phase
      BY <2>1, Manifest DEF Appears
    <3> QED BY <1>1, <1>2, <3>1 DEF Onward, WorkerTypeOK
  <2>2. ASSUME NEW s \in Authorized, Resolved(s)
        PROVE  Onward /\ WorkerTypeOK'
    <3>1. s \in ToSet(Specs) /\ phase' = [phase EXCEPT ![s] = "done"] /\ now' = now /\ born' = born
      BY <2>2, Manifest DEF Resolved
    <3> QED BY <1>1, <1>2, <3>1 DEF Onward, WorkerTypeOK
  <2>3. ASSUME Tick
        PROVE  Onward /\ WorkerTypeOK'
    <3>1. now' = now + 1 /\ born' = born /\ phase' = phase
      BY <2>3 DEF Tick, world
    <3> QED BY <1>1, <1>2, <3>1, Manifest DEF Onward, WorkerTypeOK
  <2> QED BY <2>1, <2>2, <2>3
<1> QED BY <1>2, <1>3, Elsewhere

-----------------------------------------------------------------------------
(* The steps of a worker outside its run                                   *)

\* A claim starts a run that knows nothing yet.
LEMMA ClaimStep ==
  ASSUME WorkerInv, NEW w \in Workers, Claim(w) PROVE WorkerInv'
<1>1. WorkerTypeOK /\ pc[w] = "idle" /\ RunInv(w)
  BY DEF WorkerInv, Claim
<1>2. UNCHANGED <<now, world, cursors, ledger, basis>> /\ mails' = mails
  BY DEF Claim, files
<1>3. PICK j \in Jobs, r \in request :
        /\ job' = Claimed(j, w)
        /\ Goto(w, IF r.good THEN "begin" ELSE IF r.retryable THEN "idle" ELSE "down")
        /\ run' = IF r.good THEN [run EXCEPT ![w] = [NoRun EXCEPT !.job = j]] ELSE run
  BY DEF Claim
<1>4. /\ DOMAIN job' = Jobs
      /\ \A i \in Jobs : /\ DOMAIN job'[i] = {"status", "holder", "attempts"}
                         /\ job'[i].status = "succeeded" => job[i].status = "succeeded"
  BY <1>1, <1>3 DEF WorkerTypeOK, Claimed
<1> DEFINE there == IF r.good THEN "begin" ELSE IF r.retryable THEN "idle" ELSE "down"
<1>5. there \in Places
  BY DEF Places
<1>6. DOMAIN run' = Workers /\ \A v \in Workers \ {w} : run'[v] = run[v]
  BY <1>1, <1>3 DEF WorkerTypeOK
<1>7. pc'[w] = there /\ now \in Nat
  BY <1>1, <1>3 DEF WorkerTypeOK, Goto
<1>8. RunInv(w)'
  <2>1. CASE r.good
    <3>1. pc'[w] = "begin" /\ run'[w] = [NoRun EXCEPT !.job = j]
      BY <1>1, <1>3, <1>7, <2>1 DEF WorkerTypeOK
    <3>2. CollectingInv(w)'
      <4>1. /\ run'[w].at = 1 /\ run'[w].pages = 0 /\ run'[w].items = {}
            /\ run'[w].watermark = WindowStart
            /\ run'[w].prior = [s \in ToSet(Specs) |-> NULL] /\ run'[w].collections = <<>>
        BY <3>1, RunFields
      <4>2. WindowStart \in Int /\ WindowStart <= now
        BY <1>7, Manifest DEF WindowStart
      <4>3. \A s \in ToSet(Specs) : Covered(s, run[w].prior[s])'
        BY <4>1 DEF Covered
      <4>4. 1 .. run'[w].at - 1 = {}
        BY <4>1
      <4>5. (run[w].at <= Len(Specs) => Gathered(Specs[run[w].at], run[w].items))'
        BY <4>1, FS_EmptySet DEF Gathered
      <4>6. run'[w].collections = [n \in 1 .. run'[w].at - 1 |-> run'[w].collections[n]]
        BY <4>1, <4>4
      <4> QED BY <1>2, <4>1, <4>2, <4>3, <4>4, <4>5, <4>6, Manifest DEF CollectingInv
    <3> QED BY <1>2, <1>7, <3>1, <3>2, RunFields DEF RunInv
  <2>2. CASE ~r.good
    BY <1>1, <1>2, <1>3, <1>7, <2>2 DEF RunInv
  <2> QED BY <2>1, <2>2
<1> HIDE DEF there
<1>9. Goto(w, there)
  BY <1>3 DEF there
<1> QED BY <1>2, <1>4, <1>5, <1>6, <1>8, <1>9, Moves

\* The failure report never makes a job succeed.
LEMMA ReportFailureStep ==
  ASSUME WorkerInv, NEW w \in Workers, ReportFailure(w) PROVE WorkerInv'
<1>1. WorkerTypeOK /\ pc[w] = "failing" /\ RunInv(w)
  BY DEF WorkerInv, ReportFailure
<1>2. UNCHANGED <<now, world, cursors, ledger, basis>> /\ mails' = mails
  BY DEF ReportFailure, files
<1> DEFINE there == IF run[w].retryable THEN "idle" ELSE "down"
           j == run[w].job
<1>3. Goto(w, there) /\ there \in Places /\ pc'[w] = there
  BY <1>1 DEF ReportFailure, Goto, Places, WorkerTypeOK
<1>4. /\ DOMAIN run' = Workers /\ run'[w] = NoRun
      /\ \A v \in Workers \ {w} : run'[v] = run[v]
  BY <1>1 DEF ReportFailure, WorkerTypeOK
<1>5. j \in Jobs
  BY <1>1 DEF RunInv
<1>6. /\ DOMAIN job' = Jobs
      /\ \A i \in Jobs : /\ DOMAIN job'[i] = {"status", "holder", "attempts"}
                         /\ job'[i].status = "succeeded" => job[i].status = "succeeded"
  <2>1. CASE job' = job
    BY <1>1, <2>1 DEF WorkerTypeOK
  <2>2. CASE job' = [job EXCEPT ![j] = FailedRow(w)]
    <3>1. DOMAIN FailedRow(w) = DOMAIN job[j] /\ FailedRow(w).status # "succeeded"
      BY <1>1, <1>5 DEF FailedRow, Retried, WorkerTypeOK
    <3> QED BY <1>1, <1>5, <2>2, <3>1 DEF WorkerTypeOK
  <2> QED BY <2>1, <2>2 DEF ReportFailure
<1>7. RunInv(w)'
  BY <1>2, <1>3, <1>4, AttemptEnds
<1> HIDE DEF there
<1> QED BY <1>2, <1>3, <1>4, <1>6, <1>7, Moves

\* A worker without a run stops or comes back.
LEMMA IdleStep ==
  ASSUME WorkerInv, NEW w \in Workers, Stop(w) \/ Restart(w) PROVE WorkerInv'
<1>1. WorkerTypeOK /\ RunInv(w) /\ pc[w] \in {"idle", "down"}
  BY DEF WorkerInv, Stop, Restart
<1>2. UNCHANGED <<now, world, job, cursors, ledger, basis>> /\ mails' = mails /\ run' = run
  BY DEF Stop, Restart, files
<1>3. PICK there \in {"idle", "down"} : Goto(w, there)
  BY DEF Stop, Restart
<1>4. pc'[w] = there
  BY <1>1, <1>3 DEF WorkerTypeOK, Goto
<1>5. RunInv(w)'
  BY <1>1, <1>2, <1>4 DEF RunInv
<1>6. there \in Places /\ DOMAIN run' = Workers
  BY <1>1, <1>2 DEF Places, WorkerTypeOK
<1> QED BY <1>2, <1>3, <1>5, <1>6, MovesAlone

\* A kill.
LEMMA KilledStep ==
  ASSUME WorkerInv, NEW w \in Workers, Killed(w) PROVE WorkerInv'
BY Dying DEF Killed

\* The wait for the file lock is over.
LEMMA FenceTimeoutStep ==
  ASSUME WorkerInv, NEW w \in Workers, FenceTimeout(w) PROVE WorkerInv'
<1>1. pc[w] \notin {"idle", "down"} /\ Raise(w, TRUE)
  BY DEF FenceTimeout
<1>2. UNCHANGED <<now, world, job, cursors, ledger, basis>> /\ mails' = mails
  BY DEF FenceTimeout, files
<1> QED BY <1>1, <1>2, Raising

\* The run begins to collect when its payload is valid and the lock is taken.
LEMMA BeginStep ==
  ASSUME WorkerInv, NEW w \in Workers, Begin(w) PROVE WorkerInv'
<1>1. WorkerTypeOK /\ pc[w] = "begin" /\ RunInv(w) /\ now \in Nat
  BY DEF WorkerInv, Begin, WorkerTypeOK
<1>2. UNCHANGED <<now, world, job, cursors, ledger, basis>> /\ mails' = mails
  BY DEF Begin, files
<1>3. CASE Raise(w, FALSE)
  BY <1>1, <1>2, <1>3, Raising
<1>4. CASE /\ run' = [run EXCEPT ![w].started = now, ![w].captured = now]
           /\ Goto(w, "cursors")
  <2>1. /\ DOMAIN run' = Workers /\ \A v \in Workers \ {w} : run'[v] = run[v]
        /\ run'[w] = [run[w] EXCEPT !.started = now, !.captured = now]
    BY <1>1, <1>4 DEF WorkerTypeOK
  <2>2. pc'[w] = "cursors" /\ Goto(w, "cursors")
    BY <1>1, <1>4 DEF Goto, WorkerTypeOK
  <2>3. /\ DOMAIN run'[w] = DOMAIN NoRun /\ run'[w].started = now /\ run'[w].job = run[w].job
        /\ run'[w].at = run[w].at /\ run'[w].pages = run[w].pages
        /\ run'[w].watermark = run[w].watermark /\ run'[w].prior = run[w].prior
        /\ run'[w].items = run[w].items /\ run'[w].collections = run[w].collections
    BY <1>1, <2>1, RunFields DEF RunInv
  <2>4. CollectingInv(w) /\ run[w].at = 1
    BY <1>1 DEF RunInv, CollectingInv
  <2>5. ASSUME NEW s \in ToSet(Specs)
        PROVE  Covered(s, run[w].prior[s])'
    <3>1. Covered(s, run[w].prior[s]) /\ Onward
      BY <1>1, <1>2, <2>4, StayOnward DEF CollectingInv
    <3> QED BY <1>1, <2>3, <3>1, CoveredStays
  <2>6. (run[w].at <= Len(Specs) => Gathered(Specs[run[w].at], run[w].items))'
    BY <1>2, <2>3, <2>4 DEF CollectingInv, Gathered, Genuine, world
  <2>7. 1 .. run[w].at - 1 = {}
    BY <2>4
  <2>8. CollectingInv(w)'
    BY <1>2, <2>3, <2>4, <2>5, <2>6, <2>7 DEF CollectingInv
  <2>9. RunInv(w)'
    BY <1>1, <1>2, <2>2, <2>3, <2>8 DEF RunInv
  <2>10. "cursors" \in Places
    BY DEF Places
  <2> QED BY <1>2, <2>1, <2>2, <2>9, <2>10, MovesAlone
<1> DEFINE good == /\ validate_job(Payload[run[w].job])
                   /\ enforce_job_contract(Payload[run[w].job])
                   /\ Payload[run[w].job].scheduled_for <= now + 3600
<1>5. IF good THEN /\ run' = [run EXCEPT ![w].started = now, ![w].captured = now]
                   /\ Goto(w, "cursors")
      ELSE Raise(w, FALSE)
  BY Zenon DEF Begin
<1> HIDE DEF good
<1> QED BY <1>3, <1>4, <1>5

\* The marks a run reads are covered, and stay so.
LEMMA ReadCursorsStep ==
  ASSUME WorkerInv, NEW w \in Workers, ReadCursors(w) PROVE WorkerInv'
<1>1. WorkerTypeOK /\ pc[w] = "cursors" /\ RunInv(w)
  BY DEF WorkerInv, ReadCursors
<1>2. UNCHANGED <<now, world, job, cursors, ledger, basis>> /\ mails' = mails
  BY DEF ReadCursors, files
<1>3. /\ DOMAIN run' = Workers /\ \A v \in Workers \ {w} : run'[v] = run[v]
      /\ run'[w] = [run[w] EXCEPT !.prior = cursors]
  BY <1>1 DEF WorkerTypeOK, ReadCursors
<1>4. Goto(w, "collect") /\ pc'[w] = "collect"
  BY <1>1 DEF ReadCursors, Goto, WorkerTypeOK
<1>5. /\ DOMAIN run'[w] = DOMAIN NoRun /\ run'[w].started = run[w].started
      /\ run'[w].job = run[w].job /\ run'[w].prior = cursors
      /\ run'[w].at = run[w].at /\ run'[w].pages = run[w].pages
      /\ run'[w].watermark = run[w].watermark
      /\ run'[w].items = run[w].items /\ run'[w].collections = run[w].collections
  BY <1>1, <1>3, RunFields DEF RunInv
<1>6. CollectingInv(w) /\ run[w].at = 1 /\ 1 .. run[w].at - 1 = {}
  BY <1>1 DEF RunInv, CollectingInv
<1>7. ASSUME NEW s \in ToSet(Specs)
      PROVE  Covered(s, run[w].prior[s])'
  <2>1. Covered(s, cursors[s]) /\ Onward
    BY <1>1, <1>2, StayOnward DEF WorkerInv
  <2> QED BY <1>1, <1>5, <2>1, CoveredStays
<1>8. (run[w].at <= Len(Specs) => Gathered(Specs[run[w].at], run[w].items))'
  BY <1>2, <1>5, <1>6 DEF CollectingInv, Gathered, Genuine, world
<1>9. cursors \in [ToSet(Specs) -> Int \union {NULL}]
  BY <1>1 DEF WorkerTypeOK
<1>10. CollectingInv(w)'
  BY <1>2, <1>5, <1>6, <1>7, <1>8, <1>9 DEF CollectingInv
<1>11. RunInv(w)'
  BY <1>1, <1>2, <1>4, <1>5, <1>10 DEF RunInv
<1> QED BY <1>2, <1>3, <1>4, <1>11, MovesAlone DEF Places

\* The report of a run that succeeded is of settled sources.
LEMMA ReportStep ==
  ASSUME WorkerInv, NEW w \in Workers, Report(w) PROVE WorkerInv'
<1>1. WorkerTypeOK /\ pc[w] = "report" /\ RunInv(w)
  BY DEF WorkerInv, Report
<1>2. UNCHANGED <<now, world, job, cursors, ledger, basis>>
  BY DEF Report, files
<1>3. PICK delivery \in deliver_report_email :
        /\ mails' = IF delivery.sent THEN mails \union {run[w].job} ELSE mails
        /\ IF delivery.raises THEN Raise(w, TRUE) ELSE Goto(w, "leave") /\ UNCHANGED run
  BY DEF Report
<1>4. mails \subseteq mails'
  BY <1>3
<1>5. CASE delivery.raises
  BY <1>1, <1>2, <1>3, <1>4, <1>5, Raising
<1>6. CASE ~delivery.raises
  <2>1. pc'[w] = "leave" /\ run' = run /\ Goto(w, "leave")
    BY <1>1, <1>3, <1>6 DEF Goto, WorkerTypeOK
  <2>2. MailConfigured => run[w].job \in mails'
    <3> SUFFICES ASSUME MailConfigured PROVE delivery.sent
      BY <1>3
    <3>1. delivery \in {[sent |-> TRUE, raises |-> FALSE]} \union [sent : BOOLEAN, raises : {TRUE}]
      BY DEF deliver_report_email
    <3>2. delivery \notin [sent : BOOLEAN, raises : {TRUE}]
      BY <1>6
    <3>3. delivery = [sent |-> TRUE, raises |-> FALSE]
      BY <3>1, <3>2
    <3> QED BY <3>3
  <2>3. succeeded(w)' = succeeded(w)
    BY <2>1 DEF succeeded
  <2>4. Settled(run[w].started)' = Settled(run[w].started)
    BY <1>2, <2>1 DEF Settled, Older, world
  <2>5. RunInv(w)'
    BY <1>1, <1>2, <2>1, <2>2, <2>3, <2>4 DEF RunInv
  <2> QED BY <1>1, <1>2, <1>4, <2>1, <2>5, MovesAlone DEF Places, WorkerTypeOK
<1> QED BY <1>5, <1>6

\* The lock is given back.
LEMMA LeaveStep ==
  ASSUME WorkerInv, NEW w \in Workers, Leave(w) PROVE WorkerInv'
<1>1. WorkerTypeOK /\ pc[w] = "leave" /\ RunInv(w)
  BY DEF WorkerInv, Leave
<1>2. UNCHANGED <<now, world, job, cursors, ledger, basis>> /\ mails' = mails
  BY DEF Leave, files
<1>3. CASE Raise(w, TRUE)
  BY <1>1, <1>2, <1>3, Raising
<1>4. CASE Goto(w, "complete") /\ UNCHANGED run
  <2>1. pc'[w] = "complete" /\ run' = run
    BY <1>1, <1>4 DEF Goto, WorkerTypeOK
  <2>2. succeeded(w)' = succeeded(w)
    BY <2>1 DEF succeeded
  <2>3. Settled(run[w].started)' = Settled(run[w].started)
    BY <1>2, <2>1 DEF Settled, Older, world
  <2>4. RunInv(w)'
    BY <1>1, <1>2, <2>1, <2>2, <2>3 DEF RunInv
  <2> QED BY <1>1, <1>2, <1>4, <2>1, <2>4, MovesAlone DEF Places, WorkerTypeOK
<1> QED BY <1>3, <1>4 DEF Leave

-----------------------------------------------------------------------------
(* The collection                                                          *)

\* A sequence with an element appended, as a function.
LEMMA AppendIs ==
  ASSUME NEW k \in Nat, NEW c, c = [n \in 1 .. k |-> c[n]], NEW e
  PROVE  Append(c, e) = [n \in 1 .. k + 1 |-> IF n = k + 1 THEN e ELSE c[n]]
<1> DEFINE S == {c[n] : n \in 1 .. k} \union {e}
           a == Append(c, e)
<1>1. c \in [1 .. k -> S]
  OBVIOUS
<1>2. c \in Seq(S) /\ Len(c) = k /\ e \in S
  BY <1>1, SeqDef, LenProperties
<1> HIDE DEF S
<1>3. /\ a \in Seq(S) /\ Len(a) = Len(c) + 1
      /\ \A i \in 1 .. Len(c) : a[i] = c[i]
      /\ a[Len(c) + 1] = e
  BY <1>2, AppendProperties
<1>4. a \in [1 .. Len(a) -> S]
  BY <1>3, LenProperties
<1> HIDE DEF a
<1>5. a = [n \in 1 .. k + 1 |-> IF n = k + 1 THEN e ELSE c[n]]
  BY <1>2, <1>3, <1>4
<1> QED BY <1>5 DEF a

\* A collection that is over, with what it has to hold.
LEMMA CollectedStep ==
  ASSUME WorkerInv, NEW w \in Workers, Collecting(w), NEW r, NEW items, NEW m,
         Collected(w, r, items, m), Gathered(Source(w), items), Reached(Source(w), m, items),
         ToldBy(Source(w), run[w].started, [receipt |-> r, items |-> items, mark |-> m])
  PROVE  WorkerInv'
<1> DEFINE k == run[w].at
           cs == run[w].collections
           e == [receipt |-> r, items |-> items, mark |-> m]
<1>1. WorkerTypeOK /\ pc[w] = "collect" /\ RunInv(w) /\ CollectingInv(w)
      /\ now \in Nat /\ k <= Len(Specs)
  BY DEF WorkerInv, WorkerTypeOK, RunInv, Collecting
<1>2. UNCHANGED <<now, world, job, cursors, ledger, pc, mails, basis>>
  BY DEF Collecting, files
<1>3. Goto(w, "collect")
  BY <1>1, <1>2 DEF Goto, WorkerTypeOK
<1>4. /\ DOMAIN run' = Workers /\ \A v \in Workers \ {w} : run'[v] = run[v]
      /\ run'[w] = [run[w] EXCEPT !.collections = Append(cs, e), !.at = k + 1, !.pages = 0,
                      !.items = {}, !.watermark = WindowStart, !.captured = run[w].started]
  BY <1>1 DEF WorkerTypeOK, Collected
<1>5. /\ DOMAIN run'[w] = DOMAIN NoRun /\ run'[w].started = run[w].started
      /\ run'[w].job = run[w].job /\ run'[w].prior = run[w].prior
      /\ run'[w].at = k + 1 /\ run'[w].pages = 0
      /\ run'[w].watermark = WindowStart
      /\ run'[w].items = {} /\ run'[w].collections = Append(cs, e)
  BY <1>1, <1>4, RunFields DEF RunInv
<1>6. k \in 1 .. Len(Specs) + 1 /\ k - 1 \in Nat /\ cs = [n \in 1 .. k - 1 |-> cs[n]]
  BY <1>1, Manifest DEF CollectingInv
<1>7. Append(cs, e) = [n \in 1 .. k |-> IF n = k THEN e ELSE cs[n]]
  BY <1>6, AppendIs, k - 1 + 1 = k
<1>8. Onward
  BY <1>1, <1>2, StayOnward
<1>9. ASSUME NEW n \in 1 .. k
      PROVE  /\ Gathered(Specs[n], run[w].collections[n].items)'
             /\ Reached(Specs[n], run[w].collections[n].mark, run[w].collections[n].items)'
             /\ ToldBy(Specs[n], run[w].started, run[w].collections[n])'
  <2> DEFINE s == Specs[n]
  <2>0. PICK c : c = IF n = k THEN e ELSE cs[n]
    OBVIOUS
  <2>1. run'[w].collections[n] = c
    BY <1>5, <1>7, <2>0
  <2>2. s \in ToSet(Specs)
    BY <1>1, <1>6, Manifest
  <2>3. Gathered(s, c.items) /\ Reached(s, c.mark, c.items) /\ ToldBy(s, run[w].started, c)
    <3>1. CASE n = k
      BY <2>0, <3>1 DEF Source
    <3>2. CASE n # k
      <4>1. n \in 1 .. k - 1
        BY <1>6, <3>2
      <4> QED BY <1>1, <2>0, <3>2, <4>1 DEF CollectingInv
    <3> QED BY <3>1, <3>2
  <2>4. run[w].started \in Int /\ run[w].started <= now
    BY <1>1 DEF RunInv
  <2>t. PICK t : t = run[w].started
    OBVIOUS
  <2> HIDE DEF e, cs
  <2>5. Gathered(s, c.items)'
    BY <1>8, <2>1, <2>2, <2>3, GatheredStays
  <2>6. Reached(s, c.mark, c.items)'
    BY <1>1, <1>8, <2>1, <2>2, <2>3, ReachedStays
  <2>7. ToldBy(s, t, c)'
    BY <1>1, <1>8, <2>t, <2>2, <2>3, <2>4, ToldByStays
  <2> QED BY <1>5, <2>t, <2>1, <2>5, <2>6, <2>7
<1>10. ASSUME NEW s \in ToSet(Specs)
       PROVE  Covered(s, run[w].prior[s])'
  <2>1. Covered(s, run[w].prior[s])
    BY <1>1 DEF CollectingInv
  <2> QED BY <1>1, <1>5, <1>8, <2>1, CoveredStays
<1>11. (run[w].at <= Len(Specs) => Gathered(Specs[run[w].at], run[w].items))'
  BY <1>5, FS_EmptySet DEF Gathered
<1>12. /\ run'[w].at \in 1 .. Len(Specs) + 1 /\ run'[w].at - 1 = k /\ pc'[w] = "collect"
       /\ run'[w].collections = [n \in 1 .. k |-> run'[w].collections[n]]
       /\ run'[w].watermark \in Int /\ run'[w].watermark <= now'
       /\ run'[w].prior \in [ToSet(Specs) -> Int \union {NULL}]
  <2>1. /\ run'[w].at \in 1 .. Len(Specs) + 1 /\ run'[w].at - 1 = k
    BY <1>1, <1>5, <1>6, Manifest
  <2>2. run'[w].collections = [n \in 1 .. k |-> run'[w].collections[n]]
    BY <1>5, <1>7
  <2>3. WindowStart \in Int /\ WindowStart <= now
    BY <1>1, Manifest DEF WindowStart
  <2>4. run[w].prior \in [ToSet(Specs) -> Int \union {NULL}]
    BY <1>1 DEF CollectingInv
  <2> QED BY <1>1, <1>2, <1>5, <2>1, <2>2, <2>3, <2>4
<1>13. CollectingInv(w)'
  <2>1. run'[w].pages \in Nat
    BY <1>5
  <2> QED BY <1>9, <1>10, <1>11, <1>12, <2>1 DEF CollectingInv
<1>14. RunInv(w)'
  BY <1>1, <1>2, <1>5, <1>12, <1>13 DEF RunInv
<1> QED BY <1>2, <1>3, <1>4, <1>14, MovesAlone DEF Places

\* What every step of a collection starts from.
LEMMA CollectingFacts ==
  ASSUME WorkerInv, NEW w \in Workers, Collecting(w)
  PROVE  /\ WorkerTypeOK /\ RunInv(w) /\ CollectingInv(w) /\ now \in Nat
         /\ Source(w) \in ToSet(Specs)
         /\ run[w].started \in Int
         /\ Gathered(Source(w), run[w].items)
         /\ \A items : Reached(Source(w), run[w].prior[Source(w)], items)
<1>1. WorkerTypeOK /\ pc[w] = "collect" /\ RunInv(w) /\ CollectingInv(w)
      /\ now \in Nat /\ run[w].at <= Len(Specs)
  BY DEF WorkerInv, WorkerTypeOK, RunInv, Collecting
<1>2. Source(w) \in ToSet(Specs)
  BY <1>1, Manifest DEF CollectingInv, Source
<1>3. Gathered(Source(w), run[w].items)
  BY <1>1 DEF CollectingInv, Source
<1>4. Covered(Source(w), run[w].prior[Source(w)])
  BY <1>1, <1>2 DEF CollectingInv
<1> QED BY <1>1, <1>2, <1>3, <1>4 DEF Covered, Reached, RunInv

\* The receipt of a source that could not be read says so.
LEMMA FailureFacts ==
  ASSUME NEW w, NEW state \in {"partial", "unavailable", "unauthorized"}, NEW error, NEW pages,
         NEW items, NEW watermark, NEW kept, NEW m, NEW s, NEW t
  PROVE  ToldBy(s, t, [receipt |-> FailureReceipt(w, state, error, pages, items, watermark),
                       items |-> kept, mark |-> m])
<1> DEFINE r == FailureReceipt(w, state, error, pages, items, watermark)
<1>1. /\ {"state", "age_seconds", "error_class"} \subseteq DOMAIN r
      /\ r.state = state /\ r.reported_state = state
  BY DEF FailureReceipt, Receipt
<1> HIDE DEF r
<1>2. state \in States /\ state # "complete"
  BY DEF States
<1>3. ToldBy(s, t, [receipt |-> r, items |-> kept, mark |-> m])
  BY <1>1, <1>2 DEF ToldBy
<1> QED BY <1>3 DEF r

\* A source without a token is unauthorized, and keeps its mark.
LEMMA NoTokenStep ==
  ASSUME WorkerInv, NEW w \in Workers, NoToken(w) PROVE WorkerInv'
<1> DEFINE s == Source(w)
           r == FailureReceipt(w, "unauthorized", "authorization", 0, {}, WindowStart)
<1>1. Collecting(w) /\ Collected(w, r, {}, run[w].prior[s])
  BY DEF NoToken
<1>2. Reached(s, run[w].prior[s], {})
  BY <1>1, CollectingFacts
<1>3. Gathered(s, {})
  BY FS_EmptySet DEF Gathered
<1>4. ToldBy(s, run[w].started, [receipt |-> r, items |-> {}, mark |-> run[w].prior[s]])
  BY FailureFacts
<1> HIDE DEF s, r
<1> QED BY <1>1, <1>2, <1>3, <1>4, CollectedStep DEF s

\* A page that fails ends the source with the mark it had.
LEMMA PageFailsStep ==
  ASSUME WorkerInv, NEW w \in Workers, PageFails(w) PROVE WorkerInv'
<1> DEFINE s == Source(w)
           state == IF run[w].pages > 0 THEN "partial" ELSE "unavailable"
           r == FailureReceipt(w, state, "availability", run[w].pages, run[w].items,
                               run[w].watermark)
<1>1. Collecting(w) /\ Collected(w, r, run[w].items, run[w].prior[s])
  BY DEF PageFails
<1>2. Reached(s, run[w].prior[s], run[w].items) /\ Gathered(s, run[w].items)
  BY <1>1, CollectingFacts
<1>3. state \in {"partial", "unavailable", "unauthorized"}
  OBVIOUS
<1>4. ToldBy(s, run[w].started, [receipt |-> r, items |-> run[w].items, mark |-> run[w].prior[s]])
  BY <1>3, FailureFacts
<1> HIDE DEF s, r
<1> QED BY <1>1, <1>2, <1>4, CollectedStep DEF s

\* More items of the page, as the source is now.
LEMMA SeenIsGathered ==
  ASSUME WorkerTypeOK, NEW s \in Authorized, NEW items, Gathered(s, items),
         NEW page \in SUBSET Seen(s)
  PROVE  Gathered(s, items \union page)
<1>1. s \in ToSet(Specs) /\ phase[s] \in {"open", "done"}
  BY Manifest DEF WorkerTypeOK
<1>2. \A i \in page : Genuine(s, i)
  BY <1>1 DEF Seen, Genuine
<1>3. IsFiniteSet(Seen(s))
  BY FS_EmptySet, FS_Singleton DEF Seen
<1>4. IsFiniteSet(items \union page)
  BY <1>3, FS_Subset, FS_Union DEF Gathered
<1> QED BY <1>2, <1>4 DEF Gathered

\* A page is added to the items of its source.
LEMMA NextPageStep ==
  ASSUME WorkerInv, NEW w \in Workers, NextPage(w) PROVE WorkerInv'
<1>1. Collecting(w) /\ Source(w) \in Authorized
  BY DEF NextPage
<1>2. /\ WorkerTypeOK /\ RunInv(w) /\ CollectingInv(w) /\ now \in Nat
      /\ Gathered(Source(w), run[w].items)
  BY <1>1, CollectingFacts
<1>3. UNCHANGED <<now, world, job, cursors, ledger, pc, mails, basis>> /\ pc[w] = "collect"
  BY <1>1 DEF Collecting, files
<1>4. Goto(w, "collect")
  BY <1>2, <1>3 DEF Goto, WorkerTypeOK
<1>5. PICK page \in SUBSET Seen(Source(w)) :
         run' = [run EXCEPT ![w].pages = @ + 1, ![w].items = @ \union page,
                            ![w].captured = Later(@, now),
                            ![w].watermark = Later(@, now)]
  BY DEF NextPage
<1>6. /\ DOMAIN run' = Workers /\ \A v \in Workers \ {w} : run'[v] = run[v]
      /\ run'[w] = [run[w] EXCEPT !.pages = @ + 1, !.items = @ \union page,
                                  !.captured = Later(@, now), !.watermark = Later(@, now)]
  BY <1>2, <1>5 DEF WorkerTypeOK
<1>7. /\ DOMAIN run'[w] = DOMAIN NoRun /\ run'[w].started = run[w].started
      /\ run'[w].job = run[w].job /\ run'[w].prior = run[w].prior
      /\ run'[w].at = run[w].at /\ run'[w].pages = run[w].pages + 1
      /\ run'[w].watermark = Later(run[w].watermark, now)
      /\ run'[w].items = run[w].items \union page
      /\ run'[w].collections = run[w].collections
  BY <1>2, <1>6, RunFields DEF RunInv
<1>8. Gathered(Source(w), run[w].items \union page)
  BY <1>1, <1>2, SeenIsGathered
<1>9. Onward
  BY <1>2, <1>3, StayOnward
<1>10. (run[w].at <= Len(Specs) => Gathered(Specs[run[w].at], run[w].items))'
  BY <1>3, <1>7, <1>8 DEF Gathered, Genuine, world, Source
<1>11. ASSUME NEW s \in ToSet(Specs)
       PROVE  Covered(s, run[w].prior[s])'
  <2>1. Covered(s, run[w].prior[s])
    BY <1>2 DEF CollectingInv
  <2> QED BY <1>2, <1>7, <1>9, <2>1, CoveredStays
<1>12. ASSUME NEW n \in 1 .. run[w].at - 1
       PROVE  /\ Gathered(Specs[n], run[w].collections[n].items)'
              /\ Reached(Specs[n], run[w].collections[n].mark, run[w].collections[n].items)'
              /\ ToldBy(Specs[n], run[w].started, run[w].collections[n])'
  <2> DEFINE s == Specs[n]
  <2>0. PICK c, t : c = run[w].collections[n] /\ t = run[w].started
    OBVIOUS
  <2>1. run'[w].collections[n] = c /\ run'[w].started = t
    BY <1>7, <2>0
  <2>2. s \in ToSet(Specs)
    BY <1>2, Manifest DEF CollectingInv
  <2>3. Gathered(s, c.items) /\ Reached(s, c.mark, c.items) /\ ToldBy(s, t, c)
    BY <1>2, <2>0 DEF CollectingInv
  <2>4. t \in Int /\ t <= now
    BY <1>2, <2>0 DEF RunInv
  <2>5. Gathered(s, c.items)'
    BY <1>9, <2>1, <2>2, <2>3, GatheredStays
  <2>6. Reached(s, c.mark, c.items)'
    BY <1>2, <1>9, <2>1, <2>2, <2>3, ReachedStays
  <2>7. ToldBy(s, t, c)'
    BY <1>2, <1>9, <2>2, <2>3, <2>4, ToldByStays
  <2> QED BY <2>1, <2>5, <2>6, <2>7
<1>13. /\ run[w].pages + 1 \in Nat
       /\ Later(run[w].watermark, now) \in Int /\ Later(run[w].watermark, now) <= now
  BY <1>2 DEF CollectingInv, Later
<1>14. CollectingInv(w)'
  BY <1>2, <1>3, <1>7, <1>10, <1>11, <1>12, <1>13 DEF CollectingInv
<1>15. RunInv(w)'
  BY <1>2, <1>3, <1>7, <1>14 DEF RunInv
<1> QED BY <1>3, <1>4, <1>6, <1>15, MovesAlone DEF Places

\* A source that is finished leaves a mark that is covered or has items to save, and
\* a receipt that tells the truth.
LEMMA FinishedStep ==
  ASSUME WorkerInv, NEW w \in Workers, Collecting(w), NEW items, NEW mark \in Int, mark <= now,
         Gathered(Source(w), items), Finished(w, items, mark)
  PROVE  WorkerInv'
<1> DEFINE s == Source(w)
           t == run[w].started
           r == SuccessReceipt(w, run[w].pages + 1, items, mark, Later(run[w].captured, now))
           m == IF r.state = "complete" THEN mark ELSE run[w].prior[s]
<1>1. /\ WorkerTypeOK /\ now \in Nat /\ s \in ToSet(Specs) /\ t \in Int
      /\ Reached(s, run[w].prior[s], items)
  BY CollectingFacts
<1>2. /\ Older(s, mark) => items # {}
      /\ Collected(w, r, items, m)
  BY DEF Finished, Older
<1>3. /\ {"state", "age_seconds", "error_class"} \subseteq DOMAIN r
      /\ r.reported_state = "complete"
      /\ r.state = IF t - mark <= MaxAge THEN "complete" ELSE "stale"
  BY DEF SuccessReceipt, Receipt
<1> HIDE DEF r
<1>4. Reached(s, m, items)
  BY <1>1, <1>2 DEF Reached
<1>5. r.state = "complete" => Told(s, t, items)
  <2> SUFFICES ASSUME t - mark <= MaxAge, Older(s, t - MaxAge) PROVE items # {}
    BY <1>3 DEF Told
  <2>1. Older(s, mark)
    <3>1. born[s] \in Int \union {NULL} /\ MaxAge \in Nat
      BY <1>1, Manifest DEF WorkerTypeOK
    <3>2. born[s] # NULL /\ born[s] < t - MaxAge
      BY DEF Older
    <3> HIDE DEF s, t
    <3> QED BY <1>1, <3>1, <3>2 DEF Older
  <2> QED BY <1>2, <2>1
<1>6. ToldBy(s, t, [receipt |-> r, items |-> items, mark |-> m])
  BY <1>3, <1>5 DEF ToldBy, States
<1> HIDE DEF s, t, m
<1> QED BY <1>2, <1>4, <1>6, CollectedStep DEF s, t

\* The last page finishes the source.
LEMMA LastPageStep ==
  ASSUME WorkerInv, NEW w \in Workers, LastPage(w) PROVE WorkerInv'
<1>1. Collecting(w) /\ Source(w) \in Authorized
  BY DEF LastPage
<1>2. /\ WorkerTypeOK /\ CollectingInv(w) /\ now \in Nat
      /\ Gathered(Source(w), run[w].items)
  BY <1>1, CollectingFacts
<1>3. ASSUME NEW page \in SUBSET Seen(Source(w)), NEW at \in {now, now - MaxAge - 1},
             Finished(w, run[w].items \union page, Later(run[w].watermark, at))
      PROVE  WorkerInv'
  <2>1. Gathered(Source(w), run[w].items \union page)
    BY <1>1, <1>2, SeenIsGathered
  <2>2. at \in Int /\ at <= now
    BY <1>2, Manifest
  <2>3. Later(run[w].watermark, at) \in Int /\ Later(run[w].watermark, at) <= now
    BY <1>2, <2>2 DEF CollectingInv, Later
  <2> QED BY <1>1, <1>3, <2>1, <2>3, FinishedStep
<1>4. ASSUME NEW i \in Unusable, Finished(w, run[w].items \union {i}, now)
      PROVE  WorkerInv'
  <2>1. Gathered(Source(w), run[w].items \union {i})
    BY <1>1, <1>2, FS_AddElement DEF Gathered
  <2> QED BY <1>1, <1>2, <1>4, <2>1, FinishedStep
<1> QED BY <1>3, <1>4 DEF LastPage

-----------------------------------------------------------------------------
(* The validation                                                          *)

\* All that a run holds, collection by collection.
LEMMA AllItemsAre ==
  ASSUME NEW w
  PROVE  AllItems(w) = UNION {run[w].collections[n].items : n \in DOMAIN run[w].collections}
<1>1. \A c : c \in ToSet(run[w].collections)
               <=> \E n \in DOMAIN run[w].collections : c = run[w].collections[n]
  BY DEF ToSet
<1> QED BY <1>1 DEF AllItems

\* A report that covers every required source was made of complete receipts.
LEMMA CoverageFacts ==
  ASSUME NEW raw, NEW at, NEW given, NEW s \in Required,
         build_source_coverage_report(policy, raw, at, given) # REJECTED,
         build_source_coverage_report(policy, raw, at, given).summary.complete,
         {"state", "age_seconds", "error_class"} \subseteq DOMAIN raw[s],
         raw[s].state \in States,
         raw[s].reported_state \in {"complete", "partial", "unavailable", "unauthorized"}
  PROVE  raw[s].state = "complete"
<1> DEFINE receipts == [x \in DOMAIN raw |-> normalize_receipt(raw[x], at)]
           report == build_source_coverage_report(policy, raw, at, given)
           d == derived_state(raw[s], at)
<1>1. /\ REJECTED \notin {receipts[x] : x \in DOMAIN raw}
      /\ DOMAIN raw = policy.required \union policy.optional
      /\ report.summary = Summary(policy, receipts)
  BY DEF build_source_coverage_report
<1>2. policy.required = Required
  BY DEF policy
<1>3. s \in DOMAIN raw /\ receipts[s] # REJECTED /\ receipts[s] = normalize_receipt(raw[s], at)
  BY <1>1, <1>2
<1>4. ValidState(raw[s], d) /\ receipts[s].state = d
  BY <1>3 DEF normalize_receipt
<1>5. receipts[s].state \notin BlockedStates \union PartialStates
  <2>1. Summary(policy, receipts).complete
    BY <1>1
  <2> HIDE DEF receipts
  <2>2. /\ {x \in policy.required : receipts[x].state \in BlockedStates} = {}
        /\ {x \in policy.required : receipts[x].state \in PartialStates} = {}
    BY <2>1 DEF Summary
  <2> QED BY <1>2, <2>2
<1> HIDE DEF receipts
<1>6. d \in {"complete", "stale", "partial", "unavailable", "unauthorized"}
  BY DEF derived_state
<1>7. d = "complete"
  BY <1>4, <1>5, <1>6 DEF BlockedStates, PartialStates
<1>8. raw[s].state \in {NULL, d}
  BY <1>4 DEF ValidState
<1> QED BY <1>7, <1>8, Manifest

\* The observations are all accepted, and the coverage of the required sources is known.
LEMMA ValidateStep ==
  ASSUME WorkerInv, NEW w \in Workers, Validate(w) PROVE WorkerInv'
<1>1. /\ WorkerTypeOK /\ pc[w] = "collect" /\ RunInv(w) /\ CollectingInv(w)
      /\ run[w].at > Len(Specs)
  BY DEF WorkerInv, RunInv, Validate
<1>2. UNCHANGED <<now, world, job, cursors, ledger, mails, basis>>
  BY DEF Validate
<1> DEFINE report == build_source_coverage_report(policy, Receipts(w), now, build_coverage(w))
           cs == run[w].collections
           rejected == validate_observation(SetToSeq(AllItems(w))) = REJECTED \/ report = REJECTED
           Goes == /\ run' = [run EXCEPT ![w].coverage = report.summary.complete,
                             ![w].prior = NoRun.prior,
                             ![w].collections = [n \in DOMAIN @ |->
                                [items |-> @[n].items, mark |-> @[n].mark]]]
                   /\ Goto(w, "save")
<1>3. \/ Raise(w, FALSE)
      \/ rejected /\ Dies(w)
      \/ ~rejected /\ Goes
  BY Zenon DEF Validate
<1>4. CASE Raise(w, FALSE)
  BY <1>1, <1>2, <1>4, Raising
<1>5. CASE rejected /\ Dies(w)
  BY <1>2, <1>5, Dying
<1>6. CASE ~rejected /\ Goes
  <2>1. report # REJECTED /\ validate_observation(SetToSeq(AllItems(w))) # REJECTED
    BY <1>6
  <2>2. Accepted(SetToSeq(AllItems(w)))
    BY <2>1, Zenon DEF validate_observation
  <2>3. /\ DOMAIN run' = Workers /\ \A v \in Workers \ {w} : run'[v] = run[v]
        /\ run'[w] = [run[w] EXCEPT !.coverage = report.summary.complete, !.prior = NoRun.prior,
                        !.collections = [n \in DOMAIN @ |-> [items |-> @[n].items, mark |-> @[n].mark]]]
    <3> HIDE DEF report
    <3> QED BY <1>1, <1>6 DEF WorkerTypeOK
  <2>4. Goto(w, "save") /\ pc'[w] = "save"
    BY <1>1, <1>6 DEF WorkerTypeOK, Goto
  <2>5. /\ DOMAIN run'[w] = DOMAIN NoRun /\ run'[w].started = run[w].started
        /\ run'[w].job = run[w].job /\ run'[w].coverage = report.summary.complete
        /\ run'[w].collections = [n \in DOMAIN cs |-> [items |-> cs[n].items, mark |-> cs[n].mark]]
    <3> HIDE DEF report
    <3> QED BY <1>1, <2>3, RunFields DEF RunInv
  <2>6. run[w].at - 1 = Len(Specs) /\ DOMAIN cs = DOMAIN Specs
    <3>1. run[w].at = Len(Specs) + 1
      BY <1>1, Manifest DEF CollectingInv
    <3>2. cs = [n \in 1 .. run[w].at - 1 |-> cs[n]]
      BY <1>1 DEF CollectingInv
    <3> HIDE DEF cs
    <3> QED BY <3>1, <3>2, Manifest
  <2>7. ASSUME NEW n \in DOMAIN Specs
        PROVE  /\ run'[w].collections[n].items = cs[n].items
               /\ run'[w].collections[n].mark = cs[n].mark
    <3> HIDE DEF cs
    <3> QED BY <2>5, <2>6
  <2>8. AllItems(w)' = AllItems(w)
    <3>1. AllItems(w) = UNION {cs[n].items : n \in DOMAIN Specs}
      BY <2>6, AllItemsAre
    <3>2. DOMAIN run'[w].collections = DOMAIN Specs
      <4> HIDE DEF cs
      <4> QED BY <2>5, <2>6
    <3>3. AllItems(w)' = UNION {run'[w].collections[n].items : n \in DOMAIN Specs}
      <4>1. (AllItems(w) = UNION {run[w].collections[n].items : n \in DOMAIN run[w].collections})'
        BY AllItemsAre, PTL
      <4> QED BY <3>2, <4>1
    <3> HIDE DEF cs
    <3> QED BY <2>7, <3>1, <3>3
  <2>9. ASSUME NEW n \in DOMAIN Specs
        PROVE  /\ Gathered(Specs[n], run[w].collections[n].items)'
               /\ Reached(Specs[n], run[w].collections[n].mark, run[w].collections[n].items)'
               /\ (run[w].coverage /\ Specs[n] \in Required =>
                     Told(Specs[n], run[w].started, run[w].collections[n].items))'
    <3> DEFINE s == Specs[n]
    <3>1. PICK c : c = cs[n]
      OBVIOUS
    <3>2. Gathered(s, c.items) /\ Reached(s, c.mark, c.items) /\ ToldBy(s, run[w].started, c)
      BY <1>1, <2>6, <3>1, Manifest DEF CollectingInv
    <3>3. report.summary.complete /\ s \in Required => Told(s, run[w].started, c.items)
      <4> SUFFICES ASSUME report.summary.complete, s \in Required
                   PROVE  Told(s, run[w].started, c.items)
        OBVIOUS
      <4>1. Receipts(w)[s] = c.receipt
        <5>1. s \in ToSet(Specs)
          BY Manifest
        <5>2. (CHOOSE i \in DOMAIN Specs : Specs[i] = s) = n
          BY Manifest
        <5> QED BY <3>1, <5>1, <5>2 DEF Receipts, Collections
      <4>2. c.receipt.state = "complete"
        <5> HIDE DEF s
        <5> QED BY <2>1, <3>2, <4>1, CoverageFacts DEF ToldBy
      <4> QED BY <3>2, <4>2 DEF ToldBy
    <3> HIDE DEF report, cs, s
    <3>4. run'[w].collections[n].items = c.items /\ run'[w].collections[n].mark = c.mark
      BY <2>7, <3>1
    <3>5. Gathered(s, c.items)' /\ Reached(s, c.mark, c.items)'
      BY <1>2, <3>2 DEF Gathered, Genuine, Reached, Older, Known, world, s
    <3>6. report.summary.complete /\ s \in Required => Told(s, run[w].started, c.items)'
      BY <1>2, <2>5, <3>3 DEF Told, Older, world, s
    <3> QED BY <2>5, <3>4, <3>5, <3>6 DEF s
  <2>10. SavingInv(w)'
    <3>1. Accepted(SetToSeq(AllItems(w)))'
      BY <2>2, <2>8
    <3>2. (DOMAIN run[w].collections = DOMAIN Specs)'
      <4> HIDE DEF cs
      <4> QED BY <2>5, <2>6
    <3> QED BY <2>9, <3>1, <3>2 DEF SavingInv
  <2>11. RunInv(w)'
    <3> HIDE DEF report, cs
    <3> QED BY <1>1, <1>2, <2>4, <2>5, <2>10 DEF RunInv
  <2> HIDE DEF report
  <2> QED BY <1>2, <2>3, <2>4, <2>11, MovesAlone DEF Places
<1> HIDE DEF rejected, Goes
<1> QED BY <1>3, <1>4, <1>5, <1>6

-----------------------------------------------------------------------------
(* The two files                                                           *)

\* A sequence has finitely many elements.
LEMMA FiniteImages ==
  ASSUME NEW len \in Nat, NEW f
  PROVE  /\ IsFiniteSet({f[n] : n \in 1 .. len})
         /\ (\A n \in 1 .. len : IsFiniteSet(f[n])) => IsFiniteSet(UNION {f[n] : n \in 1 .. len})
<1> DEFINE G == {k \in Nat : IsFiniteSet({f[n] : n \in 1 .. k})}
<1>1. 0 \in G
  BY FS_EmptySet
<1>2. ASSUME NEW k \in Nat, k \in G
      PROVE  k + 1 \in G
  <2>1. {f[n] : n \in 1 .. k + 1} = {f[n] : n \in 1 .. k} \union {f[k + 1]}
    OBVIOUS
  <2>2. IsFiniteSet({f[n] : n \in 1 .. k})
    BY <1>2
  <2>3. IsFiniteSet({f[n] : n \in 1 .. k} \union {f[k + 1]})
    BY <2>2, FS_AddElement
  <2> QED BY <2>1, <2>3
<1> HIDE DEF G
<1>3. len \in G
  BY <1>1, <1>2, Induction
<1>4. IsFiniteSet({f[n] : n \in 1 .. len})
  BY <1>3 DEF G
<1> QED BY <1>4, FS_UNION

\* What a run has collected is finite.
LEMMA AllItemsFinite ==
  ASSUME NEW w, SavingInv(w)
  PROVE  /\ IsFiniteSet(AllItems(w))
         /\ \A n \in DOMAIN Specs : run[w].collections[n].items \subseteq AllItems(w)
<1> DEFINE f == [n \in DOMAIN Specs |-> run[w].collections[n].items]
<1>1. DOMAIN run[w].collections = DOMAIN Specs
      /\ \A n \in DOMAIN Specs : IsFiniteSet(f[n])
  BY DEF SavingInv, Gathered
<1>2. AllItems(w) = UNION {f[n] : n \in 1 .. Len(Specs)}
  BY <1>1, AllItemsAre, Manifest
<1>3. IsFiniteSet(AllItems(w))
  <2> HIDE DEF f
  <2>1. Len(Specs) \in Nat /\ \A n \in 1 .. Len(Specs) : IsFiniteSet(f[n])
    BY <1>1, Manifest
  <2>2. IsFiniteSet(UNION {f[n] : n \in 1 .. Len(Specs)})
    BY <2>1, FiniteImages
  <2> QED BY <1>2, <2>2
<1> QED BY <1>2, <1>3, Manifest

\* What a run saves: every item gets its entry.
LEMMA SavingFacts ==
  ASSUME WorkerTypeOK, NEW w, SavingInv(w),
         ledger' = ReconcileAll(SetToSeq(AllItems(w)), ledger, BatchSize)
  PROVE  /\ DOMAIN ledger \subseteq DOMAIN ledger' /\ IsFiniteSet(DOMAIN ledger')
         /\ \A i \in AllItems(w) :
               /\ i \notin Unusable
               /\ KeyOf(i) \in DOMAIN ledger'
               /\ ledger'[KeyOf(i)].classification = VerdictOn(i)
<1> DEFINE S == AllItems(w)
           items == SetToSeq(S)
           r == ReconcileAll(items, ledger, BatchSize)
<1>1. items \in Seq(S) /\ ToSet(items) = S
  BY AllItemsFinite, SetToSeqFacts
<1>2. Accepted(items)
  BY DEF SavingInv
<1> HIDE DEF items, S
<1>b. BatchSize \in Nat \ {0}
  BY Manifest
<1>3. /\ DOMAIN r = DOMAIN ledger \union KeysOf(items)
      /\ \A n \in DOMAIN items : r[KeyOf(items[n])].classification = VerdictOn(items[n])
  BY <1>1, <1>2, <1>b, ReconcileAllFacts
<1>4. ledger' = r
  BY DEF items, S
<1> HIDE DEF r
<1>5. IsFiniteSet(KeysOf(items))
  <2> DEFINE f == [n \in DOMAIN items |-> KeyOf(items[n])]
  <2>1. Len(items) \in Nat /\ DOMAIN items = 1 .. Len(items)
    BY <1>1, LenProperties
  <2>2. KeysOf(items) = {f[n] : n \in 1 .. Len(items)}
    BY <2>1 DEF KeysOf
  <2> HIDE DEF f
  <2> QED BY <2>1, <2>2, FiniteImages
<1>6. IsFiniteSet(DOMAIN ledger)
  BY DEF WorkerTypeOK
<1>7. IsFiniteSet(DOMAIN ledger')
  BY <1>3, <1>4, <1>5, <1>6, FS_Union
<1>8. ASSUME NEW i \in AllItems(w)
      PROVE  /\ i \notin Unusable
             /\ KeyOf(i) \in DOMAIN ledger'
             /\ ledger'[KeyOf(i)].classification = VerdictOn(i)
  <2>1. PICK n \in DOMAIN items : items[n] = i
    BY <1>1 DEF S, ToSet
  <2>2. normalize_observation_item(i) # REJECTED
    BY <1>2, <2>1 DEF Accepted
  <2>3. KeyOf(i) \in KeysOf(items)
    BY <2>1 DEF KeysOf
  <2> QED BY <1>3, <1>4, <2>1, <2>2, <2>3, AdapterAssumption
<1> QED BY <1>3, <1>4, <1>7, <1>8

\* A genuine item of a source has the key by which the source is known.
LEMMA GenuineKey ==
  ASSUME NEW s \in Authorized, NEW i, Genuine(s, i)
  PROVE  KeyOf(i) = LedgerKey(Observed[s, "open"])
<1>1. \/ i = Observed[s, "open"]
      \/ i = Observed[s, "done"]
  BY Zenon DEF Genuine
<1>2. \A ph \in {"open", "done"} : KeyOf(Observed[s, ph]) = LedgerKey(Observed[s, "open"])
  BY AdapterAssumption, Zenon DEF KeyOf
<1>3. KeyOf(Observed[s, "open"]) = LedgerKey(Observed[s, "open"])
      /\ KeyOf(Observed[s, "done"]) = LedgerKey(Observed[s, "open"])
  BY <1>2, Zenon
<1> QED BY <1>1, <1>3, Zenon

\* The ledger that is saved knows every item collected, so every mark is covered now;
\* a run that succeeds has settled its required sources.
LEMMA SaveLedgerStep ==
  ASSUME WorkerInv, NEW w \in Workers, SaveLedger(w) PROVE WorkerInv'
<1>1. WorkerTypeOK /\ pc[w] = "save" /\ RunInv(w) /\ SavingInv(w) /\ now \in Nat
  BY DEF WorkerInv, WorkerTypeOK, RunInv, SaveLedger
<1>2. UNCHANGED <<now, world, job, cursors, mails, basis>>
      /\ ledger' = ReconcileAll(SetToSeq(AllItems(w)), ledger, BatchSize)
  BY DEF SaveLedger
<1>3. /\ DOMAIN ledger \subseteq DOMAIN ledger' /\ IsFiniteSet(DOMAIN ledger')
      /\ \A i \in AllItems(w) :
            /\ i \notin Unusable
            /\ KeyOf(i) \in DOMAIN ledger'
            /\ ledger'[KeyOf(i)].classification = VerdictOn(i)
  BY <1>1, <1>2, SavingFacts
<1>4. Onward
  BY <1>1, <1>2, <1>3 DEF Onward, world
<1>5. /\ DOMAIN run' = Workers /\ \A v \in Workers \ {w} : run'[v] = run[v]
      /\ run'[w] = [run[w] EXCEPT !.summary = summarize_entries(ledger')]
  BY <1>1 DEF WorkerTypeOK, SaveLedger
<1>6. pc' \in [Workers -> Places] /\ pc'[w] = "savecursors"
      /\ \A v \in Workers \ {w} : pc'[v] = pc[v]
  BY <1>1 DEF SaveLedger, Goto, WorkerTypeOK, Places
<1>7. /\ DOMAIN run'[w] = DOMAIN NoRun /\ run'[w].started = run[w].started
      /\ run'[w].job = run[w].job /\ run'[w].coverage = run[w].coverage
      /\ run'[w].collections = run[w].collections
      /\ run'[w].summary = summarize_entries(ledger')
  BY <1>1, <1>5, RunFields DEF RunInv
<1>8. WorkerTypeOK'
  BY <1>1, <1>2, <1>3, <1>5, <1>6 DEF WorkerTypeOK, world
<1>9. ASSUME NEW n \in DOMAIN Specs, run[w].collections[n].items # {}
      PROVE  /\ Specs[n] \in Authorized
             /\ \E i \in AllItems(w) : i \in run[w].collections[n].items /\ Genuine(Specs[n], i)
  <2>1. Gathered(Specs[n], run[w].collections[n].items)
    BY <1>1 DEF SavingInv
  <2>2. PICK i \in run[w].collections[n].items : TRUE
    BY <1>9
  <2>3. i \in AllItems(w)
    BY <1>1, AllItemsFinite
  <2>4. Genuine(Specs[n], i)
    BY <1>3, <2>1, <2>3 DEF Gathered
  <2>5. Specs[n] \in Authorized
    BY <1>9, <2>1 DEF Gathered
  <2> QED BY <2>3, <2>4, <2>5
<1>10. ASSUME NEW n \in DOMAIN Specs
       PROVE  Covered(Specs[n], run[w].collections[n].mark)'
  <2> DEFINE s == Specs[n]
  <2>1. PICK m : m = run[w].collections[n].mark
    OBVIOUS
  <2>2. Reached(s, m, run[w].collections[n].items)
    BY <1>1, <2>1 DEF SavingInv
  <2>3. run[w].collections[n].items # {} => Known(s)'
    <3> SUFFICES ASSUME run[w].collections[n].items # {} PROVE Known(s)'
      OBVIOUS
    <3>1. PICK i \in AllItems(w) : Genuine(s, i)
      BY <1>9
    <3>2. KeyOf(i) = LedgerKey(Observed[s, "open"])
      BY <1>9, <3>1, GenuineKey
    <3> QED BY <1>3, <3>2 DEF Known
  <2>4. Known(s) => Known(s)'
    BY <1>3 DEF Known
  <2>5. Covered(s, m)'
    <3> HIDE DEF s
    <3> QED BY <1>2, <2>2, <2>3, <2>4 DEF Covered, Reached, Older, world, s
  <2> QED BY <1>7, <2>1, <2>5
<1>11. SavedInv(w)'
  BY <1>1, <1>7, <1>10 DEF SavedInv, SavingInv
<1>12. succeeded(w)' => Settled(run[w].started)
  <2> SUFFICES ASSUME succeeded(w)' PROVE Settled(run[w].started)
    OBVIOUS
  <2> DEFINE with(status) == {k \in DOMAIN ledger' : ledger'[k].classification.status = status}
  <2>1. /\ run[w].coverage
        /\ Cardinality(with("actionable")) = 0 /\ Cardinality(with("blocked")) = 0
    BY <1>7 DEF succeeded, summarize_entries
  <2>2. IsFiniteSet(with("actionable")) /\ IsFiniteSet(with("blocked"))
    BY <1>3, FS_Subset
  <2>3. with("actionable") = {} /\ with("blocked") = {}
    BY <2>1, <2>2, FS_EmptySet
  <2>4. ASSUME NEW s \in Required, Older(s, run[w].started - MaxAge)
        PROVE  phase[s] = "done"
    <3>1. PICK n \in DOMAIN Specs : Specs[n] = s
      BY Manifest
    <3>2. run[w].collections[n].items # {}
      <4>1. Told(s, run[w].started, run[w].collections[n].items)
        BY <1>1, <2>1, <3>1 DEF SavingInv
      <4> QED BY <2>4, <4>1 DEF Told
    <3>3. PICK i \in AllItems(w) : Genuine(s, i)
      BY <1>9, <3>1, <3>2
    <3>4. s \in Authorized
      BY <1>9, <3>1, <3>2
    <3>5. ledger'[KeyOf(i)].classification.status \notin {"actionable", "blocked"}
      BY <1>3, <2>3
    <3>6. VerdictOn(i).status \notin {"actionable", "blocked"}
      BY <1>3, <3>5
    <3>7. VerdictOn(Observed[s, "open"]).status \in {"actionable", "blocked"}
      BY <3>4, AdapterAssumption, Zenon DEF VerdictOn
    <3>8. i # Observed[s, "open"]
      BY <3>6, <3>7, Zenon
    <3> QED BY <3>3, <3>8, Zenon DEF Genuine
  <2> QED BY <2>4 DEF Settled
<1>13. RunInv(w)'
  <2>1. Settled(run[w].started) => Settled(run[w].started)'
    BY <1>2, <1>7 DEF Settled, Older, world
  <2> QED BY <1>1, <1>2, <1>6, <1>7, <1>11, <1>12, <2>1 DEF RunInv
<1>14. \A s \in ToSet(Specs) : Covered(s, cursors[s])'
  <2>1. ASSUME NEW s \in ToSet(Specs)
        PROVE  Covered(s, cursors[s])'
    <3>1. Covered(s, cursors[s])
      BY DEF WorkerInv
    <3> QED BY <1>1, <1>2, <1>4, <3>1, CoveredStays
  <2> QED BY <2>1
<1>15. \A j \in Jobs : JobInv(j)'
  <2>1. ASSUME NEW j \in Jobs
        PROVE  JobInv(j)'
    <3>1. JobInv(j)
      BY DEF WorkerInv
    <3> QED BY <1>1, <1>2, <1>4, <3>1, JobStays
  <2> QED BY <2>1
<1> QED BY <1>4, <1>5, <1>6, <1>8, <1>13, <1>14, <1>15, Assemble

\* The mark of a source after the merge.
LEMMA MergeFacts ==
  ASSUME NEW w, SavedInv(w), NEW s \in ToSet(Specs), Covered(s, cursors[s]),
         DOMAIN cursors = ToSet(Specs), now \in Nat
  PROVE  LET new == merge_cursor_state(cursors, w)
         IN  /\ DOMAIN new = ToSet(Specs)
             /\ new[s] \in Int \union {NULL} /\ Covered(s, new[s])
             /\ cursors[s] # NULL => new[s] # NULL /\ new[s] >= cursors[s]
<1> DEFINE new == merge_cursor_state(cursors, w)
           mark == Collections(w)[s].mark
<1>1. Covered(s, mark)
  <2>1. (CHOOSE n \in DOMAIN Specs : Specs[n] = s) \in DOMAIN Specs
        /\ Specs[CHOOSE n \in DOMAIN Specs : Specs[n] = s] = s
    BY Manifest
  <2> QED BY <2>1 DEF SavedInv, Collections
<1> HIDE DEF mark
<1>2. /\ DOMAIN new = ToSet(Specs)
      /\ new[s] = IF mark = NULL \/ (cursors[s] # NULL /\ cursors[s] > mark)
                  THEN cursors[s] ELSE mark
  BY DEF merge_cursor_state, mark
<1> HIDE DEF new
<1>3. (mark # NULL => mark \in Int) /\ (cursors[s] # NULL => cursors[s] \in Int)
  BY <1>1 DEF Covered
<1>4. Covered(s, new[s])
  BY <1>1, <1>2
<1>5. new[s] \in Int \union {NULL} /\ (cursors[s] # NULL => new[s] # NULL /\ new[s] >= cursors[s])
  BY <1>2, <1>3
<1> QED BY <1>2, <1>4, <1>5 DEF new

\* The merged marks are the greater ones, and covered.
LEMMA SaveCursorsStep ==
  ASSUME WorkerInv, NEW w \in Workers, SaveCursors(w) PROVE WorkerInv'
<1>1. WorkerTypeOK /\ pc[w] = "savecursors" /\ RunInv(w) /\ SavedInv(w) /\ now \in Nat
      /\ DOMAIN cursors = ToSet(Specs)
  BY DEF WorkerInv, WorkerTypeOK, RunInv, SaveCursors
<1>2. /\ UNCHANGED <<now, world, job, ledger, mails, basis>>
      /\ cursors' = merge_cursor_state(cursors, w)
      /\ Goto(w, "report")
  BY DEF SaveCursors
<1>3. Onward
  BY <1>1, <1>2, StayOnward
<1>4. ASSUME NEW s \in ToSet(Specs)
      PROVE  DOMAIN cursors' = ToSet(Specs) /\ cursors'[s] \in Int \union {NULL}
             /\ Covered(s, cursors'[s])
  <2>1. Covered(s, cursors[s])
    BY DEF WorkerInv
  <2> QED BY <1>1, <1>2, <2>1, MergeFacts
<1>5. \A s \in ToSet(Specs) : Covered(s, cursors[s])'
  BY <1>2, <1>4 DEF Covered, Older, Known, world
<1>6. cursors' \in [ToSet(Specs) -> Int \union {NULL}]
  <2>1. DOMAIN cursors' = ToSet(Specs)
    BY <1>2, <1>1 DEF merge_cursor_state
  <2>2. cursors' = [s \in ToSet(Specs) |-> cursors'[s]]
    BY <1>1, <1>2 DEF merge_cursor_state
  <2> QED BY <1>4, <2>2
<1>7. /\ DOMAIN run' = Workers /\ \A v \in Workers \ {w} : run'[v] = run[v]
      /\ run'[w] = [NoRun EXCEPT !.job = run[w].job, !.started = run[w].started,
                                 !.summary = run[w].summary, !.coverage = run[w].coverage]
  BY <1>1 DEF WorkerTypeOK, SaveCursors
<1>8. /\ DOMAIN run'[w] = DOMAIN NoRun /\ run'[w].started = run[w].started
      /\ run'[w].job = run[w].job /\ run'[w].coverage = run[w].coverage
      /\ run'[w].summary = run[w].summary
  BY <1>7, RunFields
<1>9. pc' \in [Workers -> Places] /\ pc'[w] = "report"
      /\ \A v \in Workers \ {w} : pc'[v] = pc[v]
  BY <1>1, <1>2 DEF Goto, WorkerTypeOK, Places
<1>10. WorkerTypeOK'
  BY <1>1, <1>2, <1>6, <1>7, <1>9 DEF WorkerTypeOK, world
<1>11. RunInv(w)'
  <2>1. succeeded(w)' = succeeded(w)
    BY <1>8 DEF succeeded
  <2>2. Settled(run[w].started)' = Settled(run[w].started)
    BY <1>2, <1>8 DEF Settled, Older, world
  <2> QED BY <1>1, <1>2, <1>8, <1>9, <2>1, <2>2 DEF RunInv
<1>12. \A j \in Jobs : JobInv(j)'
  <2>1. ASSUME NEW j \in Jobs
        PROVE  JobInv(j)'
    <3>1. JobInv(j)
      BY DEF WorkerInv
    <3> QED BY <1>1, <1>2, <1>3, <3>1, JobStays
  <2> QED BY <2>1
<1> QED BY <1>3, <1>5, <1>7, <1>9, <1>10, <1>11, <1>12, Assemble

-----------------------------------------------------------------------------
(* The completion                                                          *)

\* The completion makes a job succeed whose run was settled and reported.
LEMMA CompleteStep ==
  ASSUME WorkerInv, NEW w \in Workers, Complete(w) PROVE WorkerInv'
<1>1. WorkerTypeOK /\ pc[w] = "complete" /\ RunInv(w) /\ now \in Nat
  BY DEF WorkerInv, WorkerTypeOK, Complete
<1>2. UNCHANGED <<now, world, cursors, ledger, mails>>
  BY DEF Complete, files
<1> DEFINE j == run[w].job
           row == CompletedRow(w, succeeded(w))
<1>3. PICK r \in request :
        LET taken == r.arrives /\ Held(w)
        IN  /\ job' = IF taken THEN [job EXCEPT ![j] = row] ELSE job
            /\ basis' = IF taken /\ succeeded(w)
                        THEN [basis EXCEPT ![j] = run[w].started] ELSE basis
            /\ IF taken /\ r.good
               THEN Goto(w, "idle") /\ run' = [run EXCEPT ![w] = NoRun]
               ELSE Raise(w, r.retryable \/ ~taken)
  BY DEF Complete
<1> DEFINE taken == r.arrives /\ Held(w)
<1>4. j \in Jobs
  BY <1>1 DEF RunInv
<1>5. Onward
  BY <1>1, <1>2, StayOnward
<1>6. /\ DOMAIN row = {"status", "holder", "attempts"}
      /\ row.status = "succeeded" => succeeded(w)
  <2>1. DOMAIN job[j] = {"status", "holder", "attempts"}
    BY <1>1, <1>4 DEF WorkerTypeOK
  <2>2. CASE succeeded(w)
    <3> QED BY <2>1, <2>2 DEF CompletedRow
  <2>3. CASE ~succeeded(w)
    <3> QED BY <2>1, <2>3 DEF CompletedRow, Retried
  <2> QED BY <2>2, <2>3
<1> HIDE DEF row
<1>7. /\ DOMAIN job' = Jobs /\ DOMAIN basis' = Jobs
      /\ \A i \in Jobs : DOMAIN job'[i] = {"status", "holder", "attempts"}
  BY <1>1, <1>3, <1>4, <1>6 DEF WorkerTypeOK
<1>8. ASSUME NEW i \in Jobs
      PROVE  JobInv(i)'
  <2>1. CASE i = j /\ taken /\ succeeded(w)
    <3>1. basis'[i] = run[w].started
      BY <1>1, <1>3, <1>4, <2>1 DEF WorkerTypeOK
    <3>2. /\ run[w].started \in Int /\ run[w].started <= now /\ Settled(run[w].started)
          /\ MailConfigured => j \in mails
      BY <1>1, <2>1 DEF RunInv
    <3>3. Settled(basis[i])'
      BY <1>2, <3>1, <3>2 DEF Settled, Older, world
    <3> QED BY <1>2, <2>1, <3>1, <3>2, <3>3 DEF JobInv
  <2>2. CASE ~(i = j /\ taken /\ succeeded(w))
    <3>1. JobInv(i)
      BY DEF WorkerInv
    <3>2. basis'[i] = basis[i]
      BY <1>1, <1>3, <1>4, <2>2 DEF WorkerTypeOK
    <3>3. job'[i].status = "succeeded" => job[i].status = "succeeded"
      BY <1>1, <1>3, <1>4, <1>6, <2>2 DEF WorkerTypeOK
    <3> QED BY <1>1, <1>5, <3>1, <3>2, <3>3, JobStays
  <2> QED BY <2>1, <2>2
<1>9. /\ pc' \in [Workers -> Places] /\ DOMAIN run' = Workers
      /\ \A v \in Workers \ {w} : pc'[v] = pc[v] /\ run'[v] = run[v]
      /\ RunInv(w)'
  <2>1. CASE taken /\ r.good
    <3>1. Goto(w, "idle") /\ run' = [run EXCEPT ![w] = NoRun]
      BY <1>3, <2>1
    <3>2. /\ pc' \in [Workers -> Places] /\ DOMAIN run' = Workers
          /\ \A v \in Workers \ {w} : pc'[v] = pc[v] /\ run'[v] = run[v]
          /\ pc'[w] = "idle" /\ run'[w] = NoRun
      BY <1>1, <3>1 DEF Goto, WorkerTypeOK, Places
    <3> QED BY <1>2, <3>2, AttemptEnds
  <2>2. CASE ~(taken /\ r.good)
    <3>1. PICK x : Raise(w, x)
      BY <1>3, <2>2
    <3>2. /\ pc' \in [Workers -> Places] /\ DOMAIN run' = Workers
          /\ \A v \in Workers \ {w} : pc'[v] = pc[v] /\ run'[v] = run[v]
          /\ pc'[w] = "failing" /\ run'[w] = [run[w] EXCEPT !.retryable = x]
      BY <1>1, <3>1 DEF Raise, Goto, WorkerTypeOK, Places
    <3>3. RunInv(w)'
      BY <1>1, <1>2, <3>2, RunFields DEF RunInv
    <3> QED BY <3>2, <3>3
  <2> QED BY <2>1, <2>2
<1>10. WorkerTypeOK'
  BY <1>1, <1>2, <1>7, <1>9 DEF WorkerTypeOK, world
<1>11. \A s \in ToSet(Specs) : Covered(s, cursors[s])'
  <2>1. ASSUME NEW s \in ToSet(Specs)
        PROVE  Covered(s, cursors[s])'
    <3>1. Covered(s, cursors[s])
      BY DEF WorkerInv
    <3> QED BY <1>1, <1>2, <1>5, <3>1, CoveredStays
  <2> QED BY <2>1
<1> QED BY <1>5, <1>8, <1>9, <1>10, <1>11, Assemble

-----------------------------------------------------------------------------
(* The theorems                                                            *)

\* Every step keeps the invariant.
LEMMA NextWorker == WorkerInv /\ [Next]_vars => WorkerInv'
<1> SUFFICES ASSUME WorkerInv, [Next]_vars PROVE WorkerInv'
  OBVIOUS
<1>1. ASSUME NEW w \in Workers,
             \/ Claim(w) \/ Begin(w) \/ FenceTimeout(w) \/ ReadCursors(w)
             \/ NoToken(w) \/ PageFails(w) \/ NextPage(w) \/ LastPage(w)
             \/ Validate(w) \/ SaveLedger(w) \/ SaveCursors(w) \/ Report(w)
             \/ Leave(w) \/ Complete(w) \/ ReportFailure(w)
             \/ Stop(w) \/ Killed(w) \/ Restart(w)
      PROVE  WorkerInv'
  BY <1>1, ClaimStep, BeginStep, FenceTimeoutStep, ReadCursorsStep, NoTokenStep, PageFailsStep,
     NextPageStep, LastPageStep, ValidateStep, SaveLedgerStep, SaveCursorsStep, ReportStep,
     LeaveStep, CompleteStep, ReportFailureStep, IdleStep, KilledStep
<1>2. CASE \E j \in Jobs : LeaseExpires(j)
  BY <1>2, LeaseExpiresStep
<1>3. CASE (\E s \in Authorized : Appears(s) \/ Resolved(s)) \/ Tick
  BY <1>3, WorldStep
<1>4. CASE UNCHANGED vars
  <2>1. UNCHANGED <<now, world, job, cursors, ledger, pc, run, mails, basis>>
    BY <1>4 DEF vars, files
  <2>2. WorkerTypeOK /\ WorkerTypeOK'
    BY <2>1 DEF WorkerInv, WorkerTypeOK, world
  <2>3. Onward
    BY <2>1, <2>2, StayOnward
  <2> QED BY <2>1, <2>2, <2>3, Elsewhere
<1> QED BY <1>1, <1>2, <1>3, <1>4 DEF Next

(* What every worker may rely on at each step of its run, and what the      *)
(* ledger, the cursors and the succeeded jobs are worth, whatever the       *)
(* interleaving of runs, kills, lapsed leases and failing pages             *)
(* (RecoveryEngine.run).                                                   *)
THEOREM WorkerInvariance == Spec => []WorkerInv
BY InitWorker, NextWorker, PTL DEF Spec

(* A job that succeeded tells the truth: what had appeared in a required    *)
(* source, up to the age a watermark may have, was resolved when the run    *)
(* was completed (RecoveryEngine.run, build_source_coverage_report).        *)
THEOREM SucceededIsTrue == Spec => []SucceededIsResolved
<1>1. WorkerInv => SucceededIsResolved
  <2> SUFFICES ASSUME WorkerInv, NEW j \in Jobs, NEW s \in Required, job[j].status = "succeeded",
                      born[s] # NULL, born[s] + MaxAge < basis[j]
               PROVE  phase[s] = "done"
    BY DEF SucceededIsResolved
  <2>1. basis[j] \in Int /\ Settled(basis[j])
    BY DEF WorkerInv, JobInv
  <2>2. born[s] \in Int /\ MaxAge \in Nat
    BY Manifest DEF WorkerInv, WorkerTypeOK
  <2>3. Older(s, basis[j] - MaxAge)
    BY <2>1, <2>2 DEF Older
  <2> QED BY <2>1, <2>3 DEF Settled
<1> QED BY <1>1, WorkerInvariance, PTL

(* No high-water mark passes an item the ledger does not know, though the   *)
(* two files are written one after the other and pages fail between them    *)
(* (RecoveryEngine.run, SourceCollector.collect).                           *)
THEOREM MarksHold == Spec => []MarksAreCovered
<1>1. WorkerInv => MarksAreCovered
  BY DEF WorkerInv, MarksAreCovered, Covered, Older, Known
<1> QED BY <1>1, WorkerInvariance, PTL

(* Where a report is configured no job succeeds without one: the report is  *)
(* sent before the completion, and a completion is of a run that sent it.   *)
THEOREM EverySuccessReported == Spec => []SucceededIsReported
<1>1. WorkerInv => SucceededIsReported
  BY DEF WorkerInv, JobInv, SucceededIsReported
<1> QED BY <1>1, WorkerInvariance, PTL

(* merge_cursor_state never takes a mark back, though a run merges what it  *)
(* had read before others merged.                                           *)
THEOREM MarksNeverGoBack == Spec => MarksGrow
<1>1. WorkerInv /\ [Next]_vars =>
        [\A s \in ToSet(Specs) :
           cursors[s] # NULL => cursors'[s] # NULL /\ cursors'[s] >= cursors[s]]_cursors
  <2> SUFFICES ASSUME WorkerInv, [Next]_vars, cursors' # cursors, NEW s \in ToSet(Specs),
                      cursors[s] # NULL
               PROVE  cursors'[s] # NULL /\ cursors'[s] >= cursors[s]
    OBVIOUS
  <2>1. PICK w \in Workers : SaveCursors(w)
    <3>1. ASSUME NEW w \in Workers,
                 \/ Claim(w) \/ Begin(w) \/ FenceTimeout(w) \/ ReadCursors(w)
                 \/ Report(w) \/ Leave(w) \/ Complete(w) \/ ReportFailure(w)
                 \/ Stop(w) \/ Restart(w)
          PROVE  cursors' = cursors
      BY <3>1 DEF Claim, Begin, FenceTimeout, ReadCursors, Report, Leave, Complete,
                  ReportFailure, Stop, Restart, files
    <3>2. ASSUME NEW w \in Workers,
                 NoToken(w) \/ PageFails(w) \/ NextPage(w) \/ LastPage(w)
          PROVE  cursors' = cursors
      <4>1. Collecting(w)
        BY <3>2 DEF NoToken, PageFails, NextPage, LastPage
      <4> QED BY <4>1 DEF Collecting, files
    <3>3. ASSUME NEW w \in Workers, Validate(w) \/ SaveLedger(w) \/ Killed(w)
          PROVE  cursors' = cursors
      BY <3>3 DEF Validate, SaveLedger, Killed
    <3>4. ASSUME NEW j \in Jobs, LeaseExpires(j)
          PROVE  cursors' = cursors
      BY <3>4 DEF LeaseExpires, files
    <3>5. ASSUME (\E x \in Authorized : Appears(x) \/ Resolved(x)) \/ Tick \/ UNCHANGED vars
          PROVE  cursors' = cursors
      BY <3>5 DEF Appears, Resolved, Tick, vars, files
    <3> QED BY <3>1, <3>2, <3>3, <3>4, <3>5 DEF Next
  <2>2. SavedInv(w) /\ Covered(s, cursors[s]) /\ DOMAIN cursors = ToSet(Specs) /\ now \in Nat
    BY <2>1 DEF WorkerInv, RunInv, WorkerTypeOK, SaveCursors
  <2>3. cursors' = merge_cursor_state(cursors, w)
    BY <2>1 DEF SaveCursors
  <2> QED BY <2>2, <2>3, MergeFacts
<1> QED BY <1>1, WorkerInvariance, PTL DEF Spec, MarksGrow

-----------------------------------------------------------------------------
(* The supervisor, for every number of slots, restart budget, window and   *)
(* grace period, and wherever signals arrive.                              *)


-----------------------------------------------------------------------------
(* The constants and the restart budget                                    *)

\* NIL is no number, no slot and no cause.
LEMMA NullIsNothing ==
  /\ NIL \notin {"drained", "kill_timeout", "spawn_failed", "key_error"}
  /\ \A n \in Nat : n # NIL
  /\ \A i \in Slots : i # NIL
BY SupervisorAssumption DEF Causes

\* A countdown stays in its range, and runs as long as it did.
LEMMA DownFacts ==
  ASSUME NEW top \in Nat, NEW n \in 0 .. top \union {NIL}
  PROVE  /\ Down(n) \in 0 .. top \union {NIL}
         /\ Down(n) = NIL <=> n = NIL
BY NullIsNothing DEF Down

Ages == 0 .. Window + 1

\* Dropping old exits leaves a history that is no longer.
LEMMA RecentFacts ==
  ASSUME NEW h \in Seq(Ages)
  PROVE  Recent(h) \in Seq(Ages) /\ Len(Recent(h)) \in 0 .. Len(h)
<1> DEFINE popped == {n \in DOMAIN h : \A m \in 1 .. n : h[m] > Window}
           c == Cardinality(popped)
<1>1. Len(h) \in Nat /\ DOMAIN h = 1 .. Len(h)
  OBVIOUS
<1>2. IsFiniteSet(1 .. Len(h)) /\ Cardinality(1 .. Len(h)) = Len(h)
  BY <1>1, FS_Interval
<1>3. c \in Nat /\ c <= Len(h)
  <2>1. popped \subseteq 1 .. Len(h)
    BY <1>1
  <2>2. IsFiniteSet(popped) /\ c <= Cardinality(1 .. Len(h))
    BY <1>2, <2>1, FS_Subset
  <2>3. QED
    BY <1>2, <2>2, FS_CardinalityType
<1>4. Recent(h) = SubSeq(h, c + 1, Len(h))
  BY DEF Recent
<1> HIDE DEF c
<1>5. QED
  BY <1>1, <1>3, <1>4

\* A recorded exit is the last of a history that grew by one at most.
LEMMA RememberedFacts ==
  ASSUME SupervisorTypeOK, NEW i \in Slots
  PROVE  /\ Remembered(i) \in Seq(Ages)
         /\ Len(Remembered(i)) \in 1 .. Len(exits[i]) + 1
<1>1. exits[i] \in Seq(Ages) /\ Len(exits[i]) \in Nat /\ 0 \in Ages
  BY SupervisorAssumption DEF SupervisorTypeOK, Ages
<1> DEFINE h == IF age[i] >= Stable THEN <<>> ELSE Recent(exits[i])
<1>2. h \in Seq(Ages) /\ Len(h) \in 0 .. Len(exits[i])
  BY <1>1, RecentFacts
<1>3. Remembered(i) = Append(h, 0)
  BY DEF Remembered
<1> HIDE DEF h
<1>4. QED
  BY <1>1, <1>2, <1>3

\* The delay before a restart that the budget allows.
LEMMA BackoffFacts ==
  ASSUME NEW n \in 1 .. MaxRestarts
  PROVE  Backoff(n) \in 0 .. MaxBackoff
<1>1. n - 1 \in 0 .. MaxRestarts
  BY SupervisorAssumption
<1>2. 2 ^ (n - 1) \in Nat
  BY <1>1, PowerAssumption
<1> DEFINE d == 2 ^ (n - 1)
<1>3. Backoff(n) = IF d > MaxBackoff THEN MaxBackoff ELSE d
  BY DEF Backoff
<1> HIDE DEF d
<1>4. d \in Nat
  BY <1>2 DEF d
<1>5. QED
  BY <1>3, <1>4, SupervisorAssumption

-----------------------------------------------------------------------------
(* Every step keeps the invariant                                          *)

\* A stop clears the restarts that wait and starts no process.
LEMMA RequestStopStep ==
  ASSUME SupervisorInv, RequestStop
  PROVE  SupervisorInv'
<1>1. SupervisorTypeOK'
  BY SupervisorAssumption DEF SupervisorInv, SupervisorTypeOK, Points, RequestStop, Terminated, procs, table, ending
<1>2. OneWorkerPerSlot' /\ RunningIsRegistered'
  BY DEF SupervisorInv, SupervisorTypeOK, OneWorkerPerSlot, RunningIsRegistered, ToStartIsIdle,
     RequestStop, Terminated, procs, table, ending
<1>3. ToStartIsIdle'
  BY DEF SupervisorInv, SupervisorTypeOK, RunningIsRegistered, ToStartIsIdle, RequestStop, Terminated, procs, table, ending
<1>4. StopIsSeen'
  BY NullIsNothing DEF SupervisorInv, SupervisorTypeOK, StopIsSeen, RequestStop, Terminated, procs, table, ending
<1>5. DrainedLeavesNobody'
  BY NullIsNothing DEF SupervisorInv, SupervisorTypeOK, DrainedLeavesNobody, RunningIsRegistered, StopIsSeen,
     RequestStop, Terminated, procs, table, ending
<1>6. QED
  BY <1>1, <1>2, <1>3, <1>4, <1>5 DEF SupervisorInv

\* A process that cannot be started ends the program.
LEMMA SpawnFailsStep ==
  ASSUME SupervisorInv, SpawnFails, point \in {"start", "respawn"}
  PROVE  SupervisorInv'
<1>1. SupervisorTypeOK'
  BY SupervisorAssumption DEF SupervisorInv, SupervisorTypeOK, Points, SpawnFails, Return, Causes, procs, table, ending
<1>2. OneWorkerPerSlot' /\ RunningIsRegistered'
  BY DEF SupervisorInv, SupervisorTypeOK, OneWorkerPerSlot, RunningIsRegistered, ToStartIsIdle,
     SpawnFails, Return, Causes, procs, table, ending
<1>3. ToStartIsIdle'
  BY DEF SupervisorInv, SupervisorTypeOK, RunningIsRegistered, ToStartIsIdle, SpawnFails, Return, Causes, procs, table, ending
<1>4. StopIsSeen'
  BY NullIsNothing DEF SupervisorInv, SupervisorTypeOK, StopIsSeen, SpawnFails, Return, Causes, procs, table, ending
<1>5. DrainedLeavesNobody'
  BY NullIsNothing DEF SupervisorInv, SupervisorTypeOK, DrainedLeavesNobody, RunningIsRegistered, StopIsSeen,
     SpawnFails, Return, Causes, procs, table, ending
<1>6. QED
  BY <1>1, <1>2, <1>3, <1>4, <1>5 DEF SupervisorInv

\* A slot in which a process is started had none.
LEMMA SpawnStep ==
  ASSUME SupervisorInv, NEW i \in todo, point \in {"start", "respawn"}, Spawn(i), todo' = todo \ {i},
         point' = IF point = "start" THEN "started" ELSE "respawned",
         UNCHANGED <<table, ending, signals, cause>>, late' \subseteq Slots
  PROVE  SupervisorInv'
<1>1. /\ i \in Slots /\ live[i] = 0 /\ i \notin children
      /\ live' = [live EXCEPT ![i] = 1] /\ cur' = i
      /\ age' = [age EXCEPT ![i] = 0] /\ told' = [told EXCEPT ![i] = "none"]
  <2>1. i \in Slots /\ live[i] = 0 /\ i \notin children
    BY DEF SupervisorInv, SupervisorTypeOK, ToStartIsIdle
  <2>2. live' = [live EXCEPT ![i] = live[i] + 1]
    BY DEF Spawn
  <2>3. live[i] + 1 = 1
    BY <2>1
  <2>4. QED
    BY <2>1, <2>2, <2>3 DEF Spawn
<1>2. UNCHANGED <<children, pending, exits, stopping, exitCode, shutdown, killing, signals, cause>>
  BY DEF table, ending
<1>3. SupervisorTypeOK'
  <2>1. /\ live' \in [Slots -> Nat] /\ age' \in [Slots -> 0 .. Stable]
        /\ told' \in [Slots -> {"none", "term", "kill"}]
    BY <1>1, SupervisorAssumption DEF SupervisorInv, SupervisorTypeOK
  <2>2. todo' \subseteq Slots /\ cur' \in Slots /\ point' \in Points
    BY <1>1 DEF SupervisorInv, SupervisorTypeOK, Points
  <2>3. QED
    BY <1>2, <2>1, <2>2 DEF SupervisorInv, SupervisorTypeOK
<1>4. OneWorkerPerSlot' /\ RunningIsRegistered'
  BY <1>1, <1>2 DEF SupervisorInv, SupervisorTypeOK, OneWorkerPerSlot, RunningIsRegistered
<1>5. ToStartIsIdle'
  BY <1>1, <1>2 DEF SupervisorInv, SupervisorTypeOK, ToStartIsIdle
<1>6. StopIsSeen'
  BY <1>1, <1>2 DEF SupervisorInv, SupervisorTypeOK, StopIsSeen
<1>7. DrainedLeavesNobody'
  BY <1>1, <1>2, NullIsNothing DEF SupervisorInv, DrainedLeavesNobody, StopIsSeen
<1>8. QED
  BY <1>3, <1>4, <1>5, <1>6, <1>7 DEF SupervisorInv

\* The first loop starts every slot once.
LEMMA StartStep ==
  ASSUME SupervisorInv, Start
  PROVE  SupervisorInv'
<1>1. CASE todo = {}
  <2>1. point = "start" /\ point' = "head" /\ UNCHANGED <<procs, table, ending, todo, cur, signals, late, cause>>
    BY <1>1 DEF Start
  <2>2. QED
    BY <1>1, <2>1 DEF SupervisorInv, SupervisorTypeOK, Points, OneWorkerPerSlot, RunningIsRegistered, ToStartIsIdle,
       StopIsSeen, DrainedLeavesNobody, procs, table, ending
<1>2. CASE SpawnFails
  BY <1>2, SpawnFailsStep DEF Start
<1>3. ASSUME NEW i \in todo, Spawn(i), todo' = todo \ {i}, point' = "started",
             UNCHANGED <<table, ending, signals, late, cause>>
      PROVE  SupervisorInv'
  <2>1. point = "start" /\ late' \subseteq Slots
    BY <1>3 DEF Start, SupervisorInv, SupervisorTypeOK
  <2>2. QED
    BY <1>3, <2>1, SpawnStep
<1>4. QED
  BY <1>1, <1>2, <1>3 DEF Start

\* A started process is registered.
LEMMA StartedStep ==
  ASSUME SupervisorInv, Started
  PROVE  SupervisorInv'
<1>1. SupervisorTypeOK'
  BY SupervisorAssumption DEF SupervisorInv, SupervisorTypeOK, Points, ToStartIsIdle, Started, procs, table, ending
<1>2. OneWorkerPerSlot' /\ RunningIsRegistered'
  BY DEF SupervisorInv, SupervisorTypeOK, OneWorkerPerSlot, RunningIsRegistered, ToStartIsIdle,
     Started, procs, table, ending
<1>3. ToStartIsIdle'
  BY DEF SupervisorInv, SupervisorTypeOK, RunningIsRegistered, ToStartIsIdle, Started, procs, table, ending
<1>4. StopIsSeen'
  BY NullIsNothing DEF SupervisorInv, SupervisorTypeOK, StopIsSeen, Started, procs, table, ending
<1>5. DrainedLeavesNobody'
  BY NullIsNothing DEF SupervisorInv, SupervisorTypeOK, DrainedLeavesNobody, RunningIsRegistered, StopIsSeen,
     Started, procs, table, ending
<1>6. QED
  BY <1>1, <1>2, <1>3, <1>4, <1>5 DEF SupervisorInv

\* The loop ends when nobody is registered or waits.
LEMMA HeadStep ==
  ASSUME SupervisorInv, Head_
  PROVE  SupervisorInv'
<1>1. SupervisorTypeOK'
  BY SupervisorAssumption DEF SupervisorInv, SupervisorTypeOK, Points, Head_, Return, Causes, procs, table, ending
<1>2. OneWorkerPerSlot' /\ RunningIsRegistered'
  BY DEF SupervisorInv, SupervisorTypeOK, OneWorkerPerSlot, RunningIsRegistered, ToStartIsIdle,
     Head_, Return, Causes, procs, table, ending
<1>3. ToStartIsIdle'
  BY DEF SupervisorInv, SupervisorTypeOK, RunningIsRegistered, ToStartIsIdle, Head_, Return, Causes, procs, table, ending
<1>4. StopIsSeen'
  BY NullIsNothing DEF SupervisorInv, SupervisorTypeOK, StopIsSeen, Head_, Return, Causes, procs, table, ending
<1>5. DrainedLeavesNobody'
  <2>1. point = "head" /\ live' = live /\ cause = NIL
    BY DEF Head_, SupervisorInv, StopIsSeen, procs
  <2>2. CASE children = {}
    BY <2>1, <2>2 DEF SupervisorInv, SupervisorTypeOK, RunningIsRegistered, DrainedLeavesNobody
  <2>3. CASE children # {}
    BY <2>1, <2>3, NullIsNothing DEF Head_, DrainedLeavesNobody
  <2>4. QED
    BY <2>2, <2>3
<1>6. QED
  BY <1>1, <1>2, <1>3, <1>4, <1>5 DEF SupervisorInv

\* Only a child that has ended is forgotten.
LEMMA ReapStep ==
  ASSUME SupervisorInv, Reap
  PROVE  SupervisorInv'
<1>1. SupervisorTypeOK'
  BY SupervisorAssumption DEF SupervisorInv, SupervisorTypeOK, Points, Reap, procs, table, ending
<1>2. OneWorkerPerSlot' /\ RunningIsRegistered'
  BY DEF SupervisorInv, SupervisorTypeOK, OneWorkerPerSlot, RunningIsRegistered, ToStartIsIdle,
     Reap, procs, table, ending
<1>3. ToStartIsIdle'
  BY DEF SupervisorInv, SupervisorTypeOK, RunningIsRegistered, ToStartIsIdle, Reap, procs, table, ending
<1>4. StopIsSeen'
  BY NullIsNothing DEF SupervisorInv, SupervisorTypeOK, StopIsSeen, Reap, procs, table, ending
<1>5. DrainedLeavesNobody'
  BY NullIsNothing DEF SupervisorInv, SupervisorTypeOK, DrainedLeavesNobody, RunningIsRegistered, StopIsSeen,
     Reap, procs, table, ending
<1>6. QED
  BY <1>1, <1>2, <1>3, <1>4, <1>5 DEF SupervisorInv

\* A recorded exit makes its slot wait, or stops everything.
LEMMA RecordStep ==
  ASSUME SupervisorInv, Record
  PROVE  SupervisorInv'
<1> DEFINE r == Remembered(cur)
<1>1. /\ point = "reaped" /\ cur \in Slots \ children /\ live[cur] = 0 /\ cause = NIL
      /\ exits' = [exits EXCEPT ![cur] = r]
      /\ UNCHANGED <<live, age, children, killing, todo, cur, signals, late, cause>>
  BY DEF Record, SupervisorInv, ToStartIsIdle, StopIsSeen
<1>2. r \in Seq(Ages) /\ Len(r) \in Nat \ {0}
  BY <1>1, RememberedFacts DEF SupervisorInv, SupervisorTypeOK
<1>3. CASE Len(r) <= MaxRestarts
  <2>1. Backoff(Len(r)) \in 0 .. MaxBackoff
    BY <1>2, <1>3, BackoffFacts, SupervisorAssumption
  <2> DEFINE b == Backoff(Len(r))
  <2>2. /\ pending' = [pending EXCEPT ![cur] = b] /\ point' = "reap"
        /\ UNCHANGED <<told, exitCode, stopping, shutdown>>
    BY <1>3 DEF Record
  <2> HIDE DEF r, b
  <2>3. SupervisorTypeOK'
    BY <1>1, <1>2, <2>1, <2>2 DEF SupervisorInv, SupervisorTypeOK, Points, Ages, b
  <2>4. OneWorkerPerSlot' /\ RunningIsRegistered' /\ ToStartIsIdle'
    BY <1>1, <2>2 DEF SupervisorInv, SupervisorTypeOK, OneWorkerPerSlot, RunningIsRegistered, ToStartIsIdle
  <2>5. StopIsSeen' /\ DrainedLeavesNobody'
    BY <1>1, <2>2, NullIsNothing DEF SupervisorInv, StopIsSeen, DrainedLeavesNobody
  <2>6. QED
    BY <2>3, <2>4, <2>5 DEF SupervisorInv
<1>4. CASE ~(Len(r) <= MaxRestarts)
  <2>1. /\ exitCode' = 2 /\ stopping' = TRUE /\ pending' = [i \in Slots |-> NIL]
        /\ shutdown' = Grace /\ told' = Terminated /\ point' = "stopcheck"
    BY <1>4 DEF Record
  <2> HIDE DEF r
  <2>2. SupervisorTypeOK'
    BY <1>1, <1>2, <2>1, SupervisorAssumption DEF SupervisorInv, SupervisorTypeOK, Points, Ages, Terminated
  <2>3. OneWorkerPerSlot' /\ RunningIsRegistered' /\ ToStartIsIdle'
    BY <1>1, <2>1 DEF SupervisorInv, SupervisorTypeOK, OneWorkerPerSlot, RunningIsRegistered, ToStartIsIdle
  <2>4. StopIsSeen' /\ DrainedLeavesNobody'
    BY <1>1, <2>1, NullIsNothing DEF SupervisorInv, StopIsSeen, DrainedLeavesNobody
  <2>5. QED
    BY <2>2, <2>3, <2>4 DEF SupervisorInv
<1>5. QED
  BY <1>3, <1>4

\* While stopping, the children that have ended are dropped.
LEMMA DrainStep ==
  ASSUME SupervisorInv, Drain
  PROVE  SupervisorInv'
<1>1. SupervisorTypeOK'
  BY SupervisorAssumption DEF SupervisorInv, SupervisorTypeOK, Points, Drain, procs, table, ending
<1>2. OneWorkerPerSlot' /\ RunningIsRegistered'
  BY DEF SupervisorInv, SupervisorTypeOK, OneWorkerPerSlot, RunningIsRegistered, ToStartIsIdle,
     Drain, procs, table, ending
<1>3. ToStartIsIdle'
  BY DEF SupervisorInv, SupervisorTypeOK, RunningIsRegistered, ToStartIsIdle, Drain, procs, table, ending
<1>4. StopIsSeen'
  BY NullIsNothing DEF SupervisorInv, SupervisorTypeOK, StopIsSeen, Drain, procs, table, ending
<1>5. DrainedLeavesNobody'
  BY NullIsNothing DEF SupervisorInv, SupervisorTypeOK, DrainedLeavesNobody, RunningIsRegistered, StopIsSeen,
     Drain, procs, table, ending
<1>6. QED
  BY <1>1, <1>2, <1>3, <1>4, <1>5 DEF SupervisorInv

\* The drain ends with no child, or goes on to kill, or gives up.
LEMMA DeadlineStep ==
  ASSUME SupervisorInv, Deadline
  PROVE  SupervisorInv'
<1>1. SupervisorTypeOK'
  <2>1. UNCHANGED <<live, age, children, pending, exits, stopping, shutdown, todo, cur, signals, late>>
    BY DEF Deadline, table
  <2>2. /\ told' \in [Slots -> {"none", "term", "kill"}]
        /\ killing' \in 0 .. KillGrace \union {NIL}
    BY SupervisorAssumption DEF SupervisorInv, SupervisorTypeOK, Deadline
  <2>3. exitCode' \in {0, 1, 2} /\ point' \in Points \union {"ended"} /\ cause' \in Causes \union {NIL}
    BY DEF SupervisorInv, SupervisorTypeOK, Points, Deadline, Return, Causes
  <2>4. QED
    BY <2>1, <2>2, <2>3 DEF SupervisorInv, SupervisorTypeOK
<1>2. OneWorkerPerSlot' /\ RunningIsRegistered'
  BY DEF SupervisorInv, SupervisorTypeOK, OneWorkerPerSlot, RunningIsRegistered, ToStartIsIdle,
     Deadline, Return, Causes, procs, table, ending
<1>3. ToStartIsIdle'
  BY DEF SupervisorInv, SupervisorTypeOK, RunningIsRegistered, ToStartIsIdle, Deadline, Return, Causes, procs, table, ending
<1>4. StopIsSeen'
  BY NullIsNothing DEF SupervisorInv, SupervisorTypeOK, StopIsSeen, Deadline, Return, Causes, procs, table, ending
<1>5. DrainedLeavesNobody'
  <2>1. point = "deadline" /\ live' = live /\ cause = NIL
    BY DEF Deadline, SupervisorInv, StopIsSeen
  <2>2. CASE children = {}
    BY <2>1, <2>2 DEF SupervisorInv, SupervisorTypeOK, RunningIsRegistered, DrainedLeavesNobody
  <2>3. CASE children # {}
    <3>1. cause' \in {NIL, "kill_timeout"}
      BY <2>1, <2>3 DEF Deadline, Return
    <3>2. QED
      BY <3>1, NullIsNothing DEF DrainedLeavesNobody
  <2>4. QED
    BY <2>2, <2>3
<1>6. QED
  BY <1>1, <1>2, <1>3, <1>4, <1>5 DEF SupervisorInv

\* The restarts that are due are of idle slots.
LEMMA ContinueStep ==
  ASSUME SupervisorInv, Continue
  PROVE  SupervisorInv'
<1>1. SupervisorTypeOK'
  BY SupervisorAssumption, NullIsNothing DEF SupervisorInv, SupervisorTypeOK, Points, Continue, procs, table, ending
<1>2. OneWorkerPerSlot' /\ RunningIsRegistered'
  BY NullIsNothing DEF SupervisorInv, SupervisorTypeOK, OneWorkerPerSlot, RunningIsRegistered, ToStartIsIdle,
     Continue, procs, table, ending
<1>3. ToStartIsIdle'
  BY NullIsNothing DEF SupervisorInv, SupervisorTypeOK, RunningIsRegistered, ToStartIsIdle, Continue, procs, table, ending
<1>4. StopIsSeen'
  BY NullIsNothing DEF SupervisorInv, SupervisorTypeOK, StopIsSeen, Continue, procs, table, ending
<1>5. DrainedLeavesNobody'
  BY NullIsNothing DEF SupervisorInv, SupervisorTypeOK, DrainedLeavesNobody, RunningIsRegistered, StopIsSeen,
     Continue, procs, table, ending
<1>6. QED
  BY <1>1, <1>2, <1>3, <1>4, <1>5 DEF SupervisorInv

\* A restart that is due starts a process in an idle slot.
LEMMA RespawnStep ==
  ASSUME SupervisorInv, Respawn
  PROVE  SupervisorInv'
<1>1. CASE todo = {}
  <2>1. point = "respawn" /\ point' = "sleep" /\ UNCHANGED <<procs, table, ending, todo, cur, signals, late, cause>>
    BY <1>1 DEF Respawn
  <2>2. QED
    BY <1>1, <2>1 DEF SupervisorInv, SupervisorTypeOK, Points, OneWorkerPerSlot, RunningIsRegistered, ToStartIsIdle,
       StopIsSeen, DrainedLeavesNobody, procs, table, ending
<1>2. CASE SpawnFails
  BY <1>2, SpawnFailsStep DEF Respawn
<1>3. ASSUME NEW i \in todo, Spawn(i), todo' = todo \ {i}, point' = "respawned",
             late' = IF stopping THEN late \union {i} ELSE late,
             UNCHANGED <<table, ending, signals, cause>>
      PROVE  SupervisorInv'
  <2>1. point = "respawn" /\ late' \subseteq Slots
    BY <1>3 DEF Respawn, SupervisorInv, SupervisorTypeOK
  <2>2. QED
    BY <1>3, <2>1, SpawnStep
<1>4. QED
  BY <1>1, <1>2, <1>3 DEF Respawn

\* A restarted process is registered before its restart is unqueued.
LEMMA RespawnedStep ==
  ASSUME SupervisorInv, Respawned
  PROVE  SupervisorInv'
<1>1. SupervisorTypeOK'
  BY SupervisorAssumption DEF SupervisorInv, SupervisorTypeOK, Points, ToStartIsIdle, Respawned, procs, table, ending
<1>2. OneWorkerPerSlot' /\ RunningIsRegistered'
  BY DEF SupervisorInv, SupervisorTypeOK, OneWorkerPerSlot, RunningIsRegistered, ToStartIsIdle,
     Respawned, procs, table, ending
<1>3. ToStartIsIdle'
  BY DEF SupervisorInv, SupervisorTypeOK, RunningIsRegistered, ToStartIsIdle, Respawned, procs, table, ending
<1>4. StopIsSeen'
  BY NullIsNothing DEF SupervisorInv, SupervisorTypeOK, StopIsSeen, Respawned, procs, table, ending
<1>5. DrainedLeavesNobody'
  BY NullIsNothing DEF SupervisorInv, SupervisorTypeOK, DrainedLeavesNobody, RunningIsRegistered, StopIsSeen,
     Respawned, procs, table, ending
<1>6. QED
  BY <1>1, <1>2, <1>3, <1>4, <1>5 DEF SupervisorInv

\* A restart is unqueued, or was cleared by a stop in between.
LEMMA UnqueueStep ==
  ASSUME SupervisorInv, Unqueue
  PROVE  SupervisorInv'
<1>1. SupervisorTypeOK'
  BY SupervisorAssumption DEF SupervisorInv, SupervisorTypeOK, Points, Unqueue, Return, Causes, procs, table, ending
<1>2. OneWorkerPerSlot' /\ RunningIsRegistered'
  BY DEF SupervisorInv, SupervisorTypeOK, OneWorkerPerSlot, RunningIsRegistered, ToStartIsIdle,
     Unqueue, Return, Causes, procs, table, ending
<1>3. ToStartIsIdle'
  BY DEF SupervisorInv, SupervisorTypeOK, RunningIsRegistered, ToStartIsIdle, Unqueue, Return, Causes, procs, table, ending
<1>4. StopIsSeen'
  BY NullIsNothing DEF SupervisorInv, SupervisorTypeOK, StopIsSeen, Unqueue, Return, Causes, procs, table, ending
<1>5. DrainedLeavesNobody'
  BY NullIsNothing DEF SupervisorInv, SupervisorTypeOK, DrainedLeavesNobody, RunningIsRegistered, StopIsSeen,
     Unqueue, Return, Causes, procs, table, ending
<1>6. QED
  BY <1>1, <1>2, <1>3, <1>4, <1>5 DEF SupervisorInv

\* The loop goes round.
LEMMA WakeStep ==
  ASSUME SupervisorInv, Wake
  PROVE  SupervisorInv'
<1>1. SupervisorTypeOK'
  BY SupervisorAssumption DEF SupervisorInv, SupervisorTypeOK, Points, Wake, procs, table, ending
<1>2. OneWorkerPerSlot' /\ RunningIsRegistered'
  BY DEF SupervisorInv, SupervisorTypeOK, OneWorkerPerSlot, RunningIsRegistered, ToStartIsIdle,
     Wake, procs, table, ending
<1>3. ToStartIsIdle'
  BY DEF SupervisorInv, SupervisorTypeOK, RunningIsRegistered, ToStartIsIdle, Wake, procs, table, ending
<1>4. StopIsSeen'
  BY NullIsNothing DEF SupervisorInv, SupervisorTypeOK, StopIsSeen, Wake, procs, table, ending
<1>5. DrainedLeavesNobody'
  BY NullIsNothing DEF SupervisorInv, SupervisorTypeOK, DrainedLeavesNobody, RunningIsRegistered, StopIsSeen,
     Wake, procs, table, ending
<1>6. QED
  BY <1>1, <1>2, <1>3, <1>4, <1>5 DEF SupervisorInv

\* Time moves ages and countdowns.
LEMMA ClockTickStep ==
  ASSUME SupervisorInv, ClockTick
  PROVE  SupervisorInv'
<1>1. /\ point = "sleep"
      /\ UNCHANGED <<live, told, children, stopping, exitCode, point, todo, cur, signals, late, cause>>
      /\ pending' = [i \in Slots |-> Down(pending[i])]
      /\ shutdown' = Down(shutdown) /\ killing' = Down(killing)
  BY DEF ClockTick
<1>2. age' \in [Slots -> 0 .. Stable]
  BY SupervisorAssumption DEF ClockTick, SupervisorInv, SupervisorTypeOK
<1>3. exits' \in [Slots -> Seq(0 .. Window + 1)]
  <2>1. ASSUME NEW i \in Slots
        PROVE  [k \in 1 .. Len(exits[i]) |-> IF exits[i][k] <= Window THEN exits[i][k] + 1 ELSE exits[i][k]]
                 \in Seq(0 .. Window + 1)
    <3>1. Len(exits[i]) \in Nat /\ \A k \in 1 .. Len(exits[i]) : exits[i][k] \in 0 .. Window + 1
      <4>1. exits[i] \in Seq(0 .. Window + 1)
        BY DEF SupervisorInv, SupervisorTypeOK
      <4>2. QED
        BY <4>1, ElementOfSeq, LenProperties
    <3>2. QED
      BY <3>1, SupervisorAssumption
  <2>2. QED
    BY <2>1 DEF ClockTick
<1>4. /\ shutdown' \in 0 .. Grace \union {NIL}
      /\ killing' \in 0 .. KillGrace \union {NIL} /\ (killing' = NIL <=> killing = NIL)
      /\ pending' \in [Slots -> 0 .. MaxBackoff \union {NIL}]
      /\ \A i \in Slots : pending'[i] = NIL <=> pending[i] = NIL
  BY <1>1, DownFacts, SupervisorAssumption DEF SupervisorInv, SupervisorTypeOK
<1>5. SupervisorTypeOK'
  BY <1>1, <1>2, <1>3, <1>4 DEF SupervisorInv, SupervisorTypeOK
<1>6. OneWorkerPerSlot' /\ RunningIsRegistered' /\ ToStartIsIdle'
  BY <1>1, <1>4 DEF SupervisorInv, OneWorkerPerSlot, RunningIsRegistered, ToStartIsIdle
<1>7. StopIsSeen' /\ DrainedLeavesNobody'
  BY <1>1, <1>4 DEF SupervisorInv, StopIsSeen, DrainedLeavesNobody
<1>8. QED
  BY <1>5, <1>6, <1>7 DEF SupervisorInv

\* A process that ends leaves its slot idle.
LEMMA WorkerExitsStep ==
  ASSUME SupervisorInv, NEW i \in Slots, WorkerExits(i)
  PROVE  SupervisorInv'
<1>1. /\ live[i] \in Nat /\ live[i] = 1 /\ live' = [live EXCEPT ![i] = 0] /\ point # "ended"
      /\ UNCHANGED <<told, age, table, ending, point, todo, cur, signals, late, cause>>
  <2>1. live[i] \in Nat /\ live[i] = 1
    BY DEF WorkerExits, SupervisorInv, SupervisorTypeOK, OneWorkerPerSlot
  <2>2. live' = [live EXCEPT ![i] = live[i] - 1]
    BY DEF WorkerExits
  <2>3. live[i] - 1 = 0
    BY <2>1
  <2>4. QED
    BY <2>1, <2>2, <2>3 DEF WorkerExits
<1>2. QED
  BY <1>1 DEF SupervisorInv, SupervisorTypeOK, OneWorkerPerSlot, RunningIsRegistered, ToStartIsIdle, StopIsSeen,
     DrainedLeavesNobody, table, ending

\* The program begins with nothing running.
LEMMA SupervisorInvInit ==
  ASSUME SupervisorInit
  PROVE  SupervisorInv
<1>1. SupervisorTypeOK
  <2>1. /\ live \in [Slots -> Nat] /\ told \in [Slots -> {"none", "term", "kill"}]
        /\ age \in [Slots -> 0 .. Stable] /\ pending \in [Slots -> 0 .. MaxBackoff \union {NIL}]
    BY SupervisorAssumption DEF SupervisorInit
  <2>2. exits \in [Slots -> Seq(0 .. Window + 1)]
    <3>1. <<>> \in Seq(0 .. Window + 1)
      OBVIOUS
    <3>2. QED
      BY <3>1 DEF SupervisorInit
  <2>3. QED
    BY <2>1, <2>2 DEF SupervisorInit, SupervisorTypeOK, Points
<1>2. OneWorkerPerSlot /\ RunningIsRegistered /\ ToStartIsIdle
  BY DEF SupervisorInit, OneWorkerPerSlot, RunningIsRegistered, ToStartIsIdle
<1>3. StopIsSeen /\ DrainedLeavesNobody
  BY NullIsNothing DEF SupervisorInit, StopIsSeen, DrainedLeavesNobody
<1>4. QED
  BY <1>1, <1>2, <1>3 DEF SupervisorInv

\* One step of the program, of its workers or of the clock.
LEMMA SupervisorInvStep ==
  ASSUME SupervisorInv, [SupervisorNext]_supervisor_vars
  PROVE  SupervisorInv'
<1>1. CASE Main
  BY <1>1, StartStep, StartedStep, HeadStep, ReapStep, RecordStep, DrainStep, DeadlineStep,
     ContinueStep, RespawnStep, RespawnedStep, UnqueueStep, WakeStep DEF Main
<1>2. CASE ClockTick
  BY <1>2, ClockTickStep
<1>3. CASE RequestStop
  BY <1>3, RequestStopStep
<1>4. CASE \E i \in Slots : WorkerExits(i)
  BY <1>4, WorkerExitsStep
<1>5. CASE UNCHANGED supervisor_vars
  BY <1>5 DEF supervisor_vars, procs, table, ending, SupervisorInv, SupervisorTypeOK, OneWorkerPerSlot, RunningIsRegistered,
     ToStartIsIdle, StopIsSeen, DrainedLeavesNobody
<1>6. QED
  BY <1>1, <1>2, <1>3, <1>4, <1>5 DEF SupervisorNext
-----------------------------------------------------------------------------
(* The theorems                                                            *)

(* The inductive invariant of the supervisor.                              *)
THEOREM SupervisorInvariance == SupervisorSpec => []SupervisorInv
<1>1. SupervisorInit => SupervisorInv
  BY SupervisorInvInit
<1>2. SupervisorInv /\ [SupervisorNext]_supervisor_vars => SupervisorInv'
  BY SupervisorInvStep
<1>3. QED
  BY <1>1, <1>2, PTL DEF SupervisorSpec

(* Counters, deadlines and histories stay in their ranges.                 *)
THEOREM SupervisorTypeCorrect == SupervisorSpec => []SupervisorTypeOK
<1>1. SupervisorInv => SupervisorTypeOK
  BY DEF SupervisorInv
<1>2. QED
  BY <1>1, SupervisorInvariance, PTL

(* Whatever the signals do to the restart loop, a slot never has two       *)
(* worker processes, so no two processes share a worker id of the queue.   *)
THEOREM OneWorker == SupervisorSpec => []OneWorkerPerSlot
<1>1. SupervisorInv => OneWorkerPerSlot
  BY DEF SupervisorInv
<1>2. QED
  BY <1>1, SupervisorInvariance, PTL

(* A supervisor that ends by draining leaves no worker running.            *)
THEOREM NobodyLeft == SupervisorSpec => []DrainedLeavesNobody
<1>1. SupervisorInv => DrainedLeavesNobody
  BY DEF SupervisorInv
<1>2. QED
  BY <1>1, SupervisorInvariance, PTL

-----------------------------------------------------------------------------
(* The repository's model of the slots                                     *)

\* A step that moves no slot, counts no exit and stops nothing.
LEMMA QuietStep ==
  ASSUME cause # "kill_timeout", cause' # "kill_timeout", stopping' = stopping,
         exitCode' = exitCode \/ ~stopping,
         \A i \in Slots : Len(exits'[i]) = Len(exits[i]),
         \A i \in Slots : PhaseOf(i)' = PhaseOf(i)
  PROVE  UNCHANGED Phases!vars
BY DEF Phases!vars

\* What is known of a step under signals that arrive in the sleep.
LEMMA NotEnded ==
  ASSUME SupervisorInv, SupervisorNext, signals = {"sleep"}
  PROVE  point # "ended" /\ cause = NIL /\ cause # "kill_timeout"
<1>1. point # "ended"
  BY DEF SupervisorNext, Main, ClockTick, RequestStop, WorkerExits, Start, Started, Head_, Reap, Record, Drain,
     Deadline, Continue, Respawn, Respawned, Unqueue, Wake
<1>2. QED
  BY <1>1, NullIsNothing DEF SupervisorInv, StopIsSeen

\* The steps of the loop that change no slot.
LEMMA QuietActions ==
  ASSUME SupervisorInv, signals = {"sleep"}, cause = NIL,
         \/ Started \/ Head_ \/ Continue \/ Respawned \/ Unqueue \/ Wake
         \/ \E i \in Slots : WorkerExits(i)
  PROVE  UNCHANGED Phases!vars
<1>1. /\ cause # "kill_timeout" /\ cause' # "kill_timeout" /\ stopping' = stopping
      /\ (exitCode' = exitCode \/ ~stopping) /\ exits' = exits
  BY NullIsNothing DEF SupervisorInv, StopIsSeen, Started, Head_, Continue, Respawned, Unqueue, Wake, WorkerExits,
     Return, table, ending
<1>2. ASSUME NEW i \in Slots
      PROVE  PhaseOf(i)' = PhaseOf(i)
  BY <1>1 DEF SupervisorInv, StopIsSeen, PhaseOf, Started, Head_, Continue, Respawned, Unqueue, Wake, WorkerExits,
     Return, table, ending
<1>3. QED
  BY <1>1, <1>2, QuietStep

\* Before the loop every slot counts as running.
LEMMA StartPhases ==
  ASSUME SupervisorInv, signals = {"sleep"}, cause = NIL, cause' # "spawn_failed", Start
  PROVE  UNCHANGED Phases!vars
<1>1. /\ cause # "kill_timeout" /\ cause' # "kill_timeout" /\ UNCHANGED ending /\ exits' = exits
      /\ point = "start" /\ ~stopping
  BY NullIsNothing DEF SupervisorInv, StopIsSeen, Start, SpawnFails, Return, table
<1>2. ASSUME NEW i \in Slots
      PROVE  PhaseOf(i)' = PhaseOf(i)
  BY <1>1 DEF SupervisorInv, StopIsSeen, PhaseOf, Start, SpawnFails, Return, table, ending
<1>3. QED
  BY <1>1, <1>2, QuietStep DEF ending

\* The clock changes no slot.
LEMMA TickPhases ==
  ASSUME SupervisorInv, signals = {"sleep"}, cause = NIL, ClockTick
  PROVE  UNCHANGED Phases!vars
<1>1. /\ cause # "kill_timeout" /\ cause' # "kill_timeout"
      /\ UNCHANGED <<stopping, exitCode, children, point, cur, cause>>
  BY NullIsNothing DEF ClockTick
<1>2. ASSUME NEW i \in Slots
      PROVE  Len(exits'[i]) = Len(exits[i])
  <2>1. Len(exits[i]) \in Nat
    <3>1. exits[i] \in Seq(0 .. Window + 1)
      BY DEF SupervisorInv, SupervisorTypeOK
    <3>2. QED
      BY <3>1, LenProperties
  <2>2. exits'[i] = [k \in 1 .. Len(exits[i]) |->
                       IF exits[i][k] <= Window THEN exits[i][k] + 1 ELSE exits[i][k]]
    BY DEF ClockTick
  <2> DEFINE f(k) == IF exits[i][k] <= Window THEN exits[i][k] + 1 ELSE exits[i][k]
  <2>3. exits'[i] = [k \in 1 .. Len(exits[i]) |-> f(k)]
    BY <2>2
  <2> HIDE DEF f
  <2>4. QED
    BY <2>1, <2>3
<1>3. killing' = NIL <=> killing = NIL
  BY DownFacts, SupervisorAssumption DEF SupervisorInv, SupervisorTypeOK, ClockTick
<1>4. ASSUME NEW i \in Slots
      PROVE  PhaseOf(i)' = PhaseOf(i)
  BY <1>1, <1>3 DEF PhaseOf
<1>5. QED
  BY <1>1, <1>2, <1>4, QuietStep

\* A child found dead while stopping has exited; before that it waits to be recorded.
LEMMA ReapPhases ==
  ASSUME SupervisorInv, signals = {"sleep"}, cause = NIL, Reap
  PROVE  Phases!Next \/ UNCHANGED Phases!vars
<1>1. /\ point = "reap" /\ todo \subseteq children /\ cause # "kill_timeout" /\ cause' # "kill_timeout"
      /\ UNCHANGED <<stopping, exitCode, killing, exits, cause>>
  BY NullIsNothing DEF Reap, SupervisorInv, StopIsSeen, ending
<1>2. CASE stopping /\ \E i \in todo : children' = children \ {i} /\ point' = "reap"
  <2>1. PICK i \in todo : children' = children \ {i} /\ point' = "reap"
    BY <1>2
  <2>2. i \in Slots /\ i \in children
    BY <1>1 DEF SupervisorInv, SupervisorTypeOK
  <2>3. PhaseOf(i) \in {"stopping", "killing"}
    BY <1>1, <1>2, <2>2 DEF PhaseOf
  <2>4. \A j \in Slots : PhaseOf(j)' = IF j \in {i} THEN "stopped" ELSE PhaseOf(j)
    BY <1>1, <1>2, <2>1, <2>2 DEF PhaseOf
  <2>5. Phases!ChildExited({i})
    BY <1>1, <1>2, <2>2, <2>3, <2>4 DEF Phases!ChildExited
  <2>6. QED
    BY <2>2, <2>5 DEF Phases!Next
<1>3. CASE ~(stopping /\ \E i \in todo : children' = children \ {i} /\ point' = "reap")
  <2>1. ASSUME NEW j \in Slots
        PROVE  PhaseOf(j)' = PhaseOf(j)
    BY <1>1, <1>3 DEF Reap, PhaseOf
  <2>2. QED
    BY <1>1, <2>1, QuietStep
<1>4. QED
  BY <1>2, <1>3

\* A recorded exit is the model's exit, with or without a restart to follow.
LEMMA RecordPhases ==
  ASSUME SupervisorInv, signals = {"sleep"}, cause = NIL, Record
  PROVE  Phases!Next
<1>0. PICK c \in Slots : c = cur
  BY DEF Record, SupervisorInv, ToStartIsIdle
<1> DEFINE r == Remembered(cur)
           n == Len(r)
<1>1. /\ point = "reaped" /\ c \in Slots \ children /\ c = cur /\ ~stopping /\ killing = NIL
      /\ cause # "kill_timeout" /\ cause' # "kill_timeout" /\ UNCHANGED <<children, killing, cur>>
      /\ exits' = [exits EXCEPT ![c] = r]
  BY <1>0, NullIsNothing DEF Record, SupervisorInv, ToStartIsIdle, StopIsSeen
<1>2. n \in 1 .. Len(exits[c]) + 1
  BY <1>1, RememberedFacts DEF SupervisorInv
<1>3. exits \in [Slots -> Seq(0 .. Window + 1)]
  BY DEF SupervisorInv, SupervisorTypeOK
<1>4. Record
  OBVIOUS
<1> DEFINE phases == [i \in Slots |-> PhaseOf(i)]
           attempts == [i \in Slots |-> Len(exits[i])]
<1>5. attempts' = [attempts EXCEPT ![c] = n]
  <2> HIDE DEF r
  <2>1. QED
    BY <1>1, <1>3
<1>6. /\ PhaseOf(c) = "running"
      /\ \A i \in Slots \ {c} : PhaseOf(i) = IF i \in children THEN "running" ELSE "backoff"
  BY <1>1 DEF PhaseOf
<1>7. CASE n <= MaxRestarts
  <2>1. point' = "reap" /\ stopping' = stopping
    BY <1>7 DEF Record
  <2> HIDE DEF r, n
  <2>2. \A i \in Slots : PhaseOf(i)' = IF i = c THEN "backoff" ELSE PhaseOf(i)
    BY <1>1, <1>6, <2>1 DEF PhaseOf
  <2>3. phases' = [phases EXCEPT ![c] = "backoff"]
    BY <1>1, <2>2
  <2>4. ~(n > MaxRestarts) /\ n \in 1 .. attempts[c] + 1 /\ phases[c] = "running"
    BY <1>1, <1>2, <1>6, <1>7, SupervisorAssumption
  <2>5. Phases!Exit(c)
    BY <1>1, <1>5, <2>1, <2>3, <2>4 DEF Phases!Exit
  <2>6. QED
    BY <1>1, <2>5 DEF Phases!Next
<1>8. CASE ~(n <= MaxRestarts)
  <2>1. point' = "stopcheck" /\ stopping' = TRUE /\ exitCode' = 2
    BY <1>8 DEF Record
  <2> HIDE DEF r, n
  <2>2. \A i \in Slots : PhaseOf(i)' = IF i \in children THEN "stopping" ELSE "stopped"
    BY <1>1, <2>1 DEF PhaseOf
  <2>3. phases' = Phases!StopSlots([phases EXCEPT ![c] = "stopped"])
    <3>1. \A i \in Slots : [phases EXCEPT ![c] = "stopped"][i] =
                             IF i = c THEN "stopped" ELSE IF i \in children THEN "running" ELSE "backoff"
      BY <1>1, <1>6
    <3>2. QED
      BY <1>1, <2>2, <3>1 DEF Phases!StopSlots
  <2>4. n > MaxRestarts /\ n \in 1 .. attempts[c] + 1 /\ phases[c] = "running"
    BY <1>1, <1>2, <1>6, <1>8, SupervisorAssumption
  <2>5. Phases!Exit(c)
    BY <1>1, <1>5, <2>1, <2>3, <2>4 DEF Phases!Exit
  <2>6. QED
    BY <1>1, <2>5 DEF Phases!Next
<1>9. QED
  BY <1>7, <1>8

\* The drain sees every child that has ended at once.
LEMMA DrainPhases ==
  ASSUME SupervisorInv, signals = {"sleep"}, cause = NIL, Drain
  PROVE  Phases!Next
<1> DEFINE gone == {i \in children : ~(live[i] > 0)}
<1>1. /\ point = "stopcheck" /\ point' = "deadline" /\ stopping /\ children' = children \ gone
      /\ cause # "kill_timeout" /\ cause' # "kill_timeout" /\ gone \subseteq Slots /\ gone \subseteq children
      /\ UNCHANGED <<stopping, exitCode, killing, exits, cause>>
  BY NullIsNothing DEF Drain, SupervisorInv, SupervisorTypeOK, ending
<1> HIDE DEF gone
<1>2. \A i \in gone : PhaseOf(i) \in {"stopping", "killing"}
  BY <1>1 DEF PhaseOf
<1>3. \A j \in Slots : PhaseOf(j)' = IF j \in gone THEN "stopped" ELSE PhaseOf(j)
  BY <1>1 DEF PhaseOf
<1>4. Phases!ChildExited(gone)
  BY <1>1, <1>2, <1>3 DEF Phases!ChildExited
<1>5. QED
  BY <1>1, <1>4 DEF Phases!Next

\* The two deadlines of the drain are the two grace periods of the model.
LEMMA DeadlinePhases ==
  ASSUME SupervisorInv, signals = {"sleep"}, cause = NIL, Deadline
  PROVE  Phases!Next \/ UNCHANGED Phases!vars
<1>1. /\ point = "deadline" /\ stopping /\ UNCHANGED <<stopping, children, exits, cur>>
      /\ cause # "kill_timeout" /\ point' \in {"sleep", "ended"} /\ children \subseteq Slots
  BY NullIsNothing DEF Deadline, Return, SupervisorInv, SupervisorTypeOK, StopIsSeen, table
<1>2. CASE killing' = killing /\ exitCode' = exitCode /\ cause' # "kill_timeout"
  <2>1. \A i \in Slots : PhaseOf(i)' = PhaseOf(i)
    BY <1>1, <1>2 DEF PhaseOf
  <2>2. QED
    BY <1>1, <1>2, <2>1, QuietStep
<1>3. CASE children # {} /\ killing = NIL /\ killing' = KillGrace /\ exitCode' = exitCode /\ cause' = cause
  <2>1. killing' # NIL
    BY <1>3, NullIsNothing, SupervisorAssumption
  <2>2. \A i \in Slots : /\ PhaseOf(i) = IF i \in children THEN "stopping" ELSE "stopped"
                         /\ PhaseOf(i)' = IF i \in children THEN "killing" ELSE "stopped"
    BY <1>1, <1>3, <2>1 DEF PhaseOf
  <2>3. Phases!TerminateGraceExpired
    BY <1>1, <1>3, <2>2 DEF Phases!TerminateGraceExpired
  <2>4. QED
    BY <2>3 DEF Phases!Next
<1>4. CASE children # {} /\ killing = 0 /\ cause' = "kill_timeout"
  <2>1. killing # NIL
    BY <1>4, NullIsNothing
  <2>2. \A i \in Slots : /\ PhaseOf(i) = IF i \in children THEN "killing" ELSE "stopped"
                         /\ PhaseOf(i)' = IF i \in children THEN "stuck" ELSE "stopped"
    BY <1>1, <1>4, <2>1 DEF PhaseOf
  <2>3. Phases!KillGraceExpired
    BY <1>1, <1>4, <2>2 DEF Phases!KillGraceExpired
  <2>4. QED
    BY <2>3 DEF Phases!Next
<1>5. QED
  BY <1>1, <1>2, <1>3, <1>4, NullIsNothing DEF Deadline, Return

\* A restart ends the delay of its slot.
LEMMA RespawnPhases ==
  ASSUME SupervisorInv, signals = {"sleep"}, cause = NIL, cause' # "spawn_failed", Respawn
  PROVE  Phases!Next \/ UNCHANGED Phases!vars
<1>1. /\ point = "respawn" /\ ~stopping /\ cause # "kill_timeout" /\ cause' # "kill_timeout"
      /\ UNCHANGED <<stopping, exitCode, killing, exits, children, cause>>
  BY NullIsNothing DEF Respawn, SpawnFails, Return, SupervisorInv, StopIsSeen, table, ending
<1>2. CASE point' = "sleep"
  <2>1. \A i \in Slots : PhaseOf(i)' = PhaseOf(i)
    BY <1>1, <1>2 DEF PhaseOf
  <2>2. QED
    BY <1>1, <2>1, QuietStep
<1>3. ASSUME NEW i \in todo, Spawn(i), point' = "respawned"
      PROVE  Phases!Next
  <2>1. i \in Slots /\ i \notin children /\ cur' = i
    BY <1>1, <1>3 DEF SupervisorInv, SupervisorTypeOK, ToStartIsIdle, Spawn
  <2>2. PhaseOf(i) = "backoff" /\ \A j \in Slots : PhaseOf(j)' = IF j = i THEN "running" ELSE PhaseOf(j)
    BY <1>1, <1>3, <2>1 DEF PhaseOf
  <2>3. Phases!BackoffElapsed(i)
    BY <1>1, <2>1, <2>2 DEF Phases!BackoffElapsed
  <2>4. QED
    BY <2>1, <2>3 DEF Phases!Next
<1>4. QED
  BY <1>2, <1>3 DEF Respawn, SpawnFails, Return

\* A stop in the sleep stops every slot.
LEMMA StopPhases ==
  ASSUME SupervisorInv, signals = {"sleep"}, cause = NIL, RequestStop
  PROVE  Phases!Next
<1>1. /\ point = "sleep" /\ ~stopping /\ stopping' /\ killing = NIL /\ exitCode = 0
      /\ cause # "kill_timeout" /\ cause' # "kill_timeout"
      /\ UNCHANGED <<children, exits, exitCode, killing, point, cur>>
  BY NullIsNothing DEF RequestStop, SupervisorInv, StopIsSeen
<1>2. \A i \in Slots : /\ PhaseOf(i) = IF i \in children THEN "running" ELSE "backoff"
                       /\ PhaseOf(i)' = IF i \in children THEN "stopping" ELSE "stopped"
  BY <1>1 DEF PhaseOf
<1>3. Phases!StopRequested
  BY <1>1, <1>2 DEF Phases!StopRequested, Phases!StopSlots
<1>4. QED
  BY <1>3 DEF Phases!Next

(* With signals that arrive while the loop sleeps, every step of the       *)
(* supervisor is a step of the model that the repository keeps of its      *)
(* slots, or changes nothing that model sees.                              *)
THEOREM StepsAreOfTheModel == SupervisorSpec => StepsImplementPhases
<1>1. SupervisorInv /\ [SupervisorNext]_supervisor_vars =>
        [signals = {"sleep"} /\ cause' # "spawn_failed" => Phases!Next]_(Phases!vars)
  <2> SUFFICES ASSUME SupervisorInv, [SupervisorNext]_supervisor_vars, signals = {"sleep"}, cause' # "spawn_failed"
               PROVE  Phases!Next \/ UNCHANGED Phases!vars
    OBVIOUS
  <2>1. CASE UNCHANGED supervisor_vars
    BY <2>1 DEF supervisor_vars, procs, table, ending, Phases!vars, PhaseOf
  <2>2. CASE SupervisorNext
    <3>1. cause = NIL
      BY <2>2, NotEnded
    <3>2. QED
      BY <2>2, <3>1, QuietActions, StartPhases, TickPhases, ReapPhases, RecordPhases, DrainPhases,
         DeadlinePhases, RespawnPhases, StopPhases DEF SupervisorNext, Main
  <2>3. QED
    BY <2>1, <2>2
<1>2. QED
  BY <1>1, SupervisorInvariance, PTL DEF SupervisorSpec, StepsImplementPhases

-----------------------------------------------------------------------------
(* The schedules, for every number of invocations, length of day and course *)
(* of the local clock.                                                     *)


-----------------------------------------------------------------------------
(* The clock and the keys                                                  *)

\* What the clock and the schedule are made of.
LEMMA ClockFacts ==
  /\ MaxTime \in Nat /\ DayLength \in Nat \ {0} /\ WeekLength \in Nat \ {0} /\ Interval \in Nat \ {0}
  /\ RecoveryAfter \in Nat /\ MaxLateness \in Nat /\ ScheduledAt \in Nat
BY ClockAssumption, ScheduleAssumption DEF load_catalog

\* The local time and its date are numbers.
LEMMA LocalType ==
  ASSUME ScheduleTypeOK
  PROVE  local \in Int /\ Date(local) \in Int /\ ScheduledFor(Date(local)) \in Int
<1>1. local \in Int
  BY ClockAssumption DEF ScheduleTypeOK, local
<1>2. Date(local) \in Int
  BY <1>1, ClockFacts DEF Date
<1>3. QED
  BY <1>1, <1>2, ClockFacts DEF ScheduledFor

\* A run that is due is not early.
LEMMA DueFacts ==
  ASSUME ScheduleTypeOK, DueAtTheMinute(local) \/ DueWithin(local)
  PROVE  local >= ScheduledFor(Date(local))
<1> DEFINE l == local
           s == ScheduledFor(Date(l))
<1>1. l \in Int /\ s \in Int
  BY LocalType
<1>2. l - s \in {0, RecoveryAfter} \/ l - s \in 0 .. MaxLateness
  BY DEF DueAtTheMinute, DueWithin, Lateness
<1> HIDE DEF l, s
<1>3. l >= s
  BY <1>1, <1>2, ClockFacts
<1>4. QED
  BY <1>3 DEF l, s

\* The bucket of the continuous runs, and what a key is made of.
LEMMA WhenType ==
  ASSUME ScheduleTypeOK, NEW kind \in EntryPoints
  PROVE  When(kind) \in Int /\ floor_bucket(time) \in Int
<1>1. time \in Int
  BY ClockFacts DEF ScheduleTypeOK
<1>2. floor_bucket(time) \in Int
  BY <1>1, ClockFacts DEF floor_bucket
<1>3. Date(local) \in Int
  BY LocalType
<1>4. Date(local) \div WeekLength \in Int
  BY <1>3, ClockFacts
<1>5. QED
  BY <1>2, <1>3, <1>4 DEF When

\* The parts of a run's key.
LEMMA RunKeyFacts ==
  ASSUME ScheduleTypeOK, NEW kind \in EntryPoints, NEW id \in Runs \union {NONE}
  PROVE  /\ RunKey(kind, id) \in RunKeys
         /\ RunKey(kind, id).prefix = Prefix(kind)
         /\ kind # "weekly" => RunKey(kind, id).id = id
         /\ kind \in {"plain", "nightly", "recent"} => RunKey(kind, id).when = Date(local)
<1>1. When(kind) \in Int
  BY WhenType
<1>2. Prefix(kind) \in {"artifact-recovery", "briefing", "weekly", "continuous", "recent"}
  BY DEF Prefix, EntryPoints
<1>3. kind \in {"plain", "nightly", "recent"} => When(kind) = Date(local)
  BY DEF When
<1>4. QED
  BY <1>1, <1>2, <1>3 DEF RunKey, Key, RunKeys

-----------------------------------------------------------------------------
(* What a step may do                                                      *)

\* The hour that has come stays past.
LEMMA InTimeStays ==
  ASSUME ScheduleTypeOK, time' \in 0 .. MaxTime, time' >= time, NEW k, InTime(k)
  PROVE  InTime(k)'
<1>1. time \in Int /\ time' \in Int
  BY ClockFacts DEF ScheduleTypeOK
<1>2. QED
  BY <1>1 DEF InTime

\* A run takes the key of a scheduled night when its hour has come.
LEMMA KeyIsInTime ==
  ASSUME ScheduleTypeOK, NEW kind \in EntryPoints, NEW id \in Runs \union {NONE},
         id = NONE /\ kind \in {"plain", "nightly", "recent"} => DueAtTheMinute(local) \/ DueWithin(local)
  PROVE  InTime(RunKey(kind, id))
<1> DEFINE k == RunKey(kind, id)
<1>1. CASE kind \in {"plain", "nightly", "recent"} /\ id = NONE
  <2>1. local >= ScheduledFor(Date(local))
    BY <1>1, DueFacts
  <2>2. time \in 0 .. time /\ time + Offset[time] >= ScheduledFor(k.when)
    BY <1>1, <2>1, RunKeyFacts, ClockFacts DEF local, ScheduleTypeOK
  <2>3. QED
    BY <2>2 DEF InTime
<1>2. CASE kind \notin {"plain", "nightly", "recent"}
  <2>1. k.prefix \notin {"artifact-recovery", "recent"}
    BY <1>2, RunKeyFacts DEF Prefix, EntryPoints
  <2>2. QED
    BY <2>1 DEF InTime
<1>3. CASE kind \in {"plain", "nightly", "recent"} /\ id # NONE
  <2>1. k.id # NONE
    BY <1>3, RunKeyFacts
  <2>2. QED
    BY <2>1 DEF InTime
<1>4. QED
  BY <1>1, <1>2, <1>3

\* A job that has succeeded stays as it is.
JobSettled(k) == k \in DOMAIN jobs /\ jobs[k].status = "succeeded"
JobsStay ==
  /\ DOMAIN jobs \subseteq DOMAIN jobs'
  /\ \A k \in DOMAIN jobs : jobs[k].status = "succeeded" => jobs'[k] = jobs[k]

\* A request adds its job, unless it is there, and touches no other.
LEMMA TakenFacts ==
  ASSUME ScheduleTypeOK, NEW r \in Runs, runs[r].key \in RunKeys, runs[r].kind # NONE, Taken(r)
  PROVE  /\ JobsStay /\ DOMAIN jobs' = DOMAIN jobs \union {runs[r].key}
         /\ DOMAIN jobs' \subseteq RunKeys /\ jobs' \in [DOMAIN jobs' -> JobRecords]
<1>1. runs[r].kind \in EntryPoints
  BY DEF ScheduleTypeOK, RunRecords
<1>2. PayloadOf(runs[r].kind) \in {PayloadOf(k) : k \in EntryPoints}
  BY <1>1
<1> DEFINE new == [kind |-> runs[r].kind, payload |-> PayloadOf(runs[r].kind), status |-> "queued",
                   result |-> NONE, refused |-> FALSE]
<1>3. new \in JobRecords
  BY <1>1, <1>2 DEF JobRecords
<1>4. jobs' = [k \in DOMAIN jobs \union {runs[r].key} |-> IF k \in DOMAIN jobs THEN jobs[k] ELSE new]
  BY DEF Taken
<1> HIDE DEF new
<1>5. DOMAIN jobs' = DOMAIN jobs \union {runs[r].key}
  BY <1>4
<1>6. QED
  BY <1>3, <1>4, <1>5 DEF JobsStay, ScheduleTypeOK

\* One run moves, with or without a request that the coordinator took.
LEMMA RunStep ==
  ASSUME ScheduleInv, NEW r \in Runs, NEW new \in RunRecords, runs' = [runs EXCEPT ![r] = new],
         time' = time, watched' = watched,
         JobsStay, DOMAIN jobs' \subseteq RunKeys, jobs' \in [DOMAIN jobs' -> JobRecords],
         \A k \in DOMAIN jobs' : k \in DOMAIN jobs \/ InTime(k),
         new.pc \in {"decide", "post", "poll", "sleep"} => new.kind # NONE,
         new.pc = "post" => new.key \in RunKeys /\ InTime(new.key),
         new.pc = "poll" => new.key \in DOMAIN jobs',
         new.pc = "ended" /\ new.receipt = "complete" =>
            /\ new.key \in DOMAIN jobs' /\ jobs'[new.key].status = "succeeded"
            /\ ValidCompletion(jobs'[new.key].result)
            /\ new.exit = ExitCode(new.kind, jobs'[new.key].result)
  PROVE  ScheduleInv'
<1>1. /\ runs' \in [Runs -> RunRecords] /\ runs'[r] = new
      /\ \A q \in Runs \ {r} : runs'[q] = runs[q]
  BY DEF ScheduleInv, ScheduleTypeOK
<1>2. ScheduleTypeOK'
  BY <1>1 DEF ScheduleInv, ScheduleTypeOK
<1>3. \A k : InTime(k) => InTime(k)'
  BY DEF InTime
<1>4. RunsHaveKeys'
  BY <1>1, <1>3 DEF ScheduleInv, RunsHaveKeys, JobsStay
<1>5. CompleteIsTrue'
  <2>1. ASSUME NEW q \in Runs \ {r}, runs'[q].pc = "ended", runs'[q].receipt = "complete"
        PROVE  /\ runs'[q].key \in DOMAIN jobs' /\ jobs'[runs'[q].key].status = "succeeded"
               /\ ValidCompletion(jobs'[runs'[q].key].result)
               /\ runs'[q].exit = ExitCode(runs'[q].kind, jobs'[runs'[q].key].result)
    <3>1. runs'[q] = runs[q]
      BY <1>1
    <3>2. runs[q].key \in DOMAIN jobs /\ jobs'[runs[q].key] = jobs[runs[q].key]
      BY <2>1, <3>1 DEF ScheduleInv, CompleteIsTrue, JobsStay
    <3>3. QED
      BY <2>1, <3>1, <3>2 DEF ScheduleInv, CompleteIsTrue, JobsStay
  <2>2. QED
    BY <1>1, <2>1 DEF CompleteIsTrue
<1>6. NotBeforeItsTime'
  BY <1>3 DEF ScheduleInv, NotBeforeItsTime, InTime
<1>7. WatchdogIsRight'
  BY DEF ScheduleInv, WatchdogIsRight, JobsStay
<1>8. QED
  BY <1>2, <1>4, <1>5, <1>6, <1>7 DEF ScheduleInv

\* A run that moves and requests nothing.
LEMMA QuietRunStep ==
  ASSUME ScheduleInv, NEW r \in Runs, NEW new \in RunRecords, runs' = [runs EXCEPT ![r] = new],
         UNCHANGED <<time, jobs, watched>>,
         new.pc \in {"decide", "post", "poll", "sleep"} => new.kind # NONE,
         new.pc = "post" => new.key \in RunKeys /\ InTime(new.key),
         new.pc # "poll",
         new.pc = "ended" /\ new.receipt = "complete" =>
            /\ new.key \in DOMAIN jobs /\ jobs[new.key].status = "succeeded"
            /\ ValidCompletion(jobs[new.key].result)
            /\ new.exit = ExitCode(new.kind, jobs[new.key].result)
  PROVE  ScheduleInv'
<1>1. /\ JobsStay /\ DOMAIN jobs' \subseteq RunKeys /\ jobs' \in [DOMAIN jobs' -> JobRecords]
      /\ \A k \in DOMAIN jobs' : k \in DOMAIN jobs \/ InTime(k)
  BY DEF JobsStay, ScheduleInv, ScheduleTypeOK
<1>2. new.pc = "ended" /\ new.receipt = "complete" =>
            /\ new.key \in DOMAIN jobs' /\ jobs'[new.key].status = "succeeded"
            /\ ValidCompletion(jobs'[new.key].result)
            /\ new.exit = ExitCode(new.kind, jobs'[new.key].result)
  OBVIOUS
<1>3. QED
  BY <1>1, <1>2, RunStep

\* A run that ends, its receipt not of a complete job.
LEMMA EndedFacts ==
  ASSUME ScheduleTypeOK, NEW r \in Runs, NEW exit \in {0, 2, 3},
         NEW receipt \in {"dry_run", "failed", "not_due", "enqueued", "complete"}, Ended(r, exit, receipt)
  PROVE  \E new \in RunRecords :
            /\ runs' = [runs EXCEPT ![r] = new] /\ new.pc = "ended" /\ new.receipt = receipt
            /\ new.key = runs[r].key /\ new.kind = runs[r].kind /\ new.exit = exit
<1> DEFINE new == [runs[r] EXCEPT !.pc = "ended", !.exit = exit, !.receipt = receipt]
<1>1. runs[r] \in RunRecords
  BY DEF ScheduleTypeOK
<1>2. new \in RunRecords /\ new.pc = "ended" /\ new.receipt = receipt /\ new.exit = exit
      /\ new.key = runs[r].key /\ new.kind = runs[r].kind
  BY <1>1 DEF RunRecords
<1>3. runs' = [runs EXCEPT ![r] = new]
  BY DEF Ended
<1>4. QED
  BY <1>2, <1>3

\* A run that ends without a request.
LEMMA EndedStep ==
  ASSUME ScheduleInv, NEW r \in Runs, NEW exit \in {0, 2, 3},
         NEW receipt \in {"dry_run", "failed", "not_due", "enqueued"}, Ended(r, exit, receipt),
         UNCHANGED <<time, jobs, watched>>
  PROVE  ScheduleInv'
<1>1. PICK new \in RunRecords :
            /\ runs' = [runs EXCEPT ![r] = new] /\ new.pc = "ended" /\ new.receipt = receipt
  BY EndedFacts DEF ScheduleInv
<1>2. QED
  BY <1>1, QuietRunStep

\* A run that ends with its request.
LEMMA EndedWithRequest ==
  ASSUME ScheduleInv, NEW r \in Runs, NEW exit \in {0, 2, 3}, runs[r].pc = "post",
         NEW receipt \in {"dry_run", "failed", "not_due", "enqueued"}, Ended(r, exit, receipt),
         Taken(r), UNCHANGED <<time, watched>>
  PROVE  ScheduleInv'
<1>1. PICK new \in RunRecords :
            /\ runs' = [runs EXCEPT ![r] = new] /\ new.pc = "ended" /\ new.receipt = receipt
  BY EndedFacts DEF ScheduleInv
<1>2. runs[r].key \in RunKeys /\ InTime(runs[r].key) /\ runs[r].kind # NONE
  BY DEF ScheduleInv, RunsHaveKeys
<1>3. /\ JobsStay /\ DOMAIN jobs' = DOMAIN jobs \union {runs[r].key}
      /\ DOMAIN jobs' \subseteq RunKeys /\ jobs' \in [DOMAIN jobs' -> JobRecords]
  BY <1>2, TakenFacts DEF ScheduleInv
<1>4. QED
  BY <1>1, <1>2, <1>3, RunStep

-----------------------------------------------------------------------------
(* Every step keeps the invariant                                          *)

\* A run starts.
LEMMA StartRunStep ==
  ASSUME ScheduleInv, NEW r \in Runs, NEW k \in Kinds[r], StartRun(r, k[1], k[2])
  PROVE  ScheduleInv'
<1> DEFINE new == [runs[r] EXCEPT !.pc = "decide", !.kind = k[1], !.force = k[2], !.started = local]
<1>1. k[1] \in EntryPoints /\ k[2] \in BOOLEAN /\ local \in Int /\ runs[r] \in RunRecords
  BY RunAssumption, LocalType DEF ScheduleInv, ScheduleTypeOK
<1>2. new \in RunRecords /\ new.pc = "decide" /\ new.kind = k[1]
  BY <1>1 DEF RunRecords
<1>3. runs' = [runs EXCEPT ![r] = new] /\ UNCHANGED <<time, jobs, watched>> /\ k[1] # NONE
  BY <1>1, RunAssumption DEF StartRun
<1> HIDE DEF new
<1>4. QED
  BY <1>2, <1>3, QuietRunStep

\* A run that is due takes its key.
LEMMA TakesKey ==
  ASSUME ScheduleInv, NEW r \in Runs, runs[r].pc = "decide", UNCHANGED <<time, jobs, watched>>,
         runs[r].kind \in {"plain", "nightly", "recent"} =>
            runs[r].force \/ DueAtTheMinute(local) \/ DueWithin(local),
         runs' = [runs EXCEPT ![r].pc = "post",
                            ![r].key = RunKey(runs[r].kind, IF runs[r].force THEN r ELSE NONE)]
  PROVE  ScheduleInv'
<1> DEFINE id == IF runs[r].force THEN r ELSE NONE
           key == RunKey(runs[r].kind, id)
           new == [runs[r] EXCEPT !.pc = "post", !.key = key]
<1>1. runs[r] \in RunRecords /\ runs[r].kind # NONE
  BY DEF ScheduleInv, ScheduleTypeOK, RunsHaveKeys
<1>2. runs[r].kind \in EntryPoints /\ id \in Runs \union {NONE} /\ (id = NONE => ~runs[r].force)
  BY <1>1, RunAssumption DEF RunRecords
<1>3. key \in RunKeys /\ InTime(key)
  BY <1>2, RunKeyFacts, KeyIsInTime DEF ScheduleInv
<1>4. runs' = [runs EXCEPT ![r] = new]
  BY <1>1 DEF ScheduleInv, ScheduleTypeOK
<1> HIDE DEF key
<1>5. new \in RunRecords /\ new.pc = "post" /\ new.key = key /\ new.kind = runs[r].kind
  BY <1>1, <1>3 DEF RunRecords
<1> HIDE DEF new
<1>6. QED
  BY <1>1, <1>3, <1>4, <1>5, QuietRunStep

\* A run decides, and takes its key when it is due.
LEMMA DecideStep ==
  ASSUME ScheduleInv, NEW r \in Runs, Decide(r)
  PROVE  ScheduleInv'
<1>1. runs[r].pc = "decide" /\ UNCHANGED <<time, jobs, watched>>
  BY DEF Decide, DecideRecovery, DecideBriefing, DecideDigest, DecideContinuous, DecideNightly,
     DecideRecent, Decides
<1>2. CASE \/ Ended(r, 0, "dry_run") \/ Ended(r, 2, "failed") \/ Ended(r, 0, "not_due")
  BY <1>1, <1>2, EndedStep
<1>3. CASE /\ runs' = [runs EXCEPT ![r].pc = "post",
                                ![r].key = RunKey(runs[r].kind, IF runs[r].force THEN r ELSE NONE)]
           /\ runs[r].kind \in {"plain", "nightly", "recent"} =>
                runs[r].force \/ DueAtTheMinute(local) \/ DueWithin(local)
  BY <1>1, <1>3, TakesKey
<1>4. QED
  BY <1>2, <1>3 DEF Decide, DecideRecovery, DecideBriefing, DecideDigest, DecideContinuous,
     DecideNightly, DecideRecent, Decides, NoRequest

\* A request is taken, and the run goes on, waits or ends.
LEMMA PostStep ==
  ASSUME ScheduleInv, NEW r \in Runs, Post(r)
  PROVE  ScheduleInv'
<1>1. runs[r].pc = "post" /\ Taken(r) /\ UNCHANGED <<time, watched>>
  BY DEF Post, EnqueueRecovery, EnqueueBriefing, EnqueueDigest, RunOnce, Submit, Posts
<1>2. CASE Ended(r, 0, "enqueued")
  BY <1>1, <1>2, EndedWithRequest
<1>3. runs[r].key \in RunKeys /\ InTime(runs[r].key) /\ runs[r].kind # NONE /\ runs[r] \in RunRecords
  BY <1>1 DEF ScheduleInv, ScheduleTypeOK, RunsHaveKeys
<1>4. /\ JobsStay /\ DOMAIN jobs' = DOMAIN jobs \union {runs[r].key}
      /\ DOMAIN jobs' \subseteq RunKeys /\ jobs' \in [DOMAIN jobs' -> JobRecords]
  BY <1>1, <1>3, TakenFacts DEF ScheduleInv
<1>5. CASE runs' = [runs EXCEPT ![r].pc = "sleep", ![r].bucket = floor_bucket(time)]
  <2> DEFINE new == [runs[r] EXCEPT !.pc = "sleep", !.bucket = floor_bucket(time)]
  <2>1. floor_bucket(time) \in Int
    <3>1. "recent" \in EntryPoints
      BY DEF EntryPoints
    <3>2. QED
      BY <3>1, WhenType DEF ScheduleInv
  <2>2. new \in RunRecords /\ new.pc = "sleep" /\ new.kind = runs[r].kind
    BY <1>3, <2>1 DEF RunRecords
  <2>3. runs' = [runs EXCEPT ![r] = new]
    BY <1>5 DEF ScheduleInv, ScheduleTypeOK
  <2> HIDE DEF new
  <2>4. QED
    BY <1>1, <1>3, <1>4, <2>2, <2>3, RunStep
<1>6. CASE runs' = [runs EXCEPT ![r].pc = "poll"]
  <2> DEFINE new == [runs[r] EXCEPT !.pc = "poll"]
  <2>1. new \in RunRecords /\ new.pc = "poll" /\ new.key = runs[r].key /\ new.kind = runs[r].kind
    BY <1>3 DEF RunRecords
  <2>2. runs' = [runs EXCEPT ![r] = new]
    BY <1>6 DEF ScheduleInv, ScheduleTypeOK
  <2> HIDE DEF new
  <2>3. QED
    BY <1>1, <1>3, <1>4, <2>1, <2>2, RunStep
<1>7. QED
  BY <1>2, <1>5, <1>6 DEF Post, EnqueueRecovery, EnqueueBriefing, EnqueueDigest, RunOnce, Submit

\* A request fails, whether or not it was taken.
LEMMA PostFailsStep ==
  ASSUME ScheduleInv, NEW r \in Runs, PostFails(r)
  PROVE  ScheduleInv'
BY EndedStep, EndedWithRequest DEF PostFails

\* The continuous run wakes for its next bucket.
LEMMA NextBucketStep ==
  ASSUME ScheduleInv, NEW r \in Runs, NextBucket(r)
  PROVE  ScheduleInv'
<1> DEFINE none == 0
           new == [runs[r] EXCEPT !.pc = "decide", !.bucket = none]
<1>1. runs[r] \in RunRecords /\ runs[r].pc = "sleep" /\ runs[r].kind # NONE /\ none \in Int
  BY DEF NextBucket, ScheduleInv, ScheduleTypeOK, RunsHaveKeys
<1>2. runs' = [runs EXCEPT ![r] = new] /\ UNCHANGED <<time, jobs, watched>>
  BY DEF NextBucket, ScheduleInv, ScheduleTypeOK
<1> HIDE DEF none
<1>3. new \in RunRecords /\ new.pc = "decide" /\ new.kind = runs[r].kind
  BY <1>1 DEF RunRecords
<1> HIDE DEF new
<1>4. QED
  BY <1>1, <1>2, <1>3, QuietRunStep

\* The end of the job that was asked for, as it is read.
LEMMA PollStep ==
  ASSUME ScheduleInv, NEW r \in Runs, Poll(r)
  PROVE  ScheduleInv'
<1> DEFINE theJob == jobs[runs[r].key]
<1>1. runs[r].pc = "poll" /\ UNCHANGED <<time, jobs, watched>> /\ runs[r].key \in DOMAIN jobs
  BY DEF Poll, ScheduleInv, RunsHaveKeys
<1>2. CASE Ended(r, 2, "failed")
  BY <1>1, <1>2, EndedStep
<1>3. CASE /\ theJob.status = "succeeded" /\ ValidCompletion(theJob.result)
           /\ Ended(r, ExitCode(runs[r].kind, theJob.result), "complete")
  <2>1. ExitCode(runs[r].kind, theJob.result) \in {0, 2, 3}
    BY DEF ExitCode
  <2>2. PICK new \in RunRecords :
            /\ runs' = [runs EXCEPT ![r] = new] /\ new.pc = "ended" /\ new.receipt = "complete"
            /\ new.key = runs[r].key /\ new.kind = runs[r].kind
            /\ new.exit = ExitCode(runs[r].kind, theJob.result)
    BY <1>3, <2>1, EndedFacts DEF ScheduleInv
  <2>3. QED
    BY <1>1, <1>3, <2>2, QuietRunStep
<1>4. QED
  BY <1>2, <1>3 DEF Poll

\* A job ends once, and only if it was queued.
LEMMA ConsumeStep ==
  ASSUME ScheduleInv, NEW k \in DOMAIN jobs, Consume(k)
  PROVE  ScheduleInv'
<1>1. jobs[k].status = "queued" /\ UNCHANGED <<time, runs, watched>>
  BY DEF Consume
<1>2. jobs[k] \in JobRecords /\ DOMAIN jobs \subseteq RunKeys /\ jobs \in [DOMAIN jobs -> JobRecords]
  BY DEF ScheduleInv, ScheduleTypeOK
<1>3. WorkerResult \in Results /\ ConformingResults \subseteq Results
  <2>1. WorkerResult \in Results
    BY DEF WorkerResult, Results
  <2>2. ASSUME NEW n \in {0, 1}, NEW d \in BOOLEAN
        PROVE  [schema |-> TRUE, run_key |-> TRUE, status |-> "complete", coverage |-> "complete",
                unfinished |-> n, dispositioned |-> d, manifest |-> TRUE] \in Results
    BY DEF Results
  <2>3. \A p \in {<<0, TRUE>>, <<1, TRUE>>, <<0, FALSE>>} : p[1] \in {0, 1} /\ p[2] \in BOOLEAN
    <3>1. <<0, TRUE>>[2] \in BOOLEAN /\ <<1, TRUE>>[2] \in BOOLEAN /\ <<0, FALSE>>[2] \in BOOLEAN
      BY Zenon
    <3>2. <<0, TRUE>>[1] = 0 /\ <<1, TRUE>>[1] = 1 /\ <<0, FALSE>>[1] = 0
      OBVIOUS
    <3>3. QED
      BY <3>1, <3>2
  <2>4. QED
    BY <2>1, <2>2, <2>3 DEF ConformingResults
<1>4. \E new \in JobRecords : jobs' = [jobs EXCEPT ![k] = new]
  <2>1. CASE jobs' = [jobs EXCEPT ![k].status = "failed", ![k].refused = TRUE]
    <3> DEFINE new == [jobs[k] EXCEPT !.status = "failed", !.refused = TRUE]
    <3>1. new \in JobRecords
      BY <1>2 DEF JobRecords
    <3>2. QED
      BY <1>2, <2>1, <3>1
  <2>2. CASE \E result \in Results :
               jobs' = [jobs EXCEPT ![k].status = "succeeded", ![k].result = result]
    <3>1. PICK result \in Results :
               jobs' = [jobs EXCEPT ![k].status = "succeeded", ![k].result = result]
      BY <2>2
    <3> DEFINE new == [jobs[k] EXCEPT !.status = "succeeded", !.result = result]
    <3>2. new \in JobRecords
      BY <1>2 DEF JobRecords
    <3>3. QED
      BY <1>2, <3>1, <3>2
  <2>3. CASE jobs' = [jobs EXCEPT ![k].status = "failed"]
    <3> DEFINE new == [jobs[k] EXCEPT !.status = "failed"]
    <3>1. new \in JobRecords
      BY <1>2 DEF JobRecords
    <3>2. QED
      BY <1>2, <2>3, <3>1
  <2>4. QED
    BY <1>3, <2>1, <2>2, <2>3 DEF Consume
<1>5. /\ JobsStay /\ DOMAIN jobs' = DOMAIN jobs /\ jobs' \in [DOMAIN jobs' -> JobRecords]
  BY <1>1, <1>2, <1>4 DEF JobsStay
<1>6. ScheduleTypeOK' /\ RunsHaveKeys'
  BY <1>1, <1>2, <1>5 DEF ScheduleInv, ScheduleTypeOK, RunsHaveKeys, InTime
<1>7. CompleteIsTrue' /\ WatchdogIsRight'
  BY <1>1, <1>5 DEF ScheduleInv, CompleteIsTrue, WatchdogIsRight, JobsStay
<1>8. NotBeforeItsTime'
  BY <1>1, <1>5 DEF ScheduleInv, NotBeforeItsTime
<1>9. QED
  BY <1>6, <1>7, <1>8 DEF ScheduleInv

\* Time passes: no hour that has come is in the future again.
LEMMA ScheduleTickStep ==
  ASSUME ScheduleInv, ScheduleTick
  PROVE  ScheduleInv'
<1>1. time' \in 0 .. MaxTime /\ time' >= time /\ UNCHANGED <<runs, jobs, watched>>
  BY ClockFacts DEF ScheduleTick, ScheduleInv, ScheduleTypeOK
<1>2. \A k : InTime(k) => InTime(k)'
  BY <1>1, InTimeStays DEF ScheduleInv
<1>3. ScheduleTypeOK' /\ RunsHaveKeys'
  BY <1>1, <1>2 DEF ScheduleInv, ScheduleTypeOK, RunsHaveKeys
<1>4. CompleteIsTrue' /\ WatchdogIsRight'
  BY <1>1 DEF ScheduleInv, CompleteIsTrue, WatchdogIsRight
<1>5. NotBeforeItsTime'
  BY <1>1, <1>2 DEF ScheduleInv, NotBeforeItsTime, InTime
<1>6. QED
  BY <1>3, <1>4, <1>5 DEF ScheduleInv

\* The run that is selected ended well, and its receipt is of the night's own job.
LEMMA WatchStep ==
  ASSUME ScheduleInv, Watch
  PROVE  ScheduleInv'
<1>1. PICK r \in Successful(logical_night) :
         /\ validate_evidence(r, logical_night) /\ watched' = watched \union {logical_night}
         /\ UNCHANGED <<time, runs, jobs>>
  BY DEF Watch
<1> DEFINE night == logical_night
           k == Key("recent", night, NONE)
<1>2. /\ r \in Runs /\ runs[r].kind = "recent" /\ runs[r].pc = "ended" /\ runs[r].exit = 0
      /\ runs[r].receipt = "complete" /\ runs[r].key = k
  BY <1>1 DEF Successful, Attempts, list_runs, evaluate_attempt, validate_evidence
<1>3. /\ k \in DOMAIN jobs /\ jobs[k].status = "succeeded" /\ ValidCompletion(jobs[k].result)
      /\ ExitCode("recent", jobs[k].result) = 0
  BY <1>2 DEF ScheduleInv, CompleteIsTrue
<1>4. jobs[k].result.unfinished = 0
  BY <1>3 DEF ExitCode
<1>5. night \in Int
  BY LocalType DEF logical_night, ScheduleInv
<1>6. ScheduleTypeOK' /\ RunsHaveKeys'
  BY <1>1, <1>5 DEF ScheduleInv, ScheduleTypeOK, RunsHaveKeys, InTime
<1>7. CompleteIsTrue' /\ NotBeforeItsTime'
  BY <1>1 DEF ScheduleInv, CompleteIsTrue, NotBeforeItsTime
<1>8. WatchdogIsRight'
  <2> HIDE DEF night
  <2>1. watched' = watched \union {night} /\ jobs' = jobs
    BY <1>1 DEF night
  <2>2. QED
    BY <1>3, <1>4, <2>1 DEF ScheduleInv, WatchdogIsRight
<1>9. QED
  BY <1>6, <1>7, <1>8 DEF ScheduleInv

\* The invariant holds at the start.
LEMMA ScheduleInvInit ==
  ASSUME ScheduleInit
  PROVE  ScheduleInv
<1>1. Idle \in RunRecords
  BY DEF Idle, RunRecords
<1>2. DOMAIN jobs = {} /\ watched = {} /\ time = 0
  BY DEF ScheduleInit
<1>3. ScheduleTypeOK
  BY <1>1, <1>2, ClockFacts DEF ScheduleInit, ScheduleTypeOK
<1>4. RunsHaveKeys /\ CompleteIsTrue
  BY DEF ScheduleInit, Idle, RunsHaveKeys, CompleteIsTrue
<1>5. NotBeforeItsTime /\ WatchdogIsRight
  BY <1>2 DEF NotBeforeItsTime, WatchdogIsRight
<1>6. QED
  BY <1>3, <1>4, <1>5 DEF ScheduleInv

\* Every step keeps it.
LEMMA ScheduleInvStep ==
  ASSUME ScheduleInv, [ScheduleNext]_schedule_vars
  PROVE  ScheduleInv'
<1>1. CASE UNCHANGED schedule_vars
  BY <1>1 DEF schedule_vars, ScheduleInv, ScheduleTypeOK, RunsHaveKeys, InTime, CompleteIsTrue, NotBeforeItsTime, WatchdogIsRight
<1>2. CASE ScheduleNext
  BY <1>2, StartRunStep, DecideStep, PostStep, PostFailsStep, NextBucketStep, PollStep, ConsumeStep,
     WatchStep, ScheduleTickStep DEF ScheduleNext
<1>3. QED
  BY <1>1, <1>2
-----------------------------------------------------------------------------
(* The theorems                                                            *)

(* The inductive invariant of the schedules.                               *)
THEOREM ScheduleInvariance == ScheduleSpec => []ScheduleInv
<1>1. ScheduleInit => ScheduleInv
  BY ScheduleInvInit
<1>2. ScheduleInv /\ [ScheduleNext]_schedule_vars => ScheduleInv'
  BY ScheduleInvStep
<1>3. QED
  BY <1>1, <1>2, PTL DEF ScheduleSpec

(* No scheduled job of a night is there before the hour of that night has  *)
(* come on the local clock, however the clock is set and however late a    *)
(* run decides or posts.                                                   *)
THEOREM NeverEarly == ScheduleSpec => []NotBeforeItsTime
<1>1. ScheduleInv => NotBeforeItsTime
  BY DEF ScheduleInv
<1>2. QED
  BY <1>1, ScheduleInvariance, PTL

(* A night the watchdog called a success has its own job, which succeeded, *)
(* was verified and left nothing to do.                                    *)
THEOREM SuccessIsOfThatNight == ScheduleSpec => []WatchdogIsRight
<1>1. ScheduleInv => WatchdogIsRight
  BY DEF ScheduleInv
<1>2. QED
  BY <1>1, ScheduleInvariance, PTL
=============================================================================
