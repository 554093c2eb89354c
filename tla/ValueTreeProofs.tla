-------------------------- MODULE ValueTreeProofs --------------------------
(***************************************************************************)
(* Lemmas about the operations of the value tree, for every heap, every    *)
(* capacity and every answer of the allocator.                             *)
(***************************************************************************)
EXTENDS ValueTree, BencodeProofs

---------------------------------------------------------------------------
(* The binary search of dict_search.                                       *)

\* The body of the loop, with the rest of the search as a function of lo and hi.
Probe(entries, key, search, r) ==
  LET lo  == r[1]
      hi  == r[2]
      mid == lo + (hi - lo) \div 2
      c   == bytes_cmp(entries[mid + 1].key, key)
  IN  IF lo >= hi THEN [index |-> lo + 1, match |-> FALSE]
      ELSE IF c = 0 THEN [index |-> mid + 1, match |-> TRUE]
      ELSE IF c < 0 THEN search[<<mid + 1, hi>>]
      ELSE search[<<lo, mid>>]

Intervals(entries) == (0..Len(entries)) \X (0..Len(entries))

Found == [index : Nat, match : BOOLEAN]

\* What the search promises of its result.
SearchOf(entries, key, s) ==
  /\ s \in Found /\ s.index \in 1..(Len(entries) + 1)
  /\ s.match => s.index <= Len(entries) /\ entries[s.index].key = key
  /\ ~s.match => /\ \A k \in 1..Len(entries) : k < s.index => KeyBefore(entries[k].key, key)
                 /\ \A k \in 1..Len(entries) : k >= s.index => KeyBefore(key, entries[k].key)

\* The middle of an interval that is not empty is in it, and halves it.
LEMMA Middle ==
  ASSUME NEW n \in Nat, NEW lo \in 0..n, NEW hi \in 0..n, lo < hi
  PROVE  LET mid == lo + (hi - lo) \div 2
         IN  mid \in lo..(hi - 1)
OBVIOUS

\* The loop ends, whatever it finds: the interval shrinks.
LEMMA SearchIsDefined ==
  ASSUME NEW entries \in Seq(EntryType), NEW key
  PROVE  \E search \in [Intervals(entries) -> Found] :
           search = [r \in Intervals(entries) |-> Probe(entries, key, search, r)]
<1> DEFINE S == Intervals(entries)
           rank == [r \in S |-> IF r[1] < r[2] THEN r[2] - r[1] ELSE 0]
           F == [g \in [S -> Found] |-> [r \in S |-> Probe(entries, key, g, r)]]
           g0 == [r \in S |-> [index |-> 0, match |-> FALSE]]
<1>1. Len(entries) \in Nat
  BY LenProperties
<1>2. rank \in [S -> Nat]
  BY <1>1 DEF Intervals
<1>3. g0 \in [S -> Found]
  BY DEF Found
<1>4. ASSUME NEW r \in S, r[1] < r[2]
      PROVE  LET mid == r[1] + (r[2] - r[1]) \div 2
             IN  /\ mid \in r[1]..(r[2] - 1)
                 /\ <<mid + 1, r[2]>> \in S /\ rank[<<mid + 1, r[2]>>] < rank[r]
                 /\ <<r[1], mid>> \in S /\ rank[<<r[1], mid>>] < rank[r]
  <2> DEFINE mid == r[1] + (r[2] - r[1]) \div 2
  <2>1. r[1] \in 0..Len(entries) /\ r[2] \in 0..Len(entries)
    BY DEF Intervals
  <2>2. mid \in r[1]..(r[2] - 1)
    BY <1>1, <1>4, <2>1, Middle
  <2> HIDE DEF mid
  <2>3. <<mid + 1, r[2]>> \in S /\ <<r[1], mid>> \in S
    BY <1>1, <1>4, <2>1, <2>2 DEF Intervals
  <2>4. rank[<<mid + 1, r[2]>>] < rank[r] /\ rank[<<r[1], mid>>] < rank[r]
    BY <1>1, <1>4, <2>1, <2>2, <2>3
  <2> QED BY <2>2, <2>3, <2>4 DEF mid
<1>5. ASSUME NEW g \in [S -> Found], NEW r \in S
      PROVE  Probe(entries, key, g, r) \in Found
  <2>1. CASE r[1] < r[2]
    <3> DEFINE mid == r[1] + (r[2] - r[1]) \div 2
    <3>1. g[<<mid + 1, r[2]>>] \in Found /\ g[<<r[1], mid>>] \in Found
      BY <1>4, <2>1
    <3>2. [index |-> mid + 1, match |-> TRUE] \in Found
      BY <1>1, <1>4, <2>1 DEF Found, Intervals
    <3>3. r[1] \in Nat /\ r[2] \in Nat
      BY DEF Intervals
    <3> QED BY <2>1, <3>1, <3>2, <3>3 DEF Probe
  <2>2. CASE ~(r[1] < r[2])
    BY <1>1, <2>2 DEF Probe, Found, Intervals
  <2> QED BY <2>1, <2>2
<1>6. F \in [[S -> Found] -> [S -> Found]]
  <2> SUFFICES ASSUME NEW g \in [S -> Found]
               PROVE  [r \in S |-> Probe(entries, key, g, r)] \in [S -> Found]
    BY Zenon
  <2> HIDE DEF S
  <2> QED BY <1>5
<1>7. ASSUME NEW g \in [S -> Found], NEW h \in [S -> Found], NEW r \in S,
             \A t \in S : rank[t] < rank[r] => g[t] = h[t]
      PROVE  F[g][r] = F[h][r]
  <2>1. Probe(entries, key, g, r) = Probe(entries, key, h, r)
    <3>1. CASE r[1] < r[2]
      <4> DEFINE mid == r[1] + (r[2] - r[1]) \div 2
      <4>1. g[<<mid + 1, r[2]>>] = h[<<mid + 1, r[2]>>] /\ g[<<r[1], mid>>] = h[<<r[1], mid>>]
        BY <1>4, <1>7, <3>1
      <4> HIDE DEF S, rank, F
      <4> QED BY <4>1 DEF Probe
    <3>2. CASE ~(r[1] < r[2])
      BY <1>1, <3>2 DEF Probe, Intervals
    <3> QED BY <3>1, <3>2
  <2>2. F[g] = [t \in S |-> Probe(entries, key, g, t)] /\ F[h] = [t \in S |-> Probe(entries, key, h, t)]
    OBVIOUS
  <2> HIDE DEF S, F, rank
  <2> QED BY <2>1, <2>2
<1>8. \E f \in [S -> Found] : f = F[f]
  <2> HIDE DEF S, F, rank, g0
  <2>1. DependsOnLess(F, S, Found, rank)
    BY <1>6, <1>7, Zenon DEF DependsOnLess
  <2> QED BY <1>2, <1>3, <2>1, RecursiveFunctionExists
<1>9. PICK f \in [S -> Found] : f = F[f]
  BY <1>8
<1>10. F[f] = [r \in S |-> Probe(entries, key, f, r)]
  OBVIOUS
<1> QED BY <1>9, <1>10

\* An empty interval ends the search.
LEMMA ProbeEmpty ==
  ASSUME NEW entries, NEW key, NEW search, NEW lo \in Nat
  PROVE  Probe(entries, key, search, <<lo, lo>>) = [index |-> lo + 1, match |-> FALSE]
BY DEF Probe

\* One turn of the loop keeps what is looked for within the interval.
LEMMA SearchFrom ==
  ASSUME NEW entries \in Seq(EntryType), Sorted(entries), NEW key \in Bytes,
         NEW search, search = [r \in Intervals(entries) |-> Probe(entries, key, search, r)],
         NEW n \in Nat
  PROVE  \A lo, hi \in 0..Len(entries) :
           /\ lo <= hi /\ hi - lo <= n
           /\ \A k \in 1..Len(entries) : k <= lo => KeyBefore(entries[k].key, key)
           /\ \A k \in 1..Len(entries) : k > hi => KeyBefore(key, entries[k].key)
           => SearchOf(entries, key, search[<<lo, hi>>])
<1> DEFINE Ready(lo, hi) ==
             /\ lo <= hi
             /\ \A k \in 1..Len(entries) : k <= lo => KeyBefore(entries[k].key, key)
             /\ \A k \in 1..Len(entries) : k > hi => KeyBefore(key, entries[k].key)
           T == {m \in Nat : \A lo, hi \in 0..Len(entries) :
                   Ready(lo, hi) /\ hi - lo <= m => SearchOf(entries, key, search[<<lo, hi>>])}
<1>1. /\ Len(entries) \in Nat /\ DOMAIN entries = 1..Len(entries)
      /\ \A k \in 1..Len(entries) : entries[k] \in EntryType /\ entries[k].key \in Bytes
  <2>1. Len(entries) \in Nat /\ DOMAIN entries = 1..Len(entries)
    BY LenProperties
  <2>2. \A k \in 1..Len(entries) : entries[k] \in EntryType
    BY ElementOfSeq
  <2> QED BY <2>1, <2>2 DEF EntryType
<1>2. ASSUME NEW lo \in 0..Len(entries), NEW hi \in 0..Len(entries)
      PROVE  search[<<lo, hi>>] = Probe(entries, key, search, <<lo, hi>>)
  <2>1. <<lo, hi>> \in Intervals(entries)
    BY DEF Intervals
  <2> QED BY <2>1
<1>3. ASSUME NEW lo \in 0..Len(entries), Ready(lo, lo)
      PROVE  SearchOf(entries, key, search[<<lo, lo>>])
  <2>1. search[<<lo, lo>>] = [index |-> lo + 1, match |-> FALSE]
    <3>1. lo \in Nat
      BY <1>1
    <3>2. search[<<lo, lo>>] = Probe(entries, key, search, <<lo, lo>>)
      BY <1>2
    <3>3. Probe(entries, key, search, <<lo, lo>>) = [index |-> lo + 1, match |-> FALSE]
      BY <3>1, ProbeEmpty
    <3> QED BY <3>2, <3>3
  <2>2. SearchOf(entries, key, [index |-> lo + 1, match |-> FALSE])
    BY <1>1, <1>3 DEF SearchOf, Found
  <2> QED BY <2>1, <2>2
<1>4. ASSUME NEW m \in Nat, m \in T, NEW lo \in 0..Len(entries), NEW hi \in 0..Len(entries),
             Ready(lo, hi), lo < hi, hi - lo <= m + 1
      PROVE  SearchOf(entries, key, search[<<lo, hi>>])
  <2> DEFINE mid == lo + (hi - lo) \div 2
             c == bytes_cmp(entries[mid + 1].key, key)
  <2>1. mid \in lo..(hi - 1)
    BY <1>1, <1>4, Middle
  <2>2. search[<<lo, hi>>] = IF c = 0 THEN [index |-> mid + 1, match |-> TRUE]
                             ELSE IF c < 0 THEN search[<<mid + 1, hi>>] ELSE search[<<lo, mid>>]
    <3>1. lo \in Nat /\ hi \in Nat /\ lo < hi
      BY <1>1, <1>4
    <3>2. search[<<lo, hi>>] = Probe(entries, key, search, <<lo, hi>>)
      BY <1>2
    <3>3. Probe(entries, key, search, <<lo, hi>>) =
            IF c = 0 THEN [index |-> mid + 1, match |-> TRUE]
            ELSE IF c < 0 THEN search[<<mid + 1, hi>>] ELSE search[<<lo, mid>>]
      <4>1. mid = lo + (hi - lo) \div 2 /\ c = bytes_cmp(entries[mid + 1].key, key)
        OBVIOUS
      <4> HIDE DEF mid, c
      <4> QED BY <3>1, <4>1 DEF Probe
    <3> QED BY <3>2, <3>3
  <2> HIDE DEF mid
  <2>3. mid + 1 \in 1..Len(entries) /\ mid + 1 \in 0..Len(entries) /\ mid \in 0..Len(entries)
    BY <1>1, <1>4, <2>1
  <2>4. entries[mid + 1].key \in Bytes
    BY <1>1, <2>3
  <2>5. c \in Int /\ (c = 0 <=> entries[mid + 1].key = key) /\ (c > 0 <=> KeyBefore(key, entries[mid + 1].key))
    BY <2>4, KeyTrichotomy
  <2>6. CASE c = 0
    <3>1. SearchOf(entries, key, [index |-> mid + 1, match |-> TRUE])
      BY <1>1, <2>3, <2>5, <2>6 DEF SearchOf, Found
    <3> QED BY <2>2, <2>6, <3>1
  <2>7. CASE c < 0
    <3>1. KeyBefore(entries[mid + 1].key, key)
      BY <2>7 DEF KeyBefore
    <3>2. ASSUME NEW k \in 1..Len(entries), k <= mid + 1
          PROVE  KeyBefore(entries[k].key, key)
      <4>1. k < mid + 1 => KeyBefore(entries[k].key, entries[mid + 1].key)
        BY <1>1, <2>3 DEF Sorted
      <4>2. k < mid + 1 => KeyBefore(entries[k].key, key)
        BY <1>1, <2>4, <3>1, <4>1, KeyBeforeTransitive
      <4> QED BY <1>1, <2>3, <3>1, <3>2, <4>2
    <3>3. Ready(mid + 1, hi) /\ hi - (mid + 1) <= m
      BY <1>1, <1>4, <2>1, <3>2
    <3>4. SearchOf(entries, key, search[<<mid + 1, hi>>])
      BY <1>4, <2>3, <3>3
    <3> QED BY <2>2, <2>5, <2>7, <3>4
  <2>8. CASE c > 0
    <3>1. KeyBefore(key, entries[mid + 1].key)
      BY <2>5, <2>8
    <3>2. ASSUME NEW k \in 1..Len(entries), k > mid
          PROVE  KeyBefore(key, entries[k].key)
      <4>1. mid + 1 < k => KeyBefore(entries[mid + 1].key, entries[k].key)
        BY <1>1, <2>3 DEF Sorted
      <4>2. mid + 1 < k => KeyBefore(key, entries[k].key)
        BY <1>1, <2>4, <3>1, <4>1, KeyBeforeTransitive
      <4> QED BY <1>1, <2>3, <3>1, <3>2, <4>2
    <3>3. Ready(lo, mid) /\ mid - lo <= m
      BY <1>1, <1>4, <2>1, <3>2
    <3>4. SearchOf(entries, key, search[<<lo, mid>>])
      BY <1>4, <2>3, <3>3
    <3> QED BY <2>2, <2>5, <2>8, <3>4
  <2> QED BY <2>5, <2>6, <2>7, <2>8
<1>5. 0 \in T
  <2>1. ASSUME NEW lo \in 0..Len(entries), NEW hi \in 0..Len(entries),
               Ready(lo, hi), hi - lo <= 0
        PROVE  SearchOf(entries, key, search[<<lo, hi>>])
    <3>1. lo = hi
      BY <1>1, <2>1
    <3> QED BY <1>3, <2>1, <3>1
  <2> HIDE DEF Ready
  <2> QED BY <2>1
<1>6. ASSUME NEW m \in Nat, m \in T
      PROVE  m + 1 \in T
  <2>1. ASSUME NEW lo \in 0..Len(entries), NEW hi \in 0..Len(entries),
               Ready(lo, hi), hi - lo <= m + 1
        PROVE  SearchOf(entries, key, search[<<lo, hi>>])
    <3>1. CASE lo < hi
      BY <1>4, <1>6, <2>1, <3>1
    <3>2. CASE lo = hi
      BY <1>3, <2>1, <3>2
    <3> QED BY <1>1, <2>1, <3>1, <3>2
  <2>2. m + 1 \in Nat
    OBVIOUS
  <2> HIDE DEF Ready
  <2> QED BY <2>1, <2>2
<1>7. n \in T
  <2> HIDE DEF T
  <2> QED BY <1>5, <1>6, InductionOverSet
<1> QED BY <1>7

\* dict_search finds a key that is there, and otherwise the place where it
\* belongs: everything before is less, everything from there on is greater.
LEMMA DictSearch ==
  ASSUME NEW entries \in Seq(EntryType), Sorted(entries), NEW key \in Bytes
  PROVE  SearchOf(entries, key, dict_search(entries, key))
<1> DEFINE search == CHOOSE search : search = [r \in Intervals(entries) |-> Probe(entries, key, search, r)]
<1>1. dict_search(entries, key) = search[<<0, Len(entries)>>]
  BY DEF dict_search, Probe, Intervals
<1>2. search = [r \in Intervals(entries) |-> Probe(entries, key, search, r)]
  BY SearchIsDefined
<1>3. Len(entries) \in Nat
  BY LenProperties
<1> HIDE DEF search
<1>4. \A lo, hi \in 0..Len(entries) :
           /\ lo <= hi /\ hi - lo <= Len(entries)
           /\ \A k \in 1..Len(entries) : k <= lo => KeyBefore(entries[k].key, key)
           /\ \A k \in 1..Len(entries) : k > hi => KeyBefore(key, entries[k].key)
           => SearchOf(entries, key, search[<<lo, hi>>])
  BY <1>2, <1>3, SearchFrom
<1>5. SearchOf(entries, key, search[<<0, Len(entries)>>])
  BY <1>3, <1>4
<1> QED BY <1>1, <1>5

\* No key is before itself, nor two before each other.
LEMMA KeyBeforeIrreflexive ==
  ASSUME NEW a \in Bytes
  PROVE  ~KeyBefore(a, a)
<1>1. bytes_cmp(a, a) = 0
  BY KeyTrichotomy
<1> QED BY <1>1 DEF KeyBefore

\* Every key of a sorted array is found where it is.
THEOREM DictSearchFinds ==
  ASSUME NEW entries \in Seq(EntryType), Sorted(entries), NEW k \in DOMAIN entries
  PROVE  dict_search(entries, entries[k].key) = [index |-> k, match |-> TRUE]
<1> DEFINE s == dict_search(entries, entries[k].key)
<1>1. /\ Len(entries) \in Nat /\ k \in 1..Len(entries) /\ DOMAIN entries = 1..Len(entries)
      /\ \A j \in 1..Len(entries) : entries[j].key \in Bytes
  <2>1. Len(entries) \in Nat /\ DOMAIN entries = 1..Len(entries)
    BY LenProperties
  <2>2. \A j \in 1..Len(entries) : entries[j] \in EntryType
    BY <2>1, ElementOfSeq
  <2> QED BY <2>1, <2>2 DEF EntryType
<1>2. SearchOf(entries, entries[k].key, s)
  BY <1>1, DictSearch
<1> HIDE DEF s
<1>3. s.match
  BY <1>1, <1>2, KeyBeforeIrreflexive DEF SearchOf
<1>4. ASSUME s.index # k
      PROVE  FALSE
  <2>1. s.index \in 1..Len(entries) /\ entries[s.index].key = entries[k].key
    BY <1>2, <1>3 DEF SearchOf, Found
  <2>2. KeyBefore(entries[k].key, entries[k].key)
    BY <1>1, <1>4, <2>1 DEF Sorted
  <2> QED BY <1>1, <2>2, KeyBeforeIrreflexive
<1>5. s = [index |-> s.index, match |-> s.match] /\ s.match \in BOOLEAN
  BY <1>2 DEF SearchOf, Found
<1> QED BY <1>3, <1>4, <1>5 DEF s

\* A key greater than all there are goes to the end.
LEMMA DictSearchAppends ==
  ASSUME NEW entries \in Seq(EntryType), Sorted(entries), NEW key \in Bytes,
         \A k \in DOMAIN entries : KeyBefore(entries[k].key, key)
  PROVE  dict_search(entries, key) = [index |-> Len(entries) + 1, match |-> FALSE]
<1> DEFINE s == dict_search(entries, key)
<1>1. /\ Len(entries) \in Nat /\ DOMAIN entries = 1..Len(entries)
      /\ \A j \in 1..Len(entries) : entries[j].key \in Bytes
  <2>1. Len(entries) \in Nat /\ DOMAIN entries = 1..Len(entries)
    BY LenProperties
  <2>2. \A j \in 1..Len(entries) : entries[j] \in EntryType
    BY <2>1, ElementOfSeq
  <2> QED BY <2>1, <2>2 DEF EntryType
<1>2. SearchOf(entries, key, s)
  BY DictSearch
<1> HIDE DEF s
<1>3. s = [index |-> s.index, match |-> s.match] /\ s.match \in BOOLEAN /\ s.index \in 1..(Len(entries) + 1)
  BY <1>2 DEF SearchOf, Found
<1>4. ~s.match
  <2> SUFFICES ASSUME s.match PROVE FALSE
    OBVIOUS
  <2>1. s.index \in DOMAIN entries /\ entries[s.index].key = key
    BY <1>1, <1>2 DEF SearchOf, Found
  <2> QED BY <2>1, KeyBeforeIrreflexive
<1>5. ASSUME s.index <= Len(entries)
      PROVE  FALSE
  <2>1. s.index \in 1..Len(entries)
    BY <1>1, <1>3, <1>5
  <2>2. KeyBefore(key, entries[s.index].key) /\ KeyBefore(entries[s.index].key, key)
    BY <1>1, <1>2, <1>3, <1>4, <2>1 DEF SearchOf
  <2> QED BY <1>1, <2>1, <2>2, KeyBeforeTransitive, KeyBeforeIrreflexive
<1>6. s.index = Len(entries) + 1
  BY <1>1, <1>3, <1>5
<1> QED BY <1>3, <1>4, <1>6 DEF s
---------------------------------------------------------------------------
(* The heap.                                                               *)

\* What remains of a heap when a field is replaced.
LEMMA HeapFields ==
  ASSUME NEW L, NEW N, NEW F
  PROVE  Heap(L, N, F).live = L /\ Heap(L, N, F).node = N /\ Heap(L, N, F).fault = F
BY DEF Heap

LEMMA WithLive ==
  ASSUME NEW m, NEW L, NEW N, NEW F, NEW x, m = Heap(L, N, F)
  PROVE  [m EXCEPT !.live = x] = Heap(x, N, F)
<1> DEFINE r == [m EXCEPT !.live = x]
<1>1. r = Heap(x, N, F)
  BY DEF Heap
<1> QED BY <1>1

LEMMA WithNode ==
  ASSUME NEW m, NEW L, NEW N, NEW F, NEW x, m = Heap(L, N, F)
  PROVE  [m EXCEPT !.node = x] = Heap(L, x, F)
<1> DEFINE r == [m EXCEPT !.node = x]
<1>1. r = Heap(L, x, F)
  BY DEF Heap
<1> QED BY <1>1

LEMMA WithFault ==
  ASSUME NEW m, NEW L, NEW N, NEW F, NEW x, m = Heap(L, N, F)
  PROVE  [m EXCEPT !.fault = x] = Heap(L, N, x)
<1> DEFINE r == [m EXCEPT !.fault = x]
<1>1. r = Heap(L, N, x)
  BY DEF Heap
<1> QED BY <1>1

---------------------------------------------------------------------------
(* The allocator.                                                          *)

\* The block the allocator gives is one it has not given before.
LEMMA FreeBlockIsFree ==
  ASSUME NEW m, m.live \subseteq Allocator \X Block, IsFiniteSet(m.live)
  PROVE  FreeBlock(m) \in Block /\ \A b \in m.live : b[2] # FreeBlock(m)
<1> DEFINE S == { b[2] : b \in m.live }
           f == [b \in m.live |-> b[2]]
           c == Cardinality(m.live)
           T == (1..(c + 1)) \ S
<1>1. c \in Nat
  BY FS_CardinalityType
<1>2. IsFiniteSet(S) /\ Cardinality(S) <= c
  <2>1. f \in Surjection(m.live, S)
    BY DEF Surjection
  <2> HIDE DEF S, f
  <2> QED BY <2>1, FS_Surjection
<1>3. T # {}
  <2> SUFFICES ASSUME (1..(c + 1)) \subseteq S PROVE FALSE
    OBVIOUS
  <2>1. Cardinality(1..(c + 1)) = c + 1
    BY <1>1, FS_Interval
  <2>2. Cardinality(1..(c + 1)) <= Cardinality(S)
    BY <1>2, FS_Subset
  <2>3. Cardinality(S) \in Nat
    BY <1>2, FS_CardinalityType
  <2> HIDE DEF S, c
  <2> QED BY <1>1, <1>2, <2>1, <2>2, <2>3
<1>4. T \in SUBSET Nat
  BY <1>1
<1>5. PICK n \in T : \A k \in T : n <= k
  BY <1>3, <1>4, LeastNatural
<1>6. FreeBlock(m) \in T
  <2>1. FreeBlock(m) = CHOOSE x \in T : \A y \in T : x <= y
    BY DEF FreeBlock, Min
  <2> HIDE DEF T
  <2> QED BY <1>5, <2>1
<1> QED BY <1>1, <1>6 DEF Block, NULL

\* Release, on a heap on which nothing went wrong.
LEMMA ReleaseFromHeap ==
  ASSUME NEW m, HeapType(m), NEW blocks, blocks \subseteq m.live
  PROVE  Release(m, blocks) = Heap(m.live \ blocks, m.node, m.fault)
<1> DEFINE L == m.live
           N == m.node
           F == m.fault
           rest == L \ blocks
           r == [m EXCEPT !.live = rest]
<1>1. m = Heap(L, N, F)
  BY DEF HeapType
<1>2. (m.fault \/ ~(blocks \subseteq m.live)) = m.fault
  BY DEF HeapType
<1>3. Release(m, blocks) = [r EXCEPT !.fault = F]
  BY <1>2 DEF Release
<1>4. r = Heap(rest, N, F)
  <2> HIDE DEF rest, L, N, F
  <2> QED BY <1>1, WithLive
<1>5. [r EXCEPT !.fault = F] = Heap(rest, N, F)
  <2> HIDE DEF rest, r, L, N, F
  <2> QED BY <1>4, WithFault
<1> QED BY <1>3, <1>5

\* A block more.
LEMMA AllocHeap ==
  ASSUME NEW m, HeapType(m), NEW alloc \in Allocator, NEW b \in Block
  PROVE  LET m1 == [m EXCEPT !.live = @ \cup {<<alloc, b>>}]
         IN  /\ m1.live = m.live \cup {<<alloc, b>>} /\ m1.node = m.node /\ m1.fault = m.fault
             /\ HeapType(m1)
<1> DEFINE L == m.live \cup {<<alloc, b>>}
           m1 == [m EXCEPT !.live = L]
<1>1. m = Heap(m.live, m.node, m.fault)
  BY DEF HeapType
<1>2. m1 = Heap(L, m.node, m.fault)
  <2> HIDE DEF L
  <2> QED BY <1>1, WithLive
<1>3. m1.live = L /\ m1.node = m.node /\ m1.fault = m.fault
  <2> HIDE DEF m1, L
  <2> QED BY <1>2, HeapFields
<1>4. L \subseteq Allocator \X Block /\ IsFiniteSet(L)
  <2>1. IsFiniteSet(L)
    BY FS_AddElement DEF HeapType
  <2> QED BY <2>1 DEF HeapType
<1>5. HeapType(m1)
  <2> HIDE DEF m1, L
  <2> QED BY <1>2, <1>3, <1>4 DEF HeapType
<1> QED BY <1>3, <1>5

\* What is allocated and then freed leaves no trace.
LEMMA FreeUndoesAlloc ==
  ASSUME NEW m, HeapType(m), NEW alloc \in Allocator, NEW b \in Block, <<alloc, b>> \notin m.live
  PROVE  bencode_free([m EXCEPT !.live = @ \cup {<<alloc, b>>}], alloc, b) = m
<1> DEFINE blocks == {<<alloc, b>>}
           m1 == [m EXCEPT !.live = @ \cup {<<alloc, b>>}]
<1>1. m = Heap(m.live, m.node, m.fault)
  BY DEF HeapType
<1>2. m1.live = m.live \cup blocks /\ m1.node = m.node /\ m1.fault = m.fault /\ HeapType(m1)
  BY AllocHeap
<1> HIDE DEF m1
<1>3. bencode_free(m1, alloc, b) = Release(m1, blocks)
  BY DEF bencode_free, Block
<1>4. Release(m1, blocks) = Heap(m1.live \ blocks, m1.node, m1.fault)
  <2>1. blocks \subseteq m1.live
    BY <1>2
  <2> HIDE DEF blocks
  <2> QED BY <1>2, <2>1, ReleaseFromHeap
<1>5. m1.live \ blocks = m.live
  BY <1>2
<1>6. bencode_free(m1, alloc, b) = m
  BY <1>1, <1>2, <1>3, <1>4, <1>5
<1> QED BY <1>6 DEF m1

---------------------------------------------------------------------------
(* The tree below a value.                                                 *)

\* What is known of a node.
LEMMA NodeFacts ==
  ASSUME NEW m, HeapType(m), NEW n \in DOMAIN m.node
  PROVE  /\ m.node[n] \in NodeType /\ n \in Nat /\ n # NULL
         /\ m.node[n].entries \in Seq(EntryType) /\ Len(m.node[n].entries) \in Nat
         /\ DOMAIN m.node[n].entries = 1..Len(m.node[n].entries)
         /\ \A k \in DOMAIN m.node[n].entries : m.node[n].entries[k] \in EntryType
<1>1. m.node[n] \in NodeType /\ n \in Nat /\ n # NULL
  BY DEF HeapType, Block
<1>2. m.node[n].entries \in Seq(EntryType)
  BY <1>1 DEF NodeType
<1>3. Len(m.node[n].entries) \in Nat /\ DOMAIN m.node[n].entries = 1..Len(m.node[n].entries)
  BY <1>2, LenProperties
<1>4. \A k \in DOMAIN m.node[n].entries : m.node[n].entries[k] \in EntryType
  BY <1>2, <1>3, ElementOfSeq
<1> QED BY <1>1, <1>2, <1>3, <1>4

LEMMA ChildrenFacts ==
  ASSUME NEW m, HeapType(m), NEW n
  PROVE  /\ Children(m, n) \subseteq Nat
         /\ \A c : c \in Children(m, n) <=>
              n \in DOMAIN m.node /\ \E k \in DOMAIN m.node[n].entries : m.node[n].entries[k].value = c
<1>1. CASE n \in DOMAIN m.node
  <2>1. \A k \in DOMAIN m.node[n].entries : m.node[n].entries[k].value \in Nat
    BY <1>1, NodeFacts DEF EntryType
  <2> QED BY <1>1, <2>1 DEF Children
<1>2. CASE n \notin DOMAIN m.node
  BY <1>2 DEF Children
<1> QED BY <1>1, <1>2

\* The levels of a tree.
Levels(m, v, level) ==
  /\ level \in [Nat -> SUBSET Nat]
  /\ level[0] = {v} \ {NULL}
  /\ \A d \in Nat : level[d + 1] = UNION { Children(m, n) : n \in level[d] }
  /\ Tree(m, v) = UNION { level[d] : d \in 0..Cardinality(DOMAIN m.node) }

NextLevel(m, v, level, d) ==
  IF d = 0 THEN {v} \ {NULL} ELSE UNION { Children(m, n) : n \in level[d - 1] }

LEMMA TreeHasLevels ==
  ASSUME NEW m, HeapType(m), NEW v \in Nat
  PROVE  \E level : Levels(m, v, level)
<1> DEFINE X == SUBSET Nat
           F == [g \in [Nat -> X] |-> [d \in Nat |-> NextLevel(m, v, g, d)]]
           rank == [d \in Nat |-> d]
           g0 == [d \in Nat |-> {}]
<1>1. ASSUME NEW g \in [Nat -> X], NEW d \in Nat
      PROVE  NextLevel(m, v, g, d) \in X
  BY ChildrenFacts DEF NextLevel
<1>2. F \in [[Nat -> X] -> [Nat -> X]]
  <2> SUFFICES ASSUME NEW g \in [Nat -> X]
               PROVE  [d \in Nat |-> NextLevel(m, v, g, d)] \in [Nat -> X]
    BY Zenon
  <2> HIDE DEF X
  <2> QED BY <1>1
<1>3. ASSUME NEW g \in [Nat -> X], NEW h \in [Nat -> X], NEW d \in Nat,
             \A e \in Nat : rank[e] < rank[d] => g[e] = h[e]
      PROVE  F[g][d] = F[h][d]
  <2>1. NextLevel(m, v, g, d) = NextLevel(m, v, h, d)
    <3>1. CASE d = 0
      BY <3>1 DEF NextLevel
    <3>2. CASE d # 0
      <4>1. d - 1 \in Nat /\ rank[d - 1] < rank[d]
        BY <3>2
      <4>2. g[d - 1] = h[d - 1]
        BY <1>3, <4>1
      <4> HIDE DEF F, rank, X
      <4> QED BY <3>2, <4>2 DEF NextLevel
    <3> QED BY <3>1, <3>2
  <2>2. F[g] = [e \in Nat |-> NextLevel(m, v, g, e)] /\ F[h] = [e \in Nat |-> NextLevel(m, v, h, e)]
    OBVIOUS
  <2> HIDE DEF F, rank, X
  <2> QED BY <2>1, <2>2
<1>4. \E f \in [Nat -> X] : f = F[f]
  <2> DEFINE S == Nat
  <2>1. rank \in [S -> Nat] /\ g0 \in [S -> X]
    OBVIOUS
  <2> HIDE DEF F, rank, X, g0
  <2>2. DependsOnLess(F, S, X, rank)
    BY <1>2, <1>3, Zenon DEF DependsOnLess
  <2>3. \E f \in [S -> X] : f = F[f]
    <3> HIDE DEF S
    <3> QED BY <2>1, <2>2, RecursiveFunctionExists
  <2> QED BY <2>3
<1> DEFINE level == CHOOSE level : level = [d \in Nat |-> NextLevel(m, v, level, d)]
<1>5. \E f : f = [d \in Nat |-> NextLevel(m, v, f, d)] /\ f \in [Nat -> X]
  <2>1. PICK f \in [Nat -> X] : f = F[f]
    BY <1>4
  <2>2. F[f] = [d \in Nat |-> NextLevel(m, v, f, d)]
    OBVIOUS
  <2> HIDE DEF F, X
  <2> QED BY <2>1, <2>2
<1>6. level = [d \in Nat |-> NextLevel(m, v, level, d)]
  BY <1>5
<1>7. Tree(m, v) = UNION { level[d] : d \in 0..Cardinality(DOMAIN m.node) }
  BY DEF Tree, NextLevel
<1> HIDE DEF level
<1>8. level[0] = {v} \ {NULL}
  BY <1>6 DEF NextLevel
<1>9. ASSUME NEW d \in Nat
      PROVE  level[d + 1] = UNION { Children(m, n) : n \in level[d] }
  <2>1. level[d + 1] = NextLevel(m, v, level, d + 1)
    BY <1>6
  <2>2. d + 1 # 0 /\ (d + 1) - 1 = d
    OBVIOUS
  <2> QED BY <2>1, <2>2 DEF NextLevel
<1>10. level \in [Nat -> X]
  <2>1. ASSUME NEW d \in Nat PROVE level[d] \in X
    <3>1. CASE d = 0
      BY <1>8, <3>1
    <3>2. CASE d # 0
      <4>1. d - 1 \in Nat /\ (d - 1) + 1 = d
        BY <3>2
      <4>2. level[d] = UNION { Children(m, n) : n \in level[d - 1] }
        BY <1>9, <4>1
      <4> QED BY <4>2, ChildrenFacts
    <3> QED BY <3>1, <3>2
  <2> HIDE DEF X
  <2>2. DOMAIN level = Nat /\ level = [d \in Nat |-> level[d]]
    BY <1>6
  <2> QED BY <2>1, <2>2
<1> QED BY <1>7, <1>8, <1>9, <1>10 DEF Levels

\* The nodes are finitely many, as their blocks are.
LEMMA NodesAreFinite ==
  ASSUME NEW m, HeapType(m), HeldOnce(m, {})
  PROVE  IsFiniteSet(DOMAIN m.node) /\ Cardinality(DOMAIN m.node) \in Nat
<1> DEFINE S == { b[2] : b \in m.live }
           f == [b \in m.live |-> b[2]]
<1>1. IsFiniteSet(S)
  <2>1. f \in Surjection(m.live, S)
    BY DEF Surjection
  <2>2. IsFiniteSet(m.live)
    BY DEF HeapType
  <2> HIDE DEF S, f
  <2> QED BY <2>1, <2>2, FS_Surjection
<1>2. ASSUME NEW n \in DOMAIN m.node PROVE n \in S
  <2>1. <<m.node[n].alloc, n>> \in BlocksOf(m, n)
    BY NodeFacts DEF BlocksOf
  <2>2. <<m.node[n].alloc, n>> \in m.live
    BY <2>1 DEF HeldOnce
  <2> QED BY <2>2
<1>3. DOMAIN m.node \in SUBSET S
  BY <1>2
<1>4. IsFiniteSet(DOMAIN m.node)
  <2> HIDE DEF S
  <2> QED BY <1>1, <1>3, FS_Subset
<1> QED BY <1>4, FS_CardinalityType

\* Level 0 is the root.
LEMMA RootInTree ==
  ASSUME NEW m, HeapType(m), HeldOnce(m, {}), NEW v \in Nat, v # NULL
  PROVE  v \in Tree(m, v)
<1>1. PICK level : Levels(m, v, level)
  BY TreeHasLevels
<1>2. 0 \in 0..Cardinality(DOMAIN m.node)
  BY NodesAreFinite
<1> QED BY <1>1, <1>2 DEF Levels

\* There is nothing below NULL.
LEMMA TreeOfNull ==
  ASSUME NEW m, HeapType(m)
  PROVE  Tree(m, NULL) = {}
<1>1. NULL \in Nat
  BY DEF NULL
<1>2. PICK level : Levels(m, NULL, level)
  BY <1>1, TreeHasLevels
<1> DEFINE T == {d \in Nat : level[d] = {}}
<1>3. 0 \in T
  BY <1>2 DEF Levels
<1>4. ASSUME NEW d \in Nat, d \in T PROVE d + 1 \in T
  BY <1>2, <1>4 DEF Levels
<1>5. Nat \subseteq T
  <2> HIDE DEF T
  <2> QED BY <1>3, <1>4, InductionOverSet
<1>6. \A d \in 0..Cardinality(DOMAIN m.node) : level[d] = {}
  BY <1>5
<1> QED BY <1>2, <1>6 DEF Levels

\* A node without entries is its own tree.
LEMMA TreeOfLeaf ==
  ASSUME NEW m, HeapType(m), HeldOnce(m, {}), NEW v \in DOMAIN m.node, m.node[v].entries = <<>>
  PROVE  Tree(m, v) = {v}
<1>1. v \in Nat /\ v # NULL
  BY NodeFacts
<1>2. PICK level : Levels(m, v, level)
  BY <1>1, TreeHasLevels
<1>3. Children(m, v) = {}
  BY NodeFacts, ChildrenFacts
<1>4. level[0] = {v} /\ level[1] = {}
  <2>1. level[0] = {v}
    BY <1>1, <1>2 DEF Levels
  <2>2. level[0 + 1] = UNION { Children(m, n) : n \in level[0] }
    BY <1>2 DEF Levels
  <2> QED BY <1>3, <2>1, <2>2
<1> DEFINE T == {d \in Nat : level[d + 1] = {}}
<1>5. 0 \in T
  BY <1>4
<1>6. ASSUME NEW d \in Nat, d \in T PROVE d + 1 \in T
  <2>1. level[(d + 1) + 1] = UNION { Children(m, n) : n \in level[d + 1] }
    BY <1>2 DEF Levels
  <2> QED BY <1>6, <2>1
<1>7. Nat \subseteq T
  <2> HIDE DEF T
  <2> QED BY <1>5, <1>6, InductionOverSet
<1>8. ASSUME NEW d \in Nat, d # 0 PROVE level[d] = {}
  <2>1. d - 1 \in Nat /\ (d - 1) + 1 = d
    BY <1>8
  <2>2. d - 1 \in T
    <3> HIDE DEF T
    <3> QED BY <1>7, <2>1
  <2>3. level[(d - 1) + 1] = {}
    BY <2>2
  <2> QED BY <2>1, <2>3
<1>9. Cardinality(DOMAIN m.node) \in Nat
  BY NodesAreFinite
<1>10. 0 \in 0..Cardinality(DOMAIN m.node)
  BY <1>9
<1>11. \A d \in 0..Cardinality(DOMAIN m.node) : level[d] \subseteq {v}
  BY <1>4, <1>8, <1>9
<1> QED BY <1>2, <1>4, <1>10, <1>11 DEF Levels

\* Where every entry leads to a node, so does every path.
LEMMA TreeIsClosed ==
  ASSUME NEW m, HeapType(m), OneParent(m), NEW v \in Nat, v = NULL \/ v \in DOMAIN m.node
  PROVE  Tree(m, v) \subseteq DOMAIN m.node
<1>1. PICK level : Levels(m, v, level)
  BY TreeHasLevels
<1> DEFINE T == {d \in Nat : level[d] \subseteq DOMAIN m.node}
<1>2. 0 \in T
  BY <1>1 DEF Levels
<1>3. ASSUME NEW n \in DOMAIN m.node PROVE Children(m, n) \subseteq DOMAIN m.node
  BY ChildrenFacts DEF OneParent
<1>4. ASSUME NEW d \in Nat, d \in T PROVE d + 1 \in T
  <2>1. level[d + 1] = UNION { Children(m, n) : n \in level[d] }
    BY <1>1 DEF Levels
  <2> QED BY <1>3, <1>4, <2>1
<1>5. Nat \subseteq T
  <2> HIDE DEF T
  <2> QED BY <1>2, <1>4, InductionOverSet
<1>6. \A d \in 0..Cardinality(DOMAIN m.node) : level[d] \subseteq DOMAIN m.node
  BY <1>5
<1> QED BY <1>1, <1>6 DEF Levels

\* A tree keeps its nodes as long as their entries stay, and a node x that
\* becomes a child of one of them is part of it.
LEMMA TreeGrows ==
  ASSUME NEW m, HeapType(m), NEW m2, HeapType(m2), NEW v \in Nat,
         HeldOnce(m, {}), NEW x, x \notin DOMAIN m.node, DOMAIN m2.node = DOMAIN m.node \cup {x},
         \A n \in DOMAIN m.node : Children(m, n) \subseteq Children(m2, n),
         NEW p \in Tree(m, v), x \in Children(m2, p)
  PROVE  Tree(m, v) \cup {x} \subseteq Tree(m2, v)
<1> DEFINE c == Cardinality(DOMAIN m.node)
           c2 == Cardinality(DOMAIN m2.node)
<1>1. c \in Nat /\ c2 = c + 1
  <2>1. IsFiniteSet(DOMAIN m.node) /\ Cardinality(DOMAIN m.node) \in Nat
    BY NodesAreFinite
  <2> QED BY <2>1, FS_AddElement
<1>2. PICK level : Levels(m, v, level)
  BY TreeHasLevels
<1>3. PICK level2 : Levels(m2, v, level2)
  BY TreeHasLevels
<1> DEFINE T == {d \in Nat : level[d] \subseteq level2[d]}
<1>4. 0 \in T
  BY <1>2, <1>3 DEF Levels
<1>5. ASSUME NEW n PROVE Children(m, n) \subseteq Children(m2, n)
  BY ChildrenFacts
<1>6. ASSUME NEW d \in Nat, d \in T PROVE d + 1 \in T
  <2>1. level[d + 1] = UNION { Children(m, n) : n \in level[d] }
    BY <1>2 DEF Levels
  <2>2. level2[d + 1] = UNION { Children(m2, n) : n \in level2[d] }
    BY <1>3 DEF Levels
  <2> QED BY <1>5, <1>6, <2>1, <2>2
<1>7. Nat \subseteq T
  <2> HIDE DEF T
  <2> QED BY <1>4, <1>6, InductionOverSet
<1>8. Tree(m, v) = UNION { level[d] : d \in 0..c } /\ Tree(m2, v) = UNION { level2[d] : d \in 0..c2 }
  BY <1>2, <1>3 DEF Levels
<1> HIDE DEF c, c2
<1>9. Tree(m, v) \subseteq Tree(m2, v)
  <2>1. ASSUME NEW y \in Tree(m, v) PROVE y \in Tree(m2, v)
    <3>1. PICK d \in 0..c : y \in level[d]
      BY <1>8
    <3>2. d \in 0..c2 /\ d \in T
      BY <1>1, <1>7
    <3>3. y \in level2[d]
      BY <3>1, <3>2
    <3> QED BY <1>8, <3>2, <3>3
  <2> QED BY <2>1
<1>10. x \in Tree(m2, v)
  <2>1. PICK d \in 0..c : p \in level[d]
    BY <1>8
  <2>2. d \in Nat /\ d + 1 \in 0..c2 /\ d \in T
    BY <1>1, <1>7
  <2>3. p \in level2[d]
    BY <2>1, <2>2
  <2>4. level2[d + 1] = UNION { Children(m2, n) : n \in level2[d] }
    BY <1>3, <2>2 DEF Levels
  <2>5. x \in level2[d + 1]
    BY <2>3, <2>4
  <2> QED BY <1>8, <2>2, <2>5
<1> QED BY <1>9, <1>10

---------------------------------------------------------------------------
(* What a tree spells.                                                     *)

\* Of one tree, every node is nearer to the leaves than the one above it.
LEMMA TreeRanked ==
  ASSUME NEW m, NEW v \in Nat, OneTree(m, v)
  PROVE  \E rank \in [DOMAIN m.node -> Nat] :
           \A n \in DOMAIN m.node : \A k \in DOMAIN m.node[n].entries :
             rank[m.node[n].entries[k].value] < rank[n]
<1>1. /\ HeapType(m) /\ HeldOnce(m, {}) /\ OneParent(m) /\ DOMAIN m.node = Tree(m, v)
      /\ \A n \in DOMAIN m.node : v \notin Children(m, n)
  BY DEF OneTree, HeapInv
<1>2. PICK level : Levels(m, v, level)
  BY <1>1, TreeHasLevels
<1>3. PICK top \in Nat : top = Cardinality(DOMAIN m.node)
  BY <1>1, NodesAreFinite
<1>4. ASSUME NEW d \in Nat, NEW x \in level[d + 1]
      PROVE  \E n \in DOMAIN m.node : n \in level[d] /\ x \in Children(m, n)
  <2>1. level[d + 1] = UNION { Children(m, n) : n \in level[d] }
    BY <1>2 DEF Levels
  <2> QED BY <1>1, <2>1, ChildrenFacts
<1>5. level[0] = {v} \ {NULL}
  BY <1>2 DEF Levels
<1> DEFINE Only(d) == \A e \in Nat : \A x : x \in level[d] /\ x \in level[e] => d = e
           T == {d \in Nat : Only(d)}
<1>6. 0 \in T
  <2>1. ASSUME NEW e \in Nat, NEW x, x \in level[0], x \in level[e], e # 0
        PROVE  FALSE
    <3>1. e - 1 \in Nat /\ (e - 1) + 1 = e
      BY <2>1
    <3>2. \E n \in DOMAIN m.node : x \in Children(m, n)
      BY <1>4, <2>1, <3>1
    <3> QED BY <1>1, <1>5, <2>1, <3>2
  <2> QED BY <2>1
<1>7. ASSUME NEW d \in Nat, d \in T PROVE d + 1 \in T
  <2>1. ASSUME NEW e \in Nat, NEW x, x \in level[d + 1], x \in level[e]
        PROVE  d + 1 = e
    <3>1. PICK n \in DOMAIN m.node : n \in level[d] /\ x \in Children(m, n)
      BY <1>4, <2>1
    <3>2. CASE e = 0
      BY <1>1, <1>5, <2>1, <3>1, <3>2
    <3>3. CASE e # 0
      <4>1. e - 1 \in Nat /\ (e - 1) + 1 = e
        BY <3>3
      <4>2. PICK n2 \in DOMAIN m.node : n2 \in level[e - 1] /\ x \in Children(m, n2)
        BY <1>4, <2>1, <4>1
      <4>3. n = n2
        BY <1>1, <3>1, <4>2 DEF Children, OneParent
      <4>4. d = e - 1
        BY <1>7, <3>1, <4>1, <4>2, <4>3
      <4> QED BY <4>1, <4>4
    <3> QED BY <3>2, <3>3
  <2> QED BY <2>1
<1>8. Nat \subseteq T
  <2> HIDE DEF T
  <2> QED BY <1>6, <1>7, InductionOverSet
<1> DEFINE depth(n) == CHOOSE d \in 0..top : n \in level[d]
           rank == [n \in DOMAIN m.node |-> top - depth(n)]
<1>9. ASSUME NEW n \in DOMAIN m.node
      PROVE  depth(n) \in 0..top /\ n \in level[depth(n)]
  <2>1. \E d \in 0..top : n \in level[d]
    BY <1>1, <1>2, <1>3 DEF Levels
  <2> QED BY <2>1
<1>10. ASSUME NEW n \in DOMAIN m.node, NEW k \in DOMAIN m.node[n].entries
       PROVE  /\ m.node[n].entries[k].value \in DOMAIN m.node
              /\ depth(m.node[n].entries[k].value) = depth(n) + 1
  <2> DEFINE c == m.node[n].entries[k].value
  <2>1. c \in DOMAIN m.node /\ c \in Children(m, n)
    BY <1>1, ChildrenFacts DEF OneParent
  <2>2. depth(n) \in Nat /\ depth(c) \in Nat /\ n \in level[depth(n)] /\ c \in level[depth(c)]
    BY <1>9, <2>1
  <2>3. \A d \in Nat : n \in level[d] => c \in level[d + 1]
    BY <1>2, <2>1 DEF Levels
  <2>4. c \in level[depth(n) + 1] /\ depth(n) + 1 \in Nat
    BY <2>2, <2>3
  <2>5. depth(c) \in T
    <3> HIDE DEF T, depth
    <3> QED BY <1>8, <2>2
  <2> HIDE DEF depth, c
  <2>6. depth(c) = depth(n) + 1
    BY <2>2, <2>4, <2>5
  <2> QED BY <2>1, <2>6 DEF c
<1> HIDE DEF depth, T
<1>11. rank \in [DOMAIN m.node -> Nat]
  BY <1>9
<1>12. ASSUME NEW n \in DOMAIN m.node, NEW k \in DOMAIN m.node[n].entries
       PROVE  rank[m.node[n].entries[k].value] < rank[n]
  BY <1>9, <1>10
<1> QED BY <1>11, <1>12

\* The nodes that the entries of nd lead to have a spelling in of.
SpellsEntries(nd, of, S) ==
  /\ nd \in NodeType /\ of \in [S -> Bytes]
  /\ \A k \in DOMAIN nd.entries : nd.entries[k].value \in S

\* The spellings of the entries from the k-th on.
EntriesFrom(nd, k, of) ==
  [j \in 1..(Len(nd.entries) - k + 1) |-> EncodeEntry(nd, k + j - 1, of)]

LEMMA EntriesEncoded ==
  ASSUME NEW S, NEW nd, NEW of, SpellsEntries(nd, of, S), NEW k \in Nat \ {0}
  PROVE  /\ k \in DOMAIN nd.entries => EncodeEntry(nd, k, of) \in Bytes
         /\ EntriesFrom(nd, k, of) \in Seq(Bytes)
         /\ EncodeRest(nd, k, of) = FlattenSeq(EntriesFrom(nd, k, of)) \o <<ch_e>>
         /\ EncodeRest(nd, k, of) \in Bytes
<1>1. /\ nd.entries \in Seq(EntryType) /\ Len(nd.entries) \in Nat
      /\ DOMAIN nd.entries = 1..Len(nd.entries)
  BY LenProperties DEF SpellsEntries, NodeType
<1>2. ASSUME NEW j \in DOMAIN nd.entries
      PROVE  EncodeEntry(nd, j, of) \in Bytes
  <2>1. nd.entries[j] \in EntryType
    BY <1>1, ElementOfSeq
  <2>2. EncodeString(nd.entries[j].key) \in Bytes /\ of[nd.entries[j].value] \in Bytes
    BY <2>1, EncodedBytes DEF EntryType, SpellsEntries
  <2> QED BY <2>2, BytesConcat DEF EncodeEntry
<1>3. EntriesFrom(nd, k, of) \in Seq(Bytes)
  <2> DEFINE len == IF k > Len(nd.entries) THEN 0 ELSE Len(nd.entries) - k + 1
  <2>1. len \in Nat /\ 1..(Len(nd.entries) - k + 1) = 1..len
    BY <1>1
  <2>2. \A j \in 1..len : k + j - 1 \in DOMAIN nd.entries
    BY <1>1
  <2> HIDE DEF len
  <2>3. EntriesFrom(nd, k, of) = [j \in 1..len |-> EncodeEntry(nd, k + j - 1, of)]
    BY <2>1 DEF EntriesFrom
  <2>4. EntriesFrom(nd, k, of) \in [1..len -> Bytes]
    BY <1>2, <2>2, <2>3
  <2> QED BY <2>1, <2>4
<1>4. EncodeRest(nd, k, of) = FlattenSeq(EntriesFrom(nd, k, of)) \o <<ch_e>>
  BY DEF EncodeRest, EntriesFrom
<1>5. <<ch_e>> \in Bytes
  BY OneByte DEF Byte, ch_e
<1>6. FlattenSeq(EntriesFrom(nd, k, of)) \in Bytes
  BY <1>3, <1>5, FlattenAppend
<1> QED BY <1>2, <1>3, <1>4, <1>5, <1>6, BytesConcat

\* The k-th entry, and then the others; after the last, the end.
LEMMA RestEncoded ==
  ASSUME NEW S, NEW nd, NEW of, SpellsEntries(nd, of, S), NEW k \in Nat \ {0}
  PROVE  /\ k > Len(nd.entries) => EncodeRest(nd, k, of) = <<ch_e>>
         /\ k <= Len(nd.entries) =>
              EncodeRest(nd, k, of) = EncodeEntry(nd, k, of) \o EncodeRest(nd, k + 1, of)
<1>1. /\ Len(nd.entries) \in Nat /\ DOMAIN nd.entries = 1..Len(nd.entries)
      /\ k + 1 \in Nat \ {0}
  BY LenProperties DEF SpellsEntries, NodeType
<1>2. <<ch_e>> \in Bytes
  BY OneByte DEF Byte, ch_e
<1>3. ASSUME k > Len(nd.entries)
      PROVE  EncodeRest(nd, k, of) = <<ch_e>>
  <2>1. 1..(Len(nd.entries) - k + 1) = {}
    BY <1>1, <1>3
  <2>2. EntriesFrom(nd, k, of) = <<>>
    <3>1. DOMAIN EntriesFrom(nd, k, of) = {}
      BY <2>1 DEF EntriesFrom
    <3>2. EntriesFrom(nd, k, of) \in Seq(Bytes)
      BY EntriesEncoded
    <3> QED BY <3>1, <3>2, LenProperties, EmptySeq
  <2> QED BY <1>2, <2>2, EntriesEncoded, FlattenFew, BytesEmpty
<1>4. ASSUME k <= Len(nd.entries)
      PROVE  EncodeRest(nd, k, of) = EncodeEntry(nd, k, of) \o EncodeRest(nd, k + 1, of)
  <2> DEFINE x  == EncodeEntry(nd, k, of)
             tt == EntriesFrom(nd, k + 1, of)
             len == Len(nd.entries) - k
  <2>1. len \in Nat /\ Len(nd.entries) - (k + 1) + 1 = len /\ Len(nd.entries) - k + 1 = len + 1
    BY <1>1, <1>4
  <2>2. x \in Bytes /\ tt \in Seq(Bytes)
    BY <1>1, <1>4, EntriesEncoded
  <2>3. Len(tt) = len /\ \A j \in 1..len : tt[j] = EncodeEntry(nd, (k + 1) + j - 1, of)
    <3> HIDE DEF len
    <3> QED BY <2>1 DEF EntriesFrom
  <2> DEFINE ss == EntriesFrom(nd, k, of)
  <2>4. Len(ss) = len + 1 /\ \A j \in 1..(len + 1) : ss[j] = EncodeEntry(nd, k + j - 1, of)
    <3> HIDE DEF len
    <3> QED BY <2>1 DEF EntriesFrom
  <2>5. ss \in Seq(Bytes)
    BY EntriesEncoded
  <2> HIDE DEF x, tt, ss, len
  <2>6. /\ <<x>> \o tt \in Seq(Bytes) /\ Len(<<x>> \o tt) = len + 1
        /\ (<<x>> \o tt)[1] = x
        /\ \A j \in 2..(len + 1) : (<<x>> \o tt)[j] = tt[j - 1]
    BY <2>1, <2>2, <2>3
  <2>7. ASSUME NEW j \in 1..(len + 1)
        PROVE  ss[j] = (<<x>> \o tt)[j]
    <3>1. CASE j = 1
      <4>1. k + j - 1 = k
        BY <3>1
      <4> QED BY <2>4, <2>6, <3>1, <4>1 DEF x
    <3>2. CASE j # 1
      <4>1. j \in 2..(len + 1) /\ j - 1 \in 1..len /\ (k + 1) + (j - 1) - 1 = k + j - 1
        BY <2>1, <3>2
      <4> QED BY <2>3, <2>4, <2>6, <4>1
    <3> QED BY <3>1, <3>2
  <2>8. ss = <<x>> \o tt
    BY <2>1, <2>4, <2>5, <2>6, <2>7, SeqEqual
  <2>9. FlattenSeq(ss) = x \o FlattenSeq(tt)
    BY <2>2, <2>8, FlattenCons
  <2>10. FlattenSeq(tt) \in Bytes
    BY <1>2, <2>2, FlattenAppend
  <2>11. (x \o FlattenSeq(tt)) \o <<ch_e>> = x \o (FlattenSeq(tt) \o <<ch_e>>)
    BY <1>2, <2>2, <2>10, BytesAssociative
  <2>12. /\ EncodeRest(nd, k, of) = FlattenSeq(ss) \o <<ch_e>>
         /\ EncodeRest(nd, k + 1, of) = FlattenSeq(tt) \o <<ch_e>>
    BY <1>1, EntriesEncoded DEF ss, tt
  <2> QED BY <2>9, <2>11, <2>12 DEF x
<1> QED BY <1>3, <1>4

LEMMA NodeEncoded ==
  ASSUME NEW S, NEW nd, NEW of, SpellsEntries(nd, of, S)
  PROVE  EncodeNode(nd, of) \in Bytes
<1>1. EncodeRest(nd, 1, of) \in Bytes
  BY EntriesEncoded
<1>2. <<ch_l>> \in Bytes /\ <<ch_d>> \in Bytes
  BY OneByte DEF Byte, ch_l, ch_d
<1>3. nd.type \in {"INT", "STRING", "LIST", "DICT"} /\ nd.i \in Int /\ nd.bytes \in Bytes
  BY DEF SpellsEntries, NodeType
<1> QED BY <1>1, <1>2, <1>3, EncodedBytes, BytesConcat DEF EncodeNode

\* The spelling of a node depends on those of its children only.
LEMMA NodeEncodedAlike ==
  ASSUME NEW nd \in NodeType, NEW of, NEW of2,
         \A k \in DOMAIN nd.entries : of[nd.entries[k].value] = of2[nd.entries[k].value]
  PROVE  EncodeNode(nd, of) = EncodeNode(nd, of2)
<1>1. Len(nd.entries) \in Nat /\ DOMAIN nd.entries = 1..Len(nd.entries)
  BY LenProperties DEF NodeType
<1>2. \A k \in 1..Len(nd.entries) : EncodeEntry(nd, k, of) = EncodeEntry(nd, k, of2)
  BY <1>1 DEF EncodeEntry
<1>3. EncodeRest(nd, 1, of) = EncodeRest(nd, 1, of2)
  <2>1. \A j \in 1..(Len(nd.entries) - 1 + 1) : 1 + j - 1 \in 1..Len(nd.entries)
    BY <1>1
  <2>2. [j \in 1..(Len(nd.entries) - 1 + 1) |-> EncodeEntry(nd, 1 + j - 1, of)] =
        [j \in 1..(Len(nd.entries) - 1 + 1) |-> EncodeEntry(nd, 1 + j - 1, of2)]
    BY <1>2, <2>1
  <2> QED BY <2>2 DEF EncodeRest
<1> QED BY <1>3 DEF EncodeNode

\* Of one tree, every node has a spelling, made of those of its children.
LEMMA TreeSpelt ==
  ASSUME NEW m, NEW v \in Nat, OneTree(m, v)
  PROVE  /\ Spellings(m) \in [DOMAIN m.node -> Bytes]
         /\ \A n \in DOMAIN m.node :
              /\ SpellsEntries(m.node[n], Spellings(m), DOMAIN m.node)
              /\ Spellings(m)[n] = EncodeNode(m.node[n], Spellings(m))
<1> DEFINE S == DOMAIN m.node
           X == Bytes
           F == [g \in [S -> X] |-> [n \in S |-> EncodeNode(m.node[n], g)]]
           g0 == [n \in S |-> <<>>]
<1>1. PICK rank \in [S -> Nat] :
        \A n \in S : \A k \in DOMAIN m.node[n].entries : rank[m.node[n].entries[k].value] < rank[n]
  BY TreeRanked
<1>2. \A n \in S : /\ m.node[n] \in NodeType
                   /\ \A k \in DOMAIN m.node[n].entries : m.node[n].entries[k].value \in S
  BY NodeFacts DEF OneTree, HeapInv, OneParent
<1>3. ASSUME NEW g \in [S -> X], NEW n \in S
      PROVE  SpellsEntries(m.node[n], g, S) /\ EncodeNode(m.node[n], g) \in X
  <2>1. SpellsEntries(m.node[n], g, S)
    BY <1>2 DEF SpellsEntries
  <2> QED BY <2>1, NodeEncoded
<1>4. F \in [[S -> X] -> [S -> X]]
  BY <1>3
<1>5. ASSUME NEW g \in [S -> X], NEW h \in [S -> X], NEW n \in S,
             \A t \in S : rank[t] < rank[n] => g[t] = h[t]
      PROVE  F[g][n] = F[h][n]
  <2>1. \A k \in DOMAIN m.node[n].entries :
          g[m.node[n].entries[k].value] = h[m.node[n].entries[k].value]
    BY <1>1, <1>2, <1>5
  <2>2. EncodeNode(m.node[n], g) = EncodeNode(m.node[n], h)
    BY <1>2, <2>1, NodeEncodedAlike
  <2>3. F[g] = [t \in S |-> EncodeNode(m.node[t], g)] /\ F[h] = [t \in S |-> EncodeNode(m.node[t], h)]
    OBVIOUS
  <2> HIDE DEF F
  <2> QED BY <2>2, <2>3
<1>6. \E g \in [S -> X] : g = F[g]
  <2>1. g0 \in [S -> X]
    BY DEF Bytes
  <2>2. DependsOnLess(F, S, X, rank)
    <3> HIDE DEF F, S, X
    <3> QED BY <1>4, <1>5, Zenon DEF DependsOnLess
  <2> HIDE DEF F, S, X, g0
  <2> QED BY <2>1, <2>2, RecursiveFunctionExists
<1>7. \E g : g = [n \in S |-> EncodeNode(m.node[n], g)] /\ g \in [S -> X]
  <2>1. PICK g \in [S -> X] : g = F[g]
    BY <1>6
  <2>2. F[g] = [n \in S |-> EncodeNode(m.node[n], g)]
    OBVIOUS
  <2> HIDE DEF F
  <2> QED BY <2>1, <2>2
<1> DEFINE f == CHOOSE g : g = [n \in S |-> EncodeNode(m.node[n], g)]
<1>8. Spellings(m) = f
  BY DEF Spellings
<1>9. f = [n \in S |-> EncodeNode(m.node[n], f)]
  BY <1>7
<1> HIDE DEF f
<1>10. /\ DOMAIN f = S /\ f = [n \in S |-> f[n]]
       /\ \A n \in S : f[n] = EncodeNode(m.node[n], f)
  BY <1>9
<1> DEFINE T == {d \in Nat : \A n \in S : rank[n] < d => f[n] \in X}
<1>11. 0 \in T
  OBVIOUS
<1>12. ASSUME NEW d \in Nat, d \in T PROVE d + 1 \in T
  <2> SUFFICES ASSUME NEW n \in S, rank[n] < d + 1
               PROVE  f[n] \in X
    OBVIOUS
  <2> DEFINE g == [t \in S |-> IF rank[t] < d THEN f[t] ELSE <<>>]
  <2>1. g \in [S -> X]
    BY <1>12 DEF Bytes
  <2>2. \A k \in DOMAIN m.node[n].entries :
          g[m.node[n].entries[k].value] = f[m.node[n].entries[k].value]
    BY <1>1, <1>2
  <2>3. EncodeNode(m.node[n], g) = EncodeNode(m.node[n], f)
    <3> HIDE DEF g
    <3> QED BY <1>2, <2>2, NodeEncodedAlike
  <2> HIDE DEF g
  <2> QED BY <1>3, <1>10, <2>1, <2>3
<1>13. Nat \subseteq T
  <2> HIDE DEF T
  <2> QED BY <1>11, <1>12, InductionOverSet
<1>14. ASSUME NEW n \in S PROVE f[n] \in X
  <2>1. rank[n] + 1 \in T /\ rank[n] < rank[n] + 1
    <3> HIDE DEF T
    <3> QED BY <1>13
  <2> QED BY <2>1
<1>15. f \in [S -> X]
  BY <1>10, <1>14
<1> QED BY <1>3, <1>8, <1>10, <1>15

\* What a heap spells depends on its nodes only.
LEMMA SpelledAlike ==
  ASSUME NEW m, NEW m2, m2.node = m.node
  PROVE  Spellings(m2) = Spellings(m)
BY DEF Spellings

\* Heaps that agree on nodes whose children are among them spell them alike.
LEMMA SpelledApart ==
  ASSUME NEW m, NEW v \in Nat, OneTree(m, v), NEW m2, NEW w \in Nat, OneTree(m2, w), NEW N,
         \A n \in N : n \in DOMAIN m.node /\ n \in DOMAIN m2.node /\ m2.node[n] = m.node[n],
         \A n \in N : \A k \in DOMAIN m.node[n].entries : m.node[n].entries[k].value \in N
  PROVE  \A n \in N : Spellings(m2)[n] = Spellings(m)[n]
<1>1. PICK rank \in [DOMAIN m.node -> Nat] :
        \A n \in DOMAIN m.node : \A k \in DOMAIN m.node[n].entries :
          rank[m.node[n].entries[k].value] < rank[n]
  BY TreeRanked
<1>2. \A n \in N : m.node[n] \in NodeType
  BY NodeFacts DEF OneTree, HeapInv
<1>3. \A n \in N : /\ Spellings(m)[n] = EncodeNode(m.node[n], Spellings(m))
                  /\ Spellings(m2)[n] = EncodeNode(m.node[n], Spellings(m2))
  BY TreeSpelt
<1> DEFINE T == {d \in Nat : \A n \in N : rank[n] < d => Spellings(m2)[n] = Spellings(m)[n]}
<1>4. 0 \in T
  OBVIOUS
<1>5. ASSUME NEW d \in Nat, d \in T PROVE d + 1 \in T
  <2> SUFFICES ASSUME NEW n \in N, rank[n] < d + 1
               PROVE  Spellings(m2)[n] = Spellings(m)[n]
    OBVIOUS
  <2>1. ASSUME NEW k \in DOMAIN m.node[n].entries
        PROVE  Spellings(m2)[m.node[n].entries[k].value] = Spellings(m)[m.node[n].entries[k].value]
    <3> DEFINE c == m.node[n].entries[k].value
    <3>1. c \in N /\ c \in DOMAIN m.node /\ n \in DOMAIN m.node /\ rank[c] < rank[n]
      BY <1>1
    <3>2. rank[c] < d
      BY <1>1, <3>1
    <3> QED BY <1>5, <3>1, <3>2
  <2>2. EncodeNode(m.node[n], Spellings(m2)) = EncodeNode(m.node[n], Spellings(m))
    BY <1>2, <2>1, NodeEncodedAlike
  <2> QED BY <1>3, <2>2
<1>6. Nat \subseteq T
  <2> HIDE DEF T
  <2> QED BY <1>4, <1>5, InductionOverSet
<1> SUFFICES ASSUME NEW n \in N PROVE Spellings(m2)[n] = Spellings(m)[n]
  OBVIOUS
<1>7. rank[n] + 1 \in T /\ rank[n] < rank[n] + 1
  <2> HIDE DEF T
  <2> QED BY <1>1, <1>6
<1> QED BY <1>7

\* A container's beginning and its first k entries.
Begun(nd, k, of) ==
  (IF nd.type = "DICT" THEN <<ch_d>> ELSE <<ch_l>>) \o
  FlattenSeq([j \in 1..k |-> EncodeEntry(nd, j, of)])

LEMMA BegunGrows ==
  ASSUME NEW S, NEW nd, NEW of, SpellsEntries(nd, of, S), nd.type \in {"LIST", "DICT"},
         NEW k \in Nat, k <= Len(nd.entries)
  PROVE  /\ Begun(nd, k, of) \in Bytes
         /\ k < Len(nd.entries) =>
              /\ EncodeEntry(nd, k + 1, of) \in Bytes
              /\ Begun(nd, k + 1, of) = Begun(nd, k, of) \o EncodeEntry(nd, k + 1, of)
         /\ EncodeNode(nd, of) = Begun(nd, Len(nd.entries), of) \o <<ch_e>>
<1> DEFINE begin == IF nd.type = "DICT" THEN <<ch_d>> ELSE <<ch_l>>
           ss(j)  == [i \in 1..j |-> EncodeEntry(nd, i, of)]
<1>1. Len(nd.entries) \in Nat /\ DOMAIN nd.entries = 1..Len(nd.entries)
  BY LenProperties DEF SpellsEntries, NodeType
<1>2. \A i \in 1..Len(nd.entries) : EncodeEntry(nd, i, of) \in Bytes
  BY <1>1, EntriesEncoded
<1>3. begin \in Bytes /\ <<ch_e>> \in Bytes
  BY OneByte DEF Byte, ch_l, ch_d, ch_e
<1>4. ASSUME NEW j \in Nat, j <= Len(nd.entries)
      PROVE  /\ ss(j) \in Seq(Bytes) /\ Len(ss(j)) = j
             /\ FlattenSeq(ss(j)) \in Bytes /\ Begun(nd, j, of) = begin \o FlattenSeq(ss(j))
  <2>1. ss(j) \in [1..j -> Bytes]
    BY <1>1, <1>2, <1>4
  <2>2. ss(j) \in Seq(Bytes) /\ Len(ss(j)) = j
    BY <2>1
  <2> QED BY <1>3, <2>2, FlattenAppend DEF Begun
<1>5. Begun(nd, k, of) \in Bytes
  <2>1. FlattenSeq(ss(k)) \in Bytes /\ Begun(nd, k, of) = begin \o FlattenSeq(ss(k))
    BY <1>4
  <2> HIDE DEF begin, ss
  <2> QED BY <1>3, <2>1, BytesConcat
<1>6. ASSUME k < Len(nd.entries)
      PROVE  /\ EncodeEntry(nd, k + 1, of) \in Bytes
             /\ Begun(nd, k + 1, of) = Begun(nd, k, of) \o EncodeEntry(nd, k + 1, of)
  <2> DEFINE x == EncodeEntry(nd, k + 1, of)
             a == ss(k)
             b == ss(k + 1)
  <2>1. k + 1 \in Nat /\ k + 1 <= Len(nd.entries) /\ k + 1 \in 1..Len(nd.entries)
    BY <1>1, <1>6
  <2>2. x \in Bytes
    BY <1>2, <2>1
  <2>3. /\ a \in Seq(Bytes) /\ Len(a) = k /\ FlattenSeq(a) \in Bytes
        /\ b \in Seq(Bytes) /\ Len(b) = k + 1
        /\ \A i \in 1..k : a[i] = EncodeEntry(nd, i, of)
        /\ \A i \in 1..(k + 1) : b[i] = EncodeEntry(nd, i, of)
    BY <1>4, <2>1
  <2>4. /\ Begun(nd, k, of) = begin \o FlattenSeq(a) /\ Begun(nd, k + 1, of) = begin \o FlattenSeq(b)
    BY <1>4, <2>1
  <2> HIDE DEF a, b, x, begin, ss
  <2>5. /\ Append(a, x) \in Seq(Bytes) /\ Len(Append(a, x)) = k + 1
        /\ Append(a, x)[k + 1] = x /\ \A i \in 1..k : Append(a, x)[i] = a[i]
    BY <2>2, <2>3
  <2>6. \A i \in 1..(k + 1) : b[i] = Append(a, x)[i]
    <3>1. \A i \in 1..(k + 1) : i \in 1..k \/ i = k + 1
      OBVIOUS
    <3> QED BY <2>3, <2>5, <3>1 DEF x
  <2>7. b = Append(a, x)
    BY <2>3, <2>5, <2>6, SeqEqual
  <2>8. FlattenSeq(b) = FlattenSeq(a) \o x
    BY <2>2, <2>3, <2>7, FlattenAppend
  <2>9. (begin \o FlattenSeq(a)) \o x = begin \o (FlattenSeq(a) \o x)
    BY <1>3, <2>2, <2>3, BytesAssociative
  <2>10. Begun(nd, k + 1, of) = Begun(nd, k, of) \o x
    BY <2>4, <2>8, <2>9
  <2> QED BY <2>2, <2>10 DEF x
<1>7. EncodeNode(nd, of) = Begun(nd, Len(nd.entries), of) \o <<ch_e>>
  <2> DEFINE len == Len(nd.entries)
             c == FlattenSeq(ss(len))
  <2>0. len \in Nat /\ len <= Len(nd.entries)
    BY <1>1
  <2>1. c \in Bytes /\ Begun(nd, len, of) = begin \o c
    BY <1>4, <2>0
  <2>2. EncodeRest(nd, 1, of) = c \o <<ch_e>>
    <3>1. len - 1 + 1 = len /\ \A j \in 1..len : 1 + j - 1 = j
      BY <1>1
    <3>2. [j \in 1..(len - 1 + 1) |-> EncodeEntry(nd, 1 + j - 1, of)] = ss(len)
      BY <3>1
    <3> QED BY <3>2 DEF EncodeRest
  <2>3. EncodeNode(nd, of) = begin \o EncodeRest(nd, 1, of)
    BY DEF EncodeNode
  <2> HIDE DEF c, begin
  <2>4. (begin \o c) \o <<ch_e>> = begin \o (c \o <<ch_e>>)
    BY <1>3, <2>1, BytesAssociative
  <2> QED BY <2>1, <2>2, <2>3, <2>4
<1> QED BY <1>5, <1>6, <1>7

\* The spelling of a node with k + 1 entries, the last of them apart.
LastApart(nd, k, of) ==
  /\ Begun(nd, k, of) \in Bytes /\ EncodeEntry(nd, k + 1, of) \in Bytes
  /\ EncodeNode(nd, of) = (Begun(nd, k, of) \o EncodeEntry(nd, k + 1, of)) \o <<ch_e>>

LEMMA LastEntryApart ==
  ASSUME NEW S, NEW nd, NEW of, SpellsEntries(nd, of, S), nd.type \in {"LIST", "DICT"},
         NEW k \in Nat, k + 1 = Len(nd.entries)
  PROVE  LastApart(nd, k, of)
<1>1. k <= Len(nd.entries) /\ k < Len(nd.entries)
  OBVIOUS
<1>2. /\ Begun(nd, k, of) \in Bytes
      /\ EncodeEntry(nd, k + 1, of) \in Bytes
      /\ Begun(nd, k + 1, of) = Begun(nd, k, of) \o EncodeEntry(nd, k + 1, of)
      /\ EncodeNode(nd, of) = Begun(nd, Len(nd.entries), of) \o <<ch_e>>
  BY <1>1, BegunGrows, Zenon
<1> QED BY <1>2, Zenon DEF LastApart

---------------------------------------------------------------------------
(* New nodes.                                                              *)

\* The contents of a node that owns nothing but itself.
Leaf(nd) ==
  /\ nd \in NodeType /\ nd.entries = <<>> /\ nd.owned = NULL /\ nd.array = NULL /\ nd.capacity = 0

\* m1 is m with one more node, in a block of its own.
NewNode(m, m1, x, nd) ==
  /\ x \in Block /\ x \notin DOMAIN m.node /\ \A b \in m.live : b[2] # x
  /\ m1 = Heap(m.live \cup {<<nd.alloc, x>>},
               [k \in DOMAIN m.node \cup {x} |-> IF k = x THEN nd ELSE m.node[k]], m.fault)

\* The blocks of a node are live.
LEMMA PartsAreLive ==
  ASSUME NEW m, NEW X, HeapType(m), HeldOnce(m, X), NEW n \in DOMAIN m.node
  PROVE  /\ BlocksOf(m, n) = {m.node[n].alloc} \X Parts(n, m.node[n])
         /\ n \in Parts(n, m.node[n])
         /\ \A b \in Parts(n, m.node[n]) : <<m.node[n].alloc, b>> \in m.live
         /\ m.node[n].alloc \in Allocator /\ Parts(n, m.node[n]) \subseteq Block
<1>1. BlocksOf(m, n) = {m.node[n].alloc} \X Parts(n, m.node[n])
  BY DEF BlocksOf, Parts
<1>2. n \in Parts(n, m.node[n])
  BY NodeFacts DEF Parts
<1>3. \A b \in Parts(n, m.node[n]) : <<m.node[n].alloc, b>> \in m.live
  <2>1. BlocksOf(m, n) \subseteq m.live
    BY DEF HeldOnce
  <2> QED BY <1>1, <2>1
<1>4. m.node[n].alloc \in Allocator
  BY NodeFacts DEF NodeType
<1>5. \A b \in Parts(n, m.node[n]) : b \in Block
  BY <1>3 DEF HeapType
<1> QED BY <1>1, <1>2, <1>3, <1>4, <1>5

\* value_alloc makes a new node, or nothing at all.
LEMMA ValueAlloc ==
  ASSUME NEW m, HeapInv(m, {}), NEW nd, NEW r \in value_alloc(m, nd)
  PROVE  \/ r.status = "NOMEM" /\ r.mem = m
         \/ r.status = "OK" /\ NewNode(m, r.mem, r.ptr, nd)
<1>1. HeapType(m) /\ HeldOnce(m, {})
  BY DEF HeapInv
<1> DEFINE b == FreeBlock(m)
           L == m.live \cup {<<nd.alloc, b>>}
           m1 == [m EXCEPT !.live = L]
           N == [k \in DOMAIN m.node \cup {b} |-> IF k = b THEN nd ELSE m.node[k]]
<1>2. b \in Block /\ \A k \in m.live : k[2] # b
  BY <1>1, FreeBlockIsFree DEF HeapType
<1>3. r = Result(m, "NOMEM", NULL) \/ r = Result(Store(m1, b, nd), "OK", b)
  <2>1. NULL # b
    BY <1>2 DEF Block
  <2>2. PICK a \in bencode_alloc(m, nd.alloc) :
          r = IF a.ptr = NULL THEN Result(m, "NOMEM", NULL) ELSE Result(Store(a.mem, a.ptr, nd), "OK", a.ptr)
    BY DEF value_alloc
  <2>3. a = [mem |-> m, ptr |-> NULL] \/ a = [mem |-> m1, ptr |-> b]
    BY DEF bencode_alloc
  <2>4. CASE a = [mem |-> m, ptr |-> NULL]
    BY <2>2, <2>4
  <2>5. CASE a = [mem |-> m1, ptr |-> b]
    <3> HIDE DEF b, m1
    <3>1. a.ptr = b /\ a.mem = m1
      BY <2>5
    <3> QED BY <2>1, <2>2, <3>1
  <2> QED BY <2>3, <2>4, <2>5
<1>4. Store(m1, b, nd) = Heap(L, N, m.fault)
  <2>1. m1 = Heap(L, m.node, m.fault)
    <3> HIDE DEF L
    <3> QED BY <1>1, WithLive DEF HeapType
  <2>2. m1.node = m.node
    <3> HIDE DEF m1, L
    <3> QED BY <2>1, HeapFields
  <2>3. Store(m1, b, nd) = [m1 EXCEPT !.node = N]
    BY <2>2 DEF Store
  <2> HIDE DEF m1, L, N
  <2> QED BY <2>1, <2>3, WithNode
<1>5. b \notin DOMAIN m.node
  <2> SUFFICES ASSUME b \in DOMAIN m.node PROVE FALSE
    OBVIOUS
  <2>1. <<m.node[b].alloc, b>> \in m.live
    BY <1>1, PartsAreLive
  <2> QED BY <1>2, <2>1
<1> HIDE DEF b, m1
<1>6. CASE r = Result(m, "NOMEM", NULL)
  BY <1>6 DEF Result
<1>7. CASE r = Result(Store(m1, b, nd), "OK", b)
  <2>1. r.status = "OK" /\ r.mem = Store(m1, b, nd) /\ r.ptr = b
    BY <1>7 DEF Result
  <2> QED BY <1>2, <1>4, <1>5, <2>1 DEF NewNode
<1> QED BY <1>3, <1>6, <1>7

\* What NewNode says of the new heap, field by field.
LEMMA NewNodeFields ==
  ASSUME NEW m, HeapType(m), NEW m1, NEW x, NEW nd \in NodeType, NewNode(m, m1, x, nd)
  PROVE  /\ x \in Nat /\ x # NULL
         /\ m1.live = m.live \cup {<<nd.alloc, x>>} /\ m1.fault = m.fault
         /\ DOMAIN m1.node = DOMAIN m.node \cup {x}
         /\ m1.node[x] = nd /\ \A n \in DOMAIN m.node : n # x /\ m1.node[n] = m.node[n]
         /\ HeapType(m1)
<1> DEFINE L == m.live \cup {<<nd.alloc, x>>}
           N == [k \in DOMAIN m.node \cup {x} |-> IF k = x THEN nd ELSE m.node[k]]
<1>1. x \in Nat /\ x # NULL
  BY DEF NewNode, Block
<1>2. m1 = Heap(L, N, m.fault)
  BY DEF NewNode
<1>3. m1.live = L /\ m1.node = N /\ m1.fault = m.fault
  <2> HIDE DEF L, N
  <2> QED BY <1>2, HeapFields
<1>4. DOMAIN N = DOMAIN m.node \cup {x} /\ N[x] = nd /\ \A n \in DOMAIN m.node : n # x /\ N[n] = m.node[n]
  BY DEF NewNode
<1>5. HeapType(m1)
  <2>1. L \subseteq Allocator \X Block
    BY DEF NewNode, HeapType, NodeType
  <2>2. IsFiniteSet(L)
    BY FS_AddElement DEF HeapType
  <2>3. DOMAIN N \subseteq Block
    BY <1>4 DEF NewNode, HeapType
  <2>4. N \in [DOMAIN N -> NodeType]
    <3>1. \A n \in DOMAIN N : N[n] \in NodeType
      BY <1>4 DEF HeapType
    <3> QED BY <3>1
  <2>5. m1 = Heap(m1.live, m1.node, m1.fault) /\ m1.fault = FALSE
    BY <1>2, <1>3 DEF HeapType
  <2> HIDE DEF L, N
  <2> QED BY <1>3, <2>1, <2>2, <2>3, <2>4, <2>5 DEF HeapType
<1> QED BY <1>1, <1>3, <1>4, <1>5

\* The invariant of the heap survives a new node.
LEMMA NewNodeInv ==
  ASSUME NEW m, HeapInv(m, {}), NEW m1, NEW x, NEW nd, Leaf(nd), NewNode(m, m1, x, nd)
  PROVE  HeapInv(m1, {})
<1>1. HeapType(m) /\ HeldOnce(m, {}) /\ OneParent(m) /\ Ordered(m)
  BY DEF HeapInv
<1>2. nd \in NodeType /\ nd.entries = <<>> /\ nd.owned = NULL /\ nd.array = NULL /\ nd.capacity = 0
  BY DEF Leaf
<1>3. /\ x \in Nat /\ x # NULL
      /\ m1.live = m.live \cup {<<nd.alloc, x>>} /\ m1.fault = m.fault
      /\ DOMAIN m1.node = DOMAIN m.node \cup {x}
      /\ m1.node[x] = nd /\ \A n \in DOMAIN m.node : n # x /\ m1.node[n] = m.node[n]
      /\ HeapType(m1)
  BY <1>1, <1>2, NewNodeFields
<1>4. Parts(x, nd) = {x}
  BY <1>2, <1>3 DEF Parts
<1>5. BlocksOf(m1, x) = {<<nd.alloc, x>>}
  <2>1. BlocksOf(m1, x) = {nd.alloc} \X Parts(x, nd)
    BY <1>3 DEF BlocksOf, Parts
  <2> QED BY <1>4, <2>1
<1>6. ASSUME NEW n \in DOMAIN m.node
      PROVE  BlocksOf(m1, n) = BlocksOf(m, n) /\ x \notin Parts(n, m.node[n])
  <2>1. BlocksOf(m1, n) = BlocksOf(m, n)
    <3>1. n \in DOMAIN m.node /\ n \in DOMAIN m1.node /\ m1.node[n] = m.node[n]
      BY <1>3
    <3> QED BY ONLY <3>1 DEF BlocksOf
  <2>2. \A b \in Parts(n, m.node[n]) : <<m.node[n].alloc, b>> \in m.live
    BY <1>1, PartsAreLive
  <2>3. \A b \in m.live : b[2] # x
    BY DEF NewNode
  <2> QED BY <2>1, <2>2, <2>3
<1>7. HeldOnce(m1, {})
  <2>1. m1.live = {} \cup UNION { BlocksOf(m1, n) : n \in DOMAIN m1.node }
    <3>1. m.live = UNION { BlocksOf(m, n) : n \in DOMAIN m.node }
      BY <1>1 DEF HeldOnce
    <3> QED BY <1>3, <1>5, <1>6, <3>1
  <2>2. \A n1, n2 \in DOMAIN m1.node :
          n1 # n2 => Parts(n1, m1.node[n1]) \cap Parts(n2, m1.node[n2]) = {}
    <3>1. \A n1, n2 \in DOMAIN m.node :
            n1 # n2 => Parts(n1, m.node[n1]) \cap Parts(n2, m.node[n2]) = {}
      BY <1>1 DEF HeldOnce
    <3> QED BY <1>3, <1>4, <1>6, <3>1
  <2>3. \A n \in DOMAIN m1.node : m1.node[n].array # NULL =>
          /\ m1.node[n].array # n /\ m1.node[n].array # m1.node[n].owned
          /\ \A k \in DOMAIN m1.node[n].entries : m1.node[n].entries[k].key_copy # m1.node[n].array
    BY <1>1, <1>2, <1>3 DEF HeldOnce
  <2> QED BY <2>1, <2>2, <2>3 DEF HeldOnce
<1>8. OneParent(m1)
  BY <1>1, <1>2, <1>3 DEF OneParent
<1>9. Ordered(m1)
  <2>1. Len(nd.entries) = 0 /\ Sorted(nd.entries)
    BY <1>2 DEF Sorted
  <2> QED BY <1>1, <1>2, <1>3, <2>1 DEF Ordered
<1> QED BY <1>3, <1>7, <1>8, <1>9 DEF HeapInv

\* bencode_value_free, on a heap on which nothing went wrong.
LEMMA ValueFree ==
  ASSUME NEW m, HeapType(m), NEW v, NEW L, Release(m, Blocks(m, v)) = Heap(L, m.node, m.fault),
         ~Shared(m, Tree(m, v) \cap DOMAIN m.node)
  PROVE  bencode_value_free(m, v) = Heap(L, [n \in DOMAIN m.node \ Tree(m, v) |-> m.node[n]], m.fault)
<1> DEFINE freed == Release(m, Blocks(m, v))
           N == [n \in DOMAIN m.node \ Tree(m, v) |-> m.node[n]]
           r == [freed EXCEPT !.node = N]
           f == freed.fault \/ Shared(m, Tree(m, v) \cap DOMAIN m.node)
<1>0. freed = Heap(L, m.node, m.fault)
  OBVIOUS
<1>1. freed.node = m.node /\ freed.fault = m.fault
  <2> HIDE DEF freed
  <2> QED BY <1>0, HeapFields
<1>2. bencode_value_free(m, v) = [r EXCEPT !.fault = f]
  <2>1. bencode_value_free(m, v) =
          [freed EXCEPT !.node = [n \in DOMAIN freed.node \ Tree(m, v) |-> freed.node[n]], !.fault = f]
    BY DEF bencode_value_free
  <2>2. [n \in DOMAIN freed.node \ Tree(m, v) |-> freed.node[n]] = N
    <3> HIDE DEF freed
    <3> QED BY <1>1
  <2>3. bencode_value_free(m, v) = [freed EXCEPT !.node = N, !.fault = f]
    <3> HIDE DEF freed, N, f
    <3> QED BY <2>1, <2>2
  <2> QED BY <2>3
<1>3. f = m.fault
  <2>1. m.fault = FALSE
    BY DEF HeapType
  <2> HIDE DEF freed
  <2> QED BY <1>1, <2>1
<1>4. r = Heap(L, N, m.fault)
  <2> HIDE DEF freed, N
  <2> QED BY <1>0, WithNode
<1>5. [r EXCEPT !.fault = m.fault] = Heap(L, N, m.fault)
  <2> HIDE DEF r, N
  <2> QED BY <1>4, WithFault
<1> HIDE DEF r, N, f
<1> QED BY <1>2, <1>3, <1>5 DEF N

\* Freed before anything refers to it, a new node leaves no trace.
LEMMA FreeNewNode ==
  ASSUME NEW m, HeapInv(m, {}), NEW m1, NEW x, NEW nd, Leaf(nd), NewNode(m, m1, x, nd)
  PROVE  bencode_value_free(m1, x) = m
<1>1. HeapType(m) /\ HeldOnce(m, {}) /\ HeapType(m1) /\ HeldOnce(m1, {})
  BY NewNodeInv DEF HeapInv
<1>2. nd \in NodeType /\ nd.entries = <<>> /\ nd.owned = NULL /\ nd.array = NULL
  BY DEF Leaf
<1>3. /\ x \in Nat /\ x # NULL
      /\ m1.live = m.live \cup {<<nd.alloc, x>>} /\ m1.fault = m.fault
      /\ DOMAIN m1.node = DOMAIN m.node \cup {x}
      /\ m1.node[x] = nd /\ \A n \in DOMAIN m.node : n # x /\ m1.node[n] = m.node[n]
  BY <1>1, <1>2, NewNodeFields
<1>4. Tree(m1, x) = {x}
  BY <1>1, <1>2, <1>3, TreeOfLeaf
<1>5. BlocksOf(m1, x) = {<<nd.alloc, x>>}
  <2>1. BlocksOf(m1, x) = {nd.alloc} \X Parts(x, nd) /\ Parts(x, nd) = {x}
    BY <1>2, <1>3 DEF BlocksOf, Parts
  <2> QED BY <2>1
<1>6. Blocks(m1, x) = {<<nd.alloc, x>>}
  BY <1>4, <1>5 DEF Blocks
<1>7. Shared(m1, Tree(m1, x) \cap DOMAIN m1.node) = FALSE
  BY <1>2, <1>3, <1>4 DEF Shared
<1> DEFINE L == m1.live \ {<<nd.alloc, x>>}
           N == [n \in DOMAIN m1.node \ {x} |-> m1.node[n]]
<1>8. Release(m1, Blocks(m1, x)) = Heap(m1.live \ Blocks(m1, x), m1.node, m1.fault)
  <2>1. Blocks(m1, x) \subseteq m1.live
    BY <1>3, <1>6
  <2> QED BY <1>1, <2>1, ReleaseFromHeap
<1>9. bencode_value_free(m1, x) = Heap(L, N, m.fault)
  <2>1. bencode_value_free(m1, x) =
          Heap(m1.live \ Blocks(m1, x), [n \in DOMAIN m1.node \ Tree(m1, x) |-> m1.node[n]], m1.fault)
    BY <1>1, <1>7, <1>8, ValueFree
  <2> QED BY <1>3, <1>4, <1>6, <2>1
<1>10. L = m.live
  BY <1>3 DEF NewNode
<1>11. N = m.node
  <2>1. DOMAIN N = DOMAIN m.node /\ \A n \in DOMAIN m.node : N[n] = m.node[n]
    BY <1>3
  <2>2. m.node = [n \in DOMAIN m.node |-> m.node[n]]
    BY <1>1 DEF HeapType
  <2> QED BY <2>1, <2>2
<1>12. m = Heap(m.live, m.node, m.fault)
  BY <1>1 DEF HeapType
<1> HIDE DEF L, N
<1> QED BY <1>9, <1>10, <1>11, <1>12

\* When a tree is all there is on the heap, freeing it leaves nothing, and
\* frees nothing twice.
THEOREM FreeTree ==
  ASSUME NEW m, HeapInv(m, {}), NEW v, DOMAIN m.node = Tree(m, v)
  PROVE  LET f == bencode_value_free(m, v)
         IN  f.live = {} /\ f.node \in [{} -> NodeType] /\ f.fault = FALSE /\ f = Heap(f.live, f.node, f.fault)
<1>1. HeapType(m) /\ HeldOnce(m, {}) /\ OneParent(m)
  BY DEF HeapInv
<1>2. Blocks(m, v) = m.live
  BY <1>1 DEF Blocks, HeldOnce
<1>3. Shared(m, Tree(m, v) \cap DOMAIN m.node) = FALSE
  BY <1>1 DEF Shared, OneParent
<1> DEFINE L == m.live \ Blocks(m, v)
           N == [n \in DOMAIN m.node \ Tree(m, v) |-> m.node[n]]
<1>4. m = Heap(m.live, m.node, m.fault) /\ m.fault = FALSE /\ Blocks(m, v) \subseteq m.live
  BY <1>1, <1>2 DEF HeapType
<1>5. Release(m, Blocks(m, v)) = Heap(L, m.node, m.fault)
  BY <1>1, <1>4, ReleaseFromHeap
<1>6. bencode_value_free(m, v) = Heap(L, N, m.fault)
  <2> HIDE DEF L
  <2> QED BY <1>1, <1>3, <1>5, ValueFree
<1>7. L = {} /\ N \in [{} -> NodeType]
  BY <1>2
<1> HIDE DEF L, N
<1> DEFINE f == bencode_value_free(m, v)
<1>8. f.live = L /\ f.node = N /\ f.fault = m.fault
  <2>1. f = Heap(L, N, m.fault)
    BY <1>6 DEF f
  <2> HIDE DEF f
  <2> QED BY <2>1, HeapFields
<1> QED BY <1>4, <1>6, <1>7, <1>8

---------------------------------------------------------------------------
(* Nodes that change.                                                      *)

\* m2 is m with the contents of n replaced by nd, and live the live blocks.
Replaced(m, m2, n, nd, live) ==
  m2 = Heap(live, [k \in DOMAIN m.node |-> IF k = n THEN nd ELSE m.node[k]], m.fault)

LEMMA ReplacedFields ==
  ASSUME NEW m, HeapType(m), NEW n \in DOMAIN m.node, NEW nd \in NodeType, NEW m2,
         NEW live, live \subseteq Allocator \X Block, IsFiniteSet(live),
         Replaced(m, m2, n, nd, live)
  PROVE  /\ m2.live = live /\ m2.fault = m.fault /\ DOMAIN m2.node = DOMAIN m.node
         /\ m2.node[n] = nd /\ \A k \in DOMAIN m.node \ {n} : m2.node[k] = m.node[k]
         /\ HeapType(m2)
<1> DEFINE N == [k \in DOMAIN m.node |-> IF k = n THEN nd ELSE m.node[k]]
<1>1. m2 = Heap(live, N, m.fault)
  BY DEF Replaced
<1>2. m2.live = live /\ m2.node = N /\ m2.fault = m.fault
  <2> HIDE DEF N
  <2> QED BY <1>1, HeapFields
<1>3. DOMAIN N = DOMAIN m.node /\ N[n] = nd /\ \A k \in DOMAIN m.node \ {n} : N[k] = m.node[k]
  OBVIOUS
<1>4. N \in [DOMAIN N -> NodeType]
  <2>1. \A k \in DOMAIN N : N[k] \in NodeType
    BY DEF HeapType
  <2> QED BY <2>1
<1> HIDE DEF N
<1>5. HeapType(m2)
  BY <1>1, <1>2, <1>3, <1>4 DEF HeapType
<1> QED BY <1>2, <1>3, <1>5

\* The blocks are accounted for when those of the new contents are.
LEMMA ReplacedAccounted ==
  ASSUME NEW m, HeapType(m), NEW X, HeldOnce(m, X), NEW n \in DOMAIN m.node, NEW nd \in NodeType,
         NEW m2, HeapType(m2), DOMAIN m2.node = DOMAIN m.node, m2.node[n] = nd,
         \A k \in DOMAIN m.node \ {n} : m2.node[k] = m.node[k],
         NEW X2,
         \A b : b \in m2.live <=> \/ b \in X2
                                  \/ b \in {nd.alloc} \X Parts(n, nd)
                                  \/ \E k \in DOMAIN m.node \ {n} : b \in BlocksOf(m, k),
         \A k \in DOMAIN m.node \ {n} : Parts(n, nd) \cap Parts(k, m.node[k]) = {},
         \A k \in DOMAIN m.node \ {n} : \A x \in X2 : x[2] \notin Parts(k, m.node[k]),
         \A x \in X2 : x[2] \notin Parts(n, nd),
         nd.array # NULL => /\ nd.array # n /\ nd.array # nd.owned
                            /\ \A k \in DOMAIN nd.entries : nd.entries[k].key_copy # nd.array
  PROVE  HeldOnce(m2, X2)
<1>1. ASSUME NEW k \in DOMAIN m.node \ {n} PROVE BlocksOf(m2, k) = BlocksOf(m, k)
  <2>1. k \in DOMAIN m.node /\ k \in DOMAIN m2.node /\ m2.node[k] = m.node[k]
    OBVIOUS
  <2> QED BY ONLY <2>1 DEF BlocksOf
<1>2. BlocksOf(m2, n) = {nd.alloc} \X Parts(n, nd)
  BY DEF BlocksOf, Parts
<1>3. m2.live = X2 \cup UNION { BlocksOf(m2, k) : k \in DOMAIN m2.node }
  <2>1. ASSUME NEW b
        PROVE  b \in m2.live <=> b \in X2 \/ \E k \in DOMAIN m2.node : b \in BlocksOf(m2, k)
    BY <1>1, <1>2
  <2> QED BY <2>1
<1>4. \A n1, n2 \in DOMAIN m2.node :
        n1 # n2 => Parts(n1, m2.node[n1]) \cap Parts(n2, m2.node[n2]) = {}
  <2>1. \A n1, n2 \in DOMAIN m.node :
          n1 # n2 => Parts(n1, m.node[n1]) \cap Parts(n2, m.node[n2]) = {}
    BY DEF HeldOnce
  <2>2. ASSUME NEW n1 \in DOMAIN m2.node, NEW n2 \in DOMAIN m2.node, n1 # n2
        PROVE  Parts(n1, m2.node[n1]) \cap Parts(n2, m2.node[n2]) = {}
    <3>1. CASE n1 = n
      BY <2>2, <3>1
    <3>2. CASE n2 = n
      BY <2>2, <3>2
    <3>3. CASE n1 # n /\ n2 # n
      BY <2>1, <2>2, <3>3
    <3> QED BY <3>1, <3>2, <3>3
  <2> QED BY <2>2
<1>5. \A k \in DOMAIN m2.node : \A x \in X2 : x[2] \notin Parts(k, m2.node[k])
  OBVIOUS
<1>6. \A k \in DOMAIN m2.node : m2.node[k].array # NULL =>
        /\ m2.node[k].array # k /\ m2.node[k].array # m2.node[k].owned
        /\ \A j \in DOMAIN m2.node[k].entries : m2.node[k].entries[j].key_copy # m2.node[k].array
  BY DEF HeldOnce
<1> QED BY <1>3, <1>4, <1>5, <1>6 DEF HeldOnce

\* Contents that differ in the array and its capacity only.
SameEntries(old, nd) ==
  /\ nd.alloc = old.alloc /\ nd.type = old.type /\ nd.i = old.i /\ nd.bytes = old.bytes
  /\ nd.owned = old.owned /\ nd.entries = old.entries

\* A heap whose nodes hold the same entries gives every node one parent, too.
LEMMA SameEntriesOneParent ==
  ASSUME NEW m, OneParent(m), NEW m2, DOMAIN m2.node = DOMAIN m.node,
         \A n \in DOMAIN m.node : m2.node[n].entries = m.node[n].entries
  PROVE  OneParent(m2)
<1>1. ASSUME NEW n \in DOMAIN m2.node, NEW k \in DOMAIN m2.node[n].entries
      PROVE  m2.node[n].entries[k].value \in DOMAIN m2.node
  BY DEF OneParent
<1>2. ASSUME NEW n1 \in DOMAIN m2.node, NEW n2 \in DOMAIN m2.node,
             NEW k1 \in DOMAIN m2.node[n1].entries, NEW k2 \in DOMAIN m2.node[n2].entries,
             m2.node[n1].entries[k1].value = m2.node[n2].entries[k2].value
      PROVE  n1 = n2 /\ k1 = k2
  BY <1>2 DEF OneParent
<1> QED BY ONLY <1>1, <1>2 DEF OneParent

\* What growing n's array, in the fresh block b, does.
LEMMA GrownHeap ==
  ASSUME NEW m, NEW X, HeapInv(m, X), NEW n \in DOMAIN m.node,
         NEW b \in Block, \A k \in m.live : k[2] # b,
         NEW nd \in NodeType, SameEntries(m.node[n], nd), nd.array = b,
         Len(nd.entries) <= nd.capacity,
         NEW live,
         \A k : k \in live <=> \/ k = <<m.node[n].alloc, b>>
                               \/ k \in m.live /\ k # <<m.node[n].alloc, m.node[n].array>>,
         NEW m2, Replaced(m, m2, n, nd, live)
  PROVE  /\ HeapInv(m2, X) /\ DOMAIN m2.node = DOMAIN m.node
         /\ m2.node[n] = nd /\ \A k \in DOMAIN m.node \ {n} : m2.node[k] = m.node[k]
<1> DEFINE old == m.node[n]
<1>1. HeapType(m) /\ HeldOnce(m, X) /\ OneParent(m) /\ Ordered(m)
  BY DEF HeapInv
<1>2. old \in NodeType
  BY <1>1, NodeFacts
<1>3. /\ nd \in NodeType /\ nd.alloc = old.alloc /\ nd.type = old.type /\ nd.entries = old.entries
      /\ nd.owned = old.owned /\ nd.array = b
  BY DEF SameEntries
<1>4. live \subseteq Allocator \X Block /\ IsFiniteSet(live)
  <2>1. old.alloc \in Allocator
    BY <1>2 DEF NodeType
  <2>2. IsFiniteSet(m.live \cup {<<old.alloc, b>>})
    BY <1>1, FS_AddElement DEF HeapType
  <2>3. live \in SUBSET (m.live \cup {<<old.alloc, b>>})
    OBVIOUS
  <2>4. IsFiniteSet(live)
    BY <2>2, <2>3, FS_Subset
  <2> QED BY <1>1, <2>1, <2>3, <2>4 DEF HeapType
<1>5. /\ m2.live = live /\ m2.fault = m.fault /\ DOMAIN m2.node = DOMAIN m.node
      /\ m2.node[n] = nd /\ \A k \in DOMAIN m.node \ {n} : m2.node[k] = m.node[k]
      /\ HeapType(m2)
  BY <1>1, <1>4, ReplacedFields
<1>6. Parts(n, old) \ {old.array} \subseteq Parts(n, nd) /\ Parts(n, nd) = (Parts(n, old) \ {old.array}) \cup {b}
  <2>1. old.array # NULL => old.array # n /\ old.array # old.owned /\ \A k \in DOMAIN old.entries : old.entries[k].key_copy # old.array
    BY <1>1 DEF HeldOnce
  <2>2. b # NULL
    BY DEF Block
  <2> HIDE DEF old
  <2> QED BY <1>3, <2>1, <2>2 DEF Parts
<1>7. ASSUME NEW k \in DOMAIN m.node
      PROVE  /\ b \notin Parts(k, m.node[k])
             /\ k # n => Parts(n, old) \cap Parts(k, m.node[k]) = {}
             /\ \A x \in X : x[2] \notin Parts(k, m.node[k])
             /\ BlocksOf(m, k) = {m.node[k].alloc} \X Parts(k, m.node[k])
  <2>1. /\ BlocksOf(m, k) = {m.node[k].alloc} \X Parts(k, m.node[k])
        /\ \A c \in Parts(k, m.node[k]) : <<m.node[k].alloc, c>> \in m.live
    BY <1>1, PartsAreLive
  <2>2. b \notin Parts(k, m.node[k])
    BY <2>1
  <2> QED BY <1>1, <2>1, <2>2 DEF HeldOnce
<1>8. X \subseteq m.live
  BY <1>1 DEF HeldOnce
<1>9. \A k : k \in m2.live <=> \/ k \in X
                               \/ k \in {nd.alloc} \X Parts(n, nd)
                               \/ \E j \in DOMAIN m.node \ {n} : k \in BlocksOf(m, j)
  <2>1. \A k : k \in m.live <=> \/ k \in X
                                \/ k \in {old.alloc} \X Parts(n, old)
                                \/ \E j \in DOMAIN m.node \ {n} : k \in BlocksOf(m, j)
    <3>1. m.live = X \cup UNION { BlocksOf(m, j) : j \in DOMAIN m.node }
      BY <1>1 DEF HeldOnce
    <3> QED BY <1>7, <3>1
  <2>2. \A k \in X : k # <<old.alloc, old.array>>
    <3>1. old.array # NULL => old.array \in Parts(n, old)
      BY DEF Parts
    <3>2. \A k \in X : k[2] # NULL
      BY <1>1, <1>8 DEF HeapType, Block
    <3> QED BY <1>7, <3>1, <3>2
  <2>3. \A j \in DOMAIN m.node \ {n} : \A k \in BlocksOf(m, j) : k # <<old.alloc, old.array>>
    <3>1. old.array # NULL => old.array \in Parts(n, old)
      BY DEF Parts
    <3>2. \A j \in DOMAIN m.node : NULL \notin Parts(j, m.node[j])
      BY DEF Parts
    <3> QED BY <1>7, <3>1, <3>2
  <2> HIDE DEF old
  <2>4. \A k : k \in {nd.alloc} \X Parts(n, nd) <=>
               \/ k = <<old.alloc, b>>
               \/ k \in {old.alloc} \X Parts(n, old) /\ k # <<old.alloc, old.array>>
    BY <1>3, <1>6
  <2> QED BY <1>5, <2>1, <2>2, <2>3, <2>4 DEF old
<1>10. HeldOnce(m2, X)
  <2>1. \A k \in DOMAIN m.node \ {n} : Parts(n, nd) \cap Parts(k, m.node[k]) = {}
    BY <1>6, <1>7
  <2>2. \A x \in X : x[2] \notin Parts(n, nd)
    BY <1>6, <1>7, <1>8
  <2>3. nd.array # NULL => /\ nd.array # n /\ nd.array # nd.owned
                           /\ \A k \in DOMAIN nd.entries : nd.entries[k].key_copy # nd.array
    <3>1. b \notin Parts(n, old) /\ b # NULL
      BY <1>7 DEF Block
    <3>2. b # n /\ b # old.owned /\ \A k \in DOMAIN old.entries : old.entries[k].key_copy # b
      BY <1>1, <3>1, NodeFacts DEF Parts
    <3> QED BY <1>3, <3>2
  <2> HIDE DEF old
  <2>4. HeapType(m) /\ HeldOnce(m, X) /\ nd \in NodeType
    BY <1>1, <1>3
  <2>5. HeapType(m2) /\ DOMAIN m2.node = DOMAIN m.node /\ m2.node[n] = nd
        /\ \A k \in DOMAIN m.node \ {n} : m2.node[k] = m.node[k]
    BY <1>5
  <2>6. \A k \in DOMAIN m.node \ {n} : \A x \in X : x[2] \notin Parts(k, m.node[k])
    BY <1>7
  <2> QED BY <1>9, <2>1, <2>2, <2>3, <2>4, <2>5, <2>6, ReplacedAccounted
<1>11. OneParent(m2)
  <2>1. \A k \in DOMAIN m.node : m2.node[k].entries = m.node[k].entries
    BY <1>3, <1>5
  <2>2. DOMAIN m2.node = DOMAIN m.node
    BY <1>5
  <2>3. OneParent(m)
    BY <1>1
  <2> QED BY ONLY <2>1, <2>2, <2>3, SameEntriesOneParent
<1>12. Ordered(m2)
  BY <1>1, <1>3, <1>5 DEF Ordered
<1> QED BY <1>5, <1>10, <1>11, <1>12 DEF HeapInv

\* Storing the contents of a node that is there.
LEMMA StoreReplaces ==
  ASSUME NEW h, HeapType(h), NEW n \in DOMAIN h.node, NEW nd
  PROVE  Store(h, n, nd) = Heap(h.live, [k \in DOMAIN h.node |-> IF k = n THEN nd ELSE h.node[k]], h.fault)
<1> DEFINE N == [k \in DOMAIN h.node |-> IF k = n THEN nd ELSE h.node[k]]
<1>1. h = Heap(h.live, h.node, h.fault)
  BY DEF HeapType
<1>2. DOMAIN h.node \cup {n} = DOMAIN h.node
  OBVIOUS
<1>3. Store(h, n, nd) = [h EXCEPT !.node = N]
  BY <1>2 DEF Store
<1> HIDE DEF N
<1> QED BY <1>1, <1>3, WithNode DEF N

\* grow_array makes room for one more entry of n, or leaves the heap alone.
LEMMA GrowArray ==
  ASSUME NEW m, NEW X, HeapInv(m, X), NEW n \in DOMAIN m.node, NEW r \in grow_array(m, n)
  PROVE  /\ r = Result(r.mem, r.status, n)
         /\ \/ r.status = "NOMEM" /\ r.mem = m
            \/ /\ r.status = "OK" /\ HeapInv(r.mem, X) /\ DOMAIN r.mem.node = DOMAIN m.node
               /\ \A k \in DOMAIN m.node \ {n} : r.mem.node[k] = m.node[k]
               /\ SameEntries(m.node[n], r.mem.node[n])
               /\ HasRoom(r.mem.node[n])
<1> DEFINE nd == m.node[n]
           cap == IF nd.capacity = 0 THEN INITIAL_CAPACITY ELSE 2 * nd.capacity
           b == FreeBlock(m)
           grown == [nd EXCEPT !.array = b, !.capacity = cap]
           m1 == [m EXCEPT !.live = @ \cup {<<nd.alloc, b>>}]
           freed == bencode_free(m1, nd.alloc, nd.array)
<1>1. HeapType(m) /\ HeldOnce(m, X) /\ OneParent(m) /\ Ordered(m)
  BY DEF HeapInv
<1>2. nd \in NodeType /\ nd.alloc \in Allocator /\ nd.capacity \in Nat /\ nd.array \in Nat /\ Len(nd.entries) \in Nat
      /\ Len(nd.entries) <= nd.capacity
  BY <1>1, NodeFacts DEF NodeType, Ordered
<1>3. b \in Block /\ \A k \in m.live : k[2] # b
  BY <1>1, FreeBlockIsFree DEF HeapType
<1> HIDE DEF b
<1>4. \/ HasRoom(nd) /\ r = Result(m, "OK", n)
      \/ r = Result(m, "NOMEM", n)
      \/ ~HasRoom(nd) /\ r = Result(Store(freed, n, grown), "OK", n)
  <2>1. CASE HasRoom(nd)
    BY <2>1 DEF grow_array
  <2>2. CASE ~HasRoom(nd) /\ cap > MAX_CAPACITY
    BY <2>2 DEF grow_array
  <2>3. CASE ~HasRoom(nd) /\ ~(cap > MAX_CAPACITY)
    <3>1. PICK a \in bencode_alloc(m, nd.alloc) :
            r = IF a.ptr = NULL THEN Result(m, "NOMEM", n)
                ELSE Result(Store(bencode_free(a.mem, nd.alloc, nd.array), n,
                                  [nd EXCEPT !.array = a.ptr, !.capacity = cap]), "OK", n)
      BY <2>3 DEF grow_array
    <3>2. a = [mem |-> m, ptr |-> NULL] \/ a = [mem |-> m1, ptr |-> b]
      BY DEF bencode_alloc, b
    <3>3. CASE a = [mem |-> m, ptr |-> NULL]
      BY <3>1, <3>3
    <3>4. CASE a = [mem |-> m1, ptr |-> b]
      <4> HIDE DEF m1, nd, cap
      <4>1. a.ptr = b /\ a.mem = m1 /\ b # NULL
        BY <1>3, <3>4 DEF Block
      <4> QED BY <2>3, <3>1, <4>1
    <3> QED BY <3>2, <3>3, <3>4
  <2> QED BY <2>1, <2>2, <2>3
<1>8. r = Result(r.mem, r.status, n)
  <2> DEFINE h == Store(freed, n, grown)
  <2> HIDE DEF h
  <2>1. \E x, st : r = Result(x, st, n)
    BY <1>4 DEF h
  <2> QED BY <2>1 DEF Result
<1>5. CASE r = Result(m, "NOMEM", n)
  BY <1>5, <1>8 DEF Result
<1>6. CASE HasRoom(nd) /\ r = Result(m, "OK", n)
  <2>1. r.mem = m /\ r.status = "OK"
    BY <1>6 DEF Result
  <2> HIDE DEF grown, freed, m1, cap
  <2> QED BY <1>6, <1>8, <2>1 DEF SameEntries
<1>7. CASE ~HasRoom(nd) /\ r = Result(Store(freed, n, grown), "OK", n)
  <2>1. m1.live = m.live \cup {<<nd.alloc, b>>} /\ m1.node = m.node /\ m1.fault = m.fault /\ HeapType(m1)
    BY <1>1, <1>2, <1>3, AllocHeap
  <2> HIDE DEF m1
  <2>2. /\ freed.node = m.node /\ freed.fault = m.fault /\ HeapType(freed)
        /\ \A k : k \in freed.live <=> \/ k = <<nd.alloc, b>>
                                       \/ k \in m.live /\ k # <<nd.alloc, nd.array>>
    <3>1. CASE nd.array = NULL
      <4>1. freed = m1
        BY <3>1 DEF bencode_free
      <4>2. <<nd.alloc, nd.array>> \notin m.live
        BY <1>1, <3>1 DEF HeapType, Block
      <4> QED BY <2>1, <4>1, <4>2
    <3>2. CASE nd.array # NULL
      <4> DEFINE blocks == {<<nd.alloc, nd.array>>}
      <4>1. nd.array \in Parts(n, nd)
        BY <3>2 DEF Parts
      <4>2. <<nd.alloc, nd.array>> \in m.live
        BY <1>1, <4>1, PartsAreLive
      <4>3. blocks \subseteq m1.live /\ nd.array # b
        BY <1>3, <2>1, <4>2
      <4>4. freed = Release(m1, blocks)
        BY <3>2 DEF bencode_free
      <4>5. freed = Heap(m1.live \ blocks, m1.node, m1.fault)
        <5> HIDE DEF blocks, freed
        <5> QED BY <2>1, <4>3, <4>4, ReleaseFromHeap
      <4>6. freed.live = m1.live \ blocks /\ freed.node = m1.node /\ freed.fault = m1.fault
        <5> HIDE DEF blocks, freed
        <5> QED BY <4>5, HeapFields
      <4>7. m1.live \ blocks \in SUBSET m1.live
        OBVIOUS
      <4>8. IsFiniteSet(m1.live \ blocks)
        <5> HIDE DEF blocks
        <5> QED BY <2>1, <4>7, FS_Subset DEF HeapType
      <4>9. HeapType(freed)
        <5> HIDE DEF blocks, freed
        <5> QED BY <2>1, <4>5, <4>6, <4>7, <4>8 DEF HeapType
      <4> HIDE DEF freed
      <4> QED BY <2>1, <4>3, <4>6, <4>9
    <3> QED BY <3>1, <3>2
  <2> HIDE DEF freed
  <2>3. Replaced(m, r.mem, n, grown, freed.live)
    <3>1. r.mem = Store(freed, n, grown)
      BY <1>7 DEF Result
    <3>2. Store(freed, n, grown) = Heap(freed.live, [k \in DOMAIN freed.node |-> IF k = n THEN grown ELSE freed.node[k]], freed.fault)
      <4> HIDE DEF grown
      <4> QED BY <2>2, StoreReplaces
    <3> HIDE DEF grown
    <3> QED BY <2>2, <3>1, <3>2 DEF Replaced
  <2>4. cap \in Nat /\ Len(nd.entries) + 1 <= cap
    <3>1. Len(nd.entries) \in Nat /\ nd.capacity \in Nat /\ Len(nd.entries) <= nd.capacity
      BY <1>2
    <3> HIDE DEF nd
    <3> QED BY <3>1, CapacityAssumption
  <2>5. /\ grown \in NodeType /\ SameEntries(nd, grown)
        /\ grown.array = b /\ grown.capacity = cap /\ grown.entries = nd.entries
    <3> HIDE DEF nd, cap
    <3> QED BY <1>2, <1>3, <2>4 DEF NodeType, SameEntries, Block
  <2>6. /\ HeapInv(r.mem, X) /\ DOMAIN r.mem.node = DOMAIN m.node
        /\ r.mem.node[n] = grown
        /\ \A k \in DOMAIN m.node \ {n} : r.mem.node[k] = m.node[k]
    <3>1. Len(grown.entries) <= grown.capacity
      <4> HIDE DEF grown, cap
      <4> QED BY <1>2, <2>4, <2>5
    <3> DEFINE live == freed.live
               h == r.mem
    <3>2. \A k : k \in live <=> \/ k = <<m.node[n].alloc, b>>
                                \/ k \in m.live /\ k # <<m.node[n].alloc, m.node[n].array>>
      BY <2>2
    <3>3. Replaced(m, h, n, grown, live) /\ grown \in NodeType /\ SameEntries(m.node[n], grown) /\ grown.array = b
      <4> HIDE DEF grown
      <4> QED BY <2>3, <2>5
    <3>4. /\ HeapInv(h, X) /\ DOMAIN h.node = DOMAIN m.node
          /\ h.node[n] = grown /\ \A k \in DOMAIN m.node \ {n} : h.node[k] = m.node[k]
      <4> HIDE DEF grown, live, h, nd
      <4> QED BY <1>3, <3>1, <3>2, <3>3, GrownHeap
    <3> HIDE DEF grown
    <3> QED BY <3>4
  <2>7. r.status = "OK"
    BY <1>7 DEF Result
  <2>8. HasRoom(grown)
    <3> HIDE DEF grown, cap
    <3> QED BY <2>4, <2>5 DEF HasRoom
  <2> HIDE DEF grown, cap
  <2> QED BY <1>8, <2>5, <2>6, <2>7, <2>8
<1> QED BY <1>4, <1>5, <1>6, <1>7

---------------------------------------------------------------------------
(* New entries.                                                            *)

\* The last element, and the others.
LEMMA AppendFacts ==
  ASSUME NEW S, NEW s \in Seq(S), NEW e \in S
  PROVE  /\ Append(s, e) \in Seq(S) /\ Len(s) \in Nat /\ Len(Append(s, e)) = Len(s) + 1
         /\ DOMAIN s = 1..Len(s) /\ DOMAIN Append(s, e) = 1..(Len(s) + 1)
         /\ Append(s, e)[Len(s) + 1] = e
         /\ \A k \in 1..Len(s) : Append(s, e)[k] = s[k]
BY LenProperties

\* The element at i, those before it, and those from there on.
LEMMA InsertFacts ==
  ASSUME NEW S, NEW s \in Seq(S), NEW e \in S, NEW i \in 1..(Len(s) + 1)
  PROVE  /\ InsertAt(s, i, e) \in Seq(S) /\ Len(s) \in Nat /\ Len(InsertAt(s, i, e)) = Len(s) + 1
         /\ DOMAIN s = 1..Len(s) /\ DOMAIN InsertAt(s, i, e) = 1..(Len(s) + 1)
         /\ InsertAt(s, i, e)[i] = e
         /\ \A k \in 1..Len(s) : k < i => InsertAt(s, i, e)[k] = s[k]
         /\ \A k \in 1..Len(s) : k >= i => InsertAt(s, i, e)[k + 1] = s[k]
<1> DEFINE len == Len(s)
           before == SubSeq(s, 1, i - 1)
           after == SubSeq(s, i, len)
           begin == before \o <<e>>
<1>1. len \in Nat /\ DOMAIN s = 1..len /\ \A k \in 1..len : s[k] \in S
  BY LenProperties, ElementOfSeq
<1>2. /\ before \in Seq(S) /\ Len(before) = i - 1
      /\ \A k \in 1..(i - 1) : before[k] = s[k]
  <2>1. \A k \in 1..(i - 1) : s[k] \in S
    BY <1>1
  <2>2. /\ before \in Seq(S) /\ Len(before) = IF 1 <= i - 1 THEN (i - 1) - 1 + 1 ELSE 0
        /\ \A k \in 1..((i - 1) - 1 + 1) : before[k] = s[1 + k - 1]
    <3>1. 1 \in Int /\ i - 1 \in Int
      BY <1>1
    <3> HIDE DEF len
    <3> QED BY <2>1, <3>1, SubSeqProperties
  <2> HIDE DEF before
  <2> QED BY <1>1, <2>2
<1>3. /\ after \in Seq(S) /\ Len(after) = len - i + 1
      /\ \A k \in 1..(len - i + 1) : after[k] = s[i + k - 1]
  <2>1. \A k \in i..len : s[k] \in S
    BY <1>1
  <2>2. /\ after \in Seq(S) /\ Len(after) = IF i <= len THEN len - i + 1 ELSE 0
        /\ \A k \in 1..(len - i + 1) : after[k] = s[i + k - 1]
    <3>1. i \in Int /\ len \in Int
      BY <1>1
    <3> HIDE DEF len
    <3> QED BY <2>1, <3>1, SubSeqProperties
  <2> HIDE DEF after
  <2> QED BY <1>1, <2>2
<1> HIDE DEF before, after
<1>4. <<e>> \in Seq(S) /\ Len(<<e>>) = 1 /\ <<e>>[1] = e
  OBVIOUS
<1>5. /\ begin \in Seq(S) /\ Len(begin) = i /\ begin[i] = e
      /\ \A k \in 1..(i - 1) : begin[k] = s[k]
  <2>1. /\ begin \in Seq(S) /\ Len(begin) = (i - 1) + 1
        /\ \A k \in 1..((i - 1) + 1) : begin[k] = IF k <= i - 1 THEN before[k] ELSE <<e>>[k - (i - 1)]
    <3> DEFINE one == <<e>>
    <3>1. one \in Seq(S) /\ Len(one) = 1
      BY <1>4
    <3>2. /\ before \o one \in Seq(S) /\ Len(before \o one) = Len(before) + Len(one)
          /\ \A k \in 1..(Len(before) + Len(one)) :
               (before \o one)[k] = IF k <= Len(before) THEN before[k] ELSE one[k - Len(before)]
      <4> HIDE DEF one
      <4> QED BY <1>2, <3>1, ConcatProperties
    <3> QED BY <1>2, <3>1, <3>2
  <2>2. i \in Int /\ i \in 1..((i - 1) + 1) /\ ~(i <= i - 1) /\ i - (i - 1) = 1
    BY <1>1
  <2> HIDE DEF begin
  <2>3. begin[i] = e
    BY <1>4, <2>1, <2>2
  <2>4. ASSUME NEW k \in 1..(i - 1) PROVE begin[k] = s[k]
    <3>1. k \in 1..((i - 1) + 1) /\ k <= i - 1
      BY <1>1
    <3> QED BY <1>2, <2>1, <3>1
  <2>5. Len(begin) = i
    BY <2>1, <2>2
  <2> QED BY <2>1, <2>3, <2>4, <2>5
<1> HIDE DEF begin
<1>6. /\ begin \o after \in Seq(S) /\ Len(begin \o after) = i + (len - i + 1)
      /\ \A k \in 1..(i + (len - i + 1)) : (begin \o after)[k] = IF k <= i THEN begin[k] ELSE after[k - i]
  BY <1>3, <1>5, ConcatProperties
<1>7. InsertAt(s, i, e) = begin \o after
  BY DEF InsertAt, begin, before, after
<1> DEFINE new == InsertAt(s, i, e)
<1>8. new \in Seq(S) /\ Len(new) = len + 1 /\ DOMAIN new = 1..(len + 1)
  <2>1. i + (len - i + 1) = len + 1
    BY <1>1
  <2>2. new \in Seq(S) /\ Len(new) = len + 1
    BY <1>6, <1>7, <2>1
  <2> HIDE DEF new
  <2> QED BY <2>2, LenProperties
<1>9. new[i] = e
  <2>1. i \in 1..(i + (len - i + 1)) /\ i <= i
    BY <1>1
  <2> QED BY <1>5, <1>6, <1>7, <2>1
<1>10. ASSUME NEW k \in 1..len, k < i PROVE new[k] = s[k]
  <2>1. k \in 1..(i - 1) /\ k <= i /\ k \in 1..(i + (len - i + 1))
    BY <1>1, <1>10
  <2> QED BY <1>5, <1>6, <1>7, <2>1
<1>11. ASSUME NEW k \in 1..len, k >= i PROVE new[k + 1] = s[k]
  <2>1. /\ k + 1 \in 1..(i + (len - i + 1)) /\ ~(k + 1 <= i)
        /\ (k + 1) - i \in 1..(len - i + 1) /\ i + ((k + 1) - i) - 1 = k
    BY <1>1, <1>11
  <2>2. new[k + 1] = after[(k + 1) - i]
    BY <1>6, <1>7, <2>1
  <2>3. after[(k + 1) - i] = s[i + ((k + 1) - i) - 1]
    BY <1>3, <2>1
  <2> QED BY <2>1, <2>2, <2>3
<1> HIDE DEF new
<1> QED BY <1>1, <1>8, <1>9, <1>10, <1>11 DEF new

\* The same, as one fact.
Insertion(s, i, e) ==
  /\ Len(InsertAt(s, i, e)) = Len(s) + 1 /\ InsertAt(s, i, e)[i] = e
  /\ \A k \in 1..Len(s) : k < i => InsertAt(s, i, e)[k] = s[k]
  /\ \A k \in 1..Len(s) : k >= i => InsertAt(s, i, e)[k + 1] = s[k]

LEMMA InsertionMade ==
  ASSUME NEW S, NEW s \in Seq(S), NEW e \in S, NEW i \in 1..(Len(s) + 1)
  PROVE  Insertion(s, i, e)
<1>1. /\ InsertAt(s, i, e) \in Seq(S) /\ Len(s) \in Nat /\ Len(InsertAt(s, i, e)) = Len(s) + 1
      /\ DOMAIN s = 1..Len(s) /\ DOMAIN InsertAt(s, i, e) = 1..(Len(s) + 1)
      /\ InsertAt(s, i, e)[i] = e
      /\ \A k \in 1..Len(s) : k < i => InsertAt(s, i, e)[k] = s[k]
      /\ \A k \in 1..Len(s) : k >= i => InsertAt(s, i, e)[k + 1] = s[k]
  BY InsertFacts
<1> QED BY <1>1 DEF Insertion

\* Where an element other than the new one was before.
LEMMA InsertedBefore ==
  ASSUME NEW S, NEW s \in Seq(S), NEW e \in S, NEW i \in 1..(Len(s) + 1),
         NEW k \in 1..(Len(s) + 1), k # i
  PROVE  LET j == IF k < i THEN k ELSE k - 1
         IN  j \in 1..Len(s) /\ InsertAt(s, i, e)[k] = s[j]
<1>1. Len(s) \in Nat
  BY LenProperties
<1>0. Insertion(s, i, e)
  BY InsertionMade
<1>2. CASE k < i
  <2>1. k \in 1..Len(s)
    BY <1>1, <1>2
  <2> QED BY <1>0, <1>2, <2>1 DEF Insertion
<1>3. CASE k > i
  <2>1. k - 1 \in 1..Len(s) /\ k - 1 >= i /\ (k - 1) + 1 = k /\ ~(k < i)
    BY <1>1, <1>3
  <2> DEFINE j == k - 1
  <2>2. j \in 1..Len(s) /\ j >= i
    BY <2>1
  <2>3. InsertAt(s, i, e)[j + 1] = s[j]
    <3> HIDE DEF j
    <3> QED BY <1>0, <2>2 DEF Insertion
  <2> QED BY <2>1, <2>3
<1> QED BY <1>1, <1>2, <1>3

\* A sorted array stays sorted when a key goes where it belongs.
LEMMA SortedInsert ==
  ASSUME NEW s \in Seq(EntryType), NEW e \in EntryType, Sorted(s), NEW i \in 1..(Len(s) + 1),
         \A k \in 1..Len(s) : k < i => KeyBefore(s[k].key, e.key),
         \A k \in 1..Len(s) : k >= i => KeyBefore(e.key, s[k].key)
  PROVE  Sorted(InsertAt(s, i, e))
<1> DEFINE a == InsertAt(s, i, e)
           From(k) == IF k < i THEN k ELSE k - 1
<1>1. Len(s) \in Nat /\ DOMAIN s = 1..Len(s) /\ DOMAIN a = 1..(Len(s) + 1) /\ a[i] = e
  BY InsertFacts
<1>2. \A k \in 1..(Len(s) + 1) : k # i => From(k) \in 1..Len(s) /\ a[k] = s[From(k)]
  BY InsertedBefore
<1> HIDE DEF a
<1>3. ASSUME NEW j \in DOMAIN a, NEW k \in DOMAIN a, j < k
      PROVE  KeyBefore(a[j].key, a[k].key)
  <2>0. j \in 1..(Len(s) + 1) /\ k \in 1..(Len(s) + 1)
    BY <1>1
  <2>1. CASE j = i
    <3>1. k # i /\ From(k) >= i
      BY <1>1, <1>3, <2>0, <2>1
    <3> QED BY <1>1, <1>2, <2>0, <2>1, <3>1
  <2>2. CASE k = i
    <3>1. j # i /\ From(j) < i
      BY <1>1, <1>3, <2>0, <2>2
    <3> QED BY <1>1, <1>2, <2>0, <2>2, <3>1
  <2>3. CASE j # i /\ k # i
    <3>1. From(j) < From(k)
      BY <1>1, <1>3, <2>0, <2>3
    <3> HIDE DEF From
    <3>2. KeyBefore(s[From(j)].key, s[From(k)].key)
      BY <1>1, <1>2, <2>0, <2>3, <3>1 DEF Sorted
    <3> QED BY <1>2, <2>0, <2>3, <3>2
  <2> QED BY <2>1, <2>2, <2>3
<1> QED BY <1>3 DEF Sorted, a

\* e is an entry that n may get at i: it leads to a node no other entry leads
\* to, its copied key is the one block not yet owned, and a dict stays sorted.
SuitsAt(m, X, n, i, e) ==
  /\ n \in DOMAIN m.node /\ i \in 1..(Len(m.node[n].entries) + 1)
  /\ e \in EntryType /\ e.value \in DOMAIN m.node
  /\ \A k \in DOMAIN m.node : \A j \in DOMAIN m.node[k].entries : m.node[k].entries[j].value # e.value
  /\ \/ e.key_copy = NULL /\ X = {}
     \/ e.key_copy # NULL /\ X = {<<m.node[n].alloc, e.key_copy>>}
  /\ m.node[n].type = "DICT" =>
       /\ \A k \in 1..Len(m.node[n].entries) : k < i => KeyBefore(m.node[n].entries[k].key, e.key)
       /\ \A k \in 1..Len(m.node[n].entries) : k >= i => KeyBefore(e.key, m.node[n].entries[k].key)

\* There is room for it.
FitsAt(m, X, n, i, e) == SuitsAt(m, X, n, i, e) /\ HasRoom(m.node[n])

\* Contents with the entry e at i, and otherwise the same up to the array.
OneMore(old, nd, i, e) ==
  /\ nd.alloc = old.alloc /\ nd.type = old.type /\ nd.i = old.i /\ nd.bytes = old.bytes
  /\ nd.owned = old.owned /\ nd.entries = InsertAt(old.entries, i, e)

Inserted(m, m2, n, i, e) ==
  /\ DOMAIN m2.node = DOMAIN m.node
  /\ OneMore(m.node[n], m2.node[n], i, e)
  /\ \A k \in DOMAIN m.node \ {n} : m2.node[k] = m.node[k]

LEMMA EntryPlaced ==
  ASSUME NEW m, NEW X, HeapInv(m, X), NEW n, NEW i, NEW e, FitsAt(m, X, n, i, e),
         NEW nd \in NodeType, OneMore(m.node[n], nd, i, e),
         nd.array = m.node[n].array, nd.capacity = m.node[n].capacity,
         NEW m2, Replaced(m, m2, n, nd, m.live)
  PROVE  HeapInv(m2, {}) /\ Inserted(m, m2, n, i, e)
<1> DEFINE old == m.node[n]
           len == Len(old.entries)
           From(k) == IF k < i THEN k ELSE k - 1
<1>1. HeapType(m) /\ HeldOnce(m, X) /\ OneParent(m) /\ Ordered(m)
  BY DEF HeapInv
<1>2. n \in DOMAIN m.node /\ e \in EntryType /\ i \in 1..(len + 1)
  BY DEF FitsAt, SuitsAt
<1>3. /\ old \in NodeType /\ old.entries \in Seq(EntryType)
      /\ nd.alloc = old.alloc /\ nd.owned = old.owned /\ nd.array = old.array /\ nd.type = old.type
      /\ nd.capacity = old.capacity /\ nd.entries = InsertAt(old.entries, i, e)
  BY <1>1, <1>2, NodeFacts DEF OneMore
<1>4. /\ len \in Nat /\ DOMAIN old.entries = 1..len
      /\ Len(nd.entries) = len + 1
      /\ DOMAIN nd.entries = 1..(len + 1) /\ nd.entries[i] = e
      /\ \A k \in 1..len : k < i => nd.entries[k] = old.entries[k]
      /\ \A k \in 1..len : k >= i => nd.entries[k + 1] = old.entries[k]
  <2> DEFINE s == old.entries
             new == InsertAt(s, i, e)
  <2>1. s \in Seq(EntryType) /\ i \in 1..(Len(s) + 1)
    BY <1>2, <1>3
  <2>2. /\ Len(s) \in Nat /\ DOMAIN s = 1..Len(s)
        /\ Len(new) = Len(s) + 1 /\ DOMAIN new = 1..(Len(s) + 1) /\ new[i] = e
        /\ \A k \in 1..Len(s) : k < i => new[k] = s[k]
        /\ \A k \in 1..Len(s) : k >= i => new[k + 1] = s[k]
    <3> HIDE DEF s
    <3> QED BY <1>2, <2>1, InsertFacts
  <2>3. nd.entries = new /\ len = Len(s)
    BY <1>3
  <2> HIDE DEF new, len
  <2> QED BY <2>2, <2>3
<1>4a. \A k \in 1..(len + 1) : k # i => From(k) \in 1..len /\ nd.entries[k] = old.entries[From(k)]
  <2> HIDE DEF old
  <2> QED BY <1>2, <1>3, InsertedBefore
<1>5. /\ m2.live = m.live /\ m2.fault = m.fault /\ DOMAIN m2.node = DOMAIN m.node
      /\ m2.node[n] = nd /\ \A k \in DOMAIN m.node \ {n} : m2.node[k] = m.node[k]
      /\ HeapType(m2)
  <2>1. m.live \subseteq Allocator \X Block /\ IsFiniteSet(m.live)
    BY <1>1 DEF HeapType
  <2> DEFINE live == m.live
  <2>2. Replaced(m, m2, n, nd, live) /\ live \subseteq Allocator \X Block /\ IsFiniteSet(live)
    BY <2>1
  <2>3. /\ m2.live = live /\ m2.fault = m.fault /\ DOMAIN m2.node = DOMAIN m.node
        /\ m2.node[n] = nd /\ \A k \in DOMAIN m.node \ {n} : m2.node[k] = m.node[k]
        /\ HeapType(m2)
    <3> HIDE DEF live
    <3> QED BY <1>1, <1>2, <2>2, ReplacedFields
  <2> QED BY <2>3
<1>6. { nd.entries[k].key_copy : k \in DOMAIN nd.entries } =
        { old.entries[k].key_copy : k \in DOMAIN old.entries } \cup {e.key_copy}
  <2> HIDE DEF old, len, From
  <2>1. ASSUME NEW k \in DOMAIN nd.entries
        PROVE  nd.entries[k] = e \/ \E j \in DOMAIN old.entries : nd.entries[k] = old.entries[j]
    BY <1>4, <1>4a
  <2>2. ASSUME NEW j \in DOMAIN old.entries
        PROVE  \E k \in DOMAIN nd.entries : nd.entries[k] = old.entries[j]
    <3>1. j \in 1..len /\ j \in 1..(len + 1) /\ j + 1 \in 1..(len + 1)
      BY <1>4
    <3>2. CASE j < i
      BY <1>4, <3>1, <3>2
    <3>3. CASE j >= i
      BY <1>4, <3>1, <3>3
    <3> QED BY <1>2, <1>4, <3>1, <3>2, <3>3
  <2>3. i \in DOMAIN nd.entries /\ nd.entries[i] = e
    BY <1>2, <1>4
  <2> QED BY ONLY <2>1, <2>2, <2>3
<1>7. Parts(n, nd) = Parts(n, old) \cup ({e.key_copy} \ {NULL})
  <2> HIDE DEF old
  <2> QED BY <1>3, <1>6 DEF Parts
<1>8. ASSUME NEW k \in DOMAIN m.node
      PROVE  /\ k # n => Parts(n, old) \cap Parts(k, m.node[k]) = {}
             /\ e.key_copy # NULL => e.key_copy \notin Parts(k, m.node[k])
             /\ BlocksOf(m, k) = {m.node[k].alloc} \X Parts(k, m.node[k])
  <2>1. BlocksOf(m, k) = {m.node[k].alloc} \X Parts(k, m.node[k])
    BY <1>1, PartsAreLive
  <2>2. k # n => Parts(n, old) \cap Parts(k, m.node[k]) = {}
    BY <1>1, <1>2 DEF HeldOnce
  <2>3. e.key_copy # NULL => e.key_copy \notin Parts(k, m.node[k])
    <3> SUFFICES ASSUME e.key_copy # NULL PROVE e.key_copy \notin Parts(k, m.node[k])
      OBVIOUS
    <3>1. <<old.alloc, e.key_copy>> \in X
      BY DEF FitsAt, SuitsAt
    <3>2. \A x \in X : x[2] \notin Parts(k, m.node[k])
      BY <1>1 DEF HeldOnce
    <3> QED BY <3>1, <3>2
  <2> QED BY <2>1, <2>2, <2>3
<1>9. HeldOnce(m2, {})
  <2> DEFINE none == {}
  <2>1. \A b : b \in m2.live <=> \/ b \in none
                                 \/ b \in {nd.alloc} \X Parts(n, nd)
                                 \/ \E k \in DOMAIN m.node \ {n} : b \in BlocksOf(m, k)
    <3>1. \A b : b \in m.live <=> \/ b \in X
                                  \/ b \in {old.alloc} \X Parts(n, old)
                                  \/ \E k \in DOMAIN m.node \ {n} : b \in BlocksOf(m, k)
      <4>1. m.live = X \cup UNION { BlocksOf(m, k) : k \in DOMAIN m.node }
        BY <1>1 DEF HeldOnce
      <4> QED BY <1>2, <1>8, <4>1
    <3>2. X = {old.alloc} \X ({e.key_copy} \ {NULL})
      BY DEF FitsAt, SuitsAt
    <3> HIDE DEF old
    <3> QED BY <1>3, <1>5, <1>7, <3>1, <3>2
  <2>2. \A k \in DOMAIN m.node \ {n} : Parts(n, nd) \cap Parts(k, m.node[k]) = {}
    BY <1>7, <1>8
  <2>3. nd.array # NULL => /\ nd.array # n /\ nd.array # nd.owned
                           /\ \A k \in DOMAIN nd.entries : nd.entries[k].key_copy # nd.array
    <3>1. old.array # NULL => /\ old.array # n /\ old.array # old.owned
                              /\ \A k \in DOMAIN old.entries : old.entries[k].key_copy # old.array
      BY <1>1, <1>2 DEF HeldOnce
    <3>2. old.array # NULL => old.array \in Parts(n, old)
      BY DEF Parts
    <3>3. old.array # NULL => old.array # e.key_copy
      BY <1>2, <1>8, <3>2
    <3>4. ASSUME NEW k \in DOMAIN nd.entries
          PROVE  nd.entries[k] = e \/ \E j \in DOMAIN old.entries : nd.entries[k] = old.entries[j]
      <4> HIDE DEF old, len, From
      <4> QED BY <1>4, <1>4a
    <3> HIDE DEF old
    <3> QED BY <1>3, <3>1, <3>3, <3>4
  <2>4. \A k \in DOMAIN m.node \ {n} : \A x \in none : x[2] \notin Parts(k, m.node[k])
    OBVIOUS
  <2>5. \A x \in none : x[2] \notin Parts(n, nd)
    OBVIOUS
  <2>6. HeldOnce(m2, none)
    <3>1. HeapType(m) /\ HeldOnce(m, X) /\ n \in DOMAIN m.node /\ nd \in NodeType
      BY <1>1, <1>2
    <3>2. /\ HeapType(m2) /\ DOMAIN m2.node = DOMAIN m.node /\ m2.node[n] = nd
          /\ \A k \in DOMAIN m.node \ {n} : m2.node[k] = m.node[k]
      BY <1>5
    <3> HIDE DEF old, none
    <3> QED BY ONLY <3>1, <3>2, <2>1, <2>2, <2>3, <2>4, <2>5, ReplacedAccounted
  <2> QED BY <2>6
<1> DEFINE Was(k, j) == IF k = n THEN From(j) ELSE j
<1>10. ASSUME NEW k \in DOMAIN m2.node, NEW j \in DOMAIN m2.node[k].entries
       PROVE  \/ k = n /\ j = i /\ m2.node[k].entries[j] = e
              \/ /\ k # n \/ (j \in 1..(len + 1) /\ j # i)
                 /\ Was(k, j) \in DOMAIN m.node[k].entries
                 /\ m2.node[k].entries[j] = m.node[k].entries[Was(k, j)]
  <2>1. CASE k # n
    <3> HIDE DEF From, len
    <3> QED BY <1>5, <2>1
  <2>2. CASE k = n
    <3>1. m2.node[k].entries = nd.entries /\ m.node[k].entries = old.entries
      BY <1>5, <2>2
    <3>2. j \in 1..(len + 1)
      BY <1>4, <3>1
    <3> HIDE DEF old, len, From
    <3> QED BY <1>4, <1>4a, <2>2, <3>1, <3>2
  <2> QED BY <2>1, <2>2
<1>11. OneParent(m2)
  <2>1. e.value \in DOMAIN m.node
        /\ \A k \in DOMAIN m.node : \A j \in DOMAIN m.node[k].entries : m.node[k].entries[j].value # e.value
    BY DEF FitsAt, SuitsAt
  <2>2. \A k \in DOMAIN m2.node : \A j \in DOMAIN m2.node[k].entries : m2.node[k].entries[j].value \in DOMAIN m2.node
    <3> HIDE DEF Was, len
    <3> QED BY <1>1, <1>5, <1>10, <2>1 DEF OneParent
  <2>3. ASSUME NEW n1 \in DOMAIN m2.node, NEW n2 \in DOMAIN m2.node,
               NEW k1 \in DOMAIN m2.node[n1].entries, NEW k2 \in DOMAIN m2.node[n2].entries,
               m2.node[n1].entries[k1].value = m2.node[n2].entries[k2].value
        PROVE  n1 = n2 /\ k1 = k2
    <3>0. \A j1, j2 \in 1..(len + 1) : j1 # i /\ j2 # i /\ From(j1) = From(j2) => j1 = j2
      BY <1>2, <1>4
    <3> HIDE DEF old, Was, len
    <3>1. CASE m2.node[n1].entries[k1] = e
      BY <1>5, <1>10, <2>1, <2>3, <3>1
    <3>2. CASE m2.node[n2].entries[k2] = e
      BY <1>5, <1>10, <2>1, <2>3, <3>2
    <3>3. CASE m2.node[n1].entries[k1] # e /\ m2.node[n2].entries[k2] # e
      <4>1. /\ n1 # n \/ (k1 \in 1..(len + 1) /\ k1 # i)
            /\ Was(n1, k1) \in DOMAIN m.node[n1].entries
            /\ m2.node[n1].entries[k1] = m.node[n1].entries[Was(n1, k1)]
        BY <1>10, <3>3
      <4>2. /\ n2 # n \/ (k2 \in 1..(len + 1) /\ k2 # i)
            /\ Was(n2, k2) \in DOMAIN m.node[n2].entries
            /\ m2.node[n2].entries[k2] = m.node[n2].entries[Was(n2, k2)]
        BY <1>10, <3>3
      <4>3. n1 = n2 /\ Was(n1, k1) = Was(n2, k2)
        BY <1>1, <1>5, <2>3, <4>1, <4>2 DEF OneParent
      <4> HIDE DEF From
      <4> QED BY <3>0, <4>1, <4>2, <4>3 DEF Was
    <3> QED BY <3>1, <3>2, <3>3
  <2> HIDE DEF Was, len
  <2> QED BY <2>2, <2>3 DEF OneParent
<1>12. Ordered(m2)
  <2>1. Len(nd.entries) <= nd.capacity
    BY <1>3, <1>4 DEF FitsAt, SuitsAt, HasRoom
  <2>2. nd.type = "DICT" => Sorted(nd.entries)
    <3>1. nd.type = "DICT" => /\ Sorted(old.entries)
                              /\ \A k \in 1..len : k < i => KeyBefore(old.entries[k].key, e.key)
                              /\ \A k \in 1..len : k >= i => KeyBefore(e.key, old.entries[k].key)
      BY <1>1, <1>2, <1>3 DEF Ordered, FitsAt, SuitsAt
    <3> HIDE DEF old
    <3> QED BY <1>2, <1>3, <3>1, SortedInsert
  <2> QED BY <1>1, <1>5, <2>1, <2>2 DEF Ordered
<1> QED BY <1>5, <1>9, <1>11, <1>12 DEF HeapInv, Inserted

LEMMA EntryGiven ==
  ASSUME NEW m, NEW X, HeapInv(m, X), NEW n, NEW i, NEW e, FitsAt(m, X, n, i, e)
  PROVE  LET m2 == [m EXCEPT !.node[n].entries = InsertAt(@, i, e)]
         IN  HeapInv(m2, {}) /\ Inserted(m, m2, n, i, e)
<1> DEFINE nd == [m.node[n] EXCEPT !.entries = InsertAt(@, i, e)]
           N == [m.node EXCEPT ![n] = nd]
           m2 == [m EXCEPT !.node = N]
<1>1. HeapType(m) /\ n \in DOMAIN m.node /\ e \in EntryType
      /\ i \in 1..(Len(m.node[n].entries) + 1)
  BY DEF HeapInv, FitsAt, SuitsAt
<1>2. m.node[n] \in NodeType /\ m.node[n].entries \in Seq(EntryType)
  BY <1>1, NodeFacts
<1>3. InsertAt(m.node[n].entries, i, e) \in Seq(EntryType)
  BY <1>1, <1>2, InsertFacts
<1>4. /\ nd \in NodeType /\ nd.array = m.node[n].array /\ nd.capacity = m.node[n].capacity
      /\ OneMore(m.node[n], nd, i, e)
  BY <1>2, <1>3 DEF NodeType, OneMore
<1>5. N = [k \in DOMAIN m.node |-> IF k = n THEN nd ELSE m.node[k]]
  <2> HIDE DEF nd
  <2> QED OBVIOUS
<1>6. m2 = Heap(m.live, N, m.fault)
  <2> HIDE DEF N
  <2> QED BY <1>1, WithNode DEF HeapType
<1>7. Replaced(m, m2, n, nd, m.live)
  <2> HIDE DEF nd, N, m2
  <2> QED BY <1>5, <1>6 DEF Replaced
<1>8. HeapInv(m2, {}) /\ Inserted(m, m2, n, i, e)
  <2> HIDE DEF nd, m2
  <2> QED BY <1>4, <1>7, EntryPlaced
<1> QED BY <1>8

\* The same where the array had to grow first.
LEMMA EntryGivenRoom ==
  ASSUME NEW m, NEW X, HeapInv(m, X), NEW n, NEW i, NEW e, SuitsAt(m, X, n, i, e),
         NEW g \in grow_array(m, n), g.status = "OK"
  PROVE  LET m2 == [g.mem EXCEPT !.node[n].entries = InsertAt(@, i, e)]
         IN  HeapInv(m2, {}) /\ Inserted(m, m2, n, i, e)
<1> DEFINE m1 == g.mem
           m2 == [m1 EXCEPT !.node[n].entries = InsertAt(@, i, e)]
<1>1. n \in DOMAIN m.node
  BY DEF SuitsAt
<1>2. /\ HeapInv(m1, X) /\ DOMAIN m1.node = DOMAIN m.node
      /\ \A k \in DOMAIN m.node \ {n} : m1.node[k] = m.node[k]
      /\ SameEntries(m.node[n], m1.node[n]) /\ HasRoom(m1.node[n])
  BY <1>1, GrowArray
<1> HIDE DEF m1
<1>3. /\ m1.node[n].type = m.node[n].type /\ m1.node[n].alloc = m.node[n].alloc
      /\ m1.node[n].i = m.node[n].i /\ m1.node[n].bytes = m.node[n].bytes
      /\ m1.node[n].owned = m.node[n].owned
      /\ m1.node[n].entries = m.node[n].entries
  BY <1>2 DEF SameEntries
<1>4. \A k \in DOMAIN m.node : m1.node[k].entries = m.node[k].entries
  BY <1>2, <1>3
<1>5. FitsAt(m1, X, n, i, e)
  BY <1>2, <1>3, <1>4 DEF FitsAt, SuitsAt
<1>6. HeapInv(m2, {}) /\ Inserted(m1, m2, n, i, e)
  BY <1>2, <1>5, EntryGiven
<1> HIDE DEF m2
<1>7. Inserted(m, m2, n, i, e)
  BY <1>2, <1>3, <1>6 DEF Inserted, OneMore
<1> QED BY <1>6, <1>7 DEF m1, m2

LEMMA InsertAtEnd ==
  ASSUME NEW S, NEW s \in Seq(S), NEW e \in S
  PROVE  InsertAt(s, Len(s) + 1, e) = Append(s, e)
<1>1. Len(s) \in Nat
  BY LenProperties
<1>2. SubSeq(s, Len(s) + 1, Len(s)) = <<>> /\ SubSeq(s, 1, Len(s)) = s
  BY <1>1, SubSeqEmpty, SubSeqFull
<1>3. InsertAt(s, Len(s) + 1, e) = s \o <<e>> \o <<>>
  <2>1. Len(s) + 1 - 1 = Len(s)
    BY <1>1
  <2>2. InsertAt(s, Len(s) + 1, e) = SubSeq(s, 1, Len(s) + 1 - 1) \o <<e>> \o SubSeq(s, Len(s) + 1, Len(s))
    BY DEF InsertAt
  <2> QED BY ONLY <1>2, <2>1, <2>2
<1> QED BY <1>3

\* What appending to a list leaves: the heap as it was, or with the entry.
LEMMA ListInsert ==
  ASSUME NEW m, HeapInv(m, {}), NEW list, NEW child, 
         SuitsAt(m, {}, list, Len(m.node[list].entries) + 1, Entry(<<>>, NULL, child)),
         m.node[list].type = "LIST",
         NEW r \in bencode_list_append(m, list, child)
  PROVE  \/ r.status = "NOMEM" /\ r.mem = m
         \/ /\ r.status = "OK" /\ HeapInv(r.mem, {})
            /\ Inserted(m, r.mem, list, Len(m.node[list].entries) + 1, Entry(<<>>, NULL, child))
<1> DEFINE e == Entry(<<>>, NULL, child)
           len == Len(m.node[list].entries)
<1>1. HeapType(m) /\ list \in DOMAIN m.node /\ list # NULL /\ child # NULL
  BY DEF HeapInv, HeapType, SuitsAt, Entry, Block
<1>2. PICK g \in grow_array(m, list) :
        r = IF g.status # "OK" THEN g
            ELSE [g EXCEPT !.mem.node[list].entries = Append(@, Entry(<<>>, NULL, child))]
  BY <1>1 DEF bencode_list_append, WrongArguments
<1> HIDE DEF e
<1>3. CASE g.status # "OK"
  BY <1>1, <1>2, <1>3, GrowArray
<1>4. CASE g.status = "OK"
  <2>1. g.status = "OK" /\ g = Result(g.mem, g.status, list)
    BY <1>1, <1>4, GrowArray
  <2> DEFINE m2 == [g.mem EXCEPT !.node[list].entries = Append(@, e)]
             h == [g.mem EXCEPT !.node[list].entries = InsertAt(@, len + 1, e)]
  <2>2. r.mem = m2 /\ r.status = "OK"
    BY <1>2, <2>1 DEF e, Result
  <2>3. HeapInv(h, {}) /\ Inserted(m, h, list, len + 1, e)
    <3>1. SuitsAt(m, {}, list, len + 1, e)
      BY DEF e
    <3> HIDE DEF len
    <3> QED BY <1>4, <3>1, EntryGivenRoom
  <2>4. h = m2
    <3>1. g.mem.node[list].entries = m.node[list].entries
      BY <1>1, <1>4, GrowArray DEF SameEntries
    <3>2. e \in EntryType
      BY DEF SuitsAt, e
    <3>3. InsertAt(g.mem.node[list].entries, len + 1, e) = Append(g.mem.node[list].entries, e)
      BY <1>1, <3>1, <3>2, NodeFacts, InsertAtEnd
    <3> HIDE DEF len
    <3> QED BY <3>3
  <2> HIDE DEF m2, h
  <2> QED BY <2>2, <2>3, <2>4 DEF e
<1> QED BY <1>3, <1>4

\* The end of Insert, after an attempt g to grow the array: the entry goes to
\* its place, or its key is freed.
WithEntry(n, i, e, alloc, g) ==
  IF g.status # "OK" THEN [g EXCEPT !.mem = bencode_free(@, alloc, e.key_copy)]
  ELSE [g EXCEPT !.mem.node[n].entries = InsertAt(@, i, e)]

LEMMA EntryInserted ==
  ASSUME NEW m, NEW X, HeapInv(m, X), NEW n, NEW i, NEW e, SuitsAt(m, X, n, i, e), NEW alloc,
         NEW g \in grow_array(m, n), NEW r, r = WithEntry(n, i, e, alloc, g)
  PROVE  \/ r.status = "NOMEM" /\ r.mem = bencode_free(m, alloc, e.key_copy)
         \/ r.status = "OK" /\ HeapInv(r.mem, {}) /\ Inserted(m, r.mem, n, i, e)
<1>1. HeapType(m) /\ n \in DOMAIN m.node /\ e \in EntryType
  BY DEF HeapInv, SuitsAt
<1>2. /\ g = Result(g.mem, g.status, n)
      /\ \/ g.status = "NOMEM" /\ g.mem = m
         \/ /\ g.status = "OK" /\ n \in DOMAIN g.mem.node
            /\ SameEntries(m.node[n], g.mem.node[n])
  BY <1>1, GrowArray
<1>3. CASE g.status = "NOMEM" /\ g.mem = m
  <2> DEFINE freed == bencode_free(m, alloc, e.key_copy)
  <2>1. r = [g EXCEPT !.mem = bencode_free(g.mem, alloc, e.key_copy)]
    BY <1>3 DEF WithEntry
  <2>2. r = [g EXCEPT !.mem = freed]
    BY <1>3, <2>1
  <2> HIDE DEF freed
  <2>3. r.status = "NOMEM" /\ r.mem = freed
    BY <1>2, <1>3, <2>2 DEF Result
  <2> QED BY <2>3 DEF freed
<1>4. CASE g.status = "OK" /\ n \in DOMAIN g.mem.node /\ SameEntries(m.node[n], g.mem.node[n])
  <2> DEFINE m2 == [g.mem EXCEPT !.node[n].entries = InsertAt(@, i, e)]
  <2>1. r.mem = m2 /\ r.status = "OK"
    BY <1>2, <1>4 DEF Result, WithEntry
  <2>2. HeapInv(m2, {}) /\ Inserted(m, m2, n, i, e)
    BY <1>4, EntryGivenRoom
  <2> HIDE DEF m2
  <2> QED BY <2>1, <2>2
<1> QED BY <1>2, <1>3, <1>4

\* What is said here of the new node and of the key is what SuitsAt says of the
\* entry, before the key is copied.
LEMMA DictInsert ==
  ASSUME NEW m, HeapInv(m, {}), NEW dict, NEW key \in Bytes, NEW child,
         NEW i, SuitsAt(m, {}, dict, i, Entry(key, NULL, child)),
         NEW r \in Insert(m, dict, i, key, child)
  PROVE  \/ r.status = "NOMEM" /\ r.mem = m
         \/ /\ r.status = "OK" /\ HeapInv(r.mem, {})
            /\ \E copy \in Nat : Inserted(m, r.mem, dict, i, Entry(key, copy, child))
<1> DEFINE alloc == m.node[dict].alloc
           b == FreeBlock(m)
           m1 == [m EXCEPT !.live = @ \cup {<<alloc, b>>}]
           len == Len(m.node[dict].entries)
           Given(h, c, g) ==
             IF g.status # "OK" THEN [g EXCEPT !.mem = bencode_free(@, alloc, c)]
             ELSE [g EXCEPT !.mem.node[dict].entries = InsertAt(@, i, Entry(key, c, child))]
           e == Entry(key, NULL, child)
           e1 == Entry(key, b, child)
<1>1. /\ HeapType(m) /\ HeldOnce(m, {}) /\ OneParent(m) /\ Ordered(m)
      /\ dict \in DOMAIN m.node /\ child \in DOMAIN m.node /\ child \in Nat
  BY DEF HeapInv, SuitsAt, Entry, HeapType, Block
<1>2. /\ m.node[dict] \in NodeType /\ m.node[dict].entries \in Seq(EntryType)
      /\ alloc \in Allocator /\ len \in Nat
  BY <1>1, NodeFacts DEF NodeType
<1>3. b \in Block /\ b \in Nat /\ b # NULL /\ \A k \in m.live : k[2] # b
  BY <1>1, FreeBlockIsFree DEF HeapType, Block
<1>4. \/ r = Result(m, "NOMEM", dict)
      \/ \E g \in grow_array(m, dict) : r = Given(m, NULL, g)
      \/ \E g \in grow_array(m1, dict) : r = Given(m1, b, g)
  <2>1. CASE key = <<>>
    BY <2>1 DEF Insert
  <2>2. CASE key # <<>>
    <3>1. PICK copy \in bencode_alloc(m, alloc) :
            r \in IF copy.ptr = NULL THEN {Result(m, "NOMEM", dict)}
                  ELSE { Given(copy.mem, copy.ptr, g) : g \in grow_array(copy.mem, dict) }
      BY <2>2 DEF Insert
    <3>2. \/ copy.ptr = NULL
          \/ copy.mem = m1 /\ copy.ptr = b
      <4>1. \/ copy = [mem |-> m, ptr |-> NULL]
            \/ copy = [mem |-> m1, ptr |-> b]
        BY DEF bencode_alloc
      <4> HIDE DEF m1, b
      <4> QED BY <4>1
    <3> HIDE DEF m1, b, Given
    <3> QED BY <1>3, <3>1, <3>2
  <2> QED BY <2>1, <2>2
<1> HIDE DEF b
<1>5. CASE r = Result(m, "NOMEM", dict)
  BY <1>5 DEF Result
<1>6. ASSUME NEW g \in grow_array(m, dict), r = Given(m, NULL, g)
      PROVE  \/ r.status = "NOMEM" /\ r.mem = m
             \/ r.status = "OK" /\ HeapInv(r.mem, {}) /\ Inserted(m, r.mem, dict, i, e)
  <2>1. SuitsAt(m, {}, dict, i, e) /\ e.key_copy = NULL
    BY DEF Entry
  <2> DEFINE none == {}
  <2>2. HeapInv(m, none) /\ SuitsAt(m, none, dict, i, e)
    BY <2>1
  <2>3. r = WithEntry(dict, i, e, alloc, g)
    BY <1>6, <2>1 DEF WithEntry
  <2> HIDE DEF none, e
  <2>4. \/ r.status = "NOMEM" /\ r.mem = bencode_free(m, alloc, e.key_copy)
        \/ r.status = "OK" /\ HeapInv(r.mem, {}) /\ Inserted(m, r.mem, dict, i, e)
    <3> HIDE DEF alloc
    <3> QED BY <1>6, <2>2, <2>3, EntryInserted
  <2>5. bencode_free(m, alloc, e.key_copy) = m
    BY <2>1 DEF bencode_free
  <2> QED BY <2>4, <2>5
<1>7. ASSUME NEW g \in grow_array(m1, dict), r = Given(m1, b, g)
      PROVE  \/ r.status = "NOMEM" /\ r.mem = m
             \/ r.status = "OK" /\ HeapInv(r.mem, {}) /\ Inserted(m, r.mem, dict, i, e1)
  <2> DEFINE X == {<<alloc, b>>}
  <2>1. m1.live = m.live \cup {<<alloc, b>>} /\ m1.node = m.node /\ m1.fault = m.fault /\ HeapType(m1)
    BY <1>1, <1>2, <1>3, AllocHeap
  <2>2. e1.key_copy = b /\ e1.key = key /\ e1.value = child /\ e1 \in EntryType
    BY <1>1, <1>3 DEF Entry, EntryType
  <2>3. bencode_free(m1, alloc, e1.key_copy) = m
    <3>1. <<alloc, b>> \notin m.live
      BY <1>3
    <3>2. bencode_free(m1, alloc, b) = m
      BY <1>1, <1>2, <1>3, <3>1, FreeUndoesAlloc
    <3> HIDE DEF e1, m1
    <3> QED BY <2>2, <3>2
  <2>4. r = WithEntry(dict, i, e1, alloc, g)
    <3> HIDE DEF m1
    <3> QED BY <1>7, <2>1, <2>2 DEF WithEntry
  <2> HIDE DEF m1
  <2>5. HeapInv(m1, X)
    <3>1. ASSUME NEW n \in DOMAIN m.node PROVE b \notin Parts(n, m.node[n]) /\ BlocksOf(m1, n) = BlocksOf(m, n)
      <4>1. \A c \in Parts(n, m.node[n]) : <<m.node[n].alloc, c>> \in m.live
        BY <1>1, PartsAreLive
      <4>2. BlocksOf(m1, n) = BlocksOf(m, n)
        BY <2>1 DEF BlocksOf
      <4>3. b \in Parts(n, m.node[n]) => <<m.node[n].alloc, b>> \in m.live
        BY ONLY <4>1
      <4> QED BY <1>3, <4>2, <4>3
    <3>2. m1.live = X \cup UNION { BlocksOf(m1, n) : n \in DOMAIN m1.node }
      BY <1>1, <2>1, <3>1 DEF HeldOnce
    <3>3. HeldOnce(m1, X)
      <4>1. \A n \in DOMAIN m1.node : \A x \in X : x[2] \notin Parts(n, m1.node[n])
        BY <2>1, <3>1
      <4> HIDE DEF X
      <4> QED BY <1>1, <2>1, <3>2, <4>1 DEF HeldOnce
    <3>4. OneParent(m1) /\ Ordered(m1)
      BY <1>1, <2>1 DEF OneParent, Ordered
    <3> QED BY <2>1, <3>3, <3>4 DEF HeapInv
  <2>6. SuitsAt(m1, X, dict, i, e1)
    <3>1. X = {<<m1.node[dict].alloc, e1.key_copy>>} /\ e1.key_copy # NULL
      BY <1>3, <2>1, <2>2
    <3>2. /\ i \in 1..(Len(m.node[dict].entries) + 1)
          /\ \A k \in DOMAIN m.node : \A j \in DOMAIN m.node[k].entries : m.node[k].entries[j].value # child
          /\ m.node[dict].type = "DICT" =>
               /\ \A k \in 1..Len(m.node[dict].entries) :
                    k < i => KeyBefore(m.node[dict].entries[k].key, key)
               /\ \A k \in 1..Len(m.node[dict].entries) :
                    k >= i => KeyBefore(key, m.node[dict].entries[k].key)
      BY DEF SuitsAt, Entry
    <3> HIDE DEF e1, X
    <3> QED BY <1>1, <2>1, <2>2, <3>1, <3>2 DEF SuitsAt
  <2>7. \/ r.status = "NOMEM" /\ r.mem = bencode_free(m1, alloc, e1.key_copy)
        \/ r.status = "OK" /\ HeapInv(r.mem, {}) /\ Inserted(m1, r.mem, dict, i, e1)
    <3> HIDE DEF alloc, e1, X
    <3> QED BY <1>7, <2>4, <2>5, <2>6, EntryInserted
  <2>8. Inserted(m1, r.mem, dict, i, e1) => Inserted(m, r.mem, dict, i, e1)
    <3> HIDE DEF e1
    <3> QED BY <2>1 DEF Inserted
  <2> HIDE DEF e1
  <2> QED BY <2>3, <2>7, <2>8
<1> HIDE DEF Given
<1>8. NULL \in Nat
  BY DEF NULL
<1> QED BY <1>3, <1>4, <1>5, <1>6, <1>7, <1>8

\* e goes to the end.
Suits(m, X, n, e) ==
  /\ n \in DOMAIN m.node
  /\ e \in EntryType /\ e.value \in DOMAIN m.node
  /\ \A k \in DOMAIN m.node : \A j \in DOMAIN m.node[k].entries : m.node[k].entries[j].value # e.value
  /\ \/ e.key_copy = NULL /\ X = {}
     \/ e.key_copy # NULL /\ X = {<<m.node[n].alloc, e.key_copy>>}
  /\ m.node[n].type = "DICT" =>
       \A k \in DOMAIN m.node[n].entries : KeyBefore(m.node[n].entries[k].key, e.key)

Extended(m, m2, n, e) ==
  /\ DOMAIN m2.node = DOMAIN m.node
  /\ m2.node[n].type = m.node[n].type /\ m2.node[n].entries = Append(m.node[n].entries, e)
  /\ \A k \in DOMAIN m.node \ {n} : m2.node[k] = m.node[k]

LEMMA SuitsAtEnd ==
  ASSUME NEW m, NEW X, HeapType(m), NEW n, NEW e, Suits(m, X, n, e)
  PROVE  SuitsAt(m, X, n, Len(m.node[n].entries) + 1, e)
<1> DEFINE len == Len(m.node[n].entries)
<1>1. n \in DOMAIN m.node
  BY DEF Suits
<1>2. len \in Nat /\ DOMAIN m.node[n].entries = 1..len
  BY <1>1, NodeFacts
<1>3. len + 1 \in 1..(len + 1) /\ \A k \in 1..len : ~(k >= len + 1)
  BY <1>2
<1> HIDE DEF len
<1>4. SuitsAt(m, X, n, len + 1, e)
  BY <1>2, <1>3 DEF Suits, SuitsAt, len
<1> QED BY <1>4 DEF len

LEMMA InsertedAtEnd ==
  ASSUME NEW m, HeapType(m), NEW n \in DOMAIN m.node, NEW e \in EntryType,
         NEW m2, Inserted(m, m2, n, Len(m.node[n].entries) + 1, e)
  PROVE  Extended(m, m2, n, e)
<1>1. InsertAt(m.node[n].entries, Len(m.node[n].entries) + 1, e) = Append(m.node[n].entries, e)
  BY NodeFacts, InsertAtEnd
<1> QED BY <1>1 DEF Inserted, OneMore, Extended

LEMMA ListAppend ==
  ASSUME NEW m, HeapInv(m, {}), NEW list, NEW child, Suits(m, {}, list, Entry(<<>>, NULL, child)),
         m.node[list].type = "LIST",
         NEW r \in bencode_list_append(m, list, child)
  PROVE  \/ r.status = "NOMEM" /\ r.mem = m
         \/ /\ r.status = "OK" /\ HeapInv(r.mem, {})
            /\ Extended(m, r.mem, list, Entry(<<>>, NULL, child))
<1> DEFINE e == Entry(<<>>, NULL, child)
           len == Len(m.node[list].entries)
<1>1. HeapType(m) /\ list \in DOMAIN m.node /\ e \in EntryType
  BY DEF HeapInv, Suits
<1>2. SuitsAt(m, {}, list, len + 1, e)
  BY <1>1, SuitsAtEnd
<1>3. \/ r.status = "NOMEM" /\ r.mem = m
      \/ r.status = "OK" /\ HeapInv(r.mem, {}) /\ Inserted(m, r.mem, list, len + 1, e)
  BY <1>2, ListInsert
<1> HIDE DEF e
<1>4. Inserted(m, r.mem, list, len + 1, e) => Extended(m, r.mem, list, e)
  BY <1>1, InsertedAtEnd
<1> QED BY <1>3, <1>4 DEF e

\* Setting a key greater than all there are inserts it at the end.
THEOREM DictSet ==
  ASSUME NEW m, HeapInv(m, {}), NEW dict, NEW key \in Bytes, NEW child,
         Suits(m, {}, dict, Entry(key, NULL, child)), m.node[dict].type = "DICT",
         NEW r \in bencode_dict_set(m, dict, key, child)
  PROVE  \/ r.status = "NOMEM" /\ r.mem = m
         \/ /\ r.status = "OK" /\ HeapInv(r.mem, {})
            /\ \E copy \in Nat : Extended(m, r.mem, dict, Entry(key, copy, child))
<1> DEFINE entries == m.node[dict].entries
           len == Len(m.node[dict].entries)
<1>1. /\ HeapType(m) /\ Ordered(m) /\ dict \in DOMAIN m.node /\ dict # NULL
      /\ child # NULL /\ child \in Nat
  BY DEF HeapInv, HeapType, Suits, Entry, Block
<1>2. entries \in Seq(EntryType) /\ Sorted(entries)
  BY <1>1, NodeFacts DEF Ordered
<1>3. \A k \in DOMAIN entries : KeyBefore(entries[k].key, key)
  BY DEF Suits, Entry
<1>4. dict_search(entries, key) = [index |-> len + 1, match |-> FALSE]
  BY <1>2, <1>3, DictSearchAppends
<1>5. r \in Insert(m, dict, len + 1, key, child)
  BY <1>1, <1>4 DEF bencode_dict_set, WrongArguments
<1>6. SuitsAt(m, {}, dict, len + 1, Entry(key, NULL, child))
  BY <1>1, SuitsAtEnd
<1>7. \/ r.status = "NOMEM" /\ r.mem = m
      \/ /\ r.status = "OK" /\ HeapInv(r.mem, {})
         /\ \E copy \in Nat : Inserted(m, r.mem, dict, len + 1, Entry(key, copy, child))
  BY <1>5, <1>6, DictInsert
<1>8. ASSUME NEW copy \in Nat, Inserted(m, r.mem, dict, len + 1, Entry(key, copy, child))
      PROVE  Extended(m, r.mem, dict, Entry(key, copy, child))
  <2> DEFINE e == Entry(key, copy, child)
  <2>1. e \in EntryType
    BY <1>1 DEF Entry, EntryType
  <2> HIDE DEF e
  <2>2. Inserted(m, r.mem, dict, len + 1, e)
    BY <1>8 DEF e
  <2>3. Extended(m, r.mem, dict, e)
    BY <1>1, <2>1, <2>2, InsertedAtEnd
  <2> QED BY <2>3 DEF e
<1> QED BY <1>7, <1>8

===========================================================================
