----------------------------- MODULE EmitProofs -----------------------------
(***************************************************************************)
(* What bencode_emit_to_alloc and bencode_emit_to_file promise about the   *)
(* buffer and the FILE, for every tree, sink and answer of the allocator.  *)
(***************************************************************************)
EXTENDS EmitWriter, ValueTreeProofs

---------------------------------------------------------------------------
(* Chunks of bytes.                                                        *)

\* snprintf's digits are bytes, for every number.
LEMMA DecimalIsBytes ==
  ASSUME NEW n \in Nat
  PROVE  decimal[n] \in Bytes
<1>1. decimal = CHOOSE f : f = [k \in Nat |-> NextDigit(f, k)]
  BY DEF decimal, NextDigit
<1> QED BY <1>1, DecimalNotation

LEMMA SignedDecimalIsBytes ==
  ASSUME NEW n \in Int
  PROVE  signed_decimal(n) \in Bytes
<1>1. CASE n < 0
  <2>1. decimal[-n] \in Bytes
    <3>1. -n \in Nat
      BY <1>1
    <3> QED BY <3>1, DecimalIsBytes
  <2>2. <<Minus>> \in Bytes
    BY OneByte DEF Minus, Byte
  <2> QED BY <1>1, <2>1, <2>2, BytesConcat DEF signed_decimal
<1>2. CASE ~(n < 0)
  <2>1. n \in Nat
    BY <1>2
  <2> QED BY <1>2, <2>1, DecimalIsBytes DEF signed_decimal
<1> QED BY <1>1, <1>2

---------------------------------------------------------------------------
(* The capacity of the buffer.                                             *)

NextCapacity(f, used, n, c) ==
  IF c - used >= n THEN c ELSE IF c > SINK_MAX \div 2 THEN 0 ELSE f[2 * c]

\* The capacities that a chunk of n bytes may be given after used others.
Capacities(used, n) == {0} \cup {c \in 1..SINK_MAX : c - used >= n}

\* Doubling ends: either there is room, or 2 * cap would be more than SINK_MAX.
LEMMA GrownHasRoom ==
  ASSUME NEW cap \in 0..SINK_MAX, NEW used \in Nat, NEW n \in Nat
  PROVE  Grown(cap, used, n) \in Capacities(used, n)
<1> DEFINE Doubled(f, c) == NextCapacity(f, used, n, c)
           F == [g \in [Nat -> Nat] |-> [c \in Nat |-> IF c = 0 THEN 0 ELSE Doubled(g, c)]]
           rank == [c \in Nat |-> IF c <= SINK_MAX THEN SINK_MAX - c ELSE 0]
           g0 == [c \in Nat |-> 0]
<1>0. SINK_MAX \in Nat /\ SINK_INITIAL \in 1..SINK_MAX
  BY EmitAssumption
<1>1. ASSUME NEW c \in Nat, c # 0, ~(c > SINK_MAX \div 2)
      PROVE  2 * c \in Nat /\ 2 * c \in 1..SINK_MAX /\ c < 2 * c /\ c <= SINK_MAX
  BY <1>0, <1>1
<1>2. F \in [[Nat -> Nat] -> [Nat -> Nat]]
  <2>1. ASSUME NEW g \in [Nat -> Nat], NEW c \in Nat
        PROVE  (IF c = 0 THEN 0 ELSE Doubled(g, c)) \in Nat
    BY <1>1 DEF NextCapacity
  <2> QED BY <2>1
<1>3. ASSUME NEW g \in [Nat -> Nat], NEW h \in [Nat -> Nat], NEW c \in Nat,
             \A d \in Nat : rank[d] < rank[c] => g[d] = h[d]
      PROVE  F[g][c] = F[h][c]
  <2>1. CASE c = 0
    BY <2>1
  <2>2. CASE c # 0
    <3>1. Doubled(g, c) = Doubled(h, c)
      <4>1. CASE c > SINK_MAX \div 2
        BY <4>1 DEF NextCapacity
      <4>2. CASE ~(c > SINK_MAX \div 2)
        <5>1. 2 * c \in Nat /\ 2 * c <= SINK_MAX /\ c < 2 * c /\ c <= SINK_MAX
          BY <1>1, <2>2, <4>2
        <5>2. rank[2 * c] = SINK_MAX - 2 * c /\ rank[c] = SINK_MAX - c
          BY <5>1
        <5>3. rank[2 * c] < rank[c]
          BY <1>0, <5>1, <5>2
        <5>4. g[2 * c] = h[2 * c]
          <6> HIDE DEF rank
          <6> QED BY <1>3, <5>1, <5>3
        <5> QED BY <5>4 DEF NextCapacity
      <4> QED BY <4>1, <4>2
    <3>2. F[g] = [d \in Nat |-> IF d = 0 THEN 0 ELSE Doubled(g, d)]
      OBVIOUS
    <3>3. F[h] = [d \in Nat |-> IF d = 0 THEN 0 ELSE Doubled(h, d)]
      OBVIOUS
    <3> HIDE DEF F, Doubled
    <3> QED BY <3>1, <3>2, <3>3
  <2> QED BY <2>1, <2>2
<1>4. \E f \in [Nat -> Nat] : f = F[f]
  <2> DEFINE S == Nat
             X == Nat
  <2>1. rank \in [S -> Nat] /\ g0 \in [S -> X]
    BY <1>0
  <2> HIDE DEF F, rank, g0
  <2>2. DependsOnLess(F, S, X, rank)
    BY <1>2, <1>3, Zenon DEF DependsOnLess
  <2>3. \E f \in [S -> X] : f = F[f]
    <3> HIDE DEF S, X
    <3> QED BY <2>1, <2>2, RecursiveFunctionExists
  <2> QED BY <2>3
<1>5. \E f : f = [c \in Nat |-> Doubled(f, c)]
  <2>1. PICK f \in [Nat -> Nat] : f = F[f]
    BY <1>4
  <2>2. F[f] = [c \in Nat |-> IF c = 0 THEN 0 ELSE Doubled(f, c)]
    OBVIOUS
  <2>3. f = [c \in Nat |-> IF c = 0 THEN 0 ELSE Doubled(f, c)]
    <3> HIDE DEF F, Doubled
    <3> QED BY <2>1, <2>2
  <2>4. f[0] = 0
    <3> HIDE DEF F, Doubled
    <3> QED BY <2>3
  <2>5. Doubled(f, 0) = 0
    BY <2>4 DEF NextCapacity
  <2>6. \A c \in Nat : (IF c = 0 THEN 0 ELSE Doubled(f, c)) = Doubled(f, c)
    <3> HIDE DEF F, Doubled
    <3> QED BY <2>5
  <2>7. [c \in Nat |-> IF c = 0 THEN 0 ELSE Doubled(f, c)] = [c \in Nat |-> Doubled(f, c)]
    <3> HIDE DEF F, Doubled
    <3> QED BY <2>6
  <2>8. f = [c \in Nat |-> Doubled(f, c)]
    <3> HIDE DEF F, Doubled
    <3> QED BY <2>3, <2>7, Zenon
  <2> HIDE DEF F, Doubled
  <2> QED BY <2>8
<1> DEFINE grown == CHOOSE f : f = [c \in Nat |-> Doubled(f, c)]
<1>6. grown = [c \in Nat |-> Doubled(grown, c)]
  <2> HIDE DEF F, Doubled
  <2> QED BY <1>5
<1>7. Grown(cap, used, n) = grown[IF cap = 0 THEN SINK_INITIAL ELSE cap]
  BY DEF Grown, NextCapacity
<1>8. \A c \in Nat : grown[c] = Doubled(grown, c)
  <2> HIDE DEF grown, Doubled
  <2> QED BY <1>6
<1> HIDE DEF grown
<1> DEFINE Good == {k \in Nat : \A c \in 1..SINK_MAX : SINK_MAX - c <= k =>
                                  grown[c] \in Capacities(used, n)}
<1>9. ASSUME NEW c \in 1..SINK_MAX,
             \A d \in 1..SINK_MAX : c < d => grown[d] \in Capacities(used, n)
      PROVE  grown[c] \in Capacities(used, n)
  <2>1. grown[c] = NextCapacity(grown, used, n, c) /\ c \in Nat /\ c # 0
    BY <1>0, <1>8
  <2>2. CASE c - used >= n
    BY <2>1, <2>2 DEF NextCapacity, Capacities
  <2>3. CASE ~(c - used >= n) /\ c > SINK_MAX \div 2
    BY <2>1, <2>3 DEF NextCapacity, Capacities
  <2>4. CASE ~(c - used >= n) /\ ~(c > SINK_MAX \div 2)
    <3>1. 2 * c \in 1..SINK_MAX /\ c < 2 * c
      BY <1>1, <2>1, <2>4
    <3> QED BY <1>9, <2>1, <2>4, <3>1 DEF NextCapacity
  <2> QED BY <2>2, <2>3, <2>4
<1>10. 0 \in Good
  <2>1. ASSUME NEW c \in 1..SINK_MAX, SINK_MAX - c <= 0
        PROVE  grown[c] \in Capacities(used, n)
    <3>1. \A d \in 1..SINK_MAX : ~(c < d)
      BY <1>0, <2>1
    <3> QED BY <1>9, <3>1
  <2> QED BY <2>1
<1>11. ASSUME NEW k \in Nat, k \in Good
       PROVE  k + 1 \in Good
  <2>1. ASSUME NEW c \in 1..SINK_MAX, SINK_MAX - c <= k + 1
        PROVE  grown[c] \in Capacities(used, n)
    <3>1. \A d \in 1..SINK_MAX : c < d => SINK_MAX - d <= k
      BY <1>0, <2>1
    <3> QED BY <1>9, <1>11, <3>1
  <2> QED BY <2>1
<1>12. Nat \subseteq Good
  <2> HIDE DEF Good
  <2> QED BY <1>10, <1>11, InductionOverSet
<1>13. \A c \in 1..SINK_MAX : grown[c] \in Capacities(used, n)
  <2> TAKE c \in 1..SINK_MAX
  <2>1. SINK_MAX - c \in Nat /\ SINK_MAX - c <= SINK_MAX - c
    BY <1>0
  <2>2. SINK_MAX - c \in Good
    <3> HIDE DEF Good
    <3> QED BY <1>12, <2>1
  <2> QED BY <2>1, <2>2
<1> QED BY <1>0, <1>7, <1>13

---------------------------------------------------------------------------
(* The heap: a tree, and the buffer beside it.                             *)

\* A tree is what its nodes say it is, whatever else is allocated.
LEMMA SameTree ==
  ASSUME NEW m, HeapType(m), NEW m2, HeapType(m2), m2.node = m.node, NEW v \in Nat
  PROVE  /\ \A n : Children(m2, n) = Children(m, n)
         /\ Tree(m2, v) = Tree(m, v) /\ Blocks(m2, v) = Blocks(m, v)
<1>1. \A n : Children(m2, n) = Children(m, n)
  BY DEF Children
<1>2. PICK level : Levels(m, v, level)
  BY TreeHasLevels
<1>3. PICK level2 : Levels(m2, v, level2)
  BY TreeHasLevels
<1> DEFINE Same == {d \in Nat : level2[d] = level[d]}
<1>4. 0 \in Same
  BY <1>2, <1>3 DEF Levels
<1>5. ASSUME NEW d \in Nat, d \in Same
      PROVE  d + 1 \in Same
  <2>1. level2[d + 1] = UNION { Children(m2, n) : n \in level2[d] }
    BY <1>3 DEF Levels
  <2>2. level[d + 1] = UNION { Children(m, n) : n \in level[d] }
    BY <1>2 DEF Levels
  <2>3. level2[d] = level[d]
    BY <1>5
  <2>4. UNION { Children(m2, n) : n \in level[d] } = UNION { Children(m, n) : n \in level[d] }
    BY <1>1
  <2>5. level2[d + 1] = level[d + 1]
    BY <2>1, <2>2, <2>3, <2>4, Zenon
  <2> QED BY <2>5
<1>6. Nat \subseteq Same
  <2> HIDE DEF Same
  <2> QED BY <1>4, <1>5, InductionOverSet
<1>7. Tree(m2, v) = Tree(m, v)
  <2> DEFINE c == Cardinality(DOMAIN m.node)
  <2>1. \A d \in 0..c : level2[d] = level[d]
    BY <1>6
  <2>2. Tree(m, v) = UNION { level[d] : d \in 0..c }
    BY <1>2 DEF Levels
  <2>3. Tree(m2, v) = UNION { level2[d] : d \in 0..c }
    BY <1>3 DEF Levels
  <2> QED BY <2>1, <2>2, <2>3
<1>8. \A n : BlocksOf(m2, n) = BlocksOf(m, n)
  BY DEF BlocksOf
<1> QED BY <1>1, <1>7, <1>8 DEF Blocks

Held(alloc, b) == IF b = NULL THEN {} ELSE {<<alloc, b>>}

\* The blocks of T, and block b besides.
Holds(m, T, alloc, b) ==
  HeapType(m) /\ m.live = T \cup Held(alloc, b) /\ Held(alloc, b) \cap T = {}

\* Freeing the block leaves the others.
LEMMA BlockFreed ==
  ASSUME NEW m, NEW T, NEW alloc, NEW b, Holds(m, T, alloc, b)
  PROVE  Holds(bencode_free(m, alloc, b), T, alloc, NULL) /\ bencode_free(m, alloc, b).node = m.node
<1> DEFINE f == bencode_free(m, alloc, b)
<1>1. CASE b = NULL
  BY <1>1 DEF bencode_free, Holds, Held
<1>2. CASE b # NULL
  <2> DEFINE blocks == {<<alloc, b>>}
  <2>1. HeapType(m) /\ m.live = T \cup blocks /\ blocks \cap T = {}
    BY <1>2 DEF Holds, Held
  <2>2. blocks \subseteq m.live /\ m.live \ blocks = T
    BY <2>1
  <2>3. f = Release(m, blocks)
    BY <1>2 DEF bencode_free
  <2> HIDE DEF blocks, f
  <2>4. f = Heap(T, m.node, m.fault)
    BY <2>1, <2>2, <2>3, ReleaseFromHeap
  <2>5. f.live = T /\ f.node = m.node /\ f.fault = m.fault
    BY <2>4, HeapFields
  <2>6. IsFiniteSet(T) /\ T \subseteq m.live
    BY <2>1, FS_Subset DEF HeapType
  <2>7. HeapType(f)
    BY <2>1, <2>4, <2>5, <2>6 DEF HeapType
  <2>8. Holds(f, T, alloc, NULL)
    BY <2>5, <2>7 DEF Holds, Held
  <2> QED BY <2>5, <2>8 DEF f
<1> QED BY <1>1, <1>2

\* Allocating a block for the buffer, then freeing the one it had.
LEMMA BlockReplaced ==
  ASSUME NEW m, NEW T, NEW alloc \in Allocator, NEW b, Holds(m, T, alloc, b),
         NEW a \in bencode_alloc(m, alloc), a.ptr # NULL
  PROVE  LET f == bencode_free(a.mem, alloc, b)
         IN  a.ptr \in Nat /\ Holds(f, T, alloc, a.ptr) /\ f.node = m.node
<1> DEFINE x == FreeBlock(m)
           m1 == [m EXCEPT !.live = @ \cup {<<alloc, x>>}]
           T1 == T \cup Held(alloc, x)
           f == bencode_free(m1, alloc, b)
<1>1. HeapType(m) /\ m.live = T \cup Held(alloc, b) /\ Held(alloc, b) \cap T = {}
  BY DEF Holds
<1>2. x \in Block /\ \A k \in m.live : k[2] # x
  BY <1>1, FreeBlockIsFree DEF HeapType
<1>3. a.mem = m1 /\ a.ptr = x
  BY DEF bencode_alloc
<1>4. m1.live = m.live \cup {<<alloc, x>>} /\ m1.node = m.node /\ HeapType(m1)
  BY <1>1, <1>2, AllocHeap
<1>5. x \in Nat /\ x # NULL /\ Held(alloc, x) = {<<alloc, x>>} /\ <<alloc, x>> \notin m.live
  BY <1>2 DEF Block, Held
<1> HIDE DEF x, m1
<1>6. Holds(m1, T1, alloc, b)
  BY <1>1, <1>4, <1>5 DEF Holds
<1>7. Holds(f, T1, alloc, NULL) /\ f.node = m1.node
  BY <1>6, BlockFreed
<1>8. Holds(f, T, alloc, x)
  BY <1>1, <1>5, <1>7 DEF Holds, Held
<1> QED BY <1>3, <1>4, <1>5, <1>7, <1>8

---------------------------------------------------------------------------
(* The tasks.                                                              *)

LEMMA TaskTypes ==
  /\ \A b \in Bytes : Write(b) \in TaskType
  /\ \A n \in DOMAIN heap.node : EmitValue(n) \in TaskType
  /\ \A n \in DOMAIN heap.node, k \in Nat \ {0} : Rest(n, k) \in TaskType
BY DEF Write, EmitValue, Rest, Task, TaskType

LEMMA TasksConcat ==
  ASSUME NEW s \in Seq(TaskType), NEW t \in Seq(TaskType)
  PROVE  s \o t \in Seq(TaskType)
BY ConcatProperties

LEMMA EmitStringTasks ==
  ASSUME NEW bytes \in Bytes
  PROVE  emit_string(bytes) \in Seq(TaskType)
<1>1. decimal[Len(bytes)] \in Bytes
  BY BytesConcat, DecimalIsBytes
<1>2. <<Colon>> \in Bytes
  BY OneByte DEF Colon, Byte
<1>3. Write(decimal[Len(bytes)] \o <<Colon>>) \in TaskType /\ Write(bytes) \in TaskType
  BY <1>1, <1>2, BytesConcat, TaskTypes
<1> HIDE DEF TaskType
<1> QED BY <1>3 DEF emit_string

\* A value, or what is left of a container, comes apart into tasks.
LEMMA UnfoldTasks ==
  ASSUME EmitInv, NEW t \in TaskType, t.kind # "bytes"
  PROVE  Unfold(t) \in Seq(TaskType)
<1> DEFINE n == t.node
           nd == heap.node[n]
<1>1. HeapType(heap) /\ n \in DOMAIN heap.node
  BY DEF EmitInv, EmitTypeOK, TaskType
<1>2. /\ nd \in NodeType /\ Len(nd.entries) \in Nat /\ DOMAIN nd.entries = 1..Len(nd.entries)
      /\ \A k \in DOMAIN nd.entries : nd.entries[k] \in EntryType
  BY <1>1, NodeFacts
<1>3. <<ch_e>> \in Bytes /\ <<ch_i>> \in Bytes /\ <<ch_l>> \in Bytes /\ <<ch_d>> \in Bytes
  BY OneByte DEF Byte, ch_e, ch_i, ch_l, ch_d
<1>4. CASE t.kind = "value"
  <2>1. Unfold(t) = emit_value(n)
    BY <1>4 DEF Unfold
  <2>2. CASE nd.type = "INT"
    <3>1. signed_decimal(nd.i) \in Bytes
      BY <1>2, SignedDecimalIsBytes DEF NodeType
    <3>2. <<ch_i>> \o signed_decimal(nd.i) \o <<ch_e>> \in Bytes
      BY <1>3, <3>1, BytesConcat
    <3>3. emit_int(nd.i) \in Seq(TaskType)
      BY <3>2, TaskTypes DEF emit_int
    <3> QED BY <2>1, <2>2, <3>3 DEF emit_value
  <2>3. CASE nd.type = "STRING"
    <3>1. emit_string(nd.bytes) \in Seq(TaskType)
      BY <1>2, EmitStringTasks DEF NodeType
    <3> QED BY <2>1, <2>3, <3>1 DEF emit_value
  <2>4. CASE nd.type = "LIST"
    <3>1. Write(<<ch_l>>) \in TaskType /\ Rest(n, 1) \in TaskType
      BY <1>1, <1>3, TaskTypes
    <3>2. emit_value(n) = << Write(<<ch_l>>), Rest(n, 1) >>
      BY <2>4 DEF emit_value
    <3> HIDE DEF TaskType
    <3> QED BY <2>1, <3>1, <3>2
  <2>5. CASE nd.type = "DICT"
    <3>1. Write(<<ch_d>>) \in TaskType /\ Rest(n, 1) \in TaskType
      BY <1>1, <1>3, TaskTypes
    <3>2. emit_value(n) = << Write(<<ch_d>>), Rest(n, 1) >>
      BY <2>5 DEF emit_value
    <3> QED BY <2>1, <3>1, <3>2
  <2> QED BY <1>2, <2>2, <2>3, <2>4, <2>5 DEF NodeType
<1>5. CASE t.kind = "rest"
  <2> DEFINE k == t.k
             keys == IF nd.type = "DICT" THEN emit_string(nd.entries[k].key) ELSE <<>>
             more == << EmitValue(nd.entries[k].value), Rest(n, k + 1) >>
  <2>1. Unfold(t) = emit_rest(n, k) /\ k \in Nat \ {0}
    BY <1>5 DEF Unfold, TaskType
  <2>2. CASE k > Len(nd.entries)
    <3>1. << Write(<<ch_e>>) >> \in Seq(TaskType)
      BY <1>3, TaskTypes
    <3> QED BY <2>1, <2>2, <3>1 DEF emit_rest
  <2>3. CASE ~(k > Len(nd.entries))
    <3>1. k \in DOMAIN nd.entries
      BY <1>2, <2>1, <2>3
    <3>2. nd.entries[k].key \in Bytes /\ nd.entries[k].value \in Children(heap, n)
      BY <1>1, <1>2, <3>1 DEF EntryType, Children
    <3>3. nd.entries[k].value \in DOMAIN heap.node
      BY <1>1, <3>2 DEF EmitInv
    <3>4. keys \in Seq(TaskType)
      BY <3>2, EmitStringTasks
    <3>5. EmitValue(nd.entries[k].value) \in TaskType /\ Rest(n, k + 1) \in TaskType
      BY <1>1, <2>1, <3>3, TaskTypes
    <3>6. more \in Seq(TaskType)
      BY <3>5
    <3>7. keys \o more \in Seq(TaskType)
      <4> HIDE DEF keys, more
      <4> QED BY <3>4, <3>6, TasksConcat
    <3> QED BY <2>1, <2>3, <3>7 DEF emit_rest
  <2> QED BY <2>2, <2>3
<1> QED BY <1>4, <1>5 DEF TaskType

\* The task at hand, and those after it.
LEMMA HeadAndTail ==
  ASSUME EmitInv, tasks # <<>>
  PROVE  /\ Head(tasks) \in TaskType /\ Tail(tasks) \in Seq(TaskType)
         /\ Head(tasks).kind = "bytes" => Head(tasks).bytes \in Bytes
<1>1. tasks \in Seq(TaskType)
  BY DEF EmitInv, EmitTypeOK
<1>2. Head(tasks) \in TaskType /\ Tail(tasks) \in Seq(TaskType)
  BY <1>1, HeadTailProperties
<1> QED BY <1>2 DEF TaskType

---------------------------------------------------------------------------
(* The sinks.                                                              *)

\* BufferHolds, of any sink.
HasSpace(s) == Len(s.got) <= s.cap /\ s.cap <= SINK_MAX /\ (s.cap = 0 <=> s.bytes = NULL)

\* A sink that took chunk, or part of it.
LEMMA AcceptedSink ==
  ASSUME NEW s \in SinkType, NEW chunk \in Bytes
  PROVE  /\ Accepted(s, chunk) \in SinkType /\ Accepted(s, chunk).bytes = s.bytes
         /\ Accepted(s, chunk).cap = s.cap /\ Accepted(s, chunk).got = s.got \o chunk
         /\ Len(Accepted(s, chunk).got) = Len(s.got) + Len(chunk)
         /\ Len(s.got) \in Nat /\ Len(chunk) \in Nat
<1>1. s.got \in Bytes
  BY DEF SinkType
<1>2. s.got \o chunk \in Bytes /\ Len(s.got \o chunk) = Len(s.got) + Len(chunk)
  BY <1>1, BytesConcat
<1>3. Accepted(s, chunk) \in SinkType
  <2> DEFINE g == s.got \o chunk
             c == s.calls + 1
             s1 == [s EXCEPT !.got = g]
             s2 == [s1 EXCEPT !.calls = c]
  <2>1. Accepted(s, chunk) = s2
    BY DEF Accepted, SinkType
  <2>2. g \in Bytes /\ c \in Nat
    BY <1>2 DEF SinkType
  <2> HIDE DEF g, c
  <2>3. s1 \in SinkType
    BY <2>2 DEF SinkType
  <2> HIDE DEF s1
  <2>4. s2 \in SinkType
    BY <2>2, <2>3 DEF SinkType
  <2> QED BY <2>1, <2>4
<1> QED BY <1>1, <1>2, <1>3, BytesConcat DEF Accepted, SinkType

\* The heap while the emitter has the buffer.
LEMMA WalkHolds ==
  ASSUME EmitInv, emit_pc # "released", ~(emit_pc = "returned" /\ emit_status # "OK")
  PROVE  Holds(heap, Blocks(heap, root), target.alloc, sink.bytes)
<1>1. Buffer = Held(target.alloc, sink.bytes)
  BY DEF Buffer, Held
<1> QED BY <1>1 DEF EmitInv, EmitTypeOK, BufferOwned, Holds

\* What a call of the sink may leave behind.
Leaves(r) ==
  /\ r.sink \in SinkType /\ r.status \in bencode_status /\ r.heap.node = heap.node
  /\ Holds(r.heap, Blocks(heap, root), target.alloc, r.sink.bytes)
  /\ target.entry = "buffer" => HasSpace(r.sink)
  /\ target.entry # "buffer" => r.sink.bytes = NULL

LEMMA UserSink ==
  ASSUME EmitInv, emit_pc = "walk", target.entry = "callback", NEW chunk \in Bytes,
         NEW r \in user_sink(sink, heap, chunk)
  PROVE  Leaves(r)
<1>1. sink \in SinkType /\ sink.bytes = NULL
  BY DEF EmitInv, EmitTypeOK
<1>2. Holds(heap, Blocks(heap, root), target.alloc, sink.bytes)
  BY WalkHolds
<1>3. CASE r = Sunk(Accepted(sink, chunk), heap, "OK")
  BY <1>1, <1>2, <1>3, AcceptedSink DEF Sunk, Leaves, bencode_status
<1>4. CASE \E st \in SinkErrors : r = Sunk([sink EXCEPT !.calls = @ + 1], heap, st)
  <2>1. PICK st \in SinkErrors : r = Sunk([sink EXCEPT !.calls = @ + 1], heap, st)
    BY <1>4
  <2>2. [sink EXCEPT !.calls = @ + 1] \in SinkType /\ [sink EXCEPT !.calls = @ + 1].bytes = NULL
    BY <1>1 DEF SinkType
  <2>3. r.sink = [sink EXCEPT !.calls = @ + 1] /\ r.heap = heap /\ r.status = st
    BY <2>1 DEF Sunk
  <2>4. r.status \in bencode_status
    BY <2>3, EmitAssumption
  <2> QED BY <1>1, <1>2, <2>2, <2>3, <2>4 DEF Leaves
<1> QED BY <1>3, <1>4 DEF user_sink

LEMMA FileSink ==
  ASSUME EmitInv, emit_pc = "walk", target.entry = "file", NEW chunk \in Bytes,
         NEW r \in emit_to_file_cb(sink, heap, chunk)
  PROVE  Leaves(r)
<1> DEFINE kept == Accepted(sink, chunk)
           passed == [kept EXCEPT !.delivered = Len(kept.got)]
<1>1. sink \in SinkType /\ sink.bytes = NULL
  BY DEF EmitInv, EmitTypeOK
<1>2. Holds(heap, Blocks(heap, root), target.alloc, sink.bytes)
  BY WalkHolds
<1>3. kept \in SinkType /\ kept.bytes = NULL /\ Len(kept.got) \in Nat
  BY <1>1, AcceptedSink
<1>4. passed \in SinkType /\ passed.bytes = NULL
  <2> HIDE DEF kept
  <2> QED BY <1>3 DEF SinkType
<1>5. \A n \in 0..(Len(chunk) - 1) :
        Accepted(sink, SubSeq(chunk, 1, n)) \in SinkType /\ Accepted(sink, SubSeq(chunk, 1, n)).bytes = NULL
  <2> TAKE n \in 0..(Len(chunk) - 1)
  <2>1. chunk \in Seq(Byte) /\ Len(chunk) \in Nat
    BY LenProperties DEF Bytes
  <2>2. \A i \in 1..n : chunk[i] \in Byte
    BY <2>1, ElementOfSeq
  <2>3. SubSeq(chunk, 1, n) \in Bytes
    BY <2>1, <2>2, SubSeqProperties DEF Bytes
  <2> QED BY <1>1, <2>3, AcceptedSink
<1>6. r.sink \in SinkType /\ r.sink.bytes = NULL /\ r.heap = heap /\ r.status \in {"OK", "IO"}
  <2> HIDE DEF kept, passed
  <2>1. \/ r = Sunk(kept, heap, "OK") \/ r = Sunk(passed, heap, "OK")
        \/ \E n \in 0..(Len(chunk) - 1) : r = Sunk(Accepted(sink, SubSeq(chunk, 1, n)), heap, "IO")
    BY DEF emit_to_file_cb, kept, passed
  <2> QED BY <1>3, <1>4, <1>5, <2>1 DEF Sunk
<1> QED BY <1>1, <1>2, <1>6 DEF Leaves, bencode_status

\* The buffer takes all of the chunk, or none of it, and its block is always
\* the one its capacity was asked for.
LEMMA AllocSink ==
  ASSUME EmitInv, emit_pc = "walk", target.entry = "buffer", NEW chunk \in Bytes,
         NEW r \in alloc_sink_append(sink, heap, chunk)
  PROVE  Leaves(r)
<1> DEFINE T == Blocks(heap, root)
           new_cap == Grown(sink.cap, Len(sink.got), Len(chunk))
           taken == Accepted(sink, chunk)
<1>1. sink \in SinkType /\ HasSpace(sink) /\ target.alloc \in Allocator
  BY DEF EmitInv, EmitTypeOK, BufferHolds, HasSpace, TargetType
<1>2. Holds(heap, T, target.alloc, sink.bytes)
  BY WalkHolds
<1>3. /\ taken \in SinkType /\ taken.bytes = sink.bytes /\ taken.cap = sink.cap
      /\ Len(taken.got) = Len(sink.got) + Len(chunk) /\ Len(sink.got) \in Nat /\ Len(chunk) \in Nat
  BY <1>1, AcceptedSink
<1>4. CASE r = OutOfRoom(sink, heap)
  <2> DEFINE c == sink.calls + 1
             s1 == [sink EXCEPT !.calls = c]
             s2 == [s1 EXCEPT !.oom = TRUE]
  <2>1. r = Sunk(s2, heap, "NOMEM")
    BY <1>1, <1>4 DEF OutOfRoom, SinkType
  <2>2. c \in Nat
    BY <1>1 DEF SinkType
  <2> HIDE DEF c
  <2>3. s1 \in SinkType /\ s1.got = sink.got /\ s1.cap = sink.cap /\ s1.bytes = sink.bytes
    BY <1>1, <2>2 DEF SinkType
  <2> HIDE DEF s1
  <2>4. s2 \in SinkType /\ s2.got = s1.got /\ s2.cap = s1.cap /\ s2.bytes = s1.bytes
    BY <2>3 DEF SinkType
  <2> HIDE DEF s2
  <2>5. HasSpace(s2)
    BY <1>1, <2>3, <2>4 DEF HasSpace
  <2>6. r.sink = s2 /\ r.heap = heap /\ r.status = "NOMEM"
    BY <2>1 DEF Sunk
  <2> QED BY <1>2, <2>3, <2>4, <2>5, <2>6 DEF Leaves, bencode_status
<1>5. CASE sink.cap - Len(sink.got) >= Len(chunk) /\ r = Sunk(taken, heap, "OK")
  <2>1. r.sink = taken /\ r.heap = heap /\ r.status = "OK"
    BY <1>5 DEF Sunk
  <2>2. HasSpace(taken)
    <3> HIDE DEF taken
    <3> QED BY <1>1, <1>3, <1>5 DEF HasSpace, SinkType
  <2> QED BY <1>2, <1>3, <2>1, <2>2 DEF Leaves, bencode_status
<1>6. ASSUME new_cap # 0, NEW a \in bencode_alloc(heap, target.alloc), a.ptr # NULL,
             r = Moved(sink, chunk, a, new_cap)
      PROVE  Leaves(r)
  <2> DEFINE grown == [taken EXCEPT !.bytes = a.ptr, !.cap = new_cap]
             m == bencode_free(a.mem, target.alloc, sink.bytes)
  <2>1. r.sink = grown /\ r.heap = m /\ r.status = "OK"
    BY <1>6 DEF Moved, Sunk
  <2>2. a.ptr \in Nat /\ Holds(m, T, target.alloc, a.ptr) /\ m.node = heap.node
    <3> HIDE DEF T
    <3> QED BY <1>1, <1>2, <1>6, BlockReplaced
  <2>3. sink.cap \in 0..SINK_MAX
    BY <1>1 DEF HasSpace, SinkType
  <2>4. new_cap \in Capacities(Len(sink.got), Len(chunk))
    BY <1>3, <2>3, GrownHasRoom
  <2> HIDE DEF new_cap, taken, m, T
  <2>5. new_cap \in 1..SINK_MAX /\ new_cap - Len(sink.got) >= Len(chunk)
    BY <1>6, <2>4 DEF Capacities
  <2>6. new_cap \in Nat /\ new_cap <= SINK_MAX /\ Len(sink.got) + Len(chunk) <= new_cap
    BY <1>3, <2>5, EmitAssumption
  <2>7. grown \in SinkType /\ grown.bytes = a.ptr /\ grown.cap = new_cap /\ grown.got = taken.got
    BY <1>3, <2>2, <2>6 DEF SinkType
  <2>8. HasSpace(grown)
    <3> HIDE DEF grown
    <3> QED BY <1>3, <1>6, <2>6, <2>7 DEF HasSpace
  <2> HIDE DEF grown
  <2> QED BY <1>1, <2>1, <2>2, <2>7, <2>8 DEF Leaves, bencode_status, T
<1>7. \/ r = OutOfRoom(sink, heap)
      \/ sink.cap - Len(sink.got) >= Len(chunk) /\ r = Sunk(taken, heap, "OK")
      \/ /\ new_cap # 0
         /\ \E a \in bencode_alloc(heap, target.alloc) :
              a.ptr # NULL /\ r = Moved(sink, chunk, a, new_cap)
  BY DEF alloc_sink_append
<1> HIDE DEF new_cap, taken, T
<1> QED BY <1>4, <1>5, <1>6, <1>7

---------------------------------------------------------------------------
(* The invariant.                                                          *)

\* The allocator is asked for nothing before the walk, and the tree is all
\* there is.
EmitAtEntry ==
  /\ root \in Nat /\ OneTree(heap, root) /\ target \in TargetType
  /\ emit_pc = "entry" /\ tasks = <<>> /\ sink = NewSink /\ emit_status = "OK"

LEMMA EntryEmitInv == EmitAtEntry => EmitInv
<1> SUFFICES ASSUME EmitAtEntry PROVE EmitInv
  OBVIOUS
<1>2. root \in Nat /\ HeapInv(heap, {}) /\ DOMAIN heap.node = Tree(heap, root)
  BY DEF EmitAtEntry, OneTree
<1>3. HeapType(heap) /\ HeldOnce(heap, {}) /\ OneParent(heap)
  BY <1>2 DEF HeapInv
<1>4. heap.live = Blocks(heap, root) /\ heap.fault = FALSE
  BY <1>2, <1>3 DEF HeldOnce, Blocks, HeapType
<1>5. root \in {NULL} \cup DOMAIN heap.node
  BY <1>2, <1>3, RootInTree
<1>6. ASSUME NEW n \in DOMAIN heap.node
      PROVE  Children(heap, n) \subseteq DOMAIN heap.node
  BY <1>3 DEF OneParent, Children
<1>7. sink \in SinkType /\ sink.bytes = NULL /\ sink.cap = 0 /\ Len(sink.got) = 0
  <2>1. <<>> \in Bytes /\ 0 \in Nat /\ Len(<<>>) = 0
    BY DEF Bytes
  <2> QED BY <2>1 DEF EmitAtEntry, NewSink, SinkType, NULL
<1>8. tasks \in Seq(TaskType)
  BY DEF EmitAtEntry
<1>9. EmitTypeOK
  BY <1>3, <1>5, <1>7, <1>8 DEF EmitAtEntry, EmitTypeOK, bencode_status
<1>10. Buffer = {}
  BY <1>7 DEF Buffer
<1>11. BufferHolds /\ BufferOwned
  BY <1>4, <1>7, <1>10, EmitAssumption DEF BufferHolds, BufferOwned
<1> QED BY <1>6, <1>7, <1>9, <1>10, <1>11 DEF EmitInv

LEMMA InitIsEntry == EmitInit => EmitAtEntry
<1> SUFFICES ASSUME EmitInit PROVE EmitAtEntry
  OBVIOUS
<1>1. PICK t \in Trees : heap = t[1] /\ root = t[2]
  BY DEF EmitInit
<1> QED BY <1>1, TreesAssumption, EmitAssumption DEF EmitInit, EmitAtEntry

LEMMA InitEmitInv == EmitInit => EmitInv
BY InitIsEntry, EntryEmitInv

\* The tasks of a step that leaves the nodes as they are.
LEMMA SameTasks ==
  ASSUME heap'.node = heap.node
  PROVE  TaskType' = TaskType
BY DEF TaskType

\* A step leaves the nodes as they are; what is to be shown is of the others.
LEMMA KeepsInv ==
  ASSUME EmitInv, heap'.node = heap.node, HeapType(heap'), root' = root, target' = target,
         emit_pc' \in {"entry", "walk", "returned", "released"}, emit_status' \in bencode_status,
         tasks' \in Seq(TaskType), sink' \in SinkType, BufferHolds',
         heap'.live = Blocks(heap, root) \cup Buffer', Buffer' \cap Blocks(heap, root) = {},
         sink'.bytes # NULL => target.entry = "buffer" /\ emit_pc' # "entry"
  PROVE  EmitInv'
<1>1. HeapType(heap) /\ root \in {NULL} \cup DOMAIN heap.node
  BY DEF EmitInv, EmitTypeOK
<1>2. root \in Nat
  BY <1>1 DEF HeapType, Block, NULL
<1>3. Blocks(heap', root') = Blocks(heap, root) /\ \A n : Children(heap', n) = Children(heap, n)
  BY <1>1, <1>2, SameTree
<1>4. EmitTypeOK'
  BY <1>1, SameTasks DEF EmitInv, EmitTypeOK
<1>5. BufferOwned'
  BY <1>3 DEF BufferOwned, HeapType
<1>6. \A n \in DOMAIN heap'.node : Children(heap', n) \subseteq DOMAIN heap'.node
  BY <1>3 DEF EmitInv
<1> QED BY <1>3, <1>4, <1>5, <1>6 DEF EmitInv

\* A step that has nothing to do with the buffer.
LEMMA LeavesBuffer ==
  ASSUME EmitInv, UNCHANGED <<heap, root, target>>,
         emit_pc' \in {"walk", "returned"}, emit_status' \in bencode_status,
         tasks' \in Seq(TaskType), sink' \in SinkType, BufferHolds',
         sink'.bytes = sink.bytes, Buffer' = Buffer
  PROVE  EmitInv'
BY KeepsInv DEF EmitInv, EmitTypeOK, BufferOwned

LEMMA EntryKeepsInv ==
  ASSUME EmitInv, RefuseEmit \/ StartEmit
  PROVE  EmitInv'
<1>1. sink.bytes = NULL /\ UNCHANGED <<heap, root, target, sink>>
  BY DEF EmitInv, RefuseEmit, StartEmit
<1>2. Buffer = {} /\ Buffer' = {}
  BY <1>1 DEF Buffer
<1>3. sink' \in SinkType /\ BufferHolds'
  BY <1>1 DEF EmitInv, EmitTypeOK, BufferHolds
<1>4. CASE RefuseEmit
  BY <1>1, <1>2, <1>3, <1>4, LeavesBuffer DEF RefuseEmit, EmitInv, EmitTypeOK, bencode_status
<1>5. CASE StartEmit
  <2>1. root \in DOMAIN heap.node
    BY <1>5 DEF StartEmit, BadArguments, EmitInv, EmitTypeOK
  <2>2. tasks' \in Seq(TaskType)
    BY <1>5, <2>1, TaskTypes DEF StartEmit
  <2> QED BY <1>1, <1>2, <1>3, <1>5, <2>2, LeavesBuffer DEF StartEmit, EmitInv, EmitTypeOK
<1> QED BY <1>4, <1>5

LEMMA WalkKeepsInv ==
  ASSUME EmitInv, TakeApart \/ SkipEmpty
  PROVE  EmitInv'
<1>1. UNCHANGED <<heap, root, target, emit_pc, sink, emit_status>> /\ tasks # <<>> /\ emit_pc = "walk"
  BY DEF TakeApart, SkipEmpty
<1>2. Head(tasks) \in TaskType /\ Tail(tasks) \in Seq(TaskType)
  BY <1>1, HeadAndTail
<1>3. tasks' \in Seq(TaskType)
  <2>1. CASE TakeApart
    <3>1. Unfold(Head(tasks)) \in Seq(TaskType)
      BY <1>2, <2>1, UnfoldTasks DEF TakeApart
    <3>2. Unfold(Head(tasks)) \o Tail(tasks) \in Seq(TaskType)
      BY <1>2, <3>1, TasksConcat
    <3> QED BY <2>1, <3>2 DEF TakeApart
  <2>2. CASE SkipEmpty
    BY <1>2, <2>2 DEF SkipEmpty
  <2> QED BY <2>1, <2>2
<1>4. Buffer' = Buffer /\ sink' \in SinkType /\ BufferHolds' /\ emit_status' \in bencode_status
  BY <1>1 DEF Buffer, EmitInv, EmitTypeOK, BufferHolds
<1> QED BY <1>1, <1>3, <1>4, LeavesBuffer

LEMMA BytesKeepInv ==
  ASSUME EmitInv, emit_bytes
  PROVE  EmitInv'
<1>1. /\ emit_pc = "walk" /\ tasks # <<>> /\ Head(tasks).kind = "bytes"
      /\ UNCHANGED <<root, target, emit_pc>>
  BY DEF emit_bytes
<1>2. Head(tasks).bytes \in Bytes /\ Tail(tasks) \in Seq(TaskType)
  BY <1>1, HeadAndTail
<1>3. PICK r \in Sink(Head(tasks).bytes) :
        sink' = r.sink /\ heap' = r.heap /\ emit_status' = r.status /\ tasks' = Left(r.status)
  BY DEF emit_bytes
<1>4. target.entry \in {"callback", "file", "buffer"}
  BY DEF EmitInv, EmitTypeOK, TargetType
<1>5. Leaves(r)
  BY <1>1, <1>2, <1>3, <1>4, UserSink, FileSink, AllocSink DEF Sink
<1>6. tasks' \in Seq(TaskType)
  BY <1>2, <1>3 DEF Left
<1>7. Buffer' = Held(target.alloc, sink'.bytes)
  BY <1>1 DEF Buffer, Held
<1>8. /\ HeapType(heap') /\ heap'.node = heap.node
      /\ heap'.live = Blocks(heap, root) \cup Buffer' /\ Buffer' \cap Blocks(heap, root) = {}
  BY <1>3, <1>5, <1>7 DEF Leaves, Holds
<1>9. BufferHolds'
  BY <1>1, <1>3, <1>5 DEF Leaves, HasSpace, BufferHolds
<1>10. sink' \in SinkType /\ emit_status' \in bencode_status
       /\ (sink'.bytes # NULL => target.entry = "buffer" /\ emit_pc' # "entry")
  BY <1>1, <1>3, <1>5 DEF Leaves
<1> QED BY <1>1, <1>6, <1>8, <1>9, <1>10, KeepsInv

LEMMA FlushKeepsInv ==
  ASSUME EmitInv, Flush
  PROVE  EmitInv'
<1>1. /\ target.entry = "file" /\ UNCHANGED <<heap, root, target, tasks>> /\ emit_pc' = "returned"
      /\ emit_status' = emit_status \/ emit_status' = "IO"
  BY DEF Flush, MustFlush
<1>2. sink \in SinkType /\ sink.bytes = NULL
  BY <1>1 DEF EmitInv, EmitTypeOK
<1>3. sink' \in SinkType /\ sink'.bytes = NULL
  <2>1. sink' = sink \/ sink' = [sink EXCEPT !.delivered = Len(sink.got)]
    BY DEF Flush
  <2>2. Len(sink.got) \in Nat
    BY <1>2, BytesConcat DEF SinkType
  <2> QED BY <1>2, <2>1, <2>2 DEF SinkType
<1>4. Buffer' = Buffer /\ BufferHolds'
  BY <1>1, <1>2, <1>3 DEF Buffer, BufferHolds
<1>5. emit_status' \in bencode_status /\ tasks' \in Seq(TaskType)
  BY <1>1 DEF EmitInv, EmitTypeOK, bencode_status
<1> QED BY <1>1, <1>2, <1>3, <1>4, <1>5, LeavesBuffer

\* Freeing the buffer leaves the tree.
LEMMA BufferFreed ==
  ASSUME EmitInv, emit_pc # "released", ~(emit_pc = "returned" /\ emit_status # "OK"),
         heap' = bencode_free(heap, target.alloc, sink.bytes),
         UNCHANGED <<root, target, tasks, sink, emit_status>>,
         \/ emit_pc' = "released" /\ target.entry = "buffer"
         \/ emit_pc' = "returned" /\ emit_status # "OK"
  PROVE  EmitInv'
<1>1. Holds(heap, Blocks(heap, root), target.alloc, sink.bytes)
  BY WalkHolds
<1>2. Holds(heap', Blocks(heap, root), target.alloc, NULL) /\ heap'.node = heap.node
  BY <1>1, BlockFreed
<1>3. HeapType(heap') /\ heap'.live = Blocks(heap, root) /\ Buffer' = {}
  BY <1>2 DEF Holds, Held, Buffer
<1>4. /\ tasks' \in Seq(TaskType) /\ sink' \in SinkType /\ emit_status' \in bencode_status
      /\ sink'.bytes # NULL => target.entry = "buffer" /\ emit_pc' # "entry"
  BY DEF EmitInv, EmitTypeOK
<1>5. BufferHolds'
  BY DEF EmitInv, BufferHolds
<1> QED BY <1>2, <1>3, <1>4, <1>5, KeepsInv

LEMMA ReturnKeepsInv ==
  ASSUME EmitInv, ReturnEmit
  PROVE  EmitInv'
<1>1. CASE target.entry = "buffer" /\ emit_status # "OK"
  BY <1>1, BufferFreed DEF ReturnEmit, Unfinished
<1>2. CASE ~(target.entry = "buffer" /\ emit_status # "OK")
  <2>1. UNCHANGED <<heap, root, target, tasks, sink, emit_status>> /\ emit_pc = "walk"
        /\ emit_pc' = "returned"
    BY <1>2 DEF ReturnEmit
  <2>2. sink.bytes = NULL \/ emit_status = "OK"
    BY <1>2 DEF EmitInv
  <2>3. Buffer' = Buffer
    BY <2>1, <2>2 DEF Buffer
  <2>4. tasks' \in Seq(TaskType) /\ sink' \in SinkType /\ emit_status' \in bencode_status /\ BufferHolds'
    BY <2>1 DEF EmitInv, EmitTypeOK, BufferHolds
  <2> QED BY <2>1, <2>3, <2>4, LeavesBuffer
<1> QED BY <1>1, <1>2

LEMMA NextEmitInv ==
  ASSUME EmitInv, [EmitNext]_emit_vars
  PROVE  EmitInv'
<1>1. CASE RefuseEmit \/ StartEmit
  BY <1>1, EntryKeepsInv
<1>2. CASE TakeApart \/ SkipEmpty
  BY <1>2, WalkKeepsInv
<1>3. CASE emit_bytes
  BY <1>3, BytesKeepInv
<1>4. CASE Flush
  BY <1>4, FlushKeepsInv
<1>5. CASE ReturnEmit
  BY <1>5, ReturnKeepsInv
<1>6. CASE bencode_buffer_free
  BY <1>6, BufferFreed DEF bencode_buffer_free
<1>7. CASE UNCHANGED emit_vars
  <2>1. UNCHANGED <<heap, root, target, emit_pc, tasks, sink, emit_status>>
    BY <1>7 DEF emit_vars
  <2>2. Buffer' = Buffer /\ BufferHolds'
    BY <2>1 DEF Buffer, BufferHolds, EmitInv
  <2> QED BY <2>1, <2>2, KeepsInv DEF EmitInv, EmitTypeOK, BufferOwned
<1> QED BY <1>1, <1>2, <1>3, <1>4, <1>5, <1>6, <1>7 DEF EmitNext, Emitting

\* The tree, without what is allocated beside it.
TreeAlone == OneTree(Heap(Blocks(heap, root), heap.node, FALSE), root)

LEMMA EntryIsAlone == EmitAtEntry => TreeAlone
<1> SUFFICES ASSUME EmitAtEntry PROVE TreeAlone
  OBVIOUS
<1>1. HeapType(heap) /\ HeldOnce(heap, {}) /\ DOMAIN heap.node = Tree(heap, root)
  BY DEF EmitAtEntry, OneTree, HeapInv
<1>2. heap.live = Blocks(heap, root) /\ heap.fault = FALSE
  BY <1>1 DEF HeldOnce, Blocks, HeapType
<1>3. heap = Heap(Blocks(heap, root), heap.node, FALSE)
  BY <1>1, <1>2 DEF HeapType
<1> QED BY <1>3 DEF EmitAtEntry, TreeAlone

\* No step touches the nodes.
LEMMA NodesStay ==
  ASSUME EmitInv, [EmitNext]_emit_vars
  PROVE  heap'.node = heap.node /\ root' = root
<1>1. CASE emit_bytes
  <2>1. emit_pc = "walk" /\ tasks # <<>> /\ Head(tasks).kind = "bytes" /\ root' = root
    BY <1>1 DEF emit_bytes
  <2>2. Head(tasks).bytes \in Bytes
    BY <2>1, HeadAndTail
  <2>3. PICK r \in Sink(Head(tasks).bytes) : heap' = r.heap
    BY <1>1 DEF emit_bytes
  <2>4. Leaves(r)
    BY <2>1, <2>2, <2>3, UserSink, FileSink, AllocSink DEF Sink, EmitInv, EmitTypeOK, TargetType
  <2> QED BY <2>1, <2>3, <2>4 DEF Leaves
<1>2. CASE ReturnEmit \/ bencode_buffer_free
  <2>1. CASE heap' = heap
    BY <1>2, <2>1 DEF ReturnEmit, bencode_buffer_free
  <2>2. CASE heap' # heap
    <3>1. /\ emit_pc # "released" /\ ~(emit_pc = "returned" /\ emit_status # "OK") /\ root' = root
          /\ heap' = bencode_free(heap, target.alloc, sink.bytes)
      BY <1>2, <2>2 DEF ReturnEmit, bencode_buffer_free, Unfinished
    <3> QED BY <3>1, WalkHolds, BlockFreed
  <2> QED BY <2>1, <2>2
<1>3. CASE ~(emit_bytes \/ ReturnEmit \/ bencode_buffer_free)
  BY <1>3 DEF EmitNext, Emitting, RefuseEmit, StartEmit, TakeApart, SkipEmpty, Flush, emit_vars
<1> QED BY <1>1, <1>2, <1>3

LEMMA TreeIsKept ==
  ASSUME EmitInv, TreeAlone, [EmitNext]_emit_vars
  PROVE  TreeAlone'
<1>1. heap'.node = heap.node /\ root' = root
  BY NodesStay
<1>2. HeapType(heap) /\ HeapType(heap') /\ root \in Nat
  <2>1. EmitInv'
    BY NextEmitInv
  <2> QED BY <2>1 DEF EmitInv, EmitTypeOK, HeapType, Block, NULL
<1>3. Blocks(heap', root') = Blocks(heap, root)
  BY <1>1, <1>2, SameTree
<1> QED BY <1>1, <1>3 DEF TreeAlone

---------------------------------------------------------------------------
(* The theorems.                                                           *)

\* The heap, the tasks and the sink agree at every moment of a call.
THEOREM EmitInvariance == EmitSpec => []EmitInv
BY InitEmitInv, NextEmitInv, PTL DEF EmitSpec

\* alloc_sink_append never writes past the end of its buffer, nor asks for a
\* size that has wrapped, however the doubling goes and whatever is refused.
THEOREM BufferHasRoom == EmitSpec => []BufferHolds
<1>1. EmitInv => BufferHolds
  BY DEF EmitInv
<1> QED BY <1>1, EmitInvariance, PTL

\* bencode_emit_to_alloc leaves the tree and, when it succeeds, one block of
\* the allocator it was given; a failed call leaves no block; no block is freed
\* twice, or by another allocator.
THEOREM BufferHasOwner == EmitSpec => []BufferOwned
<1>1. EmitInv => BufferOwned
  BY DEF EmitInv
<1> QED BY <1>1, EmitInvariance, PTL

\* bencode_emit_to_file reports success only after a flush that succeeded.
THEOREM FileIsDelivered == EmitSpec => []FileDelivered
<1>1. EmitInit => FileDelivered
  BY DEF EmitInit, FileDelivered
<1>2. ASSUME EmitInv, FileDelivered, [EmitNext]_emit_vars
      PROVE  FileDelivered'
  <2>1. CASE RefuseEmit
    BY <2>1 DEF RefuseEmit, FileDelivered
  <2>2. CASE StartEmit \/ TakeApart \/ SkipEmpty \/ emit_bytes
    BY <2>2 DEF StartEmit, TakeApart, SkipEmpty, emit_bytes, FileDelivered
  <2>3. CASE Flush
    <3>1. sink \in SinkType
      BY <1>2 DEF EmitInv, EmitTypeOK
    <3> QED BY <2>3, <3>1 DEF Flush, MustFlush, FileDelivered, SinkType
  <2>4. CASE ReturnEmit
    BY <2>4 DEF ReturnEmit, MustFlush, FileDelivered
  <2>5. CASE bencode_buffer_free
    BY <2>5 DEF bencode_buffer_free, FileDelivered
  <2>6. CASE UNCHANGED emit_vars
    BY <1>2, <2>6 DEF emit_vars, FileDelivered
  <2> QED BY <1>2, <2>1, <2>2, <2>3, <2>4, <2>5, <2>6 DEF EmitNext, Emitting
<1> QED BY <1>1, <1>2, EmitInvariance, PTL DEF EmitSpec

---------------------------------------------------------------------------
(* The refinement: what is written is the document, piece by piece.        *)

\* Unwritten, of any tasks.
Spelled(ts) == FlattenSeq([i \in DOMAIN ts |-> Encoded(ts[i])])

\* The nodes have their spellings, whatever is allocated beside the tree.
LEMMA NodesSpelt ==
  ASSUME EmitInv, TreeAlone
  PROVE  /\ Spellings(heap) \in [DOMAIN heap.node -> Bytes]
         /\ \A n \in DOMAIN heap.node :
              /\ SpellsEntries(heap.node[n], Spellings(heap), DOMAIN heap.node)
              /\ Spellings(heap)[n] = EncodeNode(heap.node[n], Spellings(heap))
<1> DEFINE m == Heap(Blocks(heap, root), heap.node, FALSE)
<1>1. OneTree(m, root) /\ root \in Nat
  <2>1. HeapType(heap) /\ root \in {NULL} \cup DOMAIN heap.node
    BY DEF EmitInv, EmitTypeOK
  <2>2. root \in Nat
    BY <2>1 DEF HeapType, Block, NULL
  <2> QED BY <2>2 DEF TreeAlone
<1>2. m.node = heap.node
  BY DEF Heap
<1> HIDE DEF m
<1>3. Spellings(heap) = Spellings(m)
  BY <1>2, SpelledAlike
<1> QED BY <1>1, <1>2, <1>3, TreeSpelt

LEMMA EncodedTask ==
  ASSUME EmitInv, TreeAlone, NEW t \in TaskType
  PROVE  Encoded(t) \in Bytes
<1>1. CASE t.kind = "bytes"
  BY <1>1 DEF TaskType, Encoded
<1>2. CASE t.kind = "value"
  <2>1. t.node \in DOMAIN heap.node
    BY <1>2 DEF TaskType
  <2>2. Spelling(heap, t.node) \in Bytes
    BY <2>1, NodesSpelt DEF Spelling
  <2> QED BY <1>2, <2>2 DEF Encoded
<1>3. CASE t.kind = "rest"
  <2>1. t.node \in DOMAIN heap.node /\ t.k \in Nat \ {0}
    BY <1>3 DEF TaskType
  <2>2. SpellsEntries(heap.node[t.node], Spellings(heap), DOMAIN heap.node)
    BY <2>1, NodesSpelt
  <2>3. EncodeRest(heap.node[t.node], t.k, Spellings(heap)) \in Bytes
    BY <2>1, <2>2, EntriesEncoded
  <2> QED BY <1>3, <2>3 DEF Encoded
<1> QED BY <1>1, <1>2, <1>3 DEF TaskType

\* The spellings of the tasks, one by one.
LEMMA TasksEncoded ==
  ASSUME EmitInv, TreeAlone, NEW ts \in Seq(TaskType)
  PROVE  /\ [i \in DOMAIN ts |-> Encoded(ts[i])] \in Seq(Bytes)
         /\ Len([i \in DOMAIN ts |-> Encoded(ts[i])]) = Len(ts)
<1>1. Len(ts) \in Nat /\ DOMAIN ts = 1..Len(ts) /\ \A i \in 1..Len(ts) : ts[i] \in TaskType
  BY LenProperties, ElementOfSeq
<1>2. [i \in DOMAIN ts |-> Encoded(ts[i])] \in [1..Len(ts) -> Bytes]
  BY <1>1, EncodedTask
<1> QED BY <1>1, <1>2

LEMMA SpelledConcat ==
  ASSUME EmitInv, TreeAlone, NEW ss \in Seq(TaskType), NEW tt \in Seq(TaskType)
  PROVE  /\ Spelled(ss) \in Bytes /\ Spelled(tt) \in Bytes
         /\ Spelled(ss \o tt) = Spelled(ss) \o Spelled(tt)
<1> DEFINE es == [i \in DOMAIN ss |-> Encoded(ss[i])]
           et == [i \in DOMAIN tt |-> Encoded(tt[i])]
           eu == [i \in DOMAIN (ss \o tt) |-> Encoded((ss \o tt)[i])]
<1>1. /\ ss \o tt \in Seq(TaskType) /\ Len(ss \o tt) = Len(ss) + Len(tt)
      /\ Len(ss) \in Nat /\ Len(tt) \in Nat
      /\ \A i \in 1..(Len(ss) + Len(tt)) :
           (ss \o tt)[i] = IF i <= Len(ss) THEN ss[i] ELSE tt[i - Len(ss)]
  BY ConcatProperties, LenProperties
<1>2. /\ es \in Seq(Bytes) /\ Len(es) = Len(ss) /\ et \in Seq(Bytes) /\ Len(et) = Len(tt)
      /\ eu \in Seq(Bytes) /\ Len(eu) = Len(ss) + Len(tt)
  BY <1>1, TasksEncoded
<1>3. /\ \A i \in 1..Len(ss) : es[i] = Encoded(ss[i])
      /\ \A i \in 1..Len(tt) : et[i] = Encoded(tt[i])
      /\ \A i \in 1..(Len(ss) + Len(tt)) : eu[i] = Encoded((ss \o tt)[i])
  BY <1>1, LenProperties
<1>4. Spelled(ss) = FlattenSeq(es) /\ Spelled(tt) = FlattenSeq(et) /\ Spelled(ss \o tt) = FlattenSeq(eu)
  BY DEF Spelled
<1> HIDE DEF es, et, eu
<1>5. /\ es \o et \in Seq(Bytes) /\ Len(es \o et) = Len(ss) + Len(tt)
      /\ \A i \in 1..(Len(ss) + Len(tt)) :
           (es \o et)[i] = IF i <= Len(ss) THEN es[i] ELSE et[i - Len(ss)]
  <2>1. /\ es \o et \in Seq(Bytes) /\ Len(es \o et) = Len(es) + Len(et)
        /\ \A i \in 1..(Len(es) + Len(et)) :
             (es \o et)[i] = IF i <= Len(es) THEN es[i] ELSE et[i - Len(es)]
    <3>1. es \in Seq(Bytes) /\ et \in Seq(Bytes)
      BY <1>2
    <3> QED BY <3>1, ConcatProperties, Zenon
  <2>2. Len(es) = Len(ss) /\ Len(et) = Len(tt)
    BY <1>2
  <2> QED BY <2>1, <2>2
<1>6. ASSUME NEW i \in 1..(Len(ss) + Len(tt))
      PROVE  eu[i] = (es \o et)[i]
  <2>1. CASE i <= Len(ss)
    <3>1. i \in 1..Len(ss)
      BY <1>1, <2>1
    <3> QED BY <1>1, <1>3, <1>5, <2>1, <3>1
  <2>2. CASE ~(i <= Len(ss))
    <3>1. i - Len(ss) \in 1..Len(tt)
      BY <1>1, <2>2
    <3> QED BY <1>1, <1>3, <1>5, <2>2, <3>1
  <2> QED BY <2>1, <2>2
<1>7. eu = es \o et
  BY <1>2, <1>5, <1>6, SeqEqual
<1> QED BY <1>2, <1>4, <1>7, FlattenConcat

LEMMA SpelledFew ==
  ASSUME EmitInv, TreeAlone
  PROVE  /\ Spelled(<<>>) = <<>>
         /\ \A t \in TaskType : Spelled(<<t>>) = Encoded(t)
         /\ \A t \in TaskType, u \in TaskType : Spelled(<<t, u>>) = Encoded(t) \o Encoded(u)
<1>1. Spelled(<<>>) = <<>>
  <2>1. [i \in DOMAIN <<>> |-> Encoded(<<>>[i])] = <<>>
    OBVIOUS
  <2> QED BY <2>1, FlattenFew DEF Spelled
<1>2. ASSUME NEW t \in TaskType
      PROVE  Spelled(<<t>>) = Encoded(t)
  <2>1. [i \in DOMAIN <<t>> |-> Encoded(<<t>>[i])] = <<Encoded(t)>>
    OBVIOUS
  <2> QED BY <2>1, EncodedTask, FlattenFew DEF Spelled
<1>3. ASSUME NEW t \in TaskType, NEW u \in TaskType
      PROVE  Spelled(<<t, u>>) = Encoded(t) \o Encoded(u)
  <2>1. <<t>> \in Seq(TaskType) /\ <<u>> \in Seq(TaskType)
    OBVIOUS
  <2>2. <<t, u>> = <<t>> \o <<u>>
    <3> DEFINE a == <<t>>
               b == <<u>>
    <3>1. Len(a) = 1 /\ Len(b) = 1 /\ a[1] = t /\ b[1] = u
      OBVIOUS
    <3>2. <<t, u>> \in Seq(TaskType) /\ Len(<<t, u>>) = 2
      OBVIOUS
    <3> HIDE DEF a, b
    <3>3. a \in Seq(TaskType) /\ b \in Seq(TaskType)
      BY <2>1 DEF a, b
    <3>4. a \o b \in Seq(TaskType) /\ Len(a \o b) = 2 /\ (a \o b)[1] = t /\ (a \o b)[2] = u
      <4>1. /\ a \o b \in Seq(TaskType) /\ Len(a \o b) = Len(a) + Len(b)
            /\ \A i \in 1..(Len(a) + Len(b)) :
                 (a \o b)[i] = IF i <= Len(a) THEN a[i] ELSE b[i - Len(a)]
        BY <3>3, ConcatProperties, Zenon
      <4> QED BY <3>1, <4>1
    <3>5. \A i \in 1..2 : <<t, u>>[i] = (a \o b)[i]
      BY <3>4
    <3>6. <<t, u>> = a \o b
      BY <3>2, <3>4, <3>5, SeqEqual
    <3> QED BY <3>6 DEF a, b
  <2>3. Spelled(<<t>> \o <<u>>) = Spelled(<<t>>) \o Spelled(<<u>>)
    BY <2>1, SpelledConcat
  <2> QED BY <1>2, <2>2, <2>3
<1> QED BY <1>1, <1>2, <1>3

\* snprintf writes the notation of the reference.
LEMMA SameDecimal == decimal = Decimal
BY DEF decimal, Decimal

LEMMA EmitStringSpells ==
  ASSUME EmitInv, TreeAlone, NEW bytes \in Bytes
  PROVE  Spelled(emit_string(bytes)) = EncodeString(bytes)
<1>1. decimal[Len(bytes)] \in Bytes /\ <<Colon>> \in Bytes
  <2>1. decimal[Len(bytes)] \in Bytes
    BY BytesConcat, DecimalIsBytes
  <2>2. <<Colon>> \in Bytes
    BY OneByte DEF Colon, Byte
  <2> QED BY <2>1, <2>2
<1>2. decimal[Len(bytes)] \o <<Colon>> \in Bytes
  BY <1>1, BytesConcat
<1> DEFINE t == Write(decimal[Len(bytes)] \o <<Colon>>)
           u == Write(bytes)
<1>3. t \in TaskType /\ u \in TaskType
  BY <1>2, TaskTypes
<1>4. Encoded(t) = decimal[Len(bytes)] \o <<Colon>> /\ Encoded(u) = bytes
  BY DEF Encoded, Write, Task
<1>5. emit_string(bytes) = <<t, u>>
  BY DEF emit_string
<1> HIDE DEF t, u
<1>6. Spelled(<<t, u>>) = Encoded(t) \o Encoded(u)
  BY <1>3, SpelledFew
<1> QED BY <1>4, <1>5, <1>6, SameDecimal DEF EncodeString

LEMMA EmitIntSpells ==
  ASSUME EmitInv, TreeAlone, NEW i \in Int
  PROVE  Spelled(emit_int(i)) = EncodeInt(i)
<1> DEFINE b == <<ch_i>> \o signed_decimal(i) \o <<ch_e>>
           t == Write(b)
<1>1. <<ch_i>> \in Bytes /\ <<ch_e>> \in Bytes /\ signed_decimal(i) \in Bytes
  <2>1. ch_i \in Byte /\ ch_e \in Byte
    BY DEF Byte, ch_i, ch_e
  <2>2. signed_decimal(i) \in Bytes
    BY SignedDecimalIsBytes
  <2> QED BY <2>1, <2>2, OneByte
<1>2. b \in Bytes
  BY <1>1, BytesConcat
<1>3. b = EncodeInt(i)
  BY SameDecimal DEF signed_decimal, EncodeInt
<1> HIDE DEF b
<1>4. t \in TaskType /\ Encoded(t) = b
  BY <1>2, TaskTypes DEF Encoded, Write, Task
<1>5. emit_int(i) = <<t>>
  BY DEF emit_int, b
<1> HIDE DEF t
<1>6. Spelled(<<t>>) = Encoded(t)
  BY <1>4, SpelledFew
<1> QED BY <1>3, <1>4, <1>5, <1>6

\* An opening bracket, and the entries of n from the first on.
LEMMA ContainerSpells ==
  ASSUME EmitInv, TreeAlone, NEW n \in DOMAIN heap.node, NEW c, <<c>> \in Bytes
  PROVE  Spelled(<< Write(<<c>>), Rest(n, 1) >>)
           = <<c>> \o EncodeRest(heap.node[n], 1, Spellings(heap))
<1> DEFINE t == Write(<<c>>)
           u == Rest(n, 1)
<1>1. t \in TaskType /\ u \in TaskType
  BY TaskTypes
<1>2. Encoded(t) = <<c>> /\ Encoded(u) = EncodeRest(heap.node[n], 1, Spellings(heap))
  BY DEF Encoded, Write, Rest, Task
<1> HIDE DEF t, u
<1>3. Spelled(<<t, u>>) = Encoded(t) \o Encoded(u)
  BY <1>1, SpelledFew
<1> QED BY <1>2, <1>3 DEF t, u

\* Taking a task apart does not change what it stands for.
LEMMA UnfoldSpells ==
  ASSUME EmitInv, TreeAlone, NEW t \in TaskType, t.kind # "bytes"
  PROVE  Spelled(Unfold(t)) = Encoded(t)
<1> DEFINE n == t.node
           nd == heap.node[n]
           of == Spellings(heap)
<1>1. HeapType(heap) /\ n \in DOMAIN heap.node
  BY DEF EmitInv, EmitTypeOK, TaskType
<1>2. /\ nd \in NodeType /\ Len(nd.entries) \in Nat /\ DOMAIN nd.entries = 1..Len(nd.entries)
      /\ \A k \in DOMAIN nd.entries : nd.entries[k] \in EntryType
  BY <1>1, NodeFacts
<1>3. SpellsEntries(nd, of, DOMAIN heap.node) /\ of[n] = EncodeNode(nd, of)
  BY <1>1, NodesSpelt
<1>4. <<ch_e>> \in Bytes /\ <<ch_l>> \in Bytes /\ <<ch_d>> \in Bytes
  BY OneByte DEF Byte, ch_e, ch_l, ch_d
<1>5. CASE t.kind = "value"
  <2>1. Unfold(t) = emit_value(n) /\ Encoded(t) = EncodeNode(nd, of)
    BY <1>3, <1>5 DEF Unfold, Encoded, Spelling
  <2>2. CASE nd.type = "INT"
    <3>1. emit_value(n) = emit_int(nd.i) /\ EncodeNode(nd, of) = EncodeInt(nd.i) /\ nd.i \in Int
      BY <1>2, <2>2 DEF emit_value, EncodeNode, NodeType
    <3> QED BY <2>1, <3>1, EmitIntSpells
  <2>3. CASE nd.type = "STRING"
    <3>1. /\ emit_value(n) = emit_string(nd.bytes) /\ EncodeNode(nd, of) = EncodeString(nd.bytes)
          /\ nd.bytes \in Bytes
      BY <1>2, <2>3 DEF emit_value, EncodeNode, NodeType
    <3> QED BY <2>1, <3>1, EmitStringSpells
  <2>4. CASE nd.type = "LIST"
    <3>1. /\ emit_value(n) = << Write(<<ch_l>>), Rest(n, 1) >>
          /\ EncodeNode(nd, of) = <<ch_l>> \o EncodeRest(nd, 1, of)
      BY <2>4 DEF emit_value, EncodeNode
    <3> QED BY <1>1, <1>4, <2>1, <3>1, ContainerSpells
  <2>5. CASE nd.type = "DICT"
    <3>1. /\ emit_value(n) = << Write(<<ch_d>>), Rest(n, 1) >>
          /\ EncodeNode(nd, of) = <<ch_d>> \o EncodeRest(nd, 1, of)
      BY <2>5 DEF emit_value, EncodeNode
    <3> QED BY <1>1, <1>4, <2>1, <3>1, ContainerSpells
  <2> QED BY <1>2, <2>2, <2>3, <2>4, <2>5 DEF NodeType
<1>6. CASE t.kind = "rest"
  <2> DEFINE k == t.k
             keys == IF nd.type = "DICT" THEN emit_string(nd.entries[k].key) ELSE <<>>
             v == nd.entries[k].value
             more == << EmitValue(v), Rest(n, k + 1) >>
  <2>1. Unfold(t) = emit_rest(n, k) /\ k \in Nat \ {0} /\ Encoded(t) = EncodeRest(nd, k, of)
    BY <1>6 DEF Unfold, TaskType, Encoded
  <2>2. CASE k > Len(nd.entries)
    <3>1. emit_rest(n, k) = << Write(<<ch_e>>) >>
      BY <2>2 DEF emit_rest
    <3>2. Write(<<ch_e>>) \in TaskType /\ Encoded(Write(<<ch_e>>)) = <<ch_e>>
      BY <1>4, TaskTypes DEF Encoded, Write, Task
    <3>3. Spelled(<< Write(<<ch_e>>) >>) = <<ch_e>>
      BY <3>2, SpelledFew
    <3>4. EncodeRest(nd, k, of) = <<ch_e>>
      BY <1>3, <2>1, <2>2, RestEncoded
    <3> QED BY <2>1, <3>1, <3>3, <3>4
  <2>3. CASE ~(k > Len(nd.entries))
    <3>1. k \in DOMAIN nd.entries /\ k <= Len(nd.entries) /\ k + 1 \in Nat \ {0}
      BY <1>2, <2>1, <2>3
    <3>2. nd.entries[k].key \in Bytes /\ v \in DOMAIN heap.node
      BY <1>2, <1>3, <3>1 DEF EntryType, SpellsEntries
    <3>3. emit_rest(n, k) = keys \o more
      BY <2>3 DEF emit_rest
    <3>4. /\ EmitValue(v) \in TaskType /\ Rest(n, k + 1) \in TaskType
          /\ Encoded(EmitValue(v)) = of[v]
          /\ Encoded(Rest(n, k + 1)) = EncodeRest(nd, k + 1, of)
      BY <1>1, <3>1, <3>2, TaskTypes DEF Encoded, EmitValue, Rest, Task, Spelling
    <3>5. more \in Seq(TaskType)
      BY <3>4
    <3>6. Spelled(more) = of[v] \o EncodeRest(nd, k + 1, of)
      <4> HIDE DEF v, n
      <4> QED BY <3>4, SpelledFew
    <3>7. EncodeRest(nd, k, of) = EncodeEntry(nd, k, of) \o EncodeRest(nd, k + 1, of)
      <4>1. SpellsEntries(nd, of, DOMAIN heap.node) /\ k \in Nat \ {0} /\ k <= Len(nd.entries)
        BY <1>3, <2>1, <3>1
      <4> HIDE DEF nd, of, k
      <4> QED BY <4>1, RestEncoded
    <3>8. CASE nd.type = "DICT"
      <4> DEFINE s == emit_string(nd.entries[k].key)
      <4>1. s \in Seq(TaskType) /\ Spelled(s) = EncodeString(nd.entries[k].key)
        BY <3>2, EmitStringTasks, EmitStringSpells
      <4>2. keys = s
        BY <3>8
      <4>3. Spelled(s \o more) = Spelled(s) \o Spelled(more)
        <5> HIDE DEF s, more
        <5> QED BY <3>5, <4>1, SpelledConcat
      <4>4. EncodeEntry(nd, k, of) = EncodeString(nd.entries[k].key) \o of[v]
        BY <3>8 DEF EncodeEntry
      <4>5. /\ EncodeString(nd.entries[k].key) \in Bytes /\ of[v] \in Bytes
            /\ EncodeRest(nd, k + 1, of) \in Bytes
        BY <1>3, <3>1, <3>2, EncodedBytes, EntriesEncoded DEF SpellsEntries
      <4> HIDE DEF keys, s, more, nd, of, v, k, n
      <4>6. (EncodeString(nd.entries[k].key) \o of[v]) \o EncodeRest(nd, k + 1, of)
              = EncodeString(nd.entries[k].key) \o (of[v] \o EncodeRest(nd, k + 1, of))
        BY <4>5, BytesAssociative
      <4> QED BY <2>1, <3>3, <3>6, <3>7, <4>1, <4>2, <4>3, <4>4, <4>6
    <3>9. CASE nd.type # "DICT"
      <4>1. keys = <<>> /\ EncodeEntry(nd, k, of) = of[v]
        BY <3>9 DEF EncodeEntry
      <4>2. <<>> \o more = more
        <5> HIDE DEF more
        <5> QED BY <3>5, ConcatEmptySeq
      <4> HIDE DEF keys, more, nd, of, v, k, n
      <4> QED BY <2>1, <3>3, <3>6, <3>7, <4>1, <4>2
    <3> QED BY <3>8, <3>9
  <2> QED BY <2>2, <2>3
<1> QED BY <1>5, <1>6 DEF TaskType

\* The head of the tasks, and the others.
LEMMA TasksSplit ==
  ASSUME EmitInv, TreeAlone, tasks # <<>>
  PROVE  /\ Unwritten = Encoded(Head(tasks)) \o Spelled(Tail(tasks))
         /\ Encoded(Head(tasks)) \in Bytes /\ Spelled(Tail(tasks)) \in Bytes
<1>1. tasks \in Seq(TaskType) /\ Head(tasks) \in TaskType /\ Tail(tasks) \in Seq(TaskType)
  BY HeadAndTail DEF EmitInv, EmitTypeOK
<1>2. <<Head(tasks)>> \in Seq(TaskType) /\ tasks = <<Head(tasks)>> \o Tail(tasks)
  <2> HIDE DEF TaskType
  <2> QED BY <1>1
<1>3. Spelled(<<Head(tasks)>> \o Tail(tasks)) = Spelled(<<Head(tasks)>>) \o Spelled(Tail(tasks))
      /\ Spelled(Tail(tasks)) \in Bytes
  BY <1>1, <1>2, SpelledConcat
<1>4. Unwritten = Spelled(tasks)
  BY DEF Unwritten, Spelled
<1> QED BY <1>1, <1>2, <1>3, <1>4, SpelledFew, EncodedTask

\* A chunk is taken whole, or the call fails with at most a part of it taken.
Takes(r, chunk) ==
  /\ r.sink.calls = sink.calls + 1
  /\ IF r.status = "OK" THEN r.sink.got = sink.got \o chunk
     ELSE \E j \in 0..(Len(chunk) - 1) : r.sink.got = sink.got \o SubSeq(chunk, 1, j)

LEMMA SinkTakes ==
  ASSUME EmitInv, NEW chunk \in Bytes, chunk # <<>>, NEW r \in Sink(chunk)
  PROVE  Takes(r, chunk)
<1>1. sink \in SinkType /\ target.entry \in {"callback", "file", "buffer"}
  BY DEF EmitInv, EmitTypeOK, TargetType
<1>2. sink.got \in Bytes /\ Len(chunk) \in Nat /\ Len(chunk) # 0
  BY <1>1, BytesConcat, EmptySeq DEF SinkType, Bytes
<1>3. ASSUME NEW b
      PROVE  Accepted(sink, b).got = sink.got \o b /\ Accepted(sink, b).calls = sink.calls + 1
  BY <1>1 DEF Accepted, SinkType
<1>4. SubSeq(chunk, 1, 0) = <<>> /\ sink.got \o <<>> = sink.got
  BY <1>2, BytesEmpty
<1>5. ASSUME r.status # "OK", r.sink.got = sink.got, r.sink.calls = sink.calls + 1
      PROVE  Takes(r, chunk)
  <2>1. 0 \in 0..(Len(chunk) - 1)
    BY <1>2
  <2> QED BY <1>4, <1>5, <2>1 DEF Takes
<1>6. CASE target.entry = "callback"
  <2>1. r \in user_sink(sink, heap, chunk)
    BY <1>6 DEF Sink
  <2>2. CASE r = Sunk(Accepted(sink, chunk), heap, "OK")
    BY <1>3, <2>2 DEF Sunk, Takes
  <2>3. CASE \E st \in SinkErrors : r = Sunk([sink EXCEPT !.calls = @ + 1], heap, st)
    <3>1. r.status # "OK" /\ r.sink = [sink EXCEPT !.calls = @ + 1]
      BY <2>3, EmitAssumption DEF Sunk
    <3>2. r.sink.got = sink.got /\ r.sink.calls = sink.calls + 1
      BY <1>1, <3>1 DEF SinkType
    <3> QED BY <1>5, <3>1, <3>2
  <2> QED BY <2>1, <2>2, <2>3 DEF user_sink
<1>7. CASE target.entry = "file"
  <2> DEFINE kept == Accepted(sink, chunk)
  <2>1. r \in emit_to_file_cb(sink, heap, chunk)
    BY <1>7 DEF Sink
  <2>2. CASE r = Sunk(kept, heap, "OK") \/ r = Sunk([kept EXCEPT !.delivered = Len(kept.got)], heap, "OK")
    <3>1. r.status = "OK" /\ (r.sink = kept \/ r.sink = [kept EXCEPT !.delivered = Len(kept.got)])
      BY <2>2 DEF Sunk
    <3>2. kept \in SinkType
      BY <1>1, AcceptedSink
    <3> HIDE DEF kept
    <3>3. r.sink.got = kept.got /\ r.sink.calls = kept.calls
      BY <3>1, <3>2 DEF SinkType
    <3> QED BY <1>3, <3>1, <3>3 DEF Takes, kept
  <2>3. CASE \E n \in 0..(Len(chunk) - 1) : r = Sunk(Accepted(sink, SubSeq(chunk, 1, n)), heap, "IO")
    <3>1. PICK n \in 0..(Len(chunk) - 1) : r = Sunk(Accepted(sink, SubSeq(chunk, 1, n)), heap, "IO")
      BY <2>3
    <3>2. r.status = "IO" /\ r.sink = Accepted(sink, SubSeq(chunk, 1, n))
      BY <3>1 DEF Sunk
    <3> QED BY <1>3, <3>2 DEF Takes
  <2> QED BY <2>1, <2>2, <2>3 DEF emit_to_file_cb
<1>8. CASE target.entry = "buffer"
  <2>1. r \in alloc_sink_append(sink, heap, chunk)
    BY <1>8 DEF Sink
  <2>2. CASE r = OutOfRoom(sink, heap)
    <3>1. r.status = "NOMEM" /\ r.sink = [sink EXCEPT !.calls = @ + 1, !.oom = TRUE]
      BY <2>2 DEF OutOfRoom, Sunk
    <3>2. r.sink.got = sink.got /\ r.sink.calls = sink.calls + 1
      BY <1>1, <3>1 DEF SinkType
    <3> QED BY <1>5, <3>1, <3>2
  <2>3. CASE r = Sunk(Accepted(sink, chunk), heap, "OK")
    BY <1>3, <2>3 DEF Sunk, Takes
  <2>4. ASSUME NEW a, NEW c, r = Moved(sink, chunk, a, c)
        PROVE  Takes(r, chunk)
    <3> DEFINE taken == Accepted(sink, chunk)
    <3>1. r.status = "OK" /\ r.sink = [taken EXCEPT !.bytes = a.ptr, !.cap = c]
      BY <2>4 DEF Moved, Sunk
    <3>2. taken \in SinkType
      BY <1>1, AcceptedSink
    <3> HIDE DEF taken
    <3>3. r.sink.got = taken.got /\ r.sink.calls = taken.calls
      BY <3>1, <3>2 DEF SinkType
    <3> QED BY <1>3, <3>1, <3>3 DEF Takes, taken
  <2> QED BY <2>1, <2>2, <2>3, <2>4 DEF alloc_sink_append
<1> QED BY <1>1, <1>6, <1>7, <1>8

\* No document is empty.
LEMMA DocumentFacts ==
  ASSUME EmitInv, TreeAlone
  PROVE  Document \in Bytes /\ (root # NULL => Document # <<>>)
<1>1. CASE root = NULL
  BY <1>1, BytesEmpty DEF Document, Bytes
<1>2. CASE root # NULL
  <2> DEFINE nd == heap.node[root]
             of == Spellings(heap)
  <2>1. root \in DOMAIN heap.node /\ HeapType(heap)
    BY <1>2 DEF EmitInv, EmitTypeOK
  <2>2. SpellsEntries(nd, of, DOMAIN heap.node) /\ of[root] = EncodeNode(nd, of) /\ of[root] \in Bytes
    BY <2>1, NodesSpelt
  <2>3. Document = EncodeNode(nd, of)
    BY <1>2, <2>2 DEF Document, Spelling
  <2>4. /\ nd.type \in {"INT", "STRING", "LIST", "DICT"}
        /\ nd.i \in Int /\ nd.bytes \in Bytes /\ EncodeRest(nd, 1, of) \in Bytes
    BY <2>2, EntriesEncoded DEF SpellsEntries, NodeType
  <2> HIDE DEF nd, of
  <2>5. EncodeNode(nd, of) # <<>>
    BY <2>4, EncodedSome DEF EncodeNode
  <2> QED BY <1>2, <2>2, <2>3, <2>5
<1> QED BY <1>1, <1>2

\* The document stays, as does the spelling of tasks.
LEMMA SameDocument ==
  ASSUME UNCHANGED root, heap'.node = heap.node
  PROVE  UNCHANGED Document /\ Unwritten' = Spelled(tasks')
<1>1. Spellings(heap') = Spellings(heap)
  BY SpelledAlike
<1>2. UNCHANGED Document
  BY <1>1 DEF Document, Spelling
<1>3. Unwritten' = Spelled(tasks')
  BY <1>1 DEF Unwritten, Spelled, Encoded, Spelling
<1> QED BY <1>2, <1>3

\* What the Writer sees of the call's result.
Reported == IF emit_pc \in {"returned", "released"} \/ emit_status # "OK" THEN emit_status ELSE "none"

\* The steps that a Writer may take.
WriterStep ==
  \/ Abstract!Accept \/ Abstract!Refuse \/ Abstract!Finish \/ UNCHANGED Abstract!writer

LEMMA Stutters ==
  ASSUME UNCHANGED <<Document, sink>>, Reported' = Reported
  PROVE  WriterStep
BY DEF WriterStep, Abstract!writer, Reported

LEMMA StartWrites ==
  ASSUME EmitInv, TreeAlone, WriteInv, RefuseEmit \/ StartEmit
  PROVE  WriteInv' /\ WriterStep
<1>1. /\ emit_pc = "entry" /\ sink.got = <<>> /\ emit_status = "OK"
      /\ UNCHANGED <<heap, root, target, sink>>
  BY DEF WriteInv, RefuseEmit, StartEmit
<1>2. UNCHANGED Document /\ Unwritten' = Spelled(tasks')
  BY <1>1, SameDocument
<1>3. CASE RefuseEmit
  <2>1. emit_pc' = "returned" /\ emit_status' = "INVALID_ARG"
    BY <1>3 DEF RefuseEmit
  <2>2. SubSeq(Document, 1, 0) = <<>> /\ Len(<<>>) = 0
    BY DocumentFacts DEF Bytes
  <2>3. /\ Reported = "none" /\ Reported' = "INVALID_ARG"
        /\ sink'.got = <<>> /\ sink'.calls = sink.calls /\ Len(sink.got) = 0
    BY <1>1, <2>1, <2>2 DEF Reported
  <2>4. "INVALID_ARG" \in bencode_status \ {"OK"}
    BY DEF bencode_status
  <2>5. Abstract!bencode_status = bencode_status
    BY DEF Abstract!bencode_status, bencode_status
  <2>6. /\ sink'.got = SubSeq(Document, 1, Len(sink'.got)) /\ Len(sink'.got) >= Len(sink.got)
        /\ sink'.got # Document \/ Document = <<>>
        /\ sink'.calls \in {sink.calls, sink.calls + 1}
    BY <2>2, <2>3
  <2>7. Reported' \in Abstract!bencode_status \ {"OK"} /\ Reported = "none" /\ UNCHANGED Document
    BY <1>2, <2>3, <2>4, <2>5
  <2>8. Abstract!Refuse
    BY <2>6, <2>7 DEF Abstract!Refuse, Reported
  <2> QED BY <2>1, <2>8 DEF WriteInv, WriterStep
<1>4. CASE StartEmit
  <2>1. emit_pc' = "walk" /\ emit_status' = "OK" /\ tasks' = << EmitValue(root) >> /\ root # NULL
    BY <1>1, <1>4 DEF StartEmit, BadArguments
  <2>2. root \in DOMAIN heap.node
    BY <2>1 DEF EmitInv, EmitTypeOK
  <2>3. EmitValue(root) \in TaskType /\ Encoded(EmitValue(root)) = Document
    BY <2>1, <2>2, TaskTypes DEF Encoded, EmitValue, Task, Document
  <2>4. Unwritten' = Document
    BY <1>2, <2>1, <2>3, SpelledFew
  <2>5. sink'.got \o Unwritten' = Document'
    BY <1>1, <1>2, <2>4, DocumentFacts, BytesEmpty
  <2>6. WriteInv'
    BY <1>1, <2>1, <2>5 DEF WriteInv
  <2>7. Reported' = Reported
    BY <1>1, <2>1 DEF Reported
  <2> QED BY <1>1, <1>2, <2>6, <2>7, Stutters
<1> QED BY <1>3, <1>4

LEMMA WalkWrites ==
  ASSUME EmitInv, TreeAlone, WriteInv, TakeApart \/ SkipEmpty
  PROVE  WriteInv' /\ WriterStep
<1>1. /\ emit_pc = "walk" /\ tasks # <<>> /\ UNCHANGED <<heap, root, target, emit_pc, sink, emit_status>>
  BY DEF TakeApart, SkipEmpty
<1>2. emit_status = "OK" /\ root # NULL /\ sink.got \o Unwritten = Document
  BY <1>1 DEF WriteInv
<1>3. UNCHANGED Document /\ Unwritten' = Spelled(tasks')
  BY <1>1, SameDocument
<1>4. /\ Unwritten = Encoded(Head(tasks)) \o Spelled(Tail(tasks))
      /\ Spelled(Tail(tasks)) \in Bytes
      /\ Head(tasks) \in TaskType /\ Tail(tasks) \in Seq(TaskType)
  BY <1>1, TasksSplit, HeadAndTail
<1>5. Unwritten' = Unwritten
  <2>1. CASE TakeApart
    <3>1. tasks' = Unfold(Head(tasks)) \o Tail(tasks) /\ Head(tasks).kind # "bytes"
      BY <2>1 DEF TakeApart
    <3>2. Unfold(Head(tasks)) \in Seq(TaskType) /\ Spelled(Unfold(Head(tasks))) = Encoded(Head(tasks))
      BY <1>4, <3>1, UnfoldTasks, UnfoldSpells
    <3>3. Spelled(tasks') = Spelled(Unfold(Head(tasks))) \o Spelled(Tail(tasks))
      BY <1>4, <3>1, <3>2, SpelledConcat
    <3> QED BY <1>3, <1>4, <3>2, <3>3
  <2>2. CASE SkipEmpty
    <3>1. tasks' = Tail(tasks) /\ Encoded(Head(tasks)) = <<>>
      BY <2>2 DEF SkipEmpty, IsEmpty, Encoded
    <3> QED BY <1>3, <1>4, <3>1, BytesEmpty
  <2> QED BY <2>1, <2>2
<1>6. WriteInv'
  BY <1>1, <1>2, <1>3, <1>5 DEF WriteInv
<1>7. Reported' = Reported
  BY <1>1 DEF Reported
<1> QED BY <1>1, <1>3, <1>6, <1>7, Stutters

LEMMA ChunkWrites ==
  ASSUME EmitInv, TreeAlone, WriteInv, emit_bytes
  PROVE  WriteInv' /\ WriterStep
<1> DEFINE chunk == Head(tasks).bytes
           rest == Spelled(Tail(tasks))
<1>1. /\ emit_pc = "walk" /\ tasks # <<>> /\ Head(tasks).kind = "bytes" /\ chunk # <<>>
      /\ UNCHANGED <<root, target, emit_pc>>
  BY DEF emit_bytes, IsEmpty
<1>2. emit_status = "OK" /\ root # NULL /\ sink.got \o Unwritten = Document
  BY <1>1 DEF WriteInv
<1>3. /\ chunk \in Bytes /\ rest \in Bytes /\ Unwritten = chunk \o rest
      /\ sink.got \in Bytes
  BY <1>1, HeadAndTail, TasksSplit DEF Encoded, EmitInv, EmitTypeOK, SinkType
<1>4. PICK r \in Sink(chunk) :
        sink' = r.sink /\ heap' = r.heap /\ emit_status' = r.status /\ tasks' = Left(r.status)
  BY DEF emit_bytes
<1>5. Takes(r, chunk)
  BY <1>1, <1>3, <1>4, SinkTakes
<1>6. r.heap.node = heap.node /\ r.status \in bencode_status
  <2>1. Leaves(r)
    BY <1>1, <1>3, <1>4, UserSink, FileSink, AllocSink DEF Sink, EmitInv, EmitTypeOK, TargetType
  <2> QED BY <2>1 DEF Leaves
<1>7. UNCHANGED Document /\ Unwritten' = Spelled(tasks')
  BY <1>1, <1>4, <1>6, SameDocument
<1> HIDE DEF chunk, rest
<1>8. /\ sink.got \o chunk \in Bytes /\ Document = (sink.got \o chunk) \o rest
      /\ Len(sink.got \o chunk) = Len(sink.got) + Len(chunk)
      /\ Len(sink.got) \in Nat /\ Len(chunk) \in Nat /\ Len(chunk) # 0
  <2>1. sink.got \o chunk \in Bytes /\ Len(sink.got \o chunk) = Len(sink.got) + Len(chunk)
        /\ Len(sink.got) \in Nat /\ Len(chunk) \in Nat
    BY <1>3, BytesConcat
  <2>2. Len(chunk) # 0
    BY <1>1, <1>3, EmptySeq DEF Bytes
  <2> QED BY <1>2, <1>3, <2>1, <2>2, BytesAssociative
<1>9. Reported = "none" /\ Reported' = IF emit_status' = "OK" THEN "none" ELSE emit_status'
  BY <1>1, <1>2 DEF Reported
<1>10. CASE r.status = "OK"
  <2>1. sink'.got = sink.got \o chunk /\ sink'.calls = sink.calls + 1 /\ tasks' = Tail(tasks)
    BY <1>4, <1>5, <1>10 DEF Takes, Left
  <2>2. WriteInv'
    BY <1>1, <1>2, <1>4, <1>7, <1>8, <1>10, <2>1 DEF WriteInv, rest
  <2>3. sink'.got = SubSeq(Document, 1, Len(sink'.got)) /\ Len(sink'.got) > Len(sink.got)
    BY <1>3, <1>8, <2>1, FirstPart
  <2>4. Abstract!Accept
    BY <1>4, <1>7, <1>9, <1>10, <2>1, <2>3 DEF Abstract!Accept, Reported
  <2> QED BY <2>2, <2>4 DEF WriterStep
<1>11. CASE r.status # "OK"
  <2>1. PICK j \in 0..(Len(chunk) - 1) : sink'.got = sink.got \o SubSeq(chunk, 1, j)
    BY <1>4, <1>5, <1>11 DEF Takes
  <2>2. sink'.calls = sink.calls + 1 /\ tasks' = <<>>
    BY <1>4, <1>5, <1>11 DEF Takes, Left
  <2>3. WriteInv'
    BY <1>1, <1>2, <1>4, <1>11, <2>2 DEF WriteInv
  <2> DEFINE a == SubSeq(chunk, 1, j)
             b == SubSeq(chunk, j + 1, Len(chunk))
  <2>4. a \in Bytes /\ b \in Bytes /\ Len(a) = j /\ chunk = a \o b
    <3>1. chunk \in Bytes /\ j \in 0..Len(chunk)
      BY <1>3, <1>8
    <3> QED BY <3>1, CutInTwo
  <2> HIDE DEF a, b
  <2>5. /\ sink.got \o a \in Bytes /\ b \o rest \in Bytes
        /\ Len(sink.got \o a) = Len(sink.got) + j
    BY <1>3, <2>4, BytesConcat
  <2>6. Document = (sink.got \o a) \o (b \o rest)
    <3>1. (a \o b) \o rest = a \o (b \o rest)
      <4>1. a \in Bytes /\ b \in Bytes /\ rest \in Bytes
        BY <1>3, <2>4
      <4> QED BY <4>1, BytesAssociative
    <3>2. sink.got \o (a \o (b \o rest)) = (sink.got \o a) \o (b \o rest)
      <4>1. sink.got \in Bytes /\ a \in Bytes /\ b \o rest \in Bytes
        BY <1>3, <2>4, <2>5
      <4> QED BY <4>1, BytesAssociative
    <3> QED BY <1>2, <1>3, <2>4, <3>1, <3>2
  <2>7. sink'.got = sink.got \o a
    BY <2>1 DEF a
  <2>8. sink'.got = SubSeq(Document, 1, Len(sink'.got))
    BY <2>5, <2>6, <2>7, FirstPart
  <2>9. Len(Document) = Len(sink.got) + Len(chunk) + Len(rest) /\ Len(rest) \in Nat
    BY <1>3, <1>8, FirstPart
  <2>10. sink'.got # Document /\ Len(sink'.got) >= Len(sink.got)
    <3>1. /\ Len(sink'.got) = Len(sink.got) + j /\ j \in Nat /\ j < Len(chunk)
      BY <1>8, <2>5, <2>7
    <3>2. Len(sink'.got) # Len(Document) /\ Len(sink'.got) >= Len(sink.got)
      BY <1>8, <2>9, <3>1
    <3> QED BY <3>2
  <2>11. Abstract!Refuse
    BY <1>4, <1>6, <1>7, <1>9, <1>11, <2>2, <2>8, <2>10
       DEF Abstract!Refuse, Reported, Abstract!bencode_status, bencode_status
  <2> QED BY <2>3, <2>11 DEF WriterStep
<1> QED BY <1>10, <1>11

\* The walk is over, and nothing was refused: the sink has the document.
LEMMA AllWritten ==
  ASSUME EmitInv, TreeAlone, WriteInv, emit_pc = "walk", tasks = <<>>, emit_status = "OK"
  PROVE  sink.got = Document /\ Document # <<>>
<1>1. root # NULL /\ sink.got \o Unwritten = Document
  BY DEF WriteInv
<1>2. Unwritten = <<>>
  BY SpelledFew DEF Unwritten, Spelled
<1>3. sink.got \in Bytes
  BY DEF EmitInv, EmitTypeOK, SinkType
<1> QED BY <1>1, <1>2, <1>3, BytesEmpty, DocumentFacts

LEMMA ReturnWrites ==
  ASSUME EmitInv, TreeAlone, WriteInv, Flush \/ ReturnEmit \/ bencode_buffer_free,
         heap'.node = heap.node
  PROVE  WriteInv' /\ WriterStep
<1>1. /\ UNCHANGED root /\ emit_pc' \in {"returned", "released"}
      /\ sink'.got = sink.got /\ sink'.calls = sink.calls
  <2>1. sink \in SinkType
    BY DEF EmitInv, EmitTypeOK
  <2> QED BY <2>1 DEF Flush, ReturnEmit, bencode_buffer_free, SinkType
<1>2. UNCHANGED Document
  BY <1>1, SameDocument
<1>3. WriteInv'
  BY <1>1 DEF WriteInv
<1>4. Reported' = emit_status'
  BY <1>1 DEF Reported
<1>5. CASE emit_pc = "walk" /\ emit_status = "OK"
  <2>1. sink.got = Document /\ Document # <<>>
    BY <1>5, AllWritten DEF Flush, ReturnEmit, bencode_buffer_free
  <2>2. Reported = "none" /\ emit_status' \in {"OK", "IO"}
    BY <1>5 DEF Reported, Flush, ReturnEmit, bencode_buffer_free
  <2>3. Abstract!Finish
    BY <1>1, <1>2, <1>4, <2>1, <2>2 DEF Abstract!Finish, Reported
  <2> QED BY <1>3, <2>3 DEF WriterStep
<1>6. CASE ~(emit_pc = "walk" /\ emit_status = "OK")
  <2>1. Reported = emit_status /\ emit_status' = emit_status
    BY <1>6 DEF Reported, Flush, MustFlush, ReturnEmit, bencode_buffer_free
  <2>2. UNCHANGED Abstract!writer
    BY <1>1, <1>2, <1>4, <2>1 DEF Abstract!writer, Reported
  <2> QED BY <1>3, <2>2 DEF WriterStep
<1> QED BY <1>5, <1>6

LEMMA NextWrites ==
  ASSUME EmitInv, TreeAlone, WriteInv, [EmitNext]_emit_vars
  PROVE  WriteInv' /\ WriterStep
<1>1. CASE RefuseEmit \/ StartEmit
  BY <1>1, StartWrites
<1>2. CASE TakeApart \/ SkipEmpty
  BY <1>2, WalkWrites
<1>3. CASE emit_bytes
  BY <1>3, ChunkWrites
<1>4. CASE Flush \/ ReturnEmit \/ bencode_buffer_free
  <2>1. heap'.node = heap.node
    BY NodesStay
  <2> QED BY <1>4, <2>1, ReturnWrites
<1>5. CASE UNCHANGED emit_vars
  <2>1. UNCHANGED <<heap, root, target, emit_pc, tasks, sink, emit_status>>
    BY <1>5 DEF emit_vars
  <2>2. UNCHANGED Document /\ Unwritten' = Unwritten
    BY <2>1, SameDocument DEF Unwritten, Spelled
  <2>3. WriteInv' /\ Reported' = Reported
    BY <2>1, <2>2 DEF WriteInv, Reported
  <2> QED BY <2>1, <2>2, <2>3, Stutters
<1> QED BY <1>1, <1>2, <1>3, <1>4, <1>5 DEF EmitNext, Emitting

\* Whatever the tree and the sink, the sink has a prefix of the document at
\* every moment, is never called with nothing nor after it refused, and the
\* call returns OK only when it has all of it.
THEOREM WriterIsImplemented == EmitSpec => ImplementsWriter
<1> DEFINE Inv == EmitInv /\ TreeAlone /\ WriteInv
<1>1. EmitInit => Inv /\ Abstract!WriterInit
  <2> SUFFICES ASSUME EmitInit PROVE Inv /\ Abstract!WriterInit
    OBVIOUS
  <2>1. EmitInv /\ TreeAlone
    BY InitIsEntry, EntryEmitInv, EntryIsAlone
  <2>2. emit_pc = "entry" /\ sink.got = <<>> /\ sink.calls = 0 /\ emit_status = "OK"
    BY DEF EmitInit, NewSink
  <2> QED BY <2>1, <2>2 DEF WriteInv, Abstract!WriterInit
<1>2. Inv /\ [EmitNext]_emit_vars
        => Inv' /\ [Abstract!Accept \/ Abstract!Refuse \/ Abstract!Finish]_(Abstract!writer)
  BY NextEmitInv, TreeIsKept, NextWrites DEF WriterStep
<1> QED
  <2> HIDE DEF Inv
  <2> QED BY <1>1, <1>2, PTL DEF EmitSpec, ImplementsWriter, Abstract!WriterSpec


=============================================================================
