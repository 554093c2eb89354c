--------------------------- MODULE BuilderProofs ---------------------------
(***************************************************************************)
(* Whatever its caller builds, gives away, clones or frees, and whichever  *)
(* requests the allocators refuse: theorems about Builder, for every value *)
(* asked for, every key, every capacity and every bound.                   *)
(*                                                                         *)
(* The trees of the caller are a forest: no entry leads up, and the values *)
(* that no entry leads to are those the caller owns.                       *)
(***************************************************************************)
EXTENDS Builder, ValueTreeProofs

---------------------------------------------------------------------------
(* A forest on the heap.                                                   *)

\* Every entry leads down.
Grounded(m, depth) ==
  /\ depth \in [DOMAIN m.node -> Nat]
  /\ \A n \in DOMAIN m.node : \A c \in Children(m, n) : depth[n] < depth[c]

Trees(m) == HeapInv(m, {}) /\ \E depth : Grounded(m, depth)

\* The values that no entry leads to.
Parentless(m) == { n \in DOMAIN m.node : \A p \in DOMAIN m.node : n \notin Children(m, p) }

ForestOf(m, R) == Trees(m) /\ R = Parentless(m)

\* What is used of a forest in every proof below.
LEMMA ForestFacts ==
  ASSUME NEW m, Trees(m)
  PROVE  /\ HeapType(m) /\ HeldOnce(m, {}) /\ OneParent(m) /\ Ordered(m)
         /\ DOMAIN m.node \subseteq Nat /\ NULL \notin DOMAIN m.node
         /\ \A n : Children(m, n) \subseteq DOMAIN m.node
         /\ \A n, p, c : c \in Children(m, n) /\ c \in Children(m, p) => n = p
         /\ \A n : n \notin DOMAIN m.node => Children(m, n) = {}
<1>1. HeapType(m) /\ HeldOnce(m, {}) /\ OneParent(m) /\ Ordered(m)
  BY DEF Trees, HeapInv
<1>2. DOMAIN m.node \subseteq Nat /\ NULL \notin DOMAIN m.node
  BY <1>1, NodeFacts
<1>3. ASSUME NEW n PROVE Children(m, n) \subseteq DOMAIN m.node
  BY <1>1, ChildrenFacts DEF OneParent
<1>4. ASSUME NEW n, NEW p, NEW c, c \in Children(m, n), c \in Children(m, p)
      PROVE  n = p
  <2>1. n \in DOMAIN m.node /\ \E k \in DOMAIN m.node[n].entries : m.node[n].entries[k].value = c
    BY <1>1, <1>4, ChildrenFacts
  <2>2. p \in DOMAIN m.node /\ \E k \in DOMAIN m.node[p].entries : m.node[p].entries[k].value = c
    BY <1>1, <1>4, ChildrenFacts
  <2> QED BY <1>1, <2>1, <2>2 DEF OneParent
<1>5. \A n : n \notin DOMAIN m.node => Children(m, n) = {}
  BY DEF Children
<1> QED BY <1>1, <1>2, <1>3, <1>4, <1>5

\* The nodes on the way to one of level d are d + 1, all of them different.
LEMMA LevelIsReached ==
  ASSUME NEW m, Trees(m), NEW v \in DOMAIN m.node, NEW level, Levels(m, v, level),
         NEW d \in Nat, NEW x \in level[d]
  PROVE  x \in DOMAIN m.node /\ d < Cardinality(DOMAIN m.node)
<1> DEFINE D == DOMAIN m.node
<1>0. PICK depth : Grounded(m, depth)
  BY DEF Trees
<1> DEFINE Way(e, y, P) == /\ P \in SUBSET D /\ IsFiniteSet(P) /\ Cardinality(P) = e + 1 /\ y \in P
                           /\ \A p \in P : depth[p] <= depth[y]
           T == {e \in Nat : \A y \in level[e] : \E P : Way(e, y, P)}
<1>1. IsFiniteSet(D) /\ Cardinality(D) \in Nat
  BY NodesAreFinite, ForestFacts
<1>2. v # NULL
  BY ForestFacts
<1>3. \A n \in D : depth[n] \in Nat
  BY <1>0 DEF Grounded
<1>4. 0 \in T
  <2>1. level[0] = {v}
    BY <1>2 DEF Levels
  <2>2. IsFiniteSet({v}) /\ Cardinality({v}) = 1
    BY FS_Singleton, Zenon
  <2>3. depth[v] <= depth[v]
    BY <1>3
  <2>4. Way(0, v, {v})
    BY <2>2, <2>3
  <2> QED BY <2>1, <2>4
<1>5. ASSUME NEW e \in Nat, e \in T PROVE e + 1 \in T
  <2> SUFFICES ASSUME NEW y \in level[e + 1] PROVE \E P : Way(e + 1, y, P)
    OBVIOUS
  <2>1. PICK n \in level[e] : y \in Children(m, n)
    BY DEF Levels
  <2>2. PICK P : Way(e, n, P)
    BY <1>5
  <2>3. n \in D /\ y \in D /\ depth[n] < depth[y]
    BY <1>0, <2>1, <2>2, ForestFacts DEF Grounded
  <2>4. \A p \in P : p \in D /\ depth[p] <= depth[n]
    BY <2>2
  <2>5. y \notin P /\ \A p \in P : depth[p] <= depth[y]
    BY <1>3, <2>3, <2>4
  <2>6. IsFiniteSet(P \cup {y}) /\ Cardinality(P \cup {y}) = (e + 1) + 1
    BY <2>2, <2>5, FS_AddElement
  <2>7. P \cup {y} \in SUBSET D /\ y \in P \cup {y} /\ \A p \in P \cup {y} : depth[p] <= depth[y]
    BY <1>3, <2>3, <2>4, <2>5
  <2> QED BY <2>6, <2>7
<1>6. Nat \subseteq T
  <2> HIDE DEF T
  <2> QED BY <1>4, <1>5, InductionOverSet
<1>7. PICK P : Way(d, x, P)
  BY <1>6
<1>8. Cardinality(P) <= Cardinality(D)
  BY <1>1, <1>7, FS_Subset
<1> QED BY <1>1, <1>7, <1>8

\* A tree is the least set that holds its root and the children of its nodes.
LEMMA TreeHolds ==
  ASSUME NEW m, Trees(m), NEW v \in DOMAIN m.node
  PROVE  /\ v \in Tree(m, v) /\ Tree(m, v) \subseteq DOMAIN m.node
         /\ \A n \in Tree(m, v) : Children(m, n) \subseteq Tree(m, v)
<1>1. HeapType(m) /\ HeldOnce(m, {}) /\ OneParent(m) /\ v \in Nat /\ v # NULL
  BY ForestFacts
<1>2. PICK level : Levels(m, v, level)
  BY <1>1, TreeHasLevels
<1>3. v \in Tree(m, v) /\ Tree(m, v) \subseteq DOMAIN m.node
  BY <1>1, RootInTree, TreeIsClosed
<1>4. ASSUME NEW n \in Tree(m, v), NEW c \in Children(m, n)
      PROVE  c \in Tree(m, v)
  <2>0. Cardinality(DOMAIN m.node) \in Nat
    BY <1>1, NodesAreFinite
  <2>1. PICK d \in 0..Cardinality(DOMAIN m.node) : n \in level[d]
    BY <1>2 DEF Levels
  <2>2. d \in Nat /\ d + 1 \in Nat
    BY <2>0
  <2>3. c \in level[d + 1]
    BY <1>2, <2>1, <2>2 DEF Levels
  <2>4. d + 1 \in 0..Cardinality(DOMAIN m.node)
    BY <1>2, <2>0, <2>2, <2>3, LevelIsReached
  <2> QED BY <1>2, <2>3, <2>4 DEF Levels
<1> QED BY <1>3, <1>4

LEMMA TreeIsLeast ==
  ASSUME NEW m, HeapType(m), HeldOnce(m, {}), NEW v \in Nat, NEW C,
         v # NULL => v \in C,
         \A n \in C : Children(m, n) \subseteq C
  PROVE  Tree(m, v) \subseteq C
<1>1. PICK level : Levels(m, v, level)
  BY TreeHasLevels
<1> DEFINE T == {d \in Nat : level[d] \subseteq C}
<1>2. 0 \in T
  BY <1>1 DEF Levels
<1>3. ASSUME NEW d \in Nat, d \in T PROVE d + 1 \in T
  <2>1. level[d + 1] = UNION { Children(m, n) : n \in level[d] }
    BY <1>1 DEF Levels
  <2> QED BY <1>3, <2>1
<1>4. Nat \subseteq T
  <2> HIDE DEF T
  <2> QED BY <1>2, <1>3, InductionOverSet
<1>5. \A d \in 0..Cardinality(DOMAIN m.node) : level[d] \subseteq C
  <2>1. Cardinality(DOMAIN m.node) \in Nat
    BY NodesAreFinite
  <2> QED BY <1>4, <2>1
<1> QED BY <1>1, <1>5 DEF Levels
\* Every node of a tree but its root has its parent there.
LEMMA TreeParents ==
  ASSUME NEW m, HeapType(m), HeldOnce(m, {}), NEW v \in Nat, NEW x \in Tree(m, v), x # v
  PROVE  \E p \in Tree(m, v) : x \in Children(m, p)
<1>1. PICK level : Levels(m, v, level)
  BY TreeHasLevels
<1>2. Cardinality(DOMAIN m.node) \in Nat
  BY NodesAreFinite
<1>3. PICK d \in 0..Cardinality(DOMAIN m.node) : x \in level[d]
  BY <1>1 DEF Levels
<1>4. d # 0
  BY <1>1, <1>3 DEF Levels
<1>5. d - 1 \in Nat /\ d - 1 \in 0..Cardinality(DOMAIN m.node) /\ (d - 1) + 1 = d
  BY <1>2, <1>4
<1>6. level[d] = UNION { Children(m, n) : n \in level[d - 1] }
  BY <1>1, <1>5 DEF Levels
<1>7. PICK p \in level[d - 1] : x \in Children(m, p)
  BY <1>3, <1>6
<1> QED BY <1>1, <1>5, <1>7 DEF Levels

\* An entry that leads into a tree, but not to its root, is one of its nodes'.
LEMMA EntersAtTheRoot ==
  ASSUME NEW m, Trees(m), NEW v \in Nat, NEW p, NEW c \in Tree(m, v), c \in Children(m, p), c # v
  PROVE  p \in Tree(m, v)
<1>1. PICK q \in Tree(m, v) : c \in Children(m, q)
  BY ForestFacts, TreeParents
<1> QED BY <1>1, ForestFacts

\* Every node of a tree is as far down as its root.
LEMMA TreeIsBelow ==
  ASSUME NEW m, Trees(m), NEW depth, Grounded(m, depth), NEW v \in DOMAIN m.node
  PROVE  \A n \in Tree(m, v) : n \in DOMAIN m.node /\ depth[v] <= depth[n]
<1> DEFINE C == { n \in DOMAIN m.node : depth[v] <= depth[n] }
<1>1. HeapType(m) /\ HeldOnce(m, {}) /\ v \in Nat /\ \A n : Children(m, n) \subseteq DOMAIN m.node
  BY ForestFacts
<1>2. \A n \in DOMAIN m.node : depth[n] \in Nat
  BY DEF Grounded
<1>3. v \in C
  BY <1>2
<1>4. ASSUME NEW n \in C, NEW c \in Children(m, n) PROVE c \in C
  <2>1. c \in DOMAIN m.node /\ depth[n] < depth[c] /\ depth[v] <= depth[n]
    BY <1>1 DEF Grounded
  <2> QED BY <1>2, <2>1
<1>5. Tree(m, v) \subseteq C
  <2> HIDE DEF C
  <2> QED BY <1>1, <1>3, <1>4, TreeIsLeast
<1> QED BY <1>5

\* No entry below a value leads back to it.
LEMMA NotBelowItself ==
  ASSUME NEW m, Trees(m), NEW n \in DOMAIN m.node, NEW c \in Children(m, n)
  PROVE  n \notin Tree(m, c)
<1>1. PICK depth : Grounded(m, depth)
  BY DEF Trees
<1>2. c \in DOMAIN m.node
  BY ForestFacts
<1>3. depth[n] < depth[c] /\ depth[n] \in Nat /\ depth[c] \in Nat
  BY <1>1, <1>2 DEF Grounded
<1>4. n \in Tree(m, c) => depth[c] <= depth[n]
  BY <1>1, <1>2, TreeIsBelow
<1> QED BY <1>3, <1>4

\* Every node is in the tree of a value that no entry leads to.
LEMMA EveryNodeHasARoot ==
  ASSUME NEW m, Trees(m), NEW n \in DOMAIN m.node
  PROVE  \E r \in Parentless(m) : n \in Tree(m, r)
<1> DEFINE Lost == { x \in DOMAIN m.node : \A r \in Parentless(m) : x \notin Tree(m, r) }
<1> SUFFICES ASSUME Lost # {} PROVE FALSE
  OBVIOUS
<1>1. PICK depth : Grounded(m, depth)
  BY DEF Trees
<1> DEFINE Depths == { depth[x] : x \in Lost }
<1>2. Depths \in SUBSET Nat /\ Depths # {}
  BY <1>1 DEF Grounded
<1>3. PICK least \in Depths : \A d \in Depths : least <= d
  <2> HIDE DEF Depths
  <2> QED BY <1>2, LeastNatural
<1>4. PICK x \in Lost : least = depth[x]
  BY <1>3
<1>5. x \in DOMAIN m.node /\ \A r \in Parentless(m) : x \notin Tree(m, r)
  BY <1>4
<1>6. x \notin Parentless(m)
  <2> HIDE DEF Lost, Depths
  <2> QED BY <1>5, TreeHolds
<1>7. PICK p \in DOMAIN m.node : x \in Children(m, p)
  BY <1>5, <1>6 DEF Parentless
<1>8. depth[p] < depth[x] /\ depth[p] \in Nat /\ depth[x] \in Nat
  BY <1>1, <1>5, <1>7 DEF Grounded
<1>9. p \notin Lost
  <2>1. p \in Lost => depth[x] <= depth[p]
    BY <1>3, <1>4
  <2> HIDE DEF Lost, Depths
  <2> QED BY <1>8, <2>1
<1>10. PICK r \in Parentless(m) : p \in Tree(m, r)
  BY <1>9
<1>11. r \in DOMAIN m.node
  BY DEF Parentless
<1>12. x \in Tree(m, r)
  <2> HIDE DEF Lost, Depths
  <2> QED BY <1>7, <1>10, <1>11, TreeHolds
<1> QED BY <1>5, <1>12

\* The trees of two values that no entry leads to have nothing in common.
LEMMA TreesAreDisjoint ==
  ASSUME NEW m, Trees(m), NEW r1 \in Parentless(m), NEW r2 \in Parentless(m), r1 # r2
  PROVE  Tree(m, r1) \cap Tree(m, r2) = {}
<1> DEFINE C == Tree(m, r1) \ Tree(m, r2)
<1>1. /\ r1 \in DOMAIN m.node /\ r2 \in DOMAIN m.node
      /\ \A p : r1 \notin Children(m, p) /\ r2 \notin Children(m, p)
  BY ForestFacts DEF Parentless
<1>2. HeapType(m) /\ HeldOnce(m, {}) /\ r1 \in Nat /\ r2 \in Nat
  BY <1>1, ForestFacts
<1>3. r1 \in C
  <2>1. r1 \notin Tree(m, r2)
    BY <1>1, <1>2, TreeParents
  <2> QED BY <1>1, <2>1, TreeHolds
<1>4. ASSUME NEW n \in C, NEW c \in Children(m, n) PROVE c \in C
  <2>1. c \in Tree(m, r1)
    BY <1>1, TreeHolds
  <2>2. c \in Tree(m, r2) => n \in Tree(m, r2)
    BY <1>1, <1>2, EntersAtTheRoot
  <2> QED BY <2>1, <2>2
<1>5. Tree(m, r1) \subseteq C
  <2> HIDE DEF C
  <2> QED BY <1>2, <1>3, <1>4, TreeIsLeast
<1> QED BY <1>5

\* A tree is the same on two heaps where its nodes have the same children.
LEMMA SameTree ==
  ASSUME NEW m, Trees(m), NEW m2, Trees(m2), NEW v \in DOMAIN m.node, v \in DOMAIN m2.node,
         \A n \in Tree(m, v) : Children(m2, n) = Children(m, n)
  PROVE  Tree(m2, v) = Tree(m, v)
<1>1. HeapType(m) /\ HeldOnce(m, {}) /\ HeapType(m2) /\ HeldOnce(m2, {}) /\ v \in Nat
  BY ForestFacts
<1>2. /\ v \in Tree(m, v) /\ \A n \in Tree(m, v) : Children(m, n) \subseteq Tree(m, v)
      /\ v \in Tree(m2, v) /\ \A n \in Tree(m2, v) : Children(m2, n) \subseteq Tree(m2, v)
  BY TreeHolds
<1>3. Tree(m2, v) \subseteq Tree(m, v)
  BY <1>1, <1>2, TreeIsLeast
<1> DEFINE Both == Tree(m, v) \cap Tree(m2, v)
<1>4. Tree(m, v) \subseteq Both
  <2>1. v \in Both /\ \A n \in Both : Children(m, n) \subseteq Both
    BY <1>2
  <2> HIDE DEF Both
  <2> QED BY <1>1, <2>1, TreeIsLeast
<1> QED BY <1>3, <1>4

\* What Ownership says of the heap holds of every forest.
LEMMA ForestOwns ==
  ASSUME NEW m, NEW R, ForestOf(m, R)
  PROVE  /\ ~m.fault /\ m.live = UNION { Blocks(m, r) : r \in R }
         /\ \A r1, r2 \in R : r1 # r2 => Tree(m, r1) \cap Tree(m, r2) = {}
<1>1. Trees(m) /\ R = Parentless(m)
  BY DEF ForestOf
<1>2. m.live = UNION { BlocksOf(m, n) : n \in DOMAIN m.node } /\ ~m.fault
  <2>1. HeldOnce(m, {}) /\ HeapType(m)
    BY <1>1, ForestFacts
  <2>2. m.live = UNION { BlocksOf(m, n) : n \in DOMAIN m.node }
    BY <2>1 DEF HeldOnce
  <2>3. ~m.fault
    BY <2>1 DEF HeapType
  <2> QED BY <2>2, <2>3
<1>3. ASSUME NEW n \in DOMAIN m.node PROVE \E r \in R : BlocksOf(m, n) \subseteq Blocks(m, r)
  BY <1>1, EveryNodeHasARoot DEF Blocks
<1>4. ASSUME NEW r \in R PROVE Blocks(m, r) \subseteq UNION { BlocksOf(m, n) : n \in DOMAIN m.node }
  <2>1. Tree(m, r) \subseteq DOMAIN m.node
    BY <1>1, TreeHolds DEF Parentless
  <2> QED BY <2>1 DEF Blocks
<1>5. m.live = UNION { Blocks(m, r) : r \in R }
  BY <1>2, <1>3, <1>4
<1> QED BY <1>1, <1>2, <1>5, TreesAreDisjoint

---------------------------------------------------------------------------
(* Freeing a tree.                                                         *)

\* m without the nodes of v's tree and their blocks.
Without(m, v) ==
  Heap(m.live \ Blocks(m, v), [n \in DOMAIN m.node \ Tree(m, v) |-> m.node[n]], m.fault)

LEMMA FreedTree ==
  ASSUME NEW m, Trees(m), NEW v \in DOMAIN m.node
  PROVE  /\ bencode_value_free(m, v) = Without(m, v)
         /\ Blocks(m, v) \subseteq m.live
<1>1. HeapType(m) /\ HeldOnce(m, {}) /\ OneParent(m)
  BY ForestFacts
<1>2. Blocks(m, v) \subseteq m.live
  <2>1. m.live = UNION { BlocksOf(m, n) : n \in DOMAIN m.node }
    BY <1>1 DEF HeldOnce
  <2> QED BY <2>1, TreeHolds DEF Blocks
<1>3. ~Shared(m, Tree(m, v) \cap DOMAIN m.node)
  BY <1>1 DEF Shared, OneParent
<1>4. Release(m, Blocks(m, v)) = Heap(m.live \ Blocks(m, v), m.node, m.fault)
  BY <1>1, <1>2, ReleaseFromHeap
<1> QED BY <1>1, <1>2, <1>3, <1>4, ValueFree DEF Without

\* Field by field.
LEMMA WithoutFields ==
  ASSUME NEW m, Trees(m), NEW v \in DOMAIN m.node, NEW f, f = Without(m, v)
  PROVE  /\ f.live = m.live \ Blocks(m, v) /\ f.fault = m.fault
         /\ DOMAIN f.node = DOMAIN m.node \ Tree(m, v)
         /\ \A n \in DOMAIN f.node : f.node[n] = m.node[n]
         /\ HeapType(f)
<1> DEFINE L == m.live \ Blocks(m, v)
           N == [n \in DOMAIN m.node \ Tree(m, v) |-> m.node[n]]
<1>1. f = Heap(L, N, m.fault)
  BY DEF Without
<1>2. HeapType(m)
  BY ForestFacts
<1>3. f.live = L /\ f.node = N /\ f.fault = m.fault
  <2> HIDE DEF L, N
  <2> QED BY <1>1, HeapFields
<1>4. DOMAIN f.node = DOMAIN m.node \ Tree(m, v) /\ \A n \in DOMAIN f.node : f.node[n] = m.node[n]
  BY <1>3
<1>5. f.node \in [DOMAIN f.node -> NodeType]
  <2>1. \A n \in DOMAIN f.node : m.node[n] \in NodeType
    BY <1>2, <1>4, NodeFacts
  <2> QED BY <1>3, <1>4, <2>1
<1>6. IsFiniteSet(L)
  BY <1>2, FS_Subset DEF HeapType
<1>7. HeapType(f)
  <2> HIDE DEF L, N
  <2>1. f = Heap(f.live, f.node, f.fault) /\ f.fault = FALSE
    BY <1>1, <1>2, <1>3 DEF HeapType
  <2>2. f.live \subseteq Allocator \X Block /\ IsFiniteSet(f.live)
    BY <1>2, <1>3, <1>6 DEF HeapType, L
  <2>3. DOMAIN f.node \subseteq Block
    BY <1>2, <1>4 DEF HeapType
  <2> QED BY <1>5, <2>1, <2>2, <2>3 DEF HeapType
<1> QED BY <1>3, <1>4, <1>7

\* The children of the nodes that are left.
LEMMA WithoutChildren ==
  ASSUME NEW m, NEW f, NEW S, DOMAIN f.node = DOMAIN m.node \ S,
         \A n \in DOMAIN f.node : f.node[n] = m.node[n]
  PROVE  \A n : Children(f, n) = IF n \in S THEN {} ELSE Children(m, n)
BY DEF Children

\* f has the nodes of m but for those in S.
Less(m, f, S) ==
  DOMAIN f.node = DOMAIN m.node \ S /\ \A n \in DOMAIN f.node : f.node[n] = m.node[n]

\* The caller frees a value of its own: what is left is a forest again.
LEMMA RootFreed ==
  ASSUME NEW m, NEW R, ForestOf(m, R), NEW v \in R, NEW f, f = bencode_value_free(m, v)
  PROVE  ForestOf(f, R \ {v}) /\ Less(m, f, Tree(m, v))
<1>1. Trees(m) /\ R = Parentless(m) /\ v \in DOMAIN m.node /\ v \in Nat
  BY ForestFacts DEF ForestOf, Parentless
<1>2. /\ f.live = m.live \ Blocks(m, v) /\ f.fault = m.fault
      /\ DOMAIN f.node = DOMAIN m.node \ Tree(m, v)
      /\ \A n \in DOMAIN f.node : f.node[n] = m.node[n]
      /\ HeapType(f)
  BY <1>1, FreedTree, WithoutFields
<1>3. HeapType(m) /\ HeldOnce(m, {}) /\ OneParent(m) /\ Ordered(m)
  BY <1>1, ForestFacts
<1>4. \A n : Children(f, n) = IF n \in Tree(m, v) THEN {} ELSE Children(m, n)
  BY <1>2, WithoutChildren
<1>5. \A p : v \notin Children(m, p)
  BY <1>1, ForestFacts DEF Parentless
<1>6. ASSUME NEW n \in DOMAIN f.node PROVE Children(f, n) \subseteq DOMAIN f.node
  <2>1. Children(m, n) \subseteq DOMAIN m.node
    BY <1>1, ForestFacts
  <2>2. \A c \in Children(m, n) : c \notin Tree(m, v)
    BY <1>1, <1>2, <1>5, EntersAtTheRoot
  <2> QED BY <1>2, <1>4, <2>1, <2>2
<1>7. HeldOnce(f, {})
  <2>1. \A n \in DOMAIN f.node : Parts(n, f.node[n]) = Parts(n, m.node[n]) /\ BlocksOf(f, n) = BlocksOf(m, n)
    <3> TAKE n \in DOMAIN f.node
    <3>1. f.node[n] = m.node[n] /\ n \in DOMAIN m.node
      BY <1>2
    <3>2. Parts(n, f.node[n]) = Parts(n, m.node[n])
      BY <3>1
    <3>3. BlocksOf(m, n) = {m.node[n].alloc} \X Parts(n, m.node[n])
      BY <1>3, <3>1, PartsAreLive
    <3>4. BlocksOf(f, n) = {f.node[n].alloc} \X Parts(n, f.node[n])
      BY DEF BlocksOf, Parts
    <3> QED BY <3>1, <3>2, <3>3, <3>4
  <2>2. ASSUME NEW n \in DOMAIN m.node, n \notin Tree(m, v), NEW b \in BlocksOf(m, n)
        PROVE  b \notin Blocks(m, v)
    <3> SUFFICES ASSUME NEW k \in Tree(m, v), b \in BlocksOf(m, k) PROVE FALSE
      BY DEF Blocks
    <3>1. k \in DOMAIN m.node /\ k # n
      BY <1>1, <2>2, TreeHolds
    <3>2. b[2] \in Parts(n, m.node[n]) /\ b[2] \in Parts(k, m.node[k])
      BY <1>3, <2>2, <3>1, PartsAreLive
    <3> QED BY <1>3, <3>1, <3>2 DEF HeldOnce
  <2>3. f.live = {} \cup UNION { BlocksOf(f, n) : n \in DOMAIN f.node }
    <3>1. m.live = UNION { BlocksOf(m, n) : n \in DOMAIN m.node }
      BY <1>3 DEF HeldOnce
    <3>2. ASSUME NEW b \in f.live PROVE \E n \in DOMAIN f.node : b \in BlocksOf(f, n)
      <4>1. PICK n \in DOMAIN m.node : b \in BlocksOf(m, n)
        BY <1>2, <3>1
      <4>2. n \notin Tree(m, v)
        BY <1>2, <4>1 DEF Blocks
      <4> QED BY <1>2, <2>1, <4>1, <4>2
    <3>3. ASSUME NEW n \in DOMAIN f.node, NEW b \in BlocksOf(f, n) PROVE b \in f.live
      BY <1>2, <2>1, <2>2, <3>1, <3>3
    <3> QED BY <3>2, <3>3
  <2>4. \A n1, n2 \in DOMAIN f.node :
          n1 # n2 => Parts(n1, f.node[n1]) \cap Parts(n2, f.node[n2]) = {}
    BY <1>2, <1>3, <2>1 DEF HeldOnce
  <2>5. \A n \in DOMAIN f.node : f.node[n].array # NULL =>
          /\ f.node[n].array # n /\ f.node[n].array # f.node[n].owned
          /\ \A k \in DOMAIN f.node[n].entries : f.node[n].entries[k].key_copy # f.node[n].array
    BY <1>2, <1>3 DEF HeldOnce
  <2> QED BY <2>3, <2>4, <2>5 DEF HeldOnce
<1>8. OneParent(f)
  <2>1. \A n \in DOMAIN f.node : \A k \in DOMAIN f.node[n].entries : f.node[n].entries[k].value \in DOMAIN f.node
    BY <1>6 DEF Children
  <2> QED BY <1>2, <1>3, <2>1 DEF OneParent
<1>9. Ordered(f)
  BY <1>2, <1>3 DEF Ordered
<1>10. Trees(f)
  <2>1. PICK depth : Grounded(m, depth)
    BY <1>1 DEF Trees
  <2> DEFINE up == [n \in DOMAIN f.node |-> depth[n]]
  <2>2. up \in [DOMAIN f.node -> Nat]
    BY <1>2, <2>1 DEF Grounded
  <2>3. \A n \in DOMAIN f.node : \A c \in Children(f, n) : up[n] < up[c]
    BY <1>2, <1>4, <1>6, <2>1 DEF Grounded
  <2>4. Grounded(f, up)
    BY <2>2, <2>3 DEF Grounded
  <2> QED BY <1>2, <1>7, <1>8, <1>9, <2>4 DEF Trees, HeapInv
<1>11. Parentless(f) = R \ {v}
  <2>1. ASSUME NEW n \in Parentless(f) PROVE n \in R \ {v}
    <3>1. n \in DOMAIN m.node /\ n \notin Tree(m, v) /\ \A p \in DOMAIN f.node : n \notin Children(m, p)
      BY <1>2, <1>4 DEF Parentless
    <3>2. \A p \in Tree(m, v) : n \notin Children(m, p)
      BY <1>1, <3>1, TreeHolds
    <3>3. n \in Parentless(m)
      BY <1>2, <3>1, <3>2 DEF Parentless
    <3> QED BY <1>1, <3>1, <3>3, TreeHolds
  <2>2. ASSUME NEW n \in R \ {v} PROVE n \in Parentless(f)
    <3>1. n \in DOMAIN m.node /\ \A p \in DOMAIN m.node : n \notin Children(m, p)
      BY <1>1 DEF Parentless
    <3>2. n \notin Tree(m, v)
      BY <1>1, <1>3, <2>2, <3>1, TreeParents, TreeHolds
    <3> QED BY <1>2, <1>4, <3>1, <3>2 DEF Parentless
  <2> QED BY <2>1, <2>2
<1> QED BY <1>2, <1>10, <1>11 DEF ForestOf, Less

\* The trees of the others stay as they were.
LEMMA OtherTreesStay ==
  ASSUME NEW m, NEW R, ForestOf(m, R), NEW v \in R, NEW f, f = bencode_value_free(m, v),
         NEW n \in DOMAIN f.node
  PROVE  Tree(f, n) = Tree(m, n)
<1>1. /\ ForestOf(f, R \ {v}) /\ DOMAIN f.node = DOMAIN m.node \ Tree(m, v)
      /\ \A k \in DOMAIN f.node : f.node[k] = m.node[k]
  BY RootFreed DEF Less
<1>2. Trees(m) /\ Trees(f) /\ n \in DOMAIN m.node
  BY <1>1 DEF ForestOf
<1>3. \A k : Children(f, k) = IF k \in Tree(m, v) THEN {} ELSE Children(m, k)
  BY <1>1, WithoutChildren
<1>4. \A k \in Tree(f, n) : Children(m, k) = Children(f, k)
  BY <1>1, <1>2, <1>3, TreeHolds
<1> QED BY <1>2, <1>4, SameTree

---------------------------------------------------------------------------
(* New values.                                                             *)

\* A forest stays one as long as the entries lead where they did.
LEMMA SameLinks ==
  ASSUME NEW m, NEW R, ForestOf(m, R), NEW m2, HeapInv(m2, {}),
         DOMAIN m2.node = DOMAIN m.node, \A n \in DOMAIN m.node : Children(m2, n) = Children(m, n)
  PROVE  ForestOf(m2, R)
<1>1. PICK depth : Grounded(m, depth)
  BY DEF ForestOf, Trees
<1>2. Grounded(m2, depth)
  BY <1>1 DEF Grounded
<1>3. Parentless(m2) = Parentless(m)
  BY DEF Parentless
<1> QED BY <1>2, <1>3 DEF ForestOf, Trees

\* A new node is a tree of its own.
LEMMA NodePlanted ==
  ASSUME NEW m, NEW R, ForestOf(m, R), NEW m1, NEW x, NEW nd, Leaf(nd), NewNode(m, m1, x, nd)
  PROVE  ForestOf(m1, R \cup {x})
<1>1. Trees(m) /\ HeapInv(m, {}) /\ HeapType(m) /\ R = Parentless(m)
  BY DEF ForestOf, Trees, HeapInv
<1>2. HeapInv(m1, {})
  BY <1>1, NewNodeInv
<1>3. /\ DOMAIN m1.node = DOMAIN m.node \cup {x} /\ x \notin DOMAIN m.node
      /\ m1.node[x] = nd /\ \A n \in DOMAIN m.node : n # x /\ m1.node[n] = m.node[n]
  <2>1. nd \in NodeType /\ x \notin DOMAIN m.node
    BY DEF NewNode, Leaf
  <2> QED BY <1>1, <2>1, NewNodeFields
<1>4. \A n \in DOMAIN m.node : Children(m1, n) = Children(m, n)
  BY <1>3 DEF Children
<1>5. Children(m1, x) = {}
  BY <1>3 DEF Children, Leaf
<1>6. PICK depth : Grounded(m, depth)
  BY <1>1 DEF Trees
<1> DEFINE further == [n \in DOMAIN m1.node |-> IF n = x THEN 0 ELSE depth[n]]
<1>7. Grounded(m1, further)
  <2>1. further \in [DOMAIN m1.node -> Nat]
    BY <1>3, <1>6 DEF Grounded
  <2>2. ASSUME NEW n \in DOMAIN m1.node, NEW c \in Children(m1, n) PROVE further[n] < further[c]
    <3>1. n \in DOMAIN m.node /\ c \in Children(m, n)
      BY <1>3, <1>4, <1>5, <2>2
    <3>2. c \in DOMAIN m.node /\ c # x /\ n # x
      BY <1>1, <1>3, <3>1, ForestFacts
    <3> QED BY <1>3, <1>6, <3>1, <3>2 DEF Grounded
  <2> HIDE DEF further
  <2> QED BY <2>1, <2>2 DEF Grounded
<1>8. Parentless(m1) = R \cup {x}
  <2>1. \A n : x \notin Children(m, n)
    BY <1>1, <1>3, ForestFacts
  <2> QED BY <1>1, <1>3, <1>4, <1>5, <2>1 DEF Parentless
<1> HIDE DEF further
<1> QED BY <1>2, <1>7, <1>8 DEF ForestOf, Trees

\* What is left by a call for a new value, of the contents nd up to the block
\* of its payload: nothing at all, or a tree of one node.
Made(m, R, r, nd, copied) ==
  \/ r.status = "INVALID_ARG" /\ r.mem = m /\ r.ptr = NULL /\ nd.alloc = "partial"
  \/ r.status = "NOMEM" /\ r.mem = m /\ r.ptr = NULL /\ nd.alloc # "partial"
  \/ /\ r.status = "OK" /\ r.ptr # NULL /\ r.ptr \notin DOMAIN m.node /\ nd.alloc # "partial"
     /\ ForestOf(r.mem, R \cup {r.ptr})
     /\ DOMAIN r.mem.node = DOMAIN m.node \cup {r.ptr}
     /\ \A n \in DOMAIN m.node : r.mem.node[n] = m.node[n]
     /\ \E owned \in Nat :
          /\ r.mem.node[r.ptr] = [nd EXCEPT !.owned = owned]
          /\ copied /\ nd.bytes # <<>> => owned # NULL

LEMMA LeafMade ==
  ASSUME NEW m, NEW R, ForestOf(m, R), NEW nd, Leaf(nd), nd.alloc # "partial",
         NEW r \in value_alloc(m, nd)
  PROVE  Made(m, R, r, nd, FALSE)
<1>1. HeapInv(m, {}) /\ HeapType(m)
  BY DEF ForestOf, Trees, HeapInv
<1>2. \/ r.status = "NOMEM" /\ r.mem = m
      \/ r.status = "OK" /\ NewNode(m, r.mem, r.ptr, nd)
  BY <1>1, ValueAlloc
<1>3. CASE r.status = "OK" /\ NewNode(m, r.mem, r.ptr, nd)
  <2>1. ForestOf(r.mem, R \cup {r.ptr})
    BY <1>3, NodePlanted
  <2>2. /\ r.ptr # NULL /\ r.ptr \notin DOMAIN m.node
        /\ DOMAIN r.mem.node = DOMAIN m.node \cup {r.ptr}
        /\ r.mem.node[r.ptr] = nd /\ \A n \in DOMAIN m.node : r.mem.node[n] = m.node[n]
    <3>1. nd \in NodeType /\ r.ptr \notin DOMAIN m.node
      BY <1>3 DEF NewNode, Leaf
    <3> QED BY <1>1, <1>3, <3>1, NewNodeFields
  <2>3. nd = [nd EXCEPT !.owned = NULL] /\ NULL \in Nat
    BY DEF Leaf, NodeType, NULL
  <2> QED BY <1>3, <2>1, <2>2, <2>3 DEF Made
<1>4. CASE r.status = "NOMEM" /\ r.mem = m
  <2>1. PICK a : r = IF a.ptr = NULL THEN Result(m, "NOMEM", NULL)
                     ELSE Result(Store(a.mem, a.ptr, nd), "OK", a.ptr)
    BY DEF value_alloc
  <2>2. r.ptr = NULL
    BY <1>4, <2>1 DEF Result
  <2> QED BY <1>4, <2>2 DEF Made
<1> QED BY <1>2, <1>3, <1>4

\* An allocator that lacks a function is refused.
LEMMA NewMade ==
  ASSUME NEW m, NEW R, ForestOf(m, R), NEW nd, Leaf(nd), NEW r \in New(m, nd)
  PROVE  Made(m, R, r, nd, FALSE)
<1>1. CASE nd.alloc # "partial"
  BY <1>1, LeafMade DEF New, bencode_allocator_check
<1>2. CASE nd.alloc = "partial"
  BY <1>2 DEF New, bencode_allocator_check, Result, Made
<1> QED BY <1>1, <1>2

\* The nodes of the code's constructors.
LEMMA NodesAreLeaves ==
  ASSUME NEW alloc \in Allocator, NEW i \in Int, NEW bytes \in Bytes
  PROVE  /\ Leaf([Node(alloc, "INT") EXCEPT !.i = i])
         /\ Leaf([Node(alloc, "STRING") EXCEPT !.bytes = bytes])
         /\ Leaf(Node(alloc, "LIST")) /\ Leaf(Node(alloc, "DICT"))
<1>1. <<>> \in Seq(EntryType) /\ <<>> \in Bytes /\ NULL \in Nat /\ 0 \in Int
  BY BytesEmpty DEF NULL
<1> QED BY <1>1 DEF Leaf, Node, NodeType

\* The payload of a new node h, in the fresh block b.
LEMMA PayloadHeld ==
  ASSUME NEW h, HeapInv(h, {}), NEW x \in DOMAIN h.node, Leaf(h.node[x]),
         NEW b \in Block, \A k \in h.live : k[2] # b,
         NEW nd \in NodeType, nd.alloc = h.node[x].alloc, nd.type = h.node[x].type,
         nd.entries = <<>>, nd.owned = b, nd.array = NULL, nd.capacity = h.node[x].capacity,
         NEW live, \A k : k \in live <=> k \in h.live \/ k = <<nd.alloc, b>>,
         NEW m2, Replaced(h, m2, x, nd, live)
  PROVE  /\ HeapInv(m2, {}) /\ DOMAIN m2.node = DOMAIN h.node
         /\ m2.node[x] = nd /\ \A n \in DOMAIN h.node \ {x} : m2.node[n] = h.node[n]
<1> DEFINE old == h.node[x]
<1>1. HeapType(h) /\ HeldOnce(h, {}) /\ OneParent(h) /\ Ordered(h)
  BY DEF HeapInv
<1>2. /\ old \in NodeType /\ old.entries = <<>> /\ old.owned = NULL /\ old.array = NULL
      /\ old.alloc \in Allocator
  BY DEF Leaf, NodeType
<1>3. /\ nd \in NodeType /\ nd.alloc = old.alloc /\ nd.entries = <<>> /\ nd.owned = b
      /\ nd.array = NULL /\ nd.capacity = old.capacity /\ nd.type = old.type
  OBVIOUS
<1>4. live \subseteq Allocator \X Block /\ IsFiniteSet(live)
  <2>1. h.live \subseteq Allocator \X Block /\ IsFiniteSet(h.live)
    BY <1>1 DEF HeapType
  <2>2. IsFiniteSet(h.live \cup {<<nd.alloc, b>>})
    BY <2>1, FS_AddElement
  <2>3. live = h.live \cup {<<nd.alloc, b>>}
    OBVIOUS
  <2> QED BY <1>2, <1>3, <2>1, <2>2, <2>3
<1>5. /\ m2.live = live /\ m2.fault = h.fault /\ DOMAIN m2.node = DOMAIN h.node
      /\ m2.node[x] = nd /\ \A n \in DOMAIN h.node \ {x} : m2.node[n] = h.node[n]
      /\ HeapType(m2)
  BY <1>1, <1>3, <1>4, ReplacedFields
<1>6. x # NULL /\ x # b /\ Parts(x, old) = {x} /\ Parts(x, nd) = {x, b}
  <2>1. x # NULL /\ x # b
    <3>1. <<old.alloc, x>> \in h.live
      BY <1>1, PartsAreLive
    <3> QED BY <1>1, <3>1, NodeFacts
  <2>2. b # NULL
    BY DEF Block
  <2>3. DOMAIN old.entries = {} /\ DOMAIN nd.entries = {}
    BY <1>2, <1>3
  <2> HIDE DEF old
  <2> QED BY <1>2, <1>3, <2>1, <2>2, <2>3 DEF Parts
<1>7. ASSUME NEW n \in DOMAIN h.node
      PROVE  /\ BlocksOf(h, n) = {h.node[n].alloc} \X Parts(n, h.node[n])
             /\ b \notin Parts(n, h.node[n])
             /\ n # x => Parts(x, old) \cap Parts(n, h.node[n]) = {}
  <2>1. BlocksOf(h, n) = {h.node[n].alloc} \X Parts(n, h.node[n])
    BY <1>1, PartsAreLive
  <2>2. \A k \in Parts(n, h.node[n]) : <<h.node[n].alloc, k>> \in h.live
    BY <1>1, PartsAreLive
  <2>3. b \notin Parts(n, h.node[n])
    BY <2>2
  <2>4. n # x => Parts(x, old) \cap Parts(n, h.node[n]) = {}
    BY <1>1 DEF HeldOnce
  <2> QED BY <2>1, <2>3, <2>4
<1>8. HeldOnce(m2, {})
  <2> DEFINE none == {}
  <2>1. \A k : k \in m2.live <=> \/ k \in none
                                 \/ k \in {nd.alloc} \X Parts(x, nd)
                                 \/ \E n \in DOMAIN h.node \ {x} : k \in BlocksOf(h, n)
    <3>1. \A k : k \in h.live <=> k \in {old.alloc} \X {x} \/ \E n \in DOMAIN h.node \ {x} : k \in BlocksOf(h, n)
      <4>1. h.live = UNION { BlocksOf(h, n) : n \in DOMAIN h.node }
        BY <1>1 DEF HeldOnce
      <4>2. BlocksOf(h, x) = {old.alloc} \X {x}
        BY <1>6, <1>7
      <4> QED BY <4>1, <4>2
    <3>2. {nd.alloc} \X Parts(x, nd) = ({old.alloc} \X {x}) \cup {<<nd.alloc, b>>}
      BY <1>3, <1>6
    <3> HIDE DEF old
    <3> QED BY <1>5, <3>1, <3>2
  <2>2. \A n \in DOMAIN h.node \ {x} : Parts(x, nd) \cap Parts(n, h.node[n]) = {}
    BY <1>6, <1>7
  <2>3. HeldOnce(h, none)
    BY <1>1
  <2>4. HeldOnce(m2, none)
    <3>1. \A n \in DOMAIN h.node \ {x} : \A k \in none : k[2] \notin Parts(n, h.node[n])
      OBVIOUS
    <3>2. \A k \in none : k[2] \notin Parts(x, nd)
      OBVIOUS
    <3>3. nd.array = NULL
      BY <1>3
    <3>4. x \in DOMAIN h.node /\ nd \in NodeType /\ HeapType(h)
      BY <1>1, <1>3
    <3> HIDE DEF none
    <3> QED BY ONLY <1>5, <2>1, <2>2, <2>3, <3>1, <3>2, <3>3, <3>4, ReplacedAccounted
  <2> QED BY <2>4
<1>9. \A n \in DOMAIN h.node : m2.node[n].entries = h.node[n].entries /\ m2.node[n].type = h.node[n].type
                              /\ m2.node[n].capacity = h.node[n].capacity
  BY <1>2, <1>3, <1>5
<1>10. OneParent(m2)
  BY <1>1, <1>5, <1>9 DEF OneParent
<1>11. Ordered(m2)
  BY <1>1, <1>5, <1>9 DEF Ordered
<1> QED BY <1>5, <1>8, <1>10, <1>11 DEF HeapInv

LEMMA PayloadCopied ==
  ASSUME NEW m, NEW R, ForestOf(m, R), NEW nd, Leaf(nd), NEW h, NEW x, NewNode(m, h, x, nd),
         nd.alloc # "partial", NEW bytes, NEW r \in CopyPayload(Result(h, "OK", x), nd.alloc, bytes)
  PROVE  Made(m, R, r, nd, TRUE)
<1> DEFINE r1 == Result(h, "OK", x)
           b == FreeBlock(h)
           L == h.live \cup {<<nd.alloc, b>>}
           h1 == [h EXCEPT !.live = L]
           nd2 == [nd EXCEPT !.owned = b]
           N == [h.node EXCEPT ![x] = nd2]
           m2 == [h1 EXCEPT !.node[x].owned = b]
<1>1. HeapInv(m, {}) /\ HeapType(m) /\ nd \in NodeType
  BY DEF ForestOf, Trees, HeapInv, Leaf
<1>2. HeapInv(h, {}) /\ HeapType(h)
  BY <1>1, NewNodeInv DEF HeapInv
<1>3. /\ x # NULL /\ x \notin DOMAIN m.node /\ DOMAIN h.node = DOMAIN m.node \cup {x}
      /\ h.node[x] = nd /\ \A n \in DOMAIN m.node : n # x /\ h.node[n] = m.node[n]
  <2>1. x \notin DOMAIN m.node
    BY DEF NewNode
  <2> QED BY <1>1, <2>1, NewNodeFields
<1>4. b \in Block /\ b \in Nat /\ b # NULL /\ \A k \in h.live : k[2] # b
  BY <1>2, FreeBlockIsFree DEF HeapType, Block
<1>5. \/ r = Result(bencode_value_free(h, x), "NOMEM", NULL)
      \/ r = [r1 EXCEPT !.mem = m2]
  <2>1. PICK copy \in bencode_alloc(h, nd.alloc) :
          r = IF copy.ptr = NULL THEN Result(bencode_value_free(h, x), "NOMEM", NULL)
              ELSE [r1 EXCEPT !.mem = [copy.mem EXCEPT !.node[x].owned = copy.ptr]]
    BY DEF CopyPayload, Result
  <2>2. copy.ptr = NULL \/ (copy.mem = h1 /\ copy.ptr = b)
    <3>1. copy = [mem |-> h, ptr |-> NULL] \/ copy = [mem |-> h1, ptr |-> b]
      BY DEF bencode_alloc
    <3> HIDE DEF h1, b
    <3> QED BY <3>1
  <2> HIDE DEF b, h1, r1
  <2> QED BY <1>4, <2>1, <2>2
<1> HIDE DEF b
<1>6. CASE r = Result(bencode_value_free(h, x), "NOMEM", NULL)
  BY <1>1, <1>6, FreeNewNode DEF Result, Made
<1>7. CASE r = [r1 EXCEPT !.mem = m2]
  <2>1. h1 = Heap(L, h.node, h.fault)
    <3> HIDE DEF L
    <3> QED BY <1>2, WithLive DEF HeapType
  <2>2. h1.node = h.node
    <3> HIDE DEF L, h1
    <3> QED BY <2>1, HeapFields
  <2>3. m2 = [h1 EXCEPT !.node = N]
    <3> HIDE DEF h1
    <3> QED BY <1>3, <2>2
  <2>4. m2 = Heap(L, N, h.fault)
    <3> HIDE DEF L, N, h1, m2
    <3> QED BY <2>1, <2>3, WithNode
  <2>5. N = [k \in DOMAIN h.node |-> IF k = x THEN nd2 ELSE h.node[k]]
    <3> HIDE DEF nd2
    <3> QED OBVIOUS
  <2>6. Replaced(h, m2, x, nd2, L)
    <3> HIDE DEF L, N, m2, nd2
    <3> QED BY <2>4, <2>5 DEF Replaced
  <2>7. /\ nd2 \in NodeType /\ nd2.alloc = nd.alloc /\ nd2.type = nd.type
        /\ nd2.entries = <<>> /\ nd2.owned = b /\ nd2.array = NULL /\ nd2.capacity = nd.capacity
        /\ \A k : k \in L <=> k \in h.live \/ k = <<nd2.alloc, b>>
    BY <1>4 DEF NodeType, Leaf
  <2>8. /\ HeapInv(m2, {}) /\ DOMAIN m2.node = DOMAIN h.node
        /\ m2.node[x] = nd2 /\ \A n \in DOMAIN h.node \ {x} : m2.node[n] = h.node[n]
    <3>1. Leaf(h.node[x]) /\ x \in DOMAIN h.node
      BY <1>3
    <3>2. b \in Block /\ \A k \in h.live : k[2] # b
      BY <1>4
    <3> HIDE DEF L, m2, nd2
    <3>3. x \in DOMAIN h.node /\ h.node[x] = nd
      BY <1>3
    <3> QED BY <1>2, <2>6, <2>7, <3>1, <3>2, <3>3, PayloadHeld
  <2>9. nd2.entries = nd.entries
    BY <1>1 DEF NodeType
  <2>10. r.mem = m2 /\ r.status = "OK" /\ r.ptr = x
    <3> HIDE DEF m2
    <3> QED BY <1>7 DEF Result
  <2>11. ForestOf(h, R \cup {x})
    BY NodePlanted
  <2> HIDE DEF m2, L, nd2
  <2>12. \A n \in DOMAIN h.node : Children(m2, n) = Children(h, n)
    <3>1. \A n \in DOMAIN h.node : m2.node[n].entries = h.node[n].entries
      BY <1>3, <2>8, <2>9
    <3> QED BY <2>8, <3>1 DEF Children
  <2>13. ForestOf(m2, R \cup {x})
    BY <2>8, <2>11, <2>12, SameLinks
  <2>14. \A n \in DOMAIN m.node : m2.node[n] = m.node[n]
    BY <1>3, <2>8
  <2>15. m2.node[x] = [nd EXCEPT !.owned = b]
    BY <2>8 DEF nd2
  <2> QED BY <1>3, <1>4, <2>8, <2>10, <2>13, <2>14, <2>15 DEF Made
<1> QED BY <1>5, <1>6, <1>7

\* The contents of a new string.
StringNode(alloc, bytes) == [Node(alloc, "STRING") EXCEPT !.bytes = bytes]

LEMMA StringMade ==
  ASSUME NEW m, NEW R, ForestOf(m, R), NEW alloc \in Allocator, NEW bytes \in Bytes,
         NEW r \in bencode_string_new(m, alloc, bytes)
  PROVE  Made(m, R, r, StringNode(alloc, bytes), TRUE)
<1> DEFINE nd == StringNode(alloc, bytes)
<1>1. Leaf(nd)
  <2>1. 0 \in Int
    OBVIOUS
  <2> QED BY <2>1, NodesAreLeaves DEF StringNode
<1>2. nd.bytes = bytes /\ nd.alloc = alloc
  BY DEF StringNode, Node
<1>3. PICK r0 \in New(m, nd) :
        r \in IF r0.status # "OK" \/ bytes = <<>> THEN {r0} ELSE CopyPayload(r0, alloc, bytes)
  BY DEF bencode_string_new, StringNode
<1> SUFFICES Made(m, R, r, nd, TRUE)
  OBVIOUS
<1> HIDE DEF nd
<1>4. Made(m, R, r0, nd, FALSE)
  BY <1>1, <1>3, NewMade
<1>5. CASE r0.status # "OK" \/ bytes = <<>>
  BY <1>2, <1>3, <1>4, <1>5 DEF Made
<1>6. CASE r0.status = "OK" /\ bytes # <<>>
  <2>1. HeapInv(m, {})
    BY DEF ForestOf, Trees
  <2>2. r0 \in value_alloc(m, nd)
    BY <1>3, <1>6 DEF New, Result
  <2>3. NewNode(m, r0.mem, r0.ptr, nd)
    BY <1>6, <2>1, <2>2, ValueAlloc
  <2>4. r0 = Result(r0.mem, "OK", r0.ptr)
    <3>1. PICK a : r0 = IF a.ptr = NULL THEN Result(m, "NOMEM", NULL)
                        ELSE Result(Store(a.mem, a.ptr, nd), "OK", a.ptr)
      BY <2>2 DEF value_alloc
    <3> QED BY <1>6, <3>1 DEF Result
  <2>5. r \in CopyPayload(Result(r0.mem, "OK", r0.ptr), nd.alloc, bytes) /\ nd.alloc # "partial"
    BY <1>2, <1>3, <1>4, <1>6, <2>4 DEF Made
  <2> QED BY <1>1, <2>3, <2>5, PayloadCopied
<1> QED BY <1>5, <1>6

---------------------------------------------------------------------------
(* New entries.                                                            *)

\* child, which the caller owned, becomes an entry of n, whose other entries
\* lead where its entries led before; the values that lost their entry have no
\* other.
LEMMA Relinked ==
  ASSUME NEW m, NEW R, ForestOf(m, R), NEW child \in R,
         NEW n \in DOMAIN m.node, n \notin Tree(m, child),
         NEW m2, HeapInv(m2, {}), DOMAIN m2.node = DOMAIN m.node,
         \A k \in DOMAIN m.node \ {n} : Children(m2, k) = Children(m, k),
         child \in Children(m2, n), Children(m2, n) \subseteq Children(m, n) \cup {child}
  PROVE  ForestOf(m2, (R \ {child}) \cup (Children(m, n) \ Children(m2, n)))
<1> DEFINE S == Tree(m, child)
<1>1. /\ Trees(m) /\ R = Parentless(m) /\ child \in DOMAIN m.node /\ child \in Nat
      /\ \A p : child \notin Children(m, p)
  BY ForestFacts DEF ForestOf, Parentless
<1>2. PICK depth : Grounded(m, depth)
  BY <1>1 DEF Trees
<1>3. child \in S /\ S \subseteq DOMAIN m.node /\ \A k \in S : Children(m, k) \subseteq S
  BY <1>1, TreeHolds
<1>4. \A k : k \notin S => Children(m, k) \cap S = {}
  BY <1>1, EntersAtTheRoot
<1> HIDE DEF S
<1>5. \A k \in DOMAIN m.node : depth[k] \in Nat
  BY <1>2 DEF Grounded
<1> DEFINE deeper == [k \in DOMAIN m.node |-> IF k \in S THEN depth[k] + depth[n] + 1 ELSE depth[k]]
<1>6. deeper \in [DOMAIN m2.node -> Nat]
  BY <1>5
<1>7. ASSUME NEW k \in DOMAIN m2.node, NEW c \in Children(m2, k)
      PROVE  deeper[k] < deeper[c]
  <2>1. c \in DOMAIN m.node /\ k \in DOMAIN m.node
    <3>1. Children(m, k) \subseteq DOMAIN m.node
      BY <1>1, ForestFacts
    <3> QED BY <1>1, <1>7, <3>1
  <2>2. depth[k] \in Nat /\ depth[c] \in Nat /\ depth[n] \in Nat /\ depth[child] \in Nat
    BY <1>1, <1>5, <2>1
  <2>3. CASE c \in Children(m, k)
    <3>1. depth[k] < depth[c] /\ (k \in S <=> c \in S)
      BY <1>2, <1>3, <1>4, <2>1, <2>3 DEF Grounded
    <3> QED BY <2>1, <2>2, <3>1
  <2>4. CASE c \notin Children(m, k)
    <3>1. k = n /\ c = child
      BY <1>7, <2>1, <2>4
    <3>2. k \notin S /\ c \in S
      BY <1>3, <3>1 DEF S
    <3> QED BY <2>1, <2>2, <3>1, <3>2
  <2> QED BY <2>3, <2>4
<1>8. Grounded(m2, deeper)
  <2> HIDE DEF deeper
  <2> QED BY <1>6, <1>7 DEF Grounded
<1>9. Parentless(m2) = (R \ {child}) \cup (Children(m, n) \ Children(m2, n))
  <2>1. ASSUME NEW c \in DOMAIN m.node, c # child, \A p \in DOMAIN m.node : c \notin Children(m, p)
        PROVE  \A p \in DOMAIN m.node : c \notin Children(m2, p)
    BY <2>1
  <2>2. ASSUME NEW c \in Children(m, n), c \notin Children(m2, n)
        PROVE  c \in DOMAIN m.node /\ \A p \in DOMAIN m.node : c \notin Children(m2, p)
    <3>1. c \in DOMAIN m.node /\ \A p \in DOMAIN m.node \ {n} : c \notin Children(m, p)
      BY <1>1, <2>2, ForestFacts
    <3> QED BY <2>2, <3>1
  <2>3. ASSUME NEW c \in DOMAIN m.node, \A p \in DOMAIN m.node : c \notin Children(m2, p)
        PROVE  \/ c # child /\ \A p \in DOMAIN m.node : c \notin Children(m, p)
               \/ c \in Children(m, n) \ Children(m2, n)
    BY <2>3
  <2> QED BY <1>1, <2>1, <2>2, <2>3 DEF Parentless
<1> HIDE DEF deeper
<1> QED BY <1>8, <1>9 DEF ForestOf, Trees

\* The children of a node with an entry more.
LEMMA InsertedLinks ==
  ASSUME NEW m, HeapType(m), NEW n \in DOMAIN m.node, NEW i \in 1..(Len(m.node[n].entries) + 1),
         NEW e \in EntryType, NEW m2, Inserted(m, m2, n, i, e)
  PROVE  /\ Children(m2, n) = Children(m, n) \cup {e.value}
         /\ \A k \in DOMAIN m.node \ {n} : Children(m2, k) = Children(m, k)
<1> DEFINE s == m.node[n].entries
           new == InsertAt(s, i, e)
<1>1. s \in Seq(EntryType)
  BY NodeFacts
<1>2. /\ Len(s) \in Nat /\ DOMAIN s = 1..Len(s) /\ DOMAIN new = 1..(Len(s) + 1) /\ new[i] = e
      /\ \A k \in 1..Len(s) : k < i => new[k] = s[k]
      /\ \A k \in 1..Len(s) : k >= i => new[k + 1] = s[k]
  <2> HIDE DEF s
  <2>1. i \in 1..(Len(s) + 1)
    BY DEF s
  <2> QED BY <1>1, <2>1, InsertFacts
<1>3. ASSUME NEW k \in DOMAIN new PROVE new[k] = e \/ \E j \in DOMAIN s : new[k] = s[j]
  <2> HIDE DEF s
  <2>1. i \in 1..(Len(s) + 1)
    BY DEF s
  <2>2. k \in 1..(Len(s) + 1)
    BY <1>2, <1>3
  <2> DEFINE j == IF k < i THEN k ELSE k - 1
  <2>3. k # i => j \in 1..Len(s) /\ InsertAt(s, i, e)[k] = s[j]
    BY <1>1, <2>1, <2>2, InsertedBefore
  <2> HIDE DEF j
  <2> QED BY <1>2, <2>3
<1>4. ASSUME NEW j \in DOMAIN s PROVE \E k \in DOMAIN new : new[k] = s[j]
  <2> HIDE DEF s, new
  <2>1. i \in Int /\ j \in 1..Len(s) /\ j \in 1..(Len(s) + 1) /\ j + 1 \in 1..(Len(s) + 1)
    BY <1>2, <1>4 DEF s
  <2>2. CASE j < i
    BY <1>2, <2>1, <2>2
  <2>3. CASE j >= i
    BY <1>2, <2>1, <2>3
  <2> QED BY <2>1, <2>2, <2>3
<1>5. n \in DOMAIN m2.node /\ m2.node[n].entries = new
  BY DEF Inserted, OneMore
<1>6. i \in DOMAIN new
  BY <1>2
<1> HIDE DEF new
<1>7. Children(m2, n) = Children(m, n) \cup {e.value}
  <2>1. Children(m2, n) = { new[k].value : k \in DOMAIN new }
    BY <1>5 DEF Children
  <2>2. Children(m, n) = { s[j].value : j \in DOMAIN s }
    BY DEF Children
  <2> HIDE DEF s
  <2>3. \A c \in { new[k].value : k \in DOMAIN new } : c \in { s[j].value : j \in DOMAIN s } \cup {e.value}
    BY <1>3
  <2>4. \A j \in DOMAIN s : \E k \in DOMAIN new : new[k].value = s[j].value
    BY <1>4
  <2>5. new[i].value = e.value
    BY <1>2
  <2>6. \A c \in { s[j].value : j \in DOMAIN s } \cup {e.value} : c \in { new[k].value : k \in DOMAIN new }
    BY <1>6, <2>4, <2>5
  <2> QED BY <2>1, <2>2, <2>3, <2>6
<1>8. \A k \in DOMAIN m.node \ {n} : Children(m2, k) = Children(m, k)
  BY DEF Inserted, Children
<1> QED BY <1>7, <1>8

\* The caller's child becomes the i-th entry of n.
LEMMA EntryTaken ==
  ASSUME NEW m, NEW R, ForestOf(m, R), NEW child \in R,
         NEW n \in DOMAIN m.node, n \notin Tree(m, child),
         NEW i \in 1..(Len(m.node[n].entries) + 1), NEW e \in EntryType, e.value = child,
         NEW m2, HeapInv(m2, {}), Inserted(m, m2, n, i, e)
  PROVE  ForestOf(m2, R \ {child})
<1>1. HeapType(m) /\ DOMAIN m2.node = DOMAIN m.node
  BY ForestFacts DEF ForestOf, Inserted
<1>2. /\ Children(m2, n) = Children(m, n) \cup {child}
      /\ \A k \in DOMAIN m.node \ {n} : Children(m2, k) = Children(m, k)
  BY <1>1, InsertedLinks
<1>3. ForestOf(m2, (R \ {child}) \cup (Children(m, n) \ Children(m2, n)))
  BY <1>1, <1>2, Relinked
<1>4. (R \ {child}) \cup (Children(m, n) \ Children(m2, n)) = R \ {child}
  BY <1>2
<1> QED BY <1>3, <1>4

\* What a caller may give: a value of its own, or none, to a value outside it.
Givable(m, R, n, child) ==
  /\ child \in R \cup {NULL}
  /\ n \in {NULL} \cup (DOMAIN m.node \ Tree(m, child))

\* The child fits any container outside it that the search says.
LEMMA GivenSuits ==
  ASSUME NEW m, NEW R, ForestOf(m, R), NEW child \in R, NEW n \in DOMAIN m.node,
         NEW i \in 1..(Len(m.node[n].entries) + 1), NEW key \in Bytes,
         m.node[n].type = "DICT" =>
           /\ \A k \in 1..Len(m.node[n].entries) : k < i => KeyBefore(m.node[n].entries[k].key, key)
           /\ \A k \in 1..Len(m.node[n].entries) : k >= i => KeyBefore(key, m.node[n].entries[k].key)
  PROVE  SuitsAt(m, {}, n, i, Entry(key, NULL, child))
<1> DEFINE e == Entry(key, NULL, child)
<1>1. Trees(m) /\ child \in DOMAIN m.node /\ child \in Nat /\ \A p : child \notin Children(m, p)
  BY ForestFacts DEF ForestOf, Parentless
<1>2. e.key = key /\ e.key_copy = NULL /\ e.value = child /\ e \in EntryType
  BY <1>1 DEF Entry, EntryType, NULL
<1>3. \A k \in DOMAIN m.node : \A j \in DOMAIN m.node[k].entries : m.node[k].entries[j].value # child
  BY <1>1 DEF Children
<1> HIDE DEF e
<1>4. SuitsAt(m, {}, n, i, e)
  BY <1>1, <1>2, <1>3 DEF SuitsAt
<1> QED BY <1>4 DEF e

\* bencode_list_append.
Appended(m, R, r, list, child) ==
  \/ /\ r.status = "INVALID_ARG" /\ r.mem = m
     /\ list = NULL \/ child = NULL \/ m.node[list].type # "LIST"
  \/ r.status = "NOMEM" /\ r.mem = m /\ list # NULL /\ child # NULL /\ m.node[list].type = "LIST"
  \/ /\ r.status = "OK" /\ list \in DOMAIN m.node /\ child \in R /\ m.node[list].type = "LIST"
     /\ ForestOf(r.mem, R \ {child})
     /\ Inserted(m, r.mem, list, Len(m.node[list].entries) + 1, Entry(<<>>, NULL, child))

LEMMA GivenToAList ==
  ASSUME NEW m, NEW R, ForestOf(m, R), NEW list, NEW child, Givable(m, R, list, child),
         NEW r \in bencode_list_append(m, list, child)
  PROVE  Appended(m, R, r, list, child)
<1>1. CASE WrongArguments(m, list, "LIST", child)
  BY <1>1 DEF bencode_list_append, WrongArguments, Result, Appended
<1>2. CASE ~WrongArguments(m, list, "LIST", child)
  <2> DEFINE e == Entry(<<>>, NULL, child)
             len == Len(m.node[list].entries)
  <2>1. /\ list # NULL /\ list \in DOMAIN m.node /\ list \notin Tree(m, child)
        /\ child # NULL /\ child \in R /\ m.node[list].type = "LIST"
    BY <1>2 DEF Givable, WrongArguments
  <2>2. HeapType(m) /\ HeapInv(m, {})
    BY DEF ForestOf, Trees, HeapInv
  <2>3. len \in Nat /\ len + 1 \in 1..(len + 1)
    BY <2>1, <2>2, NodeFacts
  <2>4. <<>> \in Bytes
    BY BytesEmpty, DecimalGrows
  <2>5. SuitsAt(m, {}, list, len + 1, e)
    BY <2>1, <2>3, <2>4, GivenSuits
  <2>6. e \in EntryType /\ e.value = child
    <3>1. e \in EntryType
      BY <2>5 DEF SuitsAt
    <3> QED BY <3>1 DEF Entry
  <2>7. \/ r.status = "NOMEM" /\ r.mem = m
        \/ r.status = "OK" /\ HeapInv(r.mem, {}) /\ Inserted(m, r.mem, list, len + 1, e)
    BY <2>1, <2>2, <2>5, ListInsert
  <2> HIDE DEF e
  <2>8. Inserted(m, r.mem, list, len + 1, e) /\ HeapInv(r.mem, {}) => ForestOf(r.mem, R \ {child})
    BY <2>1, <2>3, <2>6, EntryTaken
  <2> QED BY <2>1, <2>7, <2>8 DEF Appended, e
<1> QED BY <1>1, <1>2

---------------------------------------------------------------------------
(* Replaced values.                                                        *)

\* Contents whose entry at i leads to v.
Leading(nd, i, v) == [nd EXCEPT !.entries[i].value = v]

LEMMA LeadingFacts ==
  ASSUME NEW nd \in NodeType, NEW i \in DOMAIN nd.entries, NEW v \in Nat
  PROVE  /\ Leading(nd, i, v) \in NodeType
         /\ Leading(nd, i, v).type = nd.type /\ Leading(nd, i, v).alloc = nd.alloc
         /\ Leading(nd, i, v).i = nd.i /\ Leading(nd, i, v).bytes = nd.bytes
         /\ Leading(nd, i, v).owned = nd.owned /\ Leading(nd, i, v).array = nd.array
         /\ Leading(nd, i, v).capacity = nd.capacity
         /\ Leading(nd, i, v).entries \in Seq(EntryType)
         /\ Len(Leading(nd, i, v).entries) = Len(nd.entries)
         /\ DOMAIN Leading(nd, i, v).entries = DOMAIN nd.entries
         /\ \A k \in DOMAIN nd.entries :
              /\ Leading(nd, i, v).entries[k].key = nd.entries[k].key
              /\ Leading(nd, i, v).entries[k].key_copy = nd.entries[k].key_copy
              /\ Leading(nd, i, v).entries[k].value = IF k = i THEN v ELSE nd.entries[k].value
<1> DEFINE s == nd.entries
           e == [s[i] EXCEPT !.value = v]
           new == [s EXCEPT ![i] = e]
<1>1. s \in Seq(EntryType)
  BY DEF NodeType
<1>2. DOMAIN s = 1..Len(s) /\ Len(s) \in Nat /\ \A k \in DOMAIN s : s[k] \in EntryType
  <2> HIDE DEF s
  <2> QED BY <1>1, LenProperties, ElementOfSeq
<1>3. e \in EntryType /\ e.key = s[i].key /\ e.key_copy = s[i].key_copy /\ e.value = v
  <2> HIDE DEF s
  <2>1. s[i] \in EntryType
    BY <1>2 DEF s
  <2> QED BY <2>1 DEF EntryType
<1>4. new \in Seq(EntryType) /\ Len(new) = Len(s) /\ DOMAIN new = DOMAIN s
  <2>1. i \in 1..Len(s) /\ e \in EntryType
    BY <1>2, <1>3
  <2> HIDE DEF s, e
  <2> QED BY <1>1, <2>1, ExceptSeq
<1>5. \A k \in DOMAIN s : new[k] = IF k = i THEN e ELSE s[k]
  <2> HIDE DEF s, e
  <2> QED OBVIOUS
<1>6. Leading(nd, i, v) = [nd EXCEPT !.entries = new]
  BY DEF Leading
<1> HIDE DEF new, e
<1>7. /\ [nd EXCEPT !.entries = new] \in NodeType
      /\ [nd EXCEPT !.entries = new].entries = new
  BY <1>4 DEF NodeType
<1> QED BY <1>3, <1>4, <1>5, <1>6, <1>7 DEF NodeType

\* The i-th entry of dict leads to a value of the caller's; the value it led to
\* is the caller's again.
Swapped(m, m0, R, child, dict, i) ==
  /\ ForestOf(m0, (R \ {child}) \cup {m.node[dict].entries[i].value})
  /\ m0.live = m.live /\ m0.fault = m.fault /\ DOMAIN m0.node = DOMAIN m.node
  /\ m0.node[dict] = Leading(m.node[dict], i, child)
  /\ \A n \in DOMAIN m.node \ {dict} : m0.node[n] = m.node[n]
  /\ \A n \in DOMAIN m.node : BlocksOf(m0, n) = BlocksOf(m, n)

LEMMA ValueSwapped ==
  ASSUME NEW m, NEW R, ForestOf(m, R), NEW child \in R,
         NEW dict \in DOMAIN m.node, dict \notin Tree(m, child),
         NEW i \in DOMAIN m.node[dict].entries,
         NEW m0, Replaced(m, m0, dict, Leading(m.node[dict], i, child), m.live)
  PROVE  Swapped(m, m0, R, child, dict, i)
<1> DEFINE old == m.node[dict]
           nd == Leading(old, i, child)
           v == old.entries[i].value
<1>1. /\ HeapType(m) /\ HeldOnce(m, {}) /\ OneParent(m) /\ Ordered(m) /\ Trees(m)
      /\ child \in DOMAIN m.node /\ child \in Nat /\ \A p : child \notin Children(m, p)
  BY ForestFacts DEF ForestOf, Parentless
<1>2. old \in NodeType /\ old.entries \in Seq(EntryType) /\ i \in DOMAIN old.entries
  BY <1>1, NodeFacts
<1> HIDE DEF old
<1>3. /\ nd \in NodeType /\ nd.type = old.type /\ nd.alloc = old.alloc
      /\ nd.owned = old.owned /\ nd.array = old.array /\ nd.capacity = old.capacity
      /\ Len(nd.entries) = Len(old.entries) /\ DOMAIN nd.entries = DOMAIN old.entries
      /\ \A k \in DOMAIN old.entries :
           /\ nd.entries[k].key = old.entries[k].key
           /\ nd.entries[k].key_copy = old.entries[k].key_copy
           /\ nd.entries[k].value = IF k = i THEN child ELSE old.entries[k].value
  BY <1>1, <1>2, LeadingFacts
<1> HIDE DEF nd
<1>4. m.live \subseteq Allocator \X Block /\ IsFiniteSet(m.live) /\ Replaced(m, m0, dict, nd, m.live)
  BY <1>1 DEF HeapType, nd, old
<1>5. /\ m0.live = m.live /\ m0.fault = m.fault /\ DOMAIN m0.node = DOMAIN m.node
      /\ m0.node[dict] = nd /\ \A n \in DOMAIN m.node \ {dict} : m0.node[n] = m.node[n]
      /\ HeapType(m0)
  BY <1>1, <1>3, <1>4, ReplacedFields
<1>6. \A k : Parts(k, nd) = Parts(k, old)
  <2>1. { nd.entries[k].key_copy : k \in DOMAIN nd.entries } = { old.entries[k].key_copy : k \in DOMAIN old.entries }
    BY <1>3
  <2> QED BY <1>3, <2>1 DEF Parts
<1>7. ASSUME NEW n \in DOMAIN m.node
      PROVE  Parts(n, m0.node[n]) = Parts(n, m.node[n]) /\ BlocksOf(m0, n) = BlocksOf(m, n)
  <2>1. Parts(n, m0.node[n]) = Parts(n, m.node[n]) /\ m0.node[n].alloc = m.node[n].alloc
    <3>1. CASE n = dict
      BY <1>3, <1>5, <1>6, <3>1 DEF old
    <3>2. CASE n # dict
      BY <1>5, <3>2
    <3> QED BY <3>1, <3>2
  <2>2. BlocksOf(m, n) = {m.node[n].alloc} \X Parts(n, m.node[n])
    BY DEF BlocksOf, Parts
  <2>3. BlocksOf(m0, n) = {m0.node[n].alloc} \X Parts(n, m0.node[n])
    BY <1>5 DEF BlocksOf, Parts
  <2> QED BY <2>1, <2>2, <2>3
<1>8. HeldOnce(m0, {})
  <2>1. m0.live = {} \cup UNION { BlocksOf(m0, n) : n \in DOMAIN m0.node }
    BY <1>1, <1>5, <1>7 DEF HeldOnce
  <2>2. \A n1, n2 \in DOMAIN m0.node :
          n1 # n2 => Parts(n1, m0.node[n1]) \cap Parts(n2, m0.node[n2]) = {}
    BY <1>1, <1>5, <1>7 DEF HeldOnce
  <2>3. ASSUME NEW n \in DOMAIN m0.node, m0.node[n].array # NULL
        PROVE  /\ m0.node[n].array # n /\ m0.node[n].array # m0.node[n].owned
               /\ \A k \in DOMAIN m0.node[n].entries : m0.node[n].entries[k].key_copy # m0.node[n].array
    <3>1. CASE n = dict
      BY <1>1, <1>3, <1>5, <2>3, <3>1 DEF HeldOnce, old
    <3>2. CASE n # dict
      BY <1>1, <1>5, <2>3, <3>2 DEF HeldOnce
    <3> QED BY <3>1, <3>2
  <2> QED BY <2>1, <2>2, <2>3 DEF HeldOnce
<1>9. \A n \in DOMAIN m.node : DOMAIN m0.node[n].entries = DOMAIN m.node[n].entries
  BY <1>3, <1>5 DEF old
<1>10. \A n \in DOMAIN m.node : \A k \in DOMAIN m.node[n].entries :
         m0.node[n].entries[k].value = IF n = dict /\ k = i THEN child ELSE m.node[n].entries[k].value
  BY <1>3, <1>5 DEF old
<1>11. \A n \in DOMAIN m.node : \A k \in DOMAIN m.node[n].entries : m.node[n].entries[k].value # child
  BY <1>1 DEF Children
<1>12. OneParent(m0)
  <2>1. \A n \in DOMAIN m0.node : \A k \in DOMAIN m0.node[n].entries : m0.node[n].entries[k].value \in DOMAIN m0.node
    BY <1>1, <1>5, <1>9, <1>10 DEF OneParent
  <2>2. ASSUME NEW n1 \in DOMAIN m0.node, NEW n2 \in DOMAIN m0.node,
               NEW k1 \in DOMAIN m0.node[n1].entries, NEW k2 \in DOMAIN m0.node[n2].entries,
               m0.node[n1].entries[k1].value = m0.node[n2].entries[k2].value
        PROVE  n1 = n2 /\ k1 = k2
    <3>1. /\ n1 \in DOMAIN m.node /\ k1 \in DOMAIN m.node[n1].entries
          /\ n2 \in DOMAIN m.node /\ k2 \in DOMAIN m.node[n2].entries
      BY <1>5, <1>9
    <3>2. m.node[n1].entries[k1].value # child /\ m.node[n2].entries[k2].value # child
      BY <1>11, <3>1
    <3>3. /\ m0.node[n1].entries[k1].value
               = IF n1 = dict /\ k1 = i THEN child ELSE m.node[n1].entries[k1].value
          /\ m0.node[n2].entries[k2].value
               = IF n2 = dict /\ k2 = i THEN child ELSE m.node[n2].entries[k2].value
      BY <1>10, <3>1
    <3>4. m.node[n1].entries[k1].value = m.node[n2].entries[k2].value => n1 = n2 /\ k1 = k2
      BY <1>1, <3>1 DEF OneParent
    <3> QED BY <2>2, <3>2, <3>3, <3>4
  <2> QED BY <2>1, <2>2 DEF OneParent
<1>13. Ordered(m0)
  <2> SUFFICES ASSUME NEW n \in DOMAIN m0.node
               PROVE  /\ Len(m0.node[n].entries) <= m0.node[n].capacity
                      /\ m0.node[n].type = "DICT" => Sorted(m0.node[n].entries)
    BY DEF Ordered
  <2>1. CASE n = dict
    <3>1. old.type = "DICT" => Sorted(old.entries)
      BY <1>1 DEF Ordered, old
    <3>2. Sorted(old.entries) => Sorted(nd.entries)
      BY <1>3 DEF Sorted
    <3>3. Len(old.entries) <= old.capacity
      BY <1>1 DEF Ordered, old
    <3> QED BY <1>3, <1>5, <2>1, <3>1, <3>2, <3>3
  <2>2. CASE n # dict
    BY <1>1, <1>5, <2>2 DEF Ordered
  <2> QED BY <2>1, <2>2
<1>14. \A n \in DOMAIN m.node \ {dict} : Children(m0, n) = Children(m, n)
  BY <1>5 DEF Children
<1>15. \A c : c \in Children(m0, dict) <=> \E k \in DOMAIN old.entries : c = IF k = i THEN child ELSE old.entries[k].value
  BY <1>3, <1>5 DEF Children
<1>16. \A c : c \in Children(m, dict) <=> \E k \in DOMAIN old.entries : c = old.entries[k].value
  BY DEF Children, old
<1>17. \A k \in DOMAIN old.entries : old.entries[k].value = v => k = i
  BY <1>1, <1>2 DEF OneParent, old
<1>18. child # v
  BY <1>2, <1>11 DEF old
<1>19. child \in Children(m0, dict) /\ Children(m0, dict) \subseteq Children(m, dict) \cup {child}
  BY <1>2, <1>15, <1>16
<1>20. Children(m, dict) \ Children(m0, dict) = {v}
  BY <1>2, <1>15, <1>16, <1>17, <1>18
<1>21. HeapInv(m0, {})
  BY <1>5, <1>8, <1>12, <1>13 DEF HeapInv
<1>22. ForestOf(m0, (R \ {child}) \cup {v})
  <2> HIDE DEF v
  <2>1. ForestOf(m0, (R \ {child}) \cup (Children(m, dict) \ Children(m0, dict)))
    BY <1>5, <1>14, <1>19, <1>21, Relinked
  <2> QED BY <1>20, <2>1
<1> QED BY <1>5, <1>7, <1>22 DEF nd, old, v, Swapped

\* f has what m has, without the tree that the i-th entry of dict led to.
Led(m, f, dict, i, child) ==
  /\ DOMAIN f.node = DOMAIN m.node \ Tree(m, m.node[dict].entries[i].value)
  /\ f.node[dict] = Leading(m.node[dict], i, child)
  /\ \A n \in DOMAIN f.node \ {dict} : f.node[n] = m.node[n]

LEMMA ValueReplaced ==
  ASSUME NEW m, NEW R, ForestOf(m, R), NEW child \in R,
         NEW dict \in DOMAIN m.node, dict \notin Tree(m, child),
         NEW i \in DOMAIN m.node[dict].entries,
         NEW f, f = Replace(m, dict, i, child)
  PROVE  ForestOf(f, R \ {child}) /\ Led(m, f, dict, i, child)
<1> DEFINE v == m.node[dict].entries[i].value
           nd == Leading(m.node[dict], i, child)
           N0 == [k \in DOMAIN m.node |-> IF k = dict THEN nd ELSE m.node[k]]
           m0 == Heap(m.live, N0, m.fault)
           T == Tree(m, v)
           NF == [n \in DOMAIN m.node \ T |-> m.node[n]]
<1>1. /\ Trees(m) /\ HeapType(m) /\ R = Parentless(m) /\ child \in DOMAIN m.node
      /\ \A p : child \notin Children(m, p)
  BY ForestFacts DEF ForestOf, Parentless
<1>2. v \in Children(m, dict) /\ v \in DOMAIN m.node /\ v # child
  <2>1. v \in Children(m, dict)
    BY DEF Children
  <2> HIDE DEF v
  <2> QED BY <1>1, <2>1, ForestFacts
<1>3. dict \notin T /\ T \subseteq DOMAIN m.node
  <2> HIDE DEF v
  <2> QED BY <1>1, <1>2, NotBelowItself, TreeHolds
<1>4. /\ ForestOf(m0, (R \ {child}) \cup {v})
      /\ m0.live = m.live /\ m0.fault = m.fault /\ DOMAIN m0.node = DOMAIN m.node
      /\ m0.node[dict] = nd
      /\ \A n \in DOMAIN m.node \ {dict} : m0.node[n] = m.node[n]
      /\ \A n \in DOMAIN m.node : BlocksOf(m0, n) = BlocksOf(m, n)
  <2>1. Replaced(m, m0, dict, nd, m.live)
    BY DEF Replaced
  <2> HIDE DEF m0
  <2>2. Swapped(m, m0, R, child, dict, i)
    BY <2>1, ValueSwapped
  <2> QED BY <2>2 DEF Swapped
<1> HIDE DEF m0, nd, v
<1>5. Tree(m0, v) = T
  <2>1. \A n \in T : Children(m0, n) = Children(m, n)
    BY <1>3, <1>4 DEF Children
  <2> QED BY <1>1, <1>2, <1>4, <2>1, SameTree DEF ForestOf
<1>6. Blocks(m0, v) = Blocks(m, v)
  BY <1>3, <1>4, <1>5 DEF Blocks
<1> DEFINE f0 == bencode_value_free(m0, v)
<1>7. f0 = Without(m0, v) /\ bencode_value_free(m, v) = Without(m, v)
  BY <1>1, <1>2, <1>4, FreedTree DEF ForestOf
<1>8. /\ ForestOf(f0, ((R \ {child}) \cup {v}) \ {v})
      /\ DOMAIN f0.node = DOMAIN m.node \ T
      /\ \A n \in DOMAIN f0.node : f0.node[n] = m0.node[n]
  <2> DEFINE R0 == (R \ {child}) \cup {v}
  <2>1. v \in R0 /\ ForestOf(m0, R0) /\ f0 = bencode_value_free(m0, v)
    BY <1>4
  <2> HIDE DEF f0, R0
  <2>2. ForestOf(f0, R0 \ {v}) /\ Less(m0, f0, Tree(m0, v))
    BY <2>1, RootFreed
  <2> QED BY <1>4, <1>5, <2>2 DEF R0, Less
<1>9. ((R \ {child}) \cup {v}) \ {v} = R \ {child}
  <2>1. v \notin R
    BY <1>1, <1>2 DEF Parentless
  <2> QED BY <2>1
<1> DEFINE w == Heap(m.live \ Blocks(m, v), NF, m.fault)
<1>10. f = [w EXCEPT !.node[dict].entries[i].value = child]
  BY <1>7 DEF Replace, Without, v
<1>11. f = f0
  <2> DEFINE L == m.live \ Blocks(m, v)
             NG == [NF EXCEPT ![dict] = nd]
  <2>1. w.node = NF
    <3> HIDE DEF NF
    <3> QED BY HeapFields
  <2>2. NF[dict] = m.node[dict]
    BY <1>3
  <2>3. f = [w EXCEPT !.node = [NF EXCEPT ![dict] = Leading(NF[dict], i, child)]]
    <3> HIDE DEF w, NF
    <3> QED BY <1>10, <2>1 DEF Leading
  <2>4. f = Heap(L, NG, m.fault)
    <3>1. f = [w EXCEPT !.node = NG]
      BY <2>2, <2>3 DEF nd
    <3> HIDE DEF NF, NG
    <3>2. w = Heap(L, NF, m.fault)
      OBVIOUS
    <3> HIDE DEF L, w
    <3> QED BY <3>1, <3>2, WithNode
  <2>5. f0 = Heap(L, [n \in DOMAIN m.node \ T |-> m0.node[n]], m.fault)
    BY <1>4, <1>5, <1>6, <1>7 DEF Without
  <2>6. [n \in DOMAIN m.node \ T |-> m0.node[n]] = NG
    <3> HIDE DEF T
    <3> QED BY <1>3, <1>4
  <2> QED BY <2>4, <2>5, <2>6
<1> HIDE DEF f0, w, NF, T
<1>12. dict \in DOMAIN f0.node
  BY <1>3, <1>8
<1> QED BY <1>4, <1>8, <1>9, <1>11, <1>12 DEF T, v, nd, Led

\* bencode_dict_set: of a new key, at its place in the order, ...
Put(m, r, dict, key, child) ==
  \E i \in 1..(Len(m.node[dict].entries) + 1), copy \in Nat :
    /\ Inserted(m, r.mem, dict, i, Entry(key, copy, child))
    /\ \A k \in 1..Len(m.node[dict].entries) : k < i => KeyBefore(m.node[dict].entries[k].key, key)
    /\ \A k \in 1..Len(m.node[dict].entries) : k >= i => KeyBefore(key, m.node[dict].entries[k].key)

\* ... or of a key that is there, whose value goes.
PutAgain(m, r, dict, key, child) ==
  \E i \in DOMAIN m.node[dict].entries :
    /\ m.node[dict].entries[i].key = key
    /\ Led(m, r.mem, dict, i, child)

IsNew(m, dict, key) == \A k \in DOMAIN m.node[dict].entries : m.node[dict].entries[k].key # key

Set(m, R, r, dict, key, child) ==
  \/ /\ r.status = "INVALID_ARG" /\ r.mem = m
     /\ dict = NULL \/ child = NULL \/ m.node[dict].type # "DICT"
  \/ /\ r.status = "NOMEM" /\ r.mem = m /\ IsNew(m, dict, key)
     /\ dict # NULL /\ child # NULL /\ m.node[dict].type = "DICT"
  \/ /\ r.status = "OK" /\ dict \in DOMAIN m.node /\ child \in R /\ m.node[dict].type = "DICT"
     /\ ForestOf(r.mem, R \ {child})
     /\ \/ IsNew(m, dict, key) /\ Put(m, r, dict, key, child)
        \/ PutAgain(m, r, dict, key, child)

LEMMA GivenToADict ==
  ASSUME NEW m, NEW R, ForestOf(m, R), NEW dict, NEW key \in Bytes, NEW child,
         Givable(m, R, dict, child), NEW r \in bencode_dict_set(m, dict, key, child)
  PROVE  Set(m, R, r, dict, key, child)
<1> DEFINE entries == m.node[dict].entries
           s == dict_search(entries, key)
<1>1. CASE WrongArguments(m, dict, "DICT", child)
  BY <1>1 DEF bencode_dict_set, WrongArguments, Result, Set
<1>2. CASE ~WrongArguments(m, dict, "DICT", child)
  <2>1. /\ dict # NULL /\ dict \in DOMAIN m.node /\ dict \notin Tree(m, child)
        /\ child # NULL /\ child \in R /\ m.node[dict].type = "DICT"
    BY <1>2 DEF Givable, WrongArguments
  <2>2. HeapType(m) /\ HeapInv(m, {}) /\ Ordered(m) /\ child \in Nat
    BY <2>1, ForestFacts DEF ForestOf, Trees, HeapInv, Parentless
  <2>3. entries \in Seq(EntryType) /\ Sorted(entries) /\ DOMAIN entries = 1..Len(entries)
        /\ Len(entries) \in Nat /\ \A k \in DOMAIN entries : entries[k].key \in Bytes
    BY <2>1, <2>2, NodeFacts DEF Ordered, EntryType
  <2>4. SearchOf(entries, key, s)
    <3> HIDE DEF entries
    <3> QED BY <2>3, DictSearch
  <2>5. r \in IF s.match THEN {Result(Replace(m, dict, s.index, child), "OK", dict)}
              ELSE Insert(m, dict, s.index, key, child)
    BY <1>2 DEF bencode_dict_set
  <2> HIDE DEF s
  <2>6. CASE s.match
    <3> DEFINE i == s.index
               f == Replace(m, dict, i, child)
    <3>1. i \in DOMAIN m.node[dict].entries /\ m.node[dict].entries[i].key = key
      BY <2>3, <2>4, <2>6 DEF SearchOf, Found
    <3>2. r.mem = f /\ r.status = "OK"
      BY <2>5, <2>6 DEF Result
    <3> HIDE DEF i, f
    <3>3. r.mem = Replace(m, dict, i, child)
      BY <3>2 DEF f
    <3>4. ForestOf(r.mem, R \ {child}) /\ Led(m, r.mem, dict, i, child)
      BY <2>1, <3>1, <3>3, ValueReplaced
    <3> HIDE DEF entries
    <3>5. PutAgain(m, r, dict, key, child)
      BY <3>1, <3>4 DEF PutAgain
    <3> QED BY <2>1, <3>2, <3>4, <3>5 DEF Set
  <2>7. CASE ~s.match
    <3> DEFINE i == s.index
    <3>1. /\ i \in 1..(Len(m.node[dict].entries) + 1)
          /\ \A k \in 1..Len(m.node[dict].entries) : k < i => KeyBefore(m.node[dict].entries[k].key, key)
          /\ \A k \in 1..Len(m.node[dict].entries) : k >= i => KeyBefore(key, m.node[dict].entries[k].key)
      BY <2>4, <2>7 DEF SearchOf
    <3>2. r \in Insert(m, dict, i, key, child)
      BY <2>5, <2>7
    <3> HIDE DEF i
    <3>3. IsNew(m, dict, key)
      <4> SUFFICES ASSUME NEW k \in DOMAIN m.node[dict].entries, m.node[dict].entries[k].key = key
                   PROVE  FALSE
        BY DEF IsNew
      <4>1. k \in Nat /\ i \in Nat /\ k \in 1..Len(m.node[dict].entries)
        BY <2>3, <3>1
      <4>2. KeyBefore(key, key)
        BY <3>1, <4>1
      <4> QED BY <4>2, KeyBeforeIrreflexive
    <3>4. SuitsAt(m, {}, dict, i, Entry(key, NULL, child))
      BY <2>1, <3>1, GivenSuits
    <3>5. \/ r.status = "NOMEM" /\ r.mem = m
          \/ /\ r.status = "OK" /\ HeapInv(r.mem, {})
             /\ \E copy \in Nat : Inserted(m, r.mem, dict, i, Entry(key, copy, child))
      BY <2>2, <3>2, <3>4, DictInsert
    <3>6. ASSUME NEW copy \in Nat, Inserted(m, r.mem, dict, i, Entry(key, copy, child)), HeapInv(r.mem, {})
          PROVE  ForestOf(r.mem, R \ {child})
      <4> DEFINE e == Entry(key, copy, child)
      <4>1. e \in EntryType /\ e.value = child
        BY <2>2 DEF Entry, EntryType
      <4> HIDE DEF e
      <4>2. Inserted(m, r.mem, dict, i, e)
        BY <3>6 DEF e
      <4> QED BY <2>1, <3>1, <3>6, <4>1, <4>2, EntryTaken
    <3> HIDE DEF entries
    <3>7. CASE r.status = "OK"
      <4>1. PICK copy \in Nat : Inserted(m, r.mem, dict, i, Entry(key, copy, child))
        BY <3>5, <3>7
      <4>2. ForestOf(r.mem, R \ {child})
        BY <3>5, <3>6, <3>7, <4>1
      <4>3. Put(m, r, dict, key, child)
        BY <3>1, <4>1 DEF Put
      <4> QED BY <2>1, <3>3, <3>7, <4>2, <4>3 DEF Set
    <3> QED BY <2>1, <3>3, <3>5, <3>7 DEF Set
  <2> QED BY <2>6, <2>7
<1> QED BY <1>1, <1>2

---------------------------------------------------------------------------
(* Clones.                                                                 *)

CopyingNext(m, alloc, v, copying, k) ==
  IF k = 0 THEN Enter(m, <<>>, alloc, v)
  ELSE UNION { CloneStep(c, alloc) : c \in { x \in copying[k - 1] : x.frames # <<>> } }

\* No step leaves the set Good.
Keeps(Good, alloc) == \A c \in Good : c.frames # <<>> => CloneStep(c, alloc) \subseteq Good

\* r is what a clone that has ended answers.
EndsIn(Good, r) == \E c \in Good : c.frames = <<>> /\ r = Result(c.mem, c.status, c.ptr)

\* What holds after every step holds of the clone.
LEMMA CloneEnds ==
  ASSUME NEW m, NEW alloc, NEW v, NEW Good,
         Enter(m, <<>>, alloc, v) \subseteq Good,
         Keeps(Good, alloc), bencode_allocator_check(alloc) = "OK", v # NULL,
         NEW r \in bencode_value_clone(m, alloc, v)
  PROVE  EndsIn(Good, r)
<1> DEFINE X == SUBSET Good
           F == [g \in [Nat -> X] |-> [k \in Nat |-> CopyingNext(m, alloc, v, g, k)]]
           rank == [k \in Nat |-> k]
           g0 == [k \in Nat |-> {}]
<1>1. ASSUME NEW g \in [Nat -> X], NEW k \in Nat
      PROVE  CopyingNext(m, alloc, v, g, k) \in X
  <2>1. CASE k = 0
    BY <2>1 DEF CopyingNext
  <2>2. CASE k # 0
    <3>1. g[k - 1] \in SUBSET Good
      BY <2>2
    <3>2. \A c \in g[k - 1] : c.frames # <<>> => CloneStep(c, alloc) \subseteq Good
      BY <3>1 DEF Keeps
    <3> QED BY <2>2, <3>2 DEF CopyingNext
  <2> QED BY <2>1, <2>2
<1>2. F \in [[Nat -> X] -> [Nat -> X]]
  <2> SUFFICES ASSUME NEW g \in [Nat -> X]
               PROVE  [k \in Nat |-> CopyingNext(m, alloc, v, g, k)] \in [Nat -> X]
    BY Zenon
  <2> HIDE DEF X
  <2> QED BY <1>1
<1>3. ASSUME NEW g \in [Nat -> X], NEW h \in [Nat -> X], NEW k \in Nat,
             \A j \in Nat : rank[j] < rank[k] => g[j] = h[j]
      PROVE  F[g][k] = F[h][k]
  <2>1. CopyingNext(m, alloc, v, g, k) = CopyingNext(m, alloc, v, h, k)
    <3>1. CASE k = 0
      BY <3>1 DEF CopyingNext
    <3>2. CASE k # 0
      <4>1. k - 1 \in Nat /\ rank[k - 1] < rank[k]
        BY <3>2
      <4>2. g[k - 1] = h[k - 1]
        BY <1>3, <4>1
      <4> HIDE DEF F, rank, X
      <4> QED BY <3>2, <4>2 DEF CopyingNext
    <3> QED BY <3>1, <3>2
  <2>2. F[g] = [j \in Nat |-> CopyingNext(m, alloc, v, g, j)] /\ F[h] = [j \in Nat |-> CopyingNext(m, alloc, v, h, j)]
    OBVIOUS
  <2> HIDE DEF F, rank, X
  <2> QED BY <2>1, <2>2
<1>4. \E f \in [Nat -> X] : f = F[f]
  <2> DEFINE S == Nat
  <2>1. rank \in [S -> Nat] /\ g0 \in [S -> X]
    OBVIOUS
  <2> HIDE DEF F, rank, X, g0
  <2>2. DependsOnLess(F, S, X, rank)
    BY <1>2, <1>3, Zenon DEF DependsOnLess
  <2>3. \E f \in [S -> X] : f = F[f]
    <3> HIDE DEF S
    <3> QED BY <2>1, <2>2, RecursiveFunctionExists
  <2> QED BY <2>3
<1> DEFINE copying == CHOOSE copying : copying = [k \in Nat |-> CopyingNext(m, alloc, v, copying, k)]
<1>5. \E f : f = [k \in Nat |-> CopyingNext(m, alloc, v, f, k)]
  <2>1. PICK f \in [Nat -> X] : f = F[f]
    BY <1>4
  <2>2. F[f] = [k \in Nat |-> CopyingNext(m, alloc, v, f, k)]
    OBVIOUS
  <2> HIDE DEF F, X
  <2> QED BY <2>1, <2>2
<1>6. copying = [k \in Nat |-> CopyingNext(m, alloc, v, copying, k)]
  BY <1>5
<1> DEFINE ended == { c \in UNION { copying[k] : k \in 0..(3 * Cardinality(DOMAIN m.node)) } : c.frames = <<>> }
<1>7. r \in { Result(c.mem, c.status, c.ptr) : c \in ended }
  BY DEF bencode_value_clone, CopyingNext
<1> HIDE DEF copying, X, F, rank, g0
<1> DEFINE T == { k \in Nat : copying[k] \subseteq Good }
<1>8. \A k \in Nat : copying[k] = CopyingNext(m, alloc, v, copying, k)
  BY <1>6
<1>9. 0 \in T
  BY <1>8 DEF CopyingNext
<1>10. ASSUME NEW k \in Nat, k \in T PROVE k + 1 \in T
  <2>1. k + 1 # 0 /\ (k + 1) - 1 = k /\ k + 1 \in Nat
    OBVIOUS
  <2>2. copying[k + 1] = UNION { CloneStep(c, alloc) : c \in { x \in copying[k] : x.frames # <<>> } }
    BY <1>8, <2>1 DEF CopyingNext
  <2>3. \A c \in Good : c.frames # <<>> => CloneStep(c, alloc) \subseteq Good
    BY DEF Keeps
  <2> QED BY <1>10, <2>1, <2>2, <2>3
<1>11. Nat \subseteq T
  <2> HIDE DEF T
  <2> QED BY <1>9, <1>10, InductionOverSet
<1>12. PICK c \in ended : r = Result(c.mem, c.status, c.ptr)
  BY <1>7
<1>13. PICK k \in 0..(3 * Cardinality(DOMAIN m.node)) : c \in copying[k]
  BY <1>12
<1>14. k \in Nat
  <2> HIDE DEF ended, T
  <2> QED BY <1>13
<1> QED BY <1>11, <1>12, <1>13, <1>14 DEF EndsIn

\* Only integers have an integer, only strings bytes, only containers entries.
Plain(nd) ==
  /\ nd.type # "INT" => nd.i = 0
  /\ nd.type # "STRING" => nd.bytes = <<>>
  /\ nd.type \in {"INT", "STRING"} => nd.entries = <<>>

WellMade(m) == \A n \in DOMAIN m.node : Plain(m.node[n])

\* The copy of a node, still without entries, has a payload of its own.
CopyMade(m, R, r, nd) ==
  \/ r.status = "NOMEM" /\ r.mem = m
  \/ /\ r.status = "OK" /\ r.ptr # NULL /\ r.ptr \notin DOMAIN m.node
     /\ ForestOf(r.mem, R \cup {r.ptr})
     /\ DOMAIN r.mem.node = DOMAIN m.node \cup {r.ptr}
     /\ \A n \in DOMAIN m.node : r.mem.node[n] = m.node[n]
     /\ LET copy == r.mem.node[r.ptr]
        IN  /\ copy.type = nd.type /\ copy.i = nd.i /\ copy.bytes = nd.bytes
            /\ copy.entries = <<>> /\ (copy.bytes # <<>> => copy.owned # NULL)

LEMMA NewCopyMade ==
  ASSUME NEW m, NEW R, ForestOf(m, R), NEW alloc \in Allocator \ {"partial"},
         NEW nd \in NodeType, Plain(nd), NEW r \in NewCopy(m, alloc, nd)
  PROVE  CopyMade(m, R, r, nd)
<1> DEFINE Of(leaf) == /\ leaf.alloc = alloc /\ leaf.type = nd.type /\ leaf.i = nd.i
                       /\ leaf.bytes = nd.bytes /\ leaf.entries = <<>> /\ leaf \in NodeType
           int == [Node(alloc, "INT") EXCEPT !.i = nd.i]
           string == [Node(alloc, "STRING") EXCEPT !.bytes = nd.bytes]
<1>1. nd.i \in Int /\ nd.bytes \in Bytes /\ nd.type \in {"INT", "STRING", "LIST", "DICT"}
  BY DEF NodeType
<1>2. /\ Leaf(int) /\ Leaf(string)
      /\ Leaf(Node(alloc, "LIST")) /\ Leaf(Node(alloc, "DICT"))
  BY <1>1, NodesAreLeaves
<1>3. ASSUME NEW leaf, Of(leaf), NEW copied, Made(m, R, r, leaf, copied),
             copied \/ leaf.bytes = <<>>
      PROVE  CopyMade(m, R, r, nd)
  <2>1. CASE r.status # "OK"
    BY <1>3, <2>1 DEF Made, CopyMade
  <2>2. CASE r.status = "OK"
    <3>1. PICK owned \in Nat : /\ r.mem.node[r.ptr] = [leaf EXCEPT !.owned = owned]
                               /\ copied /\ leaf.bytes # <<>> => owned # NULL
      BY <1>3, <2>2 DEF Made
    <3> DEFINE copy == r.mem.node[r.ptr]
    <3>2. /\ copy.type = leaf.type /\ copy.i = leaf.i /\ copy.bytes = leaf.bytes
          /\ copy.entries = leaf.entries /\ copy.owned = owned
      BY <1>3, <3>1 DEF NodeType
    <3> QED BY <1>3, <2>2, <3>1, <3>2 DEF Made, CopyMade
  <2> QED BY <2>1, <2>2
<1>4. CASE nd.type = "INT"
  <2>1. nd.bytes = <<>>
    BY <1>4 DEF Plain
  <2>2. Of(int)
    BY <1>2, <1>4, <2>1 DEF Node, Leaf
  <2>3. Made(m, R, r, int, FALSE)
    BY <1>2, <1>4, NewMade DEF NewCopy, bencode_int_new
  <2> HIDE DEF int, Of
  <2>4. int.bytes = <<>>
    BY <2>1, <2>2 DEF Of
  <2> QED BY <1>3, <2>2, <2>3, <2>4
<1>5. CASE nd.type = "STRING"
  <2>1. nd.i = 0
    BY <1>5 DEF Plain
  <2>2. Of(string)
    BY <1>2, <1>5, <2>1 DEF Node, Leaf
  <2>3. Made(m, R, r, string, TRUE)
    BY <1>1, <1>5, StringMade DEF NewCopy, StringNode
  <2> HIDE DEF string, Of
  <2> QED BY <1>3, <2>2, <2>3
<1>6. CASE nd.type \in {"LIST", "DICT"}
  <2> DEFINE leaf == Node(alloc, nd.type)
  <2>1. nd.i = 0 /\ nd.bytes = <<>>
    BY <1>6 DEF Plain
  <2>2. Leaf(leaf)
    BY <1>2, <1>6
  <2>3. Of(leaf)
    BY <2>1, <2>2 DEF Node, Leaf
  <2>4. r \in New(m, leaf)
    BY <1>6 DEF NewCopy, bencode_list_new, bencode_dict_new
  <2>5. leaf.bytes = <<>>
    BY DEF Node
  <2> HIDE DEF leaf, Of
  <2>6. Made(m, R, r, leaf, FALSE)
    BY <2>2, <2>4, NewMade
  <2> QED BY <1>3, <2>3, <2>5, <2>6
<1> QED BY <1>1, <1>4, <1>5, <1>6

\* An entry after all the others, as clones add them.
AddedLast(m, R, r, n, key, child) ==
  \/ r.status = "NOMEM" /\ r.mem = m
  \/ /\ r.status = "OK" /\ ForestOf(r.mem, R \ {child})
     /\ \E e \in EntryType :
          /\ e.value = child /\ (m.node[n].type = "DICT" => e.key = key)
          /\ Inserted(m, r.mem, n, Len(m.node[n].entries) + 1, e)

LEMMA EntryAdded ==
  ASSUME NEW m, NEW R, ForestOf(m, R), NEW n \in DOMAIN m.node, m.node[n].type \in {"LIST", "DICT"},
         NEW child \in R, n \notin Tree(m, child), NEW key \in Bytes,
         m.node[n].type = "DICT" =>
           \A k \in DOMAIN m.node[n].entries : KeyBefore(m.node[n].entries[k].key, key),
         NEW r \in AddEntry(m, n, key, child)
  PROVE  AddedLast(m, R, r, n, key, child)
<1> DEFINE len == Len(m.node[n].entries)
<1>1. /\ Trees(m) /\ HeapType(m) /\ n # NULL /\ child # NULL /\ child \in Nat
      /\ Givable(m, R, n, child)
  BY ForestFacts DEF ForestOf, Parentless, Givable
<1>2. len \in Nat /\ DOMAIN m.node[n].entries = 1..len
  BY <1>1, NodeFacts
<1>3. ASSUME NEW copy \in Nat, NEW k \in Bytes
      PROVE  Entry(k, copy, child) \in EntryType /\ Entry(k, copy, child).value = child
             /\ Entry(k, copy, child).key = k
  BY <1>1 DEF Entry, EntryType
<1>4. CASE m.node[n].type = "LIST"
  <2>1. r \in bencode_list_append(m, n, child)
    BY <1>4 DEF AddEntry
  <2>2. Appended(m, R, r, n, child)
    BY <1>1, <2>1, GivenToAList
  <2>3. <<>> \in Bytes /\ NULL \in Nat
    BY BytesEmpty DEF NULL
  <2>4. m.node[n].type # "DICT"
    BY <1>4
  <2> QED BY <1>1, <1>3, <1>4, <2>2, <2>3, <2>4 DEF Appended, AddedLast
<1>5. CASE m.node[n].type = "DICT"
  <2>1. r \in bencode_dict_set(m, n, key, child)
    BY <1>5 DEF AddEntry
  <2>2. Set(m, R, r, n, key, child)
    BY <1>1, <2>1, GivenToADict
  <2>3. ASSUME NEW k \in DOMAIN m.node[n].entries
        PROVE  m.node[n].entries[k].key # key /\ ~KeyBefore(key, m.node[n].entries[k].key)
    <3> DEFINE a == m.node[n].entries[k].key
    <3>1. a \in Bytes /\ KeyBefore(a, key)
      BY <1>1, <1>5, NodeFacts DEF EntryType
    <3> HIDE DEF a
    <3>2. a # key /\ ~KeyBefore(key, a)
      BY <3>1, KeyTrichotomy DEF KeyBefore
    <3> QED BY <3>2 DEF a
  <2>4. ~PutAgain(m, r, n, key, child)
    BY <2>3 DEF PutAgain
  <2>5. CASE r.status = "NOMEM"
    BY <2>2, <2>5 DEF Set, AddedLast
  <2>6. CASE r.status = "OK"
    <3>1. Put(m, r, n, key, child) /\ ForestOf(r.mem, R \ {child})
      BY <2>2, <2>4, <2>6 DEF Set
    <3>2. PICK i \in 1..(len + 1), copy \in Nat :
            /\ Inserted(m, r.mem, n, i, Entry(key, copy, child))
            /\ \A k \in 1..len : k >= i => KeyBefore(key, m.node[n].entries[k].key)
      BY <3>1 DEF Put
    <3>3. i = len + 1
      <4>1. \A k \in 1..len : ~(k >= i)
        BY <1>2, <2>3, <3>2
      <4> HIDE DEF len
      <4> QED BY <1>2, <4>1
    <3> QED BY <1>3, <2>6, <3>1, <3>2, <3>3 DEF AddedLast
  <2> QED BY <1>1, <1>5, <2>2, <2>5, <2>6 DEF Set
<1> QED BY <1>4, <1>5

FrameType == [of : Nat, copy : Nat, next : Nat]

Copies(frames) == { frames[i].copy : i \in DOMAIN frames }

LEMMA FrontFacts ==
  ASSUME NEW S, NEW s \in Seq(S), s # <<>>
  PROVE  /\ Len(s) \in Nat \ {0} /\ DOMAIN s = 1..Len(s)
         /\ Front(s) \in Seq(S) /\ Len(Front(s)) = Len(s) - 1 /\ DOMAIN Front(s) = 1..(Len(s) - 1)
         /\ \A i \in 1..(Len(s) - 1) : Front(s)[i] = s[i]
         /\ Last(s) = s[Len(s)] /\ Last(s) \in S /\ Append(Front(s), Last(s)) = s
<1> DEFINE len == Len(s)
<1>1. len \in Nat \ {0} /\ DOMAIN s = 1..len /\ \A i \in 1..len : s[i] \in S
  BY LenProperties, EmptySeq, ElementOfSeq
<1>2. Front(s) = SubSeq(s, 1, len - 1) /\ Last(s) = s[len]
  BY DEF Front, Last
<1> HIDE DEF len
<1>3. 1 \in Int /\ len - 1 \in Int /\ \A i \in 1..(len - 1) : s[i] \in S
  BY <1>1
<1>4. /\ SubSeq(s, 1, len - 1) \in Seq(S)
      /\ Len(SubSeq(s, 1, len - 1)) = IF 1 <= len - 1 THEN (len - 1) - 1 + 1 ELSE 0
      /\ \A i \in 1..((len - 1) - 1 + 1) : SubSeq(s, 1, len - 1)[i] = s[1 + i - 1]
  BY <1>3, SubSeqProperties
<1>5. /\ Front(s) \in Seq(S) /\ Len(Front(s)) = len - 1
      /\ \A i \in 1..(len - 1) : Front(s)[i] = s[i]
  BY <1>1, <1>2, <1>4
<1>6. Last(s) \in S
  BY <1>1, <1>2
<1>7. DOMAIN Front(s) = 1..(len - 1)
  BY <1>5, LenProperties
<1>8. Append(Front(s), Last(s)) = s
  <2> DEFINE f == Front(s)
             a == Append(f, Last(s))
  <2>1. /\ a \in Seq(S) /\ Len(a) = (len - 1) + 1 /\ a[(len - 1) + 1] = s[len]
        /\ \A i \in 1..(len - 1) : a[i] = s[i]
    <3> HIDE DEF f
    <3>1. f \in Seq(S) /\ Len(f) = len - 1 /\ \A i \in 1..(len - 1) : f[i] = s[i]
      BY <1>5 DEF f
    <3> QED BY <1>2, <1>6, <3>1, AppendFacts
  <2> HIDE DEF a, f
  <2>2. Len(a) = len
    BY <1>1, <2>1
  <2>3. ASSUME NEW i \in 1..len PROVE a[i] = s[i]
    <3>1. i \in 1..(len - 1) \/ i = (len - 1) + 1
      BY <1>1
    <3>2. (len - 1) + 1 = len
      BY <1>1
    <3> QED BY <1>1, <2>1, <3>1, <3>2
  <2>4. a = s
    BY <2>1, <2>2, <2>3, SeqEqual DEF len
  <2> QED BY <2>4 DEF a, f
<1> QED BY <1>1, <1>2, <1>5, <1>6, <1>7, <1>8 DEF len

\* On a heap that has all that m has, and more, the trees of m are as they
\* were, and those of the new values are apart from them.
Grown(m, h) ==
  DOMAIN m.node \subseteq DOMAIN h.node /\ \A n \in DOMAIN m.node : h.node[n] = m.node[n]

LEMMA TreesKept ==
  ASSUME NEW m, Trees(m), NEW h, Trees(h), Grown(m, h), NEW n \in DOMAIN m.node
  PROVE  Tree(h, n) = Tree(m, n)
<1>1. \A k \in Tree(m, n) : Children(h, k) = Children(m, k)
  <2>1. Tree(m, n) \subseteq DOMAIN m.node
    BY TreeHolds
  <2> QED BY <2>1 DEF Grown, Children
<1> QED BY <1>1, SameTree DEF Grown

LEMMA OriginalsApart ==
  ASSUME NEW m, NEW R, ForestOf(m, R), NEW h, NEW Q, ForestOf(h, R \cup Q), Grown(m, h),
         NEW x \in Q, x \notin DOMAIN m.node
  PROVE  Tree(h, x) \cap DOMAIN m.node = {}
<1> SUFFICES ASSUME NEW n \in DOMAIN m.node, n \in Tree(h, x) PROVE FALSE
  OBVIOUS
<1>1. Trees(m) /\ Trees(h) /\ R = Parentless(m) /\ R \cup Q = Parentless(h)
  BY DEF ForestOf
<1>2. PICK r \in R : n \in Tree(m, r)
  BY <1>1, EveryNodeHasARoot
<1>3. r \in DOMAIN m.node /\ r # x
  BY <1>1 DEF Parentless
<1>4. n \in Tree(h, r)
  BY <1>1, <1>2, <1>3, TreesKept
<1>5. r \in Parentless(h) /\ x \in Parentless(h)
  BY <1>1
<1> QED BY <1>1, <1>3, <1>4, <1>5, TreesAreDisjoint

\* When all that is new has gone, nothing has changed.
LEMMA NothingLeft ==
  ASSUME NEW m, NEW R, ForestOf(m, R), NEW h, ForestOf(h, R), Grown(m, h)
  PROVE  h = m
<1>1. /\ Trees(m) /\ Trees(h) /\ R = Parentless(m) /\ R = Parentless(h)
      /\ HeapType(m) /\ HeapType(h) /\ HeldOnce(m, {}) /\ HeldOnce(h, {})
  BY ForestFacts DEF ForestOf
<1>2. DOMAIN h.node = DOMAIN m.node
  <2> SUFFICES ASSUME NEW n \in DOMAIN h.node PROVE n \in DOMAIN m.node
    BY DEF Grown
  <2>1. PICK r \in R : n \in Tree(h, r)
    BY <1>1, EveryNodeHasARoot
  <2>2. r \in DOMAIN m.node
    BY <1>1 DEF Parentless
  <2> QED BY <1>1, <2>1, <2>2, TreesKept, TreeHolds
<1>3. h.node = m.node
  <2>1. h.node = [n \in DOMAIN h.node |-> h.node[n]] /\ m.node = [n \in DOMAIN m.node |-> m.node[n]]
    BY <1>1 DEF HeapType
  <2> QED BY <1>2, <2>1 DEF Grown
<1>4. h.live = m.live
  <2>1. \A n \in DOMAIN m.node : BlocksOf(h, n) = BlocksOf(m, n)
    BY <1>3 DEF BlocksOf
  <2> QED BY <1>1, <1>2, <2>1 DEF HeldOnce
<1> QED BY <1>1, <1>3, <1>4 DEF HeapType

\* The copies under way are trees of their own, beside the forest of m.
Running(m, R, h, frames) ==
  /\ frames \in Seq(FrameType)
  /\ ForestOf(h, R \cup Copies(frames)) /\ Grown(m, h)
  /\ \A n \in DOMAIN h.node \ DOMAIN m.node : h.node[n].bytes # <<>> => h.node[n].owned # NULL
  /\ \A i \in DOMAIN frames : frames[i].of \in DOMAIN m.node /\ frames[i].copy \notin DOMAIN m.node
  /\ \A i, j \in DOMAIN frames : frames[i].copy = frames[j].copy => i = j

LEMMA CopyGivenUp ==
  ASSUME NEW m, NEW R, ForestOf(m, R), NEW h, NEW frames, Running(m, R, h, frames), frames # <<>>
  PROVE  Running(m, R, bencode_value_free(h, Last(frames).copy), Front(frames))
<1> DEFINE f == Last(frames)
           x == f.copy
           outer == Front(frames)
           g == bencode_value_free(h, x)
           len == Len(frames)
           Q == Copies(frames)
<1>1. /\ len \in Nat \ {0} /\ DOMAIN frames = 1..len
      /\ outer \in Seq(FrameType) /\ DOMAIN outer = 1..(len - 1)
      /\ \A i \in 1..(len - 1) : outer[i] = frames[i]
      /\ f = frames[len]
  BY FrontFacts DEF Running
<1>2. len \in DOMAIN frames /\ \A i \in 1..(len - 1) : i \in DOMAIN frames /\ i # len
  <2> HIDE DEF len
  <2> QED BY <1>1
<1> HIDE DEF outer, f, len
<1>3. x \in Q /\ x \notin DOMAIN m.node
  BY <1>1, <1>2 DEF Copies, Running
<1>4. Copies(outer) = Q \ {x}
  <2>1. \A c : c \in Copies(outer) <=> \E i \in 1..(len - 1) : c = frames[i].copy
    BY <1>1 DEF Copies
  <2>2. \A c : c \in Q <=> \E i \in 1..len : c = frames[i].copy
    BY <1>1 DEF Copies
  <2>3. \A i \in 1..(len - 1) : frames[i].copy # x
    BY <1>1, <1>2 DEF Running
  <2>4. \A i \in 1..len : i \in 1..(len - 1) \/ i = len
    BY <1>1
  <2>5. \A i \in 1..(len - 1) : i \in 1..len
    BY <1>1
  <2> QED BY <1>1, <2>1, <2>2, <2>3, <2>4, <2>5
<1> HIDE DEF Q, x
<1>5. ForestOf(h, R \cup Q) /\ Grown(m, h)
  BY DEF Running, Q
<1>6. Tree(h, x) \cap DOMAIN m.node = {}
  BY <1>3, <1>5, OriginalsApart
<1>7. ForestOf(g, (R \cup Q) \ {x}) /\ Less(h, g, Tree(h, x))
  <2> DEFINE P == R \cup Q
  <2>1. x \in P /\ ForestOf(h, P)
    BY <1>3, <1>5
  <2> HIDE DEF P, g
  <2>2. g = bencode_value_free(h, x)
    BY DEF g
  <2>3. ForestOf(g, P \ {x}) /\ Less(h, g, Tree(h, x))
    BY <2>1, <2>2, RootFreed
  <2> QED BY <2>3 DEF P
<1>8. x \notin R
  BY <1>3 DEF ForestOf, Parentless
<1>9. (R \cup Q) \ {x} = R \cup Copies(outer)
  BY <1>4, <1>8
<1> HIDE DEF g
<1>10. ForestOf(g, R \cup Copies(outer)) /\ Grown(m, g)
  BY <1>5, <1>6, <1>7, <1>9 DEF Grown, Less
<1>11. \A n \in DOMAIN g.node \ DOMAIN m.node : g.node[n].bytes # <<>> => g.node[n].owned # NULL
  BY <1>7 DEF Running, Less
<1>12. /\ \A i \in DOMAIN outer : outer[i].of \in DOMAIN m.node /\ outer[i].copy \notin DOMAIN m.node
       /\ \A i, j \in DOMAIN outer : outer[i].copy = outer[j].copy => i = j
  BY <1>1, <1>2 DEF Running
<1>13. Running(m, R, g, outer)
  BY <1>1, <1>10, <1>11, <1>12 DEF Running
<1> QED BY <1>13 DEF g, x, f, outer

\* A call for node w has made its copy x, ...
Entered(m, R, h, frames, w, x, g) ==
  /\ Running(m, R, g, Append(frames, Frame(w, x, 1)))
  /\ x \notin DOMAIN h.node /\ DOMAIN g.node = DOMAIN h.node \cup {x}
  /\ \A n \in DOMAIN h.node : g.node[n] = h.node[n]
  /\ g.node[x].type = m.node[w].type /\ g.node[x].i = m.node[w].i
  /\ g.node[x].bytes = m.node[w].bytes /\ g.node[x].entries = <<>>

\* ... or nothing.
LEMMA CopyEntered ==
  ASSUME NEW m, NEW R, ForestOf(m, R), WellMade(m), NEW h, NEW frames, Running(m, R, h, frames),
         NEW w \in DOMAIN m.node, NEW alloc \in Allocator \ {"partial"},
         NEW c \in Enter(h, frames, alloc, w)
  PROVE  \/ c = Copying(h, frames, "NOMEM", NULL)
         \/ \E x, g : /\ c = Copying(g, Append(frames, Frame(w, x, 1)), "OK", NULL)
                      /\ Entered(m, R, h, frames, w, x, g)
<1> DEFINE Q == Copies(frames)
<1>1. HeapType(m) /\ h.node[w] = m.node[w] /\ m.node[w] \in NodeType /\ Plain(m.node[w])
  BY ForestFacts, NodeFacts DEF ForestOf, Running, Grown, WellMade
<1>2. PICK r \in NewCopy(h, alloc, h.node[w]) :
        c = IF r.status = "OK" THEN Copying(r.mem, Append(frames, Frame(w, r.ptr, 1)), "OK", NULL)
            ELSE Copying(r.mem, frames, r.status, NULL)
  BY DEF Enter
<1>3. CopyMade(h, R \cup Q, r, m.node[w])
  <2> DEFINE P == R \cup Q
  <2>1. ForestOf(h, P) /\ r \in NewCopy(h, alloc, m.node[w])
    BY <1>1, <1>2 DEF Running
  <2> HIDE DEF P
  <2>2. CopyMade(h, P, r, m.node[w])
    BY <1>1, <2>1, NewCopyMade
  <2> QED BY <2>2 DEF P
<1>4. CASE r.status # "OK"
  <2>1. r.status = "NOMEM" /\ r.mem = h
    BY <1>3, <1>4 DEF CopyMade
  <2> QED BY <1>2, <2>1
<1>5. CASE r.status = "OK"
  <2> DEFINE x == r.ptr
             g == r.mem
             s == Append(frames, Frame(w, x, 1))
             len == Len(frames)
  <2>1. /\ x \notin DOMAIN h.node /\ DOMAIN g.node = DOMAIN h.node \cup {x}
        /\ \A n \in DOMAIN h.node : g.node[n] = h.node[n]
        /\ g.node[x].type = m.node[w].type /\ g.node[x].i = m.node[w].i
        /\ g.node[x].bytes = m.node[w].bytes /\ g.node[x].entries = <<>>
        /\ g.node[x].bytes # <<>> => g.node[x].owned # NULL
        /\ ForestOf(g, (R \cup Q) \cup {x})
    BY <1>3, <1>5 DEF CopyMade
  <2>2. x \in Nat /\ w \in Nat
    <3>1. DOMAIN g.node \subseteq Nat /\ DOMAIN m.node \subseteq Nat
      BY <2>1, ForestFacts DEF ForestOf
    <3> QED BY <2>1, <3>1
  <2>3. Frame(w, x, 1) \in FrameType /\ frames \in Seq(FrameType)
    BY <2>2 DEF Frame, FrameType, Running
  <2>4. /\ s \in Seq(FrameType) /\ len \in Nat /\ DOMAIN frames = 1..len /\ DOMAIN s = 1..(len + 1)
        /\ s[len + 1] = Frame(w, x, 1) /\ \A i \in 1..len : s[i] = frames[i]
    BY <2>3, AppendFacts
  <2> HIDE DEF x, g, s, len
  <2>5. Frame(w, x, 1).of = w /\ Frame(w, x, 1).copy = x
    BY DEF Frame
  <2>6. \A i \in 1..(len + 1) : i \in 1..len \/ i = len + 1
    BY <2>4
  <2>7. Copies(s) = Q \cup {x}
    <3>1. \A e : e \in Copies(s) <=> \E i \in 1..(len + 1) : e = s[i].copy
      BY <2>4 DEF Copies
    <3>2. \A e : e \in Q <=> \E i \in 1..len : e = frames[i].copy
      BY <2>4 DEF Copies
    <3>3. len + 1 \in 1..(len + 1) /\ \A i \in 1..len : i \in 1..(len + 1)
      BY <2>4
    <3> HIDE DEF Q
    <3> QED BY <2>4, <2>5, <2>6, <3>1, <3>2, <3>3
  <2>8. (R \cup Q) \cup {x} = R \cup Copies(s)
    BY <2>7
  <2>9. \A i \in 1..len : frames[i].of \in DOMAIN m.node /\ frames[i].copy \notin DOMAIN m.node /\ frames[i].copy # x
    <3>1. \A i \in 1..len : frames[i].copy \in R \cup Q
      BY <2>4 DEF Copies
    <3>2. R \cup Q \subseteq DOMAIN h.node
      BY DEF Running, ForestOf, Parentless
    <3> QED BY <2>1, <2>4, <3>1, <3>2 DEF Running
  <2>10. x \notin DOMAIN m.node
    BY <2>1 DEF Running, Grown
  <2>11. \A i \in DOMAIN s : s[i].of \in DOMAIN m.node /\ s[i].copy \notin DOMAIN m.node
    BY <2>4, <2>5, <2>6, <2>9, <2>10
  <2>12. ASSUME NEW i \in DOMAIN s, NEW j \in DOMAIN s, s[i].copy = s[j].copy
         PROVE  i = j
    <3>1. CASE i \in 1..len /\ j \in 1..len
      BY <2>4, <2>12, <3>1 DEF Running
    <3>2. CASE i = len + 1 \/ j = len + 1
      BY <2>4, <2>5, <2>6, <2>9, <2>12, <3>2
    <3> QED BY <2>4, <2>6, <3>1, <3>2
  <2>13. Grown(m, g)
    BY <2>1 DEF Running, Grown
  <2>14. \A n \in DOMAIN g.node \ DOMAIN m.node : g.node[n].bytes # <<>> => g.node[n].owned # NULL
    BY <2>1 DEF Running
  <2>15. Running(m, R, g, s)
    BY <2>1, <2>4, <2>8, <2>11, <2>12, <2>13, <2>14 DEF Running
  <2>16. Entered(m, R, h, frames, w, x, g)
    BY <2>1, <2>15 DEF Entered, s
  <2>17. c = Copying(g, Append(frames, Frame(w, x, 1)), "OK", NULL)
    BY <1>2, <1>5 DEF g, x
  <2> QED BY <2>16, <2>17
<1> QED BY <1>4, <1>5

\* The innermost copy has become the entry e of the one around it.
Closed(m, R, h, frames, g, e) ==
  LET outer == Front(frames)
      f     == Last(outer)
  IN  /\ Running(m, R, g, Append(Front(outer), Frame(f.of, f.copy, f.next + 1)))
      /\ e \in EntryType /\ e.value = Last(frames).copy
      /\ h.node[f.copy].type = "DICT" => e.key = m.node[f.of].entries[f.next].key
      /\ Inserted(h, g, f.copy, Len(h.node[f.copy].entries) + 1, e)

\* The next entry of the original comes after those that are copied.
ComesNext(m, h, f) ==
  /\ f.next \in DOMAIN m.node[f.of].entries
  /\ h.node[f.copy].type \in {"LIST", "DICT"}
  /\ h.node[f.copy].type = "DICT" =>
       \A k \in DOMAIN h.node[f.copy].entries :
         KeyBefore(h.node[f.copy].entries[k].key, m.node[f.of].entries[f.next].key)

LEMMA CopyClosed ==
  ASSUME NEW m, NEW R, ForestOf(m, R), NEW h, NEW frames, Running(m, R, h, frames),
         frames # <<>>, Front(frames) # <<>>, ComesNext(m, h, Last(Front(frames))),
         NEW c \in Attached(h, Front(frames), Last(frames))
  PROVE  \/ c = Copying(h, frames, "NOMEM", NULL)
         \/ \E g, e : /\ Closed(m, R, h, frames, g, e)
                      /\ LET outer == Front(frames)
                             f     == Last(outer)
                         IN  c = Copying(g, Append(Front(outer), Frame(f.of, f.copy, f.next + 1)), "OK", NULL)
<1> DEFINE outer == Front(frames)
           f == Last(outer)
           child == Last(frames)
           next == Frame(f.of, f.copy, f.next + 1)
           s == Append(Front(outer), next)
           key == m.node[f.of].entries[f.next].key
           len == Len(frames)
           Q == Copies(frames)
           x == child.copy
<1>1. /\ len \in Nat \ {0} /\ DOMAIN frames = 1..len /\ frames \in Seq(FrameType)
      /\ outer \in Seq(FrameType) /\ Len(outer) = len - 1 /\ DOMAIN outer = 1..(len - 1)
      /\ \A i \in 1..(len - 1) : outer[i] = frames[i]
      /\ child = frames[len] /\ child \in FrameType /\ Append(outer, child) = frames
  BY FrontFacts DEF Running
<1>2. /\ len - 1 \in Nat \ {0} /\ Front(outer) \in Seq(FrameType) /\ Len(Front(outer)) = (len - 1) - 1
      /\ \A i \in 1..((len - 1) - 1) : Front(outer)[i] = outer[i]
      /\ f = outer[len - 1] /\ f \in FrameType
  <2> HIDE DEF outer, len
  <2>1. outer # <<>> /\ outer \in Seq(FrameType)
    BY <1>1 DEF outer
  <2>2. /\ Len(outer) \in Nat \ {0} /\ Front(outer) \in Seq(FrameType)
        /\ Len(Front(outer)) = Len(outer) - 1
        /\ \A i \in 1..(Len(outer) - 1) : Front(outer)[i] = outer[i]
        /\ Last(outer) = outer[Len(outer)] /\ Last(outer) \in FrameType
    BY <2>1, FrontFacts
  <2>3. Len(outer) = len - 1
    BY <1>1
  <2> QED BY <2>2, <2>3 DEF f
<1>3. next \in FrameType /\ next.of = f.of /\ next.copy = f.copy
  <2> HIDE DEF f
  <2> QED BY <1>2 DEF Frame, FrameType
<1>4. /\ s \in Seq(FrameType) /\ DOMAIN s = 1..(len - 1) /\ s[len - 1] = next
      /\ \A i \in 1..(len - 2) : s[i] = frames[i]
  <2> DEFINE t == Front(outer)
  <2>1. t \in Seq(FrameType) /\ Len(t) = len - 2 /\ \A i \in 1..(len - 2) : t[i] = frames[i]
    <3> HIDE DEF outer, len
    <3>1. \A i \in 1..(len - 2) : i \in 1..(len - 1)
      BY <1>1, <1>2
    <3>2. (len - 1) - 1 = len - 2
      BY <1>1
    <3> QED BY <1>1, <1>2, <3>1, <3>2
  <2> HIDE DEF t, next, len
  <2>2. /\ Append(t, next) \in Seq(FrameType) /\ DOMAIN Append(t, next) = 1..((len - 2) + 1)
        /\ Append(t, next)[(len - 2) + 1] = next /\ \A i \in 1..(len - 2) : Append(t, next)[i] = t[i]
    BY <1>3, <2>1, AppendFacts
  <2>3. (len - 2) + 1 = len - 1
    BY <1>1
  <2> QED BY <2>1, <2>2, <2>3 DEF t
<1>5. f = frames[len - 1] /\ len - 1 \in 1..len /\ len \in 1..len /\ len - 1 # len
  <2> HIDE DEF len, outer, f
  <2>1. len - 1 \in 1..(len - 1)
    BY <1>2
  <2> QED BY <1>1, <1>2, <2>1
<1> HIDE DEF outer, child, len, f, next, s
<1>6. /\ f.of \in DOMAIN m.node /\ f.copy \notin DOMAIN m.node /\ x \notin DOMAIN m.node
      /\ f.copy # x /\ f.copy \in Q /\ x \in Q
  BY <1>1, <1>5 DEF Running, Copies
<1>7. ForestOf(h, R \cup Q) /\ Grown(m, h) /\ f.of \in DOMAIN h.node /\ h.node[f.of] = m.node[f.of]
  BY <1>6 DEF Running, Grown
<1>8. ComesNext(m, h, f)
  BY DEF f, outer
<1>9. key \in Bytes
  <2>1. HeapType(m)
    BY ForestFacts DEF ForestOf
  <2> QED BY <1>6, <1>8, <2>1, NodeFacts DEF ComesNext, EntryType
<1>10. f.copy \in DOMAIN h.node /\ f.copy \notin Tree(h, x)
  <2>1. Trees(h) /\ f.copy \in Parentless(h) /\ x \in Parentless(h)
    BY <1>6, <1>7 DEF ForestOf
  <2>2. f.copy \in DOMAIN h.node
    BY <2>1 DEF Parentless
  <2>3. Tree(h, f.copy) \cap Tree(h, x) = {}
    BY <1>6, <2>1, TreesAreDisjoint
  <2> QED BY <2>1, <2>2, <2>3, TreeHolds
<1>11. PICK a \in AddEntry(h, f.copy, key, x) :
         c = IF a.status = "OK" THEN Copying(a.mem, s, "OK", NULL)
             ELSE Copying(a.mem, frames, a.status, NULL)
  <2>1. PICK a \in AddEntry(h, f.copy, h.node[f.of].entries[f.next].key, x) :
          c = IF a.status = "OK" THEN Copying(a.mem, s, "OK", NULL)
              ELSE GiveUp(a.mem, Append(outer, child), a.status)
    BY DEF Attached, f, outer, child, s, next
  <2> QED BY <1>1, <1>7, <2>1 DEF GiveUp
<1> HIDE DEF x, Q
<1>12. AddedLast(h, R \cup Q, a, f.copy, key, x)
  <2> DEFINE P == R \cup Q
  <2>1. x \in P /\ ForestOf(h, P)
    BY <1>6, <1>7
  <2> HIDE DEF P, key
  <2>2. /\ h.node[f.copy].type \in {"LIST", "DICT"}
        /\ h.node[f.copy].type = "DICT" =>
             \A k \in DOMAIN h.node[f.copy].entries : KeyBefore(h.node[f.copy].entries[k].key, key)
    BY <1>8 DEF ComesNext, key
  <2>3. AddedLast(h, P, a, f.copy, key, x)
    BY <1>9, <1>10, <1>11, <2>1, <2>2, EntryAdded
  <2> QED BY <2>3 DEF P
<1>13. CASE a.status # "OK"
  <2>1. a.status = "NOMEM" /\ a.mem = h
    BY <1>12, <1>13 DEF AddedLast
  <2> QED BY <1>11, <2>1
<1>14. CASE a.status = "OK"
  <2> DEFINE g == a.mem
  <2>1. PICK e \in EntryType : /\ e.value = x /\ (h.node[f.copy].type = "DICT" => e.key = key)
                               /\ Inserted(h, g, f.copy, Len(h.node[f.copy].entries) + 1, e)
    BY <1>12, <1>14 DEF AddedLast
  <2>2. ForestOf(g, (R \cup Q) \ {x})
    BY <1>12, <1>14 DEF AddedLast
  <2> HIDE DEF g
  <2>3. \A i \in 1..(len - 1) : i \in 1..(len - 2) \/ i = len - 1
    BY <1>1
  <2>4. \A i \in 1..(len - 1) : s[i].of = frames[i].of /\ s[i].copy = frames[i].copy
    BY <1>3, <1>4, <1>5, <2>3
  <2>5. \A i \in 1..(len - 1) : i \in 1..len /\ i # len
    BY <1>1
  <2>6. Copies(s) = Q \ {x}
    <3>1. \A k : k \in Copies(s) <=> \E i \in 1..(len - 1) : k = frames[i].copy
      BY <1>4, <2>4 DEF Copies
    <3>2. \A k : k \in Q <=> \E i \in 1..len : k = frames[i].copy
      BY <1>1 DEF Copies, Q
    <3>3. \A i \in 1..(len - 1) : frames[i].copy # x
      BY <1>1, <1>5, <2>5 DEF Running, x
    <3>4. \A i \in 1..len : i \in 1..(len - 1) \/ i = len
      BY <1>1
    <3>5. frames[len].copy = x
      BY <1>1 DEF x
    <3> QED BY <2>5, <3>1, <3>2, <3>3, <3>4, <3>5
  <2>7. (R \cup Q) \ {x} = R \cup Copies(s)
    <3>1. x \notin R
      BY <1>6 DEF ForestOf, Parentless
    <3> QED BY <2>6, <3>1
  <2>8. DOMAIN g.node = DOMAIN h.node /\ \A n \in DOMAIN h.node \ {f.copy} : g.node[n] = h.node[n]
    BY <2>1 DEF Inserted
  <2>9. g.node[f.copy].bytes = h.node[f.copy].bytes /\ g.node[f.copy].owned = h.node[f.copy].owned
    BY <2>1 DEF Inserted, OneMore
  <2>10. Grown(m, g)
    BY <1>6, <1>7, <2>8 DEF Grown
  <2>11. \A n \in DOMAIN g.node \ DOMAIN m.node : g.node[n].bytes # <<>> => g.node[n].owned # NULL
    BY <2>8, <2>9 DEF Running
  <2>12. \A i \in DOMAIN s : s[i].of \in DOMAIN m.node /\ s[i].copy \notin DOMAIN m.node
    BY <1>1, <1>4, <2>4, <2>5 DEF Running
  <2>13. \A i, j \in DOMAIN s : s[i].copy = s[j].copy => i = j
    BY <1>1, <1>4, <2>4, <2>5 DEF Running
  <2>14. Running(m, R, g, s)
    BY <1>4, <2>2, <2>7, <2>10, <2>11, <2>12, <2>13 DEF Running
  <2>15. Closed(m, R, h, frames, g, e)
    BY <2>1, <2>14 DEF Closed, s, next, f, outer, child, x
  <2>16. c = Copying(g, s, "OK", NULL)
    BY <1>11, <1>14 DEF g
  <2> QED BY <2>15, <2>16 DEF s, next, f, outer
<1> QED BY <1>13, <1>14

\* The copy of n has what n has, as far as its entries go.
CopyOf(m, h, img, n) ==
  LET old  == m.node[n]
      copy == h.node[img[n]]
  IN  /\ copy.type = old.type /\ copy.i = old.i /\ copy.bytes = old.bytes
      /\ Len(copy.entries) <= Len(old.entries)
      /\ \A k \in 1..Len(copy.entries) :
           /\ old.entries[k].value \in DOMAIN img
           /\ copy.entries[k].value = img[old.entries[k].value]
           /\ old.type = "DICT" => copy.entries[k].key = old.entries[k].key

\* Everything on h that is not on m is the copy of one node of v's tree.
ImageOf(m, v, h, img) ==
  /\ img \in [DOMAIN img -> DOMAIN h.node \ DOMAIN m.node]
  /\ v \in DOMAIN img /\ DOMAIN img \subseteq Tree(m, v)
  /\ \A n1, n2 \in DOMAIN img : img[n1] = img[n2] => n1 = n2
  /\ \A x \in DOMAIN h.node \ DOMAIN m.node : \E n \in DOMAIN img : img[n] = x
  /\ \A n \in DOMAIN img : CopyOf(m, h, img, n)

\* The frames are the copies that lack entries, each inside the one before it;
\* and what has been copied has been come to by an entry.
Following(m, v, h, frames, img) ==
  /\ \A i \in DOMAIN frames :
       /\ frames[i].of \in DOMAIN img /\ img[frames[i].of] = frames[i].copy
       /\ frames[i].next = Len(h.node[frames[i].copy].entries) + 1
  /\ \A i, j \in DOMAIN frames : j = i + 1 =>
       /\ frames[i].next \in DOMAIN m.node[frames[i].of].entries
       /\ m.node[frames[i].of].entries[frames[i].next].value = frames[j].of
  /\ \A n \in DOMAIN img : (\A i \in DOMAIN frames : frames[i].of # n) =>
       Len(h.node[img[n]].entries) = Len(m.node[n].entries)
  /\ \A n \in DOMAIN img \ {v} : \E p \in DOMAIN img : \E k \in DOMAIN m.node[p].entries :
       /\ m.node[p].entries[k].value = n
       /\ \/ k <= Len(h.node[img[p]].entries)
          \/ \E i, j \in DOMAIN frames : j = i + 1 /\ frames[i].of = p /\ frames[j].of = n
  /\ 1 \in DOMAIN frames => frames[1].of = v

\* The innermost call comes to an entry of value w.
ComesTo(m, frames, w) ==
  LET f == Last(frames)
  IN  f.next \in DOMAIN m.node[f.of].entries /\ m.node[f.of].entries[f.next].value = w

\* What it comes to is in the tree, and was not copied yet.
LEMMA ComesToNew ==
  ASSUME NEW m, NEW R, ForestOf(m, R), NEW v \in DOMAIN m.node, NEW h, NEW frames,
         Running(m, R, h, frames), frames # <<>>,
         NEW img, ImageOf(m, v, h, img), Following(m, v, h, frames, img),
         NEW w, ComesTo(m, frames, w)
  PROVE  w \in Tree(m, v) /\ w \in DOMAIN m.node /\ w # v /\ w \notin DOMAIN img
<1> DEFINE f == Last(frames)
           len == Len(frames)
<1>1. f = frames[len] /\ len \in DOMAIN frames /\ DOMAIN frames = 1..len /\ len \in Nat
  <2>1. frames \in Seq(FrameType)
    BY DEF Running
  <2>2. len \in Nat \ {0} /\ DOMAIN frames = 1..len /\ f = frames[len]
    BY <2>1, FrontFacts
  <2> HIDE DEF len, f
  <2> QED BY <2>2
<1>2. /\ f.of \in DOMAIN img /\ img[f.of] = f.copy
      /\ f.next = Len(h.node[f.copy].entries) + 1
  BY <1>1 DEF Following
<1>3. Trees(m) /\ HeapType(m) /\ OneParent(m)
  BY ForestFacts DEF ForestOf
<1>4. f.of \in Tree(m, v) /\ f.of \in DOMAIN m.node
  <2>1. f.of \in Tree(m, v)
    BY <1>2 DEF ImageOf
  <2> QED BY <1>3, <2>1, TreeHolds
<1>5. f.next \in DOMAIN m.node[f.of].entries /\ m.node[f.of].entries[f.next].value = w
  BY DEF ComesTo
<1>6. w \in Children(m, f.of)
  BY <1>4, <1>5 DEF Children
<1> HIDE DEF f, len
<1>7. w \in Tree(m, v) /\ w \in DOMAIN m.node
  BY <1>3, <1>4, <1>6, TreeHolds, ForestFacts
<1>8. w # v
  BY <1>3, <1>4, <1>6, NotBelowItself
<1>9. ASSUME w \in DOMAIN img PROVE FALSE
  <2>1. PICK p \in DOMAIN img : \E k \in DOMAIN m.node[p].entries :
          /\ m.node[p].entries[k].value = w
          /\ \/ k <= Len(h.node[img[p]].entries)
             \/ \E i, j \in DOMAIN frames : j = i + 1 /\ frames[i].of = p /\ frames[j].of = w
    BY <1>8, <1>9 DEF Following
  <2> PICK k \in DOMAIN m.node[p].entries :
          /\ m.node[p].entries[k].value = w
          /\ \/ k <= Len(h.node[img[p]].entries)
             \/ \E i, j \in DOMAIN frames : j = i + 1 /\ frames[i].of = p /\ frames[j].of = w
    BY <2>1
  <2>2. p \in DOMAIN m.node
    BY <1>3, TreeHolds DEF ImageOf
  <2>3. p = f.of /\ k = f.next
    BY <1>3, <1>4, <1>5, <2>2 DEF OneParent
  <2>4. CASE k <= Len(h.node[img[p]].entries)
    <3>1. h.node[f.copy].entries = h.node[img[p]].entries
      BY <1>2, <2>3
    <3>2. Len(h.node[img[p]].entries) \in Nat
      <4>1. HeapType(h) /\ img[p] \in DOMAIN h.node
        BY ForestFacts DEF ImageOf, Running, ForestOf
      <4> QED BY <4>1, NodeFacts
    <3> DEFINE l == Len(h.node[img[p]].entries)
    <3>3. l \in Nat /\ k <= l /\ k = l + 1
      BY <1>2, <2>3, <2>4, <3>1, <3>2
    <3> HIDE DEF l
    <3> QED BY <3>3
  <2>5. CASE \E i, j \in DOMAIN frames : j = i + 1 /\ frames[i].of = p /\ frames[j].of = w
    <3>1. PICK i \in DOMAIN frames : i + 1 \in DOMAIN frames /\ frames[i].of = p
      BY <2>5
    <3>2. frames[i].copy = frames[len].copy
      <4>1. img[frames[i].of] = frames[i].copy /\ img[frames[len].of] = frames[len].copy
        BY <1>1 DEF Following
      <4> QED BY <1>1, <2>3, <3>1, <4>1
    <3>3. i = len
      BY <1>1, <3>1, <3>2 DEF Running
    <3> QED BY <1>1, <3>1, <3>3
  <2> QED BY <2>4, <2>5
<1> QED BY <1>7, <1>8, <1>9

LEMMA ImageEntered ==
  ASSUME NEW m, NEW R, ForestOf(m, R), NEW v \in DOMAIN m.node, NEW h, NEW frames,
         Running(m, R, h, frames), frames # <<>>,
         NEW img, ImageOf(m, v, h, img), Following(m, v, h, frames, img),
         NEW w, ComesTo(m, frames, w), NEW x, NEW g, Entered(m, R, h, frames, w, x, g)
  PROVE  \E img2 : ImageOf(m, v, g, img2) /\ Following(m, v, g, Append(frames, Frame(w, x, 1)), img2)
<1> DEFINE S == DOMAIN img
           img2 == [n \in S \cup {w} |-> IF n = w THEN x ELSE img[n]]
           len == Len(frames)
           s == Append(frames, Frame(w, x, 1))
<1>1. w \in Tree(m, v) /\ w \in DOMAIN m.node /\ w # v /\ w \notin S
  BY ComesToNew
<1>2. /\ x \notin DOMAIN h.node /\ DOMAIN g.node = DOMAIN h.node \cup {x}
      /\ \A n \in DOMAIN h.node : g.node[n] = h.node[n]
      /\ g.node[x].type = m.node[w].type /\ g.node[x].i = m.node[w].i
      /\ g.node[x].bytes = m.node[w].bytes /\ g.node[x].entries = <<>>
  BY DEF Entered
<1>3. x \notin DOMAIN m.node
  BY <1>2 DEF Running, Grown
<1>4. /\ len \in Nat \ {0} /\ DOMAIN frames = 1..len /\ DOMAIN s = 1..(len + 1)
      /\ \A i \in 1..len : s[i] = frames[i]
      /\ s[len + 1].of = w /\ s[len + 1].copy = x /\ s[len + 1].next = 1
      /\ Last(frames) = frames[len]
  <2>1. frames \in Seq(FrameType)
    BY DEF Running
  <2>2. len \in Nat \ {0} /\ DOMAIN frames = 1..len /\ Last(frames) = frames[len]
    BY <2>1, FrontFacts
  <2>3. s = Append(frames, Frame(w, x, 1)) /\ s \in Seq(FrameType)
    BY DEF Entered, Running
  <2>4. DOMAIN s = 1..(len + 1) /\ s[len + 1] = Frame(w, x, 1) /\ \A i \in 1..len : s[i] = frames[i]
    BY <2>1, <2>2
  <2>5. Frame(w, x, 1).of = w /\ Frame(w, x, 1).copy = x /\ Frame(w, x, 1).next = 1
    BY DEF Frame
  <2> HIDE DEF s, len
  <2> QED BY <2>2, <2>4, <2>5
<1> HIDE DEF s, len
<1>5. /\ img \in [S -> DOMAIN h.node \ DOMAIN m.node] /\ v \in S /\ S \subseteq Tree(m, v)
      /\ \A n1, n2 \in S : img[n1] = img[n2] => n1 = n2
      /\ \A y \in DOMAIN h.node \ DOMAIN m.node : \E n \in S : img[n] = y
      /\ \A n \in S : CopyOf(m, h, img, n)
  BY DEF ImageOf
<1>6. /\ DOMAIN img2 = S \cup {w} /\ img2[w] = x
      /\ \A n \in S : img2[n] = img[n] /\ img[n] \in DOMAIN h.node /\ g.node[img[n]] = h.node[img[n]]
  BY <1>1, <1>2, <1>5
<1>7. img2 \in [DOMAIN img2 -> DOMAIN g.node \ DOMAIN m.node]
  BY <1>2, <1>3, <1>5
<1> HIDE DEF img2, S
<1>8. \A n1, n2 \in DOMAIN img2 : img2[n1] = img2[n2] => n1 = n2
  BY <1>2, <1>5, <1>6
<1>9. \A y \in DOMAIN g.node \ DOMAIN m.node : \E n \in DOMAIN img2 : img2[n] = y
  BY <1>2, <1>5, <1>6
<1>10. Len(g.node[x].entries) = 0 /\ \A n \in S : Len(g.node[img2[n]].entries) = Len(h.node[img[n]].entries)
  BY <1>2, <1>6
<1>11. ASSUME NEW n \in DOMAIN img2 PROVE CopyOf(m, g, img2, n)
  <2>1. CASE n \in S
    <3>1. CopyOf(m, h, img, n) /\ g.node[img2[n]] = h.node[img[n]]
      BY <1>5, <1>6, <2>1
    <3> DEFINE old == m.node[n]
               copy == h.node[img[n]]
    <3>2. \A k \in 1..Len(copy.entries) :
            /\ old.entries[k].value \in DOMAIN img2
            /\ copy.entries[k].value = img2[old.entries[k].value]
            /\ old.type = "DICT" => copy.entries[k].key = old.entries[k].key
      BY <1>6, <3>1 DEF CopyOf, S
    <3>3. /\ copy.type = old.type /\ copy.i = old.i /\ copy.bytes = old.bytes
          /\ Len(copy.entries) <= Len(old.entries)
      BY <3>1 DEF CopyOf
    <3> QED BY <3>1, <3>2, <3>3 DEF CopyOf
  <2>2. CASE n = w
    <3>1. Len(m.node[w].entries) \in Nat
      BY <1>1, ForestFacts, NodeFacts DEF ForestOf
    <3> QED BY <1>2, <1>6, <1>10, <2>2, <3>1 DEF CopyOf
  <2> QED BY <1>6, <2>1, <2>2
<1>12. ImageOf(m, v, g, img2)
  <2>1. v \in DOMAIN img2 /\ DOMAIN img2 \subseteq Tree(m, v)
    BY <1>1, <1>5, <1>6
  <2> QED BY <1>7, <1>8, <1>9, <1>11, <2>1 DEF ImageOf
<1>13. \A i \in 1..(len + 1) : i \in 1..len \/ i = len + 1
  BY <1>4
<1>14. ASSUME NEW i \in DOMAIN s
       PROVE  /\ s[i].of \in DOMAIN img2 /\ img2[s[i].of] = s[i].copy
              /\ s[i].next = Len(g.node[s[i].copy].entries) + 1
  <2>1. CASE i \in 1..len
    <3>1. /\ frames[i].of \in S /\ img[frames[i].of] = frames[i].copy
          /\ frames[i].next = Len(h.node[frames[i].copy].entries) + 1
      BY <1>4, <2>1 DEF Following, S
    <3> DEFINE n == frames[i].of
    <3>2. n \in S /\ img[n] = frames[i].copy
      BY <3>1
    <3>3. n \in DOMAIN img2 /\ img2[n] = img[n] /\ g.node[img[n]] = h.node[img[n]]
      BY <1>6, <3>2
    <3>4. s[i] = frames[i]
      BY <1>4, <2>1
    <3> HIDE DEF n
    <3>5. frames[i].of = n
      BY DEF n
    <3> QED BY <3>1, <3>2, <3>3, <3>4, <3>5
  <2>2. CASE i = len + 1
    BY <1>4, <1>6, <1>10, <2>2
  <2> QED BY <1>4, <1>13, <2>1, <2>2
<1>15. ASSUME NEW i \in DOMAIN s, i + 1 \in DOMAIN s
       PROVE  /\ s[i].next \in DOMAIN m.node[s[i].of].entries
              /\ m.node[s[i].of].entries[s[i].next].value = s[i + 1].of
  <2>1. CASE i \in 1..len /\ i + 1 \in 1..len
    BY <1>4, <2>1 DEF Following
  <2>2. CASE i = len
    BY <1>4, <2>2 DEF ComesTo
  <2>3. i = len \/ (i \in 1..len /\ i + 1 \in 1..len)
    BY <1>4, <1>15
  <2> QED BY <2>1, <2>2, <2>3
<1>16. ASSUME NEW n \in DOMAIN img2, \A i \in DOMAIN s : s[i].of # n
       PROVE  Len(g.node[img2[n]].entries) = Len(m.node[n].entries)
  <2>1. len + 1 \in DOMAIN s /\ \A i \in 1..len : i \in DOMAIN s
    BY <1>4
  <2>2. n \in S /\ \A i \in DOMAIN frames : frames[i].of # n
    BY <1>4, <1>6, <1>16, <2>1
  <2> QED BY <1>10, <2>2 DEF Following, S
<1>17. ASSUME NEW n \in DOMAIN img2 \ {v}
       PROVE  \E p \in DOMAIN img2 : \E k \in DOMAIN m.node[p].entries :
                /\ m.node[p].entries[k].value = n
                /\ \/ k <= Len(g.node[img2[p]].entries)
                   \/ \E i, j \in DOMAIN s : j = i + 1 /\ s[i].of = p /\ s[j].of = n
  <2>0. \A i \in 1..len : i \in DOMAIN s
    BY <1>4
  <2>1. CASE n \in S
    <3>0. PICK p \in S : \E k \in DOMAIN m.node[p].entries :
            /\ m.node[p].entries[k].value = n
            /\ \/ k <= Len(h.node[img[p]].entries)
               \/ \E i, j \in DOMAIN frames : j = i + 1 /\ frames[i].of = p /\ frames[j].of = n
      BY <2>1 DEF Following, S
    <3>1. PICK k \in DOMAIN m.node[p].entries :
            /\ m.node[p].entries[k].value = n
            /\ \/ k <= Len(h.node[img[p]].entries)
               \/ \E i, j \in DOMAIN frames : j = i + 1 /\ frames[i].of = p /\ frames[j].of = n
      BY <3>0
    <3>2. p \in DOMAIN img2
      BY <1>6
    <3>3. k <= Len(h.node[img[p]].entries) => k <= Len(g.node[img2[p]].entries)
      BY <1>10
    <3>4. (\E i, j \in DOMAIN frames : j = i + 1 /\ frames[i].of = p /\ frames[j].of = n) =>
            \E i, j \in DOMAIN s : j = i + 1 /\ s[i].of = p /\ s[j].of = n
      BY <1>4, <2>0
    <3> QED BY <3>1, <3>2, <3>3, <3>4
  <2>2. CASE n = w
    <3> DEFINE p == frames[len].of
               k == frames[len].next
    <3>1. len \in DOMAIN frames /\ len \in DOMAIN s /\ len + 1 \in DOMAIN s
      BY <1>4
    <3>2. p \in S /\ k \in DOMAIN m.node[p].entries /\ m.node[p].entries[k].value = w
      BY <1>4, <3>1 DEF Following, ComesTo, S
    <3>3. s[len].of = p /\ s[len + 1].of = w
      BY <1>4
    <3> QED BY <1>6, <2>2, <3>1, <3>2, <3>3
  <2> QED BY <1>6, <2>1, <2>2
<1>18. 1 \in DOMAIN s => s[1].of = v
  BY <1>4 DEF Following
<1>19. Following(m, v, g, s, img2)
  BY <1>14, <1>15, <1>16, <1>17, <1>18 DEF Following
<1> QED BY <1>12, <1>19 DEF s

LEMMA ImageStarted ==
  ASSUME NEW m, NEW R, ForestOf(m, R), NEW v \in DOMAIN m.node,
         NEW x, NEW g, Entered(m, R, m, <<>>, v, x, g)
  PROVE  \E img : ImageOf(m, v, g, img) /\ Following(m, v, g, Append(<<>>, Frame(v, x, 1)), img)
<1> DEFINE img == [n \in {v} |-> x]
           s == Append(<<>>, Frame(v, x, 1))
<1>1. /\ x \notin DOMAIN m.node /\ DOMAIN g.node = DOMAIN m.node \cup {x}
      /\ g.node[x].type = m.node[v].type /\ g.node[x].i = m.node[v].i
      /\ g.node[x].bytes = m.node[v].bytes /\ g.node[x].entries = <<>>
  BY DEF Entered
<1>2. DOMAIN s = {1} /\ s[1].of = v /\ s[1].copy = x /\ s[1].next = 1
  <2>1. s = <<Frame(v, x, 1)>>
    OBVIOUS
  <2>2. Frame(v, x, 1).of = v /\ Frame(v, x, 1).copy = x /\ Frame(v, x, 1).next = 1
    BY DEF Frame
  <2> QED BY <2>1, <2>2
<1>3. DOMAIN img = {v} /\ img[v] = x
  OBVIOUS
<1>4. Len(g.node[x].entries) = 0
  BY <1>1
<1>5. CopyOf(m, g, img, v)
  <2>1. Len(m.node[v].entries) \in Nat
    BY ForestFacts, NodeFacts DEF ForestOf
  <2> QED BY <1>1, <1>3, <1>4, <2>1 DEF CopyOf
<1>6. v \in Tree(m, v)
  BY TreeHolds DEF ForestOf
<1>7. ImageOf(m, v, g, img)
  <2>1. img \in [{v} -> DOMAIN g.node \ DOMAIN m.node]
    BY <1>1
  <2> HIDE DEF img
  <2> QED BY <1>1, <1>3, <1>5, <1>6, <2>1 DEF ImageOf
<1> HIDE DEF img, s
<1>8. Following(m, v, g, s, img)
  BY <1>2, <1>3, <1>4 DEF Following
<1> QED BY <1>7, <1>8 DEF s

\* The innermost two calls.
LEMMA LastTwo ==
  ASSUME NEW m, NEW R, NEW h, NEW frames, Running(m, R, h, frames),
         frames # <<>>, Front(frames) # <<>>
  PROVE  LET len   == Len(frames)
             outer == Front(frames)
             f     == Last(outer)
             s     == Append(Front(outer), Frame(f.of, f.copy, f.next + 1))
         IN  /\ len \in Nat /\ len - 1 \in 1..len /\ DOMAIN frames = 1..len
             /\ Last(frames) = frames[len] /\ f = frames[len - 1]
             /\ f \in FrameType /\ Last(frames) \in FrameType
             /\ DOMAIN s = 1..(len - 1) /\ \A i \in 1..(len - 2) : s[i] = frames[i]
             /\ s[len - 1].of = f.of /\ s[len - 1].copy = f.copy /\ s[len - 1].next = f.next + 1
<1> DEFINE len == Len(frames)
           outer == Front(frames)
           f == Last(outer)
           next == Frame(f.of, f.copy, f.next + 1)
           t == Front(outer)
           s == Append(t, next)
<1>1. frames \in Seq(FrameType)
  BY DEF Running
<1>2. /\ len \in Nat \ {0} /\ DOMAIN frames = 1..len
      /\ outer \in Seq(FrameType) /\ Len(outer) = len - 1
      /\ \A i \in 1..(len - 1) : outer[i] = frames[i]
      /\ Last(frames) = frames[len] /\ Last(frames) \in FrameType
  BY <1>1, FrontFacts
<1> HIDE DEF len
<1>3. /\ Len(outer) \in Nat \ {0} /\ t \in Seq(FrameType) /\ Len(t) = Len(outer) - 1
      /\ \A i \in 1..(Len(outer) - 1) : t[i] = outer[i]
      /\ f = outer[Len(outer)] /\ f \in FrameType
  BY <1>2, FrontFacts
<1> HIDE DEF outer, f, t
<1>4. /\ len - 1 \in Nat \ {0} /\ Len(t) = len - 2 /\ (len - 2) + 1 = len - 1
      /\ f = frames[len - 1] /\ \A i \in 1..(len - 2) : t[i] = frames[i]
  <2>1. len - 1 \in Nat \ {0} /\ (len - 1) - 1 = len - 2 /\ (len - 2) + 1 = len - 1
    BY <1>2, <1>3
  <2>2. len - 1 \in 1..(len - 1) /\ \A i \in 1..(len - 2) : i \in 1..(len - 1)
    BY <1>2, <2>1
  <2> QED BY <1>2, <1>3, <2>1, <2>2
<1>5. next \in FrameType /\ next.of = f.of /\ next.copy = f.copy /\ next.next = f.next + 1
  BY <1>3 DEF Frame, FrameType
<1> HIDE DEF next
<1>6. /\ DOMAIN s = 1..((len - 2) + 1) /\ s[(len - 2) + 1] = next /\ \A i \in 1..(len - 2) : s[i] = t[i]
  BY <1>3, <1>4, <1>5, AppendFacts
<1>7. DOMAIN s = 1..(len - 1) /\ s[len - 1] = next /\ \A i \in 1..(len - 2) : s[i] = frames[i]
  BY <1>4, <1>6
<1>8. len \in Nat /\ len - 1 \in 1..len
  BY <1>2, <1>4
<1> QED BY <1>2, <1>3, <1>4, <1>5, <1>7, <1>8 DEF len, outer, f, t, next

LEMMA EntryComesNext ==
  ASSUME NEW m, NEW R, ForestOf(m, R), WellMade(m), NEW v \in DOMAIN m.node, NEW h, NEW frames,
         Running(m, R, h, frames), frames # <<>>, Front(frames) # <<>>,
         NEW img, ImageOf(m, v, h, img), Following(m, v, h, frames, img)
  PROVE  ComesNext(m, h, Last(Front(frames)))
<1> DEFINE f == Last(Front(frames))
           len == Len(frames)
           old == m.node[f.of]
           copy == h.node[f.copy]
<1>1. f = frames[len - 1] /\ len \in Nat /\ len - 1 \in 1..len /\ DOMAIN frames = 1..len
  BY LastTwo
<1>2. len = (len - 1) + 1 /\ len \in 1..len
  BY <1>1
<1> HIDE DEF f, len
<1>3. /\ f.of \in DOMAIN img /\ img[f.of] = f.copy /\ f.next = Len(copy.entries) + 1
      /\ f.next \in DOMAIN old.entries
  BY <1>1, <1>2 DEF Following
<1>4. f.of \in DOMAIN m.node /\ CopyOf(m, h, img, f.of)
  BY <1>3, TreeHolds DEF ImageOf, ForestOf
<1>5. HeapType(m) /\ Ordered(m) /\ HeapType(h) /\ f.copy \in DOMAIN h.node
  BY <1>1, <1>3, ForestFacts DEF ForestOf, Running, ImageOf
<1>6. /\ old \in NodeType /\ DOMAIN old.entries = 1..Len(old.entries) /\ Len(old.entries) \in Nat
      /\ DOMAIN copy.entries = 1..Len(copy.entries) /\ Len(copy.entries) \in Nat
  BY <1>4, <1>5, NodeFacts
<1>7. copy.type = old.type /\ \A k \in 1..Len(copy.entries) : old.type = "DICT" => copy.entries[k].key = old.entries[k].key
  BY <1>3, <1>4 DEF CopyOf
<1>8. copy.type \in {"LIST", "DICT"}
  <2>1. old.type \in {"INT", "STRING", "LIST", "DICT"}
    BY <1>6 DEF NodeType
  <2>2. old.type \in {"INT", "STRING"} => old.entries = <<>>
    BY <1>4 DEF WellMade, Plain
  <2>3. old.entries # <<>>
    BY <1>3, <1>6
  <2> QED BY <1>7, <2>1, <2>2, <2>3
<1>9. ASSUME copy.type = "DICT", NEW k \in DOMAIN copy.entries
      PROVE  KeyBefore(copy.entries[k].key, old.entries[f.next].key)
  <2>1. Sorted(old.entries)
    BY <1>4, <1>5, <1>7, <1>9 DEF Ordered
  <2>2. k \in 1..Len(copy.entries) /\ k < f.next /\ k \in DOMAIN old.entries
    <3> HIDE DEF old, copy
    <3> DEFINE a == Len(copy.entries)
               b == Len(old.entries)
               j == f.next
    <3>1. a \in Nat /\ b \in Nat /\ j = a + 1 /\ j \in 1..b /\ k \in 1..a
      BY <1>3, <1>6, <1>9
    <3> HIDE DEF a, b, j
    <3>2. k \in 1..a /\ k < j /\ k \in 1..b
      BY <3>1
    <3> QED BY <1>6, <3>2 DEF a, b, j
  <2>3. copy.entries[k].key = old.entries[k].key
    BY <1>7, <1>9, <2>2
  <2> QED BY <1>3, <2>1, <2>2, <2>3 DEF Sorted
<1>10. ComesNext(m, h, f)
  BY <1>3, <1>8, <1>9 DEF ComesNext
<1> QED BY <1>10 DEF f

\* The image is the same when the innermost call returns its copy.
LEMMA ImageClosed ==
  ASSUME NEW m, NEW R, ForestOf(m, R), NEW v \in DOMAIN m.node, NEW h, NEW frames,
         Running(m, R, h, frames), frames # <<>>, Front(frames) # <<>>,
         Last(frames).next \notin DOMAIN m.node[Last(frames).of].entries,
         NEW img, ImageOf(m, v, h, img), Following(m, v, h, frames, img),
         NEW g, NEW e, Closed(m, R, h, frames, g, e)
  PROVE  LET f == Last(Front(frames))
             s == Append(Front(Front(frames)), Frame(f.of, f.copy, f.next + 1))
         IN  ImageOf(m, v, g, img) /\ Following(m, v, g, s, img)
<1> DEFINE f == Last(Front(frames))
           s == Append(Front(Front(frames)), Frame(f.of, f.copy, f.next + 1))
           child == Last(frames)
           len == Len(frames)
           old == m.node[f.of]
           copy == h.node[f.copy]
           more == g.node[f.copy]
           S == DOMAIN img
           a == Len(copy.entries)
           b == Len(old.entries)
<1>1. /\ len \in Nat /\ len - 1 \in 1..len /\ DOMAIN frames = 1..len
      /\ child = frames[len] /\ f = frames[len - 1]
      /\ DOMAIN s = 1..(len - 1) /\ \A i \in 1..(len - 2) : s[i] = frames[i]
      /\ s[len - 1].of = f.of /\ s[len - 1].copy = f.copy /\ s[len - 1].next = f.next + 1
  BY LastTwo
<1>2. /\ Closed(m, R, h, frames, g, e)
      /\ DOMAIN g.node = DOMAIN h.node
      /\ \A n \in DOMAIN h.node \ {f.copy} : g.node[n] = h.node[n]
      /\ more.type = copy.type /\ more.i = copy.i /\ more.bytes = copy.bytes
      /\ more.entries = InsertAt(copy.entries, a + 1, e)
      /\ e \in EntryType /\ e.value = child.copy
      /\ copy.type = "DICT" => e.key = old.entries[f.next].key
  BY DEF Closed, Inserted, OneMore
<1> HIDE DEF f, s, child, len, S
<1>3. /\ (len - 1) + 1 = len /\ len \in 1..len /\ len - 1 \in 1..(len - 1)
      /\ \A i \in 1..(len - 1) : i \in 1..len /\ i # len /\ (i = len - 1 \/ i \in 1..(len - 2))
      /\ \A i \in 1..len : i = len \/ i \in 1..(len - 1)
      /\ \A i \in 1..(len - 2) : i \in 1..(len - 1) /\ i # len - 1 /\ i + 1 \in 1..(len - 1)
  BY <1>1
<1>4. \A i \in 1..(len - 1) : s[i].of = frames[i].of /\ s[i].copy = frames[i].copy
  BY <1>1, <1>3
<1>5. /\ \A i \in 1..len : /\ frames[i].of \in S /\ img[frames[i].of] = frames[i].copy
                           /\ frames[i].next = Len(h.node[frames[i].copy].entries) + 1
      /\ f.next \in DOMAIN old.entries /\ old.entries[f.next].value = child.of
  <2>1. \A i \in DOMAIN frames :
          /\ frames[i].of \in S /\ img[frames[i].of] = frames[i].copy
          /\ frames[i].next = Len(h.node[frames[i].copy].entries) + 1
    BY DEF Following, S
  <2>2. \A i, j \in DOMAIN frames : j = i + 1 =>
          /\ frames[i].next \in DOMAIN m.node[frames[i].of].entries
          /\ m.node[frames[i].of].entries[frames[i].next].value = frames[j].of
    BY DEF Following
  <2>3. len - 1 \in DOMAIN frames /\ len \in DOMAIN frames /\ len = (len - 1) + 1
    BY <1>1, <1>3
  <2>4. /\ frames[len - 1].next \in DOMAIN m.node[frames[len - 1].of].entries
        /\ m.node[frames[len - 1].of].entries[frames[len - 1].next].value = frames[len].of
    BY <2>2, <2>3
  <2> QED BY <1>1, <2>1, <2>4
<1>6. /\ img \in [S -> DOMAIN h.node \ DOMAIN m.node] /\ v \in S /\ S \subseteq Tree(m, v)
      /\ \A n1, n2 \in S : img[n1] = img[n2] => n1 = n2
      /\ \A x \in DOMAIN h.node \ DOMAIN m.node : \E n \in S : img[n] = x
      /\ \A n \in S : CopyOf(m, h, img, n)
  BY DEF ImageOf, S
<1>7. /\ f.of \in S /\ img[f.of] = f.copy /\ f.next = a + 1
      /\ child.of \in S /\ img[child.of] = child.copy /\ f.copy \in DOMAIN h.node
      /\ \A n \in S : img[n] \in DOMAIN h.node
  BY <1>1, <1>3, <1>5, <1>6
<1>8. HeapType(m) /\ HeapType(h) /\ OneParent(m) /\ S \subseteq DOMAIN m.node
  BY <1>6, ForestFacts, TreeHolds DEF ForestOf, Running
<1>9. /\ a \in Nat /\ b \in Nat /\ DOMAIN copy.entries = 1..a /\ DOMAIN old.entries = 1..b
      /\ copy.entries \in Seq(EntryType)
  BY <1>7, <1>8, NodeFacts
<1> HIDE DEF a, b, old, copy, more
<1>10. a + 1 \in 1..(a + 1) /\ a + 1 <= b /\ \A k \in 1..(a + 1) : k = a + 1 \/ (k \in 1..a /\ k < a + 1)
  BY <1>5, <1>7, <1>9
<1>11. /\ Len(more.entries) = a + 1 /\ more.entries[a + 1] = e
       /\ \A k \in 1..a : more.entries[k] = copy.entries[k]
  <2>1. a = Len(copy.entries)
    BY DEF a
  <2>2. /\ Len(InsertAt(copy.entries, a + 1, e)) = a + 1
        /\ InsertAt(copy.entries, a + 1, e)[a + 1] = e
        /\ \A k \in 1..a : k < a + 1 => InsertAt(copy.entries, a + 1, e)[k] = copy.entries[k]
    <3>1. copy.entries \in Seq(EntryType) /\ e \in EntryType /\ a + 1 \in 1..(Len(copy.entries) + 1)
      BY <1>2, <1>9, <1>10, <2>1
    <3>2. Insertion(copy.entries, a + 1, e)
      BY <3>1, InsertionMade
    <3> QED BY <2>1, <3>2 DEF Insertion
  <2>3. \A k \in 1..a : k < a + 1
    BY <1>9
  <2> QED BY <1>2, <2>2, <2>3
<1>12. \A n \in S : img[n] = f.copy => n = f.of
  BY <1>6, <1>7
<1>13. \A n \in S : n # f.of => g.node[img[n]] = h.node[img[n]]
  BY <1>2, <1>7, <1>12
<1>14. ASSUME NEW n \in S, n # f.of PROVE CopyOf(m, g, img, n)
  <2>1. CopyOf(m, h, img, n)
    BY <1>6
  <2>2. g.node[img[n]] = h.node[img[n]]
    BY <1>13, <1>14
  <2> QED BY <2>1, <2>2 DEF CopyOf
<1>15. CopyOf(m, g, img, f.of)
  <2>1. /\ copy.type = old.type /\ copy.i = old.i /\ copy.bytes = old.bytes
        /\ \A k \in 1..a : /\ old.entries[k].value \in S
                           /\ copy.entries[k].value = img[old.entries[k].value]
                           /\ old.type = "DICT" => copy.entries[k].key = old.entries[k].key
    <3> DEFINE n == f.of
    <3>1. CopyOf(m, h, img, n) /\ img[n] = f.copy /\ old = m.node[n]
      BY <1>6, <1>7 DEF old
    <3> HIDE DEF n
    <3>2. copy = h.node[img[n]] /\ a = Len(copy.entries)
      BY <3>1 DEF copy, a
    <3> QED BY <3>1, <3>2 DEF CopyOf, S
  <2>2. /\ more.type = old.type /\ more.i = old.i /\ more.bytes = old.bytes
        /\ Len(more.entries) <= b
    BY <1>2, <1>10, <1>11, <2>1
  <2>3. ASSUME NEW k \in 1..Len(more.entries)
        PROVE  /\ old.entries[k].value \in S /\ more.entries[k].value = img[old.entries[k].value]
               /\ old.type = "DICT" => more.entries[k].key = old.entries[k].key
    <3>1. CASE k \in 1..a
      BY <1>11, <2>1, <3>1
    <3>2. CASE k = a + 1
      BY <1>2, <1>5, <1>7, <1>11, <2>1, <3>2
    <3> QED BY <1>10, <1>11, <3>1, <3>2
  <2>4. old = m.node[f.of] /\ more = g.node[img[f.of]] /\ b = Len(old.entries)
    BY <1>7 DEF old, more, b
  <2> QED BY <2>2, <2>3, <2>4 DEF CopyOf, S
<1>16. ImageOf(m, v, g, img)
  BY <1>2, <1>6, <1>14, <1>15 DEF ImageOf, S
<1>17. ASSUME NEW i \in DOMAIN s
       PROVE  /\ s[i].of \in DOMAIN img /\ img[s[i].of] = s[i].copy
              /\ s[i].next = Len(g.node[s[i].copy].entries) + 1
  <2>1. s[i].of \in S /\ img[s[i].of] = s[i].copy
    BY <1>1, <1>3, <1>4, <1>5
  <2>2. CASE i = len - 1
    <3>1. Len(g.node[f.copy].entries) = a + 1
      BY <1>11 DEF more
    <3> QED BY <1>1, <1>7, <2>1, <2>2, <3>1 DEF S
  <2>3. CASE i \in 1..(len - 2)
    <3>1. frames[i].copy # frames[len - 1].copy
      BY <1>1, <1>3, <2>3 DEF Running
    <3>2. frames[i].of # f.of /\ frames[i].of \in S /\ img[frames[i].of] = frames[i].copy
      BY <1>1, <1>3, <1>5, <1>7, <2>3, <3>1
    <3>3. g.node[frames[i].copy] = h.node[frames[i].copy]
      BY <1>13, <3>2
    <3>4. i \in 1..len /\ s[i] = frames[i]
      BY <1>1, <1>3, <2>3
    <3> QED BY <1>5, <2>1, <3>3, <3>4 DEF S
  <2> QED BY <1>1, <1>3, <2>1, <2>2, <2>3 DEF S
<1>18. ASSUME NEW i \in DOMAIN s, i + 1 \in DOMAIN s
       PROVE  /\ s[i].next \in DOMAIN m.node[s[i].of].entries
              /\ m.node[s[i].of].entries[s[i].next].value = s[i + 1].of
  <2>1. i \in 1..(len - 2) /\ i \in DOMAIN frames /\ i + 1 \in DOMAIN frames
    BY <1>1, <1>3, <1>18
  <2>2. /\ frames[i].next \in DOMAIN m.node[frames[i].of].entries
        /\ m.node[frames[i].of].entries[frames[i].next].value = frames[i + 1].of
    BY <2>1 DEF Following
  <2> QED BY <1>1, <1>4, <1>18, <2>1, <2>2
<1>19. ASSUME NEW n \in DOMAIN img, \A i \in DOMAIN s : s[i].of # n
       PROVE  Len(g.node[img[n]].entries) = Len(m.node[n].entries)
  <2>1. n # f.of /\ n \in S /\ \A i \in 1..(len - 1) : frames[i].of # n
    BY <1>1, <1>3, <1>4, <1>19 DEF S
  <2>2. g.node[img[n]] = h.node[img[n]]
    BY <1>13, <2>1
  <2>3. CASE n = child.of
    <3> DEFINE c == Len(h.node[img[n]].entries)
               d == Len(m.node[n].entries)
    <3>1. c \in Nat /\ d \in Nat /\ DOMAIN m.node[n].entries = 1..d
      BY <1>7, <1>8, <2>1, NodeFacts
    <3>2. c <= d
      BY <1>6, <2>1 DEF CopyOf
    <3>3. child.next = c + 1 /\ child.next \notin DOMAIN m.node[n].entries
      <4>1. frames[len].of = n /\ frames[len].copy = img[n]
        BY <1>1, <1>7, <2>3
      <4>2. child.next = c + 1
        BY <1>1, <1>3, <1>5, <4>1
      <4>3. child.next \notin DOMAIN m.node[child.of].entries
        BY DEF child
      <4> QED BY <2>3, <4>2, <4>3
    <3> HIDE DEF c, d
    <3>4. c = d
      BY <3>1, <3>2, <3>3
    <3> QED BY <2>2, <3>4 DEF c, d
  <2>4. CASE n # child.of
    <3>1. \A i \in DOMAIN frames : frames[i].of # n
      BY <1>1, <1>3, <2>1, <2>4
    <3> QED BY <2>1, <2>2, <3>1 DEF Following, S
  <2> QED BY <2>3, <2>4
<1>20. ASSUME NEW n \in DOMAIN img \ {v}
       PROVE  \E p \in DOMAIN img : \E k \in DOMAIN m.node[p].entries :
                /\ m.node[p].entries[k].value = n
                /\ \/ k <= Len(g.node[img[p]].entries)
                   \/ \E i, j \in DOMAIN s : j = i + 1 /\ s[i].of = p /\ s[j].of = n
  <2>1. PICK p \in S : \E k \in DOMAIN m.node[p].entries :
          /\ m.node[p].entries[k].value = n
          /\ \/ k <= Len(h.node[img[p]].entries)
             \/ \E i, j \in DOMAIN frames : j = i + 1 /\ frames[i].of = p /\ frames[j].of = n
    BY DEF Following, S
  <2>2. PICK k \in DOMAIN m.node[p].entries :
          /\ m.node[p].entries[k].value = n
          /\ \/ k <= Len(h.node[img[p]].entries)
             \/ \E i, j \in DOMAIN frames : j = i + 1 /\ frames[i].of = p /\ frames[j].of = n
    BY <2>1
  <2>3. CASE k <= Len(h.node[img[p]].entries)
    <3>1. CASE p # f.of
      BY <1>13, <2>2, <2>3, <3>1 DEF S
    <3>2. CASE p = f.of
      <4>1. k \in 1..b /\ k <= a
        BY <1>7, <1>9, <2>3, <3>2 DEF old, copy, a
      <4>2. k <= a + 1
        BY <1>9, <4>1
      <4>3. k <= Len(g.node[img[p]].entries)
        BY <1>7, <1>11, <3>2, <4>2 DEF more
      <4> QED BY <2>2, <4>3 DEF S
    <3> QED BY <3>1, <3>2
  <2>4. CASE \E i, j \in DOMAIN frames : j = i + 1 /\ frames[i].of = p /\ frames[j].of = n
    <3>1. PICK i \in DOMAIN frames : i + 1 \in DOMAIN frames /\ frames[i].of = p /\ frames[i + 1].of = n
      BY <2>4
    <3>2. i \in 1..(len - 1) /\ (i = len - 1 \/ i + 1 \in 1..(len - 1))
      BY <1>1, <3>1
    <3>3. CASE i + 1 \in 1..(len - 1)
      <4>1. i \in DOMAIN s /\ i + 1 \in DOMAIN s /\ s[i].of = p /\ s[i + 1].of = n
        BY <1>1, <1>4, <3>1, <3>2, <3>3
      <4> QED BY <2>2, <4>1 DEF S
    <3>4. CASE i = len - 1
      <4>1. p = f.of /\ n = child.of
        BY <1>1, <1>3, <3>1, <3>4
      <4>2. k = f.next
        BY <1>5, <1>7, <1>8, <2>2, <4>1 DEF OneParent, old
      <4>3. k <= a + 1
        BY <1>7, <1>9, <4>2
      <4>4. k <= Len(g.node[img[p]].entries)
        BY <1>7, <1>11, <4>1, <4>3 DEF more
      <4> QED BY <2>2, <4>4 DEF S
    <3> QED BY <3>2, <3>3, <3>4
  <2> QED BY <2>2, <2>3, <2>4
<1>21. 1 \in DOMAIN s => s[1].of = v
  <2>1. 1 \in DOMAIN s => 1 \in DOMAIN frames /\ s[1].of = frames[1].of
    BY <1>1, <1>3, <1>4
  <2> QED BY <2>1 DEF Following
<1>22. Following(m, v, g, s, img)
  BY <1>17, <1>18, <1>19, <1>20, <1>21 DEF Following
<1> QED BY <1>16, <1>22 DEF f, s

\* The value x is a copy of v and of all that is below it, on the heap g.
CopyIn(m, v, g, x, img) ==
  /\ ImageOf(m, v, g, img) /\ DOMAIN img = Tree(m, v) /\ img[v] = x
  /\ \A n \in DOMAIN img : Len(g.node[img[n]].entries) = Len(m.node[n].entries)

Cloned(m, R, v, g, x) ==
  /\ x # NULL /\ x \in DOMAIN g.node /\ x \notin DOMAIN m.node
  /\ ForestOf(g, R \cup {x}) /\ Grown(m, g)
  /\ \A n \in DOMAIN g.node \ DOMAIN m.node : g.node[n].bytes # <<>> => g.node[n].owned # NULL
  /\ \E img : CopyIn(m, v, g, x, img)

\* The outermost call has copied every entry.
LEMMA CloneCompleted ==
  ASSUME NEW m, NEW R, ForestOf(m, R), NEW v \in DOMAIN m.node, NEW h, NEW frames,
         Running(m, R, h, frames), frames # <<>>, Front(frames) = <<>>,
         Last(frames).next \notin DOMAIN m.node[Last(frames).of].entries,
         NEW img, ImageOf(m, v, h, img), Following(m, v, h, frames, img)
  PROVE  Cloned(m, R, v, h, Last(frames).copy)
<1> DEFINE f == Last(frames)
           S == DOMAIN img
<1>1. DOMAIN frames = {1} /\ frames[1] = f
  <2> DEFINE len == Len(frames)
  <2>1. len \in Nat \ {0} /\ DOMAIN frames = 1..len /\ f = frames[len] /\ Len(Front(frames)) = len - 1
    BY FrontFacts DEF Running
  <2>2. Len(Front(frames)) = 0
    OBVIOUS
  <2> HIDE DEF len, f
  <2>3. len = 1
    BY <2>1, <2>2
  <2> QED BY <2>1, <2>3
<1> HIDE DEF f
<1>2. f.of = v /\ v \in S /\ img[v] = f.copy /\ f.next = Len(h.node[f.copy].entries) + 1
  BY <1>1 DEF Following, S
<1>3. f.copy \notin DOMAIN m.node /\ Copies(frames) = {f.copy}
  BY <1>1 DEF Running, Copies
<1>4. /\ ForestOf(h, R \cup {f.copy}) /\ Grown(m, h)
      /\ \A n \in DOMAIN h.node \ DOMAIN m.node : h.node[n].bytes # <<>> => h.node[n].owned # NULL
  BY <1>3 DEF Running
<1>5. f.copy \in DOMAIN h.node /\ f.copy # NULL
  BY <1>4, ForestFacts DEF ForestOf, Parentless
<1>6. HeapType(m) /\ HeldOnce(m, {}) /\ v \in Nat /\ Trees(m)
  BY ForestFacts DEF ForestOf
<1>7. S \subseteq Tree(m, v) /\ S \subseteq DOMAIN m.node /\ \A n \in S : CopyOf(m, h, img, n)
  BY <1>6, TreeHolds DEF ImageOf, S
<1>8. ASSUME NEW n \in S PROVE Len(h.node[img[n]].entries) = Len(m.node[n].entries)
  <2>1. CASE n # v
    BY <1>1, <1>2, <2>1 DEF Following, S
  <2>2. CASE n = v
    <3> DEFINE c == Len(h.node[img[n]].entries)
               d == Len(m.node[n].entries)
    <3>1. c \in Nat /\ d \in Nat /\ DOMAIN m.node[n].entries = 1..d
      BY <1>2, <1>4, <1>5, <1>6, <1>7, <2>2, ForestFacts, NodeFacts DEF ForestOf
    <3>2. c <= d
      BY <1>7 DEF CopyOf
    <3>3. f.next = c + 1 /\ f.next \notin DOMAIN m.node[n].entries
      BY <1>2, <2>2 DEF f
    <3> HIDE DEF c, d
    <3>4. c = d
      BY <3>1, <3>2, <3>3
    <3> QED BY <3>4 DEF c, d
  <2> QED BY <2>1, <2>2
<1>9. ASSUME NEW n \in S PROVE Children(m, n) \subseteq S
  <2>1. n \in DOMAIN m.node /\ DOMAIN m.node[n].entries = 1..Len(m.node[n].entries)
    BY <1>6, <1>7, NodeFacts
  <2>2. \A k \in 1..Len(h.node[img[n]].entries) : m.node[n].entries[k].value \in S
    BY <1>7 DEF CopyOf, S
  <2> QED BY <1>8, <2>1, <2>2 DEF Children
<1>10. S = Tree(m, v)
  <2> HIDE DEF S
  <2>1. Tree(m, v) \subseteq S
    BY <1>2, <1>6, <1>9, TreeIsLeast
  <2> QED BY <1>7, <2>1
<1>11. CopyIn(m, v, h, f.copy, img)
  BY <1>2, <1>8, <1>10 DEF CopyIn, S
<1> QED BY <1>3, <1>4, <1>5, <1>11 DEF Cloned, f

---------------------------------------------------------------------------
(* A clone, from its first step to its last.                               *)

Sound(L, N) == Heap(L, N, FALSE)

Heaps ==
  { Sound(L, N) : L \in SUBSET (Allocator \X Block),
                N \in UNION { [D -> NodeType] : D \in SUBSET Block } }

CloneStates ==
  { Copying(h, frames, st, p) : h \in Heaps, frames \in Seq(FrameType), st \in {"OK", "NOMEM"}, p \in Nat }

\* At every step it is being made, given up, or complete.
UnderWay(m, R, v, c) ==
  \/ /\ c.status = "OK" /\ c.ptr = NULL /\ c.frames # <<>> /\ Running(m, R, c.mem, c.frames)
     /\ \E img : ImageOf(m, v, c.mem, img) /\ Following(m, v, c.mem, c.frames, img)
  \/ c.status = "NOMEM" /\ c.ptr = NULL /\ Running(m, R, c.mem, c.frames)
  \/ c.status = "OK" /\ c.frames = <<>> /\ Cloned(m, R, v, c.mem, c.ptr)

Steps(m, R, v) == { c \in CloneStates : UnderWay(m, R, v, c) }

LEMMA CopyingFields ==
  \A h, frames, st, p : LET c == Copying(h, frames, st, p)
                        IN  c.mem = h /\ c.frames = frames /\ c.status = st /\ c.ptr = p
BY DEF Copying

LEMMA StatesOfAClone ==
  ASSUME NEW h, HeapType(h), NEW frames \in Seq(FrameType), NEW st \in {"OK", "NOMEM"}, NEW p \in Nat
  PROVE  Copying(h, frames, st, p) \in CloneStates
<1>1. h.live \in SUBSET (Allocator \X Block) /\ h = Heap(h.live, h.node, FALSE)
  BY DEF HeapType
<1>2. h.node \in UNION { [D -> NodeType] : D \in SUBSET Block }
  BY DEF HeapType
<1>3. h \in Heaps
  <2> DEFINE Ls == SUBSET (Allocator \X Block)
             Ns == UNION { [D -> NodeType] : D \in SUBSET Block }
             L == h.live
             N == h.node
  <2>1. L \in Ls /\ N \in Ns /\ h = Sound(L, N)
    BY <1>1, <1>2 DEF Sound
  <2> HIDE DEF Ls, Ns, L, N
  <2>2. h \in { Sound(A, B) : A \in Ls, B \in Ns }
    BY <2>1
  <2> QED BY <2>2 DEF Heaps, Ls, Ns
<1> QED BY <1>3 DEF CloneStates

LEMMA AppendNotEmpty ==
  ASSUME NEW S, NEW s \in Seq(S), NEW e
  PROVE  Append(s, e) # <<>>
<1>1. s \in Seq(S \cup {e})
  BY SeqDef
<1> DEFINE T == S \cup {e}
<1>2. s \in Seq(T) /\ e \in T
  BY <1>1
<1> HIDE DEF T
<1> QED BY <1>2

LEMMA RunningHeap ==
  ASSUME NEW m, NEW R, NEW h, NEW frames, Running(m, R, h, frames)
  PROVE  HeapType(h) /\ frames \in Seq(FrameType)
BY ForestFacts DEF Running, ForestOf

\* A call that cannot make its copy gives up; one that can goes on.
LEMMA EnteredStep ==
  ASSUME NEW m, NEW R, ForestOf(m, R), WellMade(m), NEW v \in DOMAIN m.node, NEW h, NEW frames,
         Running(m, R, h, frames), NEW w \in DOMAIN m.node, NEW alloc \in Allocator \ {"partial"},
         \A x, g : Entered(m, R, h, frames, w, x, g) =>
           \E img : ImageOf(m, v, g, img) /\ Following(m, v, g, Append(frames, Frame(w, x, 1)), img),
         NEW c \in Enter(h, frames, alloc, w)
  PROVE  c \in Steps(m, R, v)
<1>1. NULL \in Nat
  BY DEF NULL
<1>2. CASE c = Copying(h, frames, "NOMEM", NULL)
  <2>1. c \in CloneStates
    BY <1>1, <1>2, RunningHeap, StatesOfAClone
  <2>2. c.mem = h /\ c.frames = frames /\ c.status = "NOMEM" /\ c.ptr = NULL
    BY <1>2, CopyingFields
  <2> QED BY <2>1, <2>2 DEF Steps, UnderWay
<1>3. CASE \E x, g : /\ c = Copying(g, Append(frames, Frame(w, x, 1)), "OK", NULL)
                     /\ Entered(m, R, h, frames, w, x, g)
  <2>1. PICK x, g : /\ c = Copying(g, Append(frames, Frame(w, x, 1)), "OK", NULL)
                    /\ Entered(m, R, h, frames, w, x, g)
    BY <1>3
  <2> DEFINE s == Append(frames, Frame(w, x, 1))
  <2>2. Running(m, R, g, s) /\ \E img : ImageOf(m, v, g, img) /\ Following(m, v, g, s, img)
    BY <2>1 DEF Entered
  <2>3. s # <<>>
    <3>1. frames \in Seq(FrameType)
      BY RunningHeap
    <3> QED BY <3>1, AppendNotEmpty
  <2>4. c = Copying(g, s, "OK", NULL)
    BY <2>1
  <2> HIDE DEF s
  <2>5. c \in CloneStates
    BY <1>1, <2>2, <2>4, RunningHeap, StatesOfAClone
  <2>6. c.mem = g /\ c.frames = s /\ c.status = "OK" /\ c.ptr = NULL
    BY <2>4, CopyingFields
  <2> QED BY <2>2, <2>3, <2>5, <2>6 DEF Steps, UnderWay
<1> QED BY <1>2, <1>3, CopyEntered

LEMMA CloneBegins ==
  ASSUME NEW m, NEW R, ForestOf(m, R), WellMade(m), NEW v \in DOMAIN m.node,
         NEW alloc \in Allocator \ {"partial"}
  PROVE  Enter(m, <<>>, alloc, v) \subseteq Steps(m, R, v)
<1>1. Running(m, R, m, <<>>)
  <2>1. Copies(<<>>) = {} /\ <<>> \in Seq(FrameType)
    BY DEF Copies
  <2>2. R \cup {} = R
    OBVIOUS
  <2> DEFINE none == <<>>
  <2>3. DOMAIN none = {} /\ Copies(none) = {} /\ none \in Seq(FrameType)
    BY <2>1
  <2> HIDE DEF none
  <2>4. Running(m, R, m, none)
    BY <2>2, <2>3 DEF Running, Grown
  <2> QED BY <2>4 DEF none
<1>2. \A x, g : Entered(m, R, m, <<>>, v, x, g) =>
        \E img : ImageOf(m, v, g, img) /\ Following(m, v, g, Append(<<>>, Frame(v, x, 1)), img)
  BY ImageStarted
<1> QED BY <1>1, <1>2, EnteredStep

LEMMA CloneGoesOn ==
  ASSUME NEW m, NEW R, ForestOf(m, R), WellMade(m), NEW v \in DOMAIN m.node,
         NEW alloc \in Allocator \ {"partial"}, NEW c \in Steps(m, R, v), c.frames # <<>>
  PROVE  CloneStep(c, alloc) \subseteq Steps(m, R, v)
<1> SUFFICES ASSUME NEW c2 \in CloneStep(c, alloc) PROVE c2 \in Steps(m, R, v)
  OBVIOUS
<1> DEFINE h == c.mem
           frames == c.frames
           f == Last(frames)
           outer == Front(frames)
           entries == h.node[f.of].entries
<1>1. Running(m, R, h, frames) /\ NULL \in Nat
  BY DEF Steps, UnderWay, NULL
<1>2. c2 \in IF c.status # "OK" THEN {Copying(bencode_value_free(h, f.copy), outer, c.status, NULL)}
             ELSE IF f.next <= Len(entries) THEN Enter(h, frames, alloc, entries[f.next].value)
             ELSE IF outer = <<>> THEN {Copying(h, <<>>, "OK", f.copy)}
             ELSE Attached(h, outer, f)
  BY DEF CloneStep
<1>3. c.status # "OK" => c.status = "NOMEM"
  BY DEF Steps, UnderWay
<1>4. c.status = "OK" => \E img : ImageOf(m, v, h, img) /\ Following(m, v, h, frames, img)
  BY DEF Steps, UnderWay
<1>5. frames \in Seq(FrameType) /\ frames # <<>> /\ outer \in Seq(FrameType)
  BY <1>1, RunningHeap, FrontFacts
<1> HIDE DEF h, frames
<1>6. f.of \in DOMAIN m.node /\ entries = m.node[f.of].entries
  <2>1. f = frames[Len(frames)] /\ Len(frames) \in DOMAIN frames
    <3> DEFINE len == Len(frames)
    <3>1. len \in Nat \ {0} /\ DOMAIN frames = 1..len /\ f = frames[len]
      BY <1>5, FrontFacts
    <3> HIDE DEF len, f
    <3> QED BY <3>1 DEF len
  <2> QED BY <1>1, <2>1 DEF Running, Grown
<1>7. CASE c.status # "OK"
  <2> DEFINE g == bencode_value_free(h, f.copy)
  <2>1. Running(m, R, g, outer)
    BY <1>1, <1>5, CopyGivenUp
  <2>2. c2 = Copying(g, outer, "NOMEM", NULL)
    BY <1>2, <1>3, <1>7
  <2> HIDE DEF g, outer
  <2>3. c2 \in CloneStates
    BY <1>1, <2>1, <2>2, RunningHeap, StatesOfAClone
  <2>4. c2.mem = g /\ c2.frames = outer /\ c2.status = "NOMEM" /\ c2.ptr = NULL
    BY <2>2, CopyingFields
  <2> QED BY <2>1, <2>3, <2>4 DEF Steps, UnderWay
<1>8. CASE c.status = "OK"
  <2>1. PICK img : ImageOf(m, v, h, img) /\ Following(m, v, h, frames, img)
    BY <1>4, <1>8
  <2>2. f.next \in Nat \ {0} /\ entries \in Seq(EntryType)
    <3> DEFINE len == Len(frames)
    <3>1. len \in DOMAIN frames /\ f = frames[len]
      <4>1. len \in Nat \ {0} /\ DOMAIN frames = 1..len /\ f = frames[len]
        BY <1>5, FrontFacts
      <4> HIDE DEF len, f
      <4> QED BY <4>1
    <3> HIDE DEF f, len
    <3>2. f.of \in DOMAIN img /\ img[f.of] = f.copy /\ f.next = Len(h.node[f.copy].entries) + 1
      BY <2>1, <3>1 DEF Following
    <3>3. f.copy \in DOMAIN h.node
      BY <2>1, <3>2 DEF ImageOf
    <3>4. HeapType(h) /\ HeapType(m)
      BY <1>1, ForestFacts DEF Running, ForestOf
    <3>5. Len(h.node[f.copy].entries) \in Nat
      BY <3>3, <3>4, NodeFacts
    <3>6. m.node[f.of].entries \in Seq(EntryType)
      BY <1>6, <3>4, NodeFacts
    <3> DEFINE a == Len(h.node[f.copy].entries)
    <3>7. a \in Nat /\ f.next = a + 1
      BY <3>2, <3>5
    <3> HIDE DEF a
    <3>8. f.next \in Nat \ {0}
      BY <3>7
    <3> QED BY <1>6, <3>6, <3>8
  <2>3. DOMAIN entries = 1..Len(entries) /\ Len(entries) \in Nat
    <3> HIDE DEF entries
    <3> QED BY <2>2
  <2>4. CASE f.next <= Len(entries)
    <3> DEFINE w == entries[f.next].value
    <3>1. f.next \in DOMAIN entries
      <4> HIDE DEF f, entries
      <4> QED BY <2>2, <2>3, <2>4
    <3>2. ComesTo(m, frames, w)
      BY <1>6, <3>1 DEF ComesTo
    <3>3. c2 \in Enter(h, frames, alloc, w)
      BY <1>2, <1>8, <2>4
    <3> HIDE DEF w, f, entries
    <3>4. w \in DOMAIN m.node
      BY <1>1, <1>5, <2>1, <3>2, ComesToNew
    <3>5. \A x, g : Entered(m, R, h, frames, w, x, g) =>
            \E img2 : ImageOf(m, v, g, img2) /\ Following(m, v, g, Append(frames, Frame(w, x, 1)), img2)
      BY <1>1, <1>5, <2>1, <3>2, ImageEntered
    <3> QED BY <1>1, <3>3, <3>4, <3>5, EnteredStep
  <2>5. CASE ~(f.next <= Len(entries))
    <3>1. f.next \notin DOMAIN m.node[f.of].entries
      <4>1. f.next \notin DOMAIN entries
        <5> HIDE DEF f, entries
        <5> QED BY <2>2, <2>3, <2>5
      <4> QED BY <1>6, <4>1
    <3>2. CASE outer = <<>>
      <4> DEFINE x == f.copy
                 none == <<>>
      <4>1. c2 = Copying(h, none, "OK", x)
        BY <1>2, <1>8, <2>5, <3>2
      <4>2. Cloned(m, R, v, h, x)
        BY <1>1, <1>5, <2>1, <3>1, <3>2, CloneCompleted
      <4>3. none \in Seq(FrameType) /\ none = <<>>
        OBVIOUS
      <4> HIDE DEF x, none
      <4>4. HeapType(h) /\ x \in Nat
        BY <4>2, ForestFacts DEF Cloned, ForestOf
      <4>5. c2 \in CloneStates
        BY <4>1, <4>3, <4>4, StatesOfAClone
      <4>6. c2.mem = h /\ c2.frames = none /\ c2.status = "OK" /\ c2.ptr = x
        BY <4>1, CopyingFields
      <4> QED BY <4>2, <4>3, <4>5, <4>6 DEF Steps, UnderWay
    <3>3. CASE outer # <<>>
      <4>1. c2 \in Attached(h, outer, f)
        BY <1>2, <1>8, <2>5, <3>3
      <4>2. ComesNext(m, h, Last(outer))
        BY <1>1, <1>5, <2>1, <3>3, EntryComesNext
      <4> DEFINE k == Last(outer)
                 s == Append(Front(outer), Frame(k.of, k.copy, k.next + 1))
      <4>3. \/ c2 = Copying(h, frames, "NOMEM", NULL)
            \/ \E g, e : Closed(m, R, h, frames, g, e) /\ c2 = Copying(g, s, "OK", NULL)
        BY <1>1, <1>5, <3>3, <4>1, <4>2, CopyClosed
      <4>4. CASE c2 = Copying(h, frames, "NOMEM", NULL)
        <5>1. c2 \in CloneStates
          BY <1>1, <4>4, RunningHeap, StatesOfAClone
        <5>2. c2.mem = h /\ c2.frames = frames /\ c2.status = "NOMEM" /\ c2.ptr = NULL
          BY <4>4, CopyingFields
        <5> QED BY <1>1, <5>1, <5>2 DEF Steps, UnderWay
      <4>5. CASE \E g, e : Closed(m, R, h, frames, g, e) /\ c2 = Copying(g, s, "OK", NULL)
        <5>1. PICK g, e : Closed(m, R, h, frames, g, e) /\ c2 = Copying(g, s, "OK", NULL)
          BY <4>5
        <5>2. ImageOf(m, v, g, img) /\ Following(m, v, g, s, img)
          BY <1>1, <1>5, <2>1, <3>1, <3>3, <5>1, ImageClosed
        <5>3. Running(m, R, g, s)
          BY <5>1 DEF Closed
        <5>4. s # <<>>
          <6>1. Front(outer) \in Seq(FrameType)
            BY <1>5, <3>3, FrontFacts
          <6> HIDE DEF outer
          <6> QED BY <6>1
        <5> HIDE DEF s
        <5>5. c2 \in CloneStates
          BY <1>1, <5>1, <5>3, RunningHeap, StatesOfAClone
        <5>6. c2.mem = g /\ c2.frames = s /\ c2.status = "OK" /\ c2.ptr = NULL
          BY <5>1, CopyingFields
        <5> QED BY <5>2, <5>3, <5>4, <5>5, <5>6 DEF Steps, UnderWay
      <4> QED BY <4>3, <4>4, <4>5
    <3> QED BY <3>2, <3>3
  <2> QED BY <2>4, <2>5
<1> QED BY <1>7, <1>8

\* bencode_value_clone, whichever requests are refused.
CloneOf(m, R, alloc, v, r) ==
  \/ r.status = "INVALID_ARG" /\ r.mem = m /\ r.ptr = NULL /\ alloc = "partial"
  \/ r.status = "NOMEM" /\ r.mem = m /\ r.ptr = NULL /\ alloc # "partial" /\ v # NULL
  \/ r.status = "OK" /\ r.mem = m /\ r.ptr = NULL /\ alloc # "partial" /\ v = NULL
  \/ r.status = "OK" /\ alloc # "partial" /\ v # NULL /\ Cloned(m, R, v, r.mem, r.ptr)

LEMMA ValueCloned ==
  ASSUME NEW m, NEW R, ForestOf(m, R), WellMade(m), NEW alloc \in Allocator,
         NEW v \in DOMAIN m.node \cup {NULL}, NEW r \in bencode_value_clone(m, alloc, v)
  PROVE  CloneOf(m, R, alloc, v, r)
<1>1. CASE bencode_allocator_check(alloc) # "OK"
  BY <1>1 DEF bencode_value_clone, bencode_allocator_check, Result, CloneOf
<1>2. CASE bencode_allocator_check(alloc) = "OK" /\ v = NULL
  BY <1>2 DEF bencode_value_clone, bencode_allocator_check, Result, CloneOf
<1>3. CASE bencode_allocator_check(alloc) = "OK" /\ v # NULL
  <2> DEFINE Good == Steps(m, R, v)
  <2>1. v \in DOMAIN m.node /\ alloc \in Allocator \ {"partial"}
    BY <1>3 DEF bencode_allocator_check
  <2>2. Enter(m, <<>>, alloc, v) \subseteq Good
    BY <2>1, CloneBegins
  <2>3. Keeps(Good, alloc)
    BY <2>1, CloneGoesOn DEF Keeps
  <2>4. EndsIn(Good, r)
    <3> HIDE DEF Good
    <3> QED BY <1>3, <2>2, <2>3, CloneEnds
  <2>5. PICK c \in Good : c.frames = <<>> /\ r = Result(c.mem, c.status, c.ptr)
    BY <2>4 DEF EndsIn
  <2>6. r.mem = c.mem /\ r.status = c.status /\ r.ptr = c.ptr
    BY <2>5 DEF Result
  <2>7. UnderWay(m, R, v, c)
    BY DEF Steps
  <2>8. CASE c.status = "OK"
    BY <1>3, <2>1, <2>5, <2>6, <2>7, <2>8 DEF UnderWay, CloneOf
  <2>9. CASE c.status # "OK"
    <3>1. c.status = "NOMEM" /\ c.ptr = NULL /\ Running(m, R, c.mem, <<>>)
      BY <2>5, <2>7, <2>9 DEF UnderWay
    <3>2. ForestOf(c.mem, R) /\ Grown(m, c.mem)
      <4>1. Copies(<<>>) = {} /\ R \cup {} = R
        BY DEF Copies
      <4> QED BY <3>1, <4>1 DEF Running
    <3>3. c.mem = m
      BY <3>2, NothingLeft
    <3> QED BY <1>3, <2>1, <2>6, <3>1, <3>3 DEF CloneOf
  <2> QED BY <2>8, <2>9
<1> QED BY <1>1, <1>2, <1>3

---------------------------------------------------------------------------
(* The invariant of the builders.                                          *)

\* A string that is not empty has a copy of its bytes, unless it points into
\* the input.
Borrowed(m) == { n \in DOMAIN m.node : m.node[n].bytes # <<>> /\ m.node[n].owned = NULL }

\* The heap and what the caller owns of it.
Kept(m, R, borrowed) == ForestOf(m, R) /\ WellMade(m) /\ Borrowed(m) \subseteq borrowed

\* What every node of m2 has, it had on m; only containers have other entries.
DataKept(m, m2) ==
  \A n \in DOMAIN m2.node :
    /\ n \in DOMAIN m.node
    /\ m2.node[n].type = m.node[n].type /\ m2.node[n].i = m.node[n].i
    /\ m2.node[n].bytes = m.node[n].bytes /\ m2.node[n].owned = m.node[n].owned
    /\ m.node[n].type \in {"INT", "STRING"} => m2.node[n].entries = m.node[n].entries

LEMMA KeptAlong ==
  ASSUME NEW m, NEW R, NEW borrowed, Kept(m, R, borrowed),
         NEW m2, NEW R2, ForestOf(m2, R2), DataKept(m, m2)
  PROVE  Kept(m2, R2, borrowed)
<1>1. WellMade(m2)
  BY DEF Kept, WellMade, Plain, DataKept
<1>2. Borrowed(m2) \subseteq Borrowed(m)
  BY DEF Borrowed, DataKept
<1> QED BY <1>1, <1>2 DEF Kept

LEMMA KeptWithout ==
  ASSUME NEW m, NEW m2, NEW S, Less(m, m2, S)
  PROVE  DataKept(m, m2)
BY DEF Less, DataKept

LEMMA KeptWithEntry ==
  ASSUME NEW m, NEW m2, NEW n, m.node[n].type \in {"LIST", "DICT"}, NEW i, NEW e,
         Inserted(m, m2, n, i, e)
  PROVE  DataKept(m, m2)
BY DEF Inserted, OneMore, DataKept

LEMMA KeptWithValue ==
  ASSUME NEW m, HeapType(m), NEW m2, NEW dict \in DOMAIN m.node, m.node[dict].type = "DICT",
         NEW i \in DOMAIN m.node[dict].entries, NEW child \in Nat, Led(m, m2, dict, i, child)
  PROVE  DataKept(m, m2)
<1> DEFINE old == m.node[dict]
<1>1. old \in NodeType
  BY NodeFacts
<1>2. /\ Leading(old, i, child).type = old.type /\ Leading(old, i, child).i = old.i
      /\ Leading(old, i, child).bytes = old.bytes /\ Leading(old, i, child).owned = old.owned
  BY <1>1, LeadingFacts
<1>3. /\ m2.node[dict].type = old.type /\ m2.node[dict].i = old.i
      /\ m2.node[dict].bytes = old.bytes /\ m2.node[dict].owned = old.owned
  BY <1>2 DEF Led
<1> QED BY <1>3 DEF Led, DataKept

\* bencode_value_free(NULL).
LEMMA NothingFreed ==
  ASSUME NEW m, HeapType(m)
  PROVE  bencode_value_free(m, NULL) = m
<1>1. Tree(m, NULL) = {}
  BY TreeOfNull
<1>2. Blocks(m, NULL) = {}
  BY <1>1 DEF Blocks
<1>3. Release(m, Blocks(m, NULL)) = Heap(m.live \ Blocks(m, NULL), m.node, m.fault)
  BY <1>2, ReleaseFromHeap
<1>4. ~Shared(m, Tree(m, NULL) \cap DOMAIN m.node)
  BY <1>1 DEF Shared
<1>5. /\ [n \in DOMAIN m.node \ Tree(m, NULL) |-> m.node[n]] = m.node
      /\ m.live \ Blocks(m, NULL) = m.live /\ m = Heap(m.live, m.node, m.fault)
  BY <1>1, <1>2 DEF HeapType
<1>6. bencode_value_free(m, NULL) =
        Heap(m.live \ Blocks(m, NULL), [n \in DOMAIN m.node \ Tree(m, NULL) |-> m.node[n]], m.fault)
  <2> DEFINE L == m.live \ Blocks(m, NULL)
  <2>1. Release(m, Blocks(m, NULL)) = Heap(L, m.node, m.fault)
    BY <1>3
  <2> HIDE DEF L
  <2>2. bencode_value_free(m, NULL) = Heap(L, [n \in DOMAIN m.node \ Tree(m, NULL) |-> m.node[n]], m.fault)
    BY <1>4, <2>1, ValueFree
  <2> QED BY <2>2 DEF L
<1> QED BY <1>5, <1>6

\* Each answer of the library leaves the heap and the caller's values in order.
LEMMA MadeKept ==
  ASSUME NEW m, NEW R, NEW borrowed, Kept(m, R, borrowed), NEW r, NEW nd, Plain(nd), nd \in NodeType,
         NEW copied, Made(m, R, r, nd, copied)
  PROVE  /\ Kept(r.mem, R \cup ({r.ptr} \ {NULL}), borrowed \cup ((R \cup ({r.ptr} \ {NULL})) \ R))
         /\ copied \/ nd.bytes = <<>> => Kept(r.mem, R \cup ({r.ptr} \ {NULL}), borrowed)
<1> DEFINE R2 == R \cup ({r.ptr} \ {NULL})
<1>1. CASE r.status # "OK"
  <2>1. r.mem = m /\ R2 = R
    BY <1>1 DEF Made
  <2> QED BY <2>1 DEF Kept
<1>2. CASE r.status = "OK"
  <2>1. /\ r.ptr # NULL /\ r.ptr \notin DOMAIN m.node /\ ForestOf(r.mem, R \cup {r.ptr})
        /\ DOMAIN r.mem.node = DOMAIN m.node \cup {r.ptr}
        /\ \A n \in DOMAIN m.node : r.mem.node[n] = m.node[n]
    BY <1>2 DEF Made
  <2>2. PICK owned \in Nat : /\ r.mem.node[r.ptr] = [nd EXCEPT !.owned = owned]
                             /\ copied /\ nd.bytes # <<>> => owned # NULL
    BY <1>2 DEF Made
  <2>3. R2 = R \cup {r.ptr} /\ r.ptr \notin R
    BY <2>1 DEF Kept, ForestOf, Parentless
  <2> DEFINE new == [nd EXCEPT !.owned = owned]
  <2>4. /\ new.type = nd.type /\ new.i = nd.i /\ new.bytes = nd.bytes
        /\ new.entries = nd.entries /\ new.owned = owned
    BY DEF NodeType
  <2>5. Plain(new)
    BY <2>4 DEF Plain
  <2> HIDE DEF new
  <2>6. r.mem.node[r.ptr] = new
    BY <2>2 DEF new
  <2>7. WellMade(r.mem)
    BY <2>1, <2>5, <2>6 DEF Kept, WellMade
  <2>8. Borrowed(r.mem) \subseteq Borrowed(m) \cup {r.ptr}
    BY <2>1 DEF Borrowed
  <2>9. copied \/ nd.bytes = <<>> => r.ptr \notin Borrowed(r.mem)
    BY <2>2, <2>4, <2>6 DEF Borrowed
  <2> QED BY <2>1, <2>3, <2>7, <2>8, <2>9 DEF Kept
<1> QED BY <1>1, <1>2

LEMMA AppendedKept ==
  ASSUME NEW m, NEW R, NEW borrowed, Kept(m, R, borrowed), NEW r, NEW list, NEW child,
         Appended(m, R, r, list, child)
  PROVE  Kept(r.mem, IF r.status = "OK" THEN R \ {child} ELSE R, borrowed)
<1>1. CASE r.status # "OK"
  BY <1>1 DEF Appended
<1>2. CASE r.status = "OK"
  <2>1. /\ ForestOf(r.mem, R \ {child}) /\ m.node[list].type = "LIST"
        /\ Inserted(m, r.mem, list, Len(m.node[list].entries) + 1, Entry(<<>>, NULL, child))
    BY <1>2 DEF Appended
  <2> DEFINE e == Entry(<<>>, NULL, child)
             i == Len(m.node[list].entries) + 1
  <2>2. m.node[list].type \in {"LIST", "DICT"} /\ Inserted(m, r.mem, list, i, e)
    BY <2>1
  <2> HIDE DEF e, i
  <2>3. DataKept(m, r.mem)
    BY <2>2, KeptWithEntry
  <2> QED BY <1>2, <2>1, <2>3, KeptAlong
<1> QED BY <1>1, <1>2

LEMMA SetKept ==
  ASSUME NEW m, NEW R, NEW borrowed, Kept(m, R, borrowed), NEW r, NEW dict, NEW key, NEW child,
         Set(m, R, r, dict, key, child)
  PROVE  Kept(r.mem, IF r.status = "OK" THEN R \ {child} ELSE R, borrowed)
<1>1. CASE r.status # "OK"
  BY <1>1 DEF Set
<1>2. CASE r.status = "OK"
  <2>1. /\ dict \in DOMAIN m.node /\ child \in R /\ m.node[dict].type = "DICT"
        /\ ForestOf(r.mem, R \ {child})
        /\ Put(m, r, dict, key, child) \/ PutAgain(m, r, dict, key, child)
    BY <1>2 DEF Set
  <2>2. HeapType(m) /\ child \in Nat
    BY <2>1, ForestFacts DEF Kept, ForestOf, Parentless
  <2>3. CASE Put(m, r, dict, key, child)
    <3>1. PICK i, copy : Inserted(m, r.mem, dict, i, Entry(key, copy, child))
      BY <2>3 DEF Put
    <3>2. DataKept(m, r.mem)
      BY <2>1, <3>1, KeptWithEntry
    <3> QED BY <1>2, <2>1, <3>2, KeptAlong
  <2>4. CASE PutAgain(m, r, dict, key, child)
    <3>1. PICK i \in DOMAIN m.node[dict].entries : Led(m, r.mem, dict, i, child)
      BY <2>4 DEF PutAgain
    <3>2. DataKept(m, r.mem)
      BY <2>1, <2>2, <3>1, KeptWithValue
    <3> QED BY <1>2, <2>1, <3>2, KeptAlong
  <2> QED BY <2>1, <2>3, <2>4
<1> QED BY <1>1, <1>2

LEMMA ClonedKept ==
  ASSUME NEW m, NEW R, NEW borrowed, Kept(m, R, borrowed), NEW alloc, NEW v \in DOMAIN m.node \cup {NULL}, NEW r,
         CloneOf(m, R, alloc, v, r)
  PROVE  Kept(r.mem, R \cup ({r.ptr} \ {NULL}), borrowed)
<1>1. CASE r.mem = m /\ r.ptr = NULL
  <2>1. R \cup ({r.ptr} \ {NULL}) = R
    BY <1>1
  <2> QED BY <1>1, <2>1
<1>2. CASE v # NULL /\ Cloned(m, R, v, r.mem, r.ptr)
  <2> DEFINE g == r.mem
  <2>1. /\ R \cup ({r.ptr} \ {NULL}) = R \cup {r.ptr} /\ ForestOf(g, R \cup {r.ptr}) /\ Grown(m, g)
        /\ \A n \in DOMAIN g.node \ DOMAIN m.node : g.node[n].bytes # <<>> => g.node[n].owned # NULL
    BY <1>2 DEF Cloned
  <2>2. PICK img : ImageOf(m, v, g, img) /\ DOMAIN img = Tree(m, v)
                   /\ \A n \in DOMAIN img : Len(g.node[img[n]].entries) = Len(m.node[n].entries)
    BY <1>2 DEF Cloned, CopyIn
  <2>3. HeapType(g)
    BY <2>1, ForestFacts DEF ForestOf
  <2>4. ASSUME NEW x \in DOMAIN g.node \ DOMAIN m.node PROVE Plain(g.node[x])
    <3>1. PICK n \in DOMAIN img : img[n] = x
      BY <2>2 DEF ImageOf
    <3>2. /\ g.node[x].type = m.node[n].type /\ g.node[x].i = m.node[n].i
          /\ g.node[x].bytes = m.node[n].bytes /\ Len(g.node[x].entries) = Len(m.node[n].entries)
      BY <2>2, <3>1 DEF ImageOf, CopyOf
    <3>3. n \in DOMAIN m.node
      <4>1. Tree(m, v) \subseteq DOMAIN m.node
        BY <1>2, TreeHolds DEF Kept, ForestOf
      <4> QED BY <2>2, <4>1
    <3>4. Plain(m.node[n])
      BY <3>3 DEF Kept, WellMade
    <3>5. g.node[x].entries \in Seq(EntryType)
      BY <2>3, NodeFacts
    <3>6. m.node[n].entries = <<>> => g.node[x].entries = <<>>
      BY <3>2, <3>5, EmptySeq
    <3> QED BY <3>2, <3>4, <3>6 DEF Plain
  <2>5. WellMade(g)
    BY <2>1, <2>4 DEF Kept, WellMade, Grown
  <2>6. Borrowed(g) \subseteq Borrowed(m)
    BY <2>1 DEF Borrowed, Grown
  <2> QED BY <2>1, <2>5, <2>6 DEF Kept
<1> QED BY <1>1, <1>2 DEF CloneOf

\* The values that may point into the input.
Lent == IF input.held THEN input.parsed ELSE {}

AskInv ==
  /\ ask.alloc \in Allocator /\ ask.i \in Int /\ ask.data \in Bytes /\ ask.key \in Bytes
  /\ ask.op \in {"append", "set"} => Givable(heap, roots, ask.node, ask.child)
  /\ ask.op = "free" => ask.node \in roots \cup {NULL}
  /\ ask.op = "clone" => ask.node \in DOMAIN heap.node \cup {NULL}
  /\ ask.op = "parse" => input.held

BuilderInv ==
  /\ Kept(heap, roots, Lent) /\ AskInv
  /\ input \in [held : BOOLEAN, parsed : SUBSET Nat]

LEMMA NoKey == <<>> \in Bytes /\ NULL \in Nat
BY EmptySeq DEF Bytes, NULL

LEMMA EmptyHeapKept == Kept(EmptyHeap, {}, {})
<1> DEFINE N == <<>>
<1>1. DOMAIN N = {} /\ N \in [{} -> NodeType]
  OBVIOUS
<1>2. EmptyHeap = Heap({}, N, FALSE)
  BY DEF EmptyHeap, Heap
<1> HIDE DEF N
<1>3. EmptyHeap.live = {} /\ EmptyHeap.node = N /\ EmptyHeap.fault = FALSE
  <2> DEFINE F == FALSE
             E == EmptyHeap
  <2>1. E = Heap({}, N, F)
    BY <1>2
  <2> HIDE DEF F, E
  <2>2. E.live = {} /\ E.node = N /\ E.fault = F
    BY <2>1, HeapFields
  <2> QED BY <2>2 DEF F, E
<1>4. IsFiniteSet({})
  BY FS_EmptySet
<1> DEFINE m == EmptyHeap
<1>5. m.live = {} /\ DOMAIN m.node = {} /\ m.node \in [{} -> NodeType] /\ m.fault = FALSE /\ m = Heap(m.live, m.node, m.fault)
  BY <1>1, <1>2, <1>3
<1> HIDE DEF m
<1>6. HeapInv(m, {})
  <2>1. HeapType(m)
    BY <1>4, <1>5 DEF HeapType
  <2> QED BY <1>5, <2>1 DEF HeapInv, HeldOnce, OneParent, Ordered
<1>7. Grounded(m, [n \in {} |-> 0])
  BY <1>5 DEF Grounded
<1>8. {} = Parentless(m) /\ WellMade(m) /\ Borrowed(m) \subseteq {}
  BY <1>5 DEF Parentless, WellMade, Borrowed
<1> QED BY <1>6, <1>7, <1>8 DEF Kept, ForestOf, Trees, m

\* The caller.
LEMMA Asked ==
  ASSUME BuilderInv,
         ask'.alloc \in Allocator, ask'.i \in Int, ask'.data \in Bytes, ask'.key \in Bytes,
         ask'.op \in {"append", "set"} => Givable(heap, roots, ask'.node, ask'.child),
         ask'.op = "free" => ask'.node \in roots \cup {NULL},
         ask'.op = "clone" => ask'.node \in DOMAIN heap.node \cup {NULL},
         ask'.op = "parse" => input.held,
         UNCHANGED <<heap, roots, input>>
  PROVE  BuilderInv'
BY DEF BuilderInv, AskInv, Lent

LEMMA CallsAsk ==
  ASSUME BuilderInv, CallMake \/ CallAppend \/ CallSet \/ CallClone \/ CallFree \/ CallWithNull
  PROVE  BuilderInv'
<1> USE DEF Request, Forest!Request
<1>1. <<>> \in Bytes /\ "libc" \in Allocator /\ 0 \in Int
  BY NoKey DEF Allocator
<1>2. CASE CallMake
  <2>1. PICK v \in NewValues :
          /\ v[1] = "parse" => input.held
          /\ Call([Request(v[1]) EXCEPT !.alloc = v[2], !.data = v[3], !.i = Len(v[3])])
    BY <1>2 DEF CallMake
  <2>2. /\ ask'.op = v[1] /\ ask'.alloc = v[2] /\ ask'.data = v[3] /\ ask'.i = Len(v[3]) /\ ask'.key = <<>>
        /\ UNCHANGED <<heap, roots, input>>
    BY <2>1 DEF Call
  <2>3. /\ v[1] \in {"int_new", "string_new", "list_new", "dict_new", "parse"}
        /\ v[2] \in Allocator /\ v[3] \in Bytes
    BY BuilderAssumption
  <2>4. Len(v[3]) \in Int
    BY <2>3, LenProperties DEF Bytes
  <2> QED BY <1>1, <2>1, <2>2, <2>3, <2>4, Asked
<1>3. CASE CallAppend
  <2>0. PICK child \in roots \cup {NULL} : \E list \in Containers(child) :
          Call([Request("append") EXCEPT !.node = list, !.child = child])
    BY <1>3 DEF CallAppend
  <2>1. PICK list \in Containers(child) :
          Call([Request("append") EXCEPT !.node = list, !.child = child])
    BY <2>0
  <2>2. /\ ask'.op = "append" /\ ask'.alloc = "libc" /\ ask'.data = <<>> /\ ask'.i = 0 /\ ask'.key = <<>>
        /\ ask'.node = list /\ ask'.child = child /\ UNCHANGED <<heap, roots, input>>
    BY <2>1 DEF Call
  <2>3. Givable(heap, roots, list, child)
    BY <2>1 DEF Containers, Givable
  <2> QED BY <1>1, <2>2, <2>3, Asked
<1>4. CASE CallSet
  <2>1. PICK child \in roots \cup {NULL}, key \in Keys : \E dict \in Containers(child) :
          Call([Request("set") EXCEPT !.node = dict, !.key = key, !.child = child])
    BY <1>4 DEF CallSet
  <2>2. PICK dict \in Containers(child) :
          Call([Request("set") EXCEPT !.node = dict, !.key = key, !.child = child])
    BY <2>1
  <2>3. /\ ask'.op = "set" /\ ask'.alloc = "libc" /\ ask'.data = <<>> /\ ask'.i = 0 /\ ask'.key = key
        /\ ask'.node = dict /\ ask'.child = child /\ UNCHANGED <<heap, roots, input>>
    BY <2>2 DEF Call
  <2>4. Givable(heap, roots, dict, child)
    BY <2>2 DEF Containers, Givable
  <2>5. key \in Bytes
    BY BuilderAssumption
  <2> QED BY <1>1, <2>3, <2>4, <2>5, Asked
<1>5. CASE CallClone
  <2>1. PICK v \in DOMAIN heap.node \cup {NULL}, a \in CloneInto :
          Call([Request("clone") EXCEPT !.node = v, !.alloc = a])
    BY <1>5 DEF CallClone
  <2>2. /\ ask'.op = "clone" /\ ask'.alloc = a /\ ask'.data = <<>> /\ ask'.i = 0 /\ ask'.key = <<>>
        /\ ask'.node = v /\ UNCHANGED <<heap, roots, input>>
    BY <2>1 DEF Call
  <2>3. a \in Allocator
    BY BuilderAssumption
  <2> QED BY <1>1, <2>2, <2>3, Asked
<1>6. CASE CallFree
  <2>1. PICK v \in roots \cup {NULL} : Call([Request("free") EXCEPT !.node = v])
    BY <1>6 DEF CallFree
  <2>2. /\ ask'.op = "free" /\ ask'.alloc = "libc" /\ ask'.data = <<>> /\ ask'.i = 0 /\ ask'.key = <<>>
        /\ ask'.node = v /\ UNCHANGED <<heap, roots, input>>
    BY <2>1 DEF Call
  <2> QED BY <1>1, <2>2, Asked
<1>7. CASE CallWithNull
  <2>1. /\ ask'.op = "with_null" /\ ask'.alloc = "libc" /\ ask'.data = <<>> /\ ask'.i = 0 /\ ask'.key = <<>>
        /\ UNCHANGED <<heap, roots, input>>
    BY <1>7 DEF CallWithNull, Call
  <2> QED BY <1>1, <2>1, Asked
<1> QED BY <1>2, <1>3, <1>4, <1>5, <1>6, <1>7

\* The caller lets the input go.
LEMMA InputGoes ==
  ASSUME BuilderInv, FreeInput
  PROVE  BuilderInv'
<1>1. /\ ask = Forest!Idle /\ input.held /\ input.parsed \cap DOMAIN heap.node = {}
      /\ input' = [held |-> FALSE, parsed |-> {}] /\ UNCHANGED <<heap, roots, ask>>
  BY DEF FreeInput
<1>2. Borrowed(heap) = {}
  <2>1. Borrowed(heap) \subseteq input.parsed
    BY <1>1 DEF BuilderInv, Kept, Lent
  <2> QED BY <1>1, <2>1 DEF Borrowed
<1>3. Kept(heap, roots, Lent)'
  BY <1>1, <1>2 DEF BuilderInv, Kept
<1>4. ask.op = "none"
  BY <1>1 DEF Forest!Idle, Forest!Request
<1>5. AskInv'
  BY <1>1, <1>4 DEF BuilderInv, AskInv
<1>6. input' \in [held : BOOLEAN, parsed : SUBSET Nat]
  BY <1>1
<1> QED BY <1>3, <1>5, <1>6 DEF BuilderInv

\* The library has answered.
LEMMA Answered ==
  ASSUME NEW m, NEW st, NEW v, Return(m, st, v), Kept(m, roots', Lent'),
         input' \in [held : BOOLEAN, parsed : SUBSET Nat]
  PROVE  BuilderInv'
<1>1. heap' = m /\ ask' = Forest!Idle
  BY DEF Return
<1>2. ask'.op = "none" /\ ask'.alloc = "libc" /\ ask'.i = 0 /\ ask'.data = <<>> /\ ask'.key = <<>>
  BY <1>1 DEF Forest!Idle, Forest!Request
<1>3. AskInv'
  BY <1>2, NoKey DEF AskInv, Allocator
<1> QED BY <1>1, <1>3 DEF BuilderInv

LEMMA MakeStep ==
  ASSUME BuilderInv, Make
  PROVE  BuilderInv'
<1>1. /\ Kept(heap, roots, Lent) /\ ForestOf(heap, roots) /\ WellMade(heap)
      /\ ask.alloc \in Allocator /\ ask.i \in Int /\ ask.data \in Bytes
      /\ UNCHANGED input /\ input \in [held : BOOLEAN, parsed : SUBSET Nat]
  BY DEF BuilderInv, AskInv, Kept, Make
<1>2. Lent' = Lent
  BY <1>1 DEF Lent
<1>3. ASSUME NEW results, Receive(results),
             \A r \in results : Kept(r.mem, roots \cup ({r.ptr} \ {NULL}), Lent)
      PROVE  BuilderInv'
  <2>1. PICK r \in results : Return(r.mem, r.status, r.ptr) /\ roots' = roots \cup ({r.ptr} \ {NULL})
    BY <1>3 DEF Receive
  <2>2. Kept(r.mem, roots', Lent')
    BY <1>2, <1>3, <2>1
  <2> QED BY <1>1, <2>1, <2>2, Answered
<1>4. ASSUME NEW nd, Leaf(nd), Plain(nd), nd.bytes = <<>>, NEW r \in New(heap, nd)
      PROVE  Kept(r.mem, roots \cup ({r.ptr} \ {NULL}), Lent)
  <2>1. Made(heap, roots, r, nd, FALSE) /\ nd \in NodeType
    BY <1>1, <1>4, NewMade DEF Leaf
  <2> QED BY <1>1, <1>4, <2>1, MadeKept
<1>5. CASE ask.op = "int_new" /\ Receive(bencode_int_new(heap, ask.alloc, ask.i))
  <2> DEFINE nd == [Node(ask.alloc, "INT") EXCEPT !.i = ask.i]
  <2>1. Leaf(nd)
    BY <1>1, NodesAreLeaves
  <2>2. Plain(nd) /\ nd.bytes = <<>>
    BY DEF Node, Plain
  <2>3. bencode_int_new(heap, ask.alloc, ask.i) = New(heap, nd)
    BY DEF bencode_int_new
  <2> HIDE DEF nd
  <2> QED BY <1>3, <1>4, <1>5, <2>1, <2>2, <2>3
<1>6. CASE ask.op = "list_new" /\ Receive(bencode_list_new(heap, ask.alloc))
  <2> DEFINE nd == Node(ask.alloc, "LIST")
  <2>1. Leaf(nd)
    BY <1>1, NodesAreLeaves, NoKey
  <2>2. Plain(nd) /\ nd.bytes = <<>>
    BY DEF Node, Plain
  <2>3. bencode_list_new(heap, ask.alloc) = New(heap, nd)
    BY DEF bencode_list_new
  <2> HIDE DEF nd
  <2> QED BY <1>3, <1>4, <1>6, <2>1, <2>2, <2>3
<1>7. CASE ask.op = "dict_new" /\ Receive(bencode_dict_new(heap, ask.alloc))
  <2> DEFINE nd == Node(ask.alloc, "DICT")
  <2>1. Leaf(nd)
    BY <1>1, NodesAreLeaves, NoKey
  <2>2. Plain(nd) /\ nd.bytes = <<>>
    BY DEF Node, Plain
  <2>3. bencode_dict_new(heap, ask.alloc) = New(heap, nd)
    BY DEF bencode_dict_new
  <2> HIDE DEF nd
  <2> QED BY <1>3, <1>4, <1>7, <2>1, <2>2, <2>3
<1>8. CASE ask.op = "string_new" /\ Receive(bencode_string_new(heap, ask.alloc, ask.data))
  <2> DEFINE nd == StringNode(ask.alloc, ask.data)
  <2>1. Leaf(nd)
    BY <1>1, NodesAreLeaves, NoKey DEF StringNode
  <2>2. Plain(nd) /\ nd \in NodeType
    BY <2>1 DEF Node, Plain, StringNode, Leaf
  <2>3. ASSUME NEW r \in bencode_string_new(heap, ask.alloc, ask.data)
        PROVE  Kept(r.mem, roots \cup ({r.ptr} \ {NULL}), Lent)
    <3>1. Made(heap, roots, r, nd, TRUE)
      BY <1>1, StringMade
    <3> HIDE DEF nd
    <3> QED BY <1>1, <2>2, <3>1, MadeKept
  <2> QED BY <1>3, <1>8, <2>3
<1>9. CASE ask.op = "clone" /\ Receive(bencode_value_clone(heap, ask.alloc, ask.node))
  <2>1. ask.node \in DOMAIN heap.node \cup {NULL}
    BY <1>9 DEF BuilderInv, AskInv
  <2>2. ASSUME NEW r \in bencode_value_clone(heap, ask.alloc, ask.node)
        PROVE  Kept(r.mem, roots \cup ({r.ptr} \ {NULL}), Lent)
    <3>1. CloneOf(heap, roots, ask.alloc, ask.node, r)
      BY <1>1, <2>1, ValueCloned
    <3> QED BY <1>1, <2>1, <3>1, ClonedKept
  <2> QED BY <1>3, <1>9, <2>2
<1> QED BY <1>5, <1>6, <1>7, <1>8, <1>9 DEF Make

LEMMA ParseStep ==
  ASSUME BuilderInv, Parse
  PROVE  BuilderInv'
<1> DEFINE nd == [Node(ask.alloc, "STRING") EXCEPT !.bytes = ask.data]
           results == IF bencode_allocator_check(ask.alloc) = "OK"
                      THEN bencode_string_new_borrowed(heap, ask.alloc, ask.data)
                      ELSE {Result(heap, "INVALID_ARG", NULL)}
<1>1. /\ Kept(heap, roots, Lent) /\ ForestOf(heap, roots)
      /\ ask.alloc \in Allocator /\ ask.data \in Bytes /\ input.held
      /\ input \in [held : BOOLEAN, parsed : SUBSET Nat]
      /\ Receive(results) /\ input' = [input EXCEPT !.parsed = @ \cup (roots' \ roots)]
  BY DEF BuilderInv, AskInv, Kept, Parse
<1>2. PICK r \in results : Return(r.mem, r.status, r.ptr) /\ roots' = roots \cup ({r.ptr} \ {NULL})
  BY <1>1 DEF Receive
<1>3. Leaf(nd)
  <2>1. 0 \in Int
    OBVIOUS
  <2> QED BY <1>1, <2>1, NodesAreLeaves
<1>4. Plain(nd) /\ nd \in NodeType /\ nd.alloc = ask.alloc
  BY <1>3 DEF Node, Plain, Leaf
<1>5. Made(heap, roots, r, nd, FALSE)
  <2>1. CASE bencode_allocator_check(ask.alloc) = "OK"
    <3>1. nd.alloc # "partial" /\ r \in value_alloc(heap, nd)
      BY <1>4, <2>1 DEF bencode_allocator_check, bencode_string_new_borrowed
    <3> HIDE DEF nd
    <3> QED BY <1>1, <1>3, <3>1, LeafMade
  <2>2. CASE bencode_allocator_check(ask.alloc) # "OK"
    <3>1. r = Result(heap, "INVALID_ARG", NULL) /\ nd.alloc = "partial"
      BY <1>4, <2>2 DEF bencode_allocator_check
    <3> HIDE DEF nd
    <3> QED BY <3>1 DEF Result, Made
  <2> QED BY <2>1, <2>2
<1> HIDE DEF nd, results
<1>6. Kept(r.mem, roots', Lent \cup (roots' \ roots))
  BY <1>1, <1>2, <1>4, <1>5, MadeKept
<1>7. input'.held /\ input'.parsed = input.parsed \cup (roots' \ roots)
  BY <1>1
<1>8. Lent' = Lent \cup (roots' \ roots)
  BY <1>1, <1>7 DEF Lent
<1>9. roots' \subseteq Nat
  BY <1>6, ForestFacts DEF Kept, ForestOf, Parentless
<1>10. input' \in [held : BOOLEAN, parsed : SUBSET Nat]
  <2> DEFINE P == input.parsed \cup (roots' \ roots)
  <2>1. P \in SUBSET Nat
    BY <1>1, <1>9
  <2>2. input' = [input EXCEPT !.parsed = P]
    BY <1>1
  <2> HIDE DEF P
  <2> QED BY <1>1, <2>1, <2>2
<1> QED BY <1>2, <1>6, <1>8, <1>10, Answered

LEMMA AttachStep ==
  ASSUME BuilderInv, Attach
  PROVE  BuilderInv'
<1>1. /\ Kept(heap, roots, Lent) /\ ForestOf(heap, roots) /\ ask.key \in Bytes
      /\ UNCHANGED input /\ input \in [held : BOOLEAN, parsed : SUBSET Nat]
      /\ ask.op \in {"append", "set"} /\ Givable(heap, roots, ask.node, ask.child)
  BY DEF BuilderInv, AskInv, Kept, Attach
<1>2. Lent' = Lent
  BY <1>1 DEF Lent
<1>3. ASSUME NEW results, Give(results),
             \A r \in results : Kept(r.mem, IF r.status = "OK" THEN roots \ {ask.child} ELSE roots, Lent)
      PROVE  BuilderInv'
  <2>1. PICK r \in results : /\ Return(r.mem, r.status, NULL)
                             /\ roots' = IF r.status = "OK" THEN roots \ {ask.child} ELSE roots
    BY <1>3 DEF Give
  <2>2. Kept(r.mem, roots', Lent')
    BY <1>2, <1>3, <2>1
  <2> QED BY <1>1, <2>1, <2>2, Answered
<1>4. CASE Give(bencode_list_append(heap, ask.node, ask.child))
  <2>1. ASSUME NEW r \in bencode_list_append(heap, ask.node, ask.child)
        PROVE  Kept(r.mem, IF r.status = "OK" THEN roots \ {ask.child} ELSE roots, Lent)
    <3>1. Appended(heap, roots, r, ask.node, ask.child)
      BY <1>1, GivenToAList
    <3> QED BY <1>1, <3>1, AppendedKept
  <2> QED BY <1>3, <1>4, <2>1
<1>5. CASE Give(bencode_dict_set(heap, ask.node, ask.key, ask.child))
  <2>1. ASSUME NEW r \in bencode_dict_set(heap, ask.node, ask.key, ask.child)
        PROVE  Kept(r.mem, IF r.status = "OK" THEN roots \ {ask.child} ELSE roots, Lent)
    <3>1. Set(heap, roots, r, ask.node, ask.key, ask.child)
      BY <1>1, GivenToADict
    <3> QED BY <1>1, <3>1, SetKept
  <2> QED BY <1>3, <1>5, <2>1
<1> QED BY <1>4, <1>5 DEF Attach

LEMMA FreeStep ==
  ASSUME BuilderInv, Free
  PROVE  BuilderInv'
<1> DEFINE v == ask.node
           g == bencode_value_free(heap, v)
<1>1. /\ Kept(heap, roots, Lent) /\ ForestOf(heap, roots) /\ v \in roots \cup {NULL}
      /\ UNCHANGED input /\ input \in [held : BOOLEAN, parsed : SUBSET Nat]
      /\ Return(g, "OK", NULL) /\ roots' = roots \ {v}
  BY DEF BuilderInv, AskInv, Kept, Free
<1>2. Lent' = Lent
  BY <1>1 DEF Lent
<1>3. Kept(g, roots', Lent)
  <2>1. CASE v \in roots
    <3>1. ForestOf(g, roots \ {v}) /\ Less(heap, g, Tree(heap, v))
      BY <1>1, <2>1, RootFreed
    <3>2. DataKept(heap, g)
      <4> HIDE DEF g
      <4> QED BY <3>1, KeptWithout
    <3> HIDE DEF g
    <3> QED BY <1>1, <3>1, <3>2, KeptAlong
  <2>2. CASE v = NULL
    <3>1. HeapType(heap) /\ NULL \notin roots
      BY <1>1, ForestFacts DEF ForestOf, Parentless
    <3>2. g = heap /\ roots' = roots
      BY <1>1, <2>2, <3>1, NothingFreed
    <3> QED BY <1>1, <3>2
  <2> QED BY <1>1, <2>1, <2>2
<1> HIDE DEF g
<1> QED BY <1>1, <1>2, <1>3, Answered

LEMMA NullStep ==
  ASSUME BuilderInv, RefuseNull
  PROVE  BuilderInv'
<1>1. Kept(heap, roots, Lent) /\ input \in [held : BOOLEAN, parsed : SUBSET Nat]
  BY DEF BuilderInv
<1>2. UNCHANGED <<roots, input>> /\ Return(heap, "INVALID_ARG", NULL)
  BY DEF RefuseNull
<1>3. Lent' = Lent
  BY <1>2 DEF Lent
<1> QED BY <1>1, <1>2, <1>3, Answered

\* Every call of a builder, and every answer, keeps the forest: what the caller
\* owns are the roots, whatever was refused, replaced, cloned or freed.
THEOREM BuilderInvariance == BuilderSpec => []BuilderInv
<1>1. BuilderInit => BuilderInv
  <2> SUFFICES ASSUME BuilderInit PROVE BuilderInv
    OBVIOUS
  <2>1. /\ heap = EmptyHeap /\ roots = {} /\ ask = Forest!Idle
        /\ input = [held |-> TRUE, parsed |-> {}]
    BY DEF BuilderInit
  <2>2. Lent = {} /\ input \in [held : BOOLEAN, parsed : SUBSET Nat]
    BY <2>1 DEF Lent
  <2>3. ask.op = "none" /\ ask.alloc = "libc" /\ ask.i = 0 /\ ask.data = <<>> /\ ask.key = <<>>
    BY <2>1 DEF Forest!Idle, Forest!Request
  <2>4. AskInv
    BY <2>3, NoKey DEF AskInv, Allocator
  <2> QED BY <2>1, <2>2, <2>4, EmptyHeapKept DEF BuilderInv
<1>2. BuilderInv /\ [BuilderNext]_vars => BuilderInv'
  <2> SUFFICES ASSUME BuilderInv, [BuilderNext]_vars PROVE BuilderInv'
    OBVIOUS
  <2>1. CASE UNCHANGED vars
    BY <2>1 DEF vars, BuilderInv, AskInv, Lent
  <2>2. CASE BuilderNext
    BY <2>2, CallsAsk, InputGoes, MakeStep, ParseStep, AttachStep, FreeStep, NullStep
       DEF BuilderNext
  <2> QED BY <2>1, <2>2
<1> QED BY <1>1, <1>2, PTL DEF BuilderSpec

\* src/value.c: every block belongs to exactly one tree of the caller's, and
\* none was freed twice or by another allocator than its own.
THEOREM OwnershipHolds == BuilderSpec => []Ownership
<1>1. BuilderInv => Ownership
  BY ForestOwns DEF BuilderInv, Kept, Ownership
<1> QED BY <1>1, BuilderInvariance, PTL

\* Nothing points into the input when it is gone: strings that are cloned from
\* a parsed tree, at any depth, have copies of their own.
THEOREM DetachedHolds == BuilderSpec => []Detached
<1>1. BuilderInv => Detached
  BY DEF BuilderInv, Kept, Lent, Borrowed, Detached
<1> QED BY <1>1, BuilderInvariance, PTL

\* The search of a sorted array finds the value of a key, and of no other.
LEMMA KeyIsFound ==
  ASSUME NEW entries \in Seq(EntryType), Sorted(entries), NEW key \in Bytes
  PROVE  LET s == dict_search(entries, key)
         IN  { k \in DOMAIN entries : entries[k].key = key } = IF s.match THEN {s.index} ELSE {}
<1> DEFINE s == dict_search(entries, key)
           len == Len(entries)
<1>1. len \in Nat /\ DOMAIN entries = 1..len
  BY LenProperties
<1>2. SearchOf(entries, key, s)
  BY DictSearch
<1>3. ASSUME NEW k \in DOMAIN entries, entries[k].key = key PROVE s.match /\ s.index = k
  <2>1. dict_search(entries, entries[k].key) = [index |-> k, match |-> TRUE]
    BY DictSearchFinds
  <2>2. s = [index |-> k, match |-> TRUE]
    BY <1>3, <2>1
  <2> HIDE DEF s
  <2> QED BY <2>2
<1> HIDE DEF s, len
<1>4. s.match => s.index \in DOMAIN entries /\ entries[s.index].key = key
  BY <1>1, <1>2 DEF SearchOf, len
<1> QED BY <1>3, <1>4 DEF s

\* bencode_dict_get finds each key that was set and no other, and
\* bencode_dict_at lists them in ascending order.
THEOREM EveryKeyFoundHolds == BuilderSpec => []EveryKeyFound
<1>1. ASSUME BuilderInv PROVE EveryKeyFound
  <2> SUFFICES ASSUME NEW n \in DOMAIN heap.node, heap.node[n].type = "DICT"
               PROVE  LET entries == heap.node[n].entries
                          valueOf(key) == { entries[k].value : k \in { j \in DOMAIN entries : entries[j].key = key } }
                      IN  /\ \A key \in Keys :
                               valueOf(key) = {bencode_dict_get(heap, n, key)} \ {NULL}
                          /\ \A k \in 1..(bencode_dict_size(heap, n) - 1) :
                               KeyBefore(bencode_dict_at(heap, n, k - 1).value.key,
                                         bencode_dict_at(heap, n, k).value.key)
    BY DEF EveryKeyFound
  <2> DEFINE entries == heap.node[n].entries
             len == Len(entries)
  <2>1. HeapType(heap) /\ OneParent(heap) /\ Ordered(heap) /\ NULL \notin DOMAIN heap.node
    BY <1>1, ForestFacts DEF BuilderInv, Kept, ForestOf
  <2>2. entries \in Seq(EntryType) /\ Sorted(entries) /\ len \in Nat /\ DOMAIN entries = 1..len
    BY <2>1, NodeFacts DEF Ordered
  <2>3. n # NULL /\ bencode_value_type(heap, n) = "DICT" /\ bencode_dict_size(heap, n) = len
    BY <2>1 DEF bencode_value_type, bencode_dict_size
  <2>4. \A k \in DOMAIN entries : entries[k].value # NULL
    BY <2>1 DEF OneParent
  <2>5. ASSUME NEW key \in Keys
        PROVE  { entries[k].value : k \in { j \in DOMAIN entries : entries[j].key = key } }
                 = {bencode_dict_get(heap, n, key)} \ {NULL}
    <3> DEFINE s == dict_search(entries, key)
               at == { j \in DOMAIN entries : entries[j].key = key }
    <3>1. bencode_dict_get(heap, n, key) = IF s.match THEN entries[s.index].value ELSE NULL
      BY <2>3 DEF bencode_dict_get
    <3>2. key \in Bytes
      BY BuilderAssumption
    <3> HIDE DEF entries
    <3>3. at = IF s.match THEN {s.index} ELSE {}
      BY <2>2, <3>2, KeyIsFound
    <3>4. s.match => s.index \in DOMAIN entries
      BY <3>3
    <3> HIDE DEF s, at
    <3>5. { entries[k].value : k \in at } = {bencode_dict_get(heap, n, key)} \ {NULL}
      BY <2>4, <3>1, <3>3, <3>4
    <3> QED BY <3>5 DEF at
  <2>6. ASSUME NEW k \in 1..(len - 1)
        PROVE  KeyBefore(bencode_dict_at(heap, n, k - 1).value.key, bencode_dict_at(heap, n, k).value.key)
    <3> HIDE DEF len
    <3>1. k - 1 < len /\ k < len /\ (k - 1) + 1 = k /\ k \in 1..len /\ k + 1 \in 1..len /\ k < k + 1
      BY <2>2, <2>6
    <3>2. /\ bencode_dict_at(heap, n, k - 1).value = entries[k]
          /\ bencode_dict_at(heap, n, k).value = entries[k + 1]
      BY <2>3, <3>1 DEF bencode_dict_at, Read
    <3>3. KeyBefore(entries[k].key, entries[k + 1].key)
      BY <2>2, <3>1 DEF Sorted
    <3> QED BY <3>2, <3>3
  <2> QED BY <2>3, <2>5, <2>6
<1> QED BY <1>1, BuilderInvariance, PTL

---------------------------------------------------------------------------
(* What the caller sees of the heap.                                       *)

\* The children of a node, by position or by key.
KidsOf(nd) ==
  LET position(key) == CHOOSE k \in DOMAIN nd.entries : nd.entries[k].key = key
  IN  IF nd.type = "DICT"
      THEN [key \in { nd.entries[k].key : k \in DOMAIN nd.entries } |->
              nd.entries[position(key)].value]
      ELSE [k \in DOMAIN nd.entries |-> nd.entries[k].value]

View(nd) == [type |-> nd.type, i |-> nd.i, data |-> nd.bytes, kids |-> KidsOf(nd)]

\* The values of ValueForest.
Nodes(m) == [n \in DOMAIN m.node |-> Contents(m, n)]

LEMMA NodesAreViews ==
  ASSUME NEW m
  PROVE  DOMAIN Nodes(m) = DOMAIN m.node /\ \A n \in DOMAIN m.node : Nodes(m)[n] = View(m.node[n])
<1>1. ASSUME NEW n PROVE Contents(m, n) = View(m.node[n])
  BY DEF Contents, View, KidsOf
<1> QED BY <1>1 DEF Nodes

\* A node whose entries, if it is a dict, are sorted.
Proper(nd) == nd \in NodeType /\ (nd.type = "DICT" => Sorted(nd.entries))

LEMMA EntriesTyped ==
  ASSUME NEW entries \in Seq(EntryType)
  PROVE  /\ Len(entries) \in Nat /\ DOMAIN entries = 1..Len(entries)
         /\ \A k \in DOMAIN entries : entries[k].key \in Bytes /\ entries[k].value \in Nat
<1>1. Len(entries) \in Nat /\ DOMAIN entries = 1..Len(entries)
  BY LenProperties
<1>2. \A k \in DOMAIN entries : entries[k] \in EntryType
  BY <1>1, ElementOfSeq
<1> QED BY <1>1, <1>2 DEF EntryType

LEMMA SortedKeysDiffer ==
  ASSUME NEW entries \in Seq(EntryType), Sorted(entries),
         NEW j \in DOMAIN entries, NEW k \in DOMAIN entries, entries[j].key = entries[k].key
  PROVE  j = k
<1>1. j \in Int /\ k \in Int
  BY LenProperties
<1>2. entries[j].key \in Bytes /\ entries[k].key \in Bytes
  BY EntriesTyped
<1>3. ~KeyBefore(entries[j].key, entries[k].key) /\ ~KeyBefore(entries[k].key, entries[j].key)
  BY <1>2, KeyBeforeIrreflexive
<1>4. ~(j < k) /\ ~(k < j)
  BY <1>3 DEF Sorted
<1> QED BY <1>1, <1>4

\* The keys of a dict.
KeysOf(nd) == { nd.entries[k].key : k \in DOMAIN nd.entries }

LEMMA KidsOfDict ==
  ASSUME NEW nd, Proper(nd), nd.type = "DICT"
  PROVE  /\ KidsOf(nd) \in [KeysOf(nd) -> Nat] /\ DOMAIN KidsOf(nd) = KeysOf(nd)
         /\ \A k \in DOMAIN nd.entries : KidsOf(nd)[nd.entries[k].key] = nd.entries[k].value
<1> DEFINE entries == nd.entries
           position(key) == CHOOSE k \in DOMAIN entries : entries[k].key = key
<1>1. entries \in Seq(EntryType) /\ Sorted(entries)
  BY DEF Proper, NodeType
<1>2. \A k \in DOMAIN entries : entries[k].value \in Nat
  BY <1>1, EntriesTyped
<1>3. KidsOf(nd) = [key \in KeysOf(nd) |-> entries[position(key)].value]
  BY DEF KidsOf, KeysOf
<1>4. ASSUME NEW k \in DOMAIN entries
      PROVE  position(entries[k].key) = k
  <2>1. /\ position(entries[k].key) \in DOMAIN entries
        /\ entries[position(entries[k].key)].key = entries[k].key
    OBVIOUS
  <2> HIDE DEF position, entries
  <2> QED BY <1>1, <2>1, SortedKeysDiffer
<1> HIDE DEF position
<1>5. \A key \in KeysOf(nd) : entries[position(key)].value \in Nat
  BY <1>2, <1>4 DEF KeysOf
<1>6. \A k \in DOMAIN entries : entries[k].key \in KeysOf(nd)
  BY DEF KeysOf
<1> HIDE DEF entries
<1> QED BY <1>3, <1>4, <1>5, <1>6 DEF entries

LEMMA KidsOfOthers ==
  ASSUME NEW nd, Proper(nd), nd.type # "DICT"
  PROVE  /\ KidsOf(nd) \in Seq(Nat) /\ Len(KidsOf(nd)) = Len(nd.entries) /\ Len(nd.entries) \in Nat
         /\ DOMAIN KidsOf(nd) = DOMAIN nd.entries /\ DOMAIN nd.entries = 1..Len(nd.entries)
         /\ \A k \in DOMAIN nd.entries : KidsOf(nd)[k] = nd.entries[k].value
<1>1. nd.entries \in Seq(EntryType)
  BY DEF Proper, NodeType
<1>2. Len(nd.entries) \in Nat /\ DOMAIN nd.entries = 1..Len(nd.entries)
  BY <1>1, LenProperties
<1>3. \A k \in DOMAIN nd.entries : nd.entries[k].value \in Nat
  BY <1>1, EntriesTyped
<1>4. KidsOf(nd) = [k \in 1..Len(nd.entries) |-> nd.entries[k].value]
  BY <1>2 DEF KidsOf
<1> DEFINE len == Len(nd.entries)
<1> HIDE DEF len
<1>5. KidsOf(nd) \in Seq(Nat) /\ Len(KidsOf(nd)) = len
  <2> DEFINE g == [k \in 1..len |-> nd.entries[k].value]
  <2>1. len \in Nat /\ \A k \in 1..len : nd.entries[k].value \in Nat
    BY <1>2, <1>3 DEF len
  <2>2. g \in Seq(Nat) /\ Len(g) = len
    BY <2>1, IsASeq
  <2> QED BY <1>4, <2>2 DEF len
<1> QED BY <1>2, <1>4, <1>5 DEF len

\* The children are those of the heap.
LEMMA KidsAreChildren ==
  ASSUME NEW nd, Proper(nd)
  PROVE  /\ \A k \in DOMAIN KidsOf(nd) : \E j \in DOMAIN nd.entries : KidsOf(nd)[k] = nd.entries[j].value
         /\ \A j \in DOMAIN nd.entries : \E k \in DOMAIN KidsOf(nd) : KidsOf(nd)[k] = nd.entries[j].value
<1>1. CASE nd.type = "DICT"
  <2>1. /\ DOMAIN KidsOf(nd) = KeysOf(nd)
        /\ \A j \in DOMAIN nd.entries : KidsOf(nd)[nd.entries[j].key] = nd.entries[j].value
    BY <1>1, KidsOfDict
  <2>2. ASSUME NEW k \in KeysOf(nd) PROVE \E j \in DOMAIN nd.entries : KidsOf(nd)[k] = nd.entries[j].value
    <3>1. PICK j \in DOMAIN nd.entries : k = nd.entries[j].key
      BY <2>2 DEF KeysOf
    <3> QED BY <2>1, <3>1
  <2>3. \A j \in DOMAIN nd.entries : nd.entries[j].key \in KeysOf(nd)
    BY DEF KeysOf
  <2> QED BY <2>1, <2>2, <2>3
<1>2. CASE nd.type # "DICT"
  BY <1>2, KidsOfOthers
<1> QED BY <1>1, <1>2

\* A node without entries.
LEMMA NoKids ==
  ASSUME NEW nd, nd \in NodeType, nd.entries = <<>>
  PROVE  KidsOf(nd) = <<>>
<1>1. DOMAIN nd.entries = {} /\ { nd.entries[k].key : k \in DOMAIN nd.entries } = {}
  OBVIOUS
<1>2. CASE nd.type = "DICT"
  <2>1. KidsOf(nd) \in [{} -> Nat]
    BY <1>1, <1>2 DEF KidsOf
  <2>2. <<>> \in [{} -> Nat]
    OBVIOUS
  <2> QED BY <2>1, <2>2
<1>3. CASE nd.type # "DICT"
  <2>1. KidsOf(nd) \in [{} -> Nat]
    BY <1>1, <1>3 DEF KidsOf
  <2>2. <<>> \in [{} -> Nat]
    OBVIOUS
  <2> QED BY <2>1, <2>2
<1> QED BY <1>2, <1>3

LEMMA ViewFields ==
  ASSUME NEW nd
  PROVE  /\ View(nd).type = nd.type /\ View(nd).i = nd.i
         /\ View(nd).data = nd.bytes /\ View(nd).kids = KidsOf(nd)
BY DEF View

LEMMA NodesAreProper ==
  ASSUME NEW m, Trees(m), NEW n \in DOMAIN m.node
  PROVE  Proper(m.node[n])
<1>1. HeapType(m) /\ Ordered(m)
  BY ForestFacts
<1> QED BY <1>1, NodeFacts DEF Ordered, Proper

\* Kids and Below of ValueForest, as operators of the values.
KidsIn(N, p) == { N[p].kids[k] : k \in DOMAIN N[p].kids }

BelowIn(N, n) ==
  LET level[d \in Nat] ==
        IF d = 0 THEN {n} \cap DOMAIN N ELSE UNION { KidsIn(N, p) : p \in level[d - 1] }
  IN  UNION { level[d] : d \in 0..Cardinality(DOMAIN N) }

LEMMA KidsInAreChildren ==
  ASSUME NEW m, Trees(m), NEW p \in DOMAIN m.node
  PROVE  KidsIn(Nodes(m), p) = Children(m, p)
<1> DEFINE nd == m.node[p]
           kids == KidsOf(nd)
<1>1. Nodes(m)[p].kids = kids
  <2>1. Nodes(m)[p] = View(nd)
    BY NodesAreViews
  <2> HIDE DEF nd
  <2> QED BY <2>1, ViewFields
<1>2. /\ \A k \in DOMAIN kids : \E j \in DOMAIN nd.entries : kids[k] = nd.entries[j].value
      /\ \A j \in DOMAIN nd.entries : \E k \in DOMAIN kids : kids[k] = nd.entries[j].value
  BY NodesAreProper, KidsAreChildren
<1>3. Children(m, p) = { nd.entries[j].value : j \in DOMAIN nd.entries }
  BY DEF Children
<1>4. KidsIn(Nodes(m), p) = { kids[k] : k \in DOMAIN kids }
  BY <1>1 DEF KidsIn
<1> HIDE DEF kids, nd
<1> QED BY <1>2, <1>3, <1>4

\* The tree of a node, without the heap.
LEMMA BelowIsTree ==
  ASSUME NEW m, Trees(m), NEW n \in DOMAIN m.node \cup {NULL}
  PROVE  BelowIn(Nodes(m), n) = Tree(m, n)
<1> DEFINE N == Nodes(m)
           D == DOMAIN m.node
           G(g) == [d \in Nat |-> IF d = 0 THEN {n} \cap DOMAIN N
                                  ELSE UNION { KidsIn(N, p) : p \in g[d - 1] }]
           level == CHOOSE g : g = G(g)
<1>1. /\ HeapType(m) /\ HeldOnce(m, {}) /\ n \in Nat /\ DOMAIN N = D /\ NULL \notin D
      /\ \A p : Children(m, p) \subseteq D
  BY ForestFacts, NodesAreViews DEF NULL
<1>2. PICK L : Levels(m, n, L)
  BY <1>1, TreeHasLevels
<1> DEFINE T == { d \in Nat : L[d] \subseteq D }
<1>3. L[0] = {n} \cap D /\ 0 \in T
  BY <1>1, <1>2 DEF Levels
<1>4. ASSUME NEW d \in Nat, d \in T PROVE d + 1 \in T
  <2>1. L[d + 1] = UNION { Children(m, p) : p \in L[d] }
    BY <1>2 DEF Levels
  <2> QED BY <1>1, <2>1
<1>5. Nat \subseteq T
  <2> HIDE DEF T
  <2> QED BY <1>3, <1>4, InductionOverSet
<1>6. ASSUME NEW d \in Nat
      PROVE  L[d + 1] = UNION { KidsIn(N, p) : p \in L[d] }
  <2>1. L[d] \subseteq D
    BY <1>5
  <2>2. \A p \in L[d] : KidsIn(N, p) = Children(m, p)
    BY <2>1, KidsInAreChildren
  <2>3. L[d + 1] = UNION { Children(m, p) : p \in L[d] }
    BY <1>2 DEF Levels
  <2> QED BY <2>2, <2>3
<1>7. ASSUME NEW d \in Nat, d # 0
      PROVE  L[d] = UNION { KidsIn(N, p) : p \in L[d - 1] }
  <2>1. d - 1 \in Nat /\ (d - 1) + 1 = d
    BY <1>7
  <2> QED BY <1>6, <2>1
<1>8. L = G(L)
  <2>1. L \in [Nat -> SUBSET Nat]
    BY <1>2 DEF Levels
  <2> QED BY <1>1, <1>3, <1>7, <2>1
<1>9. level = G(level)
  <2> HIDE DEF G
  <2> QED BY <1>8
<1> HIDE DEF level
<1> DEFINE Q == { d \in Nat : level[d] = L[d] }
<1>10. 0 \in Q
  BY <1>1, <1>3, <1>9
<1>11. ASSUME NEW d \in Nat, d \in Q PROVE d + 1 \in Q
  <2>1. d + 1 \in Nat /\ d + 1 # 0 /\ (d + 1) - 1 = d
    OBVIOUS
  <2>2. level[d + 1] = UNION { KidsIn(N, p) : p \in level[d] }
    BY <1>9, <2>1
  <2>3. level[d] = L[d]
    BY <1>11
  <2>4. level[d + 1] = L[d + 1]
    <3> HIDE DEF N
    <3> QED BY <1>6, <2>2, <2>3
  <2> QED BY <2>1, <2>4
<1>12. Nat \subseteq Q
  <2> HIDE DEF Q
  <2> QED BY <1>10, <1>11, InductionOverSet
<1>13. BelowIn(N, n) = UNION { level[d] : d \in 0..Cardinality(DOMAIN N) }
  BY DEF BelowIn, level
<1>14. Tree(m, n) = UNION { L[d] : d \in 0..Cardinality(D) }
  BY <1>2 DEF Levels
<1>15. \A d \in 0..Cardinality(D) : level[d] = L[d]
  <2>1. Cardinality(D) \in Nat
    BY <1>1, NodesAreFinite
  <2> QED BY <1>12, <2>1
<1> QED BY <1>1, <1>13, <1>14, <1>15

---------------------------------------------------------------------------
(* ValueForest, step by step.                                              *)

\* What the instance counts with is FiniteSets' too.
LEMMA SameCardinality ==
  ASSUME NEW S
  PROVE  Forest!Cardinality(S) = Cardinality(S)
BY DEF Forest!Cardinality, Cardinality, Forest!IsFiniteSet, IsFiniteSet

LEMMA ForestBelow ==
  ASSUME Trees(heap), NEW n \in DOMAIN heap.node \cup {NULL}
  PROVE  Forest!Below(n) = Tree(heap, n)
<1>1. Forest!Below(n) = BelowIn(Nodes(heap), n)
  BY SameCardinality DEF Forest!Below, Forest!Kids, BelowIn, KidsIn, Nodes
<1> QED BY <1>1, BelowIsTree

LEMMA ForestNodes ==
  ASSUME BuilderInv
  PROVE  /\ Trees(heap) /\ ForestOf(heap, roots) /\ WellMade(heap) /\ HeapType(heap)
         /\ roots \subseteq DOMAIN heap.node /\ NULL \notin DOMAIN heap.node
         /\ DOMAIN Nodes(heap) = DOMAIN heap.node
         /\ \A n \in DOMAIN heap.node : Nodes(heap)[n] = View(heap.node[n])
<1>1. Trees(heap) /\ ForestOf(heap, roots) /\ WellMade(heap) /\ roots \subseteq DOMAIN heap.node
  BY DEF BuilderInv, Kept, ForestOf, Parentless
<1> QED BY <1>1, ForestFacts, NodesAreViews

\* What the caller asks for is its to ask.
LEMMA CallersRights == BuilderInv => Forest!Rightful
<1> SUFFICES ASSUME BuilderInv PROVE Forest!Rightful
  OBVIOUS
<1>1. Trees(heap) /\ roots \subseteq DOMAIN heap.node /\ DOMAIN Nodes(heap) = DOMAIN heap.node
  BY ForestNodes
<1>2. /\ ask.op \in {"append", "set"} => Givable(heap, roots, ask.node, ask.child)
      /\ ask.op = "free" => ask.node \in roots \cup {NULL}
      /\ ask.op = "clone" => ask.node \in DOMAIN heap.node \cup {NULL}
  BY DEF BuilderInv, AskInv
<1>3. ask.op \in {"append", "set"} =>
        /\ ask.child \in roots \cup {0}
        /\ ask.node \in (DOMAIN Nodes(heap) \ Forest!Below(ask.child)) \cup {0}
  BY <1>1, <1>2, ForestBelow DEF Givable, NULL
<1> QED BY <1>1, <1>2, <1>3 DEF Forest!Rightful, Nodes, NULL

LEMMA CallIsAsk ==
  ASSUME BuilderInv, BuilderInv', NEW request, Call(request), request.op # "none"
  PROVE  Forest!Ask
<1>1. /\ ask = Forest!Idle /\ ask' = request /\ answer' = <<>>
      /\ heap' = heap /\ roots' = roots
  BY DEF Call
<1>2. Forest!Idle.op = "none"
  BY DEF Forest!Idle, Forest!Request
<1>3. ask' # Forest!Idle
  BY <1>1, <1>2
<1>4. Forest!Rightful'
  BY CallersRights, PTL
<1>5. Nodes(heap') = Nodes(heap)
  BY <1>1
<1> QED BY <1>1, <1>3, <1>4, <1>5 DEF Forest!Ask, Nodes

LEMMA CallsAreAsked ==
  ASSUME BuilderInv, BuilderInv',
         CallMake \/ CallAppend \/ CallSet \/ CallClone \/ CallFree \/ CallWithNull
  PROVE  Forest!Ask
<1> USE DEF Request, Forest!Request
<1>1. CASE CallMake
  <2>1. PICK v \in NewValues :
          Call([Request(v[1]) EXCEPT !.alloc = v[2], !.data = v[3], !.i = Len(v[3])])
    BY <1>1 DEF CallMake
  <2>2. v[1] # "none"
    BY BuilderAssumption
  <2> DEFINE request == [Request(v[1]) EXCEPT !.alloc = v[2], !.data = v[3], !.i = Len(v[3])]
  <2>3. request.op # "none"
    BY <2>2
  <2> HIDE DEF request
  <2> QED BY <2>1, <2>3, CallIsAsk DEF request
<1>2. CASE CallAppend
  <2>1. PICK child \in roots \cup {NULL} : \E list \in Containers(child) :
          Call([Request("append") EXCEPT !.node = list, !.child = child])
    BY <1>2 DEF CallAppend
  <2>2. PICK list \in Containers(child) :
          Call([Request("append") EXCEPT !.node = list, !.child = child])
    BY <2>1
  <2> DEFINE request == [Request("append") EXCEPT !.node = list, !.child = child]
  <2>3. request.op # "none" /\ Call(request)
    BY <2>2
  <2> HIDE DEF request
  <2> QED BY <2>3, CallIsAsk
<1>3. CASE CallSet
  <2>1. PICK child \in roots \cup {NULL}, key \in Keys : \E dict \in Containers(child) :
          Call([Request("set") EXCEPT !.node = dict, !.key = key, !.child = child])
    BY <1>3 DEF CallSet
  <2>2. PICK dict \in Containers(child) :
          Call([Request("set") EXCEPT !.node = dict, !.key = key, !.child = child])
    BY <2>1
  <2> DEFINE request == [Request("set") EXCEPT !.node = dict, !.key = key, !.child = child]
  <2>3. request.op # "none" /\ Call(request)
    BY <2>2
  <2> HIDE DEF request
  <2> QED BY <2>3, CallIsAsk
<1>4. CASE CallClone
  <2>1. PICK v \in DOMAIN heap.node \cup {NULL}, a \in CloneInto :
          Call([Request("clone") EXCEPT !.node = v, !.alloc = a])
    BY <1>4 DEF CallClone
  <2> DEFINE request == [Request("clone") EXCEPT !.node = v, !.alloc = a]
  <2>2. request.op # "none" /\ Call(request)
    BY <2>1
  <2> HIDE DEF request
  <2> QED BY <2>2, CallIsAsk
<1>5. CASE CallFree
  <2>1. PICK v \in roots \cup {NULL} : Call([Request("free") EXCEPT !.node = v])
    BY <1>5 DEF CallFree
  <2> DEFINE request == [Request("free") EXCEPT !.node = v]
  <2>2. request.op # "none" /\ Call(request)
    BY <2>1
  <2> HIDE DEF request
  <2> QED BY <2>2, CallIsAsk
<1>6. CASE CallWithNull
  <2> DEFINE request == Request("with_null")
  <2>1. request.op # "none" /\ Call(request)
    BY <1>6 DEF CallWithNull
  <2> HIDE DEF request
  <2> QED BY <2>1, CallIsAsk
<1> QED BY <1>1, <1>2, <1>3, <1>4, <1>5, <1>6

\* What the library refuses.
LEMMA Refuses ==
  ASSUME BuilderInv
  PROVE  /\ ask.op \in Forest!Makes \cup {"clone"} => (Forest!Refused <=> ask.alloc = "partial")
         /\ ask.op = "append" =>
              (Forest!Refused <=> \/ ask.node = NULL \/ ask.child = NULL
                                  \/ heap.node[ask.node].type # "LIST")
         /\ ask.op = "set" =>
              (Forest!Refused <=> \/ ask.node = NULL \/ ask.child = NULL
                                  \/ heap.node[ask.node].type # "DICT")
         /\ ask.op = "with_null" => Forest!Refused
<1>1. ask.op \in {"append", "set"} => ask.node \in DOMAIN heap.node \cup {NULL}
  BY DEF BuilderInv, AskInv, Givable
<1>2. ask.node \in DOMAIN heap.node => Nodes(heap)[ask.node].type = heap.node[ask.node].type
  BY ForestNodes, ViewFields
<1>3. CASE ask.op \in Forest!Makes \cup {"clone"}
  BY <1>3 DEF Forest!Refused, Forest!Makes
<1>4. CASE ask.op = "append"
  BY <1>1, <1>2, <1>4 DEF Forest!Refused, Forest!Makes, NULL, Nodes
<1>5. CASE ask.op = "set"
  BY <1>1, <1>2, <1>5 DEF Forest!Refused, Forest!Makes, NULL, Nodes
<1>6. CASE ask.op = "with_null"
  BY <1>6 DEF Forest!Refused, Forest!Makes
<1> QED BY <1>3, <1>4, <1>5, <1>6 DEF Forest!Makes

\* A refusal leaves everything as it was.
LEMMA CallFails ==
  ASSUME Return(heap, answer'[1], NULL), roots' = roots,
         \/ answer'[1] = "INVALID_ARG" /\ Forest!Refused
         \/ /\ answer'[1] = "NOMEM" /\ ~Forest!Refused
            /\ ask.op \notin {"none", "free"} /\ ~Forest!Replaces /\ ~(ask.op = "clone" /\ ask.node = NULL)
  PROVE  Forest!Fail
<1>1. /\ heap' = heap /\ ask' = Forest!Idle
      /\ answer' = <<answer'[1], 0>>
  BY DEF Return, NULL
<1>2. Nodes(heap') = Nodes(heap)
  BY <1>1
<1>3. \/ Forest!Refused /\ Forest!Answer("INVALID_ARG", 0)
      \/ /\ ~Forest!Refused /\ ask.op \notin {"none", "free"} /\ ~Forest!Replaces
         /\ ~(ask.op = "clone" /\ ask.node = 0) /\ Forest!Answer("NOMEM", 0)
  BY <1>1 DEF Forest!Answer, NULL
<1> QED BY <1>1, <1>2, <1>3 DEF Forest!Fail, Nodes

\* A new value is what was asked for.
AskedFor(nd) ==
  /\ nd \in NodeType /\ nd.entries = <<>> /\ nd.alloc = ask.alloc
  /\ nd.i = (IF ask.op = "int_new" THEN ask.i ELSE 0)
  /\ nd.bytes = (IF ask.op \in {"string_new", "parse"} THEN ask.data ELSE <<>>)
  /\ nd.type = CASE ask.op = "int_new" -> "INT" [] ask.op \in {"string_new", "parse"} -> "STRING"
                 [] ask.op = "list_new" -> "LIST" [] ask.op = "dict_new" -> "DICT"

LEMMA ValueIsMade ==
  ASSUME BuilderInv, ask.op \in Forest!Makes, NEW nd, AskedFor(nd),
         NEW r, NEW copied, Made(heap, roots, r, nd, copied),
         Return(r.mem, r.status, r.ptr), roots' = roots \cup ({r.ptr} \ {NULL})
  PROVE  Forest!Make \/ Forest!Fail
<1> DEFINE x == r.ptr
<1>1. heap' = r.mem /\ ask' = Forest!Idle /\ answer' = <<r.status, x>>
  BY DEF Return
<1>2. CASE r.status # "OK"
  <2>1. /\ r.mem = heap /\ x = NULL /\ roots' = roots /\ answer'[1] = r.status
        /\ \/ r.status = "INVALID_ARG" /\ ask.alloc = "partial"
           \/ r.status = "NOMEM" /\ ask.alloc # "partial"
    BY <1>1, <1>2 DEF Made, AskedFor
  <2>2. Return(heap, answer'[1], NULL)
    BY <2>1
  <2>3. ask.op \notin {"none", "free", "clone", "set"}
    BY DEF Forest!Makes
  <2>4. ~Forest!Replaces
    BY <2>3 DEF Forest!Replaces
  <2>5. Forest!Refused <=> ask.alloc = "partial"
    BY Refuses
  <2> QED BY <2>1, <2>2, <2>3, <2>4, <2>5, CallFails
<1>3. CASE r.status = "OK"
  <2>1. /\ x # NULL /\ x \notin DOMAIN heap.node /\ nd.alloc # "partial"
        /\ DOMAIN r.mem.node = DOMAIN heap.node \cup {x}
        /\ \A n \in DOMAIN heap.node : r.mem.node[n] = heap.node[n]
    BY <1>3 DEF Made
  <2>2. PICK owned \in Nat : r.mem.node[x] = [nd EXCEPT !.owned = owned]
    BY <1>3 DEF Made
  <2> DEFINE new == [nd EXCEPT !.owned = owned]
             N == Nodes(heap)
             N2 == Nodes(r.mem)
             value == CASE ask.op = "int_new"               -> Forest!Value("INT", ask.i, <<>>)
                        [] ask.op \in {"string_new", "parse"} -> Forest!Value("STRING", 0, ask.data)
                        [] ask.op = "list_new"              -> Forest!Value("LIST", 0, <<>>)
                        [] ask.op = "dict_new"              -> Forest!Value("DICT", 0, <<>>)
  <2>3. /\ new \in NodeType /\ new.type = nd.type /\ new.i = nd.i /\ new.bytes = nd.bytes
        /\ new.entries = <<>>
    BY DEF NodeType, AskedFor
  <2>4. View(new) = [type |-> nd.type, i |-> nd.i, data |-> nd.bytes, kids |-> <<>>]
    <3> HIDE DEF new
    <3> QED BY <2>3, NoKids DEF View
  <2>5. View(new) = value
    <3> HIDE DEF new
    <3> QED BY <2>4 DEF AskedFor, Forest!Value, Forest!Makes
  <2>6. /\ DOMAIN N = DOMAIN heap.node /\ DOMAIN N2 = DOMAIN heap.node \cup {x}
        /\ \A n \in DOMAIN heap.node : N2[n] = N[n]
        /\ N2[x] = value
    <3> HIDE DEF new, value
    <3>1. r.mem.node[x] = new
      BY <2>2 DEF new
    <3>2. DOMAIN N = DOMAIN heap.node /\ \A n \in DOMAIN heap.node : N[n] = View(heap.node[n])
      BY NodesAreViews
    <3>3. DOMAIN N2 = DOMAIN r.mem.node /\ \A n \in DOMAIN r.mem.node : N2[n] = View(r.mem.node[n])
      BY NodesAreViews
    <3> HIDE DEF N, N2
    <3> QED BY <2>1, <2>5, <3>1, <3>2, <3>3
  <2> HIDE DEF value
  <2>7. N2 = Forest!Assign(N, x, value)
    <3>1. N2 = [n \in DOMAIN heap.node \cup {x} |-> N2[n]]
      BY <2>1 DEF Nodes
    <3> HIDE DEF N, N2
    <3> QED BY <2>1, <2>6, <3>1 DEF Forest!Assign
  <2>8. x \in DOMAIN N2 \ DOMAIN N
    BY <2>1, <2>6
  <2>9. ~Forest!Refused
    BY <2>1, Refuses DEF AskedFor
  <2>10. roots' = roots \cup {x} /\ Forest!Answer("OK", x)
    BY <1>1, <1>3, <2>1 DEF Forest!Answer
  <2> QED BY <1>1, <2>7, <2>8, <2>9, <2>10 DEF Forest!Make, Nodes, value
<1> QED BY <1>2, <1>3

\* An entry more, or the value of one, is all the caller sees of the rest.
LEMMA ViewWithKids ==
  ASSUME NEW nd, NEW nd2, nd2.type = nd.type, nd2.i = nd.i, nd2.bytes = nd.bytes
  PROVE  View(nd2) = [View(nd) EXCEPT !.kids = KidsOf(nd2)]
BY DEF View

\* Two maps of keys to children.
LEMMA SameMap ==
  ASSUME NEW S, NEW f \in [S -> Nat], NEW g \in [S -> Nat], \A x \in S : f[x] = g[x]
  PROVE  f = g
OBVIOUS

LEMMA KidsAppended ==
  ASSUME NEW nd, Proper(nd), nd.type = "LIST", NEW nd2, Proper(nd2), NEW e \in EntryType,
         OneMore(nd, nd2, Len(nd.entries) + 1, e)
  PROVE  KidsOf(nd2) = Append(KidsOf(nd), e.value)
<1> DEFINE len == Len(nd.entries)
           kids == KidsOf(nd)
           kids2 == KidsOf(nd2)
           new == Append(kids, e.value)
<1>1. nd.entries \in Seq(EntryType) /\ nd2.type = "LIST" /\ nd2.entries = InsertAt(nd.entries, len + 1, e)
  BY DEF Proper, NodeType, OneMore
<1>2. nd2.entries = Append(nd.entries, e)
  BY <1>1, InsertAtEnd
<1>3. /\ len \in Nat /\ Len(nd2.entries) = len + 1
      /\ \A k \in 1..len : nd2.entries[k] = nd.entries[k]
      /\ nd2.entries[len + 1] = e
  BY <1>1, <1>2, LenProperties, AppendProperties
<1>4. /\ kids \in Seq(Nat) /\ Len(kids) = len /\ DOMAIN nd.entries = 1..len
      /\ \A k \in 1..len : kids[k] = nd.entries[k].value
  BY KidsOfOthers
<1>5. /\ kids2 \in Seq(Nat) /\ Len(kids2) = len + 1 /\ DOMAIN nd2.entries = 1..(len + 1)
      /\ \A k \in 1..(len + 1) : kids2[k] = nd2.entries[k].value
  BY <1>1, <1>3, KidsOfOthers
<1>6. e.value \in Nat
  BY DEF EntryType
<1>7. /\ new \in Seq(Nat) /\ Len(new) = len + 1
      /\ \A k \in 1..len : new[k] = kids[k]
      /\ new[len + 1] = e.value
  <2> HIDE DEF kids, len
  <2> QED BY <1>4, <1>6, AppendProperties
<1> HIDE DEF kids, kids2, new, len
<1>8. ASSUME NEW k \in 1..(len + 1) PROVE kids2[k] = new[k]
  <2>1. kids2[k] = nd2.entries[k].value
    BY <1>5
  <2>2. CASE k = len + 1
    BY <1>3, <1>7, <2>1, <2>2
  <2>3. CASE k # len + 1
    <3>1. k \in 1..len
      BY <1>3, <2>3
    <3> QED BY <1>3, <1>4, <1>7, <2>1, <3>1
  <2> QED BY <2>2, <2>3
<1>9. kids2 \in [1..(len + 1) -> Nat] /\ new \in [1..(len + 1) -> Nat]
  BY <1>5, <1>7, LenProperties
<1>10. kids2 = new
  <2> DEFINE S == 1..(len + 1)
  <2>1. kids2 \in [S -> Nat] /\ new \in [S -> Nat] /\ \A k \in S : kids2[k] = new[k]
    BY <1>8, <1>9
  <2> HIDE DEF S
  <2> QED BY <2>1, SameMap
<1> QED BY <1>10 DEF kids2, new, kids

\* A dict whose keys and values are those of nd, but for one key.
LEMMA KidsAssigned ==
  ASSUME NEW nd, Proper(nd), nd.type = "DICT", NEW nd2, Proper(nd2), nd2.type = "DICT",
         NEW key, NEW child \in Nat,
         KeysOf(nd2) = KeysOf(nd) \cup {key},
         \A k \in DOMAIN nd2.entries :
           \/ nd2.entries[k].key = key /\ nd2.entries[k].value = child
           \/ /\ nd2.entries[k].key # key
              /\ \E j \in DOMAIN nd.entries : /\ nd.entries[j].key = nd2.entries[k].key
                                              /\ nd.entries[j].value = nd2.entries[k].value
  PROVE  KidsOf(nd2) = Forest!Assign(KidsOf(nd), key, child)
<1> DEFINE f == KidsOf(nd)
           g == KidsOf(nd2)
           h == Forest!Assign(f, key, child)
<1>1. f \in [KeysOf(nd) -> Nat] /\ \A j \in DOMAIN nd.entries : f[nd.entries[j].key] = nd.entries[j].value
  BY KidsOfDict
<1>2. /\ g \in [KeysOf(nd) \cup {key} -> Nat]
      /\ \A k \in DOMAIN nd2.entries : g[nd2.entries[k].key] = nd2.entries[k].value
  BY KidsOfDict
<1> HIDE DEF f, g
<1>3. /\ h \in [KeysOf(nd) \cup {key} -> Nat]
      /\ \A y \in KeysOf(nd) \cup {key} : h[y] = IF y = key THEN child ELSE f[y]
  <2> DEFINE S == KeysOf(nd)
  <2>1. f \in [S -> Nat]
    BY <1>1
  <2> HIDE DEF S
  <2>2. /\ Forest!Assign(f, key, child) \in [S \cup {key} -> Nat]
        /\ \A y \in S \cup {key} : Forest!Assign(f, key, child)[y] = IF y = key THEN child ELSE f[y]
    BY <2>1 DEF Forest!Assign
  <2> QED BY <2>2 DEF S
<1> HIDE DEF h
<1>4. ASSUME NEW y \in KeysOf(nd) \cup {key} PROVE g[y] = h[y]
  <2>1. PICK k \in DOMAIN nd2.entries : y = nd2.entries[k].key
    BY <1>4 DEF KeysOf
  <2> QED BY <1>1, <1>2, <1>3, <2>1
<1>5. g = h
  <2> DEFINE S == KeysOf(nd) \cup {key}
  <2> HIDE DEF S
  <2>1. g \in [S -> Nat] /\ h \in [S -> Nat] /\ \A y \in S : g[y] = h[y]
    BY <1>2, <1>3, <1>4 DEF S
  <2> QED BY <2>1, SameMap
<1> QED BY <1>5 DEF f, g, h

LEMMA KidsPut ==
  ASSUME NEW nd, Proper(nd), nd.type = "DICT", NEW nd2, Proper(nd2),
         NEW e \in EntryType, NEW i \in 1..(Len(nd.entries) + 1), OneMore(nd, nd2, i, e),
         \A k \in DOMAIN nd.entries : nd.entries[k].key # e.key
  PROVE  KidsOf(nd2) = Forest!Assign(KidsOf(nd), e.key, e.value)
<1> DEFINE s == nd.entries
           t == nd2.entries
           len == Len(s)
<1>1. s \in Seq(EntryType) /\ nd2.type = "DICT" /\ t = InsertAt(s, i, e)
  BY DEF Proper, NodeType, OneMore
<1>2. /\ len \in Nat /\ DOMAIN s = 1..len /\ DOMAIN t = 1..(len + 1)
      /\ t[i] = e
      /\ \A k \in 1..len : k < i => t[k] = s[k]
      /\ \A k \in 1..len : k >= i => t[k + 1] = s[k]
  <2>1. s \in Seq(EntryType) /\ e \in EntryType /\ i \in 1..(Len(s) + 1) /\ t = InsertAt(s, i, e)
    BY <1>1
  <2> HIDE DEF s, t
  <2>2. /\ Len(s) \in Nat
        /\ DOMAIN s = 1..Len(s) /\ DOMAIN InsertAt(s, i, e) = 1..(Len(s) + 1)
        /\ InsertAt(s, i, e)[i] = e
        /\ \A k \in 1..Len(s) : k < i => InsertAt(s, i, e)[k] = s[k]
        /\ \A k \in 1..Len(s) : k >= i => InsertAt(s, i, e)[k + 1] = s[k]
    BY <2>1, InsertFacts
  <2> QED BY <2>1, <2>2
<1>3. i \in Int /\ i \in 1..(len + 1)
  BY <1>2
<1> HIDE DEF s, t, len
<1>4. ASSUME NEW k \in DOMAIN t
      PROVE  k = i \/ \E j \in DOMAIN s : t[k] = s[j]
  <2>1. CASE k < i
    <3>1. k \in 1..len
      BY <1>2, <1>3, <2>1
    <3> QED BY <1>2, <2>1, <3>1
  <2>2. CASE k > i
    <3>1. k - 1 \in 1..len /\ k - 1 >= i /\ (k - 1) + 1 = k
      BY <1>2, <1>3, <2>2
    <3> QED BY <1>2, <3>1
  <2> QED BY <1>2, <1>3, <2>1, <2>2
<1>5. ASSUME NEW k \in DOMAIN s PROVE \E j \in DOMAIN t : t[j] = s[k]
  <2>1. CASE k < i
    <3>1. k \in DOMAIN t
      BY <1>2
    <3> QED BY <1>2, <2>1, <3>1
  <2>2. CASE k >= i
    <3>1. k + 1 \in DOMAIN t
      BY <1>2
    <3> QED BY <1>2, <2>2, <3>1
  <2> QED BY <1>2, <1>3, <2>1, <2>2
<1>6. i \in DOMAIN t
  BY <1>2, <1>3
<1>7. KeysOf(nd2) = KeysOf(nd) \cup {e.key}
  <2>1. ASSUME NEW x \in KeysOf(nd2) PROVE x \in KeysOf(nd) \cup {e.key}
    <3>1. PICK k \in DOMAIN t : x = t[k].key
      BY <2>1 DEF KeysOf, t
    <3> QED BY <1>2, <1>4, <3>1 DEF KeysOf, s
  <2>2. ASSUME NEW x \in KeysOf(nd) PROVE x \in KeysOf(nd2)
    <3>1. PICK k \in DOMAIN s : x = s[k].key
      BY <2>2 DEF KeysOf, s
    <3> QED BY <1>5, <3>1 DEF KeysOf, t
  <2>3. e.key \in KeysOf(nd2)
    BY <1>2, <1>6 DEF KeysOf, t
  <2> QED BY <2>1, <2>2, <2>3
<1>8. e.value \in Nat
  BY DEF EntryType
<1>9. \A k \in DOMAIN t :
        \/ t[k].key = e.key /\ t[k].value = e.value
        \/ /\ t[k].key # e.key
           /\ \E j \in DOMAIN s : s[j].key = t[k].key /\ s[j].value = t[k].value
  BY <1>2, <1>4 DEF s
<1> QED BY <1>1, <1>7, <1>8, <1>9, KidsAssigned DEF s, t

LEMMA KidsLed ==
  ASSUME NEW nd, Proper(nd), nd.type = "DICT", NEW i \in DOMAIN nd.entries, NEW child \in Nat,
         NEW nd2, nd2 = Leading(nd, i, child), Proper(nd2)
  PROVE  KidsOf(nd2) = Forest!Assign(KidsOf(nd), nd.entries[i].key, child)
<1> DEFINE s == nd.entries
           t == nd2.entries
<1>1. nd \in NodeType /\ s \in Seq(EntryType) /\ Sorted(s)
  BY DEF Proper, NodeType
<1>2. /\ nd2.type = "DICT" /\ DOMAIN t = DOMAIN s
      /\ \A k \in DOMAIN s : t[k].key = s[k].key /\ t[k].value = IF k = i THEN child ELSE s[k].value
  BY <1>1, LeadingFacts
<1>3. \A k \in DOMAIN s : k # i => s[k].key # s[i].key
  BY <1>1, SortedKeysDiffer
<1> HIDE DEF s, t
<1>4. KeysOf(nd2) = KeysOf(nd) \cup {s[i].key}
  <2>1. i \in DOMAIN s
    BY DEF s
  <2>2. KeysOf(nd2) = { s[k].key : k \in DOMAIN s }
    BY <1>2 DEF KeysOf, t
  <2> QED BY <2>1, <2>2 DEF KeysOf, s
<1>5. i \in DOMAIN s
  BY DEF s
<1>6. \A k \in DOMAIN t :
        \/ t[k].key = s[i].key /\ t[k].value = child
        \/ /\ t[k].key # s[i].key
           /\ \E j \in DOMAIN s : s[j].key = t[k].key /\ s[j].value = t[k].value
  BY <1>2, <1>3, <1>5
<1> QED BY <1>2, <1>4, <1>6, KidsAssigned DEF s, t

\* m2 is m without the nodes in S, and with other entries in d.
OtherEntries(m, m2, S, d) ==
  /\ d \in DOMAIN m.node \ S /\ DOMAIN m2.node = DOMAIN m.node \ S
  /\ \A n \in DOMAIN m2.node \ {d} : m2.node[n] = m.node[n]
  /\ m2.node[d].type = m.node[d].type /\ m2.node[d].i = m.node[d].i
  /\ m2.node[d].bytes = m.node[d].bytes

\* The same, as the caller sees it.
OtherKids(m, m2, S, d, kids) ==
  /\ d \in DOMAIN Nodes(m) /\ DOMAIN Nodes(m2) = DOMAIN Nodes(m) \ S
  /\ Nodes(m2)[d] = [Nodes(m)[d] EXCEPT !.kids = kids]
  /\ \A n \in DOMAIN Nodes(m2) \ {d} : Nodes(m2)[n] = Nodes(m)[n]

LEMMA NodesWithKids ==
  ASSUME NEW m, NEW m2, NEW S, NEW d, OtherEntries(m, m2, S, d)
  PROVE  OtherKids(m, m2, S, d, KidsOf(m2.node[d]))
<1>1. DOMAIN Nodes(m) = DOMAIN m.node /\ \A n \in DOMAIN m.node : Nodes(m)[n] = View(m.node[n])
  BY NodesAreViews
<1>2. DOMAIN Nodes(m2) = DOMAIN m2.node /\ \A n \in DOMAIN m2.node : Nodes(m2)[n] = View(m2.node[n])
  BY NodesAreViews
<1>3. View(m2.node[d]) = [View(m.node[d]) EXCEPT !.kids = KidsOf(m2.node[d])]
  BY ViewWithKids DEF OtherEntries
<1> QED BY <1>1, <1>2, <1>3 DEF OtherEntries, OtherKids

\* bencode_list_append.
LEMMA EntryIsAdded ==
  ASSUME BuilderInv, ask.op = "append", NEW r, Appended(heap, roots, r, ask.node, ask.child),
         Return(r.mem, r.status, NULL),
         roots' = IF r.status = "OK" THEN roots \ {ask.child} ELSE roots
  PROVE  Forest!Add \/ Forest!Fail
<1> DEFINE m == heap
           h == r.mem
           d == ask.node
           child == ask.child
           N == Nodes(m)
           nd == m.node[d]
           nd2 == h.node[d]
<1>1. h = heap' /\ ask' = Forest!Idle /\ answer' = <<r.status, NULL>>
  BY DEF Return
<1>2. Forest!Refused <=> d = NULL \/ child = NULL \/ m.node[d].type # "LIST"
  BY Refuses
<1>3. CASE r.status # "OK"
  <2>1. /\ h = m /\ roots' = roots /\ answer'[1] = r.status
        /\ \/ r.status = "INVALID_ARG" /\ Forest!Refused
           \/ r.status = "NOMEM" /\ ~Forest!Refused
    BY <1>1, <1>2, <1>3 DEF Appended
  <2>2. Return(m, answer'[1], NULL)
    BY <2>1
  <2>3. ~Forest!Replaces
    BY DEF Forest!Replaces
  <2> QED BY <2>1, <2>2, <2>3, CallFails
<1>4. CASE r.status = "OK"
  <2>1. /\ d \in DOMAIN m.node /\ child \in roots /\ nd.type = "LIST" /\ ForestOf(h, roots \ {child})
        /\ Inserted(m, h, d, Len(nd.entries) + 1, Entry(<<>>, NULL, child))
    BY <1>4 DEF Appended
  <2>2. /\ Trees(m) /\ Trees(h) /\ NULL \notin DOMAIN m.node /\ child \in DOMAIN m.node /\ child \in Nat
        /\ DOMAIN N = DOMAIN m.node /\ N[d] = View(nd)
    BY <2>1, ForestNodes, ForestFacts DEF ForestOf
  <2> DEFINE e == Entry(<<>>, NULL, child)
  <2>3. e \in EntryType /\ e.value = child
    BY <2>2, NoKey DEF Entry, EntryType
  <2> HIDE DEF e
  <2>4. /\ DOMAIN h.node = DOMAIN m.node /\ OneMore(nd, nd2, Len(nd.entries) + 1, e)
        /\ \A n \in DOMAIN m.node \ {d} : h.node[n] = m.node[n]
    BY <2>1 DEF Inserted, e
  <2>5. Proper(nd) /\ Proper(nd2)
    BY <2>1, <2>2, <2>4, NodesAreProper
  <2>6. nd2.type = nd.type /\ nd2.i = nd.i /\ nd2.bytes = nd.bytes
    BY <2>4 DEF OneMore
  <2>7. KidsOf(nd2) = Append(KidsOf(nd), child)
    <3> HIDE DEF nd, nd2
    <3> QED BY <2>1, <2>3, <2>4, <2>5, KidsAppended
  <2>8. N[d].kids = KidsOf(nd)
    BY <2>2, ViewFields
  <2>9. OtherEntries(m, h, {}, d)
    BY <2>1, <2>4, <2>6 DEF OtherEntries
  <2>10. Nodes(h) = [N EXCEPT ![d].kids = Append(@, child)]
    <3> DEFINE N2 == Nodes(h)
    <3> HIDE DEF d, child, m, h
    <3>1. OtherKids(m, h, {}, d, KidsOf(h.node[d]))
      BY <2>9, NodesWithKids
    <3>2. N = [n \in DOMAIN N |-> N[n]] /\ N2 = [n \in DOMAIN N2 |-> N2[n]]
      BY DEF Nodes
    <3>3. /\ d \in DOMAIN N /\ DOMAIN N2 = DOMAIN N
          /\ N2[d] = [N[d] EXCEPT !.kids = Append(N[d].kids, child)]
          /\ \A n \in DOMAIN N2 \ {d} : N2[n] = N[n]
      BY <2>7, <2>8, <3>1 DEF OtherKids
    <3> HIDE DEF N, N2
    <3>4. N2 = [N EXCEPT ![d].kids = Append(@, child)]
      BY <3>2, <3>3
    <3> QED BY <3>4 DEF N2
  <2>11. ~Forest!Refused
    BY <1>2, <2>1, <2>2
  <2>12. roots' = roots \ {child} /\ Forest!Answer("OK", 0)
    BY <1>1, <1>4 DEF Forest!Answer, NULL
  <2> QED BY <1>1, <2>10, <2>11, <2>12 DEF Forest!Add, Nodes
<1> QED BY <1>3, <1>4

\* A dict's keys, as the caller sees them.
LEMMA ReplacesAKey ==
  ASSUME BuilderInv, ask.op = "set", ask.node \in DOMAIN heap.node, heap.node[ask.node].type = "DICT"
  PROVE  /\ Proper(heap.node[ask.node])
         /\ Nodes(heap)[ask.node].kids = KidsOf(heap.node[ask.node])
         /\ Forest!Replaces <=> ask.key \in KeysOf(heap.node[ask.node])
<1> DEFINE nd == heap.node[ask.node]
<1>1. Proper(nd) /\ Nodes(heap)[ask.node] = View(nd)
  BY ForestNodes, NodesAreProper
<1>2. Nodes(heap)[ask.node].kids = KidsOf(nd)
  BY <1>1, ViewFields
<1>3. DOMAIN KidsOf(nd) = KeysOf(nd)
  <2> HIDE DEF nd
  <2>1. nd.type = "DICT"
    BY DEF nd
  <2> QED BY <1>1, <2>1, KidsOfDict
<1>4. Forest!Replaces <=> ask.key \in DOMAIN Nodes(heap)[ask.node].kids
  BY DEF Forest!Replaces, Nodes
<1> QED BY <1>1, <1>2, <1>3, <1>4

\* A key more.
LEMMA NewKeyIsPut ==
  ASSUME NEW m, NEW h, NEW d \in DOMAIN m.node, NEW key \in Bytes, NEW child \in Nat, NEW r,
         Trees(m), Trees(h), r.mem = h, m.node[d].type = "DICT",
         IsNew(m, d, key), Put(m, r, d, key, child)
  PROVE  OtherKids(m, h, {}, d, Forest!Assign(KidsOf(m.node[d]), key, child))
<1> DEFINE nd == m.node[d]
           nd2 == h.node[d]
<1>1. PICK i \in 1..(Len(nd.entries) + 1), copy \in Nat : Inserted(m, h, d, i, Entry(key, copy, child))
  BY DEF Put
<1> DEFINE e == Entry(key, copy, child)
<1>2. e \in EntryType /\ e.key = key /\ e.value = child
  BY DEF Entry, EntryType
<1> HIDE DEF e
<1>3. /\ DOMAIN h.node = DOMAIN m.node /\ OneMore(nd, nd2, i, e)
      /\ \A n \in DOMAIN m.node \ {d} : h.node[n] = m.node[n]
  BY <1>1 DEF Inserted, e
<1>4. Proper(nd) /\ Proper(nd2)
  BY <1>3, NodesAreProper
<1>5. nd2.type = nd.type /\ nd2.i = nd.i /\ nd2.bytes = nd.bytes
  BY <1>3 DEF OneMore
<1>6. OtherEntries(m, h, {}, d)
  BY <1>3, <1>5 DEF OtherEntries
<1>7. OtherKids(m, h, {}, d, KidsOf(nd2))
  BY <1>6, NodesWithKids
<1>8. nd.type = "DICT" /\ \A k \in DOMAIN nd.entries : nd.entries[k].key # e.key
  BY <1>2 DEF IsNew
<1>9. KidsOf(nd2) = Forest!Assign(KidsOf(nd), key, child)
  <2> HIDE DEF nd, nd2
  <2>1. i \in 1..(Len(nd.entries) + 1)
    BY <1>1
  <2> QED BY <1>2, <1>3, <1>4, <1>8, <2>1, KidsPut
<1> QED BY <1>7, <1>9

\* A key that is there.
LEMMA OldKeyIsPut ==
  ASSUME NEW m, NEW h, NEW d \in DOMAIN m.node, NEW child \in Nat,
         Trees(m), Trees(h), m.node[d].type = "DICT",
         NEW i \in DOMAIN m.node[d].entries, Led(m, h, d, i, child)
  PROVE  LET e == m.node[d].entries[i]
         IN  /\ e.value \in DOMAIN m.node /\ e.key \in KeysOf(m.node[d])
             /\ KidsOf(m.node[d])[e.key] = e.value
             /\ OtherKids(m, h, Tree(m, e.value), d, Forest!Assign(KidsOf(m.node[d]), e.key, child))
<1> DEFINE nd == m.node[d]
           nd2 == h.node[d]
           key == nd.entries[i].key
           v == nd.entries[i].value
           T == Tree(m, v)
<1>1. v \in Children(m, d) /\ v \in DOMAIN m.node
  <2>1. v \in Children(m, d)
    BY DEF Children
  <2> QED BY <2>1, ForestFacts
<1>2. d \notin T
  BY <1>1, NotBelowItself
<1>3. /\ DOMAIN h.node = DOMAIN m.node \ T /\ nd2 = Leading(nd, i, child)
      /\ \A n \in DOMAIN h.node \ {d} : h.node[n] = m.node[n]
  BY DEF Led
<1>4. Proper(nd) /\ Proper(nd2)
  BY <1>2, <1>3, NodesAreProper
<1>5. nd2.type = nd.type /\ nd2.i = nd.i /\ nd2.bytes = nd.bytes
  <2> HIDE DEF nd2
  <2>1. i \in DOMAIN nd.entries /\ nd \in NodeType
    BY <1>4 DEF Proper
  <2> HIDE DEF nd
  <2> QED BY <1>3, <2>1, LeadingFacts
<1>6. OtherEntries(m, h, T, d)
  <2> HIDE DEF T
  <2> QED BY <1>2, <1>3, <1>5 DEF OtherEntries
<1>7. OtherKids(m, h, T, d, KidsOf(nd2))
  BY <1>6, NodesWithKids
<1>8. nd.type = "DICT" /\ i \in DOMAIN nd.entries
  OBVIOUS
<1>9. KidsOf(nd2) = Forest!Assign(KidsOf(nd), key, child)
  <2> HIDE DEF nd, nd2
  <2> QED BY <1>3, <1>4, <1>8, KidsLed
<1>10. KidsOf(nd)[key] = v /\ key \in KeysOf(nd)
  <2> HIDE DEF nd
  <2>1. \A k \in DOMAIN nd.entries : KidsOf(nd)[nd.entries[k].key] = nd.entries[k].value
    BY <1>4, <1>8, KidsOfDict
  <2> QED BY <1>8, <2>1 DEF KeysOf
<1> QED BY <1>1, <1>7, <1>9, <1>10

\* bencode_dict_set.
LEMMA KeyIsPut ==
  ASSUME BuilderInv, ask.op = "set", NEW r, Set(heap, roots, r, ask.node, ask.key, ask.child),
         Return(r.mem, r.status, NULL),
         roots' = IF r.status = "OK" THEN roots \ {ask.child} ELSE roots
  PROVE  Forest!Put \/ Forest!Fail
<1> DEFINE m == heap
           h == r.mem
           d == ask.node
           key == ask.key
           child == ask.child
           N == Nodes(m)
           nd == m.node[d]
           kids == KidsOf(nd)
<1>1. h = heap' /\ ask' = Forest!Idle /\ answer' = <<r.status, NULL>>
  BY DEF Return
<1>2. Forest!Refused <=> d = NULL \/ child = NULL \/ m.node[d].type # "DICT"
  BY Refuses
<1>3. d \in DOMAIN m.node \cup {NULL} /\ key \in Bytes
  BY DEF BuilderInv, AskInv, Givable
<1>4. CASE r.status # "OK"
  <2>1. h = m /\ roots' = roots /\ answer'[1] = r.status
    BY <1>1, <1>4 DEF Set
  <2>2. Return(m, answer'[1], NULL)
    BY <2>1
  <2>3. CASE r.status = "INVALID_ARG"
    BY <1>2, <2>1, <2>2, <2>3, CallFails DEF Set
  <2>4. CASE r.status = "NOMEM"
    <3>1. IsNew(m, d, key) /\ ~Forest!Refused /\ d \in DOMAIN m.node /\ nd.type = "DICT"
      BY <1>2, <1>3, <2>4 DEF Set
    <3>2. key \notin KeysOf(nd)
      BY <3>1 DEF IsNew, KeysOf
    <3>3. ~Forest!Replaces
      BY <3>1, <3>2, ReplacesAKey
    <3> QED BY <2>1, <2>2, <2>4, <3>1, <3>3, CallFails
  <2> QED BY <1>4, <2>3, <2>4 DEF Set
<1>5. CASE r.status = "OK"
  <2> DEFINE old == IF Forest!Replaces THEN Forest!Below(N[d].kids[key]) ELSE {}
  <2>1. /\ d \in DOMAIN m.node /\ child \in roots /\ nd.type = "DICT" /\ ForestOf(h, roots \ {child})
        /\ \/ IsNew(m, d, key) /\ Put(m, r, d, key, child)
           \/ PutAgain(m, r, d, key, child)
    BY <1>5 DEF Set
  <2>2. /\ Trees(m) /\ Trees(h) /\ NULL \notin DOMAIN m.node /\ child \in DOMAIN m.node /\ child \in Nat
        /\ DOMAIN N = DOMAIN m.node
    BY <2>1, ForestNodes, ForestFacts DEF ForestOf
  <2>3. N[d].kids = kids /\ (Forest!Replaces <=> key \in KeysOf(nd))
    BY <2>1, ReplacesAKey
  <2>4. OtherKids(m, h, old, d, Forest!Assign(kids, key, child))
    <3>1. CASE IsNew(m, d, key) /\ Put(m, r, d, key, child)
      <4>1. key \notin KeysOf(nd)
        BY <3>1 DEF IsNew, KeysOf
      <4>2. old = {}
        BY <2>3, <4>1
      <4>3. OtherKids(m, h, {}, d, Forest!Assign(kids, key, child))
        BY <1>3, <2>1, <2>2, <3>1, NewKeyIsPut
      <4> QED BY <4>2, <4>3
    <3>2. CASE PutAgain(m, r, d, key, child)
      <4>1. PICK i \in DOMAIN nd.entries : nd.entries[i].key = key /\ Led(m, h, d, i, child)
        BY <3>2 DEF PutAgain
      <4> DEFINE v == nd.entries[i].value
      <4>2. /\ v \in DOMAIN m.node /\ key \in KeysOf(nd) /\ kids[key] = v
            /\ OtherKids(m, h, Tree(m, v), d, Forest!Assign(kids, key, child))
        <5>1. /\ d \in DOMAIN m.node /\ child \in Nat /\ Trees(m) /\ Trees(h) /\ m.node[d].type = "DICT"
              /\ i \in DOMAIN m.node[d].entries /\ m.node[d].entries[i].key = key /\ Led(m, h, d, i, child)
          BY <2>1, <2>2, <4>1
        <5> HIDE DEF m, h, d, key, child
        <5>2. /\ m.node[d].entries[i].value \in DOMAIN m.node
              /\ m.node[d].entries[i].key \in KeysOf(m.node[d])
              /\ KidsOf(m.node[d])[m.node[d].entries[i].key] = m.node[d].entries[i].value
              /\ OtherKids(m, h, Tree(m, m.node[d].entries[i].value), d,
                           Forest!Assign(KidsOf(m.node[d]), m.node[d].entries[i].key, child))
          BY <5>1, OldKeyIsPut
        <5> QED BY <5>1, <5>2
      <4>3. Forest!Below(v) = Tree(m, v)
        BY <2>2, <4>2, ForestBelow
      <4>4. old = Tree(m, v)
        BY <2>3, <4>2, <4>3
      <4> QED BY <4>2, <4>4
    <3> QED BY <2>1, <3>1, <3>2
  <2>5. Nodes(h) = [n \in DOMAIN N \ old |->
                      IF n = d THEN [N[n] EXCEPT !.kids = Forest!Assign(N[d].kids, key, child)] ELSE N[n]]
    <3> DEFINE N2 == Nodes(h)
    <3>1. N2 = [n \in DOMAIN N2 |-> N2[n]]
      BY DEF Nodes
    <3> HIDE DEF old, d, key, child, kids, m
    <3>2. /\ d \in DOMAIN N /\ DOMAIN N2 = DOMAIN N \ old
          /\ N2[d] = [N[d] EXCEPT !.kids = Forest!Assign(N[d].kids, key, child)]
          /\ \A n \in DOMAIN N2 \ {d} : N2[n] = N[n]
      BY <2>3, <2>4 DEF OtherKids
    <3> DEFINE new == Forest!Assign(N[d].kids, key, child)
    <3> HIDE DEF N, N2, new
    <3>3. N2 = [n \in DOMAIN N \ old |-> IF n = d THEN [N[n] EXCEPT !.kids = new] ELSE N[n]]
      BY <3>1, <3>2 DEF new
    <3> QED BY <3>3 DEF N2, new
  <2>6. ~Forest!Refused
    BY <1>2, <2>1, <2>2
  <2>7. roots' = roots \ {child} /\ Forest!Answer("OK", 0)
    BY <1>1, <1>5 DEF Forest!Answer, NULL
  <2> QED BY <1>1, <2>5, <2>6, <2>7 DEF Forest!Put, Nodes
<1> QED BY <1>4, <1>5

\* bencode_value_free.
LEMMA ValueIsFreed ==
  ASSUME BuilderInv, Free
  PROVE  Forest!Free
<1> DEFINE v == ask.node
           g == bencode_value_free(heap, v)
           N == Nodes(heap)
           T == Tree(heap, v)
<1>1. /\ ForestOf(heap, roots) /\ v \in roots \cup {NULL} /\ Trees(heap) /\ HeapType(heap)
      /\ roots \subseteq DOMAIN heap.node /\ NULL \notin DOMAIN heap.node /\ ask.op = "free"
      /\ heap' = g /\ answer' = <<"OK", NULL>> /\ ask' = Forest!Idle /\ roots' = roots \ {v}
  BY ForestNodes DEF BuilderInv, AskInv, Free, Return
<1>2. Less(heap, g, T)
  <2>1. CASE v \in roots
    BY <1>1, <2>1, RootFreed
  <2>2. CASE v = NULL
    <3>1. g = heap /\ T = {}
      BY <1>1, <2>2, NothingFreed, TreeOfNull
    <3> QED BY <3>1 DEF Less
  <2> QED BY <1>1, <2>1, <2>2
<1> HIDE DEF g
<1>3. Forest!Below(v) = T
  BY <1>1, ForestBelow
<1>4. DOMAIN N = DOMAIN heap.node /\ \A n \in DOMAIN heap.node : N[n] = View(heap.node[n])
  BY NodesAreViews
<1>5. DOMAIN Nodes(g) = DOMAIN g.node /\ \A n \in DOMAIN g.node : Nodes(g)[n] = View(g.node[n])
  BY NodesAreViews
<1>6. Nodes(g) = [n \in DOMAIN N \ Forest!Below(v) |-> N[n]]
  <2> DEFINE N2 == Nodes(g)
  <2>1. N2 = [n \in DOMAIN N2 |-> N2[n]]
    BY DEF Nodes
  <2> HIDE DEF T, v
  <2>2. DOMAIN N2 = DOMAIN N \ T /\ \A n \in DOMAIN N2 : N2[n] = N[n]
    BY <1>2, <1>4, <1>5 DEF Less
  <2> HIDE DEF N, N2
  <2>3. N2 = [n \in DOMAIN N \ T |-> N[n]]
    BY <2>1, <2>2
  <2> QED BY <1>3, <2>3 DEF N2
<1>7. roots' = roots \ {v} /\ Forest!Answer("OK", 0)
  BY <1>1 DEF Forest!Answer, NULL
<1> QED BY <1>1, <1>6, <1>7 DEF Forest!Free, Nodes

\* The entries of a copy lead to the copies of what the original's lead to.
EntriesCopied(old, copy, img) ==
  /\ copy.type = old.type /\ Len(copy.entries) = Len(old.entries)
  /\ img \in [DOMAIN img -> Nat]
  /\ \A k \in 1..Len(old.entries) :
       /\ old.entries[k].value \in DOMAIN img
       /\ copy.entries[k].value = img[old.entries[k].value]
       /\ old.type = "DICT" => copy.entries[k].key = old.entries[k].key

\* And so do the children that the caller sees.
Mapped(f, g, img) == g = [k \in DOMAIN f |-> img[f[k]]]

LEMMA KidsCopied ==
  ASSUME NEW old, Proper(old), NEW copy, Proper(copy), NEW img, EntriesCopied(old, copy, img)
  PROVE  Mapped(KidsOf(old), KidsOf(copy), img)
<1> DEFINE f == KidsOf(old)
           g == KidsOf(copy)
           s == old.entries
           t == copy.entries
           h == [k \in DOMAIN f |-> img[f[k]]]
<1>0. /\ copy.type = old.type /\ Len(copy.entries) = Len(old.entries)
      /\ img \in [DOMAIN img -> Nat]
      /\ \A k \in 1..Len(old.entries) :
           /\ old.entries[k].value \in DOMAIN img
           /\ copy.entries[k].value = img[old.entries[k].value]
           /\ old.type = "DICT" => copy.entries[k].key = old.entries[k].key
  BY DEF EntriesCopied
<1>1. /\ s \in Seq(EntryType) /\ t \in Seq(EntryType)
      /\ DOMAIN s = 1..Len(s) /\ DOMAIN t = DOMAIN s
  <2>1. s \in Seq(EntryType) /\ t \in Seq(EntryType)
    BY DEF Proper, NodeType
  <2>2. Len(t) = Len(s)
    BY <1>0
  <2> HIDE DEF s, t
  <2> QED BY <2>1, <2>2, LenProperties
<1>2. \A k \in DOMAIN s : /\ s[k].value \in DOMAIN img /\ t[k].value = img[s[k].value]
                          /\ old.type = "DICT" => t[k].key = s[k].key
  BY <1>0, <1>1
<1> HIDE DEF s, t
<1>3. CASE old.type = "DICT"
  <2> DEFINE S == KeysOf(old)
  <2>1. DOMAIN f = S /\ \A k \in DOMAIN s : f[s[k].key] = s[k].value
    BY <1>0, <1>3, KidsOfDict DEF s
  <2>2. g \in [KeysOf(copy) -> Nat] /\ \A k \in DOMAIN t : g[t[k].key] = t[k].value
    BY <1>0, <1>3, KidsOfDict DEF t
  <2>3. S = { s[k].key : k \in DOMAIN s } /\ KeysOf(copy) = { t[k].key : k \in DOMAIN t }
    BY DEF KeysOf, s, t
  <2>4. KeysOf(copy) = S
    BY <1>1, <1>2, <1>3, <2>3
  <2> HIDE DEF S, f, g
  <2>5. ASSUME NEW y \in S PROVE g[y] = h[y] /\ h[y] \in Nat
    <3>1. PICK k \in DOMAIN s : y = s[k].key
      BY <2>3, <2>5
    <3>2. h[y] = img[f[y]]
      BY <2>1, <2>5
    <3>3. f[y] = s[k].value /\ g[y] = t[k].value
      BY <1>1, <1>2, <1>3, <2>1, <2>2, <3>1
    <3> QED BY <1>0, <1>2, <3>1, <3>2, <3>3
  <2>6. h \in [S -> Nat]
    BY <2>1, <2>5
  <2> HIDE DEF h
  <2>7. g = h
    BY <2>2, <2>4, <2>5, <2>6, SameMap
  <2> QED BY <2>7 DEF f, g, h, Mapped
<1>4. CASE old.type # "DICT"
  <2> DEFINE S == DOMAIN s
  <2>1. DOMAIN f = S /\ \A k \in S : f[k] = s[k].value
    BY <1>0, <1>4, KidsOfOthers DEF s
  <2>2. g \in Seq(Nat) /\ DOMAIN g = DOMAIN t /\ \A k \in DOMAIN t : g[k] = t[k].value
    BY <1>0, <1>4, KidsOfOthers DEF t
  <2>3. g \in [DOMAIN g -> Nat]
    BY <2>2, LenProperties
  <2> HIDE DEF f, g
  <2>4. ASSUME NEW y \in S PROVE g[y] = h[y] /\ h[y] \in Nat
    BY <1>0, <1>1, <1>2, <2>1, <2>2
  <2>5. h \in [S -> Nat]
    BY <2>1, <2>4
  <2> HIDE DEF h
  <2>6. g \in [S -> Nat]
    BY <1>1, <2>2, <2>3
  <2> HIDE DEF S
  <2>7. g = h
    BY <2>4, <2>5, <2>6, SameMap
  <2> QED BY <2>7 DEF f, g, h, Mapped
<1> QED BY <1>3, <1>4

\* A value whose children are replaced by their copies.
Image(w, img) == [w EXCEPT !.kids = [k \in DOMAIN w.kids |-> img[w.kids[k]]]]

LEMMA ViewCopied ==
  ASSUME NEW m, Trees(m), NEW h, Trees(h), NEW img, img \in [DOMAIN img -> DOMAIN h.node],
         NEW n \in DOMAIN img, n \in DOMAIN m.node, CopyOf(m, h, img, n),
         Len(h.node[img[n]].entries) = Len(m.node[n].entries)
  PROVE  Nodes(h)[img[n]] = Image(Nodes(m)[n], img)
<1> DEFINE old == m.node[n]
           copy == h.node[img[n]]
<1>1. Proper(old) /\ Proper(copy)
  BY NodesAreProper
<1>2. /\ copy.type = old.type /\ copy.i = old.i /\ copy.bytes = old.bytes
      /\ Len(copy.entries) = Len(old.entries)
      /\ \A k \in 1..Len(old.entries) :
           /\ old.entries[k].value \in DOMAIN img
           /\ copy.entries[k].value = img[old.entries[k].value]
           /\ old.type = "DICT" => copy.entries[k].key = old.entries[k].key
  BY DEF CopyOf
<1>3. Nodes(m)[n] = View(old) /\ Nodes(h)[img[n]] = View(copy)
  <2>1. Nodes(m)[n] = View(old)
    BY NodesAreViews
  <2>2. img[n] \in DOMAIN h.node
    OBVIOUS
  <2>3. Nodes(h)[img[n]] = View(copy)
    BY <2>2, NodesAreViews
  <2> QED BY <2>1, <2>3
<1>4. img \in [DOMAIN img -> Nat]
  <2>1. DOMAIN h.node \subseteq Nat
    BY ForestFacts
  <2> QED BY <2>1
<1> HIDE DEF old, copy
<1>5. EntriesCopied(old, copy, img)
  BY <1>2, <1>4 DEF EntriesCopied
<1>6. Mapped(KidsOf(old), KidsOf(copy), img)
  BY <1>1, <1>5, KidsCopied
<1>7. View(copy) = [View(old) EXCEPT !.kids = KidsOf(copy)] /\ View(old).kids = KidsOf(old)
  BY <1>2, ViewWithKids, ViewFields
<1> QED BY <1>3, <1>6, <1>7 DEF Image, Mapped

\* N2 is N with the images of its values.
WithImages(N, N2, img) ==
  N2 = [c \in DOMAIN N \cup Forest!Range(img) |->
          IF c \in DOMAIN N THEN N[c] ELSE Image(N[CHOOSE n \in DOMAIN img : img[n] = c], img)]

\* The copy is a tree of new values, image by image equal to the original.
LEMMA TreeIsCopied ==
  ASSUME NEW m, Trees(m), NEW h, Trees(h), NEW v \in DOMAIN m.node, NEW x, NEW img,
         Grown(m, h), CopyIn(m, v, h, x, img)
  PROVE  /\ img \in Forest!Bijection(Tree(m, v), DOMAIN Nodes(h) \ DOMAIN Nodes(m))
         /\ img[v] = x /\ WithImages(Nodes(m), Nodes(h), img)
<1> DEFINE N == Nodes(m)
           N2 == Nodes(h)
           T == Tree(m, v)
           D == DOMAIN N2 \ DOMAIN N
           original(c) == CHOOSE n \in DOMAIN img : img[n] = c
<1>1. /\ DOMAIN N = DOMAIN m.node /\ DOMAIN N2 = DOMAIN h.node
      /\ \A n \in DOMAIN m.node : N[n] = View(m.node[n])
  BY NodesAreViews
<1>2. \A n \in DOMAIN h.node : N2[n] = View(h.node[n])
  BY NodesAreViews
<1>3. T \subseteq DOMAIN m.node
  BY TreeHolds
<1>4. /\ DOMAIN img = T /\ img[v] = x /\ img \in [DOMAIN img -> DOMAIN h.node \ DOMAIN m.node]
      /\ \A n1, n2 \in DOMAIN img : img[n1] = img[n2] => n1 = n2
      /\ \A c \in DOMAIN h.node \ DOMAIN m.node : \E n \in DOMAIN img : img[n] = c
      /\ \A n \in DOMAIN img : CopyOf(m, h, img, n)
      /\ \A n \in DOMAIN img : Len(h.node[img[n]].entries) = Len(m.node[n].entries)
  BY DEF CopyIn, ImageOf
<1>5. DOMAIN m.node \subseteq DOMAIN h.node /\ \A n \in DOMAIN m.node : h.node[n] = m.node[n]
  BY DEF Grown
<1> HIDE DEF T
<1>6. img \in [T -> D] /\ (\A c \in D : \E n \in T : img[n] = c)
  BY <1>1, <1>4
<1>7. img \in Forest!Bijection(T, D)
  <2> HIDE DEF D
  <2>1. Forest!IsInjective(img)
    BY <1>4 DEF Forest!IsInjective
  <2> QED BY <1>6, <2>1 DEF Forest!Bijection, Forest!Injection, Forest!Surjection
<1>8. Forest!Range(img) = D
  <2>1. \A n \in DOMAIN img : img[n] \in D
    BY <1>4, <1>6
  <2> HIDE DEF D
  <2> QED BY <1>4, <1>6, <2>1 DEF Forest!Range
<1>9. ASSUME NEW n \in DOMAIN m.node PROVE N2[n] = N[n]
  BY <1>1, <1>2, <1>5
<1>10. ASSUME NEW c \in D PROVE N2[c] = Image(N[original(c)], img)
  <2> DEFINE n == original(c)
  <2>1. n \in DOMAIN img /\ img[n] = c
    <3>1. \E k \in DOMAIN img : img[k] = c
      BY <1>4, <1>6
    <3> QED BY <3>1
  <2> HIDE DEF n
  <2>2. img \in [DOMAIN img -> DOMAIN h.node] /\ n \in DOMAIN m.node
    BY <1>3, <1>4, <2>1
  <2>3. CopyOf(m, h, img, n) /\ Len(h.node[img[n]].entries) = Len(m.node[n].entries)
    BY <1>4, <2>1
  <2>4. Nodes(h)[img[n]] = Image(Nodes(m)[n], img)
    BY <2>1, <2>2, <2>3, ViewCopied
  <2> QED BY <2>1, <2>4 DEF n
<1>11. N2 = [c \in DOMAIN N2 |-> N2[c]]
  BY DEF Nodes
<1>12. DOMAIN N2 = DOMAIN N \cup D
  BY <1>1, <1>5
<1> HIDE DEF original
<1>13. N2 = [c \in DOMAIN N \cup Forest!Range(img) |->
               IF c \in DOMAIN N THEN N[c] ELSE Image(N[original(c)], img)]
  <2> HIDE DEF N, N2
  <2>1. \A c \in DOMAIN N : N2[c] = N[c]
    BY <1>1, <1>9
  <2>2. \A c \in D : c \notin DOMAIN N /\ N2[c] = Image(N[original(c)], img)
    BY <1>10
  <2> HIDE DEF D
  <2> QED BY <1>8, <1>11, <1>12, <2>1, <2>2
<1>14. WithImages(N, N2, img)
  <2> HIDE DEF N, N2
  <2> QED BY <1>13 DEF WithImages, original
<1> QED BY <1>4, <1>7, <1>14 DEF T

\* bencode_value_clone.
LEMMA ValueIsCloned ==
  ASSUME BuilderInv, ask.op = "clone", NEW r, CloneOf(heap, roots, ask.alloc, ask.node, r),
         Return(r.mem, r.status, r.ptr), roots' = roots \cup ({r.ptr} \ {NULL})
  PROVE  Forest!Clone \/ Forest!Fail
<1> DEFINE m == heap
           h == r.mem
           v == ask.node
           x == r.ptr
           N == Nodes(m)
           N2 == Nodes(h)
<1>1. h = heap' /\ ask' = Forest!Idle /\ answer' = <<r.status, x>>
  BY DEF Return
<1>2. Forest!Refused <=> ask.alloc = "partial"
  BY Refuses
<1>3. v \in DOMAIN m.node \cup {NULL} /\ Trees(m)
  BY ForestNodes DEF BuilderInv, AskInv
<1>4. CASE r.status # "OK"
  <2>1. /\ h = m /\ x = NULL /\ roots' = roots /\ answer'[1] = r.status
        /\ \/ r.status = "INVALID_ARG" /\ Forest!Refused
           \/ r.status = "NOMEM" /\ ~Forest!Refused /\ v # NULL
    BY <1>1, <1>2, <1>4 DEF CloneOf
  <2>2. Return(m, answer'[1], NULL)
    BY <2>1
  <2>3. ~Forest!Replaces
    BY DEF Forest!Replaces
  <2> QED BY <2>1, <2>2, <2>3, CallFails
<1>5. CASE r.status = "OK" /\ v = NULL
  <2>1. h = m /\ x = NULL /\ roots' = roots /\ ~Forest!Refused
    BY <1>2, <1>5 DEF CloneOf, Cloned
  <2>2. Nodes(heap') = Nodes(heap)
    BY <1>1, <2>1
  <2>3. Forest!Answer("OK", 0)
    BY <1>1, <1>5, <2>1 DEF Forest!Answer, NULL
  <2> QED BY <1>5, <2>1, <2>2, <2>3 DEF Forest!Clone, Nodes, NULL
<1>6. CASE r.status = "OK" /\ v # NULL
  <2>1. Cloned(m, roots, v, h, x) /\ ~Forest!Refused /\ v \in DOMAIN m.node
    BY <1>2, <1>3, <1>6 DEF CloneOf
  <2>2. PICK img : CopyIn(m, v, h, x, img)
    BY <2>1 DEF Cloned
  <2>3. Trees(h) /\ Grown(m, h) /\ x # NULL
    BY <2>1 DEF Cloned, ForestOf
  <2>4. /\ img \in Forest!Bijection(Tree(m, v), DOMAIN N2 \ DOMAIN N) /\ img[v] = x
        /\ WithImages(N, N2, img)
    <3> HIDE DEF m, h, v, x
    <3> QED BY <1>3, <2>1, <2>2, <2>3, TreeIsCopied
  <2>5. Forest!Below(v) = Tree(m, v)
    BY <1>3, ForestBelow
  <2>6. roots' = roots \cup {img[v]} /\ Forest!Answer("OK", img[v])
    BY <1>1, <1>6, <2>3, <2>4 DEF Forest!Answer
  <2>7. ask.node # 0 /\ h = heap'
    BY <1>1, <1>6 DEF NULL
  <2> QED BY <2>1, <2>4, <2>5, <2>6, <2>7 DEF Forest!Clone, WithImages, Nodes, Image
<1> QED BY <1>4, <1>5, <1>6

LEMMA MakeIsAllowed ==
  ASSUME BuilderInv, Make
  PROVE  Forest!Make \/ Forest!Clone \/ Forest!Fail
<1>1. /\ ForestOf(heap, roots) /\ WellMade(heap)
      /\ ask.alloc \in Allocator /\ ask.i \in Int /\ ask.data \in Bytes
  BY DEF BuilderInv, AskInv, Kept
<1>2. ASSUME NEW nd, Leaf(nd), AskedFor(nd), ask.op \in Forest!Makes, Receive(New(heap, nd))
      PROVE  Forest!Make \/ Forest!Fail
  <2>1. PICK r \in New(heap, nd) : Return(r.mem, r.status, r.ptr) /\ roots' = roots \cup ({r.ptr} \ {NULL})
    BY <1>2 DEF Receive
  <2>2. Made(heap, roots, r, nd, FALSE)
    BY <1>1, <1>2, NewMade
  <2> QED BY <1>2, <2>1, <2>2, ValueIsMade
<1>3. CASE ask.op = "int_new" /\ Receive(bencode_int_new(heap, ask.alloc, ask.i))
  <2> DEFINE nd == [Node(ask.alloc, "INT") EXCEPT !.i = ask.i]
  <2>1. Leaf(nd)
    BY <1>1, NodesAreLeaves
  <2>2. AskedFor(nd)
    BY <1>3, <2>1 DEF Node, AskedFor, Leaf
  <2>3. bencode_int_new(heap, ask.alloc, ask.i) = New(heap, nd) /\ ask.op \in Forest!Makes
    BY <1>3 DEF bencode_int_new, Forest!Makes
  <2> HIDE DEF nd
  <2> QED BY <1>2, <1>3, <2>1, <2>2, <2>3
<1>4. CASE ask.op = "list_new" /\ Receive(bencode_list_new(heap, ask.alloc))
  <2> DEFINE nd == Node(ask.alloc, "LIST")
  <2>1. Leaf(nd)
    BY <1>1, NodesAreLeaves, NoKey
  <2>2. AskedFor(nd)
    BY <1>4, <2>1 DEF Node, AskedFor, Leaf
  <2>3. bencode_list_new(heap, ask.alloc) = New(heap, nd) /\ ask.op \in Forest!Makes
    BY <1>4 DEF bencode_list_new, Forest!Makes
  <2> HIDE DEF nd
  <2> QED BY <1>2, <1>4, <2>1, <2>2, <2>3
<1>5. CASE ask.op = "dict_new" /\ Receive(bencode_dict_new(heap, ask.alloc))
  <2> DEFINE nd == Node(ask.alloc, "DICT")
  <2>1. Leaf(nd)
    BY <1>1, NodesAreLeaves, NoKey
  <2>2. AskedFor(nd)
    BY <1>5, <2>1 DEF Node, AskedFor, Leaf
  <2>3. bencode_dict_new(heap, ask.alloc) = New(heap, nd) /\ ask.op \in Forest!Makes
    BY <1>5 DEF bencode_dict_new, Forest!Makes
  <2> HIDE DEF nd
  <2> QED BY <1>2, <1>5, <2>1, <2>2, <2>3
<1>6. CASE ask.op = "string_new" /\ Receive(bencode_string_new(heap, ask.alloc, ask.data))
  <2> DEFINE nd == StringNode(ask.alloc, ask.data)
  <2>1. Leaf(nd)
    BY <1>1, NodesAreLeaves, NoKey DEF StringNode
  <2>2. AskedFor(nd)
    BY <1>6, <2>1 DEF Node, AskedFor, Leaf, StringNode
  <2>3. ask.op \in Forest!Makes
    BY <1>6 DEF Forest!Makes
  <2>4. PICK r \in bencode_string_new(heap, ask.alloc, ask.data) :
          Return(r.mem, r.status, r.ptr) /\ roots' = roots \cup ({r.ptr} \ {NULL})
    BY <1>6 DEF Receive
  <2>5. Made(heap, roots, r, nd, TRUE)
    BY <1>1, StringMade
  <2> HIDE DEF nd
  <2> QED BY <2>2, <2>3, <2>4, <2>5, ValueIsMade
<1>7. CASE ask.op = "clone" /\ Receive(bencode_value_clone(heap, ask.alloc, ask.node))
  <2>1. ask.node \in DOMAIN heap.node \cup {NULL}
    BY <1>7 DEF BuilderInv, AskInv
  <2>2. PICK r \in bencode_value_clone(heap, ask.alloc, ask.node) :
          Return(r.mem, r.status, r.ptr) /\ roots' = roots \cup ({r.ptr} \ {NULL})
    BY <1>7 DEF Receive
  <2>3. CloneOf(heap, roots, ask.alloc, ask.node, r)
    BY <1>1, <2>1, ValueCloned
  <2> QED BY <1>7, <2>2, <2>3, ValueIsCloned
<1> QED BY <1>3, <1>4, <1>5, <1>6, <1>7 DEF Make

LEMMA ParseIsAllowed ==
  ASSUME BuilderInv, Parse
  PROVE  Forest!Make \/ Forest!Fail
<1> DEFINE nd == [Node(ask.alloc, "STRING") EXCEPT !.bytes = ask.data]
           results == IF bencode_allocator_check(ask.alloc) = "OK"
                      THEN bencode_string_new_borrowed(heap, ask.alloc, ask.data)
                      ELSE {Result(heap, "INVALID_ARG", NULL)}
<1>1. /\ ForestOf(heap, roots) /\ ask.alloc \in Allocator /\ ask.data \in Bytes
      /\ ask.op = "parse" /\ Receive(results)
  BY DEF BuilderInv, AskInv, Kept, Parse
<1>2. PICK r \in results : Return(r.mem, r.status, r.ptr) /\ roots' = roots \cup ({r.ptr} \ {NULL})
  BY <1>1 DEF Receive
<1>3. Leaf(nd)
  <2>1. 0 \in Int
    OBVIOUS
  <2> QED BY <1>1, <2>1, NodesAreLeaves
<1>4. AskedFor(nd) /\ nd.alloc = ask.alloc
  BY <1>1, <1>3 DEF Node, AskedFor, Leaf
<1>5. Made(heap, roots, r, nd, FALSE)
  <2>1. CASE bencode_allocator_check(ask.alloc) = "OK"
    <3>1. nd.alloc # "partial" /\ r \in value_alloc(heap, nd)
      BY <1>4, <2>1 DEF bencode_allocator_check, bencode_string_new_borrowed
    <3> HIDE DEF nd
    <3> QED BY <1>1, <1>3, <3>1, LeafMade
  <2>2. CASE bencode_allocator_check(ask.alloc) # "OK"
    <3>1. r = Result(heap, "INVALID_ARG", NULL) /\ nd.alloc = "partial"
      BY <1>4, <2>2 DEF bencode_allocator_check
    <3> HIDE DEF nd
    <3> QED BY <3>1 DEF Result, Made
  <2> QED BY <2>1, <2>2
<1> HIDE DEF nd, results
<1>6. ask.op \in Forest!Makes
  BY <1>1 DEF Forest!Makes
<1> QED BY <1>2, <1>4, <1>5, <1>6, ValueIsMade

LEMMA AttachIsAllowed ==
  ASSUME BuilderInv, Attach
  PROVE  Forest!Add \/ Forest!Put \/ Forest!Fail
<1>1. /\ ForestOf(heap, roots) /\ ask.key \in Bytes
      /\ ask.op \in {"append", "set"} /\ Givable(heap, roots, ask.node, ask.child)
  BY DEF BuilderInv, AskInv, Kept, Attach
<1>2. CASE ask.op = "append" /\ Give(bencode_list_append(heap, ask.node, ask.child))
  <2>1. PICK r \in bencode_list_append(heap, ask.node, ask.child) :
          /\ Return(r.mem, r.status, NULL)
          /\ roots' = IF r.status = "OK" THEN roots \ {ask.child} ELSE roots
    BY <1>2 DEF Give
  <2>2. Appended(heap, roots, r, ask.node, ask.child)
    BY <1>1, GivenToAList
  <2> QED BY <1>2, <2>1, <2>2, EntryIsAdded
<1>3. CASE ask.op = "set" /\ Give(bencode_dict_set(heap, ask.node, ask.key, ask.child))
  <2>1. PICK r \in bencode_dict_set(heap, ask.node, ask.key, ask.child) :
          /\ Return(r.mem, r.status, NULL)
          /\ roots' = IF r.status = "OK" THEN roots \ {ask.child} ELSE roots
    BY <1>3 DEF Give
  <2>2. Set(heap, roots, r, ask.node, ask.key, ask.child)
    BY <1>1, GivenToADict
  <2> QED BY <1>3, <2>1, <2>2, KeyIsPut
<1> QED BY <1>2, <1>3 DEF Attach

\* The input is not part of the forest.
LEMMA NullIsRefused ==
  ASSUME BuilderInv, RefuseNull
  PROVE  Forest!Fail
<1>1. Return(heap, "INVALID_ARG", NULL) /\ roots' = roots /\ Forest!Refused
  BY Refuses DEF RefuseNull
<1>2. answer'[1] = "INVALID_ARG"
  BY <1>1 DEF Return
<1> QED BY <1>1, <1>2, CallFails

LEMMA ForestStays ==
  ASSUME UNCHANGED <<heap, roots, ask, answer>>
  PROVE  UNCHANGED Forest!forest
<1>1. Nodes(heap') = Nodes(heap)
  OBVIOUS
<1> QED BY <1>1 DEF Forest!forest, Nodes

\* src/value.c: whatever allocators refuse, the builders keep what ValueForest
\* promises.  A call that fails changes nothing the caller can see, replacing a
\* value frees the old one and cannot fail, a clone is equal to its original,
\* node by node, and shares nothing with it, and a free takes one tree.
THEOREM ForestIsImplemented == BuilderSpec => ImplementsForest
<1>1. BuilderInit => Forest!ForestInit
  <2> SUFFICES ASSUME BuilderInit PROVE Forest!ForestInit
    OBVIOUS
  <2>1. heap = EmptyHeap /\ roots = {} /\ ask = Forest!Idle /\ answer = <<>>
    BY DEF BuilderInit
  <2>2. DOMAIN heap.node = {}
    BY <2>1 DEF EmptyHeap
  <2>3. [n \in DOMAIN heap.node |-> Contents(heap, n)] = <<>>
    BY <2>2
  <2> QED BY <2>1, <2>3 DEF Forest!ForestInit
<1>2. BuilderInv /\ BuilderInv' /\ [BuilderNext]_vars => [Forest!ForestNext]_(Forest!forest)
  <2> SUFFICES ASSUME BuilderInv, BuilderInv', [BuilderNext]_vars
               PROVE  [Forest!ForestNext]_(Forest!forest)
    OBVIOUS
  <2>1. CASE UNCHANGED vars
    <3>1. UNCHANGED <<heap, roots, ask, answer>>
      BY <2>1 DEF vars
    <3> QED BY <3>1, ForestStays
  <2>2. CASE FreeInput
    <3>1. UNCHANGED <<heap, roots, ask, answer>>
      BY <2>2 DEF FreeInput
    <3> QED BY <3>1, ForestStays
  <2>3. CASE CallMake \/ CallAppend \/ CallSet \/ CallClone \/ CallFree \/ CallWithNull
    BY <2>3, CallsAreAsked DEF Forest!ForestNext
  <2>4. CASE Make
    BY <2>4, MakeIsAllowed DEF Forest!ForestNext
  <2>5. CASE Parse
    BY <2>5, ParseIsAllowed DEF Forest!ForestNext
  <2>6. CASE Attach
    BY <2>6, AttachIsAllowed DEF Forest!ForestNext
  <2>7. CASE Free
    BY <2>7, ValueIsFreed DEF Forest!ForestNext
  <2>8. CASE RefuseNull
    BY <2>8, NullIsRefused DEF Forest!ForestNext
  <2> QED BY <2>1, <2>2, <2>3, <2>4, <2>5, <2>6, <2>7, <2>8 DEF BuilderNext
<1> QED BY <1>1, <1>2, BuilderInvariance, PTL DEF BuilderSpec, ImplementsForest, Forest!ForestSpec

==========================================================================
