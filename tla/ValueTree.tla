----------------------------- MODULE ValueTree -----------------------------
(***************************************************************************)
(* The in-memory value tree (src/value.c): nodes, the arrays and key       *)
(* copies they own, and the operations that build, search and free them.   *)
(*                                                                         *)
(* The heap is a value m, and every operation an operator from a heap to   *)
(* the SET of results it may have: the allocator may answer any request    *)
(* with NULL, so that an operation with n allocations has up to n + 1      *)
(* results.  ParseDom and Builder keep one such heap as their state.       *)
(* The operators stand for calls with every pointer they need; one without *)
(* is refused before anything else is looked at (Builder's RefuseNull).    *)
(***************************************************************************)
EXTENDS Bencode

CONSTANTS
  INITIAL_CAPACITY,  (* The first capacity of an array: 4 in the code.      *)
  MAX_CAPACITY       (* SIZE_MAX / element_size.                            *)

ASSUME CapacityAssumption ==
  /\ INITIAL_CAPACITY \in Nat \ {0}
  /\ MAX_CAPACITY \in Nat /\ INITIAL_CAPACITY <= MAX_CAPACITY

NULL == 0

\* The allocators a caller may pass: none ("libc"), a table of its own, or one
\* that lacks a function.
Allocator == {"libc", "arena", "partial"}

bencode_allocator_check(alloc) == IF alloc = "partial" THEN "INVALID_ARG" ELSE "OK"

(***************************************************************************)
(* A block is a number, and an allocator gives the lowest one that is free *)
(* in all of them, so that blocks are used again as soon as they can be.   *)
(*   live   the blocks allocated and not freed, each as <<allocator, block>> *)
(*   node   the contents of the live nodes, by block                       *)
(*   fault  whether something was freed that was not live, or by another   *)
(*          allocator than its own                                         *)
(***************************************************************************)
EmptyHeap == [live |-> {}, node |-> <<>>, fault |-> FALSE]

(***************************************************************************)
(* A node.  entries stands for list.items and for dict.entries: a list's   *)
(* entries have no key.  key_copy is the block of the copied key, or NULL  *)
(* for the empty key; owned is the block of a copied payload, or NULL for  *)
(* a borrowed one; array is the block of the entries.                      *)
(***************************************************************************)
Entry(key, key_copy, value) == [key |-> key, key_copy |-> key_copy, value |-> value]

Node(alloc, type) ==
  [type |-> type, alloc |-> alloc, i |-> 0, bytes |-> <<>>, owned |-> NULL,
   entries |-> <<>>, capacity |-> 0, array |-> NULL]

Result(m, status, ptr) == [mem |-> m, status |-> status, ptr |-> ptr]

---------------------------------------------------------------------------
(* The allocator.                                                          *)

FreeBlock(m) == Min((1..(Cardinality(m.live) + 1)) \ { block[2] : block \in m.live })

bencode_alloc(m, alloc) ==
  { [mem |-> m, ptr |-> NULL],
    [mem |-> [m EXCEPT !.live = @ \cup {<<alloc, FreeBlock(m)>>}],
     ptr |-> FreeBlock(m)] }

Release(m, blocks) ==
  [m EXCEPT !.live = @ \ blocks, !.fault = @ \/ ~(blocks \subseteq m.live)]

bencode_free(m, alloc, block) == IF block = NULL THEN m ELSE Release(m, {<<alloc, block>>})

Store(m, n, contents) ==
  [m EXCEPT !.node = [k \in DOMAIN m.node \cup {n} |->
                        IF k = n THEN contents ELSE m.node[k]]]

---------------------------------------------------------------------------
(* Lifecycle.                                                              *)

Children(m, n) ==
  IF n \in DOMAIN m.node
  THEN { m.node[n].entries[k].value : k \in DOMAIN m.node[n].entries }
  ELSE {}

\* The nodes of the tree rooted at v.
Tree(m, v) ==
  LET level[d \in Nat] ==
        IF d = 0 THEN {v} \ {NULL}
        ELSE UNION { Children(m, n) : n \in level[d - 1] }
  IN  UNION { level[d] : d \in 0..Cardinality(DOMAIN m.node) }

\* Mutant: a node's parts are freed with the default allocator.
BlocksOf_libc(m, n) ==
  IF n \notin DOMAIN m.node THEN {<<"dangling", n>>}
  ELSE LET nd == m.node[n]
       IN  {<<nd.alloc, n>>} \cup
           ({"libc"} \X (({nd.owned, nd.array}
             \cup { nd.entries[k].key_copy : k \in DOMAIN nd.entries }) \ {NULL}))

\* Each node frees what it owns, and itself, with the allocator it was made by.
BlocksOf(m, n) ==
  IF n \notin DOMAIN m.node THEN {<<"dangling", n>>}
  ELSE LET nd == m.node[n]
       IN  {nd.alloc} \X (({n, nd.owned, nd.array}
             \cup { nd.entries[k].key_copy : k \in DOMAIN nd.entries }) \ {NULL})

Blocks(m, v) == UNION { BlocksOf(m, n) : n \in Tree(m, v) }

\* The recursion frees a node once for every entry that leads to it.
Shared(m, nodes) ==
  \E n1, n2 \in nodes : \E k1 \in DOMAIN m.node[n1].entries, k2 \in DOMAIN m.node[n2].entries :
    <<n1, k1>> # <<n2, k2>> /\ m.node[n1].entries[k1].value = m.node[n2].entries[k2].value

bencode_value_free(m, v) ==
  LET nodes == Tree(m, v)
      freed == Release(m, Blocks(m, v))
  IN  [freed EXCEPT !.node = [n \in DOMAIN @ \ nodes |-> @[n]],
                    !.fault = @ \/ Shared(m, nodes \cap DOMAIN m.node)]

---------------------------------------------------------------------------
(* Builders.                                                               *)

value_alloc(m, contents) ==
  { IF a.ptr = NULL THEN Result(m, "NOMEM", NULL)
    ELSE Result(Store(a.mem, a.ptr, contents), "OK", a.ptr) :
    a \in bencode_alloc(m, contents.alloc) }

\* A new node, by an allocator that has both its functions.
New(m, contents) ==
  IF bencode_allocator_check(contents.alloc) = "OK" THEN value_alloc(m, contents)
  ELSE {Result(m, "INVALID_ARG", NULL)}

bencode_int_new(m, alloc, v) == New(m, [Node(alloc, "INT") EXCEPT !.i = v])

bencode_string_new_borrowed(m, alloc, bytes) ==
  value_alloc(m, [Node(alloc, "STRING") EXCEPT !.bytes = bytes])

\* Mutant: the payload is borrowed.
CopyPayload_borrowed(r, alloc, bytes) == {r}

\* The payload is copied, unless it is empty; a node whose payload cannot be
\* copied is freed.
CopyPayload(r, alloc, bytes) ==
  { IF copy.ptr = NULL THEN Result(bencode_value_free(r.mem, r.ptr), "NOMEM", NULL)
    ELSE [r EXCEPT !.mem = [copy.mem EXCEPT !.node[r.ptr].owned = copy.ptr]] :
    copy \in bencode_alloc(r.mem, alloc) }

bencode_string_new(m, alloc, bytes) ==
  UNION { IF r.status # "OK" \/ bytes = <<>> THEN {r} ELSE CopyPayload(r, alloc, bytes) :
          r \in New(m, [Node(alloc, "STRING") EXCEPT !.bytes = bytes]) }

bencode_list_new(m, alloc) == New(m, Node(alloc, "LIST"))

bencode_dict_new(m, alloc) == New(m, Node(alloc, "DICT"))

\* Mutant: room is counted for the entries there are.
HasRoom_late(nd) == Len(nd.entries) <= nd.capacity

HasRoom(nd) == Len(nd.entries) + 1 <= nd.capacity

\* Room for one more entry of n.  The allocator offers no realloc: the array
\* is copied into one of twice the capacity and freed.
grow_array(m, n) ==
  LET nd      == m.node[n]
      new_cap == IF nd.capacity = 0 THEN INITIAL_CAPACITY ELSE 2 * nd.capacity
  IN  IF HasRoom(nd) THEN {Result(m, "OK", n)}
      ELSE IF new_cap > MAX_CAPACITY THEN {Result(m, "NOMEM", n)}
      ELSE { IF a.ptr = NULL THEN Result(m, "NOMEM", n)
             ELSE Result(Store(bencode_free(a.mem, nd.alloc, nd.array), n,
                               [nd EXCEPT !.array = a.ptr, !.capacity = new_cap]),
                         "OK", n) : a \in bencode_alloc(m, nd.alloc) }

\* The arguments bencode_list_append and bencode_dict_set refuse.
WrongArguments(m, container, type, child) ==
  container = NULL \/ child = NULL \/ m.node[container].type # type

bencode_list_append(m, list, child) ==
  IF WrongArguments(m, list, "LIST", child) THEN {Result(m, "INVALID_ARG", list)}
  ELSE { IF g.status # "OK" THEN g
         ELSE [g EXCEPT !.mem.node[list].entries = Append(@, Entry(<<>>, NULL, child))] :
         g \in grow_array(m, list) }

\* Mutant: the last entry is never looked at.
dict_search_short(entries, key) ==
  LET found == { k \in 1..(Len(entries) - 1) : entries[k].key = key }
      before == { k \in DOMAIN entries : KeyBefore(entries[k].key, key) }
  IN  IF found # {} THEN [index |-> Min(found), match |-> TRUE]
      ELSE [index |-> Cardinality(before) + 1, match |-> FALSE]

\* Binary search: the index (from 1) where key is, or would be inserted.
dict_search(entries, key) ==
  LET Range_lo_hi == (0..Len(entries)) \X (0..Len(entries))
      search[r \in Range_lo_hi] ==
        LET lo  == r[1]
            hi  == r[2]
            mid == lo + (hi - lo) \div 2
            c   == bytes_cmp(entries[mid + 1].key, key)
        IN  IF lo >= hi THEN [index |-> lo + 1, match |-> FALSE]
            ELSE IF c = 0 THEN [index |-> mid + 1, match |-> TRUE]
            ELSE IF c < 0 THEN search[<<mid + 1, hi>>]
            ELSE search[<<lo, mid>>]
  IN  search[<<0, Len(entries)>>]

\* Mutant: the old value is forgotten.
Replace_leaking(m, dict, index, child) ==
  [m EXCEPT !.node[dict].entries[index].value = child]

\* A key that is there keeps its copy and gets the new value.
Replace(m, dict, index, child) ==
  LET freed == bencode_value_free(m, m.node[dict].entries[index].value)
  IN  [freed EXCEPT !.node[dict].entries[index].value = child]

\* A new key: its copy is allocated before the array grows, and freed when
\* the array cannot.
Insert(m, dict, index, key, child) ==
  UNION { IF key # <<>> /\ copy.ptr = NULL THEN {Result(m, "NOMEM", dict)}
          ELSE { IF g.status # "OK" THEN [g EXCEPT !.mem = bencode_free(@, m.node[dict].alloc, copy.ptr)]
                 ELSE [g EXCEPT !.mem.node[dict].entries =
                         InsertAt(@, index, Entry(key, copy.ptr, child))] :
                 g \in grow_array(copy.mem, dict) } :
          copy \in IF key = <<>> THEN {[mem |-> m, ptr |-> NULL]}
                  ELSE bencode_alloc(m, m.node[dict].alloc) }

bencode_dict_set(m, dict, key, child) ==
  LET s == dict_search(m.node[dict].entries, key)
  IN  IF WrongArguments(m, dict, "DICT", child) THEN {Result(m, "INVALID_ARG", dict)}
      ELSE IF s.match THEN {Result(Replace(m, dict, s.index, child), "OK", dict)}
      ELSE Insert(m, dict, s.index, key, child)

---------------------------------------------------------------------------
(* Accessors.                                                              *)

bencode_value_type(m, v) == IF v = NULL THEN "INVALID" ELSE m.node[v].type

Read(status, value) == [status |-> status, value |-> value]

bencode_value_int(m, v) ==
  IF bencode_value_type(m, v) = "INT" THEN Read("OK", m.node[v].i) ELSE Read("INVALID_ARG", 0)

bencode_value_string(m, v) ==
  IF bencode_value_type(m, v) = "STRING" THEN Read("OK", m.node[v].bytes)
  ELSE Read("INVALID_ARG", <<>>)

bencode_list_size(m, v) ==
  IF bencode_value_type(m, v) = "LIST" THEN Len(m.node[v].entries) ELSE 0

bencode_dict_size(m, v) ==
  IF bencode_value_type(m, v) = "DICT" THEN Len(m.node[v].entries) ELSE 0

\* Indices count from zero.
bencode_list_at(m, v, index) ==
  IF index < bencode_list_size(m, v) THEN m.node[v].entries[index + 1].value ELSE NULL

bencode_dict_at(m, v, index) ==
  IF index < bencode_dict_size(m, v) THEN Read("OK", m.node[v].entries[index + 1])
  ELSE Read("INVALID_ARG", Entry(<<>>, NULL, NULL))

bencode_dict_get(m, v, key) ==
  IF bencode_value_type(m, v) # "DICT" THEN NULL
  ELSE LET s == dict_search(m.node[v].entries, key)
       IN  IF s.match THEN m.node[v].entries[s.index].value ELSE NULL

---------------------------------------------------------------------------
(* What holds of a heap at every moment outside an operation.              *)

Block == Nat \ {NULL}

EntryType == [key : Bytes, key_copy : Nat, value : Nat]

NodeType ==
  [type : {"INT", "STRING", "LIST", "DICT"}, alloc : Allocator, i : Int, bytes : Bytes,
   owned : Nat, entries : Seq(EntryType), capacity : Nat, array : Nat]

\* A heap as a record.
Heap(L, N, F) == [live |-> L, node |-> N, fault |-> F]

\* The keys of a dict, in the order its array must have.
Sorted(entries) ==
  \A j, k \in DOMAIN entries : j < k => KeyBefore(entries[j].key, entries[k].key)

\* The blocks of node n, whose contents are nd.
Parts(n, nd) ==
  ({n, nd.owned, nd.array} \cup { nd.entries[k].key_copy : k \in DOMAIN nd.entries }) \ {NULL}

\* A heap on which nothing went wrong.
HeapType(m) ==
  /\ m = Heap(m.live, m.node, m.fault) /\ m.fault = FALSE
  /\ m.live \subseteq Allocator \X Block /\ IsFiniteSet(m.live)
  /\ DOMAIN m.node \subseteq Block /\ m.node \in [DOMAIN m.node -> NodeType]

\* Every live block is a part of exactly one node, and of that node in one
\* role as far as growing an array is concerned; the blocks in X are live and
\* not yet part of a node.
HeldOnce(m, X) ==
  /\ m.live = X \cup UNION { BlocksOf(m, n) : n \in DOMAIN m.node }
  /\ \A n1, n2 \in DOMAIN m.node :
       n1 # n2 => Parts(n1, m.node[n1]) \cap Parts(n2, m.node[n2]) = {}
  /\ \A n \in DOMAIN m.node : \A x \in X : x[2] \notin Parts(n, m.node[n])
  /\ \A n \in DOMAIN m.node : m.node[n].array # NULL =>
       /\ m.node[n].array # n /\ m.node[n].array # m.node[n].owned
       /\ \A k \in DOMAIN m.node[n].entries : m.node[n].entries[k].key_copy # m.node[n].array

\* Every entry leads to a node, and no two to the same one.
OneParent(m) ==
  /\ \A n \in DOMAIN m.node : \A k \in DOMAIN m.node[n].entries :
       m.node[n].entries[k].value \in DOMAIN m.node
  /\ \A n1, n2 \in DOMAIN m.node :
       \A k1 \in DOMAIN m.node[n1].entries, k2 \in DOMAIN m.node[n2].entries :
         m.node[n1].entries[k1].value = m.node[n2].entries[k2].value => n1 = n2 /\ k1 = k2

\* Entries fit their array, and those of a dict are sorted.
Ordered(m) ==
  \A n \in DOMAIN m.node :
    /\ Len(m.node[n].entries) <= m.node[n].capacity
    /\ m.node[n].type = "DICT" => Sorted(m.node[n].entries)

HeapInv(m, X) == HeapType(m) /\ HeldOnce(m, X) /\ OneParent(m) /\ Ordered(m)

\* The tree of v and nothing else; no entry leads back to its root.
OneTree(m, v) ==
  /\ HeapInv(m, {}) /\ DOMAIN m.node = Tree(m, v)
  /\ \A n \in DOMAIN m.node : v \notin Children(m, n)

===========================================================================
