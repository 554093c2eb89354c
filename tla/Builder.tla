------------------------------ MODULE Builder ------------------------------
(***************************************************************************)
(* A caller of the builders (src/value.c): any sequence of calls the       *)
(* header allows, on values made by several allocators, each of which may  *)
(* refuse any request.                                                     *)
(*                                                                         *)
(* The caller keeps the rules of the header: it gives away only values it  *)
(* owns, never puts a value inside itself, frees what it owns once, and    *)
(* keeps an input buffer until every value parsed from it has been freed.  *)
(***************************************************************************)
EXTENDS ValueClone

CONSTANTS
  NewValues,    (* What the caller asks for: <<operation, allocator, data>>. *)
  CloneInto,    (* The allocators clones are made with.                     *)
  Keys,         (* The keys of its dicts.                                   *)
  MaxMade,      (* Bound: the values asked for in one behaviour,            *)
  MaxRoots,     (* Bound: those the caller owns at once,                    *)
  MaxEntries    (* Bound: and the entries of one container.                 *)

ASSUME BuilderAssumption ==
  /\ \A v \in NewValues :
       /\ v[1] \in {"int_new", "string_new", "list_new", "dict_new", "parse"}
       /\ v[2] \in Allocator /\ v[3] \in Bytes
  /\ CloneInto \subseteq Allocator /\ Keys \subseteq Bytes

VARIABLES
  heap,      (* the allocators' blocks and the nodes in them                *)
  roots,     (* the values the caller owns                                  *)
  ask,       (* the call in progress                                        *)
  answer,    (* <<status, value>> of the last call, or <<>> during one      *)
  input,     (* the buffer parsed from: held by the caller or not, and the  *)
             (* values parsed from it                                       *)
  made       (* how many values it has asked for                            *)

vars == <<heap, roots, ask, answer, input, made>>

Contents(m, n) ==
  LET nd == m.node[n]
      position(key) == CHOOSE k \in DOMAIN nd.entries : nd.entries[k].key = key
  IN  [type |-> nd.type, i |-> nd.i, data |-> nd.bytes,
       kids |-> IF nd.type = "DICT"
                THEN [key \in { nd.entries[k].key : k \in DOMAIN nd.entries } |->
                        nd.entries[position(key)].value]
                ELSE [k \in DOMAIN nd.entries |-> nd.entries[k].value]]

Forest == INSTANCE ValueForest
  WITH nodes <- [n \in DOMAIN heap.node |-> Contents(heap, n)]

Request(op) == Forest!Request(op)

BuilderInit ==
  /\ heap = EmptyHeap /\ roots = {}
  /\ ask = Forest!Idle /\ answer = <<>>
  /\ input = [held |-> TRUE, parsed |-> {}] /\ made = 0

---------------------------------------------------------------------------
(* The caller.                                                             *)

Room == made < MaxMade /\ Cardinality(roots) < MaxRoots

Call(request) ==
  /\ ask = Forest!Idle
  /\ ask' = request /\ answer' = <<>>
  /\ made' = IF request.op \in Forest!Makes \cup {"clone"} THEN made + 1 ELSE made
  /\ UNCHANGED <<heap, roots, input>>

CallMake == \E v \in NewValues :
  /\ Room
  /\ v[1] = "parse" => input.held
  /\ Call([Request(v[1]) EXCEPT !.alloc = v[2], !.data = v[3], !.i = Len(v[3])])

Containers(child) ==
  {NULL} \cup { n \in DOMAIN heap.node \ Tree(heap, child) :
                  Len(heap.node[n].entries) < MaxEntries }

CallAppend == \E child \in roots \cup {NULL} : \E list \in Containers(child) :
  Call([Request("append") EXCEPT !.node = list, !.child = child])

CallSet == \E child \in roots \cup {NULL}, key \in Keys : \E dict \in Containers(child) :
  Call([Request("set") EXCEPT !.node = dict, !.key = key, !.child = child])

CallClone == \E v \in DOMAIN heap.node \cup {NULL}, a \in CloneInto :
  /\ Room
  /\ Call([Request("clone") EXCEPT !.node = v, !.alloc = a])

CallFree == \E v \in roots \cup {NULL} : Call([Request("free") EXCEPT !.node = v])

\* A call without a pointer it needs: out, or the bytes of a string or a key
\* whose length is not 0.
CallWithNull == Call(Request("with_null"))

\* The buffer may go when no value parsed from it is left.
FreeInput ==
  /\ ask = Forest!Idle /\ input.held /\ input.parsed \cap DOMAIN heap.node = {}
  /\ input' = [held |-> FALSE, parsed |-> {}]
  /\ UNCHANGED <<heap, roots, ask, answer, made>>

---------------------------------------------------------------------------
(* The library.                                                            *)

Return(m, st, v) == heap' = m /\ answer' = <<st, v>> /\ ask' = Forest!Idle

\* A new value, or a clone: the caller owns it.
Receive(results) == \E r \in results :
  /\ Return(r.mem, r.status, r.ptr)
  /\ roots' = roots \cup ({r.ptr} \ {NULL})

Make ==
  /\ \/ ask.op = "int_new"    /\ Receive(bencode_int_new(heap, ask.alloc, ask.i))
     \/ ask.op = "string_new" /\ Receive(bencode_string_new(heap, ask.alloc, ask.data))
     \/ ask.op = "list_new"   /\ Receive(bencode_list_new(heap, ask.alloc))
     \/ ask.op = "dict_new"   /\ Receive(bencode_dict_new(heap, ask.alloc))
     \/ ask.op = "clone"      /\ Receive(bencode_value_clone(heap, ask.alloc, ask.node))
  /\ UNCHANGED <<input, made>>

\* bencode_parse of a document that is one string: its bytes stay in the input.
Parse ==
  /\ ask.op = "parse"
  /\ Receive(IF bencode_allocator_check(ask.alloc) = "OK"
             THEN bencode_string_new_borrowed(heap, ask.alloc, ask.data)
             ELSE {Result(heap, "INVALID_ARG", NULL)})
  /\ input' = [input EXCEPT !.parsed = @ \cup (roots' \ roots)]
  /\ UNCHANGED made

\* A child that was taken is no longer the caller's.
Give(results) == \E r \in results :
  /\ Return(r.mem, r.status, NULL)
  /\ roots' = IF r.status = "OK" THEN roots \ {ask.child} ELSE roots

Attach ==
  /\ \/ ask.op = "append" /\ Give(bencode_list_append(heap, ask.node, ask.child))
     \/ ask.op = "set"    /\ Give(bencode_dict_set(heap, ask.node, ask.key, ask.child))
  /\ UNCHANGED <<input, made>>

Free ==
  /\ ask.op = "free"
  /\ Return(bencode_value_free(heap, ask.node), "OK", NULL)
  /\ roots' = roots \ {ask.node}
  /\ UNCHANGED <<input, made>>

\* The missing pointer is noticed before anything else is looked at.
RefuseNull ==
  /\ ask.op = "with_null"
  /\ Return(heap, "INVALID_ARG", NULL)
  /\ UNCHANGED <<roots, input, made>>

BuilderNext ==
  \/ CallMake \/ CallAppend \/ CallSet \/ CallClone \/ CallFree \/ CallWithNull \/ FreeInput
  \/ Make \/ Parse \/ Attach \/ Free \/ RefuseNull

BuilderSpec == BuilderInit /\ [][BuilderNext]_vars

---------------------------------------------------------------------------
(* Properties.                                                             *)

\* Whatever was built, replaced, cloned or refused, and whichever allocators
\* were mixed: every block allocated belongs to exactly one tree of the
\* caller's, and none was freed twice, or by another allocator than its own.
Ownership ==
  /\ ~heap.fault
  /\ heap.live = UNION { Blocks(heap, r) : r \in roots }
  /\ \A r1, r2 \in roots : r1 # r2 => Tree(heap, r1) \cap Tree(heap, r2) = {}

\* In every dict, whatever the order of its insertions, bencode_dict_get finds
\* each key that is there and no other, and dict_at lists the keys ascending.
EveryKeyFound ==
  \A n \in { d \in DOMAIN heap.node : heap.node[d].type = "DICT" } :
    LET entries == heap.node[n].entries
        valueOf(key) == { entries[k].value : k \in { j \in DOMAIN entries : entries[j].key = key } }
    IN  /\ \A key \in Keys :
             valueOf(key) = {bencode_dict_get(heap, n, key)} \ {NULL}
        /\ \A k \in 1..(bencode_dict_size(heap, n) - 1) :
             KeyBefore(bencode_dict_at(heap, n, k - 1).value.key,
                       bencode_dict_at(heap, n, k).value.key)

\* Once the input is gone no value points into it: what was cloned from a
\* parsed tree, at any depth, has copies of its strings.
Detached ==
  ~input.held =>
    \A n \in DOMAIN heap.node : heap.node[n].bytes # <<>> => heap.node[n].owned # NULL

\* The builders keep the promises of ValueForest: a call that fails changes
\* nothing the caller can see, replacing a value cannot fail and frees the old
\* one, a clone is equal to its original and shares nothing with it.
ImplementsForest == Forest!ForestSpec

=============================================================================
