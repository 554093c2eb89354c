------------------------------- MODULE MCEmit -------------------------------
(***************************************************************************)
(* The emitter on trees grown with the builders, dicts filled in an order  *)
(* that is not theirs.                                                     *)
(***************************************************************************)
EXTENDS EmitReference

Leaf(type, i, bytes) == [type |-> type, i |-> i, bytes |-> bytes, keys |-> <<>>, of |-> <<>>]
Number(i) == Leaf("INT", i, <<>>)
Text(bytes) == Leaf("STRING", 0, bytes)
List(of) == [Leaf("LIST", 0, <<>>) EXCEPT !.of = of]
Dict(keys, of) == [Leaf("DICT", 0, <<>>) EXCEPT !.keys = keys, !.of = of]

\* The result of a builder when no allocation fails.
Granted(results) == CHOOSE r \in results : r.status = "OK"

RECURSIVE Plant(_, _), Fill(_, _, _, _)

Plant(m, d) ==
  CASE d.type = "INT"    -> Granted(bencode_int_new(m, "libc", d.i))
    [] d.type = "STRING" -> Granted(bencode_string_new(m, "libc", d.bytes))
    [] d.type = "LIST"   -> LET r == Granted(bencode_list_new(m, "libc"))
                            IN  Result(Fill(r.mem, r.ptr, d, 1), "OK", r.ptr)
    [] d.type = "DICT"   -> LET r == Granted(bencode_dict_new(m, "libc"))
                            IN  Result(Fill(r.mem, r.ptr, d, 1), "OK", r.ptr)

\* The tree of d's entries from the k-th on, under node n.
Fill(m, n, d, k) ==
  IF k > Len(d.of) THEN m
  ELSE LET c == Plant(m, d.of[k])
           r == Granted(IF d.type = "LIST" THEN bencode_list_append(c.mem, n, c.ptr)
                        ELSE bencode_dict_set(c.mem, n, d.keys[k], c.ptr))
       IN  Fill(r.mem, n, d, k + 1)

Leaves == { Number(i) : i \in {-(SINK_MAX + 1), -1, 0, 9, 10, SINK_MAX} }
            \cup { Text(bytes) : bytes \in {<<>>, <<ch_e>>, [k \in 1..11 |-> ch_i]} }
Small == {Number(-7), Text(<<>>), List(<<>>), Dict(<<>>, <<>>), Text(<<97, 98>>)}
KeyOrders == { <<x, y, z>> : x, y, z \in {<<>>, <<97>>, <<97, 97>>, <<98>>} }

Shapes ==
  Leaves \cup Small
    \cup { List(of) : of \in UNION { [1..n -> Small] : n \in 1..2 } }
    \cup { Dict(keys, <<Number(1), List(<<Text(<<97>>)>>), Text(<<>>)>>) : keys \in KeyOrders }
    \cup { Dict(<<<<98>>, <<97>>>>, <<a, List(<<b>>)>>) : a, b \in Small }

MCTrees ==
  { LET r == Plant(EmptyHeap, d) IN <<r.mem, r.ptr>> : d \in Shapes } \cup {<<EmptyHeap, NULL>>}

MCTargets ==
  { [entry |-> e, null |-> n, alloc |-> "libc"] : e \in {"callback", "file", "buffer"}, n \in BOOLEAN }
    \cup { [entry |-> "buffer", null |-> FALSE, alloc |-> a] : a \in {"arena", "partial"} }

=============================================================================
