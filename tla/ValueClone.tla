----------------------------- MODULE ValueClone -----------------------------
(***************************************************************************)
(* bencode_value_clone (src/value.c): a copy of a tree, node by node, with *)
(* an allocator that may refuse any of the requests.  The recursion of the *)
(* code is a stack of frames here, and its steps a function of their       *)
(* number.                                                                 *)
(***************************************************************************)
EXTENDS ValueTree

(***************************************************************************)
(* A clone under way.                                                      *)
(*   mem     the heap                                                      *)
(*   frames  the calls in progress, the outermost first: the node each of  *)
(*           them copies, its copy, and the entry it has come to           *)
(*   status  OK, or why the copy is being given up                         *)
(*   ptr     the copy, at the end                                          *)
(***************************************************************************)
Frame(of, copy, next) == [of |-> of, copy |-> copy, next |-> next]

Copying(m, frames, status, ptr) ==
  [mem |-> m, frames |-> frames, status |-> status, ptr |-> ptr]

NewCopy(m, alloc, nd) ==
  CASE nd.type = "INT"    -> bencode_int_new(m, alloc, nd.i)
    [] nd.type = "STRING" -> bencode_string_new(m, alloc, nd.bytes)
    [] nd.type = "LIST"   -> bencode_list_new(m, alloc)
    [] nd.type = "DICT"   -> bencode_dict_new(m, alloc)

\* A call for node v: a new node, whose entries are still to come.
Enter(m, frames, alloc, v) ==
  { IF r.status = "OK" THEN Copying(r.mem, Append(frames, Frame(v, r.ptr, 1)), "OK", NULL)
    ELSE Copying(r.mem, frames, r.status, NULL) :
    r \in NewCopy(m, alloc, m.node[v]) }

\* An entry of the copy: key is the original's, value is already copied.
AddEntry(m, copy, key, value) ==
  IF m.node[copy].type = "LIST" THEN bencode_list_append(m, copy, value)
  ELSE bencode_dict_set(m, copy, key, value)

\* Mutant: the child that was not attached is forgotten.
GiveUp_child(m, frames, status) == Copying(m, Front(frames), status, NULL)

\* The copy f around it has no room for the innermost one.
GiveUp(m, frames, status) == Copying(m, frames, status, NULL)

\* The innermost copy is complete: an entry of the one around it.
Attached(m, outer, child) ==
  LET f == Last(outer)
  IN  { IF a.status = "OK"
        THEN Copying(a.mem, Append(Front(outer), Frame(f.of, f.copy, f.next + 1)), "OK", NULL)
        ELSE GiveUp(a.mem, Append(outer, child), a.status) :
        a \in AddEntry(m, f.copy, m.node[f.of].entries[f.next].key, child.copy) }

\* Each call in progress frees its copy when the clone is given up, and else
\* goes on with its next entry, or returns to the call around it.
CloneStep(c, alloc) ==
  LET f       == Last(c.frames)
      outer   == Front(c.frames)
      entries == c.mem.node[f.of].entries
  IN  IF c.status # "OK" THEN
        {Copying(bencode_value_free(c.mem, f.copy), outer, c.status, NULL)}
      ELSE IF f.next <= Len(entries) THEN Enter(c.mem, c.frames, alloc, entries[f.next].value)
      ELSE IF outer = <<>> THEN {Copying(c.mem, <<>>, "OK", f.copy)}
      ELSE Attached(c.mem, outer, f)

\* A call for every node, and at most a return and a release for each.
bencode_value_clone(m, alloc, v) ==
  LET copying[k \in Nat] ==
        IF k = 0 THEN Enter(m, <<>>, alloc, v)
        ELSE UNION { CloneStep(c, alloc) : c \in { x \in copying[k - 1] : x.frames # <<>> } }
      ended == { c \in UNION { copying[k] : k \in 0..(3 * Cardinality(DOMAIN m.node)) } :
                   c.frames = <<>> }
  IN  IF bencode_allocator_check(alloc) # "OK" THEN {Result(m, "INVALID_ARG", NULL)}
      ELSE IF v = NULL THEN {Result(m, "OK", NULL)}
      ELSE { Result(c.mem, c.status, c.ptr) : c \in ended }

=============================================================================
