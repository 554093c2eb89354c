----------------------------- MODULE ParseDom -----------------------------
(***************************************************************************)
(* bencode_parse (src/parse_dom.c): the callbacks that build a value tree  *)
(* while bencode_parse_sax recognises it.                                  *)
(*                                                                         *)
(* One behaviour is one call.  The parser is ParseSax, with every callback *)
(* set; its environment step is replaced by the callbacks of this file,    *)
(* each of which may fail because the allocator does.                      *)
(***************************************************************************)
EXTENDS ParseSax, ValueTree

CONSTANT Options   (* The options and pointers bencode_parse is called with. *)

\* out_null: no place for the result.  trailing: opts->allow_trailing.
OptionType == [out_null : BOOLEAN, alloc : Allocator, trailing : BOOLEAN]

ASSUME OptionsAssumption == Options \subseteq OptionType

\* The statuses other than OK the callbacks of this file may return.
DomErrors == {"INVALID_ARG", "NOMEM", "NESTING_TOO_DEEP"}

ASSUME DomErrorsAssumption == DomErrors \subseteq CallbackErrors

VARIABLES
  opts,      (* the options of the call                                     *)
  dom_pc,    (* "entry", "sax" while bencode_parse_sax runs, "returned"     *)
  dom,       (* dom_state: root, allocator, the frames of the open          *)
             (* containers, and the heap they point into                    *)
  returned   (* <<>>, then <<status, out, consumed>>                        *)

dom_vars == <<opts, dom_pc, dom, returned>>

\* pending_key is <<>> for NULL and <<key>> otherwise.
dom_frame(container, is_dict) ==
  [container |-> container, expecting_key |-> is_dict, pending_key |-> <<>>]

depth_cap == INTERNAL_MAX_DEPTH + 1

\* What bencode_parse starts from.
dom_state(alloc) == [root |-> NULL, alloc |-> alloc, frames |-> <<>>, mem |-> EmptyHeap]

DomInit ==
  /\ Init /\ call.hooks = Hooks
  /\ opts \in Options
  /\ dom_pc = "entry" /\ returned = <<>>
  /\ dom = dom_state(opts.alloc)

---------------------------------------------------------------------------
(* The callbacks, as operators from a dom_state to the results they may    *)
(* have.                                                                   *)

Outcome(s, st) == [dom |-> s, status |-> st]

top(s) == Last(s.frames)

IsDict(s, n) == s.mem.node[n].type = "DICT"

AttachToList(s, value) ==
  { Outcome([s EXCEPT !.mem = r.mem], r.status) :
    r \in bencode_list_append(s.mem, top(s).container, value) }

\* Mutant: the dict is left waiting for a value.
AttachToDict_unspent(s, value) ==
  LET f == top(s)
      key == IF f.pending_key = <<>> THEN <<>> ELSE f.pending_key[1]
  IN  { Outcome([s EXCEPT !.mem = r.mem], r.status) :
        r \in bencode_dict_set(s.mem, f.container, key, value) }

\* Whether or not the dict took the value, the pending key is spent.
AttachToDict(s, value) ==
  LET f     == top(s)
      key   == IF f.pending_key = <<>> THEN <<>> ELSE f.pending_key[1]
      spent == [f EXCEPT !.pending_key = <<>>, !.expecting_key = TRUE]
  IN  { Outcome([s EXCEPT !.mem = r.mem, !.frames[Len(s.frames)] = spent], r.status) :
        r \in bencode_dict_set(s.mem, f.container, key, value) }

attach(s, value) ==
  IF s.frames = <<>> THEN {Outcome([s EXCEPT !.root = value], "OK")}
  ELSE IF IsDict(s, top(s).container) THEN AttachToDict(s, value)
  ELSE AttachToList(s, value)

\* Mutant: a node that its parent could not take is forgotten.
AttachOrFree_leaking(s, node) == attach(s, node)

\* A node that its parent could not take is freed.
AttachOrFree(s, node) ==
  { IF a.status = "OK" THEN a ELSE [a EXCEPT !.dom.mem = bencode_value_free(@, node)] :
    a \in attach(s, node) }

\* A new node and its attachment, where r is the result of its allocation.
AttachNew(s, r) ==
  IF r.status # "OK" THEN {Outcome(s, r.status)}
  ELSE AttachOrFree([s EXCEPT !.mem = r.mem], r.ptr)

dom_on_int(s, value) == UNION { AttachNew(s, r) : r \in bencode_int_new(s.mem, s.alloc, value) }

\* Mutant: every string in a dict is taken for a key.
KeyExpected_always(s) == s.frames # <<>> /\ IsDict(s, top(s).container)

KeyExpected(s) ==
  s.frames # <<>> /\ IsDict(s, top(s).container) /\ top(s).expecting_key

\* A string in a dict that expects a key is that key; the value comes later.
StashKey(s, bytes) ==
  [s EXCEPT !.frames[Len(s.frames)] =
     [@ EXCEPT !.pending_key = <<bytes>>, !.expecting_key = FALSE]]

dom_on_string(s, bytes) ==
  IF KeyExpected(s) THEN {Outcome(StashKey(s, bytes), "OK")}
  ELSE UNION { AttachNew(s, r) : r \in bencode_string_new_borrowed(s.mem, s.alloc, bytes) }

PushFrame(s, node, is_dict) ==
  IF Len(s.frames) >= depth_cap THEN Outcome(s, "NESTING_TOO_DEEP")
  ELSE Outcome([s EXCEPT !.frames = Append(@, dom_frame(node, is_dict))], "OK")

\* Mutant: the frame is pushed before the parent's answer is looked at.
open_container_pushing(s, is_dict) ==
  UNION { { [PushFrame(a.dom, r.ptr, is_dict) EXCEPT !.status = a.status] :
            a \in AttachNew(s, r) } :
          r \in IF is_dict THEN bencode_dict_new(s.mem, s.alloc)
                ELSE bencode_list_new(s.mem, s.alloc) }

\* A container is attached to its parent before its own entries arrive.
open_container(s, is_dict) ==
  UNION { { IF a.status = "OK" THEN PushFrame(a.dom, r.ptr, is_dict) ELSE a :
            a \in AttachNew(s, r) } :
          r \in IF is_dict THEN bencode_dict_new(s.mem, s.alloc)
                ELSE bencode_list_new(s.mem, s.alloc) }

dom_on_end(s) ==
  {Outcome([s EXCEPT !.frames = IF @ = <<>> THEN @ ELSE Front(@)], "OK")}

Handler(s, e) ==
  CASE e.hook = "on_int"        -> dom_on_int(s, e.value)
    [] e.hook = "on_string"     -> dom_on_string(s, e.bytes)
    [] e.hook = "on_list_begin" -> open_container(s, FALSE)
    [] e.hook = "on_dict_begin" -> open_container(s, TRUE)
    [] OTHER                    -> dom_on_end(s)

---------------------------------------------------------------------------
(* The entry point.                                                        *)

RefuseArguments ==
  /\ dom_pc = "entry" /\ (opts.out_null \/ bencode_allocator_check(opts.alloc) # "OK")
  /\ dom_pc' = "returned" /\ returned' = <<"INVALID_ARG", NULL, 0>>
  /\ UNCHANGED <<vars, opts, dom>>

CallSax ==
  /\ dom_pc = "entry" /\ ~opts.out_null /\ bencode_allocator_check(opts.alloc) = "OK"
  /\ dom_pc' = "sax"
  /\ UNCHANGED <<vars, opts, dom, returned>>

SaxStep ==
  /\ dom_pc = "sax" /\ Parse
  /\ UNCHANGED dom_vars

DomCallback ==
  /\ dom_pc = "sax" /\ InCallback
  /\ \E r \in Handler(dom, Last(events)) :
       /\ Resume(r.status)
       /\ dom' = r.dom
  /\ UNCHANGED <<opts, dom_pc, returned>>

\* Mutant: trailing bytes are never refused.
FinalStatus_lenient == status

\* A complete value with something after it is refused unless the caller
\* asked for it; a tree that is not handed out is freed.
FinalStatus ==
  IF status = "OK" /\ ~opts.trailing /\ consumed # size THEN "UNEXPECTED_BYTE"
  ELSE status

Deliver ==
  /\ dom_pc = "sax" /\ pc = "done"
  /\ dom_pc' = "returned"
  /\ \/ /\ FinalStatus = "OK"
        /\ returned' = <<"OK", dom.root, consumed>>
        /\ UNCHANGED dom
     \/ /\ FinalStatus # "OK"
        /\ returned' = <<FinalStatus, NULL, consumed>>
        /\ dom' = [dom EXCEPT !.mem = bencode_value_free(@, dom.root)]
  /\ UNCHANGED <<vars, opts>>

DomNext == RefuseArguments \/ CallSax \/ SaxStep \/ DomCallback \/ Deliver

DomSpec == DomInit /\ [][DomNext]_<<vars, dom_vars>>

---------------------------------------------------------------------------
(* Properties.                                                             *)

frames == dom.frames
mem == dom.mem

\* The builder and the parser each keep a stack and an expecting_key of their
\* own (dom_frame, sax_scope) and never compare them.  Whenever no callback
\* is in flight they agree: the same containers are open, the innermost dict
\* expects the same thing, and the pending key is the parser's last key.  A
\* container that is a dict's value spends the dict's key when it begins,
\* long before the parser goes back to expecting one.
Mirror ==
  dom_pc = "sax" /\ pc \in {"value", "body", "digits"} =>
    /\ Len(frames) = Len(scopes)
    /\ \A i \in DOMAIN frames :
         LET sc == scopes[i]
             wants_key == IF i = Len(scopes) THEN sc.expecting_key ELSE sc.is_dict
         IN  /\ IsDict(dom, frames[i].container) = sc.is_dict
             /\ frames[i].expecting_key = wants_key
             /\ frames[i].pending_key =
                  IF sc.is_dict /\ ~wants_key THEN sc.last_key ELSE <<>>

\* The frames are the rightmost path of the tree: each open container is the
\* root or the last entry of the one around it, so the pointer in a frame is
\* never that of a freed node.
Spine ==
  dom_pc = "sax" =>
    \A i \in DOMAIN frames :
      /\ frames[i].container \in DOMAIN mem.node
      /\ frames[i].container =
           IF i = 1 THEN dom.root
           ELSE Last(mem.node[frames[i - 1].container].entries).value

\* Whatever allocation fails, at every moment outside a callback the blocks
\* allocated are those of the one tree, and nothing was freed twice; once
\* the call has returned, that tree is the one the caller got, if any.
Owned ==
  LET tree == IF dom_pc = "returned" THEN returned[2] ELSE dom.root
  IN  /\ ~mem.fault
      /\ mem.live = Blocks(mem, tree) /\ DOMAIN mem.node = Tree(mem, tree)

\* The arrays and dicts of the tree are what the accessors rely on: entries
\* within the array's capacity, and keys strictly ascending, so that the
\* binary search of bencode_dict_get finds each of them.
Searchable ==
  \A n \in DOMAIN mem.node :
    LET nd == mem.node[n]
    IN  /\ Len(nd.entries) <= nd.capacity
        /\ nd.type = "DICT" =>
             \A k \in DOMAIN nd.entries :
               /\ k > 1 => KeyBefore(nd.entries[k - 1].key, nd.entries[k].key)
               /\ dict_search(nd.entries, nd.entries[k].key) = [index |-> k, match |-> TRUE]

---------------------------------------------------------------------------
(* What holds of the builder and the parser together, and makes the        *)
(* properties above inductive.                                             *)

FrameType == [container : Nat, expecting_key : BOOLEAN, pending_key : Seq(Bytes)]

\* dom_state with its heap: the one tree, and the path to where it grows.
DomType(s) ==
  /\ s = [root |-> s.root, alloc |-> s.alloc, frames |-> s.frames, mem |-> s.mem]
  /\ s.root \in Nat /\ s.alloc \in Allocator /\ s.frames \in Seq(FrameType)

\* n's last entry leads to v.
LastIs(m, n, v) == m.node[n].entries # <<>> /\ Last(m.node[n].entries).value = v

OnSpine(s) ==
  /\ \A i \in DOMAIN s.frames :
       /\ s.frames[i].container \in DOMAIN s.mem.node
       /\ i = 1 => s.frames[i].container = s.root
       /\ i > 1 => LastIs(s.mem, s.frames[i - 1].container, s.frames[i].container)
  /\ \A i, j \in DOMAIN s.frames : i # j => s.frames[i].container # s.frames[j].container

\* What the callback in flight is for: a container or a key, of which the
\* parser's scopes already know, or the end of a container, of which they no
\* longer do.
Opening == pc = "open_callback" /\ Last(events).hook # "on_string"
KeyRead == pc = "open_callback" /\ Last(events).hook = "on_string"
Closing == pc = "value_callback" /\ Last(events).hook \in {"on_list_end", "on_dict_end"}

CallbackInv ==
  /\ Opening => \/ Last(events).hook = "on_list_begin" /\ Last(scopes) = NewScope(FALSE)
                \/ Last(events).hook = "on_dict_begin" /\ Last(scopes) = NewScope(TRUE)
  /\ KeyRead => /\ Last(scopes).is_dict /\ ~Last(scopes).expecting_key
                /\ Last(scopes).keys # <<>> /\ Last(Last(scopes).keys) = Last(events).bytes
  /\ pc = "value_callback" /\ ~Closing => Last(events).hook \in {"on_int", "on_string"}

\* Frame f, whose container's contents are nd, against scope c.  spent: the
\* frame has been told all there is in the scope so far, but for a key that
\* is ahead of it.
Agrees(f, nd, c, spent, ahead) ==
  /\ nd.type = IF c.is_dict THEN "DICT" ELSE "LIST"
  /\ f.expecting_key = IF spent THEN c.is_dict ELSE c.expecting_key
  /\ f.pending_key = IF c.is_dict /\ ~f.expecting_key THEN <<Last(c.keys)>> ELSE <<>>
  /\ c.is_dict => /\ Len(c.keys) = Len(nd.entries) + IF ahead THEN 1 ELSE Len(f.pending_key)
                  /\ \A k \in DOMAIN nd.entries : nd.entries[k].key = c.keys[k]

StackInv ==
  /\ Len(frames) = IF Opening THEN Len(scopes) - 1
                   ELSE IF Closing THEN Len(scopes) + 1 ELSE Len(scopes)
  /\ frames = <<>> => dom.root = NULL
  /\ Closing => top(dom).pending_key = <<>>
  /\ \A i \in DOMAIN frames \cap DOMAIN scopes :
       Agrees(frames[i], mem.node[frames[i].container], scopes[i],
              i < Len(frames) \/ KeyRead, i = Len(frames) /\ KeyRead)

DomInv ==
  /\ opts \in OptionType /\ dom_pc \in {"entry", "sax", "returned"} /\ DomType(dom)
  /\ dom_pc = "entry" => pc = "entry"
  /\ pc = "entry" => dom.root = NULL /\ dom.frames = <<>> /\ dom.mem = EmptyHeap
  /\ OneTree(mem, IF dom_pc = "returned" THEN returned[2] ELSE dom.root)
  /\ dom_pc # "returned" => OnSpine(dom) /\ CallbackInv /\ (pc \notin {"unwind", "done"} => StackInv)

===========================================================================
