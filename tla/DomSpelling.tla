---------------------------- MODULE DomSpelling ----------------------------
(***************************************************************************)
(* The document that the tree of bencode_parse stands for, once it is      *)
(* handed out and while it grows.                                          *)
(***************************************************************************)
EXTENDS ParseDom, Encoding

\* The tree handed to the caller spells exactly the bytes consumed: no entry
\* lost, none under another's key, none out of order.
TreeSpells ==
  dom_pc = "returned" /\ returned[1] = "OK" =>
    Spelling(mem, returned[2]) = SubSeq(call.input, 1, returned[3])

\* The ends of n containers.
Ends(n) == [i \in 1..n |-> ch_e]

\* The key that waits for its value.
Waiting(s) ==
  IF s.frames = <<>> \/ top(s).pending_key = <<>> THEN <<>>
  ELSE EncodeString(top(s).pending_key[1])

\* told is what the tree spells but for the ends of the open containers,
\* which are still to come, and the key that waits, which is not yet in it.
Spells(s, told) ==
  IF s.root = NULL THEN told = <<>>
  ELSE LET open   == Len(s.frames)
           doc    == Spelling(s.mem, s.root)
           so_far == SubSeq(doc, 1, Len(doc) - open)
       IN  open <= Len(doc) /\ doc = so_far \o Ends(open) /\ told = so_far \o Waiting(s)

\* The events of which the builder has been told: the one whose callback is
\* in flight is not among them.
Answered == IF InCallback THEN Front(events) ELSE events

DomSpelledInv ==
  /\ dom_pc # "returned" /\ pc # "unwind" /\ (pc = "done" => status = "OK") =>
       Spells(dom, EncodeEvents(Answered))
  /\ dom_pc # "returned" /\ pc = "done" /\ status = "OK" =>
       dom.root # NULL /\ dom.frames = <<>> /\ consumed = p
  /\ TreeSpells

===========================================================================
