------------------------------ MODULE Encoding ------------------------------
(***************************************************************************)
(* How canonical bencode writes a number, a string and a sequence of       *)
(* events: each has one spelling.  Written from the grammar, not from the  *)
(* parser's or the emitter's code, which are compared with it.             *)
(***************************************************************************)
EXTENDS Bencode

\* The shortest decimal notation of a number.
Decimal[n \in Nat] ==
  IF n < 10 THEN <<Zero + n>> ELSE Decimal[n \div 10] \o <<Zero + (n % 10)>>

EncodeInt(n) ==
  <<ch_i>> \o (IF n < 0 THEN <<Minus>> \o Decimal[-n] ELSE Decimal[n]) \o <<ch_e>>

EncodeString(s) == Decimal[Len(s)] \o <<Colon>> \o s

Encode(e) ==
  CASE e.hook = "on_int"        -> EncodeInt(e.value)
    [] e.hook = "on_string"     -> EncodeString(e.bytes)
    [] e.hook = "on_list_begin" -> <<ch_l>>
    [] e.hook = "on_dict_begin" -> <<ch_d>>
    [] OTHER                    -> <<ch_e>>

\* The document a sequence of events spells.
EncodeEvents(es) == FlattenSeq([i \in DOMAIN es |-> Encode(es[i])])

---------------------------------------------------------------------------
(* Trees.  of gives the spelling of each child.                            *)

\* The k-th entry of a container: in a dict the key comes first.
EncodeEntry(nd, k, of) ==
  IF nd.type = "DICT" THEN EncodeString(nd.entries[k].key) \o of[nd.entries[k].value]
  ELSE of[nd.entries[k].value]

\* The entries from the k-th on, and the end of the container.
EncodeRest(nd, k, of) ==
  FlattenSeq([j \in 1..(Len(nd.entries) - k + 1) |-> EncodeEntry(nd, k + j - 1, of)]) \o <<ch_e>>

EncodeNode(nd, of) ==
  CASE nd.type = "INT"    -> EncodeInt(nd.i)
    [] nd.type = "STRING" -> EncodeString(nd.bytes)
    [] nd.type = "LIST"   -> <<ch_l>> \o EncodeRest(nd, 1, of)
    [] nd.type = "DICT"   -> <<ch_d>> \o EncodeRest(nd, 1, of)

\* The documents that the trees of heap m stand for, by their roots.
Spellings(m) ==
  LET spelling[n \in DOMAIN m.node] == EncodeNode(m.node[n], spelling)
  IN  spelling

Spelling(m, n) == Spellings(m)[n]

=============================================================================
