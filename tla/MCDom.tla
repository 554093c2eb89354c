------------------------------- MODULE MCDom -------------------------------
(***************************************************************************)
(* bencode_parse on documents put together from tokens, where any request  *)
(* to the allocator may fail.                                              *)
(***************************************************************************)
EXTENDS DomReference

CONSTANTS MaxTokens, MaxEntries

Int1 == <<ch_i, 49, ch_e>>
Str(bytes) == <<Zero + Len(bytes), Colon>> \o bytes

Tokens == { <<ch_d>>, <<ch_l>>, <<ch_e>>, Int1, Str(<<>>), Str(<<97>>) }
Keys == { <<>>, <<97>>, <<97, 97>>, <<98>> }
Entries == { Str(k) \o v : k \in Keys, v \in {Int1, <<ch_l, ch_e>>, <<ch_d, 48, 58, 48, 58, ch_e>>} }

Texts(parts, n) == { FlattenSeq(ts) : ts \in BoundedSeq(parts, n) }

Inputs ==
  { open \o t : open \in {<<ch_d>>, <<ch_l>>, <<>>}, t \in Texts(Tokens, MaxTokens) }
  \cup { <<ch_d>> \o t \o <<ch_e>> : t \in Texts(Entries, MaxEntries) }
  \cup { <<ch_l, ch_i, 49, ch_e, 49, Colon, 97, ch_l, ch_e, ch_d, ch_e, 48, Colon, ch_e>> }

MCCalls ==
  [input : Inputs, null : {FALSE}, max_depth : {0, 7}, hooks : {Hooks}]

MCOptions ==
  { [out_null |-> FALSE, alloc |-> "libc", trailing |-> t] : t \in BOOLEAN }
  \cup { [out_null |-> TRUE, alloc |-> "libc", trailing |-> FALSE],
         [out_null |-> FALSE, alloc |-> "partial", trailing |-> FALSE] }

===========================================================================
