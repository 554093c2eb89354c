---------------------------- MODULE MCSaxTokens ----------------------------
(***************************************************************************)
(* Documents put together from tokens rather than bytes: containers, dicts *)
(* with up to four keys, nesting at and past the limit, every subset of    *)
(* interest of the callbacks, each of which may abort.                     *)
(***************************************************************************)
EXTENDS SaxReference

CONSTANTS MaxTokens, MaxEntries, MaxDepths

Int1 == <<ch_i, 49, ch_e>>
Str(bytes) == <<Zero + Len(bytes), Colon>> \o bytes

Keys == { <<>>, <<97>>, <<97, 97>>, <<98>> }
Tokens == { <<ch_d>>, <<ch_l>>, <<ch_e>>, Int1, Str(<<>>), Str(<<97>>), Str(<<98>>) }
Entries == { Str(k) \o Int1 : k \in Keys }

\* The concatenations of up to n members of the set parts.
Texts(parts, n) == { FlattenSeq(ts) : ts \in BoundedSeq(parts, n) }

Containers == { open \o t : open \in {<<ch_d>>, <<ch_l>>}, t \in Texts(Tokens, MaxTokens) }
Dicts == { <<ch_d>> \o t \o <<ch_e>> : t \in Texts(Entries, MaxEntries) }

HookSets == { {}, Hooks, {"on_string", "on_list_end"} }

MCCalls ==
  [input : Containers \cup Dicts, null : {FALSE}, max_depth : MaxDepths, hooks : HookSets]
  \cup
  [input : {<<>>, Int1}, null : {TRUE}, max_depth : {0}, hooks : {Hooks}]

===========================================================================
