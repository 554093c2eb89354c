-------------------------------- MODULE MCCli --------------------------------
(***************************************************************************)
(* The tool run on small files: empty, scalar, nested, escaped, longer     *)
(* than the first buffer, malformed, truncated, trailed and too deep.      *)
(***************************************************************************)
EXTENDS CliReference

Int1 == <<ch_i, 49, ch_e>>
IntMin == <<ch_i, Minus, 49, 48, ch_e>>
Empty == <<48, Colon>>
Str(bytes) == <<Zero + Len(bytes), Colon>> \o bytes
List(inside) == <<ch_l>> \o inside \o <<ch_e>>
Dict(inside) == <<ch_d>> \o inside \o <<ch_e>>

MCContents ==
  { <<>>, Int1, IntMin, Empty, Str(<<34, 10, 97>>), List(<<>>), List(Int1 \o Empty),
    List(List(<<>>) \o Int1), Dict(<<>>), Dict(Empty \o Int1 \o Str(<<97>>) \o List(<<>>)),
    List(Dict(Str(<<98>>) \o Empty)),
    List(List(List(<<>>))), List(<<>>) \o <<10>>, <<ch_i, 48, 49, ch_e>>, <<ch_l>>,
    Dict(Str(<<98>>) \o Int1 \o Str(<<97>>) \o Int1) }

MCArgvs ==
  { <<>>, <<"--help">>, <<"-V", "f">>, <<"bogus">>, <<"size", "f", "g">>,
    <<"print", "--", "f", "g">> }
    \cup { <<c>> : c \in Subcommands } \cup { <<c, "--", "f">> : c \in Subcommands }

\* What the variables of calls not made yet hold.
NoCalls == {[input |-> <<>>, null |-> FALSE, max_depth |-> 0, hooks |-> Hooks]}
NoOptions == {[out_null |-> FALSE, alloc |-> "libc", trailing |-> FALSE]}
NoTrees == {<<EmptyHeap, NULL>>}
RoundtripTarget == {[entry |-> "buffer", null |-> FALSE, alloc |-> "libc"]}

==============================================================================
