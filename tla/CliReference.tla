---------------------------- MODULE CliReference ----------------------------
(***************************************************************************)
(* The command-line tool compared with what its documentation promises:    *)
(* the exit codes, the rendering and the statistics.                       *)
(***************************************************************************)
EXTENDS Cli

Canonical == INSTANCE CanonicalBencode

IsCanonical(data) == Len(data) \in Canonical!Documents(data, DEFAULT_MAX_DEPTH)

OutOfMemory ==
  \/ dom_pc = "returned" /\ returned[1] = "NOMEM"
  \/ emit_status = "NOMEM"

\* The exit code of a subcommand tells its caller what the file is.  It is 0
\* only for a canonical document, the whole file; 1 only for a file that is
\* not one, unless memory ran out; so roundtrip never differs.  It is 2 just
\* when reading failed or a write reported that it did.
ExitCode ==
  cli_pc = "exit" /\ ~BadUsage /\ ~Informs =>
    /\ rc = 0 => IsCanonical(fp.data)
    /\ rc = 1 => ~IsCanonical(fp.data) \/ OutOfMemory
    /\ rc = 2 <=> read_rc # 0 \/ stdout.error

---------------------------------------------------------------------------

RECURSIVE Rendering(_)

Joined(parts) == FlattenSeq([k \in DOMAIN parts |-> IF k = 1 THEN parts[k] ELSE <<44>> \o parts[k]])

\* The rendering of the tree at node n.
Rendering(n) ==
  LET nd == heap.node[n]
      Render(e) ==
        IF nd.type = "DICT" THEN print_string(e.key) \o <<Colon>> \o Rendering(e.value)
        ELSE Rendering(e.value)
      inside == Joined([k \in DOMAIN nd.entries |-> Render(nd.entries[k])])
  IN  CASE nd.type = "INT"    -> signed_decimal(nd.i)
        [] nd.type = "STRING" -> print_string(nd.bytes)
        [] nd.type = "LIST"   -> <<91>> \o inside \o <<93>>
        [] nd.type = "DICT"   -> <<123>> \o inside \o <<125>>

\* print succeeds only when the rendering of all of the tree, every key with
\* its value, has left the process; and it never writes anything else.
Printed ==
  command = "print" /\ cli_pc \in {"printing", "flush", "cleanup"} =>
    LET wanted == Rendering(root) \o newline
    IN  /\ IsPrefix(stdout.text, wanted)
        /\ cli_pc = "cleanup" /\ rc = 0 =>
             stdout.text = wanted /\ stdout.delivered = Len(wanted)

---------------------------------------------------------------------------

Count(hooks) == Cardinality({ k \in DOMAIN events : events[k].hook \in hooks })

Before(k, hooks) == Cardinality({ j \in 1..(k - 1) : events[j].hook \in hooks })

\* How many containers are open when event k arrives.
Nesting(k) ==
  Before(k, {"on_list_begin", "on_dict_begin"}) - Before(k, {"on_list_end", "on_dict_end"})

Values == { k \in DOMAIN events : events[k].hook \notin {"on_list_end", "on_dict_end"} }

\* The statistics of the tree are those of the parser's events: an integer,
\* a string, a list and a dict for each of theirs, all the bytes of all the
\* strings, the keys among both; a value for every node; and the greatest
\* nesting of any of them.
StatsAgree ==
  cli_pc = "cleanup" /\ command = "size" =>
    stats =
      [ total_values |-> Cardinality(DOMAIN heap.node),
        ints |-> Count({"on_int"}), strings |-> Count({"on_string"}),
        lists |-> Count({"on_list_begin"}), dicts |-> Count({"on_dict_begin"}),
        max_depth_seen |-> Max({ Nesting(k) : k \in Values }),
        total_string_bytes |-> FoldSet(LAMBDA k, sum : sum + Len(events[k].bytes), 0, Values) ]

---------------------------------------------------------------------------
(* What the documentation says, and the code does not do.                  *)

\* README.md, and the head of main.c: a failure to write to standard output
\* is exit code 2.
WriteErrorsReported ==
  cli_pc = "gone" /\ command \in Subcommands /\ stdout.error => rc = 2

\* The head of main.c: exit code 1 is for an input that is not canonical, or
\* a round trip that differs.
OneMeansNotCanonical ==
  cli_pc = "gone" /\ rc = 1 =>
    \/ ~IsCanonical(fp.data)
    \/ emit_pc = "released" /\ sink.got # fp.data

=============================================================================
