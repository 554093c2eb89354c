--------------------------------- MODULE Cli ---------------------------------
(***************************************************************************)
(* The command-line tool (src/main.c): one behaviour is one run of the     *)
(* process, from its arguments to its exit code.  It composes ReadAll (the *)
(* input), ParseDom (its tree) and Emit (roundtrip), and adds the dispatch,*)
(* the four subcommands, and standard output.                              *)
(*                                                                         *)
(* Wording and layout are left out: a message is the newline it ends with, *)
(* and print's rendering has no blanks.                                    *)
(***************************************************************************)
EXTENDS ParseDom, Emit, ReadAll

CONSTANT Argvs   (* The command lines, after the program's name.            *)

\* A file has bytes.
ASSUME FilesAssumption == Contents \subseteq Bytes

Subcommands == {"validate", "print", "roundtrip", "size"}

VARIABLES
  argv,     (* the command line                                             *)
  cli_pc,   (* where main, load or the subcommand is; see the actions       *)
  rc,       (* the exit code                                                *)
  stdout,   (* what was written, how much of it has left the process, and   *)
            (* the stream's error flag                                      *)
  stats     (* what size has tallied                                        *)

cli_vars == <<argv, cli_pc, rc, stdout, stats>>

parse_vars == <<vars, dom_vars>>

all_vars == <<cli_vars, parse_vars, emit_vars, read_vars>>

\* The subcommand, if there is one; a "--" may follow it.
command == IF argv = <<>> THEN "" ELSE argv[1]

next_arg == IF Len(argv) >= 2 /\ argv[2] = "--" THEN 3 ELSE 2

\* No file is standard input, too.
file == IF next_arg <= Len(argv) THEN argv[next_arg] ELSE "-"

NoStats == [total_values |-> 0, ints |-> 0, strings |-> 0, lists |-> 0, dicts |-> 0,
            max_depth_seen |-> 0, total_string_bytes |-> 0]

\* The variables of the parser and the emitter start as locals nobody has
\* set yet: load gives them their arguments.
CliInit ==
  /\ DomInit /\ EmitInit /\ ReadInit
  /\ heap = EmptyHeap /\ root = NULL
  /\ target = [entry |-> "buffer", null |-> FALSE, alloc |-> "libc"]
  /\ argv \in Argvs /\ fp.stdin = (file = "-")
  /\ cli_pc = "main" /\ rc = 0
  /\ stdout = [text |-> <<>>, delivered |-> 0, error |-> FALSE]
  /\ stats = NoStats

---------------------------------------------------------------------------
(* Standard output.                                                        *)

newline == <<10>>

\* The stream keeps what is written, or passes on all it has, or fails.
\* SIGPIPE is ignored: a closed pipe is a failure like any other.
Fputs(bytes) ==
  LET kept == [stdout EXCEPT !.text = @ \o bytes]
  IN  {kept, [kept EXCEPT !.delivered = Len(kept.text)], [stdout EXCEPT !.error = TRUE]}

Fflush == {[stdout EXCEPT !.delivered = Len(stdout.text)], [stdout EXCEPT !.error = TRUE]}

\* Mutant: the result of a write is not looked at.
Say_unchecked(results) == stdout' \in results /\ UNCHANGED rc

Say(results) == stdout' \in results /\ rc' = IF stdout'.error THEN 2 ELSE rc

---------------------------------------------------------------------------
(* main.                                                                   *)

Informs == command \in {"--help", "-h", "--version", "-V"}

BadUsage == ~Informs /\ (next_arg + 1 <= Len(argv) \/ command \notin Subcommands)

RefuseUsage ==
  /\ cli_pc = "main" /\ BadUsage
  /\ rc' = 2 /\ cli_pc' = "exit"
  /\ UNCHANGED <<argv, stdout, stats, parse_vars, emit_vars, read_vars>>

Inform ==
  /\ cli_pc = "main" /\ Informs
  /\ Say(Fputs(newline)) /\ cli_pc' = "exit"
  /\ UNCHANGED <<argv, stats, parse_vars, emit_vars, read_vars>>

Dispatch ==
  /\ cli_pc = "main" /\ ~BadUsage /\ ~Informs
  /\ cli_pc' = "load"
  /\ UNCHANGED <<argv, rc, stdout, stats, parse_vars, emit_vars, read_vars>>

---------------------------------------------------------------------------
(* load.                                                                   *)

status_to_exit(st) == IF st = "OK" THEN 0 ELSE IF st = "IO" THEN 2 ELSE 1

ReadStep ==
  /\ cli_pc = "load" /\ ReadNext
  /\ UNCHANGED <<cli_vars, parse_vars, emit_vars>>

CannotRead ==
  /\ cli_pc = "load" /\ read_pc = "returned" /\ read_rc # 0
  /\ rc' = 2 /\ cli_pc' = "exit"
  /\ UNCHANGED <<argv, stdout, stats, parse_vars, emit_vars, read_vars>>

CallParse ==
  /\ cli_pc = "load" /\ read_pc = "returned" /\ read_rc = 0
  /\ call' = [input |-> buf.bytes, null |-> FALSE, max_depth |-> 0, hooks |-> Hooks]
  /\ opts' = [out_null |-> FALSE, alloc |-> "libc", trailing |-> FALSE]
  /\ dom' = dom_state("libc")
  /\ cli_pc' = "parse"
  /\ UNCHANGED <<argv, rc, stdout, stats, pc, p, max_depth, scopes, num, events, callback_status,
                 status, consumed, dom_pc, returned, emit_vars, read_vars>>

ParseStep ==
  /\ cli_pc = "parse" /\ DomNext
  /\ UNCHANGED <<cli_vars, emit_vars, read_vars>>

\* The tree is the subcommand's now; or there is none, and the input is freed.
EndLoad ==
  /\ cli_pc = "parse" /\ dom_pc = "returned"
  /\ heap' = dom.mem /\ root' = returned[2]
  /\ rc' = status_to_exit(returned[1])
  /\ IF returned[1] = "OK" THEN cli_pc' = command /\ UNCHANGED buf
     ELSE cli_pc' = "exit" /\ buf' = NoBuffer
  /\ UNCHANGED <<argv, stdout, stats, parse_vars, target, emit_pc, tasks, sink, emit_status,
                 fp, read_pc, read_rc>>

---------------------------------------------------------------------------
(* validate and roundtrip.                                                 *)

cmd_validate ==
  /\ cli_pc = "validate"
  /\ Say(Fputs(newline)) /\ cli_pc' = "cleanup"
  /\ UNCHANGED <<argv, stats, parse_vars, emit_vars, read_vars>>

EmitStep ==
  /\ cli_pc = "roundtrip" /\ Emitting
  /\ UNCHANGED <<cli_vars, parse_vars, read_vars>>

Same(a, b) == Len(a) = Len(b) /\ memcmp(a, b, Len(a)) = 0

cmd_roundtrip ==
  /\ cli_pc = "roundtrip" /\ emit_pc = "returned"
  /\ IF emit_status = "OK" /\ Same(sink.got, buf.bytes) THEN Say(Fputs(newline))
     ELSE /\ rc' = IF emit_status = "OK" THEN 1 ELSE status_to_exit(emit_status)
          /\ UNCHANGED stdout
  /\ cli_pc' = "cleanup"
  /\ UNCHANGED <<argv, stats, parse_vars, emit_vars, read_vars>>

---------------------------------------------------------------------------
(* print: a walk like the emitter's, over its tasks, by the accessors.     *)

hex(d) == IF d < 10 THEN 48 + d ELSE 87 + d

escape(b) ==
  IF b \in {34, 92} THEN <<92, b>>
  ELSE IF b \in 32..126 THEN <<b>>
  ELSE <<92, 120, hex(b \div 16), hex(b % 16)>>

print_string(bytes) ==
  <<34>> \o FlattenSeq([k \in DOMAIN bytes |-> escape(bytes[k])]) \o <<34>>

Entries(n) == bencode_list_size(heap, n) + bencode_dict_size(heap, n)

Child(n, k) ==
  IF bencode_value_type(heap, n) = "LIST" THEN bencode_list_at(heap, n, k)
  ELSE bencode_dict_at(heap, n, k).value.value

Key(n, k) == bencode_dict_at(heap, n, k).value.key

print_value(n) ==
  CASE bencode_value_type(heap, n) = "INT"    ->
         << Write(signed_decimal(bencode_value_int(heap, n).value)) >>
    [] bencode_value_type(heap, n) = "STRING" ->
         << Write(print_string(bencode_value_string(heap, n).value)) >>
    [] bencode_value_type(heap, n) = "LIST"   ->
         IF Entries(n) = 0 THEN << Write(<<91, 93>>) >> ELSE << Write(<<91>>), Rest(n, 0) >>
    [] bencode_value_type(heap, n) = "DICT"   ->
         IF Entries(n) = 0 THEN << Write(<<123, 125>>) >> ELSE << Write(<<123>>), Rest(n, 0) >>

comma(n, k) == IF k + 1 < Entries(n) THEN << Write(<<44>>) >> ELSE <<>>

\* The loops of print_list and print_dict, from entry k on.
print_rest(n, k) ==
  LET is_dict == bencode_value_type(heap, n) = "DICT"
  IN  IF k = Entries(n) THEN << Write(IF is_dict THEN <<125>> ELSE <<93>>) >>
      ELSE (IF is_dict THEN << Write(print_string(Key(n, k))), Write(<<Colon>>) >> ELSE <<>>)
             \o << EmitValue(Child(n, k)) >> \o comma(n, k) \o << Rest(n, k + 1) >>

StartWalk ==
  /\ cli_pc \in {"print", "size"}
  /\ tasks' = << EmitValue(root) >>
  /\ cli_pc' = IF cli_pc = "print" THEN "printing" ELSE "walking"
  /\ UNCHANGED <<argv, rc, stdout, stats, parse_vars, read_vars,
                 heap, root, target, emit_pc, sink, emit_status>>

PrintValue ==
  /\ cli_pc = "printing" /\ tasks # <<>> /\ Head(tasks).kind # "bytes"
  /\ tasks' = (IF Head(tasks).kind = "value" THEN print_value(Head(tasks).node)
               ELSE print_rest(Head(tasks).node, Head(tasks).k)) \o Tail(tasks)
  /\ UNCHANGED <<cli_vars, parse_vars, read_vars, heap, root, target, emit_pc, sink, emit_status>>

\* A failed write ends the printing.
PrintText ==
  /\ cli_pc = "printing" /\ tasks # <<>> /\ Head(tasks).kind = "bytes"
  /\ Say(Fputs(Head(tasks).bytes))
  /\ tasks' = IF stdout'.error THEN <<>> ELSE Tail(tasks)
  /\ cli_pc' = IF stdout'.error THEN "cleanup" ELSE cli_pc
  /\ UNCHANGED <<argv, stats, parse_vars, read_vars, heap, root, target, emit_pc, sink,
                 emit_status>>

PrintNewline ==
  /\ cli_pc = "printing" /\ tasks = <<>>
  /\ Say(Fputs(newline))
  /\ cli_pc' = IF stdout'.error THEN "cleanup" ELSE "flush"
  /\ UNCHANGED <<argv, stats, parse_vars, emit_vars, read_vars>>

\* Mutant: the output is left to the flush at exit.
LastFlush_skipped == {stdout}

LastFlush == Fflush

PrintFlush ==
  /\ cli_pc = "flush"
  /\ Say(LastFlush) /\ cli_pc' = "cleanup"
  /\ UNCHANGED <<argv, stats, parse_vars, emit_vars, read_vars>>

---------------------------------------------------------------------------
(* size.                                                                   *)

\* Each recursive call is one deeper: as deep as there are loops around it.
depth == Len(SelectSeq(tasks, LAMBDA t : t.kind = "rest"))

Bump(st, counter) == [st EXCEPT ![counter] = @ + 1]

Tally(st, n) ==
  LET seen == [Bump(st, "total_values") EXCEPT !.max_depth_seen = IF depth > @ THEN depth ELSE @]
  IN  CASE bencode_value_type(heap, n) = "INT"    -> Bump(seen, "ints")
        [] bencode_value_type(heap, n) = "LIST"   -> Bump(seen, "lists")
        [] bencode_value_type(heap, n) = "DICT"   -> Bump(seen, "dicts")
        [] bencode_value_type(heap, n) = "STRING" ->
             [Bump(seen, "strings") EXCEPT
                !.total_string_bytes = @ + Len(bencode_value_string(heap, n).value)]

WalkValue ==
  /\ cli_pc = "walking" /\ tasks # <<>> /\ Head(tasks).kind = "value"
  /\ stats' = Tally(stats, Head(tasks).node)
  /\ tasks' = (IF bencode_value_type(heap, Head(tasks).node) \in {"LIST", "DICT"}
               THEN << Rest(Head(tasks).node, 0) >> ELSE <<>>) \o Tail(tasks)
  /\ UNCHANGED <<argv, cli_pc, rc, stdout, parse_vars, read_vars,
                 heap, root, target, emit_pc, sink, emit_status>>

\* Mutant: keys are not strings.
TallyKey_ignored(st, n, k) == st

\* Keys count as strings, too.
TallyKey(st, n, k) ==
  IF bencode_value_type(heap, n) = "DICT"
  THEN [Bump(st, "strings") EXCEPT !.total_string_bytes = @ + Len(Key(n, k))]
  ELSE st

WalkRest ==
  /\ cli_pc = "walking" /\ tasks # <<>> /\ Head(tasks).kind = "rest"
  /\ LET n == Head(tasks).node
         k == Head(tasks).k
     IN  IF k < Entries(n)
         THEN /\ stats' = TallyKey(stats, n, k)
              /\ tasks' = << EmitValue(Child(n, k)), Rest(n, k + 1) >> \o Tail(tasks)
         ELSE tasks' = Tail(tasks) /\ UNCHANGED stats
  /\ UNCHANGED <<argv, cli_pc, rc, stdout, parse_vars, read_vars,
                 heap, root, target, emit_pc, sink, emit_status>>

cmd_size ==
  /\ cli_pc = "walking" /\ tasks = <<>>
  /\ Say(Fputs(newline)) /\ cli_pc' = "cleanup"
  /\ UNCHANGED <<argv, stats, parse_vars, emit_vars, read_vars>>

---------------------------------------------------------------------------
(* The end of a subcommand, and of the process.                            *)

FreeEmitted ==
  /\ cli_pc = "cleanup" /\ bencode_buffer_free
  /\ UNCHANGED <<cli_vars, parse_vars, read_vars>>

Emptied == cli_pc = "cleanup" /\ ~(emit_pc = "returned" /\ emit_status = "OK")

\* Mutant: the two frees are the other way round.
FreeValue_after_input ==
  /\ Emptied
  /\ IF buf.held THEN buf' = NoBuffer /\ UNCHANGED <<heap, cli_pc>>
     ELSE /\ heap' = bencode_value_free(heap, root) /\ cli_pc' = "free_input"
          /\ UNCHANGED buf
  /\ UNCHANGED <<argv, rc, stdout, stats, parse_vars, root, target, emit_pc, tasks, sink,
                 emit_status, fp, read_pc, read_rc>>

\* The tree is freed first: the strings in it borrow from the input.
FreeValue ==
  /\ Emptied
  /\ heap' = bencode_value_free(heap, root) /\ cli_pc' = "free_input"
  /\ UNCHANGED <<argv, rc, stdout, stats, parse_vars, read_vars, root, target, emit_pc, tasks,
                 sink, emit_status>>

FreeInput ==
  /\ cli_pc = "free_input"
  /\ buf' = NoBuffer /\ cli_pc' = "exit"
  /\ UNCHANGED <<argv, rc, stdout, stats, parse_vars, emit_vars, fp, read_pc, read_rc>>

\* The C runtime flushes what the stream still has; nobody is told the result.
Exit ==
  /\ cli_pc = "exit"
  /\ stdout' \in IF stdout.delivered = Len(stdout.text) THEN {stdout} ELSE Fflush
  /\ cli_pc' = "gone"
  /\ UNCHANGED <<argv, rc, stats, parse_vars, emit_vars, read_vars>>

CliNext ==
  \/ RefuseUsage \/ Inform \/ Dispatch
  \/ ReadStep \/ CannotRead \/ CallParse \/ ParseStep \/ EndLoad
  \/ cmd_validate \/ EmitStep \/ cmd_roundtrip
  \/ StartWalk \/ PrintValue \/ PrintText \/ PrintNewline \/ PrintFlush
  \/ WalkValue \/ WalkRest \/ cmd_size
  \/ FreeEmitted \/ FreeValue \/ FreeInput \/ Exit

\* The process runs on, and reads of its input return.
CliSpec == CliInit /\ [][CliNext]_all_vars /\ WF_all_vars(CliNext)

---------------------------------------------------------------------------
(* Properties.                                                             *)

\* The tree borrows the payloads of its strings from the input: as long as
\* there is a tree, there is the input.  However the run ends, neither is
\* left at its exit, nor the emitter's buffer, and nothing was freed twice.
Released ==
  /\ ~heap.fault
  /\ DOMAIN heap.node # {} => buf.held
  /\ cli_pc = "exit" => heap.live = {} /\ ~buf.held /\ (fp.open => fp.stdin)

\* Every run ends, whatever the input, and whatever fails.
Exits == <>(cli_pc = "gone")

=============================================================================
