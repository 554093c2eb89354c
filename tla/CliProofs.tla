------------------------------ MODULE CliProofs ------------------------------
(***************************************************************************)
(* However a run of the tool ends, nothing is left of what it allocated.   *)
(* The invariants of read_all, bencode_parse and the emitter hold while    *)
(* each of them runs; what is shown here is that one leaves behind what    *)
(* the next one starts from.                                               *)
(***************************************************************************)
EXTENDS Cli, ParseDomProofs, EmitProofs, ReadAllProofs

\* The input, which standard output refers to, and no file.
InputHeld == buf.held /\ (fp.open => fp.stdin)

\* No tree, and no call of the emitter.
NothingYet ==
  /\ heap = EmptyHeap /\ root = NULL /\ tasks = <<>>
  /\ emit_pc = "entry" /\ sink = NewSink /\ emit_status = "OK" /\ target \in TargetType

Reading == NothingYet /\ ReadInv /\ AtEntry /\ dom_pc = "entry"

\* bencode_parse hands out a tree only if it succeeds.
HandsOut == dom_pc = "returned" => returned[2] \in Nat /\ (returned[1] # "OK" => returned[2] = NULL)

Building == NothingYet /\ InputHeld /\ IInv /\ DomInv /\ call.hooks = Hooks /\ HandsOut

Loaded == InputHeld /\ root \in Nat /\ OneTree(heap, root) /\ emit_pc = "entry"

Emitted == InputHeld /\ EmitInv /\ TreeAlone

EmitterDone == Emitted /\ emit_pc \in {"returned", "released"}

NoHeap == heap.live = {} /\ DOMAIN heap.node = {} /\ ~heap.fault

InputLeft == NoHeap /\ InputHeld

NothingLeft == NoHeap /\ ~buf.held /\ (fp.open => fp.stdin)

\* Where the process is, and what it has there.
CliInv ==
  \/ cli_pc = "main" /\ Reading /\ read_pc = "open"
  \/ cli_pc = "load" /\ Reading /\ command \in Subcommands
  \/ cli_pc = "parse" /\ Building /\ command \in Subcommands
  \/ cli_pc \in {"validate", "print", "size", "printing", "walking", "flush"} /\ Loaded
  \/ cli_pc = "roundtrip" /\ Emitted
  \/ cli_pc = "cleanup" /\ (Loaded \/ EmitterDone)
  \/ cli_pc = "free_input" /\ InputLeft
  \/ cli_pc \in {"exit", "gone"} /\ NothingLeft

---------------------------------------------------------------------------
(* From one stage to the next.                                             *)

LEMMA EmptyHeapIsEmpty ==
  EmptyHeap.live = {} /\ DOMAIN EmptyHeap.node = {} /\ EmptyHeap.fault = FALSE
<1>1. EmptyHeap.live = {} /\ EmptyHeap.node = <<>> /\ EmptyHeap.fault = FALSE
  BY DEF EmptyHeap
<1> QED BY <1>1

\* A step that leaves the input alone.
LEMMA InputStaysHeld ==
  ASSUME InputHeld, UNCHANGED read_vars
  PROVE  InputHeld'
BY DEF InputHeld, read_vars

LEMMA InitCliInv == CliInit => CliInv
<1> SUFFICES ASSUME CliInit PROVE CliInv
  OBVIOUS
<1>1. ReadInv
  BY ReadInitial DEF CliInit
<1>2. NothingYet
  BY EmitAssumption DEF CliInit, EmitInit, NothingYet, TargetType, Allocator
<1>3. AtEntry /\ dom_pc = "entry" /\ read_pc = "open" /\ cli_pc = "main"
  BY DEF CliInit, DomInit, Init, ReadInit
<1> QED BY <1>1, <1>2, <1>3 DEF CliInv, Reading

\* Before there is a tree: main ends, or goes on to read.
LEMMA MainKeepsInv ==
  ASSUME CliInv, RefuseUsage \/ Inform \/ Dispatch
  PROVE  CliInv'
<1>1. /\ cli_pc = "main" /\ Reading /\ read_pc = "open"
      /\ UNCHANGED <<argv, parse_vars, emit_vars, read_vars>>
  BY DEF CliInv, RefuseUsage, Inform, Dispatch
<1>2. NothingYet' /\ AtEntry' /\ dom_pc' = "entry"
  BY <1>1 DEF Reading, NothingYet, AtEntry, parse_vars, vars, dom_vars, emit_vars
<1>3. ReadInv'
  BY <1>1, NextReadInv DEF Reading
<1>4. CASE Dispatch
  <2>1. command' \in Subcommands
    BY <1>1, <1>4 DEF Dispatch, BadUsage, command
  <2> QED BY <1>2, <1>3, <1>4, <2>1 DEF Dispatch, CliInv, Reading
<1>5. CASE RefuseUsage \/ Inform
  <2>1. ~buf.held /\ ~fp.open /\ heap = EmptyHeap
    BY <1>1 DEF Reading, NothingYet, ReadInv, Tidy
  <2>2. NothingLeft'
    BY <1>1, <2>1, EmptyHeapIsEmpty DEF NothingLeft, NoHeap, emit_vars, read_vars
  <2> QED BY <1>5, <2>2 DEF RefuseUsage, Inform, CliInv
<1> QED BY <1>4, <1>5

\* The input is read, or there is none.
LEMMA ReadKeepsInv ==
  ASSUME CliInv, ReadStep \/ CannotRead
  PROVE  CliInv'
<1>1. /\ cli_pc = "load" /\ Reading /\ command \in Subcommands
      /\ UNCHANGED <<argv, parse_vars, emit_vars>>
  BY DEF CliInv, ReadStep, CannotRead, cli_vars
<1>2. CASE ReadStep
  <2>1. ReadInv'
    BY <1>1, <1>2, NextReadInv DEF Reading, ReadStep
  <2>2. NothingYet' /\ AtEntry' /\ dom_pc' = "entry"
    BY <1>1 DEF Reading, NothingYet, AtEntry, parse_vars, vars, dom_vars, emit_vars
  <2> QED BY <1>1, <1>2, <2>1, <2>2 DEF ReadStep, cli_vars, CliInv, Reading, command
<1>3. CASE CannotRead
  <2>1. ~buf.held /\ (fp.open => fp.stdin) /\ heap = EmptyHeap /\ UNCHANGED <<heap, fp, buf>>
    BY <1>1, <1>3 DEF CannotRead, Reading, NothingYet, ReadInv, Tidy, emit_vars, read_vars
  <2> QED BY <1>3, <2>1, EmptyHeapIsEmpty DEF CannotRead, NothingLeft, NoHeap, CliInv
<1> QED BY <1>2, <1>3

\* bencode_parse starts from what read_all left.
LEMMA CallKeepsInv ==
  ASSUME CliInv, CallParse
  PROVE  CliInv'
<1>1. cli_pc = "load" /\ Reading /\ command \in Subcommands /\ read_pc = "returned" /\ read_rc = 0
  BY DEF CliInv, CallParse
<1>2. buf.held /\ buf.bytes \in Bytes /\ (fp.open => fp.stdin)
  BY <1>1, FilesAssumption DEF Reading, ReadInv, WholeInput, Tidy, ReadTypeOK, StreamType
<1>3. call' \in CallType /\ call'.hooks = Hooks
  BY <1>2 DEF CallParse, CallType
<1>4. opts' \in OptionType /\ dom' = dom_state(opts'.alloc)
  BY DEF CallParse, OptionType, Allocator
<1>5. AtEntry' /\ dom_pc' = "entry"
  BY <1>1 DEF CallParse, Reading, AtEntry
<1>6. DomAtEntry'
  BY <1>3, <1>4, <1>5 DEF DomAtEntry
<1>7. IInv' /\ DomInv'
  BY <1>6, EntryDomInv, PTL
<1>8. NothingYet' /\ InputHeld'
  BY <1>1, <1>2 DEF CallParse, Reading, NothingYet, InputHeld, emit_vars, read_vars
<1>9. HandsOut'
  BY <1>5 DEF HandsOut
<1>10. command' \in Subcommands /\ cli_pc' = "parse"
  BY <1>1 DEF CallParse, command
<1> QED BY <1>3, <1>7, <1>8, <1>9, <1>10 DEF CliInv, Building

\* What bencode_parse returns.
LEMMA ParseStepHandsOut ==
  ASSUME IInv, DomInv, HandsOut, [DomNext]_<<vars, dom_vars>>
  PROVE  HandsOut'
<1>1. CASE Deliver
  <2>1. dom.root \in Nat
    BY DEF DomInv, DomType
  <2>2. \/ returned' = <<"OK", dom.root, consumed>>
        \/ returned' = <<FinalStatus, NULL, consumed>>
    BY <1>1 DEF Deliver
  <2> QED BY <2>1, <2>2 DEF HandsOut, NULL
<1>2. CASE RefuseArguments
  <2>1. returned' = <<"INVALID_ARG", NULL, 0>>
    BY <1>2 DEF RefuseArguments
  <2> QED BY <2>1 DEF HandsOut, NULL
<1>3. CASE CallSax \/ SaxStep \/ DomCallback
  <2>1. dom_pc' = "sax"
    BY <1>3 DEF CallSax, SaxStep, DomCallback, dom_vars
  <2> QED BY <2>1 DEF HandsOut
<1>4. CASE UNCHANGED <<vars, dom_vars>>
  BY <1>4 DEF HandsOut, dom_vars
<1> QED BY <1>1, <1>2, <1>3, <1>4 DEF DomNext

LEMMA BuildKeepsInv ==
  ASSUME CliInv, ParseStep
  PROVE  CliInv'
<1>1. /\ cli_pc = "parse" /\ Building /\ command \in Subcommands
      /\ DomNext /\ UNCHANGED <<cli_vars, emit_vars, read_vars>>
  BY DEF CliInv, ParseStep
<1>2. IInv' /\ DomInv' /\ call'.hooks = Hooks
  <2>1. [Next]_vars /\ call' = call
    BY <1>1, DomStepIsSaxStep DEF Building
  <2>2. IInv'
    BY <1>1, <2>1, NextInv DEF Building
  <2> QED BY <1>1, <2>1, <2>2, NextDomInv DEF Building
<1>3. NothingYet' /\ InputHeld'
  BY <1>1 DEF Building, NothingYet, InputHeld, emit_vars, read_vars
<1>4. HandsOut'
  BY <1>1, ParseStepHandsOut DEF Building
<1> QED BY <1>1, <1>2, <1>3, <1>4 DEF CliInv, Building, cli_vars, command

\* The tree that was handed out is in order, and if none was, nothing is left
\* of it.
LEMMA EndLoadKeepsInv ==
  ASSUME CliInv, EndLoad
  PROVE  CliInv'
<1>1. /\ cli_pc = "parse" /\ Building /\ command \in Subcommands
      /\ dom_pc = "returned" /\ heap' = dom.mem /\ root' = returned[2]
      /\ UNCHANGED <<target, emit_pc, tasks, sink, emit_status, fp>>
  BY DEF CliInv, EndLoad
<1>2. root' \in Nat /\ OneTree(heap', root')
  BY <1>1 DEF Building, HandsOut, DomInv, mem
<1>3. CASE returned[1] = "OK"
  <2>1. cli_pc' = command /\ InputHeld'
    BY <1>1, <1>3 DEF EndLoad, Building, InputHeld
  <2>2. emit_pc' = "entry"
    BY <1>1 DEF Building, NothingYet
  <2>3. Loaded'
    BY <1>2, <2>1, <2>2 DEF Loaded
  <2>4. CASE command = "roundtrip"
    <3>1. EmitAtEntry'
      BY <1>1, <1>2 DEF EmitAtEntry, Building, NothingYet
    <3>2. EmitInv' /\ TreeAlone'
      BY <3>1, EntryEmitInv, EntryIsAlone, PTL
    <3> QED BY <2>1, <2>4, <3>2 DEF CliInv, Emitted
  <2>5. CASE command # "roundtrip"
    BY <1>1, <2>1, <2>3, <2>5 DEF CliInv, Subcommands
  <2> QED BY <2>4, <2>5
<1>4. CASE returned[1] # "OK"
  <2>1. root' = NULL
    BY <1>1, <1>4 DEF Building, HandsOut
  <2>2. HeapType(heap') /\ HeldOnce(heap', {}) /\ DOMAIN heap'.node = Tree(heap', NULL)
    BY <1>2, <2>1 DEF OneTree, HeapInv
  <2>3. DOMAIN heap'.node = {}
    BY <2>2, TreeOfNull
  <2>4. heap'.live = {} /\ ~heap'.fault
    BY <2>2, <2>3 DEF HeldOnce, HeapType
  <2>5. cli_pc' = "exit" /\ ~buf'.held
    BY <1>4 DEF EndLoad, NoBuffer
  <2>6. fp'.open => fp'.stdin
    BY <1>1 DEF Building, InputHeld
  <2> QED BY <2>3, <2>4, <2>5, <2>6 DEF CliInv, NothingLeft, NoHeap
<1> QED BY <1>3, <1>4

\* The subcommands that only look at the tree.
LEMMA LookKeepsInv ==
  ASSUME CliInv,
         \/ cmd_validate \/ StartWalk \/ PrintValue \/ PrintText \/ PrintNewline \/ PrintFlush
         \/ WalkValue \/ WalkRest \/ cmd_size
  PROVE  CliInv'
<1>1. cli_pc \in {"validate", "print", "size", "printing", "walking", "flush"} /\ Loaded
  BY DEF CliInv, cmd_validate, StartWalk, PrintValue, PrintText, PrintNewline, PrintFlush,
         WalkValue, WalkRest, cmd_size
<1>2. UNCHANGED <<heap, root, emit_pc, read_vars>>
  BY DEF cmd_validate, StartWalk, PrintValue, PrintText, PrintNewline, PrintFlush,
         WalkValue, WalkRest, cmd_size, emit_vars, cli_vars
<1>3. Loaded'
  BY <1>1, <1>2, InputStaysHeld DEF Loaded
<1>4. cli_pc' \in {"printing", "walking", "flush", "cleanup"}
  BY <1>1 DEF cmd_validate, StartWalk, PrintValue, PrintText, PrintNewline, PrintFlush,
         WalkValue, WalkRest, cmd_size, cli_vars
<1> QED BY <1>3, <1>4 DEF CliInv

\* roundtrip, to the end of its buffer.
LEMMA RoundtripKeepsInv ==
  ASSUME CliInv, EmitStep \/ cmd_roundtrip \/ FreeEmitted
  PROVE  CliInv'
<1>1. Emitted
  BY DEF CliInv, EmitStep, cmd_roundtrip, FreeEmitted, bencode_buffer_free, Loaded, EmitterDone
<1>2. [EmitNext]_emit_vars /\ UNCHANGED read_vars
  BY DEF EmitStep, cmd_roundtrip, FreeEmitted, EmitNext
<1>3. Emitted'
  BY <1>1, <1>2, NextEmitInv, TreeIsKept, InputStaysHeld DEF Emitted
<1>4. CASE EmitStep
  BY <1>3, <1>4 DEF CliInv, EmitStep, cli_vars
<1>5. CASE cmd_roundtrip \/ FreeEmitted
  <2>1. cli_pc' = "cleanup" /\ emit_pc' \in {"returned", "released"}
    BY <1>5 DEF cmd_roundtrip, FreeEmitted, bencode_buffer_free, cli_vars, emit_vars
  <2> QED BY <1>3, <2>1 DEF CliInv, EmitterDone
<1> QED BY <1>4, <1>5

\* When the emitter's buffer is gone, the tree is all there is; when the tree
\* is gone, too, the input is.
LEMMA FreeKeepsInv ==
  ASSUME CliInv, FreeValue
  PROVE  CliInv'
<1>1. /\ cli_pc = "cleanup" /\ (Loaded \/ EmitterDone)
      /\ ~(emit_pc = "returned" /\ emit_status = "OK")
  BY DEF CliInv, FreeValue, Emptied
<1>2. OneTree(heap, root)
  <2>1. CASE Loaded
    BY <2>1 DEF Loaded
  <2>2. CASE EmitterDone
    <3>1. Buffer = {}
      BY <1>1, <2>2 DEF EmitterDone, Buffer
    <3> QED BY <2>2, <3>1 DEF EmitterDone, Emitted, EmitInv, EmitTypeOK, TreeAlone, BufferOwned, HeapType
  <2> QED BY <1>1, <2>1, <2>2
<1>3. LET f == bencode_value_free(heap, root)
      IN  f.live = {} /\ DOMAIN f.node = {} /\ f.fault = FALSE
  BY <1>2, FreeTree DEF OneTree
<1>4. heap' = bencode_value_free(heap, root) /\ cli_pc' = "free_input" /\ UNCHANGED read_vars
  BY DEF FreeValue
<1>5. InputHeld'
  BY <1>1, <1>4, InputStaysHeld DEF Loaded, EmitterDone, Emitted
<1> QED BY <1>3, <1>4, <1>5 DEF CliInv, InputLeft, NoHeap

LEMMA ExitKeepsInv ==
  ASSUME CliInv, FreeInput \/ Exit
  PROVE  CliInv'
<1>1. CASE FreeInput
  BY <1>1 DEF CliInv, FreeInput, NoBuffer, InputLeft, InputHeld, NothingLeft, NoHeap, emit_vars
<1>2. CASE Exit
  BY <1>2 DEF CliInv, Exit, NothingLeft, NoHeap, emit_vars, read_vars
<1> QED BY <1>1, <1>2

LEMMA StutterKeepsInv ==
  ASSUME CliInv, UNCHANGED all_vars
  PROVE  CliInv'
<1>1. UNCHANGED <<cli_vars, parse_vars, emit_vars, read_vars>>
  BY DEF all_vars
<1>2. ReadInv => ReadInv'
  BY <1>1, NextReadInv
<1>3. EmitInv /\ TreeAlone => EmitInv' /\ TreeAlone'
  BY <1>1, NextEmitInv, TreeIsKept
<1>4. Building => Building'
  <2> SUFFICES ASSUME Building PROVE Building'
    OBVIOUS
  <2>1. [DomNext]_<<vars, dom_vars>>
    BY <1>1 DEF parse_vars
  <2>2. [Next]_vars /\ call' = call
    BY <2>1, DomStepIsSaxStep DEF Building
  <2>3. IInv'
    BY <2>2, NextInv DEF Building
  <2>4. DomInv' /\ HandsOut'
    BY <2>1, <2>3, NextDomInv, ParseStepHandsOut DEF Building
  <2>5. NothingYet' /\ InputHeld'
    BY <1>1 DEF Building, NothingYet, InputHeld, emit_vars, read_vars
  <2> QED BY <2>2, <2>3, <2>4, <2>5 DEF Building
<1>5. Reading => Reading'
  BY <1>1, <1>2 DEF Reading, NothingYet, AtEntry, parse_vars, vars, dom_vars, emit_vars
<1>6. /\ (Loaded => Loaded') /\ (InputLeft => InputLeft') /\ (NothingLeft => NothingLeft')
      /\ (InputHeld => InputHeld')
  BY <1>1 DEF Loaded, InputLeft, NothingLeft, NoHeap, InputHeld, emit_vars, read_vars
<1>7. Emitted => Emitted'
  BY <1>3, <1>6 DEF Emitted
<1>8. cli_pc' = cli_pc /\ command' = command /\ read_pc' = read_pc /\ emit_pc' = emit_pc
  BY <1>1 DEF cli_vars, command, read_vars, emit_vars
<1> QED BY <1>4, <1>5, <1>6, <1>7, <1>8 DEF CliInv, EmitterDone

LEMMA NextCliInv ==
  ASSUME CliInv, [CliNext]_all_vars
  PROVE  CliInv'
BY MainKeepsInv, ReadKeepsInv, CallKeepsInv, BuildKeepsInv, EndLoadKeepsInv, LookKeepsInv,
   RoundtripKeepsInv, FreeKeepsInv, ExitKeepsInv, StutterKeepsInv DEF CliNext

LEMMA ReleasedHolds == CliInv => Released
<1> SUFFICES ASSUME CliInv PROVE Released
  OBVIOUS
<1>1. CASE NothingYet /\ cli_pc \in {"main", "load", "parse"}
  BY <1>1, EmptyHeapIsEmpty DEF NothingYet, Released
<1>2. CASE (Loaded \/ Emitted) /\ cli_pc # "exit"
  <2>1. heap.fault = FALSE
    BY <1>2 DEF Loaded, Emitted, OneTree, HeapInv, HeapType, EmitInv, BufferOwned
  <2>2. buf.held
    BY <1>2 DEF Loaded, Emitted, InputHeld
  <2> QED BY <1>2, <2>1, <2>2 DEF Released
<1>3. CASE NothingLeft \/ (InputLeft /\ cli_pc = "free_input")
  BY <1>3 DEF NothingLeft, InputLeft, NoHeap, Released
<1> QED BY <1>1, <1>2, <1>3 DEF CliInv, Reading, Building, EmitterDone

---------------------------------------------------------------------------
(* The theorems.                                                           *)

\* Each stage of the process has what the stages before it left.
THEOREM CliInvariance == CliSpec => []CliInv
BY InitCliInv, NextCliInv, PTL DEF CliSpec

\* The tool frees the tree, the input and the emitter's buffer exactly once
\* each, and closes the file, whichever subcommand it runs and whatever read,
\* allocation or write fails; and the input outlives the tree.
THEOREM NothingIsLeft == CliSpec => []Released
BY CliInvariance, ReleasedHolds, PTL

=============================================================================
