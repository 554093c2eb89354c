-------------------------------- MODULE Emit --------------------------------
(***************************************************************************)
(* The emitter (src/emit.c): the walk of a value tree, and the three sinks *)
(* it writes to.                                                           *)
(*                                                                         *)
(* One behaviour is one call of bencode_emit, bencode_emit_to_file or      *)
(* bencode_emit_to_alloc.  The C recursion is a sequence of tasks: what is *)
(* left to write, the innermost first.  A step either takes a task apart   *)
(* or calls the sink, which may refuse.                                    *)
(***************************************************************************)
EXTENDS ValueTree

CONSTANTS
  Trees,          (* The trees to emit, as <<heap, root>>.                  *)
  Targets,        (* The entry points and their arguments.                  *)
  SinkErrors,     (* The statuses a caller's sink may refuse with.          *)
  SINK_INITIAL,   (* The first capacity of the allocated buffer, 4096.      *)
  SINK_MAX        (* SIZE_MAX.                                              *)

\* entry: "callback" (bencode_emit), "file" or "buffer".  null: the sink, the
\* FILE or a place for the result is missing.
TargetType == [entry : {"callback", "file", "buffer"}, null : BOOLEAN, alloc : Allocator]

ASSUME EmitAssumption ==
  /\ Targets \subseteq TargetType
  /\ SinkErrors \subseteq bencode_status \ {"OK"}
  /\ SINK_INITIAL \in Nat \ {0} /\ SINK_MAX \in Nat /\ SINK_INITIAL <= SINK_MAX

\* A value as the builders and the parser leave it.
ASSUME TreesAssumption == \A t \in Trees : t[2] \in Nat /\ OneTree(t[1], t[2])

VARIABLES
  heap,         (* the allocators' blocks, and the tree                     *)
  root,         (* the value to emit                                        *)
  target,       (* where to                                                 *)
  emit_pc,      (* "entry", "walk", "returned", "released"                  *)
  tasks,        (* what is left to write                                    *)
  sink,         (* what has been written, and the state of the sink         *)
  emit_status   (* of the walk, then of the call                            *)

emit_vars == <<heap, root, target, emit_pc, tasks, sink, emit_status>>

\* got: the bytes accepted.  calls: how often the sink was called.
\* delivered: how many of the bytes a FILE has passed on.  bytes, cap and oom
\* are those of alloc_sink, whose len is that of got.
NewSink == [got |-> <<>>, calls |-> 0, delivered |-> 0, bytes |-> NULL, cap |-> 0, oom |-> FALSE]

EmitInit ==
  /\ \E t \in Trees : heap = t[1] /\ root = t[2]
  /\ target \in Targets
  /\ emit_pc = "entry" /\ tasks = <<>> /\ sink = NewSink /\ emit_status = "OK"

---------------------------------------------------------------------------
(* The walk.                                                               *)

Task(kind, node, k, bytes) == [kind |-> kind, node |-> node, k |-> k, bytes |-> bytes]

Write(bytes) == Task("bytes", NULL, 0, bytes)

EmitValue(n) == Task("value", n, 0, <<>>)

\* The entries of container n from the k-th on, and its end.
Rest(n, k) == Task("rest", n, k, <<>>)

\* snprintf's %zu, and %PRId64.
decimal[n \in Nat] ==
  IF n < 10 THEN <<Zero + n>> ELSE decimal[n \div 10] \o <<Zero + (n % 10)>>

signed_decimal(n) == IF n < 0 THEN <<Minus>> \o decimal[-n] ELSE decimal[n]

emit_int(n) == << Write(<<ch_i>> \o signed_decimal(n) \o <<ch_e>>) >>

emit_string(bytes) == << Write(decimal[Len(bytes)] \o <<Colon>>), Write(bytes) >>

emit_value(n) ==
  CASE heap.node[n].type = "INT"    -> emit_int(heap.node[n].i)
    [] heap.node[n].type = "STRING" -> emit_string(heap.node[n].bytes)
    [] heap.node[n].type = "LIST"   -> << Write(<<ch_l>>), Rest(n, 1) >>
    [] heap.node[n].type = "DICT"   -> << Write(<<ch_d>>), Rest(n, 1) >>

\* The loops of emit_list and emit_dict: entries in the order they are stored.
emit_rest(n, k) ==
  LET nd == heap.node[n]
  IN  IF k > Len(nd.entries) THEN << Write(<<ch_e>>) >>
      ELSE (IF nd.type = "DICT" THEN emit_string(nd.entries[k].key) ELSE <<>>)
             \o << EmitValue(nd.entries[k].value), Rest(n, k + 1) >>

Unfold(t) == IF t.kind = "value" THEN emit_value(t.node) ELSE emit_rest(t.node, t.k)

---------------------------------------------------------------------------
(* The sinks: the results a call of one with a chunk of bytes may have.    *)

Sunk(s, m, st) == [sink |-> s, heap |-> m, status |-> st]

Accepted(s, chunk) == [s EXCEPT !.got = @ \o chunk, !.calls = @ + 1]

\* A sink of the caller's takes all of the chunk or refuses.
user_sink(s, m, chunk) ==
  {Sunk(Accepted(s, chunk), m, "OK")}
    \cup { Sunk([s EXCEPT !.calls = @ + 1], m, st) : st \in SinkErrors }

\* fwrite: the stream keeps the bytes, or passes on all it has; or the device
\* takes only part of them.
emit_to_file_cb(s, m, chunk) ==
  LET kept == Accepted(s, chunk)
  IN  { Sunk(kept, m, "OK"), Sunk([kept EXCEPT !.delivered = Len(kept.got)], m, "OK") }
        \cup { Sunk(Accepted(s, SubSeq(chunk, 1, n)), m, "IO") : n \in 0..(Len(chunk) - 1) }

\* Mutant: the room for the chunk is counted without what is there.
Grown_from_zero(cap, used, len) ==
  LET grown[c \in Nat] ==
        IF c >= len THEN c ELSE IF c > SINK_MAX \div 2 THEN 0 ELSE grown[2 * c]
  IN  grown[IF cap = 0 THEN SINK_INITIAL ELSE cap]

\* The capacity doubled until the chunk fits; 0 when it cannot be.
Grown(cap, used, len) ==
  LET grown[c \in Nat] ==
        IF c - used >= len THEN c ELSE IF c > SINK_MAX \div 2 THEN 0 ELSE grown[2 * c]
  IN  grown[IF cap = 0 THEN SINK_INITIAL ELSE cap]

\* No room for the chunk, nor for any after it.
OutOfRoom(s, m) == Sunk([s EXCEPT !.calls = @ + 1, !.oom = TRUE], m, "NOMEM")

\* Mutant: the old block is forgotten.
Moved_leaking(s, chunk, a, new_cap) ==
  Sunk([Accepted(s, chunk) EXCEPT !.bytes = a.ptr, !.cap = new_cap], a.mem, "OK")

\* The bytes are copied to a block of the new capacity, and the old one freed.
Moved(s, chunk, a, new_cap) ==
  Sunk([Accepted(s, chunk) EXCEPT !.bytes = a.ptr, !.cap = new_cap],
       bencode_free(a.mem, target.alloc, s.bytes), "OK")

alloc_sink_append(s, m, chunk) ==
  LET new_cap == Grown(s.cap, Len(s.got), Len(chunk))
  IN  IF s.oom THEN {OutOfRoom(s, m)}
      ELSE IF s.cap - Len(s.got) >= Len(chunk) THEN {Sunk(Accepted(s, chunk), m, "OK")}
      ELSE IF new_cap = 0 THEN {OutOfRoom(s, m)}
      ELSE { IF a.ptr = NULL THEN OutOfRoom(s, m) ELSE Moved(s, chunk, a, new_cap) :
             a \in bencode_alloc(m, target.alloc) }

Sink(chunk) ==
  CASE target.entry = "callback" -> user_sink(sink, heap, chunk)
    [] target.entry = "file"     -> emit_to_file_cb(sink, heap, chunk)
    [] target.entry = "buffer"   -> alloc_sink_append(sink, heap, chunk)

---------------------------------------------------------------------------
(* The entry points.                                                       *)

BadArguments ==
  \/ root = NULL \/ target.null
  \/ target.entry = "buffer" /\ bencode_allocator_check(target.alloc) # "OK"

RefuseEmit ==
  /\ emit_pc = "entry" /\ BadArguments
  /\ emit_pc' = "returned" /\ emit_status' = "INVALID_ARG"
  /\ UNCHANGED <<heap, root, target, tasks, sink>>

StartEmit ==
  /\ emit_pc = "entry" /\ ~BadArguments
  /\ emit_pc' = "walk" /\ tasks' = << EmitValue(root) >>
  /\ UNCHANGED <<heap, root, target, sink, emit_status>>

TakeApart ==
  /\ emit_pc = "walk" /\ tasks # <<>> /\ Head(tasks).kind # "bytes"
  /\ tasks' = Unfold(Head(tasks)) \o Tail(tasks)
  /\ UNCHANGED <<heap, root, target, emit_pc, sink, emit_status>>

IsEmpty(bytes) == bytes = <<>>

\* The sink is not called with nothing to write.
SkipEmpty ==
  /\ emit_pc = "walk" /\ tasks # <<>> /\ Head(tasks).kind = "bytes"
  /\ IsEmpty(Head(tasks).bytes)
  /\ tasks' = Tail(tasks)
  /\ UNCHANGED <<heap, root, target, emit_pc, sink, emit_status>>

\* Mutant: the walk goes on after a refusal.
Left_anyway(st) == Tail(tasks)

\* Every caller up to the entry point returns the status of a refusal.
Left(st) == IF st = "OK" THEN Tail(tasks) ELSE <<>>

emit_bytes ==
  /\ emit_pc = "walk" /\ tasks # <<>> /\ Head(tasks).kind = "bytes"
  /\ ~IsEmpty(Head(tasks).bytes)
  /\ \E r \in Sink(Head(tasks).bytes) :
       /\ sink' = r.sink /\ heap' = r.heap
       /\ emit_status' = r.status
       /\ tasks' = Left(r.status)
  /\ UNCHANGED <<root, target, emit_pc>>

\* Mutant: what the FILE still has is left there.
MustFlush_never == FALSE

MustFlush == target.entry = "file" /\ emit_status = "OK"

Flush ==
  /\ emit_pc = "walk" /\ tasks = <<>> /\ MustFlush
  /\ emit_pc' = "returned"
  /\ \/ sink' = [sink EXCEPT !.delivered = Len(sink.got)] /\ UNCHANGED emit_status
     \/ emit_status' = "IO" /\ UNCHANGED sink
  /\ UNCHANGED <<heap, root, target, tasks>>

\* Mutant: the buffer of a failed call stays allocated.
Unfinished_kept == heap

\* The buffer of a call that failed is freed; so nothing is left of it.
Unfinished == bencode_free(heap, target.alloc, sink.bytes)

ReturnEmit ==
  /\ emit_pc = "walk" /\ tasks = <<>> /\ ~MustFlush
  /\ emit_pc' = "returned"
  /\ heap' = IF target.entry = "buffer" /\ emit_status # "OK" THEN Unfinished ELSE heap
  /\ UNCHANGED <<root, target, tasks, sink, emit_status>>

\* The caller frees the buffer it was given, with the same allocator.
bencode_buffer_free ==
  /\ emit_pc = "returned" /\ target.entry = "buffer" /\ emit_status = "OK"
  /\ emit_pc' = "released"
  /\ heap' = bencode_free(heap, target.alloc, sink.bytes)
  /\ UNCHANGED <<root, target, tasks, sink, emit_status>>

Emitting ==
  RefuseEmit \/ StartEmit \/ TakeApart \/ SkipEmpty \/ emit_bytes \/ Flush \/ ReturnEmit

EmitNext == Emitting \/ bencode_buffer_free

EmitSpec == EmitInit /\ [][EmitNext]_emit_vars

---------------------------------------------------------------------------
(* Properties.                                                             *)

\* The buffer has room for all that was written to it, however its capacity
\* was reached and whichever growth was refused, and its size did not wrap.
BufferHolds ==
  target.entry = "buffer" =>
    /\ Len(sink.got) <= sink.cap /\ sink.cap <= SINK_MAX
    /\ sink.cap = 0 <=> sink.bytes = NULL

\* The block of the buffer, as long as the emitter or its caller has one.
Buffer ==
  IF \/ sink.bytes = NULL \/ emit_pc = "released"
     \/ emit_pc = "returned" /\ emit_status # "OK"
  THEN {} ELSE {<<target.alloc, sink.bytes>>}

\* The buffer is the caller's when the call succeeds, and nobody's when it
\* fails, at whichever write; nothing else was allocated, nor the tree touched.
BufferOwned == ~heap.fault /\ heap.live = Blocks(heap, root) \cup Buffer

\* bencode_emit_to_file succeeds only when all it wrote has left the stream.
FileDelivered ==
  target.entry = "file" /\ emit_pc = "returned" /\ emit_status = "OK" =>
    sink.delivered = Len(sink.got)

---------------------------------------------------------------------------
(* What holds at every moment of a call; the proofs rest on it.            *)

\* Of the tasks, those that are not bytes are about nodes of the tree.
TaskType ==
  [kind : {"bytes"}, node : {NULL}, k : {0}, bytes : Bytes]
    \cup [kind : {"value"}, node : DOMAIN heap.node, k : {0}, bytes : {<<>>}]
    \cup [kind : {"rest"}, node : DOMAIN heap.node, k : Nat \ {0}, bytes : {<<>>}]

SinkType == [got : Bytes, calls : Nat, delivered : Nat, bytes : Nat, cap : Nat, oom : BOOLEAN]

EmitTypeOK ==
  /\ HeapType(heap) /\ root \in {NULL} \cup DOMAIN heap.node /\ target \in TargetType
  /\ emit_pc \in {"entry", "walk", "returned", "released"} /\ emit_status \in bencode_status
  /\ tasks \in Seq(TaskType) /\ sink \in SinkType

\* Every entry leads to a node; the emitter's block is not one of the tree's,
\* and only a call that was not refused, of the entry point for it, has one.
EmitInv ==
  /\ EmitTypeOK /\ BufferHolds /\ BufferOwned
  /\ \A n \in DOMAIN heap.node : Children(heap, n) \subseteq DOMAIN heap.node
  /\ Buffer \cap Blocks(heap, root) = {}
  /\ sink.bytes # NULL => target.entry = "buffer" /\ emit_pc # "entry"

=============================================================================
