---------------------------- MODULE EmitWriter ----------------------------
(***************************************************************************)
(* The emitter as a Writer of the document that the tree stands for.       *)
(***************************************************************************)
EXTENDS Emit, Encoding

Document == IF root = NULL THEN <<>> ELSE Spelling(heap, root)

Abstract == INSTANCE Writer
  WITH document <- Document, got <- sink.got, calls <- sink.calls,
       result <- IF emit_pc \in {"returned", "released"} \/ emit_status # "OK"
                 THEN emit_status ELSE "none"

\* At every moment the sink has a prefix of the document, it is never called
\* with nothing, nor after it refused; and OK means it has all of it.
ImplementsWriter == Abstract!WriterSpec

\* The bytes that a task of the walk stands for.
Encoded(t) ==
  CASE t.kind = "bytes" -> t.bytes
    [] t.kind = "value" -> Spelling(heap, t.node)
    [] t.kind = "rest"  -> EncodeRest(heap.node[t.node], t.k, Spellings(heap))

Unwritten == FlattenSeq([i \in DOMAIN tasks |-> Encoded(tasks[i])])

\* What the sink has and what is left to write make the document, until the
\* sink refuses: then nothing is left to write.
WriteInv ==
  /\ emit_pc = "entry" => sink.got = <<>> /\ emit_status = "OK"
  /\ emit_pc = "walk" =>
       /\ root # NULL
       /\ IF emit_status = "OK" THEN sink.got \o Unwritten = Document ELSE tasks = <<>>

===========================================================================
