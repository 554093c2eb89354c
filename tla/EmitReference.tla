--------------------------- MODULE EmitReference ---------------------------
(***************************************************************************)
(* The emitter compared with the language of canonical bencode.            *)
(***************************************************************************)
EXTENDS EmitWriter

CONSTANT INTERNAL_MAX_DEPTH   (* The deepest nesting bencode_parse can be     *)
                              (* asked to accept, 256.                        *)

Canonical == INSTANCE CanonicalBencode WITH INT64_MAX <- SINK_MAX

Emitted == emit_pc = "returned" /\ emit_status = "OK"

\* What is emitted is one canonical document: keys ascending in the order of
\* their bytes, whatever order they were inserted in, and numbers in their
\* shortest form.  (A document has no more levels than bytes.)
EmitsCanonical ==
  Emitted => Canonical!Documents(sink.got, Len(sink.got)) = {Len(sink.got)}

\* bencode.h: the output is what bencode_parse would accept to reconstruct
\* the value.  The builders know no limit of nesting, so it need not be.
ParseAccepts ==
  Emitted => Canonical!Documents(sink.got, INTERNAL_MAX_DEPTH) = {Len(sink.got)}

=============================================================================
