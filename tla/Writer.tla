------------------------------- MODULE Writer -------------------------------
(***************************************************************************)
(* What the emitter promises the sink and the caller: a document is        *)
(* written from its first byte to its last, some bytes at a time, until    *)
(* the sink refuses; and the call succeeds only with the whole of it.      *)
(***************************************************************************)
EXTENDS Bencode

VARIABLES
  document,   (* the bytes to write                                         *)
  got,        (* the bytes the sink has                                     *)
  calls,      (* how often it was called                                    *)
  result      (* "none" until the call returns, then its status             *)

writer == <<document, got, calls, result>>

WriterInit == got = <<>> /\ calls = 0 /\ result = "none"

\* More of the document, and not nothing.
Accept ==
  /\ result = "none"
  /\ got' = SubSeq(document, 1, Len(got')) /\ Len(got') > Len(got)
  /\ calls' = calls + 1
  /\ UNCHANGED <<document, result>>

\* A call that does not accept all it was given is the last one.
Refuse ==
  /\ result = "none"
  /\ got' = SubSeq(document, 1, Len(got')) /\ Len(got') >= Len(got)
  /\ got' # document \/ document = <<>>
  /\ calls' \in {calls, calls + 1}
  /\ result' \in bencode_status \ {"OK"}
  /\ UNCHANGED document

\* Everything was accepted, and may still be lost where the sink keeps it.
Finish ==
  /\ result = "none" /\ got = document /\ document # <<>>
  /\ result' \in {"OK", "IO"}
  /\ UNCHANGED <<document, got, calls>>

WriterSpec == WriterInit /\ [][Accept \/ Refuse \/ Finish]_writer

=============================================================================
