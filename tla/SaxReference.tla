--------------------------- MODULE SaxReference ---------------------------
(***************************************************************************)
(* The parser against the language of canonical bencode: what ParseSax     *)
(* computes byte by byte, compared with CanonicalBencode.                  *)
(***************************************************************************)
EXTENDS SaxSpelling

Canonical == INSTANCE CanonicalBencode

\* The limit the caller asked for, as bencode.h words it: 0 for the default,
\* never more than the internal cap.
Limit ==
  IF call.max_depth = 0 THEN DEFAULT_MAX_DEPTH
  ELSE CHOOSE d \in {call.max_depth, INTERNAL_MAX_DEPTH} :
         d <= call.max_depth /\ d <= INTERNAL_MAX_DEPTH

\* Unless a callback aborts it, a call returns OK exactly when the input
\* begins with a canonical document within the depth limit, and it consumes
\* that document: no non-canonical spelling is accepted and no canonical one
\* refused.
AcceptsCanonical ==
  pc = "done" /\ callback_status = "OK" /\ ~call.null =>
    Canonical!Documents(call.input, Limit) =
      IF status = "OK" THEN {consumed} ELSE {}

===========================================================================
