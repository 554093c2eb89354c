--------------------------- MODULE MCSaxPrefixes ---------------------------
(***************************************************************************)
(* Input that stops short: every prefix of a set of canonical documents,   *)
(* as a reader that has not yet received the rest would pass it.           *)
(***************************************************************************)
EXTENDS MCSaxTokens

Corpus == { t \in Containers \cup Dicts : Canonical!IsValue(t, DEFAULT_MAX_DEPTH) }

PrefixCalls ==
  [input : UNION {Prefixes(t) : t \in Corpus}, null : {FALSE}, max_depth : {0},
   hooks : {{}, Hooks}]

\* A prefix of a canonical document is refused only with a status that says
\* the input ended too soon, and only the whole of it is accepted: a caller
\* that reads more on TRUNCATED or STRING_LENGTH never gives up on a good
\* document.  TRUNCATED is reported at the very end of the input.
PrefixesRunOut ==
  pc = "done" /\ callback_status = "OK" =>
    \/ status = "OK" /\ call.input \in Corpus /\ consumed = size
    \/ status = "TRUNCATED" /\ call.input \notin Corpus /\ consumed = size
    \/ status = "STRING_LENGTH" /\ call.input \notin Corpus

===========================================================================
