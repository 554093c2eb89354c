--------------------------- MODULE DomReference ---------------------------
(***************************************************************************)
(* bencode_parse end to end: the inputs for which it hands out a tree,     *)
(* against the language of canonical bencode.                              *)
(***************************************************************************)
EXTENDS DomSpelling

Canonical == INSTANCE CanonicalBencode

Reference == INSTANCE SaxReference

\* As long as memory does not run out, bencode_parse succeeds exactly on the
\* canonical documents within the depth limit, alone in the input unless
\* trailing bytes are allowed.
AcceptsDocument ==
  dom_pc = "returned" /\ returned[1] # "NOMEM" =>
    LET documents == Canonical!Documents(call.input, Reference!Limit)
        wanted    == IF opts.trailing THEN documents ELSE documents \cap {size}
    IN  IF opts.out_null \/ opts.alloc = "partial" THEN returned = <<"INVALID_ARG", NULL, 0>>
        ELSE /\ returned[1] = "OK" <=> wanted # {}
             /\ returned[1] = "OK" => returned[3] \in wanted
             /\ returned[1] # "OK" => returned[2] = NULL

===========================================================================
