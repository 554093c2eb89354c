---------------------------- MODULE MCSaxBytes ----------------------------
(***************************************************************************)
(* Every byte string up to MaxLength over an alphabet that has each byte   *)
(* the grammar knows and one it does not.                                  *)
(***************************************************************************)
EXTENDS SaxReference

CONSTANTS Alphabet, MaxLength, MaxDepths

MCCalls ==
  [input : UNION {[1..n -> Alphabet] : n \in 0..MaxLength}, null : {FALSE},
   max_depth : MaxDepths, hooks : {{}}]

===========================================================================
