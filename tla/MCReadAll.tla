------------------------------ MODULE MCReadAll ------------------------------
(***************************************************************************)
(* Inputs of every length up to more than the buffer can grow to.          *)
(***************************************************************************)
EXTENDS ReadAll

CONSTANT MaxLength   (* Bound: the length of the longest input.             *)

\* Every byte is another, so that one lost, repeated or moved shows.
MCContents == { [k \in 1..n |-> k] : n \in 0..MaxLength }

==============================================================================
