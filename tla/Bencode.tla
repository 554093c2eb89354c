------------------------------ MODULE Bencode ------------------------------
(***************************************************************************)
(* The vocabulary shared by every part of the library: bytes, status       *)
(* codes, the events the parser reports, and the comparison of byte        *)
(* strings that both the parser (parse_sax.c, bytes_cmp) and the value     *)
(* tree (value.c, dict_search) use to order dictionary keys.               *)
(***************************************************************************)
EXTENDS Integers, SequencesExt

Byte == 0..255
Bytes == Seq(Byte)

\* The ASCII codes the grammar gives a meaning to.
Minus == 45
Zero  == 48
Colon == 58
ch_d  == 100
ch_e  == 101
ch_i  == 105
ch_l  == 108

\* Mutant: digits count from one.
digit_from_one(b) == b - (Zero + 1)

is_digit(b) == b \in 48..57
digit(b) == b - Zero

bencode_status ==
  { "OK", "INVALID_ARG", "TRUNCATED", "UNEXPECTED_BYTE", "INTEGER_OVERFLOW",
    "INTEGER_FORMAT", "STRING_LENGTH", "DICT_UNSORTED", "DICT_DUPLICATE",
    "DICT_BAD_KEY", "NESTING_TOO_DEEP", "NOMEM", "IO", "USER_ABORTED",
    "DICT_MISSING_VALUE" }

\* The callback table, and one call of a member of it: value is the argument
\* of on_int, bytes that of on_string.
Hooks == { "on_int", "on_string", "on_list_begin", "on_list_end",
           "on_dict_begin", "on_dict_end" }
Event(hook, value, bytes) == [hook |-> hook, value |-> value, bytes |-> bytes]
EventType == [hook : Hooks, value : Int, bytes : Bytes]

---------------------------------------------------------------------------

\* libc's memcmp over the first n bytes: the sign of the first difference.
memcmp(a, b, n) ==
  IF \A i \in 1..n : a[i] = b[i] THEN 0
  ELSE IF \E k \in 1..n : a[k] < b[k] /\ \A i \in 1..(k - 1) : a[i] = b[i]
       THEN -1
       ELSE 1

\* Mutant: a prefix is taken for equal.
bytes_cmp_prefix(a, b) == memcmp(a, b, IF Len(a) < Len(b) THEN Len(a) ELSE Len(b))

\* Mutant: the shorter string is the smaller.
bytes_cmp_length(a, b) ==
  IF Len(a) # Len(b) THEN Len(a) - Len(b) ELSE memcmp(a, b, Len(a))

\* A common prefix decides nothing: then the shorter string is the smaller.
bytes_cmp(a, b) ==
  LET n == IF Len(a) < Len(b) THEN Len(a) ELSE Len(b)
      c == memcmp(a, b, n)
  IN  IF c # 0 THEN c
      ELSE IF Len(a) < Len(b) THEN -1
      ELSE IF Len(a) > Len(b) THEN 1
      ELSE 0

\* The order in which dictionary keys must appear.
KeyBefore(a, b) == bytes_cmp(a, b) < 0

===========================================================================
