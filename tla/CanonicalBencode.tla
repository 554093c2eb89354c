------------------------- MODULE CanonicalBencode -------------------------
(***************************************************************************)
(* Canonical bencode as a language: which byte strings are the encoding of *)
(* a value.  It is written from the grammar the parser enforces, without   *)
(* its cursor, its scopes or its accumulator, so that the parser and the   *)
(* emitter can be compared with it.  Only model checking uses it.          *)
(***************************************************************************)
EXTENDS Encoding

CONSTANT INT64_MAX

---------------------------------------------------------------------------

RECURSIVE LexLess(_, _)
LexLess(a, b) ==
  /\ b # <<>>
  /\ \/ a = <<>>
     \/ a[1] < b[1]
     \/ a[1] = b[1] /\ LexLess(Tail(a), Tail(b))

Ints == {EncodeInt(n) : n \in -(INT64_MAX + 1)..INT64_MAX}

IsString(s) ==
  \E k \in DOMAIN s : s[k] = Colon /\ s = EncodeString(SubSeq(s, k + 1, Len(s)))

Payload(s) ==
  LET colon == CHOOSE k \in DOMAIN s : s = EncodeString(SubSeq(s, k + 1, Len(s)))
  IN  SubSeq(s, colon + 1, Len(s))

Bracketed(s, open) == Len(s) >= 2 /\ s[1] = open /\ s[Len(s)] = ch_e

Inside(s) == SubSeq(s, 2, Len(s) - 1)

RECURSIVE IsValue(_, _), AreValues(_, _), AreEntries(_, _, _)

\* s encodes a value of nesting depth at most d.
IsValue(s, d) ==
  \/ s \in Ints
  \/ IsString(s)
  \/ d > 0 /\ Bracketed(s, ch_l) /\ AreValues(Inside(s), d - 1)
  \/ d > 0 /\ Bracketed(s, ch_d) /\ AreEntries(Inside(s), d - 1, {})

AreValues(s, d) ==
  \/ s = <<>>
  \/ \E k \in DOMAIN s :
       IsValue(SubSeq(s, 1, k), d) /\ AreValues(SubSeq(s, k + 1, Len(s)), d)

\* Keys are byte strings, each greater than all those before it.
AreEntries(s, d, before) ==
  \/ s = <<>>
  \/ \E k \in DOMAIN s :
       LET key == SubSeq(s, 1, k)
       IN  /\ IsString(key)
           /\ \A b \in before : LexLess(b, Payload(key))
           /\ \E m \in (k + 1)..Len(s) :
                /\ IsValue(SubSeq(s, k + 1, m), d)
                /\ AreEntries(SubSeq(s, m + 1, Len(s)), d, before \cup {Payload(key)})

\* The lengths at which a prefix of s is a whole document (at most one).
Documents(s, d) == {k \in DOMAIN s : IsValue(SubSeq(s, 1, k), d)}

===========================================================================
