---------------------------- MODULE SaxSpelling ----------------------------
(***************************************************************************)
(* What the parser has reported, spelt as canonical bencode, against what  *)
(* it has read.                                                            *)
(***************************************************************************)
EXTENDS ParseSax, Encoding

\* The document that the events so far spell, and the bytes read so far.
Spelt == EncodeEvents(events)
BytesRead  == SubSeq(call.input, 1, p)

\* Whatever has been reported spells exactly the bytes the cursor has
\* passed, so that a call returning OK has lost and invented nothing.
RoundTrip ==
  \/ pc \in {"value", "body"} \/ InCallback
  \/ pc = "done" /\ status = "OK"
  => Spelt = BytesRead

\* A callback that refuses ends the call there, through however many
\* containers are open: none is called after it, its status is what the
\* caller gets, and the offset reported is the end of the bytes spelt by the
\* events up to the refused one, which is the last.
AbortIsFinal ==
  callback_status # "OK" =>
    /\ pc \in {"unwind", "done"} /\ status = callback_status
    /\ events # <<>> /\ Last(events).hook \in call.hooks
    /\ Spelt = SubSeq(call.input, 1, IF pc = "done" THEN consumed ELSE p)

\* The bytes of a number in progress that precede its digits.
NumberStart ==
  IF num.use # "int" THEN <<>>
  ELSE IF num.negative THEN <<ch_i>> \o <<Minus>> ELSE <<ch_i>>

\* Between two events only a number can be in progress.  The digits read so
\* far are the shortest notation of the accumulator: a 0 is the last of them.
SpelledInv ==
  /\ RoundTrip
  /\ pc = "digits" =>
       /\ Spelt \o (NumberStart \o Decimal[num.acc]) = BytesRead
       /\ num.acc = 0 => ~DigitAt(p)

===========================================================================
