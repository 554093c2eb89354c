----------------------------- MODULE ParseSax -----------------------------
(***************************************************************************)
(* bencode_parse_sax (src/parse_sax.c): the strict, single-pass,           *)
(* allocation-free parser.  One behaviour is one call.                     *)
(*                                                                         *)
(* The recursion parse_value -> parse_list/parse_dict -> parse_value is    *)
(* unfolded into the scope stack the parser keeps anyway: every open scope *)
(* is exactly one activation of parse_list or parse_dict, so "return to    *)
(* the caller" is "go on in the body of the top scope" (pc = "body").      *)
(* An error goes back the same way, one activation at a time: with         *)
(* pc = "unwind", status is what the activation below is about to get.     *)
(*                                                                         *)
(* A callback is a step of the environment: the parser stops with          *)
(* pc = "open_callback" or "value_callback", and Resume(st) is the return  *)
(* of that callback with status st.  ParseDom takes over that step.        *)
(* What was recognised while a callback is in flight is Last(events).      *)
(***************************************************************************)
EXTENDS Bencode

CONSTANTS
  Calls,               (* The argument lists bencode_parse_sax is called with. *)
  CallbackErrors,      (* The statuses other than OK a callback may return.    *)
  INTERNAL_MAX_DEPTH,  (* Length of the scope array: 256 in the code.          *)
  DEFAULT_MAX_DEPTH,   (* 64 in the code.                                      *)
  UINT64_RANGE,        (* 2^64: the modulus of the accumulator's arithmetic.   *)
  INT64_MAX,           (* 2^63 - 1.                                            *)
  SIZE_MAX             (* 2^64 - 1, or 2^32 - 1 on a 32-bit platform.          *)

(***************************************************************************)
(* A call: the input bytes, whether the pointer was in fact NULL (its      *)
(* length still being that of input), the caller's max_depth, and which    *)
(* callbacks are non-NULL (none when the table itself is NULL).            *)
(***************************************************************************)
CallType ==
  [input : Bytes, null : BOOLEAN, max_depth : Nat, hooks : SUBSET Hooks]

ASSUME CallsAssumption == Calls \subseteq CallType
ASSUME CallbackAssumption == CallbackErrors \subseteq bencode_status \ {"OK"}
ASSUME DepthAssumption ==
  /\ INTERNAL_MAX_DEPTH \in Nat \ {0}
  /\ DEFAULT_MAX_DEPTH \in 1..INTERNAL_MAX_DEPTH
ASSUME WidthAssumption ==
  /\ INT64_MAX \in Nat /\ SIZE_MAX \in Nat /\ UINT64_RANGE \in Nat
  /\ 9 <= INT64_MAX /\ INT64_MAX + 1 < UINT64_RANGE
  /\ 9 <= SIZE_MAX  /\ SIZE_MAX < UINT64_RANGE

VARIABLES
  call,             (* the arguments                                        *)
  pc,               (* where control is; see TypeOK                         *)
  p,                (* the cursor, as an offset from origin                 *)
  max_depth,        (* the effective limit, after clamping                  *)
  scopes,           (* the open scopes; s->depth is Len(scopes)             *)
  num,              (* the locals of parse_unsigned and of its caller       *)
  events,           (* history: what has been recognised, in order          *)
  callback_status,  (* history: what the last callback returned             *)
  status,           (* the status being handed up, and the result           *)
  consumed          (* the other result                                     *)

vars == <<call, pc, p, max_depth, scopes, num, events, callback_status,
          status, consumed>>

(***************************************************************************)
(* A scope is the code's sax_scope.  last_key is the empty sequence for    *)
(* NULL and <<key>> otherwise.  keys is history: every key accepted so     *)
(* far in this dict, of which the code remembers only the last.            *)
(***************************************************************************)
Scope == [is_dict : BOOLEAN, expecting_key : BOOLEAN,
          last_key : Seq(Bytes), keys : Seq(Bytes)]

Number == [use : {"none", "int", "string", "key"}, negative : BOOLEAN,
           acc : Nat, max_mag : Nat]
NoNumber == [use |-> "none", negative |-> FALSE, acc |-> 0, max_mag |-> 0]

\* Nothing has been read yet.
AtEntry ==
  /\ pc = "entry"
  /\ p = 0 /\ max_depth = 0
  /\ scopes = <<>> /\ num = NoNumber /\ events = <<>>
  /\ callback_status = "OK"
  /\ status = "OK" /\ consumed = 0

Init == call \in Calls /\ AtEntry

---------------------------------------------------------------------------
(* Helpers.                                                                *)

size == Len(call.input)
at_end(q) == q >= size
peek(q) == call.input[q + 1]
DigitAt(q) == ~at_end(q) /\ is_digit(peek(q))
Slice(q, len) == SubSeq(call.input, q + 1, q + len)

\* An error is found at q: whoever finds it returns, and the activations of
\* parse_list and parse_dict are still there.
Fail(st, q) ==
  /\ pc' = "unwind" /\ status' = st /\ p' = q /\ num' = NoNumber
  /\ UNCHANGED <<scopes, consumed>>

\* Mutant: the dict is left waiting for a value.
ValueDone_forgotten(sc) == sc

\* A value is complete: its dict, if it is in one, wants a key next.
ValueDone(sc) ==
  LET top == Last(sc)
  IN  [sc EXCEPT ![Len(sc)] = [top EXCEPT !.expecting_key = top.is_dict]]

\* A recogniser returns OK: to the body of its own scope when it has just
\* opened it or read a key, else to whoever asked for the value.
Proceed(completes, sc, q) ==
  \/ /\ ~completes
     /\ pc' = "body" /\ scopes' = sc
     /\ UNCHANGED <<status, consumed>>
  \/ /\ completes /\ sc # <<>>
     /\ pc' = "body" /\ scopes' = ValueDone(sc)
     /\ UNCHANGED <<status, consumed>>
  \/ /\ completes /\ sc = <<>>
     /\ pc' = "done" /\ scopes' = sc
     /\ status' = "OK" /\ consumed' = q

\* Event e has been recognised, leaving the cursor at q and the scopes sc:
\* the callback for it is next.
Recognise(e, completes, sc, q) ==
  /\ pc' = IF completes THEN "value_callback" ELSE "open_callback"
  /\ p' = q /\ scopes' = sc /\ num' = NoNumber /\ events' = Append(events, e)
  /\ UNCHANGED <<call, max_depth, callback_status, status, consumed>>

Reject(st, q) ==
  /\ Fail(st, q)
  /\ UNCHANGED <<call, max_depth, events, callback_status>>

---------------------------------------------------------------------------
(* The public entry.                                                       *)

\* Mutant: the caller's limit is not held against the scope array's length.
ClampDepth_uncapped(d) == IF d = 0 THEN DEFAULT_MAX_DEPTH ELSE d

ClampDepth(d) ==
  LET effective == IF d = 0 THEN DEFAULT_MAX_DEPTH ELSE d
  IN  IF effective > INTERNAL_MAX_DEPTH THEN INTERNAL_MAX_DEPTH ELSE effective

RejectArguments ==
  /\ pc = "entry"
  /\ \/ call.null /\ size # 0 /\ status' = "INVALID_ARG"
     \/ size = 0 /\ status' = "TRUNCATED"
  /\ pc' = "done"
  /\ UNCHANGED <<call, p, max_depth, scopes, num, events, callback_status, consumed>>

Start ==
  /\ pc = "entry" /\ ~call.null /\ size # 0
  /\ max_depth' = ClampDepth(call.max_depth)
  /\ pc' = "value"
  /\ UNCHANGED <<call, p, scopes, num, events, callback_status, status, consumed>>

---------------------------------------------------------------------------
(* Numbers: parse_unsigned, and what its three callers do with the result. *)

\* Mutant: INT64_MIN, whose magnitude is INT64_MAX + 1, is forgotten.
MaxMagnitude_symmetric(use, negative) == IF use = "int" THEN INT64_MAX ELSE SIZE_MAX

MaxMagnitude(use, negative) ==
  IF use = "int" THEN (IF negative THEN INT64_MAX + 1 ELSE INT64_MAX)
                 ELSE SIZE_MAX

\* Mutant: leading zeroes are read past.
LeadingZero_unchecked(q) == FALSE

LeadingZero(q) == peek(q) = Zero /\ DigitAt(q + 1)

\* Every caller has already seen a digit at q, so the first test of
\* parse_unsigned cannot fire.
parse_unsigned(use, negative, q) ==
  IF LeadingZero(q)
  THEN Reject("INTEGER_FORMAT", q + 1)
  ELSE /\ pc' = "digits" /\ p' = q + 1
       /\ num' = [use |-> use, negative |-> negative, acc |-> digit(peek(q)),
                  max_mag |-> MaxMagnitude(use, negative)]
       /\ UNCHANGED <<call, max_depth, scopes, events, callback_status,
                      status, consumed>>

\* Mutant: the guard forgets the digit about to be added.
WouldOverflow_without_digit(acc, d, max_mag) == acc > max_mag \div 10

\* The overflow guard, in the unsigned 64-bit arithmetic it is written in.
WouldOverflow(acc, d, max_mag) == acc > ((max_mag - d) % UINT64_RANGE) \div 10

Accumulate ==
  /\ pc = "digits" /\ DigitAt(p)
  /\ LET d == digit(peek(p))
     IN  \/ /\ WouldOverflow(num.acc, d, num.max_mag)
            /\ Reject("INTEGER_OVERFLOW", p)
         \/ /\ ~WouldOverflow(num.acc, d, num.max_mag)
            /\ num' = [num EXCEPT !.acc = (num.acc * 10 + d) % UINT64_RANGE]
            /\ p' = p + 1
            /\ UNCHANGED <<call, pc, max_depth, scopes, events,
                           callback_status, status, consumed>>

DigitsEnd(use) == pc = "digits" /\ num.use = use /\ ~DigitAt(p)

\* Mutants: the end of the input is not looked for, or is taken for a byte.
Terminated_unguarded(terminator) ==
  IF ~at_end(p) /\ peek(p) # terminator THEN "UNEXPECTED_BYTE" ELSE "OK"

Terminated_early(terminator) ==
  IF at_end(p) \/ peek(p) # terminator THEN "UNEXPECTED_BYTE" ELSE "OK"

\* The status of a number that should be followed by the byte terminator.
Terminated(terminator) ==
  IF at_end(p) THEN "TRUNCATED"
  ELSE IF peek(p) # terminator THEN "UNEXPECTED_BYTE"
  ELSE "OK"

FinishInt ==
  /\ DigitsEnd("int")
  /\ LET st == IF num.negative /\ num.acc = 0 THEN "INTEGER_FORMAT"
               ELSE Terminated(ch_e)
         value == IF num.negative THEN -num.acc ELSE num.acc
     IN  \/ st # "OK" /\ Reject(st, p)
         \/ st = "OK" /\ Recognise(Event("on_int", value, <<>>), TRUE, scopes, p + 1)

\* parse_string after its length prefix: the colon, then len bytes at q.
Payload(len, q) == len <= size - q

FinishString ==
  /\ DigitsEnd("string")
  /\ LET st == Terminated(Colon)
         q  == p + 1
     IN  \/ st # "OK" /\ Reject(st, p)
         \/ st = "OK" /\ ~Payload(num.acc, q) /\ Reject("STRING_LENGTH", q)
         \/ /\ st = "OK" /\ Payload(num.acc, q)
            /\ Recognise(Event("on_string", 0, Slice(q, num.acc)), TRUE,
                         scopes, q + num.acc)

\* parse_dict_key after its length prefix: order and uniqueness are checked
\* against last_key alone.
KeyOrder(last_key, key) ==
  IF last_key = <<>> THEN "OK"
  ELSE LET c == bytes_cmp(last_key[1], key)
       IN  IF c = 0 THEN "DICT_DUPLICATE"
           ELSE IF c > 0 THEN "DICT_UNSORTED" ELSE "OK"

\* Mutant: last_key stays the dict's first key.
AddKey_first_only(sc, key) ==
  [sc EXCEPT ![Len(sc)] =
     [is_dict |-> Last(sc).is_dict, expecting_key |-> FALSE,
      last_key |-> IF Last(sc).last_key = <<>> THEN <<key>> ELSE Last(sc).last_key,
      keys |-> Append(Last(sc).keys, key)]]

AddKey(sc, key) ==
  [sc EXCEPT ![Len(sc)] =
     [is_dict |-> Last(sc).is_dict, expecting_key |-> FALSE,
      last_key |-> <<key>>, keys |-> Append(Last(sc).keys, key)]]

FinishKey ==
  /\ DigitsEnd("key")
  /\ LET st  == Terminated(Colon)
         q   == p + 1
         key == Slice(q, num.acc)
         ord == KeyOrder(Last(scopes).last_key, key)
     IN  \/ st # "OK" /\ Reject(st, p)
         \/ st = "OK" /\ ~Payload(num.acc, q) /\ Reject("STRING_LENGTH", q)
         \/ /\ st = "OK" /\ Payload(num.acc, q) /\ ord # "OK"
            /\ Reject(ord, q + num.acc)
         \/ /\ st = "OK" /\ Payload(num.acc, q) /\ ord = "OK"
            /\ Recognise(Event("on_string", 0, key), FALSE,
                         AddKey(scopes, key), q + num.acc)

---------------------------------------------------------------------------
(* Values: parse_value's dispatch, and the loops of parse_list/parse_dict. *)

InBody == pc = "body" /\ ~at_end(p)

\* parse_value is called at the top level, in a list body that does not end
\* here, and in a dict body that has read a key.
ExpectValue ==
  \/ pc = "value"
  \/ InBody /\ peek(p) # ch_e /\ ~Last(scopes).expecting_key

parse_int ==
  /\ ExpectValue /\ peek(p) = ch_i
  /\ LET negative == ~at_end(p + 1) /\ peek(p + 1) = Minus
         q == IF negative THEN p + 2 ELSE p + 1
     IN  \/ at_end(q) /\ Reject("TRUNCATED", q)
         \/ ~at_end(q) /\ ~is_digit(peek(q)) /\ Reject("INTEGER_FORMAT", q)
         \/ ~at_end(q) /\ is_digit(peek(q)) /\ parse_unsigned("int", negative, q)

parse_string ==
  ExpectValue /\ is_digit(peek(p)) /\ parse_unsigned("string", FALSE, p)

\* Mutant: a list, too, starts by expecting a key.
NewScope_expecting(is_dict) ==
  [is_dict |-> is_dict, expecting_key |-> TRUE, last_key |-> <<>>, keys |-> <<>>]

NewScope(is_dict) ==
  [is_dict |-> is_dict, expecting_key |-> is_dict, last_key |-> <<>>, keys |-> <<>>]

\* push_scope, then the begin callback.
Open(is_dict, hook) ==
  \/ /\ Len(scopes) >= max_depth
     /\ Reject("NESTING_TOO_DEEP", p + 1)
  \/ /\ Len(scopes) < max_depth
     /\ Recognise(Event(hook, 0, <<>>), FALSE, Append(scopes, NewScope(is_dict)), p + 1)

parse_list == ExpectValue /\ peek(p) = ch_l /\ Open(FALSE, "on_list_begin")
parse_dict == ExpectValue /\ peek(p) = ch_d /\ Open(TRUE, "on_dict_begin")

UnexpectedByte ==
  /\ ExpectValue /\ peek(p) \notin {ch_i, ch_l, ch_d} /\ ~is_digit(peek(p))
  /\ Reject("UNEXPECTED_BYTE", p)

\* Mutant: the loop of a body waits for more input at its end.
BodyTruncated_waiting == pc = "body" /\ at_end(p) /\ UNCHANGED vars

BodyTruncated == pc = "body" /\ at_end(p) /\ Reject("TRUNCATED", p)

\* Mutant: the closing 'e' is not consumed.
Close_in_place(hook) == Recognise(Event(hook, 0, <<>>), TRUE, Front(scopes), p)

\* pop_scope, then the end callback.
Close(hook) == Recognise(Event(hook, 0, <<>>), TRUE, Front(scopes), p + 1)

CloseList ==
  /\ InBody /\ peek(p) = ch_e /\ ~Last(scopes).is_dict
  /\ Close("on_list_end")

CloseDict ==
  /\ InBody /\ peek(p) = ch_e /\ Last(scopes).is_dict
  /\ \/ Last(scopes).expecting_key /\ Close("on_dict_end")
     \/ ~Last(scopes).expecting_key /\ Reject("DICT_MISSING_VALUE", p)

parse_dict_key ==
  /\ InBody /\ peek(p) # ch_e /\ Last(scopes).expecting_key
  /\ \/ ~is_digit(peek(p)) /\ Reject("DICT_BAD_KEY", p)
     \/ is_digit(peek(p)) /\ parse_unsigned("key", FALSE, p)

---------------------------------------------------------------------------
(* An error on its way to the caller.                                      *)

\* Mutant: parse_dict does not look at what parse_value returns.
HandUp_unchecked ==
  /\ pc = "unwind" /\ scopes # <<>>
  /\ IF Last(scopes).is_dict /\ ~Last(scopes).expecting_key
     THEN pc' = "body" /\ scopes' = ValueDone(scopes)
     ELSE pc' = "unwind" /\ scopes' = Front(scopes)
  /\ UNCHANGED <<call, p, max_depth, num, events, callback_status, status, consumed>>

\* The innermost parse_list or parse_dict gets the error from what it called,
\* or has found it, pops its scope and returns it.
HandUp ==
  /\ pc = "unwind" /\ scopes # <<>>
  /\ scopes' = Front(scopes)
  /\ UNCHANGED <<call, pc, p, max_depth, num, events, callback_status, status, consumed>>

\* The public entry gets it from parse_value, and reports the cursor.
ReportError ==
  /\ pc = "unwind" /\ scopes = <<>>
  /\ pc' = "done" /\ consumed' = p
  /\ UNCHANGED <<call, p, max_depth, scopes, num, events, callback_status, status>>

---------------------------------------------------------------------------

InCallback == pc \in {"open_callback", "value_callback"}

\* The callback in flight returns st; anything but OK aborts the parse.
Resume(st) ==
  /\ InCallback
  /\ callback_status' = st
  /\ UNCHANGED <<call, max_depth, events>>
  /\ \/ /\ st = "OK"
        /\ Proceed(pc = "value_callback", scopes, p)
        /\ UNCHANGED <<p, num>>
     \/ st # "OK" /\ Fail(st, p)

\* A NULL callback is skipped.
SkipCallback == InCallback /\ Last(events).hook \notin call.hooks /\ Resume("OK")

Callback ==
  /\ InCallback /\ Last(events).hook \in call.hooks
  /\ \E st \in {"OK"} \cup CallbackErrors : Resume(st)

Parse ==
  \/ RejectArguments \/ Start
  \/ Accumulate \/ FinishInt \/ FinishString \/ FinishKey
  \/ parse_int \/ parse_string \/ parse_list \/ parse_dict \/ UnexpectedByte
  \/ BodyTruncated \/ CloseList \/ CloseDict \/ parse_dict_key
  \/ SkipCallback
  \/ HandUp \/ ReportError

Next == Parse \/ Callback

Spec == Init /\ [][Next]_vars

\* The parser runs on its caller's thread and has nothing to wait for; a
\* callback is assumed to return.
FairSpec == Spec /\ WF_vars(Parse) /\ WF_vars(Callback)

---------------------------------------------------------------------------
(* Properties.                                                             *)

\* The types of the variables.
TypeOK ==
  /\ call \in CallType
  /\ pc \in {"entry", "value", "body", "digits", "open_callback",
             "value_callback", "unwind", "done"}
  /\ p \in Nat /\ max_depth \in Nat
  /\ scopes \in Seq(Scope) /\ num \in Number /\ events \in Seq(EventType)
  /\ callback_status \in {"OK"} \cup CallbackErrors
  /\ status \in bencode_status /\ consumed \in Nat

\* The scope array on the C stack is never indexed past its end: push_scope
\* checks only max_depth, so this rests on the clamp at the public entry.
DepthBounded ==
  Len(scopes) <= max_depth /\ max_depth <= INTERNAL_MAX_DEPTH

\* The cursor, and the offset reported to the caller, never pass the end of
\* the input: parse_string advances it by a length the input chose, and each
\* terminator is skipped only after it has been seen.
CursorInBounds == p <= size /\ consumed <= size

\* parse_unsigned's guard keeps the accumulator within the caller's limit
\* although it is computed in wrapping arithmetic, so that the conversions
\* to int64_t and size_t are exact.
NumbersInRange ==
  /\ num.use # "none" => num.acc <= MaxMagnitude(num.use, num.negative)
  /\ \A i \in DOMAIN events :
       events[i].hook = "on_int" =>
         events[i].value \in -(INT64_MAX + 1)..INT64_MAX

\* The keys accepted in a dict are strictly ascending, every one against
\* every other, although parse_dict_key compares neighbours only.
KeysAscend ==
  \A i \in DOMAIN scopes :
    \A j, k \in DOMAIN scopes[i].keys :
      j < k => KeyBefore(scopes[i].keys[j], scopes[i].keys[k])

\* What holds of control and data together, and makes the invariants above
\* inductive: where a cursor may stand, what a number in progress is for,
\* and that only the innermost scope can be waiting for a key.
ControlInv ==
  /\ pc \in {"entry", "value"} => p = 0 /\ scopes = <<>> /\ events = <<>>
  /\ pc = "value" => p < size
  /\ pc \in {"body", "open_callback"} => scopes # <<>>
  /\ InCallback => events # <<>>
  /\ pc = "unwind" => status # "OK"
  /\ pc = "done" => scopes = <<>>
  /\ pc # "digits" => num = NoNumber

NumberInv ==
  pc = "digits" =>
    /\ num.use # "none" /\ num.max_mag = MaxMagnitude(num.use, num.negative)
    /\ num.use = "key" => scopes # <<>> /\ Last(scopes).expecting_key
    /\ num.use # "key" => IF scopes = <<>> THEN events = <<>>
                          ELSE ~Last(scopes).expecting_key

ScopeInv ==
  \A i \in DOMAIN scopes :
    /\ scopes[i].expecting_key => scopes[i].is_dict /\ i = Len(scopes)
                                  /\ pc # "value_callback"
    /\ scopes[i].last_key =
         IF scopes[i].keys = <<>> THEN <<>> ELSE <<Last(scopes[i].keys)>>

IInv ==
  /\ TypeOK /\ ControlInv /\ NumberInv /\ ScopeInv
  /\ DepthBounded /\ CursorInBounds /\ NumbersInRange /\ KeysAscend

\* A bound on the steps left.  Every step of the parser lowers it, whatever
\* the input and whatever the callbacks answer: parsing takes linear time.
Rank ==
  CASE pc = "entry"  -> 5
    [] pc = "value"  -> 4
    [] InCallback    -> 3
    [] pc \in {"body", "digits"} -> 2
    [] pc = "unwind" -> 1
    [] pc = "done"   -> 0

Variant == 3 * (size - p) + Rank + Len(scopes)

Progress == [][0 <= Variant' /\ Variant' < Variant]_vars

\* Every call returns: no input and no callback keeps the parser going.
Termination == <>(pc = "done")

\* What the consumer sees is a behaviour of EventProtocol.  A scope is an
\* open container, except that a dict wants its next key as soon as a value
\* in it is reported, while the code notes it after the callback returned.
\* With an error the report is over, though the scopes are still to go.
OpenFrames ==
  [i \in IF pc = "unwind" THEN {} ELSE DOMAIN scopes |->
     [dict |-> scopes[i].is_dict,
      key_next |-> IF pc = "value_callback" /\ i = Len(scopes)
                   THEN scopes[i].is_dict ELSE scopes[i].expecting_key,
      last |-> scopes[i].last_key]]

Protocol ==
  INSTANCE EventProtocol
    WITH MAX_DEPTH <- INTERNAL_MAX_DEPTH, open <- OpenFrames, heard <- events,
         result <- IF pc \in {"unwind", "done"} THEN <<status>> ELSE <<>>

\* bencode_parse_sax implements the protocol its callback table documents.
ImplementsProtocol == Protocol!ProtocolSpec

===========================================================================
