-------------------------- MODULE ParseSaxProofs --------------------------
(***************************************************************************)
(* Theorems about ParseSax, for every set of calls, every depth limit and  *)
(* every integer width: the parser's own state first, and then what the    *)
(* consumer of the events is told.                                         *)
(***************************************************************************)
EXTENDS SaxSpelling, BencodeProofs

---------------------------------------------------------------------------
(* Arithmetic of the accumulator.                                          *)

\* Below the modulus, wrapping arithmetic is ordinary arithmetic.
LEMMA NoWrap ==
  ASSUME NEW a \in Nat, a < UINT64_RANGE
  PROVE  a % UINT64_RANGE = a
BY WidthAssumption

\* The guard of parse_unsigned says what its comment claims: it fires exactly
\* when one more digit would pass the limit.
LEMMA GuardIsExact ==
  ASSUME NEW acc \in Nat, NEW d \in 0..9, NEW max_mag \in Nat,
         9 <= max_mag, max_mag < UINT64_RANGE
  PROVE  WouldOverflow(acc, d, max_mag) <=> acc * 10 + d > max_mag
<1>1. max_mag - d \in Nat /\ max_mag - d < UINT64_RANGE
  BY WidthAssumption
<1>2. (max_mag - d) % UINT64_RANGE = max_mag - d
  BY <1>1, NoWrap
<1>3. acc > (max_mag - d) \div 10 <=> acc * 10 > max_mag - d
  BY <1>1
<1> QED BY <1>2, <1>3 DEF WouldOverflow

\* Every limit leaves room for one digit and is below the modulus.
LEMMA Magnitudes ==
  ASSUME NEW use, NEW negative
  PROVE  /\ MaxMagnitude(use, negative) \in Nat
         /\ 9 <= MaxMagnitude(use, negative)
         /\ MaxMagnitude(use, negative) < UINT64_RANGE
BY WidthAssumption DEF MaxMagnitude

---------------------------------------------------------------------------
(* The inductive invariant, one building block of the actions at a time.   *)

\* What IInv asks of scopes, as a predicate of the scopes an action is about
\* to install; completes says whether they are left by a complete value.
GoodScopes(sc, completes) ==
  /\ sc \in Seq(Scope)
  /\ \A i \in 1..Len(sc) :
       /\ sc[i].expecting_key => sc[i].is_dict /\ i = Len(sc) /\ ~completes
       /\ sc[i].last_key =
            IF sc[i].keys = <<>> THEN <<>> ELSE <<Last(sc[i].keys)>>
       /\ \A j, k \in DOMAIN sc[i].keys :
            j < k => KeyBefore(sc[i].keys[j], sc[i].keys[k])

\* The input is a byte string.
LEMMA InputFacts ==
  ASSUME TypeOK
  PROVE  /\ size \in Nat /\ call.input \in Seq(Byte)
         /\ \A q \in Nat : q < size => peek(q) \in 0..255
<1>1. call.input \in Seq(Byte)
  BY DEF TypeOK, CallType, Bytes
<1>2. size \in Nat
  BY <1>1, LenProperties DEF size
<1>3. ASSUME NEW q \in Nat, q < size
      PROVE  peek(q) \in Byte
  <2>1. q + 1 \in 1..Len(call.input)
    BY <1>2, <1>3 DEF size
  <2> QED BY <1>1, <2>1, ElementOfSeq DEF peek
<1> QED BY <1>1, <1>2, <1>3 DEF Byte

\* The scopes of a state that satisfies IInv.
LEMMA ScopeFacts ==
  ASSUME IInv
  PROVE  /\ GoodScopes(scopes, pc = "value_callback")
         /\ Len(scopes) \in Nat /\ DOMAIN scopes = 1..Len(scopes)
         /\ scopes # <<>> =>
              /\ Len(scopes) \in 1..Len(scopes)
              /\ Last(scopes) = scopes[Len(scopes)] /\ Last(scopes) \in Scope
<1>1. scopes \in Seq(Scope)
  BY DEF IInv, TypeOK
<1>2. Len(scopes) \in Nat /\ DOMAIN scopes = 1..Len(scopes)
  BY <1>1, LenProperties
<1>3. GoodScopes(scopes, pc = "value_callback")
  BY <1>1, <1>2 DEF GoodScopes, IInv, ScopeInv, KeysAscend
<1>4. ASSUME scopes # <<>>
      PROVE  /\ Len(scopes) \in 1..Len(scopes)
             /\ Last(scopes) = scopes[Len(scopes)] /\ Last(scopes) \in Scope
  <2>1. Len(scopes) \in 1..Len(scopes)
    BY <1>1, <1>2, <1>4, EmptySeq
  <2> QED BY <1>1, <2>1, ElementOfSeq DEF Last
<1> QED BY <1>2, <1>3, <1>4

\* The invariant holds after an error has been found anywhere in the input.
LEMMA FailInv ==
  ASSUME IInv, NEW st \in bencode_status \ {"OK"}, NEW q \in 0..size, Fail(st, q),
         UNCHANGED <<call, max_depth, events>>,
         callback_status' \in {"OK"} \cup CallbackErrors
  PROVE  IInv'
<1> USE DEF Fail
<1>0. size \in Nat /\ size' = size
  BY InputFacts DEF IInv, size
<1>1. TypeOK'
  <2>1. NoNumber \in Number
    BY DEF NoNumber, Number
  <2> QED BY <1>0, <2>1 DEF IInv, TypeOK
<1>3. ControlInv' /\ NumberInv'
  BY DEF ControlInv, NumberInv, InCallback
<1>4. ScopeInv' /\ KeysAscend'
  BY DEF IInv, ScopeInv, KeysAscend
<1>5. DepthBounded'
  BY DEF IInv, TypeOK, DepthBounded
<1>6. CursorInBounds'
  BY <1>0 DEF IInv, CursorInBounds
<1>7. NumbersInRange'
  BY DEF IInv, NumbersInRange, NoNumber
<1> QED BY <1>1, <1>3, <1>4, <1>5, <1>6, <1>7 DEF IInv

\* An error the parser itself finds.
LEMMA RejectInv ==
  ASSUME IInv, NEW st \in bencode_status \ {"OK"}, NEW q \in 0..size, Reject(st, q)
  PROVE  IInv'
BY FailInv DEF Reject, IInv, TypeOK

\* The invariant holds when an event has been recognised.
LEMMA RecogniseInv ==
  ASSUME IInv, NEW e \in EventType, NEW completes \in BOOLEAN,
         NEW sc, NEW q \in 0..size,
         e.hook = "on_int" => e.value \in -(INT64_MAX + 1)..INT64_MAX,
         GoodScopes(sc, completes), Len(sc) <= max_depth,
         ~completes => sc # <<>>,
         Recognise(e, completes, sc, q)
  PROVE  IInv'
<1> USE DEF Recognise
<1>0. size \in Nat /\ size' = size
  BY InputFacts DEF IInv, size
<1>1. /\ events' \in Seq(EventType) /\ events' # <<>>
      /\ DOMAIN events' = 1..(Len(events) + 1) /\ Len(events) \in Nat
      /\ \A i \in 1..Len(events) : events'[i] = events[i]
      /\ events'[Len(events) + 1] = e /\ DOMAIN events = 1..Len(events)
  <2>1. events \in Seq(EventType)
    BY DEF IInv, TypeOK
  <2> QED BY <2>1, AppendProperties, LenProperties
<1>2. DOMAIN sc = 1..Len(sc)
  BY LenProperties DEF GoodScopes
<1>3. TypeOK'
  <2>1. NoNumber \in Number
    BY DEF NoNumber, Number
  <2> QED BY <1>0, <1>1, <2>1 DEF IInv, TypeOK, GoodScopes
<1>4. ControlInv' /\ NumberInv'
  BY <1>1 DEF ControlInv, NumberInv, InCallback
<1>5. ScopeInv' /\ KeysAscend'
  BY <1>2 DEF ScopeInv, KeysAscend, GoodScopes
<1>6. DepthBounded' /\ CursorInBounds'
  BY <1>0 DEF IInv, DepthBounded, CursorInBounds
<1>7. NumbersInRange'
  BY <1>1 DEF IInv, NumbersInRange, NoNumber
<1> QED BY <1>3, <1>4, <1>5, <1>6, <1>7 DEF IInv

\* Where a value may start: its first byte is in the input, and its parent
\* is not waiting for a key.
LEMMA ValueFacts ==
  ASSUME IInv, ExpectValue
  PROVE  /\ p \in Nat /\ p < size
         /\ IF scopes = <<>> THEN events = <<>> ELSE ~Last(scopes).expecting_key
BY InputFacts DEF IInv, TypeOK, ControlInv, ExpectValue, InBody, at_end

\* Strings, as values and as keys, are byte strings cut out of the input.
LEMMA SliceFacts ==
  ASSUME TypeOK, NEW len \in Nat, NEW q \in Nat, q + len <= size
  PROVE  Slice(q, len) \in Bytes
<1>1. \A i \in (q + 1)..(q + len) : call.input[i] \in Byte
  BY InputFacts, ElementOfSeq DEF size
<1> QED BY <1>1, SubSeqProperties DEF Slice, Bytes

\* The first digit of a number, wherever parse_unsigned is called from.
LEMMA ParseUnsignedInv ==
  ASSUME IInv, NEW use \in {"int", "string", "key"}, NEW negative \in BOOLEAN,
         NEW q \in Nat, q < size, is_digit(peek(q)),
         use = "key" => scopes # <<>> /\ Last(scopes).expecting_key,
         use # "key" => IF scopes = <<>> THEN events = <<>>
                        ELSE ~Last(scopes).expecting_key,
         parse_unsigned(use, negative, q)
  PROVE  IInv'
<1>0. size \in Nat /\ q + 1 \in 0..size
  BY InputFacts DEF IInv
<1>1. CASE LeadingZero(q)
  <2>1. Reject("INTEGER_FORMAT", q + 1)
    BY <1>1 DEF parse_unsigned
  <2> QED BY <1>0, <2>1, RejectInv DEF bencode_status
<1>2. CASE ~(LeadingZero(q))
  <2>1. /\ pc' = "digits" /\ p' = q + 1
        /\ num' = [use |-> use, negative |-> negative, acc |-> digit(peek(q)),
                   max_mag |-> MaxMagnitude(use, negative)]
        /\ UNCHANGED <<call, max_depth, scopes, events, callback_status,
                       status, consumed>>
    BY <1>2 DEF parse_unsigned
  <2>2. digit(peek(q)) \in 0..9
    BY InputFacts DEF IInv, is_digit, digit, Zero
  <2>3. digit(peek(q)) <= MaxMagnitude(use, negative)
    BY <2>2, Magnitudes
  <2>4. size' = size
    BY <2>1 DEF size
  <2>5. num' \in Number
    BY <2>1, <2>2, Magnitudes DEF Number
  <2>6. TypeOK'
    BY <2>1, <2>5 DEF IInv, TypeOK
  <2>7. ControlInv' /\ NumberInv'
    BY <2>1 DEF ControlInv, NumberInv, InCallback, Last
  <2>8. ScopeInv' /\ KeysAscend'
    BY <2>1 DEF IInv, ScopeInv, KeysAscend
  <2>9. DepthBounded' /\ CursorInBounds'
    BY <1>0, <2>1, <2>4 DEF IInv, DepthBounded, CursorInBounds
  <2>10. NumbersInRange'
    BY <2>1, <2>3 DEF IInv, NumbersInRange, MaxMagnitude
  <2> QED BY <2>6, <2>7, <2>8, <2>9, <2>10 DEF IInv
<1> QED BY <1>1, <1>2

\* One more digit: parse_unsigned's guard is exact, so nothing wraps.
LEMMA AccumulateInv ==
  ASSUME IInv, Accumulate
  PROVE  IInv'
<1> DEFINE d == digit(peek(p))
<1>0. /\ size \in Nat /\ p \in Nat /\ p < size /\ is_digit(peek(p))
      /\ pc = "digits"
  BY InputFacts DEF IInv, TypeOK, Accumulate, DigitAt, at_end
<1>1. d \in 0..9
  BY <1>0, InputFacts DEF IInv, is_digit, digit, Zero
<1>2. /\ num \in Number /\ num.use # "none"
      /\ num.max_mag = MaxMagnitude(num.use, num.negative)
      /\ num.acc \in Nat /\ num.acc <= num.max_mag
  BY <1>0 DEF IInv, TypeOK, NumberInv, NumbersInRange, Number
<1>3. /\ num.max_mag \in Nat /\ 9 <= num.max_mag /\ num.max_mag < UINT64_RANGE
  BY <1>2, Magnitudes
<1>4. CASE WouldOverflow(num.acc, d, num.max_mag)
  <2>1. Reject("INTEGER_OVERFLOW", p)
    BY <1>4 DEF Accumulate
  <2> QED BY <1>0, <2>1, RejectInv DEF bencode_status
<1>5. CASE ~WouldOverflow(num.acc, d, num.max_mag)
  <2>1. /\ num' = [num EXCEPT !.acc = (num.acc * 10 + d) % UINT64_RANGE]
        /\ p' = p + 1
        /\ UNCHANGED <<call, pc, max_depth, scopes, events, callback_status,
                       status, consumed>>
    BY <1>5 DEF Accumulate
  <2>2. num.acc * 10 + d \in Nat /\ num.acc * 10 + d <= num.max_mag
    BY <1>1, <1>2, <1>3, <1>5, GuardIsExact
  <2>3. (num.acc * 10 + d) % UINT64_RANGE = num.acc * 10 + d
    BY <1>3, <2>2, NoWrap, WidthAssumption
  <2>4. /\ num' \in Number /\ num'.acc <= num.max_mag
        /\ num'.use = num.use /\ num'.negative = num.negative
        /\ num'.max_mag = num.max_mag
    BY <1>2, <2>1, <2>2, <2>3 DEF Number
  <2>5. size' = size
    BY <2>1 DEF size
  <2>6. TypeOK'
    BY <1>0, <2>1, <2>4 DEF IInv, TypeOK
  <2>7. ControlInv' /\ NumberInv'
    BY <1>0, <1>2, <2>1, <2>4
    DEF IInv, ControlInv, NumberInv, InCallback, Last, MaxMagnitude
  <2>8. ScopeInv' /\ KeysAscend'
    BY <2>1 DEF IInv, ScopeInv, KeysAscend
  <2>9. DepthBounded' /\ CursorInBounds'
    BY <1>0, <2>1, <2>5 DEF IInv, DepthBounded, CursorInBounds
  <2>10. NumbersInRange'
    BY <1>2, <2>1, <2>4 DEF IInv, NumbersInRange, MaxMagnitude
  <2> QED BY <2>6, <2>7, <2>8, <2>9, <2>10 DEF IInv
<1> QED BY <1>4, <1>5

\* A number in progress when its digits have ended.
LEMMA DigitsFacts ==
  ASSUME IInv, NEW use, DigitsEnd(use)
  PROVE  /\ p \in 0..size /\ size \in Nat /\ use # "none"
         /\ num \in Number /\ num.use = use /\ num.acc \in Nat
         /\ num.acc <= MaxMagnitude(use, num.negative)
         /\ use = "key" => scopes # <<>> /\ Last(scopes).expecting_key
         /\ use # "key" => IF scopes = <<>> THEN events = <<>>
                           ELSE ~Last(scopes).expecting_key
BY InputFacts
DEF IInv, TypeOK, DigitsEnd, NumberInv, NumbersInRange, CursorInBounds, Number

\* A byte that terminates a number is in the input.
LEMMA TerminatedFacts ==
  ASSUME IInv, NEW b
  PROVE  /\ Terminated(b) \in bencode_status
         /\ Terminated(b) = "OK" => p + 1 \in 0..size
BY InputFacts DEF IInv, TypeOK, Terminated, at_end, bencode_status

\* Scopes out of which a complete value has been reported: the top one, if
\* any, is not waiting for a key.
LEMMA ScopesAfterValue ==
  ASSUME IInv, pc # "value_callback",
         IF scopes = <<>> THEN TRUE ELSE ~Last(scopes).expecting_key
  PROVE  GoodScopes(scopes, TRUE)
<1>1. GoodScopes(scopes, FALSE) /\ Len(scopes) \in Nat
  BY ScopeFacts DEF GoodScopes
<1>2. \A i \in 1..Len(scopes) : ~scopes[i].expecting_key
  <2> SUFFICES ASSUME NEW i \in 1..Len(scopes), scopes[i].expecting_key
               PROVE  FALSE
    OBVIOUS
  <2>1. i = Len(scopes)
    BY <1>1 DEF GoodScopes
  <2>2. scopes # <<>>
    BY <1>1, EmptySeq
  <2> QED BY <2>1, <2>2 DEF Last
<1> QED BY <1>1, <1>2 DEF GoodScopes

\* The end of an integer: its value is one of int64_t.
LEMMA FinishIntInv ==
  ASSUME IInv, FinishInt
  PROVE  IInv'
<1> DEFINE st == IF num.negative /\ num.acc = 0 THEN "INTEGER_FORMAT"
                 ELSE Terminated(ch_e)
           value == IF num.negative THEN -num.acc ELSE num.acc
           e == Event("on_int", value, <<>>)
<1>0. DigitsEnd("int")
  BY DEF FinishInt
<1>1. CASE st # "OK"
  <2>1. Reject(st, p)
    BY <1>1 DEF FinishInt
  <2>2. st \in bencode_status \ {"OK"}
    BY <1>1, TerminatedFacts DEF bencode_status
  <2> QED BY <1>0, <2>1, <2>2, RejectInv, DigitsFacts
<1>2. CASE st = "OK"
  <2>1. Recognise(e, TRUE, scopes, p + 1)
    BY <1>2 DEF FinishInt
  <2>2. p + 1 \in 0..size
    BY <1>2, TerminatedFacts
  <2>3. value \in -(INT64_MAX + 1)..INT64_MAX
    BY <1>0, DigitsFacts, WidthAssumption DEF MaxMagnitude
  <2>4. e \in EventType /\ e.value = value
    <3>1. <<>> \in Bytes
      BY EmptySeq DEF Bytes
    <3> QED BY <2>3, <3>1, WidthAssumption DEF EventType, Event, Hooks
  <2>5. GoodScopes(scopes, TRUE)
    BY <1>0, DigitsFacts, ScopesAfterValue DEF DigitsEnd
  <2>6. Len(scopes) <= max_depth
    BY DEF IInv, DepthBounded
  <2> HIDE DEF e, value
  <2> QED BY <2>1, <2>2, <2>3, <2>4, <2>5, <2>6, RecogniseInv
<1> QED BY <1>1, <1>2

\* A string event is well typed.
LEMMA StringEvent ==
  ASSUME NEW s \in Bytes
  PROVE  /\ Event("on_string", 0, s) \in EventType
         /\ Event("on_string", 0, s).hook # "on_int"
BY DEF EventType, Event, Hooks

\* The end of a string: its payload lies within the input.
LEMMA FinishStringInv ==
  ASSUME IInv, FinishString
  PROVE  IInv'
<1> DEFINE st == Terminated(Colon)
           q  == p + 1
           e  == Event("on_string", 0, Slice(q, num.acc))
<1>0. DigitsEnd("string")
  BY DEF FinishString
<1>1. CASE st # "OK"
  <2>1. Reject(st, p)
    BY <1>1 DEF FinishString
  <2>2. st \in bencode_status \ {"OK"}
    BY <1>1, TerminatedFacts
  <2> QED BY <1>0, <2>1, <2>2, RejectInv, DigitsFacts
<1>2. CASE st = "OK" /\ ~Payload(num.acc, q)
  <2>1. Reject("STRING_LENGTH", q)
    BY <1>2 DEF FinishString
  <2> QED BY <1>2, <2>1, RejectInv, TerminatedFacts DEF bencode_status
<1>3. CASE st = "OK" /\ Payload(num.acc, q)
  <2>1. Recognise(e, TRUE, scopes, q + num.acc)
    BY <1>3 DEF FinishString
  <2>2. q \in Nat /\ num.acc \in Nat /\ q + num.acc \in 0..size
    BY <1>0, <1>3, DigitsFacts, TerminatedFacts DEF Payload
  <2>3. e \in EventType /\ e.hook # "on_int"
    BY <2>2, SliceFacts, StringEvent DEF IInv
  <2>4. GoodScopes(scopes, TRUE)
    BY <1>0, DigitsFacts, ScopesAfterValue DEF DigitsEnd
  <2>5. Len(scopes) <= max_depth
    BY DEF IInv, DepthBounded
  <2> HIDE DEF e, q
  <2> QED BY <2>1, <2>2, <2>3, <2>4, <2>5, RecogniseInv
<1> QED BY <1>1, <1>2, <1>3

---------------------------------------------------------------------------
(* Keys.                                                                   *)

\* A key that passes the code's comparison with its neighbour extends an
\* ascending sequence of keys to an ascending one.
LEMMA AscendingAppend ==
  ASSUME NEW keys \in Seq(Bytes), NEW key \in Bytes,
         \A j, k \in DOMAIN keys : j < k => KeyBefore(keys[j], keys[k]),
         keys # <<>> => KeyBefore(Last(keys), key)
  PROVE  \A j, k \in DOMAIN Append(keys, key) :
           j < k => KeyBefore(Append(keys, key)[j], Append(keys, key)[k])
<1> DEFINE all == Append(keys, key)
<1>1. /\ Len(keys) \in Nat /\ DOMAIN keys = 1..Len(keys)
      /\ all \in Seq(Bytes) /\ DOMAIN all = 1..(Len(keys) + 1)
      /\ \A i \in 1..Len(keys) : all[i] = keys[i] /\ keys[i] \in Bytes
      /\ all[Len(keys) + 1] = key
  BY LenProperties, AppendProperties, ElementOfSeq
<1>2. SUFFICES ASSUME NEW j \in DOMAIN all, NEW k \in DOMAIN all, j < k
               PROVE  KeyBefore(all[j], all[k])
  OBVIOUS
<1>3. CASE k <= Len(keys)
  BY <1>1, <1>2, <1>3
<1>4. CASE k = Len(keys) + 1
  <2>1. KeyBefore(keys[Len(keys)], key)
    BY <1>1, <1>2, <1>4 DEF Last
  <2>2. CASE j = Len(keys)
    BY <1>1, <1>4, <2>1, <2>2
  <2>3. CASE j < Len(keys)
    <3>1. KeyBefore(keys[j], keys[Len(keys)])
      BY <1>1, <2>3
    <3>2. KeyBefore(keys[j], key)
      BY <1>1, <2>1, <2>3, <3>1, KeyBeforeTransitive
    <3> QED BY <1>1, <1>4, <2>3, <3>2
  <2> QED BY <1>1, <1>2, <1>4, <2>2, <2>3
<1> QED BY <1>1, <1>3, <1>4

\* The code's two tests of the comparison's sign leave only "smaller".
LEMMA KeyOrderFacts ==
  ASSUME NEW last, NEW key
  PROVE  /\ KeyOrder(last, key) \in bencode_status
         /\ KeyOrder(last, key) = "OK" => last = <<>> \/ KeyBefore(last[1], key)
<1>1. bytes_cmp(last[1], key) \in {-1, 0, 1}
  BY DEF bytes_cmp, memcmp
<1> QED BY <1>1 DEF KeyOrder, KeyBefore, bencode_status

\* Accepting a key that KeyOrder passes keeps the scopes well formed.
LEMMA AddKeyGood ==
  ASSUME IInv, pc # "value_callback", scopes # <<>>, Last(scopes).expecting_key,
         NEW key \in Bytes, KeyOrder(Last(scopes).last_key, key) = "OK"
  PROVE  GoodScopes(AddKey(scopes, key), FALSE) /\ Len(AddKey(scopes, key)) = Len(scopes)
<1> DEFINE n == Len(scopes)
           top == [is_dict |-> Last(scopes).is_dict, expecting_key |-> FALSE,
                   last_key |-> <<key>>, keys |-> Append(Last(scopes).keys, key)]
<1>1. /\ GoodScopes(scopes, FALSE) /\ n \in 1..n
      /\ Last(scopes) = scopes[n] /\ Last(scopes) \in Scope /\ scopes \in Seq(Scope)
  BY ScopeFacts DEF GoodScopes
<1>2. Last(scopes).keys \in Seq(Bytes)
  BY <1>1 DEF Scope
<1>3. Append(Last(scopes).keys, key) \in Seq(Bytes)
  BY <1>2, AppendProperties
<1>4. top \in Scope
  <2>1. <<key>> \in Seq(Bytes)
    OBVIOUS
  <2> QED BY <1>1, <1>3, <2>1 DEF Scope
<1>5. /\ AddKey(scopes, key) \in Seq(Scope) /\ Len(AddKey(scopes, key)) = n
      /\ \A i \in 1..n : AddKey(scopes, key)[i] = IF i = n THEN top ELSE scopes[i]
  BY <1>1, <1>4, ExceptSeq DEF AddKey
<1>6. top.last_key = IF top.keys = <<>> THEN <<>> ELSE <<Last(top.keys)>>
  BY <1>2, AppendProperties DEF Last
<1>7. \A j, k \in DOMAIN top.keys : j < k => KeyBefore(top.keys[j], top.keys[k])
  <2>1. Last(scopes).keys # <<>> => KeyBefore(Last(Last(scopes).keys), key)
    <3> SUFFICES ASSUME Last(scopes).keys # <<>>
                 PROVE  KeyBefore(Last(Last(scopes).keys), key)
      OBVIOUS
    <3>1. Last(scopes).last_key = <<Last(Last(scopes).keys)>>
      BY <1>1 DEF GoodScopes
    <3> QED BY <3>1, KeyOrderFacts
  <2>2. \A j, k \in DOMAIN Last(scopes).keys :
          j < k => KeyBefore(Last(scopes).keys[j], Last(scopes).keys[k])
    BY <1>1 DEF GoodScopes
  <2> QED BY <1>2, <2>1, <2>2, AscendingAppend
<1>8. top.expecting_key = FALSE
  OBVIOUS
<1> HIDE DEF top
<1>9. GoodScopes(AddKey(scopes, key), FALSE)
  BY <1>1, <1>5, <1>6, <1>7, <1>8 DEF GoodScopes
<1> QED BY <1>5, <1>9

\* The end of a key.
LEMMA FinishKeyInv ==
  ASSUME IInv, FinishKey
  PROVE  IInv'
<1> DEFINE st  == Terminated(Colon)
           q   == p + 1
           key == Slice(q, num.acc)
           ord == KeyOrder(Last(scopes).last_key, key)
           e   == Event("on_string", 0, key)
<1>0. DigitsEnd("key")
  BY DEF FinishKey
<1>1. CASE st # "OK"
  <2>1. Reject(st, p)
    BY <1>1 DEF FinishKey
  <2>2. st \in bencode_status \ {"OK"}
    BY <1>1, TerminatedFacts
  <2> QED BY <1>0, <2>1, <2>2, RejectInv, DigitsFacts
<1>2. CASE st = "OK" /\ ~Payload(num.acc, q)
  <2>1. Reject("STRING_LENGTH", q)
    BY <1>2 DEF FinishKey
  <2> QED BY <1>2, <2>1, RejectInv, TerminatedFacts DEF bencode_status
<1>3. CASE st = "OK" /\ Payload(num.acc, q)
  <2>1. q \in Nat /\ num.acc \in Nat /\ q + num.acc \in 0..size
    BY <1>0, <1>3, DigitsFacts, TerminatedFacts DEF Payload
  <2>2. key \in Bytes
    BY <2>1, SliceFacts DEF IInv
  <2>3. CASE ord # "OK"
    <3>1. Reject(ord, q + num.acc)
      BY <1>3, <2>3 DEF FinishKey
    <3>2. ord \in bencode_status \ {"OK"}
      BY <2>3, KeyOrderFacts
    <3> QED BY <2>1, <3>1, <3>2, RejectInv
  <2>4. CASE ord = "OK"
    <3>1. Recognise(e, FALSE, AddKey(scopes, key), q + num.acc)
      BY <1>3, <2>4 DEF FinishKey
    <3>2. e \in EventType /\ e.hook # "on_int"
      BY <2>2, StringEvent
    <3>3. /\ scopes # <<>> /\ Last(scopes).expecting_key /\ pc # "value_callback"
          /\ Len(scopes) \in Nat \ {0}
      BY <1>0, DigitsFacts, ScopeFacts DEF DigitsEnd
    <3>4. /\ GoodScopes(AddKey(scopes, key), FALSE)
          /\ Len(AddKey(scopes, key)) = Len(scopes)
      BY <2>2, <2>4, <3>3, AddKeyGood
    <3>5. Len(AddKey(scopes, key)) <= max_depth /\ AddKey(scopes, key) # <<>>
      BY <3>3, <3>4 DEF IInv, DepthBounded
    <3> HIDE DEF e, key, q
    <3> QED BY <2>1, <3>1, <3>2, <3>4, <3>5, RecogniseInv
  <2> QED BY <2>3, <2>4
<1> QED BY <1>1, <1>2, <1>3

---------------------------------------------------------------------------
(* Values and containers.                                                  *)

\* The start of an integer, its sign included.
LEMMA ParseIntInv ==
  ASSUME IInv, parse_int
  PROVE  IInv'
<1> DEFINE negative == ~at_end(p + 1) /\ peek(p + 1) = Minus
           q == IF negative THEN p + 2 ELSE p + 1
<1>0. /\ p \in Nat /\ p < size /\ size \in Nat
      /\ IF scopes = <<>> THEN events = <<>> ELSE ~Last(scopes).expecting_key
  BY ValueFacts, InputFacts DEF IInv, parse_int
<1>1. q \in 0..size /\ q \in Nat /\ negative \in BOOLEAN
  BY <1>0 DEF at_end
<1>2. CASE at_end(q) /\ Reject("TRUNCATED", q)
  BY <1>1, <1>2, RejectInv DEF bencode_status
<1>3. CASE ~at_end(q) /\ ~is_digit(peek(q)) /\ Reject("INTEGER_FORMAT", q)
  BY <1>1, <1>3, RejectInv DEF bencode_status
<1>4. CASE ~at_end(q) /\ is_digit(peek(q)) /\ parse_unsigned("int", negative, q)
  <2>1. q < size
    BY <1>0, <1>1, <1>4 DEF at_end
  <2> HIDE DEF q, negative
  <2> QED BY <1>0, <1>1, <1>4, <2>1, ParseUnsignedInv
<1> QED BY <1>2, <1>3, <1>4 DEF parse_int

\* The start of a string's length prefix.
LEMMA ParseStringInv ==
  ASSUME IInv, parse_string
  PROVE  IInv'
BY ValueFacts, ParseUnsignedInv DEF parse_string

\* The event of a container is well typed.
LEMMA ContainerEvent ==
  ASSUME NEW hook \in Hooks \ {"on_int"}
  PROVE  /\ Event(hook, 0, <<>>) \in EventType
         /\ Event(hook, 0, <<>>).hook # "on_int"
BY EmptySeq DEF EventType, Event, Bytes

\* push_scope stays below the depth limit and pushes a well-formed scope.
LEMMA OpenInv ==
  ASSUME IInv, ExpectValue, NEW is_dict \in BOOLEAN,
         NEW hook \in Hooks \ {"on_int"}, Open(is_dict, hook)
  PROVE  IInv'
<1> DEFINE sc == Append(scopes, NewScope(is_dict))
           e == Event(hook, 0, <<>>)
<1>0. /\ p + 1 \in 0..size
      /\ IF scopes = <<>> THEN TRUE ELSE ~Last(scopes).expecting_key
  BY ValueFacts, InputFacts DEF IInv
<1>1. CASE Reject("NESTING_TOO_DEEP", p + 1)
  BY <1>0, <1>1, RejectInv DEF bencode_status
<1>2. CASE Len(scopes) < max_depth /\ Recognise(e, FALSE, sc, p + 1)
  <2>1. GoodScopes(scopes, TRUE) /\ Len(scopes) \in Nat
    <3>1. pc # "value_callback"
      BY DEF ExpectValue, InBody
    <3> QED BY <1>0, <3>1, ScopesAfterValue, ScopeFacts
  <2>2. NewScope(is_dict) \in Scope
    <3>1. <<>> \in Seq(Bytes)
      BY EmptySeq
    <3> QED BY <3>1 DEF NewScope, Scope
  <2>3. /\ sc \in Seq(Scope) /\ sc # <<>> /\ Len(sc) = Len(scopes) + 1
        /\ \A i \in 1..Len(scopes) : sc[i] = scopes[i]
        /\ sc[Len(scopes) + 1] = NewScope(is_dict)
    BY <2>1, <2>2, AppendProperties DEF GoodScopes
  <2>4. GoodScopes(sc, FALSE)
    <3>1. SUFFICES ASSUME NEW i \in 1..Len(sc)
          PROVE /\ sc[i].expecting_key => sc[i].is_dict /\ i = Len(sc)
                /\ sc[i].last_key =
                     IF sc[i].keys = <<>> THEN <<>> ELSE <<Last(sc[i].keys)>>
                /\ \A j, k \in DOMAIN sc[i].keys :
                     j < k => KeyBefore(sc[i].keys[j], sc[i].keys[k])
      BY <2>3 DEF GoodScopes
    <3>2. CASE i <= Len(scopes)
      BY <2>1, <2>3, <3>2 DEF GoodScopes
    <3>3. CASE i = Len(scopes) + 1
      <4>1. sc[i] = NewScope(is_dict)
        BY <2>3, <3>3
      <4>2. sc[i].keys = <<>> /\ DOMAIN sc[i].keys = {}
        BY <4>1 DEF NewScope
      <4> QED BY <2>3, <3>3, <4>1, <4>2 DEF NewScope
    <3> QED BY <2>1, <2>3, <3>2, <3>3
  <2>5. Len(sc) <= max_depth
    BY <1>2, <2>1, <2>3 DEF IInv, TypeOK
  <2>6. e \in EventType /\ e.hook # "on_int"
    BY ContainerEvent
  <2> HIDE DEF sc, e
  <2> QED BY <1>0, <1>2, <2>3, <2>4, <2>5, <2>6, RecogniseInv
<1> QED BY <1>1, <1>2 DEF Open

\* Closing a container leaves its parent, which is waiting for no key.
LEMMA FrontGood ==
  ASSUME IInv, scopes # <<>>
  PROVE  /\ GoodScopes(Front(scopes), TRUE)
         /\ Len(Front(scopes)) \in Nat /\ Len(Front(scopes)) = Len(scopes) - 1
         /\ \A i \in 1..(Len(scopes) - 1) : Front(scopes)[i] = scopes[i]
<1>1. /\ GoodScopes(scopes, FALSE) /\ Len(scopes) \in Nat \ {0}
      /\ scopes \in Seq(Scope)
  <2>1. GoodScopes(scopes, pc = "value_callback")
    BY ScopeFacts
  <2>2. GoodScopes(scopes, FALSE)
    BY <2>1 DEF GoodScopes
  <2>3. scopes \in Seq(Scope)
    BY <2>1 DEF GoodScopes
  <2> QED BY <2>2, <2>3, EmptySeq
<1>2. \A i \in 1..(Len(scopes) - 1) : scopes[i] \in Scope
  BY <1>1, ElementOfSeq
<1>3. /\ Front(scopes) \in Seq(Scope) /\ Len(Front(scopes)) = Len(scopes) - 1
      /\ \A i \in 1..(Len(scopes) - 1) : Front(scopes)[i] = scopes[i]
  <2>1. PICK n \in Nat : n = Len(scopes) - 1
    BY <1>1
  <2>2. \A i \in 1..n : scopes[i] \in Scope
    BY <1>2, <2>1
  <2>3. /\ SubSeq(scopes, 1, n) \in Seq(Scope)
        /\ Len(SubSeq(scopes, 1, n)) = IF 1 <= n THEN n - 1 + 1 ELSE 0
        /\ \A i \in 1..(n - 1 + 1) : SubSeq(scopes, 1, n)[i] = scopes[1 + i - 1]
    BY <2>2, SubSeqProperties
  <2>4. PICK f : f = SubSeq(scopes, 1, n)
    OBVIOUS
  <2>5. f \in Seq(Scope) /\ Len(f) = n /\ \A i \in 1..n : f[i] = scopes[i]
    BY <2>3, <2>4
  <2>6. Front(scopes) = f
    BY <2>1, <2>4 DEF Front
  <2> QED BY <1>1, <2>1, <2>5, <2>6
<1> QED BY <1>1, <1>3 DEF GoodScopes

\* pop_scope at a closing byte.
LEMMA CloseInv ==
  ASSUME IInv, InBody, NEW hook \in Hooks \ {"on_int"}, Close(hook)
  PROVE  IInv'
<1> DEFINE e == Event(hook, 0, <<>>)
<1>1. scopes # <<>> /\ p + 1 \in 0..size /\ Len(scopes) \in Nat
  BY InputFacts, ScopeFacts DEF InBody, at_end, IInv, TypeOK, ControlInv
<1>2. GoodScopes(Front(scopes), TRUE) /\ Len(Front(scopes)) <= max_depth
  <2>1. GoodScopes(Front(scopes), TRUE) /\ Len(Front(scopes)) = Len(scopes) - 1
    BY <1>1, FrontGood
  <2>2. Len(scopes) <= max_depth /\ max_depth \in Nat
    BY DEF IInv, DepthBounded, TypeOK
  <2>3. Len(Front(scopes)) <= max_depth
    BY <1>1, <2>1, <2>2
  <2> QED BY <2>1, <2>3
<1>3. e \in EventType /\ e.hook # "on_int"
  BY ContainerEvent
<1>4. Recognise(e, TRUE, Front(scopes), p + 1)
  BY DEF Close
<1> HIDE DEF e
<1> QED BY <1>1, <1>2, <1>3, <1>4, RecogniseInv

\* The start of a key's length prefix.
LEMMA ParseDictKeyInv ==
  ASSUME IInv, parse_dict_key
  PROVE  IInv'
<1>1. /\ p \in Nat /\ p < size /\ p \in 0..size
      /\ scopes # <<>> /\ Last(scopes).expecting_key
  BY InputFacts DEF parse_dict_key, InBody, at_end, IInv, TypeOK, ControlInv
<1>2. CASE Reject("DICT_BAD_KEY", p)
  BY <1>1, <1>2, RejectInv DEF bencode_status
<1>3. CASE is_digit(peek(p)) /\ parse_unsigned("key", FALSE, p)
  BY <1>1, <1>3, ParseUnsignedInv
<1> QED BY <1>2, <1>3 DEF parse_dict_key

\* After a complete value its dict waits for the next key, its list for
\* anything.
LEMMA ValueDoneGood ==
  ASSUME IInv, scopes # <<>>
  PROVE  /\ GoodScopes(ValueDone(scopes), FALSE)
         /\ Len(ValueDone(scopes)) = Len(scopes) /\ ValueDone(scopes) # <<>>
         /\ \A i \in 1..Len(scopes) :
              ValueDone(scopes)[i] =
                IF i = Len(scopes)
                THEN [Last(scopes) EXCEPT !.expecting_key = Last(scopes).is_dict]
                ELSE scopes[i]
<1> DEFINE n == Len(scopes)
           top == [Last(scopes) EXCEPT !.expecting_key = Last(scopes).is_dict]
<1>1. /\ GoodScopes(scopes, pc = "value_callback") /\ n \in 1..n /\ n \in Nat \ {0}
      /\ Last(scopes) = scopes[n] /\ Last(scopes) \in Scope
  BY ScopeFacts, EmptySeq
<1>2. scopes \in Seq(Scope)
  BY <1>1 DEF GoodScopes
<1>3. /\ top \in Scope /\ top.expecting_key = Last(scopes).is_dict
      /\ top.is_dict = Last(scopes).is_dict /\ top.keys = Last(scopes).keys
      /\ top.last_key = Last(scopes).last_key
  BY <1>1 DEF Scope
<1> HIDE DEF top
<1>4. /\ ValueDone(scopes) \in Seq(Scope) /\ Len(ValueDone(scopes)) = n
      /\ \A i \in 1..n : ValueDone(scopes)[i] = IF i = n THEN top ELSE scopes[i]
  <2>1. ValueDone(scopes) = [scopes EXCEPT ![n] = top]
    BY DEF ValueDone, top
  <2> QED BY <1>1, <1>2, <1>3, <2>1, ExceptSeq
<1>5. ValueDone(scopes) # <<>>
  BY <1>1, <1>4, EmptySeq
<1>6. GoodScopes(ValueDone(scopes), FALSE)
  <2>1. SUFFICES ASSUME NEW i \in 1..n
        PROVE  LET sc == ValueDone(scopes)[i]
               IN  /\ sc.expecting_key => sc.is_dict /\ i = n
                   /\ sc.last_key =
                        IF sc.keys = <<>> THEN <<>> ELSE <<Last(sc.keys)>>
                   /\ \A j, k \in DOMAIN sc.keys :
                        j < k => KeyBefore(sc.keys[j], sc.keys[k])
    BY <1>4 DEF GoodScopes
  <2>2. CASE i = n
    <3>1. ValueDone(scopes)[i] = top
      BY <1>4, <2>2
    <3>2. /\ Last(scopes).last_key =
               IF Last(scopes).keys = <<>> THEN <<>> ELSE <<Last(Last(scopes).keys)>>
          /\ \A j, k \in DOMAIN Last(scopes).keys :
               j < k => KeyBefore(Last(scopes).keys[j], Last(scopes).keys[k])
      BY <1>1 DEF GoodScopes
    <3> QED BY <1>3, <2>2, <3>1, <3>2
  <2>3. CASE i # n
    BY <1>1, <1>4, <2>3 DEF GoodScopes
  <2> QED BY <2>2, <2>3
<1> QED BY <1>4, <1>5, <1>6 DEF top

\* What a step that leaves input, cursor and history alone has to show.
LEMMA ProceedInv ==
  ASSUME IInv, InCallback, Proceed(pc = "value_callback", scopes, p),
         UNCHANGED <<call, max_depth, events, p, num>>,
         callback_status' \in {"OK"} \cup CallbackErrors
  PROVE  IInv'
<1>0. size' = size /\ size \in Nat /\ p \in 0..size
  BY InputFacts DEF size, IInv, TypeOK, CursorInBounds
<1>1. \E sc : /\ scopes' = sc /\ GoodScopes(sc, FALSE) /\ Len(sc) <= max_depth
              /\ \/ pc' = "body" /\ sc # <<>> /\ UNCHANGED <<status, consumed>>
                 \/ pc' = "done" /\ sc = <<>> /\ status' = "OK" /\ consumed' = p
  <2>1. CASE pc # "value_callback"
    <3>1. scopes # <<>>
      BY <2>1 DEF IInv, ControlInv, InCallback
    <3>2. GoodScopes(scopes, FALSE)
      BY <2>1, ScopeFacts DEF GoodScopes
    <3> QED BY <2>1, <3>1, <3>2 DEF Proceed, IInv, DepthBounded
  <2>2. CASE pc = "value_callback" /\ scopes # <<>>
    <3>1. /\ GoodScopes(ValueDone(scopes), FALSE) /\ ValueDone(scopes) # <<>>
          /\ Len(ValueDone(scopes)) = Len(scopes)
      BY <2>2, ValueDoneGood
    <3> QED BY <2>2, <3>1 DEF Proceed, IInv, DepthBounded
  <2>3. CASE pc = "value_callback" /\ scopes = <<>>
    <3>1. GoodScopes(scopes, FALSE)
      BY <2>3, EmptySeq DEF GoodScopes
    <3> QED BY <2>3, <3>1 DEF Proceed, IInv, DepthBounded
  <2> QED BY <2>1, <2>2, <2>3
<1>2. /\ scopes' \in Seq(Scope) /\ GoodScopes(scopes', FALSE) /\ DOMAIN scopes' = 1..Len(scopes')
      /\ Len(scopes') <= max_depth /\ pc' \in {"body", "done"}
      /\ status' \in bencode_status /\ consumed' \in 0..size
  BY <1>0, <1>1, LenProperties
  DEF GoodScopes, IInv, TypeOK, bencode_status, CursorInBounds
<1>3. TypeOK'
  BY <1>2, <1>0 DEF IInv, TypeOK
<1>4. ControlInv' /\ NumberInv'
  BY <1>1 DEF IInv, ControlInv, NumberInv, InCallback
<1>5. ScopeInv' /\ KeysAscend'
  BY <1>2 DEF GoodScopes, ScopeInv, KeysAscend
<1>6. DepthBounded' /\ CursorInBounds'
  BY <1>0, <1>2 DEF IInv, DepthBounded, CursorInBounds
<1>7. NumbersInRange'
  BY DEF IInv, NumbersInRange, MaxMagnitude
<1> QED BY <1>3, <1>4, <1>5, <1>6, <1>7 DEF IInv

\* The return of a callback, with any status it may return.
LEMMA ResumeInv ==
  ASSUME IInv, NEW st \in {"OK"} \cup CallbackErrors, Resume(st)
  PROVE  IInv'
<1>1. st \in bencode_status /\ p \in 0..size
  BY CallbackAssumption, InputFacts DEF bencode_status, IInv, TypeOK, CursorInBounds
<1>2. CASE st = "OK"
  BY <1>2, ProceedInv DEF Resume
<1>3. CASE st # "OK"
  BY <1>1, <1>3, FailInv DEF Resume
<1> QED BY <1>2, <1>3

---------------------------------------------------------------------------
(* The invariant.                                                          *)

\* Every call starts in a state that satisfies the invariant.
LEMMA EntryInv == AtEntry /\ call \in CallType => IInv
<1> SUFFICES ASSUME AtEntry, call \in CallType PROVE IInv
  OBVIOUS
<1> USE DEF AtEntry
<1>1. call \in CallType /\ call.input \in Seq(Byte)
  BY DEF CallType, Bytes
<1>2. size \in Nat
  BY <1>1, LenProperties DEF size
<1>3. TypeOK
  <2>1. NoNumber \in Number
    BY DEF NoNumber, Number
  <2>2. <<>> \in Seq(Scope) /\ <<>> \in Seq(EventType)
    BY EmptySeq
  <2> QED BY <1>1, <2>1, <2>2 DEF TypeOK, bencode_status
<1>4. DOMAIN scopes = {} /\ Len(scopes) = 0 /\ DOMAIN events = {}
  OBVIOUS
<1>5. ControlInv /\ NumberInv /\ ScopeInv
  BY <1>4 DEF ControlInv, NumberInv, ScopeInv, InCallback
<1>6. DepthBounded /\ CursorInBounds /\ NumbersInRange /\ KeysAscend
  BY <1>2, <1>4, DepthAssumption
  DEF DepthBounded, CursorInBounds, NumbersInRange, KeysAscend, NoNumber
<1> QED BY <1>3, <1>5, <1>6 DEF IInv

LEMMA InitInv == Init => IInv
BY EntryInv, CallsAssumption DEF Init

\* The clamp at the entry is what keeps the scope array in bounds.
LEMMA StartInv ==
  ASSUME IInv, Start
  PROVE  IInv'
<1>1. ClampDepth(call.max_depth) \in 0..INTERNAL_MAX_DEPTH
  BY DepthAssumption DEF IInv, TypeOK, CallType, ClampDepth
<1>2. size' = size /\ size \in Nat /\ scopes = <<>> /\ events = <<>>
  BY InputFacts DEF Start, size, IInv, ControlInv
<1>3. /\ max_depth' \in Nat /\ max_depth' <= INTERNAL_MAX_DEPTH /\ pc' = "value"
      /\ UNCHANGED <<call, p, scopes, num, events, callback_status, status, consumed>>
  BY <1>1, DepthAssumption DEF Start
<1>4. TypeOK' /\ NumberInv'
  BY <1>3 DEF IInv, TypeOK, NumberInv
<1>5. ControlInv'
  <2>1. p = 0 /\ p < size /\ num = NoNumber
    BY <1>2 DEF Start, IInv, ControlInv
  <2>2. p' < size'
    BY <1>2, <1>3, <2>1
  <2> QED BY <1>2, <1>3, <2>1, <2>2 DEF ControlInv, InCallback
<1>6. ScopeInv' /\ KeysAscend' /\ NumbersInRange'
  BY <1>3 DEF IInv, ScopeInv, KeysAscend, NumbersInRange, MaxMagnitude
<1>7. DepthBounded' /\ CursorInBounds'
  <2>1. Len(scopes') = 0
    BY <1>2, <1>3
  <2> QED BY <1>2, <1>3, <2>1 DEF IInv, DepthBounded, CursorInBounds
<1> QED BY <1>4, <1>5, <1>6, <1>7 DEF IInv

\* The entry refuses its arguments.
LEMMA RejectArgumentsInv ==
  ASSUME IInv, RejectArguments
  PROVE  IInv'
<1>1. /\ pc = "entry" /\ pc' = "done" /\ status' \in bencode_status
      /\ UNCHANGED <<call, p, max_depth, scopes, num, events, callback_status, consumed>>
  BY DEF RejectArguments, bencode_status
<1>2. size' = size
  BY <1>1 DEF size
<1>3. TypeOK' /\ ControlInv' /\ NumberInv'
  BY <1>1 DEF IInv, TypeOK, ControlInv, NumberInv, InCallback
<1>4. ScopeInv' /\ KeysAscend'
  BY <1>1 DEF IInv, ScopeInv, KeysAscend
<1>5. DepthBounded' /\ CursorInBounds' /\ NumbersInRange'
  BY <1>1, <1>2 DEF IInv, DepthBounded, CursorInBounds, NumbersInRange, MaxMagnitude
<1> QED BY <1>3, <1>4, <1>5 DEF IInv

\* One activation hands the error up.
LEMMA HandUpInv ==
  ASSUME IInv, HandUp
  PROVE  IInv'
<1>1. /\ pc = "unwind" /\ pc' = "unwind" /\ scopes # <<>> /\ scopes' = Front(scopes)
      /\ UNCHANGED <<call, p, max_depth, num, events, callback_status, status, consumed>>
  BY DEF HandUp
<1>2. /\ GoodScopes(scopes', TRUE) /\ scopes' \in Seq(Scope) /\ DOMAIN scopes' = 1..Len(scopes')
      /\ Len(scopes') \in Nat /\ Len(scopes') = Len(scopes) - 1 /\ Len(scopes) \in Nat
  <2>1. GoodScopes(Front(scopes), TRUE) /\ Len(Front(scopes)) = Len(scopes) - 1
    BY <1>1, FrontGood
  <2>2. scopes' \in Seq(Scope)
    BY <1>1, <2>1 DEF GoodScopes
  <2> QED BY <1>1, <2>1, <2>2, LenProperties, ScopeFacts
<1>3. size' = size
  BY <1>1 DEF size
<1>4. TypeOK' /\ ControlInv' /\ NumberInv'
  BY <1>1, <1>2 DEF IInv, TypeOK, ControlInv, NumberInv, InCallback
<1>5. ScopeInv' /\ KeysAscend'
  BY <1>2 DEF GoodScopes, ScopeInv, KeysAscend
<1>6. DepthBounded'
  BY <1>1, <1>2 DEF IInv, TypeOK, DepthBounded
<1>7. CursorInBounds' /\ NumbersInRange'
  BY <1>1, <1>3 DEF IInv, CursorInBounds, NumbersInRange, MaxMagnitude
<1> QED BY <1>4, <1>5, <1>6, <1>7 DEF IInv

\* The entry hands it to the caller.
LEMMA ReportErrorInv ==
  ASSUME IInv, ReportError
  PROVE  IInv'
<1>1. /\ pc = "unwind" /\ pc' = "done" /\ scopes = <<>> /\ consumed' = p
      /\ UNCHANGED <<call, p, max_depth, scopes, num, events, callback_status, status>>
  BY DEF ReportError
<1>2. size' = size
  BY <1>1 DEF size
<1>3. TypeOK' /\ ControlInv' /\ NumberInv'
  BY <1>1 DEF IInv, TypeOK, ControlInv, NumberInv, InCallback
<1>4. ScopeInv' /\ KeysAscend'
  BY <1>1 DEF IInv, ScopeInv, KeysAscend
<1>5. DepthBounded' /\ CursorInBounds' /\ NumbersInRange'
  BY <1>1, <1>2 DEF IInv, DepthBounded, CursorInBounds, NumbersInRange, MaxMagnitude
<1> QED BY <1>3, <1>4, <1>5 DEF IInv

\* Every step of the parser and every return of a callback preserves IInv.
LEMMA NextInv ==
  ASSUME IInv, [Next]_vars
  PROVE  IInv'
<1>0. p \in 0..size /\ 0 \in 0..size
  BY InputFacts DEF IInv, TypeOK, CursorInBounds
<1>1. CASE RejectArguments
  BY <1>1, RejectArgumentsInv
<1>2. CASE Start
  BY <1>2, StartInv
<1>3. CASE Accumulate
  BY <1>3, AccumulateInv
<1>4. CASE FinishInt
  BY <1>4, FinishIntInv
<1>5. CASE FinishString
  BY <1>5, FinishStringInv
<1>6. CASE FinishKey
  BY <1>6, FinishKeyInv
<1>7. CASE parse_int
  BY <1>7, ParseIntInv
<1>8. CASE parse_string
  BY <1>8, ParseStringInv
<1>9. CASE parse_list
  BY <1>9, OpenInv DEF parse_list, Hooks
<1>10. CASE parse_dict
  BY <1>10, OpenInv DEF parse_dict, Hooks
<1>11. CASE UnexpectedByte
  BY <1>0, <1>11, RejectInv DEF UnexpectedByte, bencode_status
<1>12. CASE BodyTruncated
  BY <1>0, <1>12, RejectInv DEF BodyTruncated, bencode_status
<1>13. CASE CloseList
  BY <1>13, CloseInv DEF CloseList, Hooks
<1>14. CASE CloseDict
  <2>1. CASE Close("on_dict_end")
    BY <1>14, <2>1, CloseInv DEF CloseDict, Hooks
  <2>2. CASE Reject("DICT_MISSING_VALUE", p)
    BY <1>0, <2>2, RejectInv DEF bencode_status
  <2> QED BY <1>14, <2>1, <2>2 DEF CloseDict
<1>15. CASE parse_dict_key
  BY <1>15, ParseDictKeyInv
<1>16. CASE SkipCallback
  BY <1>16, ResumeInv DEF SkipCallback
<1>17. CASE Callback
  BY <1>17, ResumeInv DEF Callback
<1>18. CASE HandUp
  BY <1>18, HandUpInv
<1>19. CASE ReportError
  BY <1>19, ReportErrorInv
<1>20. CASE UNCHANGED vars
  <2>1. size' = size
    BY <1>20 DEF vars, size
  <2>2. TypeOK' /\ ControlInv' /\ NumberInv'
    BY <1>20, <2>1 DEF IInv, TypeOK, ControlInv, NumberInv, InCallback, vars,
                      MaxMagnitude, Last
  <2>3. ScopeInv' /\ KeysAscend'
    BY <1>20 DEF IInv, ScopeInv, KeysAscend, vars
  <2>4. DepthBounded' /\ CursorInBounds' /\ NumbersInRange'
    BY <1>20, <2>1 DEF IInv, DepthBounded, CursorInBounds, NumbersInRange,
                      vars, MaxMagnitude
  <2> QED BY <2>2, <2>3, <2>4 DEF IInv
<1> QED BY <1>1, <1>2, <1>3, <1>4, <1>5, <1>6, <1>7, <1>8, <1>9, <1>10, <1>11,
           <1>12, <1>13, <1>14, <1>15, <1>16, <1>17, <1>18, <1>19, <1>20 DEF Next, Parse

\* IInv holds in every reachable state of every call.
THEOREM Invariance == Spec => []IInv
<1>1. Init => IInv
  BY InitInv
<1>2. IInv /\ [Next]_vars => IInv'
  BY NextInv
<1> QED BY <1>1, <1>2, PTL DEF Spec

\* The types of the variables, for every input and every integer width.
THEOREM TypeCorrect == Spec => []TypeOK
<1>1. IInv => TypeOK
  BY DEF IInv
<1> QED BY <1>1, Invariance, PTL

\* push_scope never writes past the scope array, whatever max_depth the
\* caller passes and however deep the input nests.
THEOREM DepthIsBounded == Spec => []DepthBounded
<1>1. IInv => DepthBounded
  BY DEF IInv
<1> QED BY <1>1, Invariance, PTL

\* The cursor and the reported offset never pass the end of the input.
THEOREM CursorStaysInBounds == Spec => []CursorInBounds
<1>1. IInv => CursorInBounds
  BY DEF IInv
<1> QED BY <1>1, Invariance, PTL

\* No accumulated magnitude exceeds its limit, and on_int is only called with
\* an int64_t, although the arithmetic wraps.
THEOREM NumbersStayInRange == Spec => []NumbersInRange
<1>1. IInv => NumbersInRange
  BY DEF IInv
<1> QED BY <1>1, Invariance, PTL

\* The keys of every open dict are pairwise ascending, although the code
\* compares each with its predecessor only.
THEOREM KeysAreAscending == Spec => []KeysAscend
<1>1. IInv => KeysAscend
  BY DEF IInv
<1> QED BY <1>1, Invariance, PTL

---------------------------------------------------------------------------
(* Termination, as a variant that every step lowers.                       *)

\* The ways a step moves on: it ends the parse or finds an error, it consumes
\* input, it goes on after a callback, or it is the call itself.  The steps
\* that hand an error up are HandUp and ReportError.
Parsing   == pc \notin {"unwind", "done"}
Stops     == Parsing /\ pc' \in {"unwind", "done"} /\ p <= p' /\ scopes' = scopes
Consumes  == /\ Parsing /\ p' > p /\ Len(scopes') \in 0..(Len(scopes) + 1)
             /\ pc' \in {"digits", "open_callback", "value_callback"}
Continues == InCallback /\ pc' = "body" /\ p' = p /\ Len(scopes') = Len(scopes)
Begins    == pc = "entry" /\ pc' = "value" /\ p' = p /\ scopes' = scopes

\* An error stops the parse without moving the cursor back.
LEMMA RejectMovesOn ==
  ASSUME NEW st, NEW q \in Nat, q >= p, Parsing, Reject(st, q)
  PROVE  Stops
BY DEF Reject, Fail, Stops

\* Whatever is recognised lies after the cursor, and opens at most one scope.
LEMMA RecogniseMovesOn ==
  ASSUME NEW e, NEW completes, NEW sc, NEW q \in Nat, q > p, Parsing,
         Len(sc) \in 0..(Len(scopes) + 1), Recognise(e, completes, sc, q)
  PROVE  Consumes
BY DEF Recognise, Consumes

\* A number's first digit is consumed or refused.
LEMMA ParseUnsignedMovesOn ==
  ASSUME p \in Nat, Len(scopes) \in Nat, NEW use, NEW negative \in BOOLEAN,
         NEW q \in Nat, q >= p, Parsing, parse_unsigned(use, negative, q)
  PROVE  Stops \/ Consumes
<1>1. CASE LeadingZero(q)
  BY <1>1, RejectMovesOn DEF parse_unsigned
<1>2. CASE ~LeadingZero(q)
  BY <1>2 DEF parse_unsigned, Consumes
<1> QED BY <1>1, <1>2

\* A callback's return goes on, ends the parse or is an error.
LEMMA ResumeMovesOn ==
  ASSUME IInv, NEW st, Resume(st)
  PROVE  Stops \/ Continues
<1>1. Parsing /\ p \in Nat /\ p <= p
  BY DEF Resume, InCallback, Parsing, IInv, TypeOK
<1>2. CASE st # "OK"
  BY <1>1, <1>2 DEF Resume, Fail, Stops
<1>3. CASE st = "OK" /\ pc = "value_callback" /\ scopes # <<>>
  BY <1>3, ValueDoneGood DEF Resume, Proceed, Continues
<1>4. CASE st = "OK" /\ ~(pc = "value_callback" /\ scopes # <<>>)
  BY <1>1, <1>4 DEF Resume, Proceed, Continues, Stops
<1> QED BY <1>2, <1>3, <1>4

\* Every step of the parser is of one of these kinds.
LEMMA EveryStepMovesOn ==
  ASSUME IInv, Next
  PROVE  Stops \/ Consumes \/ Continues \/ Begins \/ HandUp \/ ReportError
<1>0. /\ p \in Nat /\ p >= p /\ p + 1 \in Nat /\ p + 1 > p /\ p + 1 >= p
      /\ Len(scopes) \in Nat /\ Len(scopes) \in 0..(Len(scopes) + 1)
  BY ScopeFacts DEF IInv, TypeOK
<1>1. CASE RejectArguments
  BY <1>0, <1>1 DEF RejectArguments, Parsing, Stops
<1>2. CASE Start
  BY <1>2 DEF Start, Begins
<1>3. CASE Accumulate
  <2>1. Parsing
    BY <1>3 DEF Accumulate, Parsing
  <2> QED BY <1>0, <1>3, <2>1, RejectMovesOn DEF Accumulate, Consumes
<1>4. CASE FinishInt
  <2>1. Parsing
    BY <1>4 DEF FinishInt, DigitsEnd, Parsing
  <2> QED BY <1>0, <1>4, <2>1, RejectMovesOn, RecogniseMovesOn DEF FinishInt
<1>5. CASE FinishString \/ FinishKey
  <2> DEFINE q   == p + 1 + num.acc
             key == Slice(p + 1, num.acc)
             ord == KeyOrder(Last(scopes).last_key, key)
  <2>1. Parsing /\ num.acc \in Nat
    BY <1>5, DigitsFacts DEF FinishString, FinishKey, DigitsEnd, Parsing
  <2>2. q \in Nat /\ q > p /\ q >= p
    BY <1>0, <2>1
  <2>3. \/ \E st : Reject(st, p) \/ Reject(st, p + 1) \/ Reject(st, q)
        \/ \E e : Recognise(e, TRUE, scopes, q)
        \/ /\ DigitsEnd("key") /\ Terminated(Colon) = "OK" /\ Payload(num.acc, p + 1)
           /\ ord = "OK" /\ \E e : Recognise(e, FALSE, AddKey(scopes, key), q)
    <3>1. CASE FinishString
      BY <3>1 DEF FinishString
    <3>2. CASE FinishKey
      BY <3>2 DEF FinishKey
    <3> QED BY <1>5, <3>1, <3>2
  <2>4. CASE \E st : Reject(st, p) \/ Reject(st, p + 1) \/ Reject(st, q)
    BY <1>0, <2>1, <2>2, <2>4, RejectMovesOn
  <2>5. CASE \E e : Recognise(e, TRUE, scopes, q)
    BY <1>0, <2>1, <2>2, <2>5, RecogniseMovesOn
  <2>6. CASE /\ DigitsEnd("key") /\ Terminated(Colon) = "OK" /\ Payload(num.acc, p + 1)
             /\ ord = "OK" /\ \E e : Recognise(e, FALSE, AddKey(scopes, key), q)
    <3>1. key \in Bytes
      <4>1. p + 1 \in 0..size /\ size \in Nat
        BY <2>6, TerminatedFacts, InputFacts DEF IInv
      <4>2. num.acc <= size - (p + 1)
        BY <2>6 DEF Payload
      <4>3. p + 1 \in Nat /\ p + 1 + num.acc \in 0..size
        BY <2>1, <4>1, <4>2
      <4> QED BY <2>1, <4>3, SliceFacts DEF IInv
    <3>2. pc # "value_callback" /\ scopes # <<>> /\ Last(scopes).expecting_key
      BY <2>6, DigitsFacts DEF DigitsEnd
    <3>3. Len(AddKey(scopes, key)) = Len(scopes)
      BY <2>6, <3>1, <3>2, AddKeyGood
    <3> HIDE DEF q, key, ord
    <3> QED BY <1>0, <2>1, <2>2, <2>6, <3>3, RecogniseMovesOn
  <2> QED BY <2>3, <2>4, <2>5, <2>6
<1>6. ExpectValue \/ InBody => Parsing
  BY DEF ExpectValue, InBody, Parsing
<1>7. CASE parse_int
  <2> DEFINE negative == ~at_end(p + 1) /\ peek(p + 1) = Minus
             q == IF negative THEN p + 2 ELSE p + 1
  <2>1. q \in Nat /\ q >= p /\ negative \in BOOLEAN /\ Parsing
    BY <1>0, <1>6, <1>7 DEF parse_int
  <2>2. \/ Reject("TRUNCATED", q) \/ Reject("INTEGER_FORMAT", q)
        \/ parse_unsigned("int", negative, q)
    BY <1>7 DEF parse_int
  <2> HIDE DEF q, negative
  <2> QED BY <1>0, <2>1, <2>2, RejectMovesOn, ParseUnsignedMovesOn
<1>8. CASE parse_string
  BY <1>0, <1>6, <1>8, ParseUnsignedMovesOn DEF parse_string
<1>9. CASE parse_list \/ parse_dict
  <2>1. Parsing /\ \E is_dict \in BOOLEAN : \E hook : Open(is_dict, hook)
    BY <1>6, <1>9 DEF parse_list, parse_dict
  <2>2. ASSUME NEW is_dict \in BOOLEAN
        PROVE  Len(Append(scopes, NewScope(is_dict))) = Len(scopes) + 1
    BY ScopeFacts, AppendProperties DEF GoodScopes, NewScope
  <2>3. PICK is_dict \in BOOLEAN : \E hook : Open(is_dict, hook)
    BY <2>1
  <2>4. PICK hook : Open(is_dict, hook)
    BY <2>3
  <2>5. Len(Append(scopes, NewScope(is_dict))) \in 0..(Len(scopes) + 1)
    BY <1>0, <2>2
  <2> QED BY <1>0, <2>1, <2>4, <2>5, RejectMovesOn, RecogniseMovesOn DEF Open
<1>10. CASE UnexpectedByte
  BY <1>0, <1>6, <1>10, RejectMovesOn DEF UnexpectedByte
<1>11. CASE BodyTruncated
  <2>1. Parsing
    BY <1>11 DEF BodyTruncated, Parsing
  <2> QED BY <1>0, <1>11, <2>1, RejectMovesOn DEF BodyTruncated
<1>12. CASE CloseList \/ CloseDict
  <2>1. Parsing /\ scopes # <<>>
    BY <1>6, <1>12 DEF CloseList, CloseDict, InBody, IInv, ControlInv
  <2>2. Reject("DICT_MISSING_VALUE", p) \/ \E hook : Close(hook)
    BY <1>12 DEF CloseList, CloseDict
  <2>3. Len(Front(scopes)) \in Nat /\ Len(Front(scopes)) = Len(scopes) - 1
    BY <2>1, FrontGood
  <2>4. Len(Front(scopes)) \in 0..(Len(scopes) + 1)
    BY <1>0, <2>3
  <2> QED BY <1>0, <2>1, <2>2, <2>4, RejectMovesOn, RecogniseMovesOn DEF Close
<1>13. CASE parse_dict_key
  <2>1. Parsing
    BY <1>6, <1>13 DEF parse_dict_key
  <2>2. Reject("DICT_BAD_KEY", p) \/ parse_unsigned("key", FALSE, p)
    BY <1>13 DEF parse_dict_key
  <2> QED BY <1>0, <2>1, <2>2, RejectMovesOn, ParseUnsignedMovesOn
<1>14. CASE SkipCallback \/ Callback
  BY <1>14, ResumeMovesOn DEF SkipCallback, Callback
<1> QED BY <1>1, <1>2, <1>3, <1>4, <1>5, <1>7, <1>8, <1>9, <1>10, <1>11,
           <1>12, <1>13, <1>14 DEF Next, Parse

\* Whatever the input and whatever the callbacks answer, every step lowers
\* Variant, a natural number that is at most three times the input's size
\* plus 5 at the call: parsing, and handing up an error through every open
\* container, take linearly many steps and always end.
THEOREM ParsingProgresses == Spec => Progress
<1>1. ASSUME IInv, IInv', Next
      PROVE  0 <= Variant' /\ Variant' < Variant
  <2>1. /\ size \in Nat /\ size' = size /\ p \in Nat /\ p' \in Nat
        /\ p <= size /\ p' <= size
    <3>1. call' = call
      BY <1>1 DEF Next, Parse, RejectArguments, Start, Accumulate, FinishInt,
           FinishString, FinishKey, parse_int, parse_string, parse_list, parse_dict,
           UnexpectedByte, BodyTruncated, CloseList, CloseDict, parse_dict_key,
           SkipCallback, Callback, Resume, Reject, Recognise, parse_unsigned, Open,
           Close, HandUp, ReportError
    <3>2. size' = size
      BY <3>1 DEF size
    <3> QED BY <1>1, <3>2, InputFacts DEF IInv, TypeOK, CursorInBounds
  <2>2. Len(scopes) \in Nat /\ Len(scopes') \in Nat
    BY <1>1, LenProperties DEF IInv, TypeOK
  <2>3. /\ pc = "entry" => Rank = 5
        /\ InCallback => Rank = 3
        /\ Parsing => Rank \in 2..5
        /\ pc = "unwind" => Rank = 1
    BY <1>1 DEF Rank, InCallback, Parsing, IInv, TypeOK
  <2>4. /\ pc' = "value" => Rank' = 4
        /\ pc' \in {"digits", "open_callback", "value_callback"} => Rank' \in 2..3
        /\ pc' = "body" => Rank' = 2
        /\ pc' \in {"unwind", "done"} => Rank' \in 0..1
        /\ pc' = "unwind" => Rank' = 1
        /\ pc' = "done" => Rank' = 0
    BY DEF Rank, InCallback
  <2>5. CASE Stops
    BY <2>1, <2>2, <2>3, <2>4, <2>5 DEF Stops, Variant
  <2>6. CASE Consumes
    <3>1. /\ p < p' /\ Len(scopes') <= Len(scopes) + 1
          /\ Rank \in 2..5 /\ Rank' \in 2..3
      BY <2>2, <2>3, <2>4, <2>6 DEF Consumes
    <3>2. \A s, a, b, m, n \in Nat, r \in 2..5, t \in 2..3 :
            a < b /\ b <= s /\ n <= m + 1 =>
              /\ 0 <= 3 * (s - b) + t + n
              /\ 3 * (s - b) + t + n < 3 * (s - a) + r + m
      OBVIOUS
    <3> QED BY <2>1, <2>2, <3>1, <3>2 DEF Variant
  <2>7. CASE Continues
    BY <2>1, <2>2, <2>3, <2>4, <2>7 DEF Continues, Variant
  <2>8. CASE Begins
    BY <2>1, <2>2, <2>3, <2>4, <2>8 DEF Begins, Variant
  <2>9. CASE HandUp
    <3>1. pc = "unwind" /\ pc' = "unwind" /\ p' = p /\ Len(scopes') = Len(scopes) - 1
      BY <1>1, <2>9, FrontGood DEF HandUp
    <3> QED BY <2>1, <2>2, <2>3, <2>4, <3>1 DEF Variant
  <2>10. CASE ReportError
    <3>1. pc = "unwind" /\ pc' = "done" /\ p' = p /\ scopes' = scopes
      BY <2>10 DEF ReportError
    <3> QED BY <2>1, <2>2, <2>3, <2>4, <3>1 DEF Variant
  <2> QED BY <1>1, <2>5, <2>6, <2>7, <2>8, <2>9, <2>10, EveryStepMovesOn
<1>2. IInv /\ IInv' /\ [Next]_vars => [0 <= Variant' /\ Variant' < Variant]_vars
  BY <1>1
<1> QED BY <1>2, Invariance, PTL DEF Spec, Progress

---------------------------------------------------------------------------
(* What the consumer of the events is told: the calls it receives follow   *)
(* the protocol of the callback table (the PROPERTY ImplementsProtocol),   *)
(* and they spell the bytes that were read (the INVARIANT RoundTrip).      *)

\* The frame the consumer sees for a scope.
Frame(sc, key_next) ==
  [dict |-> sc.is_dict, key_next |-> key_next, last |-> sc.last_key]

ConsumerFrame == [dict : BOOLEAN, key_next : BOOLEAN, last : Seq(Bytes)]

\* OpenFrames as an operator of the scopes and of whether a complete value has
\* just been reported.
FramesOf(sc, completes) ==
  [i \in DOMAIN sc |->
     IF completes /\ i = Len(sc) THEN Frame(sc[i], sc[i].is_dict)
                                 ELSE Frame(sc[i], sc[i].expecting_key)]

\* The containers the consumer has seen opened are the open scopes, one for
\* one; the innermost wants its next key already while the callback for a
\* value in it is in flight.
LEMMA ConsumerFrameFacts ==
  ASSUME NEW sc \in Seq(Scope), NEW completes \in BOOLEAN
  PROVE  /\ FramesOf(sc, completes) \in Seq(ConsumerFrame)
         /\ Len(FramesOf(sc, completes)) = Len(sc) /\ Len(sc) \in Nat
         /\ \A i \in 1..Len(sc) :
              FramesOf(sc, completes)[i] =
                IF completes /\ i = Len(sc) THEN Frame(sc[i], sc[i].is_dict)
                                            ELSE Frame(sc[i], sc[i].expecting_key)
         /\ FramesOf(sc, completes) = <<>> <=> sc = <<>>
<1>1. Len(sc) \in Nat /\ DOMAIN sc = 1..Len(sc)
  BY LenProperties
<1>2. PICK n \in Nat : n = Len(sc)
  BY <1>1
<1>3. \A i \in 1..n : sc[i] \in Scope
  BY <1>1, <1>2, ElementOfSeq
<1>4. PICK f : f = FramesOf(sc, completes)
  OBVIOUS
<1>5. f = [i \in 1..n |-> IF completes /\ i = n THEN Frame(sc[i], sc[i].is_dict)
                         ELSE Frame(sc[i], sc[i].expecting_key)]
  BY <1>1, <1>2, <1>4 DEF FramesOf
<1>6. \A i \in 1..n : f[i] \in ConsumerFrame
  BY <1>3, <1>5 DEF Frame, ConsumerFrame, Scope
<1>7. f \in [1..n -> ConsumerFrame]
  BY <1>5, <1>6
<1>8. f \in Seq(ConsumerFrame) /\ Len(f) = n
  BY <1>2, <1>7
<1>9. f = <<>> <=> sc = <<>>
  BY <1>1, <1>2, <1>8, EmptySeq
<1> QED BY <1>1, <1>2, <1>4, <1>5, <1>8, <1>9

\* OpenFrames as FramesOf, in a state ...
LEMMA OpenFramesNow ==
  ASSUME pc # "unwind"
  PROVE  OpenFrames = FramesOf(scopes, pc = "value_callback")
BY DEF OpenFrames, FramesOf, Frame

\* ... and in its successor.
LEMMA OpenFramesNext ==
  ASSUME pc' # "unwind"
  PROVE  OpenFrames' = FramesOf(scopes', pc' = "value_callback")
BY DEF OpenFrames, FramesOf, Frame

---------------------------------------------------------------------------
(* Steps the consumer does not see.                                        *)

\* Nothing changes for the consumer while the parser moves between callbacks.
LEMMA SilentStep ==
  ASSUME pc \notin {"unwind", "done"}, pc' \notin {"unwind", "done"}, UNCHANGED events, OpenFrames' = OpenFrames
  PROVE  UNCHANGED Protocol!protocol_vars
BY DEF Protocol!protocol_vars

\* Steps between two callbacks are silent.
LEMMA SilentWithinValue ==
  ASSUME pc \notin {"unwind", "done", "value_callback"}, pc' \notin {"unwind", "done", "value_callback"},
         UNCHANGED <<events, scopes>>
  PROVE  UNCHANGED Protocol!protocol_vars
<1>1. OpenFrames' = OpenFrames
  BY OpenFramesNow, OpenFramesNext
<1> QED BY <1>1, SilentStep

\* A parent learns of a complete value after its callback has returned; the
\* consumer has seen it already.
LEMMA SilentValueDone ==
  ASSUME IInv, pc = "value_callback", scopes # <<>>, pc' = "body",
         scopes' = ValueDone(scopes), UNCHANGED events
  PROVE  UNCHANGED Protocol!protocol_vars
<1> DEFINE n == Len(scopes)
           f == FramesOf(scopes, TRUE)
           g == FramesOf(ValueDone(scopes), FALSE)
<1>1. /\ scopes \in Seq(Scope) /\ n \in Nat
      /\ Last(scopes) = scopes[n] /\ Last(scopes) \in Scope
  BY ScopeFacts DEF GoodScopes
<1>2. /\ ValueDone(scopes) \in Seq(Scope) /\ Len(ValueDone(scopes)) = n
      /\ \A i \in 1..n : ValueDone(scopes)[i] =
           IF i = n THEN [Last(scopes) EXCEPT !.expecting_key = Last(scopes).is_dict]
           ELSE scopes[i]
  BY ValueDoneGood DEF GoodScopes
<1>3. /\ f \in Seq(ConsumerFrame) /\ Len(f) = n
      /\ \A i \in 1..n : f[i] = IF i = n THEN Frame(scopes[i], scopes[i].is_dict)
                                ELSE Frame(scopes[i], scopes[i].expecting_key)
  BY <1>1, ConsumerFrameFacts
<1>4. /\ g \in Seq(ConsumerFrame) /\ Len(g) = n
      /\ \A i \in 1..n : g[i] = Frame(ValueDone(scopes)[i], ValueDone(scopes)[i].expecting_key)
  BY <1>2, ConsumerFrameFacts
<1>5. ASSUME NEW i \in 1..n
      PROVE  f[i] = g[i]
  <2>1. CASE i = n
    <3>1. PICK t : t = [Last(scopes) EXCEPT !.expecting_key = Last(scopes).is_dict]
      OBVIOUS
    <3>2. /\ t.expecting_key = Last(scopes).is_dict /\ t.is_dict = Last(scopes).is_dict
          /\ t.last_key = Last(scopes).last_key
      BY <1>1, <3>1 DEF Scope
    <3>3. g[i] = Frame(t, t.expecting_key)
      BY <1>2, <1>4, <2>1, <3>1
    <3>4. f[i] = Frame(Last(scopes), Last(scopes).is_dict)
      BY <1>1, <1>3, <2>1
    <3> QED BY <3>2, <3>3, <3>4 DEF Frame
  <2>2. CASE i # n
    BY <1>2, <1>3, <1>4, <2>2
  <2> QED BY <2>1, <2>2
<1>6. f = g
  <2> HIDE DEF f, g, n
  <2> QED BY <1>3, <1>4, <1>5, SeqEqual
<1>7. OpenFrames = f /\ OpenFrames' = g
  BY OpenFramesNow, OpenFramesNext
<1> QED BY <1>6, <1>7, SilentStep

---------------------------------------------------------------------------
(* Returning.                                                              *)

\* An error is the end of the report, wherever it is found.
LEMMA FailReturns ==
  ASSUME pc \notin {"unwind", "done"}, NEW st \in bencode_status \ {"OK"}, NEW q, Fail(st, q),
         UNCHANGED events
  PROVE  Protocol!Return
<1>1. OpenFrames' = <<>> /\ pc' = "unwind"
  BY EmptySeq DEF OpenFrames, Fail
<1> QED BY <1>1 DEF Protocol!Return, Fail, bencode_status, Protocol!bencode_status

\* The return after the callback for the root value.
LEMMA OKReturns ==
  ASSUME IInv, pc = "value_callback", scopes = <<>>, pc' = "done", status' = "OK",
         scopes' = scopes, UNCHANGED events
  PROVE  Protocol!Return
<1>1. OpenFrames = <<>> /\ OpenFrames' = <<>>
  BY DEF OpenFrames
<1>2. events # <<>>
  BY DEF IInv, ControlInv, InCallback
<1> QED BY <1>1, <1>2 DEF Protocol!Return, Protocol!bencode_status

---------------------------------------------------------------------------
(* The frames of the scopes a recogniser leaves.                           *)

\* Reporting a value completes it in the innermost frame.
LEMMA CompletedFrames ==
  ASSUME NEW sc \in Seq(Scope)
  PROVE  Protocol!Completed(FramesOf(sc, FALSE)) = FramesOf(sc, TRUE)
<1> DEFINE f == FramesOf(sc, FALSE)
           g == FramesOf(sc, TRUE)
           c == Protocol!Completed(f)
<1>1. PICK n \in Nat : n = Len(sc)
  BY LenProperties
<1>2. /\ f \in Seq(ConsumerFrame) /\ Len(f) = n /\ DOMAIN f = 1..n
      /\ \A i \in 1..n : f[i] = Frame(sc[i], sc[i].expecting_key)
  BY <1>1, ConsumerFrameFacts, LenProperties
<1>3. /\ g \in Seq(ConsumerFrame) /\ Len(g) = n
      /\ \A i \in 1..n : g[i] = IF i = n THEN Frame(sc[i], sc[i].is_dict)
                                ELSE Frame(sc[i], sc[i].expecting_key)
  BY <1>1, ConsumerFrameFacts
<1> HIDE DEF f, g
<1>4. c = [i \in 1..n |-> IF i = n THEN [f[i] EXCEPT !.key_next = f[i].dict] ELSE f[i]]
  BY <1>2 DEF Protocol!Completed
<1>5. ASSUME NEW i \in 1..n
      PROVE  c[i] = g[i]
  <2>1. CASE i = n
    <3>1. c[i] = [f[i] EXCEPT !.key_next = f[i].dict]
      BY <1>4, <2>1
    <3>2. f[i] = Frame(sc[i], sc[i].expecting_key)
      BY <1>2
    <3>3. g[i] = Frame(sc[i], sc[i].is_dict)
      BY <1>3, <2>1
    <3> QED BY <3>1, <3>2, <3>3 DEF Frame
  <2>2. CASE i # n
    BY <1>2, <1>3, <1>4, <2>2
  <2> QED BY <2>1, <2>2
<1>6. c \in Seq(ConsumerFrame) /\ Len(c) = n
  <2>1. \A i \in 1..n : c[i] \in ConsumerFrame
    BY <1>3, <1>5, ElementOfSeq
  <2>2. c \in [1..n -> ConsumerFrame]
    BY <1>4, <2>1
  <2> HIDE DEF c
  <2> QED BY <1>1, <2>2
<1>7. c = g
  <2> HIDE DEF c
  <2> QED BY <1>3, <1>5, <1>6, SeqEqual
<1> QED BY <1>7 DEF f, g

\* pop_scope ends the innermost frame.
LEMMA FrontFrames ==
  ASSUME IInv, scopes # <<>>
  PROVE  Protocol!Front(FramesOf(scopes, FALSE)) = FramesOf(Front(scopes), FALSE)
<1> DEFINE f == FramesOf(scopes, FALSE)
           g == FramesOf(Front(scopes), FALSE)
<1>1. PICK n \in Nat : Len(scopes) = n + 1
  <2>1. Len(Front(scopes)) \in Nat /\ Len(Front(scopes)) = Len(scopes) - 1
    BY FrontGood
  <2>2. Len(scopes) \in Nat
    BY ScopeFacts
  <2> QED BY <2>1, <2>2
<1>2. scopes \in Seq(Scope)
  BY ScopeFacts DEF GoodScopes
<1>3. /\ Front(scopes) \in Seq(Scope) /\ Len(Front(scopes)) = n
      /\ \A i \in 1..n : Front(scopes)[i] = scopes[i]
  BY <1>1, FrontGood DEF GoodScopes
<1>4. /\ f \in Seq(ConsumerFrame) /\ Len(f) = n + 1
      /\ \A i \in 1..(n + 1) : f[i] = Frame(scopes[i], scopes[i].expecting_key)
  BY <1>1, <1>2, ConsumerFrameFacts
<1>5. /\ g \in Seq(ConsumerFrame) /\ Len(g) = n
      /\ \A i \in 1..n : g[i] = Frame(Front(scopes)[i], Front(scopes)[i].expecting_key)
  BY <1>3, ConsumerFrameFacts
<1> HIDE DEF f, g
<1>6. \A i \in 1..n : f[i] \in ConsumerFrame
  BY <1>4, ElementOfSeq
<1>7. /\ SubSeq(f, 1, n) \in Seq(ConsumerFrame)
      /\ Len(SubSeq(f, 1, n)) = IF 1 <= n THEN n - 1 + 1 ELSE 0
      /\ \A i \in 1..(n - 1 + 1) : SubSeq(f, 1, n)[i] = f[1 + i - 1]
  BY <1>6, SubSeqProperties
<1>8. PICK h : h = SubSeq(f, 1, n)
  OBVIOUS
<1>9. h \in Seq(ConsumerFrame) /\ Len(h) = n /\ \A i \in 1..n : h[i] = f[i]
  BY <1>7, <1>8
<1>10. \A i \in 1..n : h[i] = g[i]
  BY <1>3, <1>4, <1>5, <1>9
<1>11. h = g
  BY <1>5, <1>9, <1>10, SeqEqual
<1>12. Protocol!Front(f) = h
  <2>1. Len(f) - 1 = n
    BY <1>4
  <2> QED BY <1>8, <2>1 DEF Protocol!Front
<1> QED BY <1>11, <1>12 DEF f, g

\* push_scope begins a frame.
LEMMA AppendFrames ==
  ASSUME IInv, NEW is_dict \in BOOLEAN
  PROVE  FramesOf(Append(scopes, NewScope(is_dict)), FALSE) =
           Append(FramesOf(scopes, FALSE), Frame(NewScope(is_dict), is_dict))
<1> DEFINE sc == Append(scopes, NewScope(is_dict))
           f == FramesOf(scopes, FALSE)
           g == FramesOf(sc, FALSE)
           new == Frame(NewScope(is_dict), is_dict)
<1>1. PICK n \in Nat : Len(scopes) = n
  BY ScopeFacts
<1>2. scopes \in Seq(Scope) /\ NewScope(is_dict) \in Scope /\ new \in ConsumerFrame
  <2>1. <<>> \in Seq(Bytes)
    BY EmptySeq
  <2> QED BY <2>1, ScopeFacts DEF GoodScopes, NewScope, Scope, Frame, ConsumerFrame
<1>3. /\ sc \in Seq(Scope) /\ Len(sc) = n + 1 /\ sc[n + 1] = NewScope(is_dict)
      /\ \A i \in 1..n : sc[i] = scopes[i]
  BY <1>1, <1>2, AppendProperties
<1>4. /\ f \in Seq(ConsumerFrame) /\ Len(f) = n
      /\ \A i \in 1..n : f[i] = Frame(scopes[i], scopes[i].expecting_key)
  BY <1>1, <1>2, ConsumerFrameFacts
<1> HIDE DEF sc
<1>5. /\ g \in Seq(ConsumerFrame) /\ Len(g) = n + 1
      /\ \A i \in 1..(n + 1) : g[i] = Frame(sc[i], sc[i].expecting_key)
  BY <1>3, ConsumerFrameFacts
<1> HIDE DEF f, g, new
<1>6. /\ Append(f, new) \in Seq(ConsumerFrame) /\ Len(Append(f, new)) = n + 1
      /\ Append(f, new)[n + 1] = new /\ \A i \in 1..n : Append(f, new)[i] = f[i]
  BY <1>2, <1>4, AppendProperties
<1>7. g[n + 1] = new
  BY <1>3, <1>5 DEF new, NewScope
<1>8. \A i \in 1..(n + 1) : g[i] = Append(f, new)[i]
  <2>1. \A i \in 1..n : g[i] = Append(f, new)[i]
    BY <1>3, <1>4, <1>5, <1>6
  <2>2. \A i \in 1..(n + 1) : i \in 1..n \/ i = n + 1
    OBVIOUS
  <2> QED BY <1>6, <1>7, <2>1, <2>2
<1>9. g = Append(f, new)
  BY <1>5, <1>6, <1>8, SeqEqual
<1> QED BY <1>9 DEF f, g, new, sc

\* Accepting a key replaces the innermost frame's last key.
LEMMA KeyFrames ==
  ASSUME IInv, pc # "value_callback", scopes # <<>>, Last(scopes).expecting_key,
         NEW key \in Bytes, KeyOrder(Last(scopes).last_key, key) = "OK"
  PROVE  LET f == FramesOf(scopes, FALSE)
         IN  FramesOf(AddKey(scopes, key), FALSE) =
               [f EXCEPT ![Len(f)] = [dict |-> TRUE, key_next |-> FALSE, last |-> <<key>>]]
<1> DEFINE f == FramesOf(scopes, FALSE)
           sc == AddKey(scopes, key)
           g == FramesOf(sc, FALSE)
           new == [dict |-> TRUE, key_next |-> FALSE, last |-> <<key>>]
<1>1. PICK n \in Nat : Len(scopes) = n
  BY ScopeFacts
<1>2. /\ scopes \in Seq(Scope) /\ n \in 1..n
      /\ Last(scopes) = scopes[n] /\ Last(scopes) \in Scope
      /\ Last(scopes).is_dict = TRUE
  <2>1. n \in 1..n /\ Last(scopes) = scopes[n] /\ Last(scopes) \in Scope
    BY <1>1, ScopeFacts
  <2>2. scopes \in Seq(Scope) /\ scopes[n].is_dict
    BY <1>1, <2>1, ScopeFacts DEF GoodScopes
  <2> QED BY <2>1, <2>2 DEF Scope
<1>3. new \in ConsumerFrame
  <2>1. <<key>> \in Seq(Bytes)
    OBVIOUS
  <2> QED BY <2>1 DEF ConsumerFrame
<1>4. /\ f \in Seq(ConsumerFrame) /\ Len(f) = n
      /\ \A i \in 1..n : f[i] = Frame(scopes[i], scopes[i].expecting_key)
  BY <1>1, <1>2, ConsumerFrameFacts
<1>5. PICK top \in Scope :
        /\ sc = [scopes EXCEPT ![n] = top] /\ top.is_dict = TRUE
        /\ top.expecting_key = FALSE /\ top.last_key = <<key>>
  <2> DEFINE t == [is_dict |-> Last(scopes).is_dict, expecting_key |-> FALSE,
                   last_key |-> <<key>>, keys |-> Append(Last(scopes).keys, key)]
  <2>1. Last(scopes).keys \in Seq(Bytes)
    BY <1>2 DEF Scope
  <2>2. Append(Last(scopes).keys, key) \in Seq(Bytes) /\ <<key>> \in Seq(Bytes)
    BY <2>1, AppendProperties
  <2>3. t \in Scope
    BY <1>2, <2>2 DEF Scope
  <2>4. sc = [scopes EXCEPT ![n] = t]
    BY <1>1 DEF AddKey
  <2> QED BY <1>2, <2>3, <2>4
<1>6. /\ sc \in Seq(Scope) /\ Len(sc) = n
      /\ \A i \in 1..n : sc[i] = IF i = n THEN top ELSE scopes[i]
  BY <1>1, <1>2, <1>5, ExceptSeq
<1> HIDE DEF sc
<1>7. /\ g \in Seq(ConsumerFrame) /\ Len(g) = n
      /\ \A i \in 1..n : g[i] = Frame(sc[i], sc[i].expecting_key)
  BY <1>6, ConsumerFrameFacts
<1> HIDE DEF f, g, new
<1>8. /\ [f EXCEPT ![n] = new] \in Seq(ConsumerFrame) /\ Len([f EXCEPT ![n] = new]) = n
      /\ \A i \in 1..n : [f EXCEPT ![n] = new][i] = IF i = n THEN new ELSE f[i]
  BY <1>2, <1>3, <1>4, ExceptSeq
<1>9. g[n] = new
  <2>1. g[n] = Frame(top, top.expecting_key)
    BY <1>2, <1>6, <1>7
  <2> QED BY <1>5, <2>1 DEF Frame, new
<1>10. \A i \in 1..n : g[i] = [f EXCEPT ![n] = new][i]
  BY <1>2, <1>4, <1>6, <1>7, <1>8, <1>9
<1>11. g = [f EXCEPT ![n] = new]
  BY <1>7, <1>8, <1>10, SeqEqual
<1> QED BY <1>4, <1>11 DEF f, g, sc, new

---------------------------------------------------------------------------
(* Events.                                                                 *)

\* What the consumer may hear next agrees with what the top scope expects.
LEMMA WantedFacts ==
  ASSUME IInv, pc \notin {"unwind", "value_callback"}
  PROVE  /\ OpenFrames = FramesOf(scopes, FALSE)
         /\ (IF scopes = <<>> THEN events = <<>> ELSE ~Last(scopes).expecting_key)
              => Protocol!ValueWanted
         /\ scopes # <<>> =>
              /\ Protocol!Last(OpenFrames) = Frame(Last(scopes), Last(scopes).expecting_key)
              /\ Last(scopes).expecting_key => Protocol!KeyWanted
<1>1. scopes \in Seq(Scope)
  BY ScopeFacts DEF GoodScopes
<1>2. OpenFrames = FramesOf(scopes, FALSE)
  BY OpenFramesNow DEF FramesOf
<1>3. PICK f : f = OpenFrames
  OBVIOUS
<1>4. f = <<>> <=> scopes = <<>>
  BY <1>1, <1>2, <1>3, ConsumerFrameFacts
<1>5. ASSUME scopes # <<>>
      PROVE  f[Len(f)] = Frame(Last(scopes), Last(scopes).expecting_key)
  <2>1. Len(scopes) \in 1..Len(scopes) /\ Last(scopes) = scopes[Len(scopes)]
    BY <1>5, ScopeFacts
  <2>2. Len(f) = Len(scopes)
    BY <1>1, <1>2, <1>3, ConsumerFrameFacts
  <2>3. f[Len(scopes)] = Frame(scopes[Len(scopes)], scopes[Len(scopes)].expecting_key)
    BY <1>1, <1>2, <1>3, <2>1, ConsumerFrameFacts
  <2> QED BY <2>1, <2>2, <2>3
<1>6. ASSUME scopes # <<>>
      PROVE  Protocol!Last(OpenFrames) = Frame(Last(scopes), Last(scopes).expecting_key)
  BY <1>3, <1>5, <1>6 DEF Protocol!Last
<1>7. Protocol!ValueWanted <=>
        IF scopes = <<>> THEN events = <<>> ELSE ~Protocol!Last(OpenFrames).key_next
  BY <1>3, <1>4 DEF Protocol!ValueWanted
<1>8. Protocol!KeyWanted <=> scopes # <<>> /\ Protocol!Last(OpenFrames).key_next
  BY <1>3, <1>4 DEF Protocol!KeyWanted
<1>9. Frame(Last(scopes), Last(scopes).expecting_key).key_next = Last(scopes).expecting_key
  BY DEF Frame
<1> QED BY <1>2, <1>6, <1>7, <1>8, <1>9

\* An event that the protocol accepts is one step of it.
LEMMA HearStep ==
  ASSUME IInv, pc \notin {"unwind", "done"}, pc' \notin {"unwind", "done"}, NEW e \in EventType,
         events' = Append(events, e), Protocol!Accept(e)
  PROVE  Protocol!Hear
<1>1. events \in Seq(EventType)
  BY DEF IInv, TypeOK
<1>2. Len(events') = Len(events) + 1 /\ events'[Len(events) + 1] = e
  BY <1>1, AppendProperties
<1>3. Protocol!Last(events') = e
  BY <1>2 DEF Protocol!Last
<1>4. e \in Protocol!EventType
  BY DEF EventType, Protocol!EventType, Hooks, Protocol!Hooks, Bytes, Protocol!Bytes,
         Byte, Protocol!Byte
<1> QED BY <1>2, <1>3, <1>4 DEF Protocol!Hear

\* An integer or a string value is heard where a value is wanted.
LEMMA ScalarHears ==
  ASSUME IInv, pc \notin {"unwind", "done", "value_callback"}, NEW e \in EventType,
         e.hook \in {"on_int", "on_string"}, NEW q,
         IF scopes = <<>> THEN events = <<>> ELSE ~Last(scopes).expecting_key,
         Recognise(e, TRUE, scopes, q)
  PROVE  Protocol!Hear
<1>1. scopes \in Seq(Scope) /\ scopes' = scopes /\ pc' = "value_callback"
  BY ScopeFacts DEF GoodScopes, Recognise
<1>2. OpenFrames' = FramesOf(scopes, TRUE)
  BY <1>1, OpenFramesNext DEF FramesOf
<1>3. OpenFrames' = Protocol!Completed(OpenFrames)
  BY <1>1, <1>2, WantedFacts, CompletedFrames
<1>4. Protocol!Accept(e)
  BY <1>3, WantedFacts DEF Protocol!Accept, Protocol!Scalar
<1> QED BY <1>1, <1>4, HearStep DEF Recognise

\* A key is heard where a key is wanted, and after its predecessors.
LEMMA KeyHears ==
  ASSUME IInv, pc \notin {"unwind", "done", "value_callback"}, NEW key \in Bytes, NEW q,
         scopes # <<>>, Last(scopes).expecting_key,
         KeyOrder(Last(scopes).last_key, key) = "OK",
         Recognise(Event("on_string", 0, key), FALSE, AddKey(scopes, key), q)
  PROVE  Protocol!Hear
<1> DEFINE e == Event("on_string", 0, key)
<1>1. scopes' = AddKey(scopes, key) /\ pc' = "open_callback"
  BY DEF Recognise
<1>2. OpenFrames' = FramesOf(AddKey(scopes, key), FALSE)
  BY <1>1, OpenFramesNext DEF FramesOf
<1>3. OpenFrames' =
        [OpenFrames EXCEPT ![Len(OpenFrames)] =
           [dict |-> TRUE, key_next |-> FALSE, last |-> <<key>>]]
  BY <1>2, WantedFacts, KeyFrames
<1>4. Protocol!KeyWanted /\ Protocol!Last(OpenFrames).last = Last(scopes).last_key
  <2>1. /\ Protocol!KeyWanted
        /\ Protocol!Last(OpenFrames) = Frame(Last(scopes), Last(scopes).expecting_key)
    BY WantedFacts
  <2>2. Frame(Last(scopes), Last(scopes).expecting_key).last = Last(scopes).last_key
    BY DEF Frame
  <2> QED BY <2>1, <2>2
<1>5. \A last \in {Last(scopes).last_key[i] : i \in DOMAIN Last(scopes).last_key} :
        KeyBefore(last, key)
  <2>1. Last(scopes).last_key = <<>> \/ KeyBefore(Last(scopes).last_key[1], key)
    BY KeyOrderFacts
  <2>2. Last(scopes).last_key = <<>> \/ \E k : Last(scopes).last_key = <<k>>
    BY ScopeFacts DEF GoodScopes
  <2>3. CASE Last(scopes).last_key = <<>>
    BY <2>3
  <2>4. CASE Last(scopes).last_key # <<>>
    <3>1. PICK k : Last(scopes).last_key = <<k>>
      BY <2>2, <2>4
    <3>2. DOMAIN Last(scopes).last_key = {1} /\ Last(scopes).last_key[1] = k
      BY <3>1
    <3> QED BY <2>1, <2>4, <3>2
  <2> QED BY <2>3, <2>4
<1>6. \A last : KeyBefore(last, key) <=> Protocol!KeyBefore(last, key)
  BY DEF KeyBefore, Protocol!KeyBefore, bytes_cmp, Protocol!bytes_cmp, memcmp,
         Protocol!memcmp
<1>7. e \in EventType /\ e.hook = "on_string" /\ e.bytes = key
  BY StringEvent DEF Event
<1>8. Protocol!Key(e)
  BY <1>3, <1>4, <1>5, <1>6, <1>7 DEF Protocol!Key
<1>9. events' = Append(events, e)
  BY DEF Recognise
<1> HIDE DEF e
<1> QED BY <1>1, <1>7, <1>8, <1>9, HearStep DEF Protocol!Accept

\* A begin callback is heard where a value is wanted, within the limit.
LEMMA OpenHears ==
  ASSUME IInv, ExpectValue, NEW is_dict \in BOOLEAN,
         NEW hook \in Hooks \ {"on_int"}, Len(scopes) < max_depth, NEW q,
         hook = IF is_dict THEN "on_dict_begin" ELSE "on_list_begin",
         Recognise(Event(hook, 0, <<>>), FALSE, Append(scopes, NewScope(is_dict)), q)
  PROVE  Protocol!Hear
<1> DEFINE e == Event(hook, 0, <<>>)
           frame == IF is_dict THEN Protocol!DictFrame ELSE Protocol!ListFrame
<1>1. /\ pc \notin {"unwind", "done", "value_callback"} /\ pc' = "open_callback"
      /\ scopes' = Append(scopes, NewScope(is_dict)) /\ events' = Append(events, e)
  BY DEF ExpectValue, InBody, Recognise
<1>2. Frame(NewScope(is_dict), is_dict) = frame
  BY DEF Frame, NewScope, Protocol!DictFrame, Protocol!ListFrame
<1>3. OpenFrames' = Append(OpenFrames, frame)
  <2>1. OpenFrames' = FramesOf(Append(scopes, NewScope(is_dict)), FALSE)
    BY <1>1, OpenFramesNext DEF FramesOf
  <2>2. OpenFrames = FramesOf(scopes, FALSE)
    BY <1>1, WantedFacts
  <2> QED BY <1>2, <2>1, <2>2, AppendFrames
<1>4. Protocol!ValueWanted
  BY <1>1, WantedFacts, ValueFacts
<1>5. Len(OpenFrames) < INTERNAL_MAX_DEPTH
  <2>1. Len(OpenFrames) = Len(scopes) /\ Len(scopes) \in Nat
    BY <1>1, WantedFacts, ConsumerFrameFacts, ScopeFacts DEF GoodScopes
  <2>2. max_depth \in Nat /\ max_depth <= INTERNAL_MAX_DEPTH
    BY DEF IInv, TypeOK, DepthBounded
  <2> QED BY <2>1, <2>2, DepthAssumption
<1>6. e \in EventType /\ e.hook = hook
  BY ContainerEvent DEF Event
<1>7. Protocol!Accept(e)
  BY <1>3, <1>4, <1>5, <1>6 DEF Protocol!Accept, Protocol!Begin
<1> HIDE DEF e
<1> QED BY <1>1, <1>6, <1>7, HearStep

\* An end callback is heard for the innermost container only.
LEMMA CloseHears ==
  ASSUME IInv, InBody, NEW hook \in Hooks \ {"on_int"}, Close(hook),
         \/ hook = "on_list_end" /\ ~Last(scopes).is_dict
         \/ hook = "on_dict_end" /\ Last(scopes).expecting_key
  PROVE  Protocol!Hear
<1> DEFINE e == Event(hook, 0, <<>>)
<1>1. /\ pc = "body" /\ pc' = "value_callback" /\ scopes # <<>>
      /\ scopes' = Front(scopes) /\ events' = Append(events, e)
  BY DEF InBody, Close, Recognise, IInv, ControlInv
<1>2. Front(scopes) \in Seq(Scope)
  BY <1>1, FrontGood DEF GoodScopes
<1>3. OpenFrames' = Protocol!Completed(Protocol!Front(OpenFrames))
  <2>1. OpenFrames' = FramesOf(Front(scopes), TRUE)
    BY <1>1, OpenFramesNext DEF FramesOf
  <2>2. OpenFrames = FramesOf(scopes, FALSE)
    BY <1>1, WantedFacts
  <2> QED BY <1>1, <1>2, <2>1, <2>2, FrontFrames, CompletedFrames
<1>4. /\ OpenFrames # <<>> /\ Protocol!Last(OpenFrames).dict = Last(scopes).is_dict
      /\ Last(scopes).expecting_key => Protocol!KeyWanted
  <2>1. OpenFrames # <<>>
    BY <1>1, WantedFacts, ConsumerFrameFacts, ScopeFacts DEF GoodScopes
  <2>2. /\ Protocol!Last(OpenFrames) = Frame(Last(scopes), Last(scopes).expecting_key)
        /\ Last(scopes).expecting_key => Protocol!KeyWanted
    BY <1>1, WantedFacts
  <2>3. Frame(Last(scopes), Last(scopes).expecting_key).dict = Last(scopes).is_dict
    BY DEF Frame
  <2> QED BY <2>1, <2>2, <2>3
<1>5. e \in EventType /\ e.hook = hook
  BY ContainerEvent DEF Event
<1>6. Protocol!Accept(e)
  BY <1>3, <1>4, <1>5 DEF Protocol!Accept, Protocol!EndList, Protocol!EndDict
<1> HIDE DEF e
<1> QED BY <1>1, <1>5, <1>6, HearStep

---------------------------------------------------------------------------
(* Every step of the parser is a step of the protocol or none.             *)

\* An error return ends the conversation with the consumer.
LEMMA RejectReturns ==
  ASSUME pc \notin {"unwind", "done"}, NEW st \in bencode_status \ {"OK"}, NEW q, Reject(st, q)
  PROVE  Protocol!Return
BY FailReturns DEF Reject

\* The consumer hears nothing of a number before it is complete.
LEMMA UnsignedIsSilent ==
  ASSUME pc \notin {"unwind", "done", "value_callback"}, NEW use, NEW negative, NEW q,
         parse_unsigned(use, negative, q)
  PROVE  Protocol!Return \/ UNCHANGED Protocol!protocol_vars
<1>1. CASE Reject("INTEGER_FORMAT", q + 1)
  BY <1>1, RejectReturns DEF bencode_status
<1>2. CASE pc' = "digits" /\ UNCHANGED <<events, scopes>>
  BY <1>2, SilentWithinValue
<1> QED BY <1>1, <1>2 DEF parse_unsigned

\* parse_int, at the end of its digits.
LEMMA FinishIntRefines ==
  ASSUME IInv, FinishInt
  PROVE  Protocol!Hear \/ Protocol!Return
<1> DEFINE st == IF num.negative /\ num.acc = 0 THEN "INTEGER_FORMAT"
                 ELSE Terminated(ch_e)
           value == IF num.negative THEN -num.acc ELSE num.acc
           e == Event("on_int", value, <<>>)
<1>0. DigitsEnd("int") /\ pc = "digits"
  BY DEF FinishInt, DigitsEnd
<1>1. CASE st # "OK"
  <2>1. Reject(st, p)
    BY <1>1 DEF FinishInt
  <2>2. st \in bencode_status
    BY DEF Terminated, bencode_status
  <2> HIDE DEF st
  <2> QED BY <1>0, <1>1, <2>1, <2>2, RejectReturns
<1>2. CASE st = "OK"
  <2>1. Recognise(e, TRUE, scopes, p + 1)
    BY <1>2 DEF FinishInt
  <2>2. e \in EventType /\ e.hook \in {"on_int", "on_string"}
    <3>1. num.acc \in Nat
      BY <1>0, DigitsFacts
    <3>2. value \in Int
      BY <3>1
    <3> QED BY <3>2, EmptySeq DEF EventType, Event, Hooks, Bytes
  <2>3. IF scopes = <<>> THEN events = <<>> ELSE ~Last(scopes).expecting_key
    BY <1>0, DigitsFacts DEF DigitsEnd
  <2> HIDE DEF e
  <2> QED BY <1>0, <2>1, <2>2, <2>3, ScalarHears
<1> QED BY <1>1, <1>2

\* parse_string, at the end of its length prefix.
LEMMA FinishStringRefines ==
  ASSUME IInv, FinishString
  PROVE  Protocol!Hear \/ Protocol!Return
<1> DEFINE st == Terminated(Colon)
           q  == p + 1
           e  == Event("on_string", 0, Slice(q, num.acc))
<1>0. DigitsEnd("string") /\ pc = "digits"
  BY DEF FinishString, DigitsEnd
<1>1. CASE st # "OK"
  <2>1. Reject(st, p) /\ st \in bencode_status
    BY <1>1 DEF FinishString, Terminated, bencode_status
  <2> QED BY <1>0, <1>1, <2>1, RejectReturns
<1>2. CASE st = "OK" /\ ~Payload(num.acc, q)
  <2>1. Reject("STRING_LENGTH", q)
    BY <1>2 DEF FinishString
  <2> QED BY <1>0, <2>1, RejectReturns DEF bencode_status
<1>3. CASE st = "OK" /\ Payload(num.acc, q)
  <2>1. Recognise(e, TRUE, scopes, q + num.acc)
    BY <1>3 DEF FinishString
  <2>2. q \in Nat /\ num.acc \in Nat /\ q + num.acc \in 0..size
    BY <1>0, <1>3, DigitsFacts, TerminatedFacts DEF Payload
  <2>3. e \in EventType /\ e.hook \in {"on_int", "on_string"}
    BY <2>2, SliceFacts, StringEvent DEF IInv, Event
  <2>4. IF scopes = <<>> THEN events = <<>> ELSE ~Last(scopes).expecting_key
    BY <1>0, DigitsFacts DEF DigitsEnd
  <2> HIDE DEF e, q
  <2> QED BY <1>0, <2>1, <2>3, <2>4, ScalarHears
<1> QED BY <1>1, <1>2, <1>3

\* parse_dict_key, at the end of its length prefix.
LEMMA FinishKeyRefines ==
  ASSUME IInv, FinishKey
  PROVE  Protocol!Hear \/ Protocol!Return
<1> DEFINE st  == Terminated(Colon)
           q   == p + 1
           key == Slice(q, num.acc)
           ord == KeyOrder(Last(scopes).last_key, key)
<1>0. DigitsEnd("key") /\ pc = "digits"
  BY DEF FinishKey, DigitsEnd
<1>1. CASE st # "OK"
  <2>1. Reject(st, p) /\ st \in bencode_status
    BY <1>1 DEF FinishKey, Terminated, bencode_status
  <2> QED BY <1>0, <1>1, <2>1, RejectReturns
<1>2. CASE st = "OK" /\ ~Payload(num.acc, q)
  <2>1. Reject("STRING_LENGTH", q)
    BY <1>2 DEF FinishKey
  <2> QED BY <1>0, <2>1, RejectReturns DEF bencode_status
<1>3. CASE st = "OK" /\ Payload(num.acc, q) /\ ord # "OK"
  <2>1. Reject(ord, q + num.acc) /\ ord \in bencode_status
    BY <1>3, KeyOrderFacts DEF FinishKey
  <2> QED BY <1>0, <1>3, <2>1, RejectReturns
<1>4. CASE st = "OK" /\ Payload(num.acc, q) /\ ord = "OK"
  <2>1. Recognise(Event("on_string", 0, key), FALSE, AddKey(scopes, key), q + num.acc)
    BY <1>4 DEF FinishKey
  <2>2. q \in Nat /\ num.acc \in Nat /\ q + num.acc \in 0..size
    BY <1>0, <1>4, DigitsFacts, TerminatedFacts DEF Payload
  <2>3. key \in Bytes
    BY <2>2, SliceFacts DEF IInv
  <2>4. scopes # <<>> /\ Last(scopes).expecting_key
    BY <1>0, DigitsFacts DEF DigitsEnd
  <2> HIDE DEF key, q
  <2> QED BY <1>0, <1>4, <2>1, <2>3, <2>4, KeyHears
<1> QED BY <1>1, <1>2, <1>3, <1>4

\* The start of parse_list and parse_dict.
LEMMA OpenRefines ==
  ASSUME IInv, ExpectValue, NEW is_dict \in BOOLEAN,
         NEW hook \in Hooks \ {"on_int"}, Open(is_dict, hook),
         hook = IF is_dict THEN "on_dict_begin" ELSE "on_list_begin"
  PROVE  Protocol!Hear \/ Protocol!Return
<1>1. pc \notin {"unwind", "done"}
  BY DEF ExpectValue, InBody
<1>2. CASE Reject("NESTING_TOO_DEEP", p + 1)
  BY <1>1, <1>2, RejectReturns DEF bencode_status
<1>3. CASE ~Reject("NESTING_TOO_DEEP", p + 1)
  BY <1>3, OpenHears DEF Open
<1> QED BY <1>2, <1>3

\* The end of parse_list and parse_dict.
LEMMA CloseRefines ==
  ASSUME IInv, CloseList \/ CloseDict
  PROVE  Protocol!Hear \/ Protocol!Return
<1>1. InBody /\ pc \notin {"unwind", "done"}
  BY DEF CloseList, CloseDict, InBody
<1>2. CASE CloseList
  BY <1>1, <1>2, CloseHears DEF CloseList, Hooks
<1>3. CASE CloseDict
  <2>1. CASE Last(scopes).expecting_key /\ Close("on_dict_end")
    BY <1>1, <2>1, CloseHears DEF Hooks
  <2>2. CASE Reject("DICT_MISSING_VALUE", p)
    BY <1>1, <2>2, RejectReturns DEF bencode_status
  <2> QED BY <1>3, <2>1, <2>2 DEF CloseDict
<1> QED BY <1>2, <1>3

\* The return of a callback is visible only when it ends the call.
LEMMA ResumeRefines ==
  ASSUME IInv, NEW st \in {"OK"} \cup CallbackErrors, Resume(st)
  PROVE  Protocol!Return \/ UNCHANGED Protocol!protocol_vars
<1>1. pc \in {"open_callback", "value_callback"} /\ UNCHANGED events
  BY DEF Resume, InCallback
<1>2. CASE st # "OK"
  <2>1. st \in bencode_status \ {"OK"} /\ Fail(st, p)
    BY <1>2, CallbackAssumption DEF Resume
  <2> QED BY <1>1, <2>1, FailReturns
<1>3. CASE st = "OK"
  <2>1. Proceed(pc = "value_callback", scopes, p)
    BY <1>3 DEF Resume
  <2>2. CASE pc = "open_callback"
    <3>1. pc' = "body" /\ scopes' = scopes
      BY <2>1, <2>2 DEF Proceed
    <3> QED BY <1>1, <2>2, <3>1, SilentWithinValue
  <2>3. CASE pc = "value_callback" /\ scopes # <<>>
    <3>1. pc' = "body" /\ scopes' = ValueDone(scopes)
      BY <2>1, <2>3 DEF Proceed
    <3> QED BY <1>1, <2>3, <3>1, SilentValueDone
  <2>4. CASE pc = "value_callback" /\ scopes = <<>>
    <3>1. pc' = "done" /\ status' = "OK" /\ scopes' = scopes
      BY <2>1, <2>4 DEF Proceed
    <3> QED BY <1>1, <2>4, <3>1, OKReturns
  <2> QED BY <1>1, <2>2, <2>3, <2>4
<1> QED BY <1>2, <1>3

\* Every step of a call is a step of the protocol, or invisible to it.
LEMMA NextRefines ==
  ASSUME IInv, [Next]_vars
  PROVE  [Protocol!ProtocolNext]_(Protocol!protocol_vars)
<1> SUFFICES Protocol!Hear \/ Protocol!Return \/ UNCHANGED Protocol!protocol_vars
  BY DEF Protocol!ProtocolNext
<1>0. /\ pc = "value" \/ InBody => pc \notin {"unwind", "done", "value_callback"}
      /\ ExpectValue => pc \notin {"unwind", "done", "value_callback"}
  BY DEF ExpectValue, InBody
<1>1. CASE RejectArguments
  <2>1. /\ pc = "entry" /\ pc' = "done" /\ status' \in {"INVALID_ARG", "TRUNCATED"}
        /\ scopes = <<>> /\ scopes' = <<>> /\ UNCHANGED events
    BY <1>1 DEF RejectArguments, IInv, ControlInv
  <2>2. OpenFrames' = <<>>
    BY <2>1, EmptySeq DEF OpenFrames
  <2> QED BY <2>1, <2>2 DEF Protocol!Return, Protocol!bencode_status
<1>2. CASE Start
  BY <1>2, SilentWithinValue DEF Start
<1>3. CASE Accumulate
  <2>1. pc = "digits"
    BY <1>3 DEF Accumulate
  <2>2. \/ Reject("INTEGER_OVERFLOW", p)
        \/ UNCHANGED <<pc, scopes, events>>
    BY <1>3 DEF Accumulate
  <2> QED BY <2>1, <2>2, RejectReturns, SilentWithinValue DEF bencode_status
<1>4. CASE FinishInt
  BY <1>4, FinishIntRefines
<1>5. CASE FinishString
  BY <1>5, FinishStringRefines
<1>6. CASE FinishKey
  BY <1>6, FinishKeyRefines
<1>7. CASE parse_int
  <2>1. \E q, negative : \/ Reject("TRUNCATED", q) \/ Reject("INTEGER_FORMAT", q)
                         \/ parse_unsigned("int", negative, q)
    BY <1>7 DEF parse_int
  <2>2. pc \notin {"unwind", "done", "value_callback"}
    BY <1>0, <1>7 DEF parse_int
  <2> QED BY <2>1, <2>2, RejectReturns, UnsignedIsSilent DEF bencode_status
<1>8. CASE parse_string
  BY <1>0, <1>8, UnsignedIsSilent DEF parse_string
<1>9. CASE parse_list
  BY <1>9, OpenRefines DEF parse_list, Hooks
<1>10. CASE parse_dict
  BY <1>10, OpenRefines DEF parse_dict, Hooks
<1>11. CASE UnexpectedByte
  BY <1>0, <1>11, RejectReturns DEF UnexpectedByte, bencode_status
<1>12. CASE BodyTruncated
  BY <1>12, RejectReturns DEF BodyTruncated, bencode_status
<1>13. CASE CloseList \/ CloseDict
  BY <1>13, CloseRefines
<1>14. CASE parse_dict_key
  <2>1. Reject("DICT_BAD_KEY", p) \/ parse_unsigned("key", FALSE, p)
    BY <1>14 DEF parse_dict_key
  <2> QED BY <1>0, <1>14, <2>1, RejectReturns, UnsignedIsSilent
      DEF parse_dict_key, bencode_status
<1>15. CASE SkipCallback \/ Callback
  <2>1. \E st \in {"OK"} \cup CallbackErrors : Resume(st)
    BY <1>15 DEF SkipCallback, Callback
  <2> QED BY <2>1, ResumeRefines
<1>16. CASE HandUp
  <2>1. /\ pc = "unwind" /\ pc' = "unwind" /\ UNCHANGED <<events, status>>
        /\ OpenFrames' = OpenFrames
    BY <1>16 DEF HandUp, OpenFrames
  <2> QED BY <2>1 DEF Protocol!protocol_vars
<1>17. CASE ReportError
  <2>1. /\ pc = "unwind" /\ pc' = "done" /\ UNCHANGED <<events, status>>
        /\ OpenFrames' = OpenFrames
    BY <1>17 DEF ReportError, OpenFrames
  <2> QED BY <2>1 DEF Protocol!protocol_vars
<1>18. CASE UNCHANGED vars
  BY <1>18 DEF vars, OpenFrames, Protocol!protocol_vars
<1> QED BY <1>1, <1>2, <1>3, <1>4, <1>5, <1>6, <1>7, <1>8, <1>9, <1>10, <1>11,
           <1>12, <1>13, <1>14, <1>15, <1>16, <1>17, <1>18 DEF Next, Parse

\* A call that has not begun has reported nothing.
LEMMA InitRefines ==
  ASSUME Init
  PROVE  Protocol!ProtocolInit
<1>1. OpenFrames = <<>>
  BY EmptySeq DEF Init, AtEntry, OpenFrames
<1> QED BY <1>1 DEF Init, AtEntry, Protocol!ProtocolInit

\* Whatever the input, the depth limit and the answers of the callbacks, the
\* consumer of bencode_parse_sax hears the beginning of the report of one
\* well-formed value: containers balanced, keys and values alternating, keys
\* strictly ascending, nothing after the root, and OK only when it is complete.
THEOREM Refinement == Spec => ImplementsProtocol
<1>1. Init => Protocol!ProtocolInit
  BY InitRefines
<1>2. IInv /\ [Next]_vars => [Protocol!ProtocolNext]_(Protocol!protocol_vars)
  BY NextRefines
<1> QED BY <1>1, <1>2, Invariance, PTL
        DEF Spec, ImplementsProtocol, Protocol!ProtocolSpec

---------------------------------------------------------------------------
(* Spelling: the encoding of events.                                       *)

\* The spelling of every event is a byte string.
LEMMA EncodeIsBytes ==
  ASSUME NEW e \in EventType
  PROVE  Encode(e) \in Bytes
<1>1. <<ch_e>> \in Bytes /\ <<ch_l>> \in Bytes /\ <<ch_d>> \in Bytes
  BY OneByte DEF Byte, ch_e, ch_l, ch_d
<1>2. e.value \in Int /\ e.bytes \in Bytes
  BY DEF EventType
<1> QED BY <1>1, <1>2, EncodedBytes DEF Encode

\* What a sequence of events spells grows by the spelling of the next one.
LEMMA SpellingGrows ==
  ASSUME NEW es \in Seq(EventType), NEW e \in EventType
  PROVE  /\ EncodeEvents(es) \in Bytes
         /\ EncodeEvents(Append(es, e)) = EncodeEvents(es) \o Encode(e)
<1> DEFINE ss == [i \in DOMAIN es |-> Encode(es[i])]
           tt == [i \in DOMAIN Append(es, e) |-> Encode(Append(es, e)[i])]
<1>1. PICK n \in Nat : n = Len(es)
  BY LenProperties
<1>2. DOMAIN es = 1..n /\ \A i \in 1..n : es[i] \in EventType
  BY <1>1, LenProperties, ElementOfSeq
<1>3. /\ DOMAIN Append(es, e) = 1..(n + 1) /\ Append(es, e)[n + 1] = e
      /\ \A i \in 1..n : Append(es, e)[i] = es[i]
  BY <1>1, AppendProperties, LenProperties
<1>4. ss \in Seq(Bytes) /\ Len(ss) = n /\ \A i \in 1..n : ss[i] = Encode(es[i])
  <2>1. ss \in [1..n -> Bytes]
    BY <1>2, EncodeIsBytes
  <2> QED BY <1>2, <2>1
<1>5. tt \in Seq(Bytes) /\ Len(tt) = n + 1 /\ \A i \in 1..(n + 1) : tt[i] = Encode(Append(es, e)[i])
  <2>1. ASSUME NEW i \in 1..(n + 1)
        PROVE  Append(es, e)[i] \in EventType
    <3>1. i \in 1..n \/ i = n + 1
      OBVIOUS
    <3> QED BY <1>2, <1>3, <3>1
  <2>2. tt \in [1..(n + 1) -> Bytes]
    BY <1>3, <2>1, EncodeIsBytes
  <2> QED BY <1>3, <2>2
<1> HIDE DEF ss, tt
<1>6. Encode(e) \in Bytes
  BY EncodeIsBytes
<1>7. /\ Append(ss, Encode(e)) \in Seq(Bytes) /\ Len(Append(ss, Encode(e))) = n + 1
      /\ Append(ss, Encode(e))[n + 1] = Encode(e)
      /\ \A i \in 1..n : Append(ss, Encode(e))[i] = ss[i]
  BY <1>4, <1>6, AppendProperties
<1>8. ASSUME NEW i \in 1..(n + 1)
      PROVE  tt[i] = Append(ss, Encode(e))[i]
  <2>1. i \in 1..n \/ i = n + 1
    OBVIOUS
  <2> QED BY <1>3, <1>4, <1>5, <1>7, <2>1
<1>9. tt = Append(ss, Encode(e))
  BY <1>5, <1>7, <1>8, SeqEqual
<1>10. EncodeEvents(es) = FlattenSeq(ss) /\ EncodeEvents(Append(es, e)) = FlattenSeq(tt)
  BY DEF EncodeEvents, ss, tt
<1> QED BY <1>4, <1>6, <1>9, <1>10, FlattenAppend

LEMMA SpellingType ==
  ASSUME TypeOK
  PROVE  Spelt \in Bytes
<1>1. events \in Seq(EventType) /\ Event("on_list_end", 0, <<>>) \in EventType
  BY BytesEmpty DEF TypeOK, Event, EventType, Hooks, Bytes
<1> QED BY <1>1, SpellingGrows DEF Spelt

\* No event, no byte.
LEMMA NothingSpelt == EncodeEvents(<<>>) = <<>>
<1>1. [i \in DOMAIN <<>> |-> Encode(<<>>[i])] = <<>>
  OBVIOUS
<1> QED BY <1>1, FlattenSeqDef, EmptySeq DEF EncodeEvents

---------------------------------------------------------------------------
(* Spelling: the bytes read.                                               *)

Upto(q) == SubSeq(call.input, 1, q)

\* Reading on adds what lies between the old and the new cursor.
LEMMA ReadGrows ==
  ASSUME TypeOK, NEW q \in Nat, NEW len \in Nat, q + len <= size
  PROVE  /\ Upto(q) \in Bytes /\ Upto(0) = <<>>
         /\ Slice(q, len) \in Bytes /\ Len(Slice(q, len)) = len
         /\ Upto(q) \o Slice(q, len) = Upto(q + len)
         /\ len = 1 => Slice(q, len) = <<peek(q)>>
<1>1. call.input \in Seq(Byte) /\ size \in Nat /\ size = Len(call.input)
  BY InputFacts DEF size
<1>2. \A i \in 1..size : call.input[i] \in Byte
  BY <1>1, ElementOfSeq
<1>3. /\ Slice(q, len) \in Seq(Byte) /\ Len(Slice(q, len)) = len
      /\ \A i \in 1..len : Slice(q, len)[i] = call.input[q + i]
  <2>1. \A i \in (q + 1)..(q + len) : call.input[i] \in Byte
    BY <1>1, <1>2
  <2>2. /\ SubSeq(call.input, q + 1, q + len) \in Seq(Byte)
        /\ Len(SubSeq(call.input, q + 1, q + len)) =
             IF q + 1 <= q + len THEN (q + len) - (q + 1) + 1 ELSE 0
        /\ \A i \in 1..((q + len) - (q + 1) + 1) :
             SubSeq(call.input, q + 1, q + len)[i] = call.input[q + 1 + i - 1]
    BY <2>1, SubSeqProperties
  <2> QED BY <2>2 DEF Slice
<1>4. Upto(q) \in Seq(Byte)
  <2>1. \A i \in 1..q : call.input[i] \in Byte
    BY <1>1, <1>2
  <2> QED BY <2>1, SubSeqProperties DEF Upto
<1>5. Upto(0) = <<>>
  BY SubSeqEmpty DEF Upto
<1>6. Upto(q) \o Slice(q, len) = Upto(q + len)
  <2>1. /\ 1 \in 1..(Len(call.input) + 1) /\ q \in (1 - 1)..Len(call.input)
        /\ q + len \in q..Len(call.input)
    BY <1>1
  <2> QED BY <1>1, <2>1, ConcatAdjacentSubSeq DEF Upto, Slice
<1>7. ASSUME len = 1
      PROVE  Slice(q, len) = <<peek(q)>>
  <2>1. <<peek(q)>> \in Seq(Byte) /\ Len(<<peek(q)>>) = 1 /\ <<peek(q)>>[1] = call.input[q + 1]
    BY <1>1, <1>2, <1>7 DEF peek
  <2> QED BY <1>3, <1>7, <2>1, SeqEqual
<1> QED BY <1>3, <1>4, <1>5, <1>6, <1>7 DEF Bytes

\* ... which may be a single byte.
LEMMA ReadByte ==
  ASSUME TypeOK, NEW q \in Nat, q < size
  PROVE  /\ Upto(q) \in Bytes /\ <<peek(q)>> \in Bytes
         /\ Upto(q) \o <<peek(q)>> = Upto(q + 1)
<1>1. q + 1 <= size
  BY InputFacts
<1> QED BY <1>1, ReadGrows

---------------------------------------------------------------------------
(* Spelling: one building block of the actions at a time.                  *)

\* Nothing is claimed of a call that has failed.
LEMMA FailSpells ==
  ASSUME NEW st \in bencode_status \ {"OK"}, NEW q, Fail(st, q)
  PROVE  SpelledInv'
BY DEF Fail, SpelledInv, RoundTrip, InCallback

\* An event spells what was read since the one before.
LEMMA RecogniseSpells ==
  ASSUME TypeOK, NEW e \in EventType, NEW completes, NEW sc, NEW q,
         Recognise(e, completes, sc, q), Spelt \o Encode(e) = Upto(q)
  PROVE  SpelledInv'
<1>1. pc' \in {"value_callback", "open_callback"} /\ call' = call
      /\ p' = q /\ events' = Append(events, e)
  BY DEF Recognise
<1>2. Spelt' = Spelt \o Encode(e)
  <2>1. events \in Seq(EventType)
    BY DEF TypeOK
  <2> QED BY <1>1, <2>1, SpellingGrows DEF Spelt
<1>3. BytesRead' = Upto(q)
  BY <1>1 DEF BytesRead, Upto
<1> QED BY <1>1, <1>2, <1>3 DEF SpelledInv, RoundTrip

\* The first digit of a number; opening is what precedes it.
LEMMA UnsignedSpells ==
  ASSUME IInv, NEW use \in {"int", "string", "key"}, NEW negative \in BOOLEAN,
         NEW q \in Nat, q < size, is_digit(peek(q)),
         NEW opening \in Bytes, Spelt \o opening = Upto(q),
         opening = IF use # "int" THEN <<>>
                   ELSE IF negative THEN <<ch_i>> \o <<Minus>> ELSE <<ch_i>>,
         parse_unsigned(use, negative, q)
  PROVE  SpelledInv'
<1>1. CASE LeadingZero(q)
  BY <1>1, FailSpells DEF parse_unsigned, Reject, bencode_status
<1>2. CASE ~(LeadingZero(q))
  <2> DEFINE d == digit(peek(q))
  <2>1. /\ pc' = "digits" /\ p' = q + 1 /\ call' = call /\ events' = events
        /\ num' = [use |-> use, negative |-> negative, acc |-> d,
                   max_mag |-> MaxMagnitude(use, negative)]
    BY <1>2 DEF parse_unsigned
  <2>2. d \in 0..9 /\ <<peek(q)>> = <<Zero + d>>
    BY InputFacts DEF IInv, is_digit, digit, Zero
  <2>3. Decimal[d] = <<peek(q)>> /\ Decimal[d] \in Bytes
    <3>1. d \in Nat
      BY <2>2
    <3> HIDE DEF d
    <3> QED BY <2>2, <3>1, DecimalGrows
  <2>4. NumberStart' = opening /\ num'.acc = d
    BY <2>1 DEF NumberStart
  <2>5. Spelt \in Bytes
    BY SpellingType DEF IInv
  <2>6. Spelt \o (opening \o Decimal[d]) = Upto(q + 1)
    <3>1. Upto(q) \o <<peek(q)>> = Upto(q + 1)
      BY ReadByte DEF IInv
    <3>2. (Spelt \o opening) \o Decimal[d] = Spelt \o (opening \o Decimal[d])
      BY <2>3, <2>5, BytesAssociative
    <3> QED BY <2>3, <3>1, <3>2
  <2>7. Spelt' = Spelt /\ BytesRead' = Upto(q + 1)
    BY <2>1 DEF Spelt, BytesRead, Upto
  <2>8. d = 0 => ~DigitAt(p)'
    BY <1>2, <2>1, <2>2 DEF LeadingZero, Zero, DigitAt, at_end, peek, size, digit
  <2> HIDE DEF d
  <2> QED BY <2>1, <2>4, <2>6, <2>7, <2>8 DEF SpelledInv, RoundTrip, InCallback
<1> QED BY <1>1, <1>2

---------------------------------------------------------------------------
(* Spelling: the actions.                                                  *)

LEMMA NumberStartIsBytes ==
  ASSUME TypeOK
  PROVE  NumberStart \in Bytes
<1>1. <<ch_i>> \in Bytes /\ <<Minus>> \in Bytes
  BY OneByte DEF Byte, ch_i, Minus
<1>2. <<ch_i>> \o <<Minus>> \in Bytes
  BY <1>1, BytesConcat
<1>3. <<>> \in Bytes
  BY EmptySeq DEF Bytes
<1> QED BY <1>1, <1>2, <1>3 DEF NumberStart

\* A number whose digits go on is not a 0.
LEMMA AccumulateSpells ==
  ASSUME IInv, SpelledInv, Accumulate
  PROVE  SpelledInv'
<1> DEFINE d == digit(peek(p))
<1>0. pc = "digits" /\ DigitAt(p) /\ size \in Nat /\ p \in Nat /\ p < size /\ is_digit(peek(p))
  BY InputFacts DEF IInv, TypeOK, Accumulate, DigitAt, at_end
<1>1. d \in 0..9 /\ <<peek(p)>> = <<Zero + d>>
  BY <1>0, InputFacts DEF IInv, is_digit, digit, Zero
<1>2. /\ num \in Number /\ num.max_mag = MaxMagnitude(num.use, num.negative)
      /\ num.acc \in Nat /\ num.acc <= num.max_mag /\ num.acc # 0
  BY <1>0 DEF IInv, TypeOK, NumberInv, NumbersInRange, Number, SpelledInv
<1>3. num.max_mag \in Nat /\ 9 <= num.max_mag /\ num.max_mag < UINT64_RANGE
  BY <1>2, Magnitudes
<1>4. CASE WouldOverflow(num.acc, d, num.max_mag)
  <2>1. Reject("INTEGER_OVERFLOW", p)
    BY <1>4 DEF Accumulate
  <2> QED BY <2>1, FailSpells DEF Reject, bencode_status
<1>5. CASE ~WouldOverflow(num.acc, d, num.max_mag)
  <2> DEFINE acc == num.acc * 10 + d
  <2>1. num' = [num EXCEPT !.acc = acc % UINT64_RANGE] /\ p' = p + 1 /\ UNCHANGED <<call, pc, events>>
    BY <1>5 DEF Accumulate
  <2>2. acc \in Nat /\ acc <= num.max_mag /\ acc # 0
    BY <1>1, <1>2, <1>3, <1>5, GuardIsExact
  <2>3. acc % UINT64_RANGE = acc
    BY <1>3, <2>2, NoWrap, WidthAssumption
  <2>4. Decimal[acc] = Decimal[num.acc] \o <<peek(p)>> /\ Decimal[num.acc] \in Bytes
    <3>1. num.acc \in Nat \ {0}
      BY <1>2
    <3> HIDE DEF d
    <3> QED BY <1>1, <3>1, DecimalGrows
  <2> HIDE DEF acc
  <2>5. num'.acc = acc /\ NumberStart' = NumberStart
    BY <1>2, <2>1, <2>3 DEF Number, NumberStart
  <2>6. NumberStart \in Bytes
    BY NumberStartIsBytes DEF IInv
  <2>7. Spelt \o (NumberStart \o Decimal[acc]) = (Spelt \o (NumberStart \o Decimal[num.acc])) \o <<peek(p)>>
    <3>1. Spelt \in Bytes /\ <<peek(p)>> \in Bytes
      BY <1>0, SpellingType, ReadByte DEF IInv
    <3>2. NumberStart \o Decimal[num.acc] \in Bytes
      BY <2>4, <2>6, BytesConcat
    <3>3. NumberStart \o (Decimal[num.acc] \o <<peek(p)>>) = (NumberStart \o Decimal[num.acc]) \o <<peek(p)>>
      BY <2>4, <2>6, <3>1, BytesAssociative
    <3>4. Spelt \o ((NumberStart \o Decimal[num.acc]) \o <<peek(p)>>)
            = (Spelt \o (NumberStart \o Decimal[num.acc])) \o <<peek(p)>>
      BY <3>1, <3>2, BytesAssociative
    <3> QED BY <2>4, <3>3, <3>4
  <2>8. Spelt \o (NumberStart \o Decimal[num.acc]) = Upto(p)
    BY <1>0 DEF SpelledInv, BytesRead, Upto
  <2>9. Upto(p) \o <<peek(p)>> = Upto(p + 1)
    BY <1>0, ReadByte DEF IInv
  <2>10. Spelt' = Spelt /\ BytesRead' = Upto(p + 1)
    BY <2>1 DEF Spelt, BytesRead, Upto
  <2> QED BY <1>0, <2>1, <2>2, <2>5, <2>7, <2>8, <2>9, <2>10 DEF SpelledInv, RoundTrip, InCallback
<1> QED BY <1>4, <1>5

\* Where the digits have ended: all of the number, then its terminator.
LEMMA TerminatorRead ==
  ASSUME IInv, SpelledInv, NEW use, DigitsEnd(use), NEW b, Terminated(b) = "OK"
  PROVE  /\ Spelt \in Bytes /\ NumberStart \in Bytes /\ <<b>> \in Bytes
         /\ num.acc \in Nat /\ Decimal[num.acc] \in Bytes
         /\ p + 1 \in Nat /\ p + 1 <= size
         /\ Spelt \o ((NumberStart \o Decimal[num.acc]) \o <<b>>) = Upto(p + 1)
<1>1. p \in Nat /\ p < size /\ size \in Nat /\ peek(p) = b
  BY InputFacts DEF IInv, TypeOK, Terminated, at_end
<1>2. Spelt \in Bytes /\ <<b>> \in Bytes /\ Upto(p) \o <<b>> = Upto(p + 1)
  BY <1>1, ReadByte, SpellingType DEF IInv
<1>3. NumberStart \in Bytes
  BY NumberStartIsBytes DEF IInv
<1>4. num.acc \in Nat /\ Decimal[num.acc] \in Bytes
  BY DigitsFacts, DecimalGrows
<1>5. Spelt \o (NumberStart \o Decimal[num.acc]) = Upto(p)
  BY DEF DigitsEnd, SpelledInv, BytesRead, Upto
<1>6. NumberStart \o Decimal[num.acc] \in Bytes
  BY <1>3, <1>4, BytesConcat
<1>7. (Spelt \o (NumberStart \o Decimal[num.acc])) \o <<b>>
        = Spelt \o ((NumberStart \o Decimal[num.acc]) \o <<b>>)
  BY <1>2, <1>6, BytesAssociative
<1>8. Spelt \o ((NumberStart \o Decimal[num.acc]) \o <<b>>) = Upto(p + 1)
  BY <1>2, <1>5, <1>7
<1>9. p + 1 \in Nat /\ p + 1 <= size
  BY <1>1
<1> QED BY <1>2, <1>3, <1>4, <1>8, <1>9

\* An integer is spelt as it was read.
LEMMA FinishIntSpells ==
  ASSUME IInv, SpelledInv, FinishInt
  PROVE  SpelledInv'
<1> DEFINE st == IF num.negative /\ num.acc = 0 THEN "INTEGER_FORMAT" ELSE Terminated(ch_e)
           value == IF num.negative THEN -num.acc ELSE num.acc
           e == Event("on_int", value, <<>>)
<1>0. DigitsEnd("int")
  BY DEF FinishInt
<1>1. CASE st # "OK"
  <2>1. Reject(st, p)
    BY <1>1 DEF FinishInt
  <2>2. st \in bencode_status \ {"OK"}
    BY <1>1, TerminatedFacts DEF bencode_status
  <2> QED BY <2>1, <2>2, FailSpells DEF Reject
<1>2. CASE st = "OK"
  <2>1. Recognise(e, TRUE, scopes, p + 1)
    BY <1>2 DEF FinishInt
  <2>2. Terminated(ch_e) = "OK" /\ (num.negative => num.acc # 0)
    BY <1>2
  <2>3. /\ num.acc \in Nat /\ Decimal[num.acc] \in Bytes /\ <<ch_e>> \in Bytes
        /\ Spelt \o ((NumberStart \o Decimal[num.acc]) \o <<ch_e>>) = Upto(p + 1)
    BY <1>0, <2>2, TerminatorRead
  <2>4. num.use = "int" /\ num.negative \in BOOLEAN
    BY <1>0, DigitsFacts DEF Number
  <2>5. Encode(e) = EncodeInt(value)
    BY DEF Encode, Event
  <2>6. EncodeInt(value) = (NumberStart \o Decimal[num.acc]) \o <<ch_e>>
    <3>1. CASE num.negative
      <4>1. value = -num.acc /\ value < 0 /\ -value = num.acc
        BY <2>2, <2>3, <3>1
      <4>2. NumberStart = <<ch_i>> \o <<Minus>>
        BY <2>4, <3>1 DEF NumberStart
      <4>3. <<ch_i>> \in Bytes /\ <<Minus>> \in Bytes
        BY OneByte DEF Byte, ch_i, Minus
      <4>4. NumberStart \o Decimal[num.acc] = <<ch_i>> \o (<<Minus>> \o Decimal[num.acc])
        BY <2>3, <4>2, <4>3, BytesAssociative
      <4>5. EncodeInt(value) = (<<ch_i>> \o (<<Minus>> \o Decimal[num.acc])) \o <<ch_e>>
        <5> HIDE DEF value
        <5> QED BY <4>1 DEF EncodeInt
      <4> QED BY <4>4, <4>5
    <3>2. CASE ~num.negative
      <4>1. value = num.acc /\ ~(value < 0)
        BY <2>3, <3>2
      <4>2. NumberStart = <<ch_i>>
        BY <2>4, <3>2 DEF NumberStart
      <4>3. EncodeInt(value) = (<<ch_i>> \o Decimal[num.acc]) \o <<ch_e>>
        <5> HIDE DEF value
        <5> QED BY <4>1 DEF EncodeInt
      <4> QED BY <4>2, <4>3
    <3> QED BY <2>4, <3>1, <3>2
  <2>7. e \in EventType
    BY <2>3, BytesEmpty DEF EventType, Event, Hooks, Bytes
  <2> HIDE DEF e, value
  <2> QED BY <2>1, <2>3, <2>5, <2>6, <2>7, RecogniseSpells DEF IInv
<1> QED BY <1>1, <1>2

\* So are a string and a key: the prefix is the length of what follows it.
LEMMA PayloadSpells ==
  ASSUME IInv, SpelledInv, NEW use \in {"string", "key"}, DigitsEnd(use),
         Terminated(Colon) = "OK", Payload(num.acc, p + 1),
         NEW completes, NEW sc,
         Recognise(Event("on_string", 0, Slice(p + 1, num.acc)), completes, sc, p + 1 + num.acc)
  PROVE  SpelledInv'
<1> DEFINE s == Slice(p + 1, num.acc)
           e == Event("on_string", 0, s)
           prefix == Decimal[num.acc] \o <<Colon>>
<1>1. /\ Spelt \in Bytes /\ Decimal[num.acc] \in Bytes /\ <<Colon>> \in Bytes
      /\ num.acc \in Nat /\ p + 1 \in Nat /\ p + 1 <= size
      /\ Spelt \o ((NumberStart \o Decimal[num.acc]) \o <<Colon>>) = Upto(p + 1)
  BY TerminatorRead
<1>2. NumberStart \o Decimal[num.acc] = Decimal[num.acc]
  <2>1. NumberStart = <<>>
    BY DEF NumberStart, DigitsEnd
  <2> QED BY <1>1, <2>1, BytesEmpty
<1>3. p + 1 + num.acc <= size /\ size \in Nat
  BY <1>1, InputFacts DEF IInv, Payload
<1>4. s \in Bytes /\ Len(s) = num.acc /\ Upto(p + 1) \o s = Upto(p + 1 + num.acc)
  BY <1>1, <1>3, ReadGrows DEF IInv
<1>5. e \in EventType
  BY <1>4, StringEvent
<1>6. prefix \in Bytes
  BY <1>1, BytesConcat
<1>7. Encode(e) = prefix \o s
  <2>1. e.hook = "on_string" /\ e.bytes = s
    BY DEF Event
  <2> HIDE DEF e, s
  <2> QED BY <1>4, <2>1 DEF Encode, EncodeString
<1>8. Spelt \o Encode(e) = Upto(p + 1 + num.acc)
  <2> HIDE DEF e, s, prefix
  <2>1. Spelt \o (prefix \o s) = (Spelt \o prefix) \o s
    <3>1. Spelt \in Bytes /\ prefix \in Bytes /\ s \in Bytes
      BY <1>1, <1>4, <1>6
    <3> QED BY <3>1, BytesAssociative
  <2>2. Spelt \o prefix = Upto(p + 1)
    BY <1>1, <1>2 DEF prefix
  <2> QED BY <1>4, <1>7, <2>1, <2>2
<1> HIDE DEF e
<1> QED BY <1>5, <1>8, RecogniseSpells DEF IInv, e

\* The other events are a byte each, which has been read.
LEMMA BracketSpells ==
  ASSUME IInv, SpelledInv, pc \in {"value", "body"}, p < size,
         NEW hook \in Hooks \ {"on_int", "on_string"}, Encode(Event(hook, 0, <<>>)) = <<peek(p)>>,
         NEW completes, NEW sc, Recognise(Event(hook, 0, <<>>), completes, sc, p + 1)
  PROVE  SpelledInv'
<1>1. Spelt = Upto(p)
  BY DEF SpelledInv, RoundTrip, BytesRead, Upto
<1>2. Upto(p) \o <<peek(p)>> = Upto(p + 1)
  BY ReadByte DEF IInv, TypeOK
<1>3. Event(hook, 0, <<>>) \in EventType
  BY ContainerEvent
<1> QED BY <1>1, <1>2, <1>3, RecogniseSpells DEF IInv

\* A number begins where the last event ended, after its opening if it is an
\* integer.
LEMMA ParseIntSpells ==
  ASSUME IInv, SpelledInv, parse_int
  PROVE  SpelledInv'
<1> DEFINE negative == ~at_end(p + 1) /\ peek(p + 1) = Minus
           q == IF negative THEN p + 2 ELSE p + 1
           opening == IF negative THEN <<ch_i>> \o <<Minus>> ELSE <<ch_i>>
<1>1. /\ p \in Nat /\ size \in Nat /\ p < size /\ peek(p) = ch_i /\ Spelt = Upto(p)
  BY ValueFacts, InputFacts
     DEF IInv, parse_int, ExpectValue, InBody, SpelledInv, RoundTrip, BytesRead, Upto
<1>2. CASE Reject("TRUNCATED", q) \/ Reject("INTEGER_FORMAT", q)
  BY <1>2, FailSpells DEF Reject, bencode_status
<1>3. CASE ~at_end(q) /\ is_digit(peek(q)) /\ parse_unsigned("int", negative, q)
  <2>1. q \in Nat /\ q < size
    BY <1>1, <1>3 DEF at_end
  <2>2. <<ch_i>> \in Bytes /\ <<Minus>> \in Bytes
    BY OneByte DEF Byte, ch_i, Minus
  <2>3. opening \in Bytes
    BY <2>2, BytesConcat
  <2>4. Upto(p) \in Bytes /\ Upto(p) \o <<ch_i>> = Upto(p + 1)
    BY <1>1, ReadByte DEF IInv
  <2>5. Spelt \o opening = Upto(q)
    <3>1. CASE negative
      <4>1. p + 1 \in Nat /\ p + 1 < size /\ peek(p + 1) = Minus
        BY <1>1, <3>1 DEF at_end
      <4>2. Upto(p + 1) \o <<Minus>> = Upto(p + 2)
        <5>1. p + 1 + 1 = p + 2
          BY <1>1
        <5>2. Upto(p + 1) \o <<peek(p + 1)>> = Upto(p + 1 + 1)
          BY <4>1, ReadByte DEF IInv
        <5> QED BY <4>1, <5>1, <5>2
      <4>3. Upto(p) \o (<<ch_i>> \o <<Minus>>) = (Upto(p) \o <<ch_i>>) \o <<Minus>>
        BY <2>2, <2>4, BytesAssociative
      <4> QED BY <1>1, <2>4, <3>1, <4>2, <4>3
    <3>2. CASE ~negative
      BY <1>1, <2>4, <3>2
    <3> QED BY <3>1, <3>2
  <2>6. negative \in BOOLEAN
    OBVIOUS
  <2>7. opening = IF "int" # "int" THEN <<>>
                  ELSE IF negative THEN <<ch_i>> \o <<Minus>> ELSE <<ch_i>>
    OBVIOUS
  <2> HIDE DEF negative, q, opening
  <2> QED BY <1>3, <2>1, <2>3, <2>5, <2>6, <2>7, UnsignedSpells
<1> QED BY <1>2, <1>3 DEF parse_int

LEMMA ParseLengthSpells ==
  ASSUME IInv, SpelledInv, NEW use \in {"string", "key"}, pc \in {"value", "body"}, p < size,
         is_digit(peek(p)), parse_unsigned(use, FALSE, p)
  PROVE  SpelledInv'
<1>1. Spelt = Upto(p) /\ p \in Nat
  BY DEF SpelledInv, RoundTrip, BytesRead, Upto, IInv, TypeOK
<1>2. Spelt \o <<>> = Spelt /\ <<>> \in Bytes
  BY SpellingType, BytesEmpty DEF IInv
<1> QED BY <1>1, <1>2, UnsignedSpells

\* The return of a callback reads and reports nothing.
LEMMA ResumeSpells ==
  ASSUME SpelledInv, NEW st \in {"OK"} \cup CallbackErrors, Resume(st)
  PROVE  SpelledInv'
<1>1. CASE st # "OK"
  BY <1>1, FailSpells, CallbackAssumption DEF Resume
<1>2. CASE st = "OK"
  <2>1. Spelt = BytesRead
    BY DEF Resume, SpelledInv, RoundTrip
  <2>2. UNCHANGED <<call, events, p>> /\ pc' # "digits"
    BY <1>2 DEF Resume, Proceed
  <2> QED BY <2>1, <2>2 DEF SpelledInv, RoundTrip, Spelt, BytesRead
<1> QED BY <1>1, <1>2

\* Every step of a call keeps what has been reported equal to what was read.
LEMMA NextSpells ==
  ASSUME IInv, SpelledInv, [Next]_vars
  PROVE  SpelledInv'
<1>0. ExpectValue \/ InBody => pc \in {"value", "body"} /\ p < size
  BY InputFacts DEF ExpectValue, InBody, IInv, TypeOK, ControlInv, at_end
<1>1. CASE RejectArguments
  BY <1>1 DEF RejectArguments, SpelledInv, RoundTrip, InCallback
<1>2. CASE Start
  <2>1. p' = 0 /\ events' = <<>> /\ call' = call /\ pc' = "value"
    BY <1>2 DEF Start, IInv, ControlInv
  <2>2. Spelt' = <<>> /\ BytesRead' = <<>>
    BY <2>1, NothingSpelt, SubSeqEmpty DEF Spelt, BytesRead
  <2> QED BY <2>1, <2>2 DEF SpelledInv, RoundTrip
<1>3. CASE Accumulate
  BY <1>3, AccumulateSpells
<1>4. CASE FinishInt
  BY <1>4, FinishIntSpells
<1>5. CASE FinishString
  <2>1. CASE \E st \in bencode_status \ {"OK"}, q \in {p, p + 1} : Reject(st, q)
    BY <2>1, FailSpells DEF Reject
  <2>2. CASE ~ \E st \in bencode_status \ {"OK"}, q \in {p, p + 1} : Reject(st, q)
    <3>1. Terminated(Colon) \in bencode_status /\ "STRING_LENGTH" \in bencode_status \ {"OK"}
      BY TerminatedFacts DEF bencode_status
    <3>2. /\ DigitsEnd("string") /\ Terminated(Colon) = "OK" /\ Payload(num.acc, p + 1)
          /\ Recognise(Event("on_string", 0, Slice(p + 1, num.acc)), TRUE,
                       scopes, p + 1 + num.acc)
      BY <1>5, <2>2, <3>1 DEF FinishString
    <3> QED BY <3>2, PayloadSpells
  <2> QED BY <2>1, <2>2
<1>6. CASE FinishKey
  <2> DEFINE key == Slice(p + 1, num.acc)
             ord == KeyOrder(Last(scopes).last_key, key)
  <2>1. CASE \E q : \E st \in bencode_status \ {"OK"} : Reject(st, q)
    BY <2>1, FailSpells DEF Reject
  <2>2. CASE ~ \E q : \E st \in bencode_status \ {"OK"} : Reject(st, q)
    <3>1. /\ Terminated(Colon) \in bencode_status /\ "STRING_LENGTH" \in bencode_status \ {"OK"}
          /\ ord \in bencode_status
      BY TerminatedFacts DEF bencode_status, KeyOrder
    <3>2. /\ DigitsEnd("key") /\ Terminated(Colon) = "OK" /\ Payload(num.acc, p + 1)
          /\ Recognise(Event("on_string", 0, key), FALSE,
                       AddKey(scopes, key), p + 1 + num.acc)
      BY <1>6, <2>2, <3>1 DEF FinishKey
    <3> QED BY <3>2, PayloadSpells
  <2> QED BY <2>1, <2>2
<1>7. CASE parse_int
  BY <1>7, ParseIntSpells
<1>8. CASE parse_string
  BY <1>0, <1>8, ParseLengthSpells DEF parse_string
<1>9. CASE parse_list \/ parse_dict
  <2>1. PICK is_dict \in BOOLEAN, hook \in {"on_list_begin", "on_dict_begin"} :
           Open(is_dict, hook) /\ Encode(Event(hook, 0, <<>>)) = <<peek(p)>>
    <3>1. /\ Encode(Event("on_list_begin", 0, <<>>)) = <<ch_l>>
          /\ Encode(Event("on_dict_begin", 0, <<>>)) = <<ch_d>>
      BY DEF Encode, Event
    <3> QED BY <1>9, <3>1 DEF parse_list, parse_dict
  <2>2. ExpectValue
    BY <1>9 DEF parse_list, parse_dict
  <2>3. CASE Reject("NESTING_TOO_DEEP", p + 1)
    BY <2>3, FailSpells DEF Reject, bencode_status
  <2>4. CASE Recognise(Event(hook, 0, <<>>), FALSE, Append(scopes, NewScope(is_dict)), p + 1)
    BY <1>0, <2>1, <2>2, <2>4, BracketSpells DEF Hooks
  <2> QED BY <2>1, <2>3, <2>4 DEF Open
<1>10. CASE UnexpectedByte \/ BodyTruncated
  BY <1>10, FailSpells DEF UnexpectedByte, BodyTruncated, Reject, bencode_status
<1>11. CASE CloseList \/ CloseDict
  <2>1. CASE Reject("DICT_MISSING_VALUE", p)
    BY <2>1, FailSpells DEF Reject, bencode_status
  <2>2. CASE ~Reject("DICT_MISSING_VALUE", p)
    <3>1. PICK hook \in {"on_list_end", "on_dict_end"} : Close(hook)
      BY <1>11, <2>2 DEF CloseList, CloseDict
    <3>2. Encode(Event(hook, 0, <<>>)) = <<peek(p)>>
      BY <1>11, <3>1 DEF CloseList, CloseDict, Encode, Event
    <3>3. InBody
      BY <1>11 DEF CloseList, CloseDict
    <3> QED BY <1>0, <3>1, <3>2, <3>3, BracketSpells DEF Close, Hooks
  <2> QED BY <2>1, <2>2
<1>12. CASE parse_dict_key
  <2>1. CASE Reject("DICT_BAD_KEY", p)
    BY <2>1, FailSpells DEF Reject, bencode_status
  <2>2. CASE is_digit(peek(p)) /\ parse_unsigned("key", FALSE, p)
    BY <1>0, <1>12, <2>2, ParseLengthSpells DEF parse_dict_key
  <2> QED BY <1>12, <2>1, <2>2 DEF parse_dict_key
<1>13. CASE SkipCallback \/ Callback
  BY <1>13, ResumeSpells DEF SkipCallback, Callback
<1>14. CASE HandUp \/ ReportError
  BY <1>14 DEF HandUp, ReportError, IInv, ControlInv, SpelledInv, RoundTrip, InCallback
<1>15. CASE UNCHANGED vars
  BY <1>15 DEF vars, SpelledInv, RoundTrip, InCallback, Spelt, BytesRead, NumberStart,
              DigitAt, at_end, peek, size
<1> QED BY <1>1, <1>2, <1>3, <1>4, <1>5, <1>6, <1>7, <1>8, <1>9, <1>10, <1>11,
           <1>12, <1>13, <1>14, <1>15 DEF Next, Parse

\* What the two theorems below rest on: between events, too, what has been
\* reported and what has been read differ only by the number in progress.
LEMMA SpellingInvariance == Spec => []SpelledInv
<1>1. Init => SpelledInv
  BY DEF Init, AtEntry, SpelledInv, RoundTrip, InCallback
<1>2. IInv /\ SpelledInv /\ [Next]_vars => SpelledInv'
  BY NextSpells
<1> QED BY <1>1, <1>2, Invariance, PTL DEF Spec

\* Whatever the input and the integer widths, the events of a call spell, byte
\* for byte, the input up to the cursor; so a call that returns OK has lost,
\* invented and altered nothing, and what it accepts is spelt canonically.
THEOREM EventsSpellInput == Spec => []RoundTrip
<1>1. SpelledInv => RoundTrip
  BY DEF SpelledInv
<1> QED BY <1>1, SpellingInvariance, PTL

---------------------------------------------------------------------------
(* Callbacks that refuse.                                                  *)

\* Nothing is left to do after an error but to hand it up.
LEMMA ErrorSteps ==
  ASSUME Next, pc \in {"unwind", "done"}
  PROVE  HandUp \/ ReportError
BY DEF Next, Parse, RejectArguments, Start, Accumulate, FinishInt, FinishString,
       FinishKey, DigitsEnd, parse_int, parse_string, parse_list, parse_dict,
       UnexpectedByte, BodyTruncated, CloseList, CloseDict, parse_dict_key,
       SkipCallback, Callback, Resume, InCallback, ExpectValue, InBody

\* Only the return of a callback changes callback_status.
LEMMA ParserKeepsAnswer ==
  ASSUME Parse
  PROVE  UNCHANGED callback_status \/ Resume("OK")
BY DEF Parse, RejectArguments, Start, Accumulate, FinishInt, FinishString,
       FinishKey, parse_int, parse_string, parse_list, parse_dict,
       UnexpectedByte, BodyTruncated, CloseList, CloseDict, parse_dict_key,
       SkipCallback, Reject, Recognise, parse_unsigned, Open, Close,
       HandUp, ReportError

\* Whichever callback refuses, and however many containers are open around it,
\* no other is called, its status comes through every one of them to the
\* caller, and the offset reported is the end of what was reported to it.
THEOREM AbortsAreFinal == Spec => []AbortIsFinal
<1>1. Init => AbortIsFinal
  BY DEF Init, AtEntry, AbortIsFinal
<1>2. ASSUME IInv, SpelledInv, AbortIsFinal, Next, callback_status' # "OK"
      PROVE  /\ pc' \in {"unwind", "done"} /\ status' = callback_status'
             /\ events' # <<>> /\ Last(events').hook \in call'.hooks
             /\ Spelt' = SubSeq(call'.input, 1, IF pc' = "done" THEN consumed' ELSE p')
  <2>1. CASE callback_status # "OK"
    <3>1. /\ pc \in {"unwind", "done"} /\ status = callback_status
          /\ events # <<>> /\ Last(events).hook \in call.hooks
          /\ Spelt = SubSeq(call.input, 1, IF pc = "done" THEN consumed ELSE p)
      BY <1>2, <2>1 DEF AbortIsFinal
    <3>2. /\ UNCHANGED <<call, p, events, status, callback_status>> /\ pc = "unwind"
          /\ pc' = "unwind" \/ (pc' = "done" /\ consumed' = p)
      BY <1>2, <3>1, ErrorSteps DEF HandUp, ReportError
    <3>3. Spelt' = Spelt
      BY <3>2 DEF Spelt
    <3> QED BY <3>1, <3>2, <3>3
  <2>2. CASE callback_status = "OK"
    <3>1. Callback
      BY <1>2, <2>2, ParserKeepsAnswer DEF Next, Resume
    <3>2. PICK st : Resume(st) /\ st # "OK"
      BY <1>2, <3>1 DEF Callback, Resume
    <3>3. /\ pc' = "unwind" /\ status' = st /\ callback_status' = st
          /\ UNCHANGED <<call, p, events>>
      BY <3>2 DEF Resume, Fail
    <3>4. events # <<>> /\ Last(events).hook \in call.hooks
      BY <1>2, <3>1 DEF Callback, IInv, ControlInv
    <3>5. Spelt = SubSeq(call.input, 1, p)
      BY <1>2, <3>1 DEF Callback, SpelledInv, RoundTrip, BytesRead
    <3>6. Spelt' = Spelt
      BY <3>3 DEF Spelt
    <3> QED BY <3>3, <3>4, <3>5, <3>6
  <2> QED BY <2>1, <2>2
<1>3. ASSUME AbortIsFinal, UNCHANGED vars
      PROVE  AbortIsFinal'
  BY <1>3 DEF AbortIsFinal, vars, Spelt
<1>4. IInv /\ SpelledInv /\ AbortIsFinal /\ [Next]_vars => AbortIsFinal'
  <2>1. IInv /\ SpelledInv /\ AbortIsFinal /\ Next => AbortIsFinal'
    BY <1>2 DEF AbortIsFinal
  <2> QED BY <1>3, <2>1
<1> QED BY <1>1, <1>4, Invariance, SpellingInvariance, PTL DEF Spec

===========================================================================
