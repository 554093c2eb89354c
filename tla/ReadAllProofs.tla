---------------------------- MODULE ReadAllProofs ----------------------------
(***************************************************************************)
(* read_all returns the whole input or nothing, for every input, first     *)
(* capacity and largest size, however reads and allocations fail.          *)
(***************************************************************************)
EXTENDS ReadAll, SequenceTheorems, TLAPS

StreamType ==
  [data : Contents, pos : Nat, error : BOOLEAN, stdin : BOOLEAN, open : BOOLEAN]

BufferType == [held : BOOLEAN, cap : Nat, bytes : Seq(Nat)]

ReadTypeOK ==
  /\ fp \in StreamType /\ fp.pos <= Len(fp.data)
  /\ buf \in BufferType
  /\ read_pc \in {"open", "malloc", "loop", "close", "returned"}
  /\ read_rc \in {0, 1}

\* What a failure leaves, and that the stream is closed but by the return.
Tidy ==
  /\ read_pc = "open" => ~fp.open
  /\ read_pc \in {"close", "returned"} => (buf.held <=> read_rc = 0)
  /\ read_pc \in {"open", "malloc"} => ~buf.held
  /\ read_pc = "returned" => (fp.open => fp.stdin)

ReadInv == ReadTypeOK /\ Accounted /\ WholeInput /\ Tidy

---------------------------------------------------------------------------

\* Whatever it returns, fread goes from one stream to another of the same data.
LEMMA FreadStream ==
  ASSUME ReadTypeOK, Accounted, read_pc = "loop", NEW got, Fread(got)
  PROVE  /\ got \in Nat /\ fp.pos + got <= Len(fp.data)
         /\ fp' \in StreamType /\ fp'.data = fp.data /\ fp'.pos <= Len(fp'.data)
         /\ ~fp'.error => ~fp.error /\ fp'.pos = fp.pos + got
         /\ ~fp'.error => got = buf.cap - len \/ fp'.pos = Len(fp.data)
<1> DEFINE room == buf.cap - len
           left == Len(fp.data) - fp.pos
<1>1. /\ fp \in StreamType /\ Len(fp.data) \in Nat /\ fp.pos \in Nat
      /\ room \in Nat /\ left \in Nat
  BY ReadAssumption DEF ReadTypeOK, StreamType, BufferType, len, Accounted
<1> HIDE DEF room, left
<1>2. got \in Nat /\ got <= left
  <2>1. got \in 0..(IF left < room THEN left ELSE room)
    BY Zenon DEF Fread, room, left
  <2> QED BY <1>1, <2>1
<1>3. CASE fp' = [fp EXCEPT !.pos = @ + got] /\ got = IF left < room THEN left ELSE room
  BY <1>1, <1>2, <1>3 DEF StreamType, room, left
<1>4. CASE \E skipped \in 0..(left - got) :
             fp' = [fp EXCEPT !.pos = @ + got + skipped, !.error = TRUE]
  <2>1. PICK skipped \in 0..(left - got) :
          fp' = [fp EXCEPT !.pos = @ + got + skipped, !.error = TRUE]
    BY <1>4
  <2>2. fp.pos + got + skipped \in Nat /\ fp.pos + got + skipped <= Len(fp.data)
    BY <1>1, <1>2, <2>1 DEF left
  <2>3. fp'.error = TRUE /\ fp'.data = fp.data /\ fp'.pos = fp.pos + got + skipped
    BY <1>1, <2>1 DEF StreamType
  <2>4. fp' \in StreamType
    BY <1>1, <2>1, <2>2 DEF StreamType
  <2> QED BY <1>1, <1>2, <2>2, <2>3, <2>4 DEF left
<1> QED BY <1>3, <1>4 DEF Fread, room, left

\* What a read appends lies just behind what the buffer has.
LEMMA Contiguous ==
  ASSUME ReadTypeOK, NEW got \in Nat, fp.pos + got <= Len(fp.data)
  PROVE  /\ SubSeq(fp.data, fp.pos + 1, fp.pos + got) \in Seq(Nat)
         /\ Len(SubSeq(fp.data, fp.pos + 1, fp.pos + got)) = got
         /\ SubSeq(fp.data, 1, fp.pos) \o SubSeq(fp.data, fp.pos + 1, fp.pos + got)
              = SubSeq(fp.data, 1, fp.pos + got)
<1>1. fp.data \in Seq(Nat) /\ fp.pos \in Nat /\ Len(fp.data) \in Nat
  BY ReadAssumption DEF ReadTypeOK, StreamType
<1>2. \A k \in (fp.pos + 1)..(fp.pos + got) : fp.data[k] \in Nat
  BY <1>1
<1>3. /\ SubSeq(fp.data, fp.pos + 1, fp.pos + got) \in Seq(Nat)
      /\ Len(SubSeq(fp.data, fp.pos + 1, fp.pos + got)) = got
  BY <1>1, <1>2, SubSeqProperties
<1>4. /\ 1 \in 1..(Len(fp.data) + 1)
      /\ fp.pos \in (1 - 1)..Len(fp.data)
      /\ fp.pos + got \in fp.pos..Len(fp.data)
  BY <1>1 DEF ReadTypeOK
<1>5. SubSeq(fp.data, 1, fp.pos) \o SubSeq(fp.data, fp.pos + 1, fp.pos + got)
        = SubSeq(fp.data, 1, fp.pos + got)
  BY <1>1, <1>4, ConcatAdjacentSubSeq
<1> QED BY <1>3, <1>5

---------------------------------------------------------------------------

LEMMA ReadInitial == ReadInit => ReadInv
<1> SUFFICES ASSUME ReadInit PROVE ReadInv
  OBVIOUS
<1>1. fp \in StreamType /\ fp.pos = 0 /\ ~fp.error /\ ~fp.open
  <2>1. fp \in [data : Contents, pos : {0}, error : {FALSE}, stdin : BOOLEAN, open : {FALSE}]
    BY DEF ReadInit
  <2>2. fp.pos = 0
    BY <2>1
  <2>3. fp.error \in {FALSE} /\ fp.open \in {FALSE}
    BY <2>1
  <2>4. fp \in StreamType
    <3>1. fp = [data |-> fp.data, pos |-> fp.pos, error |-> fp.error,
                stdin |-> fp.stdin, open |-> fp.open]
      BY <2>1
    <3>2. fp.data \in Contents /\ fp.pos \in Nat
      BY <2>1, <2>2
    <3>3. fp.stdin \in BOOLEAN
      BY <2>1, Zenon
    <3>4. fp.error \in BOOLEAN /\ fp.open \in BOOLEAN
      BY <2>3, Zenon
    <3> QED BY <3>1, <3>2, <3>3, <3>4, Zenon DEF StreamType
  <2> QED BY <2>2, <2>3, <2>4
<1>2. Len(fp.data) \in Nat
  BY <1>1, ReadAssumption DEF StreamType
<1>3. buf \in BufferType /\ buf.held = FALSE
  BY DEF ReadInit, NoBuffer, BufferType
<1> QED
  BY <1>1, <1>2, <1>3 DEF ReadInit, ReadInv, ReadTypeOK, Accounted, WholeInput, Tidy

LEMMA OpenPreserves ==
  ASSUME ReadInv, open_input
  PROVE  ReadInv'
<1>1. CASE fp' = [fp EXCEPT !.open = TRUE] /\ read_pc' = "malloc" /\ UNCHANGED <<read_rc, buf>>
  <2>1. fp' \in StreamType /\ fp'.data = fp.data /\ fp'.pos = fp.pos /\ fp'.error = fp.error
    BY <1>1 DEF ReadInv, ReadTypeOK, StreamType
  <2> QED
    BY <1>1, <2>1 DEF open_input, ReadInv, ReadTypeOK, Accounted, WholeInput, Tidy, len
<1>2. CASE read_pc' = "returned" /\ read_rc' = 1 /\ UNCHANGED <<fp, buf>>
  BY <1>2 DEF open_input, ReadInv, ReadTypeOK, Accounted, WholeInput, Tidy, len
<1> QED BY <1>1, <1>2 DEF open_input

\* An empty buffer accounts for nothing read.
LEMMA MallocPreserves ==
  ASSUME ReadInv, Malloc
  PROVE  ReadInv'
<1>1. CASE read_pc' = "close"
  <2>1. read_rc' = 1 /\ buf' = NoBuffer /\ UNCHANGED fp
    BY <1>1 DEF Malloc, Give_up
  <2>2. buf' \in BufferType /\ buf'.held = FALSE
    BY <2>1 DEF NoBuffer, BufferType
  <2> QED
    BY <1>1, <2>1, <2>2 DEF ReadInv, ReadTypeOK, Accounted, WholeInput, Tidy, len
<1>2. CASE read_pc' = "loop"
  <2>1. /\ buf' = [held |-> TRUE, cap |-> READ_INITIAL, bytes |-> <<>>]
        /\ UNCHANGED <<fp, read_rc>> /\ read_pc = "malloc"
    BY <1>2 DEF Malloc, Give_up
  <2>2. SubSeq(fp.data, 1, 0) = <<>>
    BY ReadAssumption DEF ReadInv, ReadTypeOK, StreamType
  <2> QED
    BY <1>2, <2>1, <2>2, ReadAssumption
    DEF ReadInv, ReadTypeOK, StreamType, BufferType, Accounted, WholeInput, Tidy, len
<1> QED BY <1>1, <1>2 DEF Malloc

LEMMA GrowPreserves ==
  ASSUME ReadInv, grow_buf
  PROVE  ReadInv'
<1>1. CASE read_pc' = "close"
  <2>1. read_rc' = 1 /\ buf' = NoBuffer /\ UNCHANGED fp
    BY <1>1 DEF grow_buf, GrowFailed, Give_up
  <2>2. buf' \in BufferType /\ buf'.held = FALSE
    BY <2>1 DEF NoBuffer, BufferType
  <2> QED
    BY <1>1, <2>1, <2>2 DEF ReadInv, ReadTypeOK, Accounted, WholeInput, Tidy, len
<1>2. CASE read_pc' # "close"
  <2>1. /\ buf' = [buf EXCEPT !.cap = 2 * @]
        /\ UNCHANGED <<fp, read_pc, read_rc>> /\ read_pc = "loop"
    BY <1>2 DEF grow_buf, GrowFailed, Give_up
  <2>2. buf \in BufferType /\ len \in Nat /\ len <= buf.cap
    BY <2>1 DEF ReadInv, ReadTypeOK, BufferType, Accounted, len
  <2>3. /\ buf' \in BufferType /\ buf'.held = buf.held /\ buf'.bytes = buf.bytes
        /\ buf'.cap = 2 * buf.cap /\ len <= 2 * buf.cap
    BY <2>1, <2>2 DEF BufferType
  <2> QED
    BY <2>1, <2>3 DEF ReadInv, ReadTypeOK, Accounted, WholeInput, Tidy, len
<1> QED BY <1>1, <1>2

LEMMA ReadSomePreserves ==
  ASSUME ReadInv, ReadSome
  PROVE  ReadInv'
<1> DEFINE chunk(got) == SubSeq(fp.data, fp.pos + 1, fp.pos + got)
<1>1. PICK got \in 1..(buf.cap - len) :
        Fread(got) /\ buf' = [buf EXCEPT !.bytes = @ \o chunk(got)]
  BY DEF ReadSome
<1>2. ReadTypeOK /\ Accounted /\ read_pc = "loop" /\ UNCHANGED <<read_pc, read_rc>>
  BY DEF ReadInv, ReadSome
<1>3. /\ got \in Nat /\ fp.pos + got <= Len(fp.data)
      /\ fp' \in StreamType /\ fp'.data = fp.data /\ fp'.pos <= Len(fp'.data)
      /\ ~fp'.error => ~fp.error /\ fp'.pos = fp.pos + got
  BY <1>1, <1>2, FreadStream
<1>4. /\ chunk(got) \in Seq(Nat) /\ Len(chunk(got)) = got
      /\ SubSeq(fp.data, 1, fp.pos) \o chunk(got) = SubSeq(fp.data, 1, fp.pos + got)
  BY <1>2, <1>3, Contiguous
<1> HIDE DEF chunk
<1>5. buf \in BufferType /\ buf.bytes \in Seq(Nat) /\ Len(buf.bytes) \in Nat /\ buf.cap \in Nat
  BY <1>2 DEF ReadTypeOK, BufferType
<1>6. /\ buf' \in BufferType /\ buf'.held = buf.held /\ buf'.cap = buf.cap
      /\ buf'.bytes = buf.bytes \o chunk(got) /\ Len(buf'.bytes) = len + got
  <2> DEFINE all == buf.bytes \o chunk(got)
  <2>1. all \in Seq(Nat) /\ Len(all) = len + got
    <3>1. buf.bytes \in Seq(Nat) /\ chunk(got) \in Seq(Nat)
      BY <1>4, <1>5
    <3>2. all \in Seq(Nat) /\ Len(all) = Len(buf.bytes) + Len(chunk(got))
      BY <3>1, ConcatProperties, Zenon
    <3>3. Len(chunk(got)) = got
      BY <1>4
    <3> QED BY <3>2, <3>3, Zenon DEF len
  <2>2. buf' = [buf EXCEPT !.bytes = all]
    BY <1>1
  <2> HIDE DEF all
  <2>3. buf' \in BufferType /\ buf'.held = buf.held /\ buf'.cap = buf.cap /\ buf'.bytes = all
    BY <1>5, <2>1, <2>2 DEF BufferType
  <2> QED BY <2>1, <2>3 DEF all
<1>7. len + got <= buf.cap
  BY <1>1, <1>3, <1>5 DEF len
<1>8. ~fp'.error => buf'.bytes = SubSeq(fp'.data, 1, fp'.pos)
  BY <1>2, <1>3, <1>4, <1>6 DEF Accounted
<1> QED
  BY <1>2, <1>3, <1>6, <1>7, <1>8 DEF ReadInv, ReadTypeOK, Accounted, WholeInput, Tidy, len

\* Room was asked for, so nothing without an error is the end of the file.
LEMMA ReadNothingPreserves ==
  ASSUME ReadInv, ReadNothing
  PROVE  ReadInv'
<1>1. /\ ReadTypeOK /\ Accounted /\ read_pc = "loop" /\ Fread(0) /\ read_pc' = "close"
      /\ len # buf.cap
  BY DEF ReadInv, ReadNothing, Full
<1>2. /\ fp' \in StreamType /\ fp'.data = fp.data /\ fp'.pos <= Len(fp'.data)
      /\ ~fp'.error => ~fp.error /\ fp'.pos = fp.pos + 0
      /\ ~fp'.error => 0 = buf.cap - len \/ fp'.pos = Len(fp.data)
  BY <1>1, FreadStream
<1>3. CASE fp'.error
  <2>1. read_rc' = 1 /\ buf' = NoBuffer
    BY <1>3 DEF ReadNothing, ReadFailed, Give_up
  <2> QED
    BY <1>1, <1>2, <2>1
    DEF NoBuffer, ReadInv, ReadTypeOK, BufferType, Accounted, WholeInput, Tidy, len
<1>4. CASE ~fp'.error
  <2>1. UNCHANGED <<buf, read_rc>>
    BY <1>4 DEF ReadNothing, ReadFailed
  <2>2. fp.pos \in Nat /\ fp.data \in Seq(Nat) /\ buf.cap \in Nat /\ len \in Nat
    BY <1>1, ReadAssumption DEF ReadTypeOK, StreamType, BufferType, len
  <2>3. buf.bytes = SubSeq(fp.data, 1, Len(fp.data))
    BY <1>1, <1>2, <1>4, <2>2 DEF Accounted
  <2>4. buf.bytes = fp.data
    BY <2>2, <2>3, SubSeqFull
  <2> QED
    BY <1>1, <1>2, <2>1, <2>4 DEF ReadInv, ReadTypeOK, Accounted, WholeInput, Tidy, len
<1> QED BY <1>3, <1>4

LEMMA FclosePreserves ==
  ASSUME ReadInv, Fclose
  PROVE  ReadInv'
BY DEF Fclose, ReadInv, ReadTypeOK, StreamType, BufferType, Accounted, WholeInput, Tidy, len

LEMMA NextReadInv ==
  ASSUME ReadInv, [ReadNext]_read_vars
  PROVE  ReadInv'
<1>1. CASE ReadNext
  BY <1>1, OpenPreserves, MallocPreserves, GrowPreserves, ReadSomePreserves,
     ReadNothingPreserves, FclosePreserves DEF ReadNext
<1>2. CASE UNCHANGED read_vars
  BY <1>2 DEF read_vars, ReadInv, ReadTypeOK, StreamType, BufferType, Accounted, WholeInput,
    Tidy, len
<1> QED BY <1>1, <1>2

\* The invariant behind the theorems: what the buffer has is what was read,
\* and what is held is what has not been given up.
THEOREM ReadInvariance == ReadSpec => []ReadInv
BY ReadInitial, NextReadInv, PTL DEF ReadSpec

\* read_all succeeds only with the whole input, whatever its length and
\* however the buffer came to hold it.
THEOREM InputIsWhole == ReadSpec => []WholeInput
BY ReadInvariance, PTL DEF ReadInv

\* What the loop knows between two reads: why its result is the whole input.
THEOREM ReadsAreAccounted == ReadSpec => []Accounted
BY ReadInvariance, PTL DEF ReadInv

\* Every failure of read_all gives back its buffer and its file.
THEOREM NothingIsKept == ReadSpec => []NothingKept
<1>1. ReadInv => NothingKept
  BY DEF ReadInv, Tidy, NothingKept
<1> QED BY <1>1, ReadInvariance, PTL

==============================================================================
