------------------------------- MODULE ReadAll -------------------------------
(***************************************************************************)
(* read_all, grow_buf and open_input of the command-line tool              *)
(* (src/main.c): a whole file, or standard input, read into a buffer that  *)
(* doubles.  Opening, reading and every allocation may fail.               *)
(***************************************************************************)
EXTENDS Integers, Sequences

CONSTANTS
  Contents,       (* What the file may contain.                             *)
  READ_INITIAL,   (* The first capacity of the buffer, 4096.                *)
  READ_MAX        (* SIZE_MAX.                                              *)

ASSUME ReadAssumption ==
  /\ \A data \in Contents : data \in Seq(Nat)
  /\ READ_INITIAL \in Nat \ {0} /\ READ_MAX \in Nat

VARIABLES
  fp,        (* the stream: its data, the position, the sticky error flag,  *)
             (* and whether it is standard input, and open                  *)
  buf,       (* the buffer: allocated or not, its capacity and contents     *)
  read_pc,   (* "open", "malloc", "loop", "close", "returned"               *)
  read_rc    (* the result: 0 on success                                    *)

read_vars == <<fp, buf, read_pc, read_rc>>

NoBuffer == [held |-> FALSE, cap |-> 0, bytes |-> <<>>]

ReadInit ==
  /\ fp \in [data : Contents, pos : {0}, error : {FALSE}, stdin : BOOLEAN, open : {FALSE}]
  /\ buf = NoBuffer /\ read_pc = "open" /\ read_rc = 0

---------------------------------------------------------------------------

len == Len(buf.bytes)

Give_up == read_rc' = 1 /\ buf' = NoBuffer

\* Standard input is open already; fopen may fail.
open_input ==
  /\ read_pc = "open"
  /\ \/ /\ fp' = [fp EXCEPT !.open = TRUE]
        /\ read_pc' = "malloc" /\ UNCHANGED read_rc
     \/ /\ ~fp.stdin
        /\ read_pc' = "returned" /\ read_rc' = 1 /\ UNCHANGED fp
  /\ UNCHANGED buf

Malloc ==
  /\ read_pc = "malloc"
  /\ \/ /\ buf' = [held |-> TRUE, cap |-> READ_INITIAL, bytes |-> <<>>]
        /\ read_pc' = "loop" /\ UNCHANGED read_rc
     \/ Give_up /\ read_pc' = "close"
  /\ UNCHANGED fp

\* Mutant: the buffer grows once it is overrun.
Full_late == len > buf.cap

Full == len = buf.cap

\* Mutant: a buffer that cannot grow is not freed.
GrowFailed_leaking == read_rc' = 1 /\ UNCHANGED buf

\* grow_buf frees a buffer that cannot grow.
GrowFailed == Give_up

grow_buf ==
  /\ read_pc = "loop" /\ Full
  /\ \/ /\ buf.cap <= READ_MAX \div 2
        /\ buf' = [buf EXCEPT !.cap = 2 * @]
        /\ UNCHANGED <<read_pc, read_rc>>
     \/ GrowFailed /\ read_pc' = "close"
  /\ UNCHANGED fp

\* fread: as many bytes as asked for, or all there are.  An error may come
\* after any number of them; where the stream is then, is not specified.
Fread(got) ==
  LET room == buf.cap - len
      left == Len(fp.data) - fp.pos
      all  == IF left < room THEN left ELSE room
  IN  /\ got \in 0..all
      /\ \/ got = all /\ fp' = [fp EXCEPT !.pos = @ + got]
         \/ \E skipped \in 0..(left - got) :
              fp' = [fp EXCEPT !.pos = @ + got + skipped, !.error = TRUE]

\* Mutant: an error is looked for only while there are bytes.
ReadFailed_unchecked == FALSE

ReadFailed == fp'.error

\* A read that gets something goes on, even after an error: the flag stays.
ReadSome ==
  /\ read_pc = "loop" /\ ~Full
  /\ \E got \in 1..(buf.cap - len) :
       /\ Fread(got)
       /\ buf' = [buf EXCEPT !.bytes = @ \o SubSeq(fp.data, fp.pos + 1, fp.pos + got)]
  /\ UNCHANGED <<read_pc, read_rc>>

\* A read that gets nothing is the end of the file, or an error.
ReadNothing ==
  /\ read_pc = "loop" /\ ~Full
  /\ Fread(0)
  /\ IF ReadFailed THEN Give_up ELSE UNCHANGED <<buf, read_rc>>
  /\ read_pc' = "close"

Fclose ==
  /\ read_pc = "close"
  /\ fp' = [fp EXCEPT !.open = fp.stdin]
  /\ read_pc' = "returned"
  /\ UNCHANGED <<buf, read_rc>>

ReadNext == open_input \/ Malloc \/ grow_buf \/ ReadSome \/ ReadNothing \/ Fclose

ReadSpec == ReadInit /\ [][ReadNext]_read_vars

---------------------------------------------------------------------------
(* Properties.                                                             *)

\* Success means the buffer has the whole of the input: not what was there
\* before an error, whichever read it hit and whatever later reads brought,
\* nor what fitted before the buffer grew.
WholeInput == read_pc = "returned" /\ read_rc = 0 => buf.held /\ buf.bytes = fp.data

\* Why: until an error, the buffer has what lies before the position; it is
\* never overrun; and fread, which would look like the end of the file if it
\* were asked for nothing, never is.
Accounted ==
  /\ read_pc \in {"open", "malloc"} => fp.pos = 0 /\ ~fp.error /\ read_rc = 0
  /\ read_pc = "loop" =>
       /\ buf.held /\ len <= buf.cap /\ read_rc = 0
       /\ ~fp.error => buf.bytes = SubSeq(fp.data, 1, fp.pos)
  /\ read_pc = "close" /\ read_rc = 0 => buf.held /\ buf.bytes = fp.data

\* A failure, of whatever kind, leaves no buffer and no open file.
NothingKept ==
  read_pc = "returned" =>
    /\ buf.held <=> read_rc = 0
    /\ fp.open => fp.stdin

=============================================================================
