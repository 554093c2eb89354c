--------------------------- MODULE EventProtocol ---------------------------
(***************************************************************************)
(* What bencode_parse_sax promises the consumer of its callbacks           *)
(* (include/bencode/bencode.h, bencode_callbacks): the events of one call  *)
(* are, at every moment, the beginning of the report of one well-formed    *)
(* value.  Nothing is said here of bytes, cursors or hooks: this is what   *)
(* a consumer such as bencode_parse may build on.                          *)
(***************************************************************************)
EXTENDS Bencode

CONSTANT MAX_DEPTH   (* The number of containers that may be open at once. *)

VARIABLES
  open,    (* the containers begun and not ended, outermost first           *)
  heard,   (* the events so far                                             *)
  result   (* <<>> until the call returns, then <<its status>>              *)

protocol_vars == <<open, heard, result>>

\* A list, or a dict that wants a key or a value next.
ListFrame == [dict |-> FALSE, key_next |-> FALSE, last |-> <<>>]
DictFrame == [dict |-> TRUE, key_next |-> TRUE, last |-> <<>>]

ProtocolInit == open = <<>> /\ heard = <<>> /\ result = <<>>

\* A value may be reported as the root, in a list, or after a key.
ValueWanted == IF open = <<>> THEN heard = <<>> ELSE ~Last(open).key_next

KeyWanted == open # <<>> /\ Last(open).key_next

\* In a dict, a complete value is followed by a key or by the end.
Completed(frames) ==
  [i \in DOMAIN frames |->
     IF i = Len(frames) THEN [frames[i] EXCEPT !.key_next = frames[i].dict]
                        ELSE frames[i]]

Scalar(e) ==
  /\ e.hook \in {"on_int", "on_string"} /\ ValueWanted
  /\ open' = Completed(open)

Begin(e, hook, frame) ==
  /\ e.hook = hook /\ ValueWanted /\ Len(open) < MAX_DEPTH
  /\ open' = Append(open, frame)

\* Keys come in strictly ascending order.
Key(e) ==
  /\ e.hook = "on_string" /\ KeyWanted
  /\ \A last \in {Last(open).last[i] : i \in DOMAIN Last(open).last} :
       KeyBefore(last, e.bytes)
  /\ open' = [open EXCEPT ![Len(open)] =
                [dict |-> TRUE, key_next |-> FALSE, last |-> <<e.bytes>>]]

\* Only the innermost container ends, and a dict not between key and value.
EndList(e) ==
  /\ e.hook = "on_list_end" /\ open # <<>> /\ ~Last(open).dict
  /\ open' = Completed(Front(open))

EndDict(e) ==
  /\ e.hook = "on_dict_end" /\ KeyWanted
  /\ open' = Completed(Front(open))

Accept(e) ==
  \/ Scalar(e) \/ Key(e) \/ EndList(e) \/ EndDict(e)
  \/ Begin(e, "on_list_begin", ListFrame)
  \/ Begin(e, "on_dict_begin", DictFrame)

Hear ==
  /\ result = <<>>
  /\ Len(heard') = Len(heard) + 1 /\ heard' = Append(heard, Last(heard'))
  /\ Last(heard') \in EventType
  /\ Accept(Last(heard'))
  /\ UNCHANGED result

\* OK is returned for exactly one complete value.
Return ==
  /\ result = <<>>
  /\ \E st \in bencode_status :
       /\ result' = <<st>>
       /\ st = "OK" => open = <<>> /\ heard # <<>>
  /\ open' = <<>> /\ UNCHANGED heard

ProtocolNext == Hear \/ Return

ProtocolSpec == ProtocolInit /\ [][ProtocolNext]_protocol_vars

===========================================================================
