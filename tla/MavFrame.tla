------------------------------ MODULE MavFrame ------------------------------
(***************************************************************************)
(* What reaches the other end of the MAVLink line.  MavlinkProvider sends   *)
(* the mavlink_message_t itself (src/src/mav/mavlink_provider.cpp): the     *)
(* checksum, then a frame as mavlink_finalize_message_buffer made it, then  *)
(* the unused rest of the payload, ck and signature, whatever is in them.   *)
(* The receiver finds the frames with the byte parser of the library,       *)
(* mavlink_parse_char (src/lib/mavlink/mavlink_helpers.h).                  *)
(*                                                                          *)
(* Bytes go from 0 to MaxByte, which stands for 255: the markers are the    *)
(* two values below it and also the longest payload is as long as MaxByte;  *)
(* the lengths of the header, the trailer and the rest are the code's.      *)
(* From the flags on the parser only counts to the end of the frame, so it  *)
(* is kept as that count.  A CRC fits the frame it was made for, and no     *)
(* other: that a wrong one fits by chance (1 in 65536) is left out.  With   *)
(* it goes SIGNATURE_WAIT: the program signs nothing.                       *)
(***************************************************************************)
EXTENDS Integers, Sequences, SequencesExt

CONSTANT MaxByte  \* the largest byte

ASSUME MavFrameAssumption == MaxByte \in Nat /\ MaxByte >= 4

Byte == 0..MaxByte
STX == MaxByte - 2           \* MAVLINK_STX
STX_MAVLINK1 == MaxByte - 1  \* MAVLINK_STX_MAVLINK1
Markers == {STX, STX_MAVLINK1}
IFLAG_MASK == {0, 1}         \* what MAVLINK_IFLAG_MASK lets pass

-----------------------------------------------------------------------------
(***************************************************************************)
(* The sender: a byte of the struct is the set of values it may have, and   *)
(* whether it is the first of the frame.                                    *)
(***************************************************************************)
Stretch(n, values) == [i \in 1..n |-> [values |-> values, magic |-> FALSE]]

\* mavlink_finalize_message_buffer: magic, length, two flags of zero, six bytes
\* of sequence number, ids and message id, payload, CRC.
Frame(len, values) ==
  <<[values |-> {STX}, magic |-> TRUE]>> \o Stretch(1, {len}) \o Stretch(2, {0})
    \o Stretch(6 + len + 2, values)

\* The struct: 2 bytes of checksum; magic to msgid, 10 bytes; payload64, 9 bytes
\* longer than the longest payload; ck and signature, 15 bytes.
Struct(len, values) ==
  Stretch(2, values) \o Frame(len, values) \o Stretch(MaxByte - len + 7 + 15, values)
StructSize == 2 + 10 + MaxByte + 9 + 15

-----------------------------------------------------------------------------
(***************************************************************************)
(* The receiver.                                                            *)
(*   at:   IDLE; STX seen; LENGTH seen; or in the "BODY" of the frame       *)
(*   left: bytes to its end; with "LENGTH", the length                      *)
(*   v1:   MAVLINK_STATUS_FLAG_IN_MAVLINK1                                  *)
(*   own:  the frame is the sender's, from its first byte on                *)
(*   got:  it has come in whole                                             *)
(***************************************************************************)
Parsers == [at: {"IDLE", "STX"}, left: {0}, v1: BOOLEAN]
             \cup [at: {"LENGTH"}, left: Byte, v1: {FALSE}]
             \cup [at: {"BODY"}, left: 1..(MaxByte + 9), v1: BOOLEAN]
Idle == [at |-> "IDLE", left |-> 0, v1 |-> FALSE]

\* A frame begins at a marker; the version is kept for its end.
Begin(p, c, magic) ==
  [p EXCEPT !.at = IF c \in Markers THEN "STX" ELSE "IDLE",
            !.v1 = IF c \in Markers THEN c = STX_MAVLINK1 ELSE @,
            !.own = magic]

\* After the length a frame of version 1 goes on with its sequence number: four
\* bytes of header and the CRC.
Length(p, c) ==
  IF p.v1 THEN [p EXCEPT !.at = "BODY", !.left = 4 + c + 2, !.own = FALSE]
  ELSE [p EXCEPT !.at = "LENGTH", !.left = c]

Flags(p, c) ==
  IF c \in IFLAG_MASK THEN [p EXCEPT !.at = "BODY", !.left = 7 + @ + 2]
  ELSE [p EXCEPT !.at = "IDLE", !.left = 0, !.own = FALSE]

\* Fault: after a wrong CRC the frame's length is waited for once more.
BodyStuck(p, c, magic) ==
  IF p.left > 1 THEN [p EXCEPT !.left = @ - 1]
  ELSE IF p.own THEN [p EXCEPT !.at = "IDLE", !.left = 0, !.own = FALSE, !.got = TRUE]
  ELSE [p EXCEPT !.left = MaxByte + 9]
\* The last byte of the CRC.  Where the CRC is wrong (mavlink_parse_char), a byte
\* that is STX begins a frame, of the version of the one before.
Body(p, c, magic) ==
  IF p.left > 1 THEN [p EXCEPT !.left = @ - 1]
  ELSE IF p.own THEN [p EXCEPT !.at = "IDLE", !.left = 0, !.own = FALSE, !.got = TRUE]
  ELSE [p EXCEPT !.at = IF c = STX THEN "STX" ELSE "IDLE", !.left = 0, !.own = magic]

ParseChar(p, c, magic) ==
  CASE p.at = "IDLE" -> Begin(p, c, magic)
    [] p.at = "STX" -> Length(p, c)
    [] p.at = "LENGTH" -> Flags(p, c)
    [] p.at = "BODY" -> Body(p, c, magic)

\* Where the bytes may leave a parser.
ParseBytes(p, bytes) ==
  FoldLeft(LAMBDA ps, b : {ParseChar(q, c, b.magic) : q \in ps, c \in b.values},
           {[at |-> p.at, left |-> p.left, v1 |-> p.v1, own |-> FALSE, got |-> FALSE]}, bytes)

\* The same without what only the reader of the model knows.
Outcomes(p, bytes) ==
  {[parser |-> [at |-> q.at, left |-> q.left, v1 |-> q.v1], got |-> q.got] :
     q \in ParseBytes(p, bytes)}
=============================================================================
