-------------------------------- MODULE H264 --------------------------------
(***************************************************************************)
(* The reader of H.264 byte streams (mediainfo/read_h264.c) as functions   *)
(* of the file and of the reader's state.  A file is a sequence of bytes:  *)
(* 0 and 1 make start codes, every other value stands for itself.          *)
(***************************************************************************)
EXTENDS Integers, Sequences, FiniteSetsExt

CONSTANT UDP_MAX_SIZE     \* payload bytes of one packet

EofByte == -1             \* fgetc's EOF, stored as a byte

\* 00 00 01 at position i.
StartCode(f, i) == i >= 1 /\ i + 2 <= Len(f) /\ SubSeq(f, i, i + 2) = <<0, 0, 1>>

StartCodeLen(f, pos) ==
  IF StartCode(f, pos) THEN 3
  ELSE IF pos <= Len(f) /\ f[pos] = 0 /\ StartCode(f, pos + 1) THEN 4 ELSE 0

\* The next unit from pos on: its header and payload, and the position of the
\* start code behind it.  At the end of the file fgetc gives one EOF byte, the
\* file is rewound, and the unit ends with the start code that begins the file.
\* A fourth byte 0 in front of a start code is part of it.
get_one_NALU_payload(f, pos) ==
  LET length == StartCodeLen(f, pos)
      bytes == f \o <<EofByte>> \o f
      three == Min({i \in pos + length .. Len(bytes) : StartCode(bytes, i)})
      next == IF bytes[three - 1] = 0 THEN three - 1 ELSE three
  IN IF length = 0 THEN [unit |-> << >>, pos |-> pos]
     ELSE [unit |-> SubSeq(bytes, pos + length, next - 1),
           pos |-> IF next > Len(f) THEN 1 ELSE next]

\* What malloc leaves in static_h264: nothing of it is set but the buffer.
JunkByte == -2
Junk == <<JunkByte, JunkByte>>
InitStates ==
  {[pos |-> 1, unit |-> << >>, sharding |-> FALSE, packet_num |-> 0, current |-> 0]}
  \cup [pos : {1}, unit : {Junk}, sharding : {TRUE}, packet_num : {0, 1}, current : {0, 1, 2}]

-----------------------------------------------------------------------------
\* A packet is a payload, a marker, and for a fragment where in its unit it is.
Packet(header, kind, data, marker) ==
  [header |-> header, kind |-> kind, data |-> data, marker |-> marker]

Failed(s) == [res |-> "eof", state |-> s, packet |-> Packet(0, "none", << >>, FALSE), recall |-> FALSE]
Reads(s, pkt, recall) == [res |-> "ok", state |-> s, packet |-> pkt, recall |-> recall]

Payload(s) == Tail(s.unit)
Fragment(s, n) ==
  SubSeq(Payload(s), n * UDP_MAX_SIZE + 1, Min({Len(Payload(s)), (n + 1) * UDP_MAX_SIZE}))

\* The rest of a unit: packet_num whole fragments, then what is left, which may
\* be nothing.
\* Mutant: the fragment is taken from one packet further on.
ReadFragmentAhead(s) ==
  IF s.current < s.packet_num
    THEN Reads([s EXCEPT !.current = @ + 1],
               Packet(s.unit[1], "middle", Fragment(s, s.current + 1), FALSE), TRUE)
  ELSE IF s.current = s.packet_num
    THEN Reads([s EXCEPT !.sharding = FALSE],
               Packet(s.unit[1], "last", Fragment(s, s.current), TRUE), TRUE)
  ELSE Failed(s)

ReadFragment(s) ==
  IF s.current < s.packet_num
    THEN Reads([s EXCEPT !.current = @ + 1],
               Packet(s.unit[1], "middle", Fragment(s, s.current), FALSE), TRUE)
  ELSE IF s.current = s.packet_num
    THEN Reads([s EXCEPT !.sharding = FALSE],
               Packet(s.unit[1], "last", Fragment(s, s.current), TRUE), TRUE)
  ELSE Failed(s)

\* A unit without payload counts as the end of the file.
\* Mutant: recallme stays set behind a unit that needs one packet.
ReadUnitRecalled(f, s) ==
  LET got == get_one_NALU_payload(f, s.pos)
      t == [s EXCEPT !.pos = got.pos, !.unit = got.unit]
      size == Len(got.unit) - 1
  IN IF size <= 0 THEN Failed(t)
     ELSE IF size <= UDP_MAX_SIZE
       THEN Reads(t, Packet(t.unit[1], "single", Payload(t), TRUE), TRUE)
     ELSE Reads([t EXCEPT !.sharding = TRUE, !.packet_num = size \div UDP_MAX_SIZE, !.current = 1],
                Packet(t.unit[1], "first", Fragment(t, 0), FALSE), TRUE)

ReadUnit(f, s) ==
  LET got == get_one_NALU_payload(f, s.pos)
      t == [s EXCEPT !.pos = got.pos, !.unit = got.unit]
      size == Len(got.unit) - 1
  IN IF size <= 0 THEN Failed(t)
     ELSE IF size <= UDP_MAX_SIZE
       THEN Reads(t, Packet(t.unit[1], "single", Payload(t), TRUE), FALSE)
     ELSE Reads([t EXCEPT !.sharding = TRUE, !.packet_num = size \div UDP_MAX_SIZE, !.current = 1],
                Packet(t.unit[1], "first", Fragment(t, 0), FALSE), TRUE)

read_h264(f, s) == IF s.sharding THEN ReadFragment(s) ELSE ReadUnit(f, s)
=============================================================================
