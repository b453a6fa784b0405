----------------------------- MODULE MCReaders ------------------------------
(***************************************************************************)
(* Files for Readers.  The bytes of a payload are numbered, so that no two *)
(* of a file are equal and none is part of a start code.                   *)
(***************************************************************************)
EXTENDS Readers

Medium(codec, tag, units) ==
  [codec |-> codec, tag |-> tag, units |-> units, bytes |-> FlattenSeq(units)]
Numbered(u, n) == [i \in 1 .. n |-> 1000 * u + i]

\* H.264: two or three units behind start codes of three or four bytes.
Codes == {<<0, 0, 1>>, <<0, 0, 0, 1>>}
NALU(u, code, n) == code \o <<500 + u>> \o Numbered(u, n)
H264Media ==
  {Medium("H264", 0, <<NALU(1, c, i), NALU(2, d, j)>>) :
     c \in Codes, d \in Codes, i \in 0 .. 5, j \in 0 .. 5}
  \cup {Medium("H264", 0, <<NALU(1, c, i), NALU(2, <<0, 0, 1>>, j), NALU(3, c, k)>>) :
     c \in Codes, i \in {1, 3}, j \in {0, 2, 4}, k \in {1, 4}}

\* MPEG video: headers that fit a packet or fill it, two pictures whose slices end at every place of a
\* packet, and an end code, an unknown id or nothing.
Unit(u, id, n) == <<0, 0, 1, id>> \o Numbered(u, n)
Fronts == {<<Unit(1, V!SEQUENCE, 1), Unit(2, V!GROUP, 1)>>,
           <<Unit(1, V!SEQUENCE, 1), Unit(2, V!EXTENSION, 2), Unit(3, V!GROUP, 1)>>,
           <<Unit(1, V!SEQUENCE, 1), Unit(2, V!USER_DATA, 9)>>,
           <<Unit(1, V!SEQUENCE, 1), Unit(2, V!USER_DATA, 24)>>}
Endings == {<< >>, <<Unit(9, V!SEQUENCE_END, 0)>>, <<Unit(9, V!SEQUENCE_ERROR, 2)>>}
MpvMedia ==
  {Medium("MPV", 0, front \o <<Unit(4, V!PICTURE, 1), Unit(5, 1, a), Unit(6, 2, b),
                         Unit(7, V!PICTURE, 1), Unit(8, 1, c)>> \o end) :
     front \in Fronts, a \in 1 .. 34, b \in {1, 6}, c \in {2, 30}, end \in Endings}

\* MPEG audio: frames with and without padding, the last one whole, with and
\* without a tag of four or five bytes.
Frame(u, padded) ==
  <<IF padded THEN A!PADDED ELSE A!SYNC>> \o Numbered(u, IF padded THEN frame_bytes ELSE frame_bytes - 1)
Tag(n) == <<A!TAG>> \o Numbered(9, n - 1)
MpaMedia ==
  {Medium("MPA", 0, <<Frame(1, p), Frame(2, q), Frame(3, r)>>) :
     p \in BOOLEAN, q \in BOOLEAN, r \in BOOLEAN}
  \cup {Medium("MPA", n, <<Tag(n), Frame(1, p), Frame(2, FALSE)>>) :
     n \in {4, 5}, p \in BOOLEAN}

AllMedia == H264Media \cup MpvMedia \cup MpaMedia
=============================================================================
