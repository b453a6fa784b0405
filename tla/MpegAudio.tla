----------------------------- MODULE MpegAudio ------------------------------
(***************************************************************************)
(* The reader of MPEG audio (mediainfo/load_MPA.c, read_MP3.c) as          *)
(* functions of the file and of the reader's state.  A file is a sequence  *)
(* of bytes, 0 except the first of a frame: SYNC or PADDED (a header whose *)
(* padding bit is set), or TAG for the first of an ID3 tag.                *)
(***************************************************************************)
EXTENDS Integers, Sequences

CONSTANT frame_bytes      \* frame_len * bitrate / sample_rate / 8

SYNC == 255
PADDED == 254
TAG == 73
HeaderBytes == 4

\* load_MPA reads the first four bytes, behind the tag when there is one, and
\* leaves them in buff_data with buff_size 4.
load_MPA(f, tag) == SubSeq(f, tag + 1, tag + HeaderBytes)

Loaded(f, tag) == [pos |-> 1, head |-> load_MPA(f, tag), buff_size |-> HeaderBytes, play_offset |-> 0]

\* random access: after the first PLAY the file is positioned at play_offset, 0
\* when a presentation is played from its beginning.
Position(s) == IF s.play_offset = -1 THEN s.pos ELSE 1

\* Mutant: the frame length forgets the padding.
FrameSizeBare(head) == frame_bytes

FrameSize(head) == IF head[1] = PADDED THEN frame_bytes + 1 ELSE frame_bytes

\* The four bytes of the first call go behind those of load_MPA, which stay the
\* header that is sent.
read_MP3(f, s) ==
  LET pos == Position(s)
      head == IF s.buff_size = 0 THEN SubSeq(f, pos, pos + HeaderBytes - 1) ELSE s.head
      size == FrameSize(head)
      body == SubSeq(f, pos + HeaderBytes,
                     IF pos + size - 1 > Len(f) THEN Len(f) ELSE pos + size - 1)
      t == [pos |-> pos + HeaderBytes + Len(body), head |-> head, buff_size |-> 0, play_offset |-> -1]
  IN IF pos + HeaderBytes - 1 > Len(f)
       THEN [res |-> "eof", state |-> [s EXCEPT !.pos = Len(f) + 1, !.play_offset = -1], packet |-> << >>]
     ELSE IF body = << >> THEN [res |-> "eof", state |-> t, packet |-> << >>]
     ELSE [res |-> "ok", state |-> t, packet |-> head \o body]
=============================================================================
