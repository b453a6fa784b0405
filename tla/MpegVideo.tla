----------------------------- MODULE MpegVideo ------------------------------
(***************************************************************************)
(* The reader of MPEG-1 and MPEG-2 video (mediainfo/read_MPEG_video.c,     *)
(* read_MPEG_utils.c, common_utils.c) as functions of the file and of the  *)
(* reader's state.  A file is a sequence of bytes; the byte behind a start *)
(* code 00 00 01 says what begins there.                                   *)
(***************************************************************************)
EXTENDS Integers, Sequences, FiniteSetsExt

CONSTANT num_bytes        \* the size at which a packet is full

PICTURE == 0
USER_DATA == 178
SEQUENCE == 179
SEQUENCE_ERROR == 180
EXTENSION == 181
SEQUENCE_END == 183
GROUP == 184

Headers == {PICTURE, SEQUENCE, GROUP, USER_DATA, EXTENSION}
IsSlice(id) == id \in 1 .. 175

At3(f, i) == i + 2 <= Len(f) /\ SubSeq(f, i, i + 2) = <<0, 0, 1>>

\* A packet being composed: its bytes behind the four of the video header, the
\* file position, the last byte behind a start code, whether it is at the end.
Draft(data, pos, final) == [data |-> data, pos |-> pos, final |-> final, eof |-> FALSE]
SizeOf(d) == Len(d.data) + 4
AtEnd(f, d) == [d EXCEPT !.eof = TRUE, !.pos = Len(f) + 1]

\* next_start_code and one byte: everything up to a start code and its id.  The
\* files of the model do not end within a header, where the code ignores the end.
CopyUnit(f, d) ==
  LET next == {i \in d.pos .. Len(f) - 3 : At3(f, i)}
  IN IF next = {} THEN AtEnd(f, d)
     ELSE LET i == Min(next)
          IN Draft(d.data \o SubSeq(f, d.pos, i + 3), i + 4, f[i + 3])

\* read_seq_head, read_gop_head, read_picture_head, read_picture_coding_ext and
\* the loop over extensions and user data copy header by header, whatever their
\* size, until a slice or an id that is none of theirs.
RECURSIVE CopyHeaders(_, _)
CopyHeaders(f, d) ==
  IF d.eof \/ d.final \notin Headers THEN d ELSE CopyHeaders(f, CopyUnit(f, d))

\* One window: bytes until a start code or until the packet is full, then three
\* more and one behind them.  boundary: the three were a start code.
CopyWindow(f, d) ==
  LET room == num_bytes - SizeOf(d)
      codes == {k \in 0 .. room : At3(f, d.pos + k)}
      k == IF codes = {} THEN room ELSE Min(codes)
      last == d.pos + k + 3
  IN IF last > Len(f) THEN [draft |-> AtEnd(f, d), boundary |-> FALSE]
     ELSE [draft |-> Draft(d.data \o SubSeq(f, d.pos, last), last + 1, f[last]),
           boundary |-> codes # {}]

\* Slices until the packet is full or a picture ends.
RECURSIVE CopySlices(_, _)
CopySlices(f, d) ==
  LET w == CopyWindow(f, d)
  IN IF w.draft.eof \/ ~w.boundary \/ ~IsSlice(w.draft.final) \/ SizeOf(w.draft) >= num_bytes
       THEN w ELSE CopySlices(f, w.draft)

-----------------------------------------------------------------------------
Start == [pos |-> 1, final |-> 0, fragmented |-> FALSE, probed |-> FALSE]

Failed(s, d) == [res |-> "eof", state |-> [s EXCEPT !.pos = d.pos, !.final = d.final, !.probed = TRUE],
                 packet |-> << >>, recall |-> FALSE]

\* The packet is sent without the start code it stopped at, which the next call
\* puts in front of its own unless it goes on with a fragment.
Reads(s, d, drop, fragmented, recall) ==
  [res |-> "ok",
   state |-> [pos |-> d.pos, final |-> d.final, fragmented |-> fragmented, probed |-> TRUE],
   packet |-> IF drop THEN SubSeq(d.data, 1, Len(d.data) - 4) ELSE d.data,
   recall |-> recall]

\* A slice goes on.
ReadFragment(f, s) ==
  LET w == CopyWindow(f, Draft(<< >>, s.pos, s.final))
  IN IF w.draft.eof THEN Failed(s, w.draft)
     ELSE Reads(s, w.draft, w.boundary, ~w.boundary, ~w.boundary \/ IsSlice(w.draft.final))

\* What stands in front: the probe of the first call, the start code that the
\* last call dropped, and behind a sequence end what follows it.
\* Mutant: the start code is not put back.
BeginBare(f, s) ==
  LET front == IF s.probed THEN Draft(<< >>, s.pos, s.final)
               ELSE CopyUnit(f, Draft(<< >>, s.pos, s.final))
  IN IF front.final = SEQUENCE_END THEN CopyUnit(f, front) ELSE front

Begin(f, s) ==
  LET front == IF s.probed THEN Draft(<<0, 0, 1, s.final>>, s.pos, s.final)
               ELSE CopyUnit(f, Draft(<< >>, s.pos, s.final))
  IN IF front.final = SEQUENCE_END THEN CopyUnit(f, front) ELSE front

\* When no window was read (a sequence end, or headers that fill the packet)
\* buf_aux is not set, and the last four bytes are dropped or not.
ReadWhole(f, s) ==
  LET d == CopyHeaders(f, Begin(f, s))
      ends == d.final = SEQUENCE_END
      w == CopySlices(f, d)
  IN IF d.eof THEN {Failed(s, d)}
     ELSE IF ~ends /\ ~IsSlice(d.final) THEN {[Failed(s, d) EXCEPT !.res = "loops"]}
     ELSE IF ends \/ SizeOf(d) >= num_bytes
       THEN {Reads(s, d, drop, FALSE, ~ends) : drop \in BOOLEAN}
     ELSE IF w.draft.eof THEN {Failed(s, w.draft)}
     ELSE {Reads(s, w.draft, w.boundary, ~w.boundary, ~w.boundary \/ IsSlice(w.draft.final))}

\* The outcomes of a call.
read_MPEG_video(f, s) == IF s.fragmented THEN {ReadFragment(f, s)} ELSE ReadWhole(f, s)
=============================================================================
