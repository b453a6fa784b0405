------------------------------ MODULE Readers -------------------------------
(***************************************************************************)
(* A presentation that is read to its end and played again: get_frame      *)
(* (mediainfo/get_frame.c) calls the reader that register_media gave to    *)
(* the medium until a frame is complete, and each packet goes into the     *)
(* buffer.  H264, MpegVideo and MpegAudio are the three readers.           *)
(***************************************************************************)
EXTENDS Integers, Sequences, SequencesExt, FiniteSetsExt

CONSTANTS
  Media,          \* the files: [codec, tag, units, bytes], bytes being the units together
  UDP_MAX_SIZE,   \* payload bytes of an H.264 packet
  num_bytes,      \* the size at which a packet of MPEG video is full
  frame_bytes,    \* bytes of a frame of MPEG audio without padding
  MaxFrames,      \* bound on the calls of get_frame
  MaxBytes        \* bound on the bytes that are sent

ASSUME PacketAssumption == UDP_MAX_SIZE \in Nat \ {0} /\ num_bytes \in Nat /\ num_bytes > 8
ASSUME FrameAssumption == frame_bytes \in Nat /\ frame_bytes > 4
ASSUME BoundAssumption == MaxFrames \in Nat /\ MaxBytes \in Nat

H == INSTANCE H264
V == INSTANCE MpegVideo
A == INSTANCE MpegAudio

VARIABLES
  medium,   \* the medium that is played
  due,      \* what its stream should be, fixed from the start
  stat,     \* the state of its reader
  pc,       \* idle, frame (within get_frame), stopped, loops (never returns)
  out,      \* the payloads OMSbuff_write got, one behind the other
  cuts,     \* where in out a packet ends
  marks,    \* where in out a packet with a marker ends
  turns,    \* turns of the loop in the current call of get_frame
  frames    \* calls of get_frame
vars == <<medium, due, stat, pc, out, cuts, marks, turns, frames>>

-----------------------------------------------------------------------------
\* What the packets should be, from the units of the medium alone.

\* The units of an H.264 file as they are sent, one lap: start codes go, the
\* last unit ends with the EOF byte, those without payload are skipped.
Body(u) == IF u[3] = 1 THEN SubSeq(u, 4, Len(u)) ELSE SubSeq(u, 5, Len(u))
Bodies(m) ==
  SelectSeq([i \in 1 .. Len(m.units) |->
               IF i < Len(m.units) THEN Body(m.units[i]) ELSE Append(Body(m.units[i]), H!EofByte)],
            LAMBDA b : Len(b) > 1)

\* One lap of the stream in units: H.264 goes round, the
\* others go through once.
Lap(m) == IF m.codec = "H264" THEN Bodies(m) ELSE m.units

\* Where in a lap a unit ends that a marker should stand behind: a unit of
\* H.264, the slices of a picture of MPEG video, a frame of audio.
UnitEnds(m) ==
  LET lap == Lap(m)
      end(i) == Len(FlattenSeq(SubSeq(lap, 1, i)))
      Picture(i) == i > 0 => V!IsSlice(lap[i][4]) /\ ~V!IsSlice(lap[i + 1][4])
  IN {end(i) : i \in {k \in 0 .. Len(lap) - 1 : m.codec = "MPV" => Picture(k)}}

\* The headers in front of the slices of a picture leave room in a packet.
HeadersFit(m) ==
  \A i, j \in 1 .. Len(m.units) :
    i <= j /\ (\A k \in i .. j : m.units[k][4] \in V!Headers)
      => 8 + Len(FlattenSeq(SubSeq(m.units, i, j))) < num_bytes

\* No id the reader does not know, and no end but at the end.
IdsKnown(m) ==
  \A i \in 1 .. Len(m.units) :
    LET id == m.units[i][4]
    IN id \in V!Headers \/ V!IsSlice(id) \/ (id = V!SEQUENCE_END /\ i = Len(m.units))

Due(m) ==
  [lap |-> FlattenSeq(Lap(m)),
   ends |-> UnitEnds(m),
   \* an ID3 tag is not supported (read_MP3.c:26)
   regular |-> CASE m.codec = "H264" -> TRUE
                 [] m.codec = "MPV" -> HeadersFit(m) /\ IdsKnown(m)
                 [] m.codec = "MPA" -> m.tag = 0,
   \* a unit without payload: the stream pauses there
   pauses |-> m.codec = "H264" /\ \E i \in 1 .. Len(m.units) - 1 : Len(Body(m.units[i])) = 1,
   \* get_frame comes to an end
   returns |-> CASE m.codec = "H264" -> \E b \in Range(Bodies(m)) : Len(b) - 1 <= UDP_MAX_SIZE
                 [] m.codec = "MPV" -> IdsKnown(m)
                 [] m.codec = "MPA" -> TRUE]

-----------------------------------------------------------------------------
\* What a reader does with its medium, in one form: the set of outcomes.  The
\* header byte of a unit travels in each of its fragments; it counts once.
H264Data(p) == IF p.kind \in {"single", "first"} THEN <<p.header>> \o p.data ELSE p.data

read_media(m, s) ==
  CASE m.codec = "H264" ->
         LET o == H!read_h264(m.bytes, s)
         IN {[res |-> o.res, state |-> o.state, recall |-> o.recall,
              data |-> H264Data(o.packet), marker |-> o.packet.marker]}
    [] m.codec = "MPV" ->
         {[res |-> o.res, state |-> o.state, recall |-> o.recall,
           data |-> o.packet, marker |-> ~o.recall] : o \in V!read_MPEG_video(m.bytes, s)}
    [] m.codec = "MPA" ->
         LET o == A!read_MP3(m.bytes, s)
         IN {[res |-> o.res, state |-> o.state, recall |-> FALSE,
              data |-> o.packet, marker |-> FALSE]}

OpenStates(m) ==
  CASE m.codec = "H264" -> H!InitStates
    [] m.codec = "MPV" -> {V!Start}
    [] m.codec = "MPA" -> {A!Loaded(m.bytes, m.tag)}

Init ==
  /\ medium \in Media /\ due = Due(medium)
  /\ stat \in OpenStates(medium)
  /\ pc = "idle" /\ turns = 0 /\ frames = 0
  /\ out = << >> /\ cuts = {} /\ marks = {}

GetFrame ==
  /\ pc = "idle" /\ frames < MaxFrames
  /\ pc' = "frame" /\ turns' = 0 /\ frames' = frames + 1
  /\ UNCHANGED <<medium, due, stat, out, cuts, marks>>

\* One turn of the loop of get_frame.
ReadPacket ==
  /\ pc = "frame" /\ Len(out) < MaxBytes
  /\ \E o \in read_media(medium, stat) :
       /\ o.res = "ok"
       /\ stat' = o.state
       /\ out' = out \o o.data
       /\ cuts' = cuts \cup {Len(out')}
       /\ marks' = IF o.marker THEN marks \cup {Len(out')} ELSE marks
       /\ pc' = IF o.recall THEN "frame" ELSE "idle"
  /\ turns' = turns + 1
  /\ UNCHANGED <<medium, due, frames>>

\* Stream Finished: the session is paused.
ReadEnds ==
  /\ pc = "frame"
  /\ \E o \in read_media(medium, stat) : o.res = "eof" /\ stat' = o.state
  /\ pc' = "stopped"
  /\ UNCHANGED <<medium, due, out, cuts, marks, turns, frames>>

\* The loop over headers of read_MPEG_video meets an id that it does not know.
ReadLoops ==
  /\ pc = "frame"
  /\ \E o \in read_media(medium, stat) : o.res = "loops"
  /\ pc' = "loops"
  /\ UNCHANGED <<medium, due, stat, out, cuts, marks, turns, frames>>

\* PLAY again.  The session has its first consumer still, so refs becomes 2, and
\* schedule_start leaves mtime and play_offset: the file stays where it is.
Play ==
  /\ pc = "stopped" /\ frames < MaxFrames
  /\ pc' = "idle"
  /\ UNCHANGED <<medium, due, stat, out, cuts, marks, turns, frames>>

Next == GetFrame \/ ReadPacket \/ ReadEnds \/ ReadLoops \/ Play

Spec == Init /\ [][Next]_vars

-----------------------------------------------------------------------------
\* The uninitialised sharding_packet of an H.264 reader came out as not sharding.
Cleared == out = << >> \/ Head(out) # H!JunkByte

\* The payloads put together are the stream, byte for byte: no fragment is
\* skipped, repeated or taken from another unit, the start codes a reader drops
\* and puts back are all there once
\* (read_h264.c:214-258, read_MPEG_video.c:83-94 and 196-199, read_MP3.c:31-78).
InFileOrder ==
  Cleared /\ due.regular =>
    \A i \in 1 .. Len(out) : out[i] = due.lap[((i - 1) % Len(due.lap)) + 1]

\* Receivers tell a complete unit by the marker.  A marker stands only where a
\* unit (H.264) or a picture (MPEG) ends, each end the stream has passed has
\* its marker, unless a packet of MPEG video ended within the start code
\* behind it, and audio packets are whole frames (read_h264.c:168-244,
\* read_MPEG_video.c:183-194 and 284).
IsEnd(n) == n % Len(due.lap) \in due.ends
Straddled(n) == medium.codec = "MPV" /\ cuts \cap (n + 1 .. n + 3) # {}
MarkersAtEnds ==
  Cleared /\ due.regular =>
    IF medium.codec = "MPA" THEN \A n \in cuts : IsEnd(n)
    ELSE /\ \A n \in marks : IsEnd(n)
         /\ \A n \in 1 .. Len(out) - 1 : IsEnd(n) => n \in marks \/ Straddled(n)

\* What a finished stream leaves unsent: nothing of an audio file, of MPEG video
\* at most the packet that was being composed, whose bytes are dropped with it;
\* H.264 finishes only at a unit without payload (read_MP3.c:71,
\* read_MPEG_video.c:156-181, read_h264.c:155-161).
LittleIsLost ==
  pc = "stopped" /\ Cleared /\ due.regular =>
    CASE medium.codec = "MPA" -> Len(out) = Len(medium.bytes)
      [] medium.codec = "MPV" -> Len(medium.bytes) - Len(out) <= num_bytes
      [] medium.codec = "H264" -> stat.sharding \/ due.pauses

\* get_frame returns before it has gone once round the file: the loop on
\* recallme ends, provided an H.264 file has a unit of one packet and MPEG
\* video no unknown id (get_frame.c:16-37).  The scheduler thread serves nobody
\* else meanwhile.
FrameReturns == due.returns => pc # "loops" /\ turns <= Len(due.lap)
=============================================================================
