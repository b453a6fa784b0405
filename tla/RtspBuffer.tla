----------------------------- MODULE RtspBuffer -----------------------------
(***************************************************************************)
(* The two buffers of one RTSP connection (struct RTSP_buffer): how        *)
(* rtsp_server fills in_buffer from the socket, how RTSP_handler cuts it   *)
(* into requests and interleaved packets, and how replies and interleaved  *)
(* packets leave through out_buffer.                                       *)
(*                                                                         *)
(* Input is bytes, because framing is about bytes; the letters of a        *)
(* request are one value, Text, and "Content-Length: " is one value, CL,   *)
(* followed by its number.  White space between two line ends, which       *)
(* RTSP_full_msg_rcvd skips, is left out.  Output is a sequence of the     *)
(* numbers of the replies and packets that the bytes belong to.            *)
(***************************************************************************)
EXTENDS Integers, Sequences, SequencesExt

CONSTANTS
  Messages,      \* what a client sends: complete requests and packets
  MaxMessages,   \* bound on the messages of the connection
  BufferSize,    \* RTSP_BUFFERSIZE
  OutSize,       \* sizeof(out_buffer)
  FrameSize,     \* bytes of a reply, and of a packet with its 4 bytes of header
  Interleaved,   \* elements of the list rtsp->interleaved
  MaxPackets,    \* bound on the packets that the local sockets deliver
  Careful        \* clients and network avoid what RTSP_handler cannot take apart

ASSUME SizesAssumption ==
  /\ BufferSize \in Nat \ {0} /\ OutSize \in Nat /\ FrameSize \in Nat \ {0}
  /\ FrameSize <= OutSize
ASSUME BoundsAssumption == {MaxMessages, Interleaved, MaxPackets} \subseteq Nat
ASSUME CarefulAssumption == Careful \in BOOLEAN

NUL == 0
LF == 10
CR == 13
Dollar == 36
CL == 67
Text == 84
Bytes == 0 .. 255

IsEol(b) == b \in {CR, LF}

\* A run of line ends at i .. j of b, of which the first n bytes have arrived.
IsRunOf(b, n, i, j) ==
  /\ 1 < i /\ i <= j /\ j <= n
  /\ \A k \in i .. j : IsEol(b[k])
  /\ ~IsEol(b[i - 1])
  /\ j < n => ~IsEol(b[j + 1])

\* The number of the first Content-Length line of a header of length h, else 0.
LengthField(b, h) ==
  LET at == {i \in 2 .. h - 1 : b[i] = CL /\ IsEol(b[i - 1])}
  IN  IF at = {} THEN 0 ELSE b[Min(at) + 1]

\* A packet has the length that its header tells.
IsPacketMessage(m) ==
  /\ Len(m) >= 4 /\ m[1] = Dollar
  /\ Len(m) = 4 + m[3] * 256 + m[4]

\* The header of a request ends with its first empty line, and the body, which
\* begins with no line end, has the length that the header tells.
IsRequestMessage(m) ==
  /\ Len(m) > 0 /\ m[1] \notin {NUL, Dollar} /\ ~IsEol(m[1])
  /\ \E h \in 1 .. Len(m), i \in 1 .. Len(m) :
       /\ IsRunOf(m, Len(m), i, h)
       /\ h > i /\ (IF h = i + 1 THEN m[i] = m[h] ELSE m[i] # m[i + 1])
       /\ \A k \in 2 .. i - 3 :
            IsEol(m[k]) /\ IsEol(m[k + 1]) => m[k] # m[k + 1] /\ ~IsEol(m[k + 2])
       /\ Len(m) = h + LengthField(m, h)

ASSUME MessagesAssumption ==
  \A m \in Messages : m \in Seq(Bytes) /\ (IsPacketMessage(m) \/ IsRequestMessage(m))

VARIABLES
  pc,          \* of rtsp_server: "select", "recv", "handle", "packets", "closed", and
               \* "broken" once in_size has gone below zero, where the model ends
  rset,        \* the connection was readable at select()
  left,        \* elements of rtsp->interleaved still to visit
  in_buffer, in_size,
  out_buffer,  \* its first out_size bytes
  out_sent,
  sent,        \* messages that the client sent
  received,    \* bytes of them that were read from the socket
  handled,     \* history: what RTSP_handler removed as one message
  owed,        \* history: every reply and packet that was put into out_buffer
  wire,        \* history: what the socket took
  packets      \* packets read from the local sockets

in_vars == <<in_buffer, in_size, handled>>
out_vars == <<out_buffer, out_sent, owed, wire>>
client_vars == <<sent, received>>
vars == <<pc, rset, left, in_vars, out_vars, client_vars, packets>>

Init ==
  /\ pc = "select" /\ rset = FALSE /\ left = 0
  /\ in_buffer = [i \in 1 .. BufferSize |-> NUL] /\ in_size = 0
  /\ out_buffer = << >> /\ out_sent = 0
  /\ sent = << >> /\ received = 0
  /\ handled = << >> /\ owed = << >> /\ wire = << >> /\ packets = 0

-----------------------------------------------------------------------------
(* RTSP_full_msg_rcvd *)

IsRun(i, j) == IsRunOf(in_buffer, in_size, i, j)

\* Mutant: the two line feeds of an old client are no longer tolerated.
EndsHeaderStrict(i, j) == IsRun(i, j) /\ j - i + 1 > 2

\* A run that ends the header: more than two characters, or the same one twice.
EndsHeader(i, j) ==
  /\ IsRun(i, j)
  /\ \/ j - i + 1 > 2
     \/ j - i + 1 = 2 /\ in_buffer[i] = in_buffer[j]

\* The lengths at which a header ends; the least is the one that counts.
HeaderEnds == {j \in 1 .. in_size : \E i \in 2 .. j : EndsHeader(i, j)}

ContentLength(h) == LengthField(in_buffer, h)

\* Null characters behind the body count as body.
TrailingNuls(n) ==
  Max({k \in 0 .. in_size - n : \A i \in n + 1 .. n + k : in_buffer[i] = NUL})

\* Mutant: the body is not waited for.
RequestLengthsNoBody == {h \in HeaderEnds : h = Min(HeaderEnds)}

\* The lengths at which the buffer holds a complete request: one or none.
RequestLengths ==
  {h + ContentLength(h) + TrailingNuls(h + ContentLength(h)) :
      h \in {j \in HeaderEnds : j = Min(HeaderEnds) /\ j + ContentLength(j) <= in_size}}

\* The length field of a packet is read wherever in_size is, and compared
\* without the four bytes of the header.
PacketBody == in_buffer[3] * 256 + in_buffer[4]
PacketLengths == {n \in {4 + PacketBody} : PacketBody <= in_size}

IsPacket == in_buffer[1] = Dollar

\* The lengths of a message ready to be handled: one or none.
FullMessages ==
  CASE in_size = 0 -> {}
    [] in_size > 0 /\ IsPacket -> PacketLengths
    [] in_size > 0 /\ ~IsPacket -> RequestLengths

\* A message that begins with a line end and a null character in a header are
\* errors for ever; a Content-Length without its number is one until more arrives.
IsInvalid ==
  /\ in_size > 0 /\ ~IsPacket
  /\ \/ IsEol(in_buffer[1])
     \/ in_buffer[in_size] = CL /\ HeaderEnds = {}
     \/ \E k \in 1 .. in_size : in_buffer[k] = NUL /\ \A h \in HeaderEnds : k < h

-----------------------------------------------------------------------------
(* The client, and the network between *)

Stream == FlattenSeq(sent)
Unread == Len(Stream) - received

\* Where message i of the stream ends.
EndOf(i) == Len(FlattenSeq(SubSeq(sent, 1, i)))

\* No read of a careful client ends inside a packet, ends before the last
\* character of the run of line ends of a header, or leaves behind a message
\* more bytes than the message has.
IsCarefulRead(e) ==
  \A i \in Len(handled) + 1 .. Len(sent) :
    LET m == sent[i]
        have == e - EndOf(i - 1)
    IN  /\ m[1] = Dollar => have <= 0 \/ have >= Len(m)
        /\ have > 0 /\ have < Len(m) =>
             ~(have >= 3 /\ IsEol(m[have + 1]) /\ \A k \in have - 2 .. have : IsEol(m[k]))
        /\ have - Len(m) <= Len(m)

Send ==
  /\ pc \notin {"closed", "broken"} /\ Len(sent) < MaxMessages
  /\ \E m \in Messages : sent' = Append(sent, m)
  /\ UNCHANGED <<pc, rset, left, in_vars, out_vars, received, packets>>

-----------------------------------------------------------------------------
(* out_buffer *)

Frame(id) == [k \in 1 .. FrameSize |-> id]
NextFrame == Frame(Len(owed) \div FrameSize + 1)

\* bwrite: a reply that does not fit is not written at all.
Bwrite ==
  /\ Len(out_buffer) + FrameSize <= OutSize
  /\ out_buffer' = out_buffer \o NextFrame
  /\ owed' = owed \o NextFrame
  /\ UNCHANGED <<out_sent, wire>>

\* The socket takes n bytes of buf, of which it took some before.
Taken(buf, n) ==
  /\ wire' = wire \o SubSeq(buf, out_sent + 1, out_sent + n)
  /\ IF out_sent + n = Len(buf)
     THEN out_buffer' = << >> /\ out_sent' = 0
     ELSE out_buffer' = buf /\ out_sent' = out_sent + n

\* RTSP_send, when the socket takes something.
Sends(buf) == \E n \in 1 .. Len(buf) - out_sent : Taken(buf, n)

Closes ==
  /\ pc' = "closed"
  /\ UNCHANGED <<rset, left, in_vars, out_vars, client_vars, packets>>

-----------------------------------------------------------------------------
(* rtsp_set_fdsets, select and rtsp_server *)

SelectStep ==
  /\ pc = "select"
  /\ rset' = (Unread > 0)
  /\ pc' = "recv"
  /\ UNCHANGED <<left, in_vars, client_vars, packets>>

\* There is nothing to send, or the socket is not writable.
SelectOnly == SelectStep /\ UNCHANGED out_vars

SelectAndSend ==
  /\ SelectStep
  /\ out_buffer # << >> /\ Sends(out_buffer)
  /\ UNCHANGED owed

\* send() fails, here or behind an interleaved packet.
SendFails ==
  /\ pc = "packets" \/ (pc = "select" /\ out_buffer # << >>)
  /\ Closes

\* in_buffer with n bytes of the stream behind the ones it holds.
Read(n) ==
  [i \in 1 .. BufferSize |->
     IF i \in in_size + 1 .. in_size + n THEN Stream[received + i - in_size] ELSE in_buffer[i]]

\* What fits into in_buffer is stored, more ends the connection.
Recv ==
  /\ pc = "recv" /\ rset
  /\ \E n \in 1 .. Min({BufferSize, Unread}) :
       /\ Careful => IsCarefulRead(received + n)
       /\ received' = received + n
       /\ IF in_size + n > BufferSize
          THEN pc' = "closed" /\ UNCHANGED <<in_buffer, in_size>>
          ELSE pc' = "handle" /\ in_buffer' = Read(n) /\ in_size' = in_size + n
  /\ UNCHANGED <<rset, left, handled, out_vars, sent, packets>>

NothingToRecv ==
  /\ pc = "recv" /\ ~rset
  /\ pc' = "packets" /\ left' = Interleaved
  /\ UNCHANGED <<rset, in_vars, out_vars, client_vars, packets>>

\* The client closes the connection, or recv() fails.
ConnectionEnds ==
  /\ pc = "recv" /\ Unread = 0
  /\ Closes

-----------------------------------------------------------------------------
(* RTSP_handler *)

\* RTSP_remove_msg; the bytes behind a message are moved and everything from
\* the message's length on is cleared.  An empty buffer keeps its old bytes.
Removed(n) ==
  [i \in 1 .. BufferSize |->
     IF i > n THEN NUL
     ELSE IF i + n <= BufferSize THEN in_buffer[i + n] ELSE in_buffer[i]]

Discard(n) ==
  /\ handled' = Append(handled, SubSeq(in_buffer, 1, Min({n, BufferSize})))
  /\ in_size' = in_size - n
  /\ in_buffer' = IF in_size' = 0 THEN in_buffer ELSE Removed(n)
  /\ pc' = IF in_size' < 0 THEN "broken" ELSE "handle"
  /\ UNCHANGED <<rset, left, client_vars, packets>>

Handles == pc = "handle" /\ ~IsInvalid

\* The state machine answers, or does not: OPTIONS of a READY session, or a
\* reply for which there is no room.
HandleRequest ==
  /\ Handles /\ ~IsPacket
  /\ \E n \in FullMessages : Discard(n)
  /\ Bwrite \/ UNCHANGED out_vars

\* An interleaved packet is RTCP of a stream, or dropped.
HandlePacket ==
  /\ Handles /\ IsPacket
  /\ \E n \in FullMessages : Discard(n)
  /\ UNCHANGED out_vars

\* The buffer is empty, or holds the beginning of a message.
HandlerReturns ==
  /\ pc = "handle"
  /\ ~IsInvalid /\ FullMessages = {}
  /\ pc' = "packets" /\ left' = Interleaved
  /\ UNCHANGED <<rset, in_vars, out_vars, client_vars, packets>>

\* "Invalid input message": rtsp_server returns at once and keeps the buffer.
HandlerFails ==
  /\ pc = "handle" /\ IsInvalid
  /\ pc' = "select"
  /\ UNCHANGED <<rset, left, in_vars, out_vars, client_vars, packets>>

-----------------------------------------------------------------------------
(* The loop over rtsp->interleaved *)

\* Mutant: a packet is read over a reply that was not sent yet.
LoopGoesOnFull == pc = "packets" /\ left > 0

\* out_buffer is empty when a packet is read into it.
LoopGoesOn == pc = "packets" /\ left > 0 /\ out_buffer = << >>

ForwardPacket ==
  /\ LoopGoesOn /\ packets < MaxPackets
  /\ owed' = owed \o NextFrame
  /\ Sends(NextFrame)
  /\ left' = left - 1 /\ packets' = packets + 1
  /\ UNCHANGED <<pc, rset, in_vars, client_vars>>

NoPacket ==
  /\ LoopGoesOn
  /\ left' = left - 1
  /\ UNCHANGED <<pc, rset, in_vars, out_vars, client_vars, packets>>

TurnEnds ==
  /\ pc = "packets" /\ (left = 0 \/ out_buffer # << >>)
  /\ pc' = "select" /\ left' = 0
  /\ UNCHANGED <<rset, in_vars, out_vars, client_vars, packets>>

Turn ==
  \/ SelectOnly \/ SelectAndSend \/ Recv \/ NothingToRecv
  \/ HandleRequest \/ HandlePacket \/ HandlerReturns \/ HandlerFails
  \/ ForwardPacket \/ NoPacket \/ TurnEnds

Next == Send \/ Turn \/ SendFails \/ ConnectionEnds

\* The main thread calls eventloop for ever.
Spec == Init /\ [][Next]_vars /\ WF_vars(Turn)

-----------------------------------------------------------------------------
(* Properties *)

\* RTSP_handler takes out of the buffer the messages that the client sent, each
\* once, whole and in order, however the reads cut the stream.
HandledAsSent == IsPrefix(handled, sent)

\* The client gets replies and packets whole, in order and without one inside
\* another, however little the socket takes at a time.
WireCarriesOwed ==
  wire \o SubSeq(out_buffer, out_sent + 1, Len(out_buffer)) = owed

\* A message that was sent is handled, unless the connection ends.
MessagesAreHandled ==
  \A i \in 1 .. MaxMessages : Len(sent) >= i ~> (Len(handled) >= i \/ pc = "closed")

=============================================================================
