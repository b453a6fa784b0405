------------------------- MODULE RtspBuffer_proofs --------------------------
(***************************************************************************)
(* Proofs about RtspBuffer, for every size of the buffers and of a reply,  *)
(* every number of interleaved streams and every set of messages.  First   *)
(* the output, whether reads are careful or not; then, for careful reads,  *)
(* the input: the stream of messages, what RTSP_full_msg_rcvd finds in it, *)
(* and that in_buffer holds what was read of it and not yet handled.       *)
(***************************************************************************)
EXTENDS RtspBuffer, SequenceTheorems, WellFoundedInduction, TLAPS

Rest == SubSeq(out_buffer, out_sent + 1, Len(out_buffer))

OutTypes ==
  /\ out_buffer \in Seq(Nat) /\ owed \in Seq(Nat) /\ wire \in Seq(Nat)
  /\ out_sent \in 0 .. Len(out_buffer)

OutInv ==
  /\ OutTypes
  /\ Len(out_buffer) <= OutSize
  /\ out_buffer = << >> => out_sent = 0
  /\ WireCarriesOwed

(* The rest of a sequence that grows grows with it. *)
LEMMA RestOfConcat ==
  ASSUME NEW s \in Seq(Nat), NEW t \in Seq(Nat), NEW k \in 0 .. Len(s)
  PROVE  SubSeq(s \o t, k + 1, Len(s \o t)) = SubSeq(s, k + 1, Len(s)) \o t
<1> DEFINE l == SubSeq(s \o t, k + 1, Len(s \o t))
           p == SubSeq(s, k + 1, Len(s))
<1>1. /\ s \o t \in Seq(Nat) /\ Len(s \o t) = Len(s) + Len(t)
      /\ \A i \in 1 .. Len(s) + Len(t) :
           (s \o t)[i] = IF i <= Len(s) THEN s[i] ELSE t[i - Len(s)]
  BY ConcatProperties
<1>2. Len(s) \in Nat /\ Len(t) \in Nat /\ k \in Nat
  BY LenProperties
<1>3. /\ l \in Seq(Nat) /\ Len(l) = Len(s) + Len(t) - k
      /\ \A i \in 1 .. Len(s) + Len(t) - k : l[i] = (s \o t)[k + i]
  <2>1. \A i \in k + 1 .. Len(s) + Len(t) : (s \o t)[i] \in Nat
    BY <1>1, <1>2, ElementOfSeq
  <2>2. k + 1 \in Int /\ Len(s) + Len(t) \in Int
    BY <1>2
  <2>3. /\ l \in Seq(Nat)
        /\ Len(l) = IF k + 1 <= Len(s) + Len(t) THEN Len(s) + Len(t) - (k + 1) + 1 ELSE 0
        /\ \A i \in 1 .. Len(s) + Len(t) - (k + 1) + 1 : l[i] = (s \o t)[k + 1 + i - 1]
    BY <1>1, <2>1, <2>2, SubSeqProperties
  <2> QED
    BY <1>2, <2>3
<1>4. /\ p \in Seq(Nat) /\ Len(p) = Len(s) - k
      /\ \A i \in 1 .. Len(s) - k : p[i] = s[k + i]
  <2>1. \A i \in k + 1 .. Len(s) : s[i] \in Nat
    BY <1>2, ElementOfSeq
  <2>2. k + 1 \in Int /\ Len(s) \in Int
    BY <1>2
  <2>3. /\ p \in Seq(Nat)
        /\ Len(p) = IF k + 1 <= Len(s) THEN Len(s) - (k + 1) + 1 ELSE 0
        /\ \A i \in 1 .. Len(s) - (k + 1) + 1 : p[i] = s[k + 1 + i - 1]
    BY <2>1, <2>2, SubSeqProperties
  <2> QED
    BY <1>2, <2>3
<1>5. /\ p \o t \in Seq(Nat) /\ Len(p \o t) = Len(p) + Len(t)
      /\ \A i \in 1 .. Len(p) + Len(t) :
           (p \o t)[i] = IF i <= Len(p) THEN p[i] ELSE t[i - Len(p)]
  BY <1>4, ConcatProperties
<1> HIDE DEF l, p
<1>6. Len(l) = Len(p \o t)
  BY <1>2, <1>3, <1>4, <1>5
<1>7. \A i \in 1 .. Len(l) : l[i] = (p \o t)[i]
  <2> SUFFICES ASSUME NEW i \in 1 .. Len(l) PROVE l[i] = (p \o t)[i]
    OBVIOUS
  <2>1. i \in 1 .. Len(s) + Len(t) - k /\ k + i \in 1 .. Len(s) + Len(t)
    BY <1>2, <1>3
  <2>2. CASE i <= Len(s) - k
    <3>1. l[i] = s[k + i]
      BY <1>1, <1>2, <1>3, <2>1, <2>2
    <3>2. (p \o t)[i] = p[i] /\ i \in 1 .. Len(s) - k
      BY <1>2, <1>4, <1>5, <2>1, <2>2
    <3> QED
      BY <1>4, <3>1, <3>2
  <2>3. CASE ~(i <= Len(s) - k)
    <3>1. l[i] = t[k + i - Len(s)]
      BY <1>1, <1>2, <1>3, <2>1, <2>3
    <3>2. (p \o t)[i] = t[i - Len(p)]
      BY <1>2, <1>4, <1>5, <2>1, <2>3
    <3>3. i - Len(p) = k + i - Len(s)
      BY <1>2, <1>4, <2>1
    <3> QED
      BY <3>1, <3>2, <3>3
  <2> QED
    BY <2>2, <2>3
<1>8. l = p \o t
  BY <1>3, <1>5, <1>6, <1>7, SeqEqual
<1> QED
  BY <1>8 DEF l, p

(* Concatenation is associative, in the form in which the steps below cite it. *)
LEMMA Associative ==
  \A u, v, w \in Seq(Nat) : (u \o v) \o w = u \o (v \o w)
  BY ConcatAssociative, Z3

(* Two adjacent parts of a sequence are one. *)
LEMMA Adjacent ==
  ASSUME NEW s \in Seq(Nat), NEW i \in 1 .. Len(s) + 1, NEW j \in i - 1 .. Len(s)
  PROVE  SubSeq(s, i, j) \o SubSeq(s, j + 1, Len(s)) = SubSeq(s, i, Len(s))
<1>1. Len(s) \in j .. Len(s)
  BY LenProperties
<1> QED
  BY <1>1, ConcatAdjacentSubSeq

(* A frame is a sequence of FrameSize numbers. *)
LEMMA FrameIsSeq ==
  ASSUME OutTypes
  PROVE  NextFrame \in Seq(Nat) /\ Len(NextFrame) = FrameSize
<1>1. Len(owed) \in Nat /\ FrameSize \in Nat \ {0}
  BY LenProperties, SizesAssumption DEF OutTypes
<1>2. Len(owed) \div FrameSize + 1 \in Nat
  BY <1>1
<1> QED
  BY <1>1, <1>2 DEF NextFrame, Frame

(* What RTSP_send takes from a buffer goes to the wire, and nothing else does. *)
LEMMA TakenStep ==
  ASSUME OutTypes, NEW buf \in Seq(Nat), out_sent \in 0 .. Len(buf),
         NEW n \in 1 .. Len(buf) - out_sent, Taken(buf, n)
  PROVE  /\ out_buffer' \in Seq(Nat) /\ wire' \in Seq(Nat)
         /\ out_sent' \in 0 .. Len(out_buffer')
         /\ Len(out_buffer') <= Len(buf)
         /\ out_buffer' = << >> => out_sent' = 0
         /\ wire' \o Rest' = wire \o SubSeq(buf, out_sent + 1, Len(buf))
<1> DEFINE a == SubSeq(buf, out_sent + 1, out_sent + n)
           b == SubSeq(buf, out_sent + n + 1, Len(buf))
<1>1. Len(buf) \in Nat /\ out_sent \in Nat /\ n \in Nat /\ out_sent + n <= Len(buf) /\ n > 0
  BY LenProperties
<1>2. a \o b = SubSeq(buf, out_sent + 1, Len(buf))
  <2>1. out_sent + 1 \in 1 .. Len(buf) + 1 /\ out_sent + n \in out_sent + 1 - 1 .. Len(buf)
    BY <1>1
  <2> QED
    BY <2>1, Adjacent
<1>3. a \in Seq(Nat) /\ b \in Seq(Nat)
  <2>1. \A i \in 1 .. Len(buf) : buf[i] \in Nat
    BY ElementOfSeq
  <2>2. /\ \A i \in out_sent + 1 .. out_sent + n : buf[i] \in Nat
        /\ \A i \in out_sent + n + 1 .. Len(buf) : buf[i] \in Nat
    BY <1>1, <2>1
  <2>3. out_sent + 1 \in Int /\ out_sent + n \in Int /\ out_sent + n + 1 \in Int /\ Len(buf) \in Int
    BY <1>1
  <2>4. a \in Seq(Nat)
    BY <2>2, <2>3, SubSeqProperties
  <2>5. b \in Seq(Nat)
    BY <2>2, <2>3, SubSeqProperties
  <2> QED
    BY <2>4, <2>5
<1>4. wire \in Seq(Nat) /\ wire' = wire \o a
  BY DEF OutTypes, Taken
<1>5. wire' \in Seq(Nat)
  BY <1>3, <1>4, ConcatProperties
<1> HIDE DEF a, b
<1>6. wire' \o b = wire \o SubSeq(buf, out_sent + 1, Len(buf))
  <2>1. (wire \o a) \o b = wire \o (a \o b)
    BY <1>3, <1>4, Associative, Zenon
  <2> QED
    BY <1>2, <1>4, <2>1
<1>7. CASE out_sent + n = Len(buf)
  <2>1. out_buffer' = << >> /\ out_sent' = 0
    BY <1>7 DEF Taken
  <2>2. b = << >>
    BY <1>1, <1>7, SubSeqEmpty DEF b
  <2>3. Len(<< >>) = 0 /\ << >> \in Seq(Nat)
    BY EmptySeq
  <2>4. Rest' = << >>
    BY <2>1, <2>3, SubSeqEmpty DEF Rest
  <2>5. wire' \o Rest' = wire \o SubSeq(buf, out_sent + 1, Len(buf))
    BY <1>6, <2>2, <2>4, Zenon
  <2>6. out_sent' \in 0 .. Len(out_buffer') /\ Len(out_buffer') <= Len(buf)
    BY <1>1, <2>1, <2>3
  <2> QED
    BY <1>5, <2>1, <2>3, <2>5, <2>6
<1>8. CASE out_sent + n # Len(buf)
  <2>1. out_buffer' = buf /\ out_sent' = out_sent + n
    BY <1>8 DEF Taken
  <2>2. Rest' = b
    BY <2>1 DEF Rest, b
  <2>3. buf # << >>
    BY <1>1, EmptySeq
  <2>4. wire' \o Rest' = wire \o SubSeq(buf, out_sent + 1, Len(buf))
    BY <1>6, <2>2, Zenon
  <2>5. out_sent' \in 0 .. Len(out_buffer') /\ Len(out_buffer') <= Len(buf)
    BY <1>1, <2>1
  <2>6. out_buffer' # << >>
    BY <2>1, <2>3
  <2> QED
    BY <1>5, <2>1, <2>4, <2>5, <2>6
<1> QED
  BY <1>7, <1>8

(* A reply that bwrite appends is owed and waits behind the rest. *)
LEMMA BwriteStep ==
  ASSUME OutInv, Bwrite
  PROVE  OutInv'
<1> USE DEF OutInv
<1>1. NextFrame \in Seq(Nat) /\ Len(NextFrame) = FrameSize
  BY FrameIsSeq
<1>2. out_buffer \in Seq(Nat) /\ owed \in Seq(Nat) /\ wire \in Seq(Nat)
  BY DEF OutTypes
<1>3. /\ out_buffer' = out_buffer \o NextFrame /\ owed' = owed \o NextFrame
      /\ out_sent' = out_sent /\ wire' = wire
      /\ Len(out_buffer) + FrameSize <= OutSize
  BY DEF Bwrite
<1>4. /\ out_buffer' \in Seq(Nat) /\ owed' \in Seq(Nat)
      /\ Len(out_buffer') = Len(out_buffer) + FrameSize
  BY <1>1, <1>2, <1>3, ConcatProperties
<1>5. Len(out_buffer) \in Nat /\ FrameSize \in Nat \ {0} /\ out_sent \in 0 .. Len(out_buffer)
  BY <1>2, LenProperties, SizesAssumption DEF OutTypes
<1>6. OutTypes' /\ Len(out_buffer') <= OutSize
  BY <1>2, <1>3, <1>4, <1>5 DEF OutTypes
<1>7. out_buffer' # << >>
  BY <1>4, <1>5, EmptySeq
<1>8. wire' \o Rest' = owed'
  <2>1. Rest' = Rest \o NextFrame
    BY <1>1, <1>2, <1>3, <1>5, RestOfConcat DEF Rest
  <2>2. wire \o Rest = owed
    BY DEF WireCarriesOwed, Rest
  <2>3. Rest \in Seq(Nat)
    <3>1. \A i \in out_sent + 1 .. Len(out_buffer) : out_buffer[i] \in Nat
      BY <1>2, <1>5, ElementOfSeq
    <3>2. out_sent + 1 \in Int /\ Len(out_buffer) \in Int
      BY <1>5
    <3> QED
      BY <3>1, <3>2, SubSeqProperties DEF Rest
  <2>4. wire \o (Rest \o NextFrame) = (wire \o Rest) \o NextFrame
    BY <1>1, <1>2, <2>3, Associative, Zenon
  <2> QED
    BY <1>3, <2>1, <2>2, <2>4, Zenon
<1> QED
  BY <1>6, <1>7, <1>8 DEF WireCarriesOwed, Rest

(* RTSP_send of out_buffer keeps the invariant. *)
LEMMA SendStep ==
  ASSUME OutInv, Sends(out_buffer), UNCHANGED owed
  PROVE  OutInv'
<1> USE DEF OutInv
<1>1. PICK n \in 1 .. Len(out_buffer) - out_sent : Taken(out_buffer, n)
  BY DEF Sends
<1>2. /\ out_buffer' \in Seq(Nat) /\ wire' \in Seq(Nat)
      /\ out_sent' \in 0 .. Len(out_buffer')
      /\ Len(out_buffer') <= Len(out_buffer)
      /\ out_buffer' = << >> => out_sent' = 0
      /\ wire' \o Rest' = wire \o Rest
  BY <1>1, TakenStep DEF OutTypes, Rest
<1>3. OutTypes'
  BY <1>2 DEF OutTypes
<1>4. Len(out_buffer') <= OutSize
  BY <1>2, LenProperties, SizesAssumption DEF OutTypes
<1>5. WireCarriesOwed'
  BY <1>2, Zenon DEF WireCarriesOwed, Rest
<1> QED
  BY <1>2, <1>3, <1>4, <1>5

(* A packet that is read into the empty buffer and sent keeps the invariant. *)
LEMMA ForwardStep ==
  ASSUME OutInv, ForwardPacket
  PROVE  OutInv'
<1> USE DEF OutInv
<1>1. NextFrame \in Seq(Nat) /\ Len(NextFrame) = FrameSize
  BY FrameIsSeq
<1>2. /\ out_buffer = << >> /\ out_sent = 0
      /\ owed' = owed \o NextFrame /\ Sends(NextFrame)
  BY DEF ForwardPacket, LoopGoesOn
<1>3. PICK n \in 1 .. Len(NextFrame) - out_sent : Taken(NextFrame, n)
  BY <1>2 DEF Sends
<1>4. Len(NextFrame) \in Nat /\ FrameSize <= OutSize /\ OutSize \in Nat
  BY <1>1, SizesAssumption
<1>5. /\ out_buffer' \in Seq(Nat) /\ wire' \in Seq(Nat)
      /\ out_sent' \in 0 .. Len(out_buffer')
      /\ Len(out_buffer') <= Len(NextFrame)
      /\ out_buffer' = << >> => out_sent' = 0
      /\ wire' \o Rest' = wire \o SubSeq(NextFrame, out_sent + 1, Len(NextFrame))
  <2>1. out_sent \in 0 .. Len(NextFrame)
    BY <1>2, <1>4
  <2> QED
    BY <1>1, <1>3, <2>1, TakenStep
<1>6. SubSeq(NextFrame, out_sent + 1, Len(NextFrame)) = NextFrame
  BY <1>1, <1>2, SubSeqFull
<1>7. wire = owed
  <2>1. wire \in Seq(Nat) /\ owed \in Seq(Nat)
    BY DEF OutTypes
  <2>2. Rest = << >>
    BY <1>2, EmptySeq, SubSeqEmpty DEF Rest
  <2>3. wire \o << >> = owed
    BY <2>2 DEF WireCarriesOwed, Rest
  <2> QED
    BY <2>1, <2>3, ConcatEmptySeq
<1>8. owed' \in Seq(Nat)
  BY <1>1, <1>2, ConcatProperties DEF OutTypes
<1>9. OutTypes'
  BY <1>5, <1>8 DEF OutTypes
<1>10. Len(out_buffer') <= OutSize
  BY <1>1, <1>4, <1>5, LenProperties
<1>11. WireCarriesOwed'
  BY <1>2, <1>5, <1>6, <1>7, Zenon DEF WireCarriesOwed, Rest
<1> QED
  BY <1>5, <1>9, <1>10, <1>11

(* A step that leaves the output alone keeps the invariant. *)
LEMMA OutUnchanged ==
  ASSUME OutInv, UNCHANGED out_vars
  PROVE  OutInv'
BY DEF OutInv, OutTypes, WireCarriesOwed, out_vars

LEMMA InitOutInv == Init => OutInv
<1> SUFFICES ASSUME Init PROVE OutInv
  OBVIOUS
<1>1. out_buffer = << >> /\ out_sent = 0 /\ owed = << >> /\ wire = << >>
  BY DEF Init
<1>2. << >> \in Seq(Nat) /\ Len(<< >>) = 0
  BY EmptySeq
<1>3. SubSeq(<< >>, 0 + 1, 0) = << >>
  BY SubSeqEmpty
<1>4. << >> \o << >> = << >>
  BY <1>2, ConcatEmptySeq
<1> QED
  BY <1>1, <1>2, <1>3, <1>4, SizesAssumption DEF OutInv, OutTypes, WireCarriesOwed

LEMMA NextOutInv == OutInv /\ [Next]_vars => OutInv'
<1> SUFFICES ASSUME OutInv, [Next]_vars PROVE OutInv'
  OBVIOUS
<1>1. CASE Send
  BY <1>1, OutUnchanged DEF Send
<1>2. CASE SelectOnly
  BY <1>2, OutUnchanged DEF SelectOnly
<1>3. CASE SelectAndSend
  BY <1>3, SendStep DEF SelectAndSend
<1>4. CASE Recv
  BY <1>4, OutUnchanged DEF Recv
<1>5. CASE NothingToRecv
  BY <1>5, OutUnchanged DEF NothingToRecv
<1>6. CASE HandleRequest
  BY <1>6, BwriteStep, OutUnchanged DEF HandleRequest
<1>7. CASE HandlePacket
  BY <1>7, OutUnchanged DEF HandlePacket
<1>8. CASE HandlerReturns
  BY <1>8, OutUnchanged DEF HandlerReturns
<1>9. CASE HandlerFails
  BY <1>9, OutUnchanged DEF HandlerFails
<1>10. CASE ForwardPacket
  BY <1>10, ForwardStep
<1>11. CASE NoPacket
  BY <1>11, OutUnchanged DEF NoPacket
<1>12. CASE TurnEnds
  BY <1>12, OutUnchanged DEF TurnEnds
<1>13. CASE SendFails
  BY <1>13, OutUnchanged DEF SendFails, Closes
<1>14. CASE ConnectionEnds
  BY <1>14, OutUnchanged DEF ConnectionEnds, Closes
<1>15. CASE UNCHANGED vars
  BY <1>15, OutUnchanged DEF vars
<1> QED
  BY <1>1, <1>2, <1>3, <1>4, <1>5, <1>6, <1>7, <1>8, <1>9, <1>10, <1>11, <1>12,
     <1>13, <1>14, <1>15 DEF Next, Turn

(* Replies and packets leave whole, in order and never one inside another,
   for every size of out_buffer and whatever the socket takes at a time
   (bwrite, RTSP_send and the loop of rtsp_server over rtsp->interleaved). *)
THEOREM WireCorrect == Spec => []WireCarriesOwed
<1>1. Init => OutInv
  BY InitOutInv
<1>2. OutInv /\ [Next]_vars => OutInv'
  BY NextOutInv
<1>3. OutInv => WireCarriesOwed
  BY DEF OutInv
<1> QED
  BY <1>1, <1>2, <1>3, PTL DEF Spec

-----------------------------------------------------------------------------
(* What the client sends, one message behind the other. *)

(* A property that fails for a number fails for a least one. *)
LEMMA LeastNat ==
  ASSUME NEW T, T \subseteq Nat, T # {}
  PROVE  \E x \in T : \A y \in T : x <= y
<1>1. PICK x \in T : \A y \in T : ~(<<y, x>> \in OpToRel(<, Nat))
  BY NatLessThanWellFounded, WFMin
<1>2. \A y \in T : ~(y < x)
  BY <1>1 DEF OpToRel
<1> QED
  BY <1>2

\* Concatenation, kept folded.
Cat(u, v) == u \o v

\* g puts the elements of s together from the left.
Joins(g, s) == g = [i \in 1 .. Len(s) |-> IF i = 1 THEN s[i] ELSE Cat(g[i - 1], s[i])]

(* What puts a sequence together, element by element. *)
LEMMA JoinsSteps ==
  ASSUME NEW s \in Seq(Seq(Bytes)), NEW g, Joins(g, s)
  PROVE  /\ Len(s) > 0 => g[1] = s[1]
         /\ \A i \in 2 .. Len(s) : g[i] = Cat(g[i - 1], s[i])
<1>1. Len(s) \in Nat
  BY LenProperties
<1> PICK h : h = g
  OBVIOUS
<1>2. g = [i \in 1 .. Len(s) |-> IF i = 1 THEN s[i] ELSE Cat(h[i - 1], s[i])]
  BY DEF Joins
<1>3. \A i \in 1 .. Len(s) : g[i] = IF i = 1 THEN s[i] ELSE Cat(h[i - 1], s[i])
  BY <1>2, Zenon
<1>4. Len(s) > 0 => g[1] = s[1]
  BY <1>1, <1>3
<1>5. \A i \in 2 .. Len(s) : i \in 1 .. Len(s) /\ i # 1
  BY <1>1
<1>6. \A i \in 2 .. Len(s) : g[i] = Cat(h[i - 1], s[i])
  BY <1>3, <1>5, Zenon
<1> QED
  BY <1>4, <1>6

\* t begins with s.
Begins(s, t) == Len(s) <= Len(t) /\ \A i \in 1 .. Len(s) : s[i] = t[i]

(* Two sequences with a common beginning are put together alike so far. *)
LEMMA JoinsAlike ==
  ASSUME NEW s \in Seq(Seq(Bytes)), NEW t \in Seq(Seq(Bytes)), NEW g, NEW h, Joins(g, s), Joins(h, t),
         Begins(s, t), Len(s) > 0
  PROVE  g[Len(s)] = h[Len(s)]
<1>1. Len(s) \in Nat /\ Len(t) \in Nat /\ Len(s) <= Len(t) /\ \A i \in 1 .. Len(s) : s[i] = t[i]
  BY LenProperties DEF Begins
<1> DEFINE T == {i \in 1 .. Len(s) : g[i] # h[i]}
<1> SUFFICES ASSUME T # {} PROVE FALSE
  <2>1. Len(s) \in 1 .. Len(s)
    BY <1>1
  <2> QED
    BY <2>1
<1>2. PICK k \in T : \A l \in T : k <= l
  <2>1. T \subseteq Nat
    BY <1>1
  <2> HIDE DEF T
  <2> QED
    BY <2>1, LeastNat
<1>3. k \in 1 .. Len(s) /\ g[k] # h[k] /\ s[k] = t[k]
  BY <1>1, <1>2
<1>4. CASE k = 1
  <2>1. Len(s) > 0 /\ Len(t) > 0
    BY <1>1, <1>3
  <2>2. g[1] = s[1] /\ h[1] = t[1]
    BY <2>1, JoinsSteps, Zenon
  <2> QED
    BY <1>3, <1>4, <2>2
<1>5. CASE k # 1
  <2>1. k - 1 \in 1 .. Len(s) /\ k - 1 \notin T
    BY <1>1, <1>2, <1>3, <1>5
  <2>2. g[k - 1] = h[k - 1]
    BY <2>1
  <2>3. k \in 2 .. Len(s) /\ k \in 2 .. Len(t)
    BY <1>1, <1>3, <1>5
  <2>4. g[k] = Cat(g[k - 1], s[k]) /\ h[k] = Cat(h[k - 1], t[k])
    BY <2>3, JoinsSteps
  <2> QED
    BY <1>3, <2>2, <2>4
<1> QED
  BY <1>4, <1>5

(* What puts a sequence together puts together one that is longer by one. *)
LEMMA JoinsLonger ==
  ASSUME NEW s \in Seq(Seq(Bytes)), NEW m \in Seq(Bytes), NEW g, Joins(g, s), NEW t, t = Append(s, m)
  PROVE  LET h == [i \in 1 .. Len(t) |-> IF i <= Len(s) THEN g[i] ELSE IF i = 1 THEN m ELSE Cat(g[i - 1], m)]
         IN Joins(h, t)
<1> DEFINE h == [i \in 1 .. Len(t) |-> IF i <= Len(s) THEN g[i] ELSE IF i = 1 THEN m ELSE Cat(g[i - 1], m)]
           f == [i \in 1 .. Len(t) |-> IF i = 1 THEN t[i] ELSE Cat(h[i - 1], t[i])]
<1>1. /\ Len(s) \in Nat /\ Len(t) = Len(s) + 1 /\ t[Len(s) + 1] = m
      /\ \A i \in 1 .. Len(s) : t[i] = s[i]
  BY LenProperties, AppendProperties
<1>2. ASSUME NEW i \in 1 .. Len(t) PROVE h[i] = f[i]
  <2>1. CASE i <= Len(s) /\ i = 1
    BY <1>1, <2>1, JoinsSteps
  <2>2. CASE i <= Len(s) /\ i # 1
    <3>1. i \in 2 .. Len(s) /\ i - 1 \in 1 .. Len(t) /\ i - 1 <= Len(s)
      BY <1>1, <2>2
    <3>2. g[i] = Cat(g[i - 1], s[i]) /\ h[i] = g[i] /\ h[i - 1] = g[i - 1]
      BY <3>1, <2>2, JoinsSteps
    <3> QED
      BY <1>1, <2>2, <3>1, <3>2
  <2>3. CASE ~(i <= Len(s)) /\ i = 1
    BY <1>1, <2>3
  <2>4. CASE ~(i <= Len(s)) /\ i # 1
    <3>1. i = Len(s) + 1 /\ i - 1 \in 1 .. Len(t) /\ i - 1 <= Len(s)
      BY <1>1, <2>4
    <3>2. h[i] = Cat(g[i - 1], m) /\ h[i - 1] = g[i - 1] /\ t[i] = m
      BY <1>1, <2>4, <3>1
    <3> QED
      BY <2>4, <3>2
  <2> QED
    BY <2>1, <2>2, <2>3, <2>4
<1>3. h = f
  <2>1. h = [i \in 1 .. Len(t) |-> h[i]] /\ f = [i \in 1 .. Len(t) |-> f[i]]
    OBVIOUS
  <2> HIDE DEF h, f
  <2> QED
    BY <1>2, <2>1
<1>4. Joins(h, t)
  BY <1>3, Zenon DEF Joins
<1> QED
  BY <1>4

(* Every sequence can be put together. *)
LEMMA JoinsExists ==
  \A s \in Seq(Seq(Bytes)) : \E g : Joins(g, s)
<1> DEFINE T == {n \in Nat : \E s \in Seq(Seq(Bytes)) : Len(s) = n /\ ~ \E g : Joins(g, s)}
<1>1. T = {}
  <2> SUFFICES ASSUME T # {} PROVE FALSE
    OBVIOUS
  <2>1. PICK n \in T : \A k \in T : n <= k
    <3>1. T \subseteq Nat
      OBVIOUS
    <3> HIDE DEF T
    <3> QED
      BY <3>1, LeastNat
  <2>2. PICK s \in Seq(Seq(Bytes)) : Len(s) = n /\ ~ \E g : Joins(g, s)
    BY <2>1
  <2>3. CASE n = 0
    <3>1. 1 .. Len(s) = {}
      BY <2>2, <2>3
    <3> DEFINE g == [i \in 1 .. Len(s) |-> s[i]]
    <3>2. g = [i \in 1 .. Len(s) |-> IF i = 1 THEN s[i] ELSE Cat(g[i - 1], s[i])]
      BY <3>1
    <3>3. Joins(g, s)
      BY <3>2, Zenon DEF Joins
    <3> QED
      BY <2>2, <3>3
  <2>4. CASE n # 0
    <3>1. n \in Nat /\ n - 1 \in Nat /\ s # << >>
      BY <2>1, <2>2, <2>4, EmptySeq
    <3>2. PICK r \in Seq(Seq(Bytes)), m \in Seq(Bytes) : s = Append(r, m)
      BY <3>1, SequenceEmptyOrAppend
    <3>3. Len(r) = n - 1
      BY <2>2, <3>2, AppendProperties, LenProperties
    <3>4. n - 1 \notin T
      BY <2>1, <3>1
    <3>5. PICK g : Joins(g, r)
      BY <3>1, <3>2, <3>3, <3>4, Zenon
    <3> QED
      BY <2>2, <3>2, <3>5, JoinsLonger
  <2> QED
    BY <2>3, <2>4
<1> SUFFICES ASSUME NEW s \in Seq(Seq(Bytes)) PROVE \E g : Joins(g, s)
  OBVIOUS
<1>2. Len(s) \in Nat /\ Len(s) \notin T
  BY <1>1, LenProperties
<1> QED
  BY <1>2

(* FlattenSeq puts it together. *)
LEMMA FlattenIs ==
  ASSUME NEW s \in Seq(Seq(Bytes)), Len(s) > 0
  PROVE  \E g : Joins(g, s) /\ FlattenSeq(s) = g[Len(s)]
<1> DEFINE f == CHOOSE g : g = [i \in 1 .. Len(s) |-> IF i = 1 THEN s[i] ELSE g[i - 1] \o s[i]]
<1>1. \E g : g = [i \in 1 .. Len(s) |-> IF i = 1 THEN s[i] ELSE g[i - 1] \o s[i]]
  BY JoinsExists, Zenon DEF Joins, Cat
<1>2. f = [i \in 1 .. Len(s) |-> IF i = 1 THEN s[i] ELSE f[i - 1] \o s[i]]
  BY <1>1, Zenon
<1>3. Joins(f, s)
  BY <1>2, Zenon DEF Joins, Cat
<1>4. Len(s) # 0
  BY LenProperties
<1>5. FlattenSeq(s) = f[Len(s)]
  BY <1>4, Zenon DEF FlattenSeq
<1> HIDE DEF f
<1> QED
  BY <1>3, <1>5

(* One more message goes behind the others. *)
LEMMA FlattenAppend ==
  ASSUME NEW s \in Seq(Seq(Bytes)), NEW m \in Seq(Bytes)
  PROVE  FlattenSeq(Append(s, m)) = FlattenSeq(s) \o m
<1> DEFINE t == Append(s, m)
<1>1. /\ t \in Seq(Seq(Bytes)) /\ Len(t) = Len(s) + 1 /\ t[Len(s) + 1] = m /\ Len(s) \in Nat
      /\ \A i \in 1 .. Len(s) : t[i] = s[i]
  BY LenProperties, AppendProperties
<1> HIDE DEF t
<1>2. PICK h : Joins(h, t) /\ FlattenSeq(t) = h[Len(t)]
  <2>1. Len(t) > 0
    BY <1>1
  <2> QED
    BY <1>1, <2>1, FlattenIs, Zenon
<1>3. CASE Len(s) = 0
  <2>1. FlattenSeq(t) = m
    BY <1>1, <1>2, <1>3, JoinsSteps
  <2>2. FlattenSeq(s) = << >>
    BY <1>3, EmptySeq DEF FlattenSeq
  <2> QED
    BY <2>1, <2>2, ConcatEmptySeq DEF t
<1>4. CASE Len(s) # 0
  <2>1. PICK g : Joins(g, s) /\ FlattenSeq(s) = g[Len(s)]
    <3>1. Len(s) > 0
      BY <1>1, <1>4
    <3> QED
      BY <3>1, FlattenIs, Zenon
  <2>2. g[Len(s)] = h[Len(s)]
    <3>1. Begins(s, t) /\ Len(s) \in 1 .. Len(s)
      BY <1>1, <1>4 DEF Begins
    <3>2. t \in Seq(Seq(Bytes)) /\ Joins(g, s) /\ Joins(h, t)
      BY <1>1, <1>2, <2>1
    <3>3. Len(s) > 0
      BY <1>1, <1>4
    <3> QED
      BY <3>1, <3>2, <3>3, JoinsAlike, Zenon
  <2>3. Len(t) \in 2 .. Len(t) /\ Len(t) - 1 = Len(s)
    BY <1>1, <1>4
  <2>4. h[Len(t)] = Cat(h[Len(s)], t[Len(t)])
    <3>1. t \in Seq(Seq(Bytes)) /\ Joins(h, t)
      BY <1>1, <1>2
    <3>2. \A i \in 2 .. Len(t) : h[i] = Cat(h[i - 1], t[i])
      BY <3>1, JoinsSteps, Zenon
    <3>3. h[Len(t)] = Cat(h[Len(t) - 1], t[Len(t)])
      BY <2>3, <3>2, Zenon
    <3> QED
      BY <2>3, <3>3, Zenon
  <2> QED
    BY <1>1, <1>2, <2>1, <2>2, <2>4 DEF t, Cat
<1> QED
  BY <1>3, <1>4

(* The stream is a sequence of bytes. *)
LEMMA FlattenIsSeq ==
  \A s \in Seq(Seq(Bytes)) : FlattenSeq(s) \in Seq(Bytes)
<1> DEFINE T == {n \in Nat : \E s \in Seq(Seq(Bytes)) : Len(s) = n /\ FlattenSeq(s) \notin Seq(Bytes)}
<1>1. T = {}
  <2> SUFFICES ASSUME T # {} PROVE FALSE
    OBVIOUS
  <2>1. PICK n \in T : \A k \in T : n <= k
    <3>1. T \subseteq Nat
      OBVIOUS
    <3> HIDE DEF T
    <3> QED
      BY <3>1, LeastNat
  <2>2. PICK s \in Seq(Seq(Bytes)) : Len(s) = n /\ FlattenSeq(s) \notin Seq(Bytes)
    BY <2>1
  <2>3. CASE n = 0
    <3>1. FlattenSeq(s) = << >>
      BY <2>2, <2>3, EmptySeq DEF FlattenSeq
    <3> QED
      BY <2>2, <3>1, EmptySeq
  <2>4. CASE n # 0
    <3>1. n \in Nat /\ n - 1 \in Nat /\ s # << >>
      BY <2>1, <2>2, <2>4, EmptySeq
    <3>2. PICK r \in Seq(Seq(Bytes)), m \in Seq(Bytes) : s = Append(r, m)
      BY <3>1, SequenceEmptyOrAppend
    <3>3. Len(r) = n - 1
      BY <2>2, <3>2, AppendProperties, LenProperties
    <3>4. n - 1 \notin T
      BY <2>1, <3>1
    <3>5. FlattenSeq(r) \in Seq(Bytes)
      BY <3>1, <3>2, <3>3, <3>4, Zenon
    <3>6. FlattenSeq(s) = FlattenSeq(r) \o m
      BY <3>2, FlattenAppend
    <3> QED
      BY <2>2, <3>2, <3>5, <3>6, ConcatProperties
  <2> QED
    BY <2>3, <2>4
<1> SUFFICES ASSUME NEW s \in Seq(Seq(Bytes)) PROVE FlattenSeq(s) \in Seq(Bytes)
  OBVIOUS
<1>2. Len(s) \in Nat /\ Len(s) \notin T
  BY <1>1, LenProperties
<1> QED
  BY <1>2

-----------------------------------------------------------------------------
(* Where the messages stand in the stream. *)

Placed(i) ==
  /\ EndOf(i - 1) \in Nat /\ EndOf(i) = EndOf(i - 1) + Len(sent[i]) /\ EndOf(i) <= Len(Stream)
  /\ \A k \in 1 .. Len(sent[i]) : Stream[EndOf(i - 1) + k] = sent[i][k]

Framing ==
  /\ sent \in Seq(Messages) /\ Stream \in Seq(Bytes)
  /\ EndOf(0) = 0 /\ EndOf(Len(sent)) = Len(Stream)
  /\ \A i \in 1 .. Len(sent) : Placed(i)

(* Messages are not empty. *)
LEMMA MessageIsSeq ==
  /\ \A m \in Messages : m \in Seq(Bytes) /\ Len(m) \in Nat /\ Len(m) > 0
  /\ \A s \in Seq(Messages) : s \in Seq(Seq(Bytes))
<1>1. ASSUME NEW m \in Messages PROVE m \in Seq(Bytes) /\ Len(m) \in Nat /\ Len(m) > 0
  <2>1. m \in Seq(Bytes)
    BY MessagesAssumption
  <2>2. Len(m) \in Nat
    BY <2>1, LenProperties
  <2>3. Len(m) > 0
    BY <2>2, MessagesAssumption DEF IsPacketMessage, IsRequestMessage
  <2> QED
    BY <2>1, <2>2, <2>3
<1>2. ASSUME NEW s \in Seq(Messages) PROVE s \in Seq(Seq(Bytes))
  <2>1. Messages \subseteq Seq(Bytes)
    BY <1>1
  <2> QED
    BY <2>1, SeqMonotonic
<1> QED
  BY <1>1, <1>2

(* Nothing was sent. *)
LEMMA InitFraming == Init => Framing
<1> SUFFICES ASSUME Init PROVE Framing
  OBVIOUS
<1>1. sent = << >> /\ sent \in Seq(Messages) /\ Len(sent) = 0
  BY EmptySeq DEF Init
<1>2. FlattenSeq(sent) = << >> /\ SubSeq(sent, 1, 0) = << >>
  BY <1>1, SubSeqEmpty DEF FlattenSeq
<1>3. Stream \in Seq(Bytes) /\ Len(Stream) = 0
  BY <1>2, EmptySeq DEF Stream
<1>4. EndOf(0) = 0
  BY <1>1, <1>2 DEF EndOf
<1> QED
  BY <1>1, <1>3, <1>4 DEF Framing

(* A message more changes nothing before it. *)
LEMMA SendFraming ==
  ASSUME Framing, NEW m \in Messages, sent' = Append(sent, m)
  PROVE  /\ Framing' /\ Len(sent') = Len(sent) + 1 /\ sent'[Len(sent) + 1] = m
         /\ Len(Stream') = Len(Stream) + Len(m)
         /\ \A k \in 1 .. Len(Stream) : Stream'[k] = Stream[k]
         /\ \A i \in 0 .. Len(sent) : EndOf(i)' = EndOf(i)
         /\ \A i \in 1 .. Len(sent) : sent'[i] = sent[i]
<1>1. /\ sent \in Seq(Messages) /\ Len(sent) \in Nat /\ sent \in Seq(Seq(Bytes))
      /\ m \in Seq(Bytes) /\ Len(m) \in Nat /\ Len(m) > 0
  BY MessageIsSeq, LenProperties DEF Framing
<1>2. /\ sent' \in Seq(Messages) /\ Len(sent') = Len(sent) + 1 /\ sent'[Len(sent) + 1] = m
      /\ \A i \in 1 .. Len(sent) : sent'[i] = sent[i]
  BY <1>1, AppendProperties
<1>3. Stream' = Stream \o m
  BY <1>1, FlattenAppend, Zenon DEF Stream
<1>4. Stream \in Seq(Bytes) /\ Len(Stream) \in Nat
  BY LenProperties DEF Framing
<1>5. /\ Stream' \in Seq(Bytes) /\ Len(Stream') = Len(Stream) + Len(m)
      /\ \A k \in 1 .. Len(Stream) + Len(m) : Stream'[k] = IF k <= Len(Stream) THEN Stream[k] ELSE m[k - Len(Stream)]
  BY <1>1, <1>3, <1>4, ConcatProperties
<1>6. ASSUME NEW i \in 0 .. Len(sent) PROVE EndOf(i)' = EndOf(i)
  <2>1. SubSeq(sent', 1, i) = SubSeq(sent, 1, i)
    <3>1. i \in Int /\ \A j \in 1 .. i : sent'[j] = sent[j] /\ sent[j] \in Messages
      BY <1>1, <1>2, ElementOfSeq
    <3>2. /\ SubSeq(sent, 1, i) \in Seq(Messages) /\ Len(SubSeq(sent, 1, i)) = IF 1 <= i THEN i - 1 + 1 ELSE 0
          /\ \A j \in 1 .. i - 1 + 1 : SubSeq(sent, 1, i)[j] = sent[1 + j - 1]
      BY <3>1, SubSeqProperties
    <3>3. /\ SubSeq(sent', 1, i) \in Seq(Messages) /\ Len(SubSeq(sent', 1, i)) = IF 1 <= i THEN i - 1 + 1 ELSE 0
          /\ \A j \in 1 .. i - 1 + 1 : SubSeq(sent', 1, i)[j] = sent'[1 + j - 1]
      BY <3>1, SubSeqProperties
    <3> DEFINE a == SubSeq(sent, 1, i)
               b == SubSeq(sent', 1, i)
    <3>4. a \in Seq(Messages) /\ b \in Seq(Messages) /\ Len(a) = i /\ Len(b) = i
          /\ \A j \in 1 .. i : a[j] = sent[j] /\ b[j] = sent'[j]
      <4>1. i - 1 + 1 = i /\ (IF 1 <= i THEN i - 1 + 1 ELSE 0) = i /\ \A j \in 1 .. i : 1 + j - 1 = j
        BY <1>1
      <4> QED
        BY <3>2, <3>3, <4>1
    <3> HIDE DEF a, b
    <3>5. a = b
      <4>1. Len(a) = Len(b) /\ \A j \in 1 .. Len(a) : a[j] = b[j]
        BY <3>1, <3>4
      <4> QED
        BY <3>4, <4>1, SeqEqual, Zenon
    <3> QED
      BY <3>5 DEF a, b
  <2> QED
    BY <2>1 DEF EndOf
<1>a. PICK n \in Nat : n = Len(sent)
  BY <1>1
<1>7. EndOf(n + 1)' = Len(Stream')
  <2>1. SubSeq(sent', 1, n + 1) = sent'
    BY <1>2, <1>a, SubSeqFull
  <2> QED
    BY <2>1 DEF EndOf, Stream
<1>8. EndOf(0)' = 0 /\ EndOf(n)' = Len(Stream)
  BY <1>1, <1>6, <1>a DEF Framing
<1>9. ASSUME NEW i \in 1 .. Len(sent') PROVE Placed(i)'
  <2>1. CASE i <= Len(sent)
    <3>1. i \in 1 .. Len(sent) /\ i \in 0 .. Len(sent) /\ i - 1 \in 0 .. Len(sent)
      BY <1>1, <2>1
    <3>2. Placed(i)
      BY <3>1 DEF Framing
    <3>3. EndOf(i)' = EndOf(i) /\ EndOf(i - 1)' = EndOf(i - 1) /\ sent'[i] = sent[i]
      BY <1>2, <1>6, <3>1
    <3>4. Len(sent[i]) \in Nat
      BY <1>1, <3>1, ElementOfSeq, MessageIsSeq
    <3>5. ASSUME NEW k \in 1 .. Len(sent[i]) PROVE Stream'[EndOf(i - 1) + k] = sent[i][k]
      <4>1. EndOf(i - 1) + k \in 1 .. Len(Stream)
        BY <1>4, <3>2, <3>4 DEF Placed
      <4>2. /\ EndOf(i - 1) + k \in 1 .. Len(Stream) + Len(m) /\ EndOf(i - 1) + k <= Len(Stream)
            /\ Stream[EndOf(i - 1) + k] = sent[i][k]
        BY <1>1, <1>4, <3>2, <4>1 DEF Placed
      <4> HIDE DEF Placed
      <4> QED
        BY <1>5, <4>2
    <3>6. EndOf(i) <= Len(Stream')
      BY <1>1, <1>4, <1>5, <3>2, <3>4 DEF Placed
    <3> QED
      BY <3>2, <3>3, <3>5, <3>6 DEF Placed
  <2>2. CASE ~(i <= Len(sent))
    <3>1. i = n + 1 /\ i - 1 = n
      BY <1>1, <1>2, <1>a, <2>2
    <3>2. EndOf(i - 1)' = Len(Stream) /\ EndOf(i)' = Len(Stream) + Len(m) /\ sent'[i] = m
      BY <1>2, <1>5, <1>7, <1>8, <1>a, <3>1
    <3>3. ASSUME NEW k \in 1 .. Len(m) PROVE Stream'[Len(Stream) + k] = m[k]
      <4>1. /\ Len(Stream) + k \in 1 .. Len(Stream) + Len(m) /\ ~(Len(Stream) + k <= Len(Stream))
            /\ Len(Stream) + k - Len(Stream) = k
        BY <1>1, <1>4
      <4> QED
        BY <1>5, <4>1
    <3>4. Len(Stream) + Len(m) <= Len(Stream')
      BY <1>1, <1>4, <1>5
    <3> QED
      BY <1>4, <3>2, <3>3, <3>4 DEF Placed
  <2> QED
    BY <2>1, <2>2
<1>10. Framing'
  <2>1. EndOf(Len(sent))' = Len(Stream)'
    BY <1>2, <1>7, <1>a
  <2> QED
    BY <1>2, <1>5, <1>8, <1>9, <2>1 DEF Framing
<1>11. \A k \in 1 .. Len(Stream) : Stream'[k] = Stream[k]
  BY <1>1, <1>4, <1>5
<1> QED
  BY <1>2, <1>5, <1>6, <1>10, <1>11

-----------------------------------------------------------------------------
(* What RTSP_full_msg_rcvd finds when a message stands in front. *)

\* in_buffer holds m, or as much of it as a careful read brings, and perhaps
\* what comes behind it.
AtFront(m) ==
  /\ \A k \in 1 .. in_size : k <= Len(m) => in_buffer[k] = m[k]
  /\ m[1] = Dollar => in_size >= Len(m)
  /\ in_size < Len(m) /\ in_size >= 3 /\ IsEol(m[in_size + 1]) =>
       \E k \in in_size - 2 .. in_size : ~IsEol(m[k])
  /\ in_size > Len(m) => in_buffer[Len(m) + 1] # NUL /\ ~IsEol(in_buffer[Len(m) + 1])

(* Min of a set of numbers is its least element. *)
LEMMA LeastOf ==
  ASSUME NEW S, S \subseteq Nat, S # {}
  PROVE  Min(S) \in S /\ \A x \in S : Min(S) <= x
<1>1. \E x \in S : \A y \in S : x <= y
  BY LeastNat
<1> QED
  BY <1>1 DEF Min

(* A packet that is there has the length that its header tells. *)
LEMMA PacketFound ==
  ASSUME NEW m \in Messages, AtFront(m), in_size \in Nat, in_size > 0, IsPacket, NEW n \in PacketLengths
  PROVE  n = Len(m) /\ n <= in_size
<1>1. Len(m) \in Nat /\ Len(m) > 0
  BY MessageIsSeq
<1>2. in_buffer[1] = m[1] /\ in_buffer[1] = Dollar
  BY <1>1 DEF AtFront, IsPacket
<1>3. in_size >= Len(m)
  BY <1>2 DEF AtFront
<1>4. IsPacketMessage(m)
  BY <1>2, MessagesAssumption DEF IsRequestMessage
<1>5. Len(m) >= 4 /\ Len(m) = 4 + m[3] * 256 + m[4]
  BY <1>4 DEF IsPacketMessage
<1>6. in_buffer[3] = m[3] /\ in_buffer[4] = m[4]
  <2>1. 3 \in 1 .. in_size /\ 3 <= Len(m) /\ 4 \in 1 .. in_size /\ 4 <= Len(m)
    BY <1>1, <1>3, <1>5
  <2> QED
    BY <2>1 DEF AtFront
<1>7. m[3] \in Nat /\ m[4] \in Nat
  <2>1. 3 \in 1 .. Len(m) /\ 4 \in 1 .. Len(m) /\ m \in Seq(Bytes)
    BY <1>1, <1>5, MessageIsSeq
  <2>2. m[3] \in Bytes /\ m[4] \in Bytes
    BY <2>1, ElementOfSeq
  <2> QED
    BY <2>2 DEF Bytes
<1>8. n = 4 + (m[3] * 256 + m[4])
  BY <1>6 DEF PacketLengths, PacketBody
<1>9. \A a, b \in Nat : 4 + (a * 256 + b) = 4 + a * 256 + b
  OBVIOUS
<1>10. n = Len(m)
  BY <1>5, <1>7, <1>8, <1>9
<1> QED
  BY <1>1, <1>3, <1>10

\* The run of line ends i .. h ends the header of m.
Header(m, i, h) ==
  /\ IsRunOf(m, Len(m), i, h)
  /\ h > i /\ (IF h = i + 1 THEN m[i] = m[h] ELSE m[i] # m[i + 1])
  /\ \A k \in 2 .. i - 3 : IsEol(m[k]) /\ IsEol(m[k + 1]) => m[k] # m[k + 1] /\ ~IsEol(m[k + 2])
  /\ Len(m) = h + LengthField(m, h)

(* No run that is there ends the header before it ends. *)
LEMMA NoneEndsBefore ==
  ASSUME NEW m \in Messages, AtFront(m), in_size \in Nat,
         NEW i0 \in 1 .. Len(m), NEW h0 \in 1 .. Len(m), Header(m, i0, h0), NEW h \in HeaderEnds
  PROVE  h0 <= h
<1> SUFFICES ASSUME h < h0 PROVE FALSE
  <2>1. h \in Int /\ h0 \in Int
    BY MessageIsSeq DEF HeaderEnds
  <2> QED
    BY <2>1
<1>1. Len(m) \in Nat
  BY MessageIsSeq
<1>2. h \in 1 .. in_size /\ h < Len(m)
  BY <1>1 DEF HeaderEnds
<1>3. PICK i \in 2 .. h : EndsHeader(i, h)
  BY DEF HeaderEnds
<1>4. \A k \in 1 .. h : in_buffer[k] = m[k]
  BY <1>1, <1>2 DEF AtFront
<1>5. /\ 1 < i /\ i <= h /\ \A k \in i .. h : IsEol(m[k])
      /\ ~IsEol(m[i - 1])
      /\ h < in_size => ~IsEol(m[h + 1])
      /\ h - i + 1 > 2 \/ (h - i + 1 = 2 /\ m[i] = m[h])
  <2>1. /\ 1 < i /\ i <= h /\ (\A k \in i .. h : IsEol(in_buffer[k])) /\ ~IsEol(in_buffer[i - 1])
        /\ h < in_size => ~IsEol(in_buffer[h + 1])
        /\ h - i + 1 > 2 \/ (h - i + 1 = 2 /\ in_buffer[i] = in_buffer[h])
    BY <1>3 DEF EndsHeader, IsRun, IsRunOf
  <2>2. i - 1 \in 1 .. h /\ i \in 1 .. h /\ h \in 1 .. h /\ \A k \in i .. h : k \in 1 .. h
    BY <1>2, <2>1
  <2>3. h < in_size => in_buffer[h + 1] = m[h + 1]
    <3>1. h < in_size => h + 1 \in 1 .. in_size /\ h + 1 <= Len(m)
      BY <1>1, <1>2
    <3> QED
      BY <3>1 DEF AtFront
  <2> QED
    BY <1>4, <2>1, <2>2, <2>3
<1>6. /\ 1 < i0 /\ h0 <= Len(m) /\ (\A k \in i0 .. h0 : IsEol(m[k])) /\ ~IsEol(m[i0 - 1])
      /\ h0 > i0 /\ (h0 # i0 + 1 => m[i0] # m[i0 + 1])
      /\ \A k \in 2 .. i0 - 3 : IsEol(m[k]) /\ IsEol(m[k + 1]) => m[k] # m[k + 1] /\ ~IsEol(m[k + 2])
  BY DEF Header, IsRunOf
<1>7. i \in Nat /\ h \in Nat /\ i0 \in Nat /\ h0 \in Nat
  BY <1>1, <1>2
<1>8. CASE i0 <= h
  <2>1. i = i0
    <3>1. ~(i < i0)
      <4> SUFFICES ASSUME i < i0 PROVE FALSE
        OBVIOUS
      <4>1. i0 - 1 \in i .. h
        BY <1>7, <1>8
      <4> QED
        BY <1>5, <1>6, <4>1
    <3>2. ~(i0 < i)
      <4> SUFFICES ASSUME i0 < i PROVE FALSE
        OBVIOUS
      <4>1. i - 1 \in i0 .. h0
        BY <1>5, <1>7
      <4> QED
        BY <1>5, <1>6, <4>1
    <3> QED
      BY <1>7, <3>1, <3>2
  <2>2. h + 1 \in i0 .. h0
    BY <1>7, <1>8
  <2>3. h = in_size /\ IsEol(m[h + 1])
    BY <1>2, <1>5, <1>6, <1>7, <2>2
  <2>4. CASE h - i + 1 > 2
    <3>1. h >= 3 /\ \A k \in h - 2 .. h : k \in i .. h
      BY <1>5, <1>7, <2>4
    <3>2. in_size < Len(m) /\ in_size >= 3 /\ IsEol(m[in_size + 1])
      BY <1>2, <2>3, <3>1
    <3>3. PICK k \in in_size - 2 .. in_size : ~IsEol(m[k])
      BY <3>2 DEF AtFront
    <3> QED
      BY <1>5, <2>3, <3>1, <3>3
  <2>5. CASE ~(h - i + 1 > 2)
    <3>1. h = i0 + 1 /\ m[i0] = m[h]
      BY <1>5, <1>7, <2>1, <2>5
    <3> QED
      BY <1>6, <1>7, <3>1
  <2> QED
    BY <2>4, <2>5
<1>9. CASE ~(i0 <= h)
  <2>1. i + 1 <= h
    BY <1>5, <1>7
  <2>2. i \in i .. h /\ i + 1 \in i .. h
    BY <1>7, <2>1
  <2>3. IsEol(m[i]) /\ IsEol(m[i + 1])
    BY <1>5, <2>2
  <2>4. h # i0 - 1
    <3> SUFFICES ASSUME h = i0 - 1 PROVE FALSE
      OBVIOUS
    <3>1. h \in i .. h
      BY <1>5, <1>7
    <3> QED
      BY <1>5, <1>6, <3>1
  <2>5. i \in 2 .. i0 - 3
    BY <1>5, <1>7, <1>9, <2>1, <2>4
  <2>6. m[i] # m[i + 1] /\ ~IsEol(m[i + 2])
    BY <1>6, <2>3, <2>5
  <2>7. CASE h - i + 1 > 2
    <3>1. i + 2 \in i .. h
      BY <1>7, <2>7
    <3> QED
      BY <1>5, <2>6, <3>1
  <2>8. CASE ~(h - i + 1 > 2)
    <3>1. h = i + 1
      BY <1>5, <1>7, <2>1, <2>8
    <3> QED
      BY <1>5, <1>7, <2>6, <2>8, <3>1
  <2> QED
    BY <2>7, <2>8
<1> QED
  BY <1>8, <1>9

(* A request that is there has the length that its header tells, and nothing *)
(* behind it is taken for a part of it.                                      *)
LEMMA RequestFound ==
  ASSUME NEW m \in Messages, AtFront(m), in_size \in Nat, in_size > 0, ~IsPacket, NEW n \in RequestLengths
  PROVE  n = Len(m) /\ n <= in_size
<1>1. Len(m) \in Nat /\ Len(m) > 0 /\ m \in Seq(Bytes)
  BY MessageIsSeq
<1>2. m[1] # Dollar
  BY <1>1 DEF AtFront, IsPacket
<1>3. IsRequestMessage(m)
  BY <1>2, MessagesAssumption DEF IsPacketMessage
<1>4. PICK h0 \in 1 .. Len(m), i0 \in 1 .. Len(m) : Header(m, i0, h0)
  BY <1>3 DEF IsRequestMessage, Header
<1>5. PICK h \in HeaderEnds : /\ h = Min(HeaderEnds) /\ h + ContentLength(h) <= in_size
                             /\ n = h + ContentLength(h) + TrailingNuls(h + ContentLength(h))
  BY DEF RequestLengths
<1>6. HeaderEnds \subseteq Nat /\ h \in 1 .. in_size /\ \A x \in HeaderEnds : h <= x
  <2>1. HeaderEnds \subseteq Nat /\ h \in 1 .. in_size
    BY <1>5 DEF HeaderEnds
  <2> QED
    BY <1>5, <2>1, LeastOf
<1>7. h0 <= h
  BY <1>4, <1>5, NoneEndsBefore
<1>8. h0 <= in_size /\ i0 \in Nat /\ h0 \in Nat /\ h \in Nat
  BY <1>1, <1>6, <1>7
<1>9. \A k \in 1 .. h0 : in_buffer[k] = m[k]
  BY <1>1, <1>8 DEF AtFront
<1>10. /\ 1 < i0 /\ i0 < h0 /\ (\A k \in i0 .. h0 : IsEol(m[k])) /\ ~IsEol(m[i0 - 1])
       /\ h0 < Len(m) => ~IsEol(m[h0 + 1])
       /\ h0 = i0 + 1 => m[i0] = m[h0]
       /\ Len(m) = h0 + LengthField(m, h0)
  BY <1>4 DEF Header, IsRunOf
<1>11. h0 < in_size => ~IsEol(in_buffer[h0 + 1])
  <2> SUFFICES ASSUME h0 < in_size PROVE ~IsEol(in_buffer[h0 + 1])
    OBVIOUS
  <2>1. CASE h0 < Len(m)
    <3>1. h0 + 1 \in 1 .. in_size /\ h0 + 1 <= Len(m)
      BY <1>1, <1>8, <2>1
    <3> QED
      BY <1>10, <2>1, <3>1 DEF AtFront
  <2>2. CASE h0 = Len(m)
    BY <2>2 DEF AtFront
  <2> QED
    BY <1>1, <1>4, <2>1, <2>2
<1>12. h0 \in HeaderEnds
  <2>1. /\ \A k \in i0 .. h0 : k \in 1 .. h0
        /\ i0 - 1 \in 1 .. h0 /\ i0 \in 1 .. h0 /\ h0 \in 1 .. h0 /\ i0 \in 2 .. h0 /\ h0 \in 1 .. in_size
    BY <1>4, <1>8, <1>10
  <2>2. IsRun(i0, h0)
    BY <1>8, <1>9, <1>10, <1>11, <2>1 DEF IsRun, IsRunOf
  <2>3. h0 - i0 + 1 > 2 \/ (h0 - i0 + 1 = 2 /\ in_buffer[i0] = in_buffer[h0])
    <3>1. h0 = i0 + 1 => in_buffer[i0] = in_buffer[h0]
      BY <1>9, <1>10, <2>1
    <3> QED
      BY <1>8, <1>10, <3>1
  <2>4. EndsHeader(i0, h0)
    BY <2>2, <2>3 DEF EndsHeader
  <2> QED
    BY <2>1, <2>4 DEF HeaderEnds
<1>13. h = h0
  BY <1>6, <1>7, <1>8, <1>12
<1>14. ContentLength(h0) = LengthField(m, h0)
  <2> DEFINE a == {i \in 2 .. h0 - 1 : in_buffer[i] = CL /\ IsEol(in_buffer[i - 1])}
             b == {i \in 2 .. h0 - 1 : m[i] = CL /\ IsEol(m[i - 1])}
  <2>1. \A i \in 2 .. h0 - 1 : in_buffer[i] = m[i] /\ in_buffer[i - 1] = m[i - 1]
    <3>1. \A i \in 2 .. h0 - 1 : i \in 1 .. h0 /\ i - 1 \in 1 .. h0
      BY <1>8
    <3> QED
      BY <1>9, <3>1
  <2>2. a = b
    BY <2>1
  <2>3. CASE b = {}
    BY <2>2, <2>3 DEF ContentLength, LengthField
  <2>4. CASE b # {}
    <3>1. b \subseteq Nat
      BY <1>8
    <3>2. Min(b) \in b
      BY <2>4, <3>1, LeastOf
    <3>3. Min(b) + 1 \in 1 .. h0
      BY <1>8, <3>2
    <3>4. in_buffer[Min(b) + 1] = m[Min(b) + 1]
      BY <1>9, <3>3
    <3>5. ContentLength(h0) = IF a = {} THEN 0 ELSE in_buffer[Min(a) + 1]
      BY DEF ContentLength, LengthField
    <3>6. LengthField(m, h0) = IF b = {} THEN 0 ELSE m[Min(b) + 1]
      BY DEF LengthField
    <3> HIDE DEF a, b
    <3> QED
      BY <2>2, <2>4, <3>4, <3>5, <3>6
  <2> QED
    BY <2>3, <2>4
<1>15. Len(m) <= in_size /\ n = Len(m) + TrailingNuls(Len(m))
  BY <1>5, <1>10, <1>13, <1>14
<1>16. TrailingNuls(Len(m)) = 0
  <2> DEFINE T == {k \in 0 .. in_size - Len(m) : \A i \in Len(m) + 1 .. Len(m) + k : in_buffer[i] = NUL}
  <2>1. 0 \in T
    BY <1>1, <1>15
  <2>2. ASSUME NEW k \in T PROVE k = 0
    <3> SUFFICES ASSUME k # 0 PROVE FALSE
      OBVIOUS
    <3>1. Len(m) + 1 \in Len(m) + 1 .. Len(m) + k /\ in_size > Len(m)
      BY <1>1
    <3>2. in_buffer[Len(m) + 1] = NUL
      BY <3>1
    <3> QED
      BY <3>1, <3>2 DEF AtFront
  <2>3. T = {0}
    BY <2>1, <2>2
  <2>4. TrailingNuls(Len(m)) = Max(T)
    BY DEF TrailingNuls
  <2>5. Max({0}) = 0
    BY DEF Max
  <2> HIDE DEF T
  <2> QED
    BY <2>3, <2>4, <2>5
<1> QED
  BY <1>1, <1>15, <1>16

-----------------------------------------------------------------------------
(* The input side: in_buffer holds what was read and not yet handled. *)

HandledSo ==
  /\ handled \in Seq(Messages) /\ Len(handled) <= Len(sent)
  /\ \A i \in 1 .. Len(handled) : handled[i] = sent[i]

Buffered ==
  /\ in_buffer \in [1 .. BufferSize -> Bytes] /\ in_size \in 0 .. BufferSize
  /\ received \in Nat /\ received <= Len(Stream)
  /\ received = EndOf(Len(handled)) + in_size
  /\ \A k \in 1 .. in_size : in_buffer[k] = Stream[EndOf(Len(handled)) + k]
  /\ IsCarefulRead(received)

InInv ==
  /\ Framing /\ HandledSo
  /\ pc # "broken"
  /\ pc # "closed" => Buffered

(* The numbers the steps below count with. *)
LEMMA Counts ==
  ASSUME Framing, HandledSo
  PROVE  /\ Len(sent) \in Nat /\ Len(handled) \in Nat /\ Len(handled) <= Len(sent)
         /\ Len(Stream) \in Nat /\ \A i \in 0 .. Len(sent) : EndOf(i) \in Nat
<1>1. Len(sent) \in Nat /\ Len(handled) \in Nat /\ Len(Stream) \in Nat
  BY LenProperties DEF Framing, HandledSo
<1>2. ASSUME NEW i \in 0 .. Len(sent) PROVE EndOf(i) \in Nat
  <2>1. CASE i = 0
    BY <2>1 DEF Framing
  <2>2. CASE i # 0
    <3>1. i \in 1 .. Len(sent) /\ sent \in Seq(Messages)
      BY <1>1, <2>2 DEF Framing
    <3>2. Len(sent[i]) \in Nat
      BY <3>1, ElementOfSeq, MessageIsSeq
    <3> QED
      BY <3>1, <3>2 DEF Framing, Placed
  <2> QED
    BY <2>1, <2>2
<1> QED
  BY <1>1, <1>2 DEF HandledSo

(* While something is buffered, the next message stands in front of it. *)
LEMMA FrontOfBuffer ==
  ASSUME Framing, HandledSo, Buffered, in_size > 0
  PROVE  \E m \in Messages :
           /\ Len(handled) < Len(sent) /\ sent[Len(handled) + 1] = m
           /\ EndOf(Len(handled) + 1) = EndOf(Len(handled)) + Len(m)
           /\ AtFront(m) /\ in_size - Len(m) <= Len(m)
<1> DEFINE H == Len(handled)
<1>1. H \in Nat /\ Len(sent) \in Nat /\ H <= Len(sent) /\ EndOf(H) \in Nat /\ Len(Stream) \in Nat
  BY Counts
<1>2. in_size \in Nat /\ received = EndOf(H) + in_size /\ received <= Len(Stream)
  BY SizesAssumption DEF Buffered
<1>3. \A k \in 1 .. in_size : in_buffer[k] = Stream[EndOf(H) + k]
  BY DEF Buffered
<1> HIDE DEF H
<1>4. H < Len(sent)
  <2>1. H # Len(sent)
    BY <1>1, <1>2 DEF Framing
  <2> QED
    BY <1>1, <2>1
<1>5. PICK j \in 1 .. Len(sent) : j = H + 1 /\ j - 1 = H
  BY <1>1, <1>4
<1>6. sent[j] \in Messages /\ Placed(j)
  BY <1>5, ElementOfSeq DEF Framing
<1>7. PICK m \in Messages : m = sent[j]
  BY <1>6
<1>8. /\ Len(m) \in Nat /\ Len(m) > 0 /\ EndOf(j) = EndOf(H) + Len(m) /\ EndOf(j) <= Len(Stream)
      /\ \A k \in 1 .. Len(m) : Stream[EndOf(H) + k] = m[k]
  BY <1>5, <1>6, <1>7, MessageIsSeq DEF Placed
<1>9. /\ m[1] = Dollar => in_size <= 0 \/ in_size >= Len(m)
      /\ in_size > 0 /\ in_size < Len(m) =>
           ~(in_size >= 3 /\ IsEol(m[in_size + 1]) /\ \A k \in in_size - 2 .. in_size : IsEol(m[k]))
      /\ in_size - Len(m) <= Len(m)
  <2>1. j \in Len(handled) + 1 .. Len(sent)
    BY <1>1, <1>5 DEF H
  <2>2. received - EndOf(j - 1) = in_size
    BY <1>1, <1>2, <1>5
  <2> QED
    BY <1>7, <2>1, <2>2 DEF Buffered, IsCarefulRead
<1>10. \A k \in 1 .. in_size : k <= Len(m) => in_buffer[k] = m[k]
  BY <1>2, <1>3, <1>8
<1>11. ASSUME in_size > Len(m)
       PROVE  in_buffer[Len(m) + 1] # NUL /\ ~IsEol(in_buffer[Len(m) + 1])
  <2>1. j # Len(sent)
    BY <1>1, <1>2, <1>8, <1>11 DEF Framing
  <2>2. PICK l \in 1 .. Len(sent) : l = j + 1 /\ l - 1 = j
    BY <1>1, <2>1
  <2>3. sent[l] \in Messages /\ Placed(l)
    BY <2>2, ElementOfSeq DEF Framing
  <2>4. PICK next \in Messages : next = sent[l]
    BY <2>3
  <2>5. Len(next) \in Nat /\ Len(next) > 0 /\ \A k \in 1 .. Len(next) : Stream[EndOf(j) + k] = next[k]
    BY <2>2, <2>3, <2>4, MessageIsSeq DEF Placed
  <2>6. in_buffer[Len(m) + 1] = Stream[EndOf(j) + 1]
    <3>1. Len(m) + 1 \in 1 .. in_size /\ EndOf(H) + (Len(m) + 1) = EndOf(j) + 1
      BY <1>1, <1>2, <1>8, <1>11
    <3>2. in_buffer[Len(m) + 1] = Stream[EndOf(H) + (Len(m) + 1)]
      BY <1>3, <3>1
    <3> QED
      BY <3>1, <3>2
  <2>7. in_buffer[Len(m) + 1] = next[1]
    BY <2>5, <2>6
  <2>8. next[1] # NUL /\ ~IsEol(next[1])
    BY MessagesAssumption DEF IsPacketMessage, IsRequestMessage, NUL, Dollar, IsEol, CR, LF
  <2> QED
    BY <2>7, <2>8
<1>12. AtFront(m)
  <2>1. m[1] = Dollar => in_size >= Len(m)
    BY <1>2, <1>9
  <2>2. in_size < Len(m) /\ in_size >= 3 /\ IsEol(m[in_size + 1]) =>
          \E k \in in_size - 2 .. in_size : ~IsEol(m[k])
    BY <1>9
  <2> QED
    BY <1>10, <1>11, <2>1, <2>2 DEF AtFront
<1> QED
  BY <1>4, <1>5, <1>7, <1>8, <1>9, <1>12 DEF H

(* What RTSP_handler takes out of the buffer is the next message. *)
LEMMA FullIsNext ==
  ASSUME Framing, HandledSo, Buffered, NEW n \in FullMessages
  PROVE  \E m \in Messages :
           /\ Len(handled) < Len(sent) /\ sent[Len(handled) + 1] = m
           /\ EndOf(Len(handled) + 1) = EndOf(Len(handled)) + Len(m)
           /\ AtFront(m) /\ in_size - Len(m) <= Len(m)
           /\ n = Len(m) /\ n <= in_size
<1>1. in_size \in Nat
  BY SizesAssumption DEF Buffered
<1>2. in_size > 0 /\ (IF IsPacket THEN n \in PacketLengths ELSE n \in RequestLengths)
  BY <1>1 DEF FullMessages
<1>3. PICK m \in Messages :
           /\ Len(handled) < Len(sent) /\ sent[Len(handled) + 1] = m
           /\ EndOf(Len(handled) + 1) = EndOf(Len(handled)) + Len(m)
           /\ AtFront(m) /\ in_size - Len(m) <= Len(m)
  BY <1>2, FrontOfBuffer
<1>4. n = Len(m) /\ n <= in_size
  BY <1>1, <1>2, <1>3, PacketFound, RequestFound
<1> QED
  BY <1>3, <1>4

(* The length that SubSeq is asked for is the length of the message. *)
LEMMA MinOfTwo ==
  ASSUME NEW a \in Nat, NEW b \in Nat, a <= b
  PROVE  Min({a, b}) = a
<1>1. {a, b} \subseteq Nat /\ {a, b} # {}
  OBVIOUS
<1>2. Min({a, b}) \in {a, b} /\ \A x \in {a, b} : Min({a, b}) <= x
  BY <1>1, LeastOf
<1> QED
  BY <1>2

-----------------------------------------------------------------------------
(* A step that neither reads nor handles keeps the invariant. *)
LEMMA InUnchanged ==
  ASSUME InInv, UNCHANGED <<in_buffer, in_size, handled, sent, received>>,
         pc' # "broken", pc' # "closed" => pc # "closed"
  PROVE  InInv'
<1>1. UNCHANGED Stream /\ UNCHANGED EndOf(Len(handled)) /\ \A i : UNCHANGED EndOf(i)
  BY DEF Stream, EndOf
<1>2. Framing'
  BY <1>1 DEF InInv, Framing, Placed
<1>3. HandledSo'
  BY DEF InInv, HandledSo
<1>4. Buffered => Buffered'
  BY <1>1 DEF Buffered, IsCarefulRead
<1> QED
  BY <1>2, <1>3, <1>4 DEF InInv

(* A message more comes behind what was read. *)
LEMMA SendInInv ==
  ASSUME InInv, Send
  PROVE  InInv'
<1>1. PICK m \in Messages : sent' = Append(sent, m)
  BY DEF Send
<1>2. /\ UNCHANGED <<pc, in_buffer, in_size, handled, received>>
      /\ pc # "closed" /\ Framing /\ HandledSo /\ Buffered /\ pc # "broken"
  BY DEF Send, InInv, in_vars
<1>3. /\ Framing' /\ Len(sent') = Len(sent) + 1 /\ sent'[Len(sent) + 1] = m
      /\ Len(Stream') = Len(Stream) + Len(m)
      /\ \A k \in 1 .. Len(Stream) : Stream'[k] = Stream[k]
      /\ \A i \in 0 .. Len(sent) : EndOf(i)' = EndOf(i)
      /\ \A i \in 1 .. Len(sent) : sent'[i] = sent[i]
  BY <1>1, <1>2, SendFraming
<1>4. /\ Len(sent) \in Nat /\ Len(handled) \in Nat /\ Len(handled) <= Len(sent)
      /\ Len(Stream) \in Nat /\ \A i \in 0 .. Len(sent) : EndOf(i) \in Nat
  BY <1>2, Counts
<1>5. Len(m) \in Nat /\ Len(m) > 0
  BY MessageIsSeq
<1>6. HandledSo'
  <2>1. handled \in Seq(Messages) /\ \A i \in 1 .. Len(handled) : handled[i] = sent[i]
    BY <1>2 DEF HandledSo
  <2>2. Len(handled) <= Len(sent')
    BY <1>3, <1>4
  <2>3. \A i \in 1 .. Len(handled) : handled[i] = sent'[i]
    BY <1>3, <1>4, <2>1
  <2> QED
    BY <1>2, <2>1, <2>2, <2>3 DEF HandledSo
<1>7. PICK H \in Nat : H = Len(handled)
  BY <1>4
<1>8. EndOf(H)' = EndOf(H) /\ EndOf(H) \in Nat
  BY <1>3, <1>4, <1>7
<1>9. IsCarefulRead(received)'
  <2>1. PICK r : r = received
    OBVIOUS
  <2>2. IsCarefulRead(r) /\ r \in Nat /\ r <= Len(Stream)
    BY <1>2, <2>1 DEF Buffered
  <2> SUFFICES ASSUME NEW i \in Len(handled) + 1 .. Len(sent')
               PROVE  LET c == sent'[i]
                          have == r - EndOf(i - 1)'
                      IN  /\ c[1] = Dollar => have <= 0 \/ have >= Len(c)
                          /\ have > 0 /\ have < Len(c) =>
                               ~(have >= 3 /\ IsEol(c[have + 1]) /\ \A k \in have - 2 .. have : IsEol(c[k]))
                          /\ have - Len(c) <= Len(c)
    BY <1>2, <2>1 DEF IsCarefulRead
  <2>3. CASE i <= Len(sent)
    <3>1. i \in Len(handled) + 1 .. Len(sent) /\ i \in 1 .. Len(sent) /\ i - 1 \in 0 .. Len(sent)
      BY <1>3, <1>4, <2>3
    <3>2. sent'[i] = sent[i] /\ EndOf(i - 1)' = EndOf(i - 1)
      BY <1>3, <3>1
    <3> QED
      BY <2>2, <3>1, <3>2 DEF IsCarefulRead
  <2>4. CASE ~(i <= Len(sent))
    <3>1. i = Len(sent) + 1 /\ i - 1 = Len(sent) /\ i - 1 \in 0 .. Len(sent)
      BY <1>3, <1>4, <2>4
    <3>2. sent'[i] = m /\ EndOf(i - 1)' = EndOf(i - 1)
      BY <1>3, <3>1
    <3>3. EndOf(i - 1) = Len(Stream)
      BY <1>2, <3>1 DEF Framing
    <3>4. PICK have \in Int : have = r - EndOf(i - 1)' /\ have <= 0
      BY <1>4, <2>2, <3>2, <3>3
    <3>5. have - Len(m) <= Len(m) /\ ~(have > 0)
      BY <1>5, <3>4
    <3> QED
      BY <3>2, <3>4, <3>5
  <2> QED
    BY <2>3, <2>4
<1>10. Buffered'
  <2>1. /\ in_buffer \in [1 .. BufferSize -> Bytes] /\ in_size \in 0 .. BufferSize
        /\ received \in Nat /\ received <= Len(Stream)
        /\ received = EndOf(H) + in_size
        /\ \A k \in 1 .. in_size : in_buffer[k] = Stream[EndOf(H) + k]
    BY <1>2, <1>7 DEF Buffered
  <2>2. received <= Len(Stream')
    BY <1>3, <1>4, <1>5, <2>1
  <2>3. ASSUME NEW k \in 1 .. in_size PROVE in_buffer[k] = Stream'[EndOf(H) + k]
    <3>1. EndOf(H) + k \in 1 .. Len(Stream)
      BY <1>4, <1>8, <2>1, SizesAssumption
    <3> QED
      BY <1>3, <2>1, <3>1
  <2>4. EndOf(Len(handled))' = EndOf(H)
    BY <1>2, <1>7, <1>8
  <2> QED
    BY <1>2, <1>9, <2>1, <2>2, <2>3, <2>4 DEF Buffered
<1> QED
  BY <1>2, <1>3, <1>6, <1>10 DEF InInv

(* A careful read goes behind what is there. *)
LEMMA RecvInInv ==
  ASSUME InInv, Recv, Careful
  PROVE  InInv'
<1>1. PICK n \in 1 .. Min({BufferSize, Unread}) :
       /\ IsCarefulRead(received + n)
       /\ received' = received + n
       /\ IF in_size + n > BufferSize
          THEN pc' = "closed" /\ UNCHANGED <<in_buffer, in_size>>
          ELSE pc' = "handle" /\ in_buffer' = Read(n) /\ in_size' = in_size + n
  BY DEF Recv
<1>2. UNCHANGED <<handled, sent>> /\ pc = "recv"
  BY DEF Recv
<1>3. Framing /\ HandledSo /\ Buffered
  BY <1>2 DEF InInv
<1>4. UNCHANGED Stream /\ UNCHANGED EndOf(Len(handled)) /\ \A i : UNCHANGED EndOf(i)
  BY <1>2 DEF Stream, EndOf
<1>5. Framing' /\ HandledSo'
  BY <1>2, <1>3, <1>4 DEF Framing, Placed, HandledSo
<1>6. /\ Len(sent) \in Nat /\ Len(handled) \in Nat /\ Len(handled) <= Len(sent)
      /\ Len(Stream) \in Nat /\ \A i \in 0 .. Len(sent) : EndOf(i) \in Nat
  BY <1>3, Counts
<1>7. PICK e \in Nat : e = EndOf(Len(handled))
  BY <1>6
<1>8. /\ in_buffer \in [1 .. BufferSize -> Bytes] /\ in_size \in 0 .. BufferSize /\ BufferSize \in Nat
      /\ received \in Nat /\ received <= Len(Stream) /\ received = e + in_size
      /\ \A k \in 1 .. in_size : in_buffer[k] = Stream[e + k]
  BY <1>3, <1>7, SizesAssumption DEF Buffered
<1>9. n \in Nat /\ n > 0 /\ received + n <= Len(Stream)
  <2>1. Unread = Len(Stream) - received /\ Unread \in Nat
    BY <1>6, <1>8 DEF Unread
  <2>2. Min({BufferSize, Unread}) \in Nat /\ Min({BufferSize, Unread}) <= Unread
    <3>1. {BufferSize, Unread} \subseteq Nat /\ {BufferSize, Unread} # {}
      BY <1>8, <2>1
    <3> QED
      BY <3>1, LeastOf
  <2> QED
    BY <1>6, <1>8, <2>1, <2>2
<1>10. CASE in_size + n > BufferSize
  BY <1>1, <1>5, <1>10 DEF InInv
<1>11. CASE ~(in_size + n > BufferSize)
  <2>1. pc' = "handle" /\ in_buffer' = Read(n) /\ in_size' = in_size + n /\ in_size + n \in 0 .. BufferSize
    BY <1>1, <1>8, <1>9, <1>11
  <2>2. \A k \in 1 .. Len(Stream) : Stream[k] \in Bytes
    BY <1>3, ElementOfSeq DEF Framing
  <2>3. in_buffer' = [i \in 1 .. BufferSize |->
           IF i \in in_size + 1 .. in_size + n THEN Stream[received + i - in_size] ELSE in_buffer[i]]
    BY <2>1 DEF Read
  <2>4. ASSUME NEW i \in 1 .. BufferSize, i \in in_size + 1 .. in_size + n
        PROVE  Stream[received + i - in_size] = Stream[e + i] /\ Stream[e + i] \in Bytes
    <3>1. received + i - in_size = e + i /\ e + i \in 1 .. Len(Stream)
      BY <1>6, <1>8, <1>9, <2>4
    <3> QED
      BY <2>2, <3>1
  <2>5. in_buffer' \in [1 .. BufferSize -> Bytes]
    BY <1>8, <2>3, <2>4
  <2>6. ASSUME NEW k \in 1 .. in_size + n PROVE in_buffer'[k] = Stream[e + k]
    <3>1. k \in 1 .. BufferSize
      BY <1>8, <1>9, <1>11
    <3>2. CASE k <= in_size
      <4>1. k \in 1 .. in_size /\ k \notin in_size + 1 .. in_size + n
        BY <1>8, <3>2
      <4> QED
        BY <1>8, <2>3, <3>1, <4>1
    <3>3. CASE ~(k <= in_size)
      <4>1. k \in in_size + 1 .. in_size + n
        BY <1>8, <1>9, <3>3
      <4> QED
        BY <2>3, <2>4, <3>1, <4>1
    <3> QED
      BY <3>2, <3>3
  <2>7. EndOf(Len(handled))' = e
    BY <1>4, <1>7
  <2>8. received' = e + (in_size + n) /\ received' \in Nat /\ received' <= Len(Stream)
    BY <1>1, <1>8, <1>9
  <2>9. IsCarefulRead(received)'
    BY <1>1, <1>2, <1>4 DEF IsCarefulRead
  <2>10. Buffered'
    BY <1>4, <2>1, <2>5, <2>6, <2>7, <2>8, <2>9 DEF Buffered
  <2> QED
    BY <1>5, <2>1, <2>10 DEF InInv
<1> QED
  BY <1>10, <1>11

(* RTSP_remove_msg takes out the next message and moves up what is behind it. *)
LEMMA DiscardInInv ==
  ASSUME InInv, pc = "handle", NEW n \in FullMessages, Discard(n)
  PROVE  InInv'
<1>1. Framing /\ HandledSo /\ Buffered
  BY DEF InInv
<1>2. PICK m \in Messages :
           /\ Len(handled) < Len(sent) /\ sent[Len(handled) + 1] = m
           /\ EndOf(Len(handled) + 1) = EndOf(Len(handled)) + Len(m)
           /\ AtFront(m) /\ in_size - Len(m) <= Len(m)
           /\ n = Len(m) /\ n <= in_size
  BY <1>1, FullIsNext
<1>3. /\ Len(sent) \in Nat /\ Len(handled) \in Nat /\ Len(handled) <= Len(sent)
      /\ Len(Stream) \in Nat /\ \A i \in 0 .. Len(sent) : EndOf(i) \in Nat
  BY <1>1, Counts
<1>4. PICK H \in Nat : H = Len(handled)
  BY <1>3
<1>5. PICK e \in Nat : e = EndOf(H) /\ EndOf(H + 1) = e + n
  BY <1>2, <1>3, <1>4
<1>6. n \in Nat /\ n > 0 /\ m \in Seq(Bytes)
  BY <1>2, MessageIsSeq
<1>7. /\ in_buffer \in [1 .. BufferSize -> Bytes] /\ in_size \in 0 .. BufferSize /\ BufferSize \in Nat
      /\ received \in Nat /\ received <= Len(Stream) /\ received = e + in_size
      /\ \A k \in 1 .. in_size : in_buffer[k] = Stream[e + k]
      /\ IsCarefulRead(received)
  BY <1>1, <1>4, <1>5, SizesAssumption DEF Buffered
<1>8. UNCHANGED <<sent, received>> /\ in_size' = in_size - n /\ in_size' \in 0 .. BufferSize /\ pc' = "handle"
  BY <1>2, <1>6, <1>7 DEF Discard, client_vars
<1>9. UNCHANGED Stream /\ \A i : UNCHANGED EndOf(i)
  BY <1>8 DEF Stream, EndOf
<1>10. Framing'
  BY <1>1, <1>8, <1>9 DEF Framing, Placed
<1>11. handled' = Append(handled, m)
  <2>1. Min({n, BufferSize}) = n
    <3>1. n \in Nat /\ BufferSize \in Nat /\ n <= BufferSize
      BY <1>2, <1>6, <1>7
    <3> QED
      BY <3>1, MinOfTwo, Zenon
  <2>2. handled' = Append(handled, SubSeq(in_buffer, 1, n))
    BY <2>1 DEF Discard
  <2>3. n \in Int /\ \A i \in 1 .. n : in_buffer[i] \in Bytes /\ in_buffer[i] = m[i]
    BY <1>2, <1>6, <1>7 DEF AtFront
  <2>4. /\ SubSeq(in_buffer, 1, n) \in Seq(Bytes) /\ Len(SubSeq(in_buffer, 1, n)) = IF 1 <= n THEN n - 1 + 1 ELSE 0
        /\ \A i \in 1 .. n - 1 + 1 : SubSeq(in_buffer, 1, n)[i] = in_buffer[1 + i - 1]
    BY <2>3, SubSeqProperties
  <2> DEFINE a == SubSeq(in_buffer, 1, n)
  <2>5. a \in Seq(Bytes) /\ Len(a) = n /\ \A i \in 1 .. n : a[i] = m[i]
    <3>1. n - 1 + 1 = n /\ 1 <= n /\ \A i \in 1 .. n : 1 + i - 1 = i
      BY <1>6
    <3> QED
      BY <2>3, <2>4, <3>1
  <2> HIDE DEF a
  <2>6. a = m
    <3>1. Len(a) = Len(m) /\ \A i \in 1 .. Len(a) : a[i] = m[i]
      BY <1>2, <2>5
    <3> QED
      BY <1>6, <2>5, <3>1, SeqEqual, Zenon
  <2> QED
    BY <2>2, <2>6 DEF a
<1>12. /\ handled' \in Seq(Messages) /\ Len(handled') = H + 1 /\ handled'[H + 1] = m
       /\ \A i \in 1 .. H : handled'[i] = handled[i]
  BY <1>1, <1>4, <1>11, AppendProperties DEF HandledSo
<1>13. HandledSo'
  <2>1. Len(handled') <= Len(sent')
    BY <1>2, <1>3, <1>4, <1>8, <1>12
  <2>2. ASSUME NEW i \in 1 .. Len(handled') PROVE handled'[i] = sent'[i]
    <3>1. CASE i = H + 1
      BY <1>2, <1>4, <1>8, <1>12, <3>1
    <3>2. CASE i # H + 1
      <4>1. i \in 1 .. H
        BY <1>12, <3>2
      <4> QED
        BY <1>1, <1>4, <1>8, <1>12, <4>1 DEF HandledSo
    <3> QED
      BY <3>1, <3>2
  <2> QED
    BY <1>12, <2>1, <2>2 DEF HandledSo
<1>14. in_buffer' \in [1 .. BufferSize -> Bytes]
  <2>1. Removed(n) \in [1 .. BufferSize -> Bytes]
    <3>1. NUL \in Bytes
      BY DEF NUL, Bytes
    <3>2. \A i \in 1 .. BufferSize : i + n <= BufferSize => i + n \in 1 .. BufferSize
      BY <1>6, <1>7
    <3> QED
      BY <1>7, <3>1, <3>2 DEF Removed
  <2> QED
    BY <1>7, <2>1 DEF Discard
<1>15. ASSUME NEW k \in 1 .. in_size' PROVE in_buffer'[k] = Stream'[e + n + k]
  <2>1. k \in 1 .. BufferSize /\ ~(k > n) /\ k + n <= BufferSize /\ k + n \in 1 .. in_size /\ in_size' # 0
    <3>1. in_size - n <= n /\ n <= in_size /\ in_size <= BufferSize /\ in_size \in Nat /\ in_size' = in_size - n
      BY <1>2, <1>7, <1>8
    <3>2. k \in Nat /\ 1 <= k /\ k <= in_size - n
      BY <1>6, <3>1
    <3> QED
      BY <1>6, <1>7, <3>1, <3>2
  <2>2. in_buffer' = Removed(n)
    BY <2>1 DEF Discard
  <2>3. in_buffer'[k] = in_buffer[k + n]
    BY <2>1, <2>2 DEF Removed
  <2>4. in_buffer[k + n] = Stream[e + (k + n)] /\ e + (k + n) = e + n + k
    BY <1>6, <1>7, <2>1
  <2> QED
    BY <1>9, <2>3, <2>4
<1>16. IsCarefulRead(received)'
  <2>1. PICK r : r = received
    OBVIOUS
  <2>2. IsCarefulRead(r)
    BY <1>7, <2>1
  <2>3. H + 1 + 1 .. Len(sent) \subseteq Len(handled) + 1 .. Len(sent)
    BY <1>3, <1>4
  <2> QED
    BY <1>8, <1>9, <1>12, <2>1, <2>2, <2>3 DEF IsCarefulRead
<1>17. Buffered'
  <2>1. EndOf(Len(handled))' = e + n
    BY <1>5, <1>9, <1>12
  <2>2. received' = e + n + in_size' /\ received' \in Nat /\ received' <= Len(Stream')
    BY <1>6, <1>7, <1>8, <1>9
  <2> QED
    BY <1>8, <1>14, <1>15, <1>16, <2>1, <2>2 DEF Buffered
<1> QED
  BY <1>8, <1>10, <1>13, <1>17 DEF InInv

(* The input side at the start. *)
LEMMA InitInInv == Init => InInv
<1> SUFFICES ASSUME Init PROVE InInv
  OBVIOUS
<1>1. Framing
  BY InitFraming
<1>2. sent = << >> /\ handled = << >> /\ Len(handled) = 0 /\ Len(sent) = 0 /\ handled \in Seq(Messages)
  BY EmptySeq DEF Init
<1>3. HandledSo
  BY <1>2 DEF HandledSo
<1>4. EndOf(0) = 0 /\ Len(Stream) = 0 /\ EndOf(Len(handled)) = 0
  BY <1>1, <1>2 DEF Framing
<1>5. IsCarefulRead(received)
  BY <1>2 DEF IsCarefulRead
<1>6. Buffered
  <2>1. in_buffer \in [1 .. BufferSize -> Bytes] /\ in_size = 0 /\ received = 0 /\ BufferSize \in Nat
    BY SizesAssumption DEF Init, NUL, Bytes
  <2> QED
    BY <1>4, <1>5, <2>1 DEF Buffered
<1> QED
  BY <1>1, <1>3, <1>6 DEF InInv, Init

(* Every step keeps it. *)
LEMMA NextInInv ==
  ASSUME Careful
  PROVE  InInv /\ [Next]_vars => InInv'
<1> SUFFICES ASSUME InInv, [Next]_vars PROVE InInv'
  OBVIOUS
<1> USE DEF in_vars, client_vars
<1>1. CASE Send
  BY <1>1, SendInInv
<1>2. CASE SelectOnly
  BY <1>2, InUnchanged DEF SelectOnly, SelectStep
<1>3. CASE SelectAndSend
  BY <1>3, InUnchanged DEF SelectAndSend, SelectStep
<1>4. CASE Recv
  BY <1>4, RecvInInv
<1>5. CASE NothingToRecv
  BY <1>5, InUnchanged DEF NothingToRecv
<1>6. CASE HandleRequest
  BY <1>6, DiscardInInv DEF HandleRequest, Handles
<1>7. CASE HandlePacket
  BY <1>7, DiscardInInv DEF HandlePacket, Handles
<1>8. CASE HandlerReturns
  BY <1>8, InUnchanged DEF HandlerReturns
<1>9. CASE HandlerFails
  BY <1>9, InUnchanged DEF HandlerFails
<1>10. CASE ForwardPacket
  BY <1>10, InUnchanged DEF ForwardPacket, LoopGoesOn
<1>11. CASE NoPacket
  BY <1>11, InUnchanged DEF NoPacket, LoopGoesOn
<1>12. CASE TurnEnds
  BY <1>12, InUnchanged DEF TurnEnds
<1>13. CASE SendFails
  BY <1>13, InUnchanged DEF SendFails, Closes
<1>14. CASE ConnectionEnds
  BY <1>14, InUnchanged DEF ConnectionEnds, Closes
<1>15. CASE UNCHANGED vars
  BY <1>15, InUnchanged DEF vars, InInv
<1> QED
  BY <1>1, <1>2, <1>3, <1>4, <1>5, <1>6, <1>7, <1>8, <1>9, <1>10, <1>11, <1>12,
     <1>13, <1>14, <1>15 DEF Next, Turn

(* What RTSP_handler takes out of in_buffer is what the client sent, message by *)
(* message, for every set of complete requests and packets, every size of the   *)
(* buffer and every way in which careful reads cut the stream                   *)
(* (RTSP_full_msg_rcvd, RTSP_discard_msg and RTSP_remove_msg).                  *)
THEOREM HandledCorrect ==
  ASSUME Careful
  PROVE  Spec => []HandledAsSent
<1>1. Init => InInv
  BY InitInInv
<1>2. InInv /\ [Next]_vars => InInv'
  BY NextInInv
<1>3. InInv => HandledAsSent
  <2> SUFFICES ASSUME InInv PROVE HandledAsSent
    OBVIOUS
  <2>1. HandledSo /\ Framing /\ Len(handled) \in Nat /\ Len(sent) \in Nat /\ Len(handled) <= Len(sent)
    BY Counts DEF InInv
  <2>2. SubSeq(handled, 1, Len(handled)) = handled
    BY <2>1, SubSeqFull DEF HandledSo
  <2> DEFINE a == SubSeq(sent, 1, Len(handled))
  <2>3. /\ a \in Seq(Messages) /\ Len(a) = IF 1 <= Len(handled) THEN Len(handled) - 1 + 1 ELSE 0
        /\ \A i \in 1 .. Len(handled) - 1 + 1 : a[i] = sent[1 + i - 1]
    <3>1. \A i \in 1 .. Len(handled) : sent[i] \in Messages
      BY <2>1, ElementOfSeq DEF Framing
    <3> QED
      BY <2>1, <3>1, SubSeqProperties
  <2>4. Len(a) = Len(handled) /\ \A i \in 1 .. Len(handled) : handled[i] = a[i]
    <3>1. /\ Len(handled) - 1 + 1 = Len(handled) /\ \A i \in 1 .. Len(handled) : 1 + i - 1 = i
          /\ (IF 1 <= Len(handled) THEN Len(handled) - 1 + 1 ELSE 0) = Len(handled)
      BY <2>1
    <3> QED
      BY <2>1, <2>3, <3>1 DEF HandledSo
  <2> HIDE DEF a
  <2>5. handled = a
    <3>1. handled \in Seq(Messages) /\ a \in Seq(Messages)
      BY <2>1, <2>3 DEF HandledSo
    <3> QED
      BY <2>4, <3>1, SeqEqual, Zenon
  <2> QED
    BY <2>1, <2>2, <2>5 DEF HandledAsSent, IsPrefix, a
<1> QED
  BY <1>1, <1>2, <1>3, PTL DEF Spec
=============================================================================
