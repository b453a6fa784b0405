----------------------------- MODULE BufferPool -----------------------------
(***************************************************************************)
(* The packet buffer of a media stream (bufferpool/OMSbuff_*.c) driven as  *)
(* Fenice drives it: a ring of slots linked by next, one producer and any  *)
(* number of consumers.                                                    *)
(*   - The scheduler thread is producer and reader at once: it sends a     *)
(*     packet of a session (RTP_send_packet), fills the buffer when that   *)
(*     session has nothing left to read (get_frame), and detaches a        *)
(*     session that is destroyed (RTP_session_destroy, OMSbuff_unref).     *)
(*   - The main thread attaches a consumer while it serves PLAY            *)
(*     (schedule_start, OMSbuff_ref), between any two of those steps.      *)
(* A function of the code that takes control->syn is one action; where the *)
(* code unlocks and locks again there are several.                         *)
(***************************************************************************)
EXTENDS Integers, FiniteSets

CONSTANTS
  Consumers,       \* one per call of schedule_start on this buffer
  NSlots,          \* DIM_AUDIO_BUFFER, DIM_VIDEO_BUFFER: initial slots
  OMSBUFF_MEM_PAGE,
  Outcomes,        \* what read_media may answer, see Commit and NoCommit
  FailsOnNewPage,  \* whether it may fail when its slot is of a page just inserted
  Ticks,           \* how far the timestamp may move from one packet to the next
  MaxSeq,          \* bound on the packets written
  MaxRefs          \* 2^16, the width of the two refs counters

ASSUME SlotsAssumption == NSlots \in Nat /\ NSlots > 1
ASSUME PageAssumption == OMSBUFF_MEM_PAGE \in Nat \ {0}
ASSUME OutcomesAssumption == Outcomes \subseteq {"last", "recall", "empty", "error", "eof"}
ASSUME FailsAssumption == FailsOnNewPage \in BOOLEAN
ASSUME TicksAssumption == Ticks \subseteq Nat
ASSUME ConsumersAssumption == IsFiniteSet(Consumers) /\ Consumers # {}
ASSUME RefsAssumption == MaxRefs \in Nat /\ MaxRefs > Cardinality(Consumers)

None == -1

VARIABLES
  slots,    \* buffer->slots: refs, slot_seq, timestamp and next of each slot
  control,  \* buffer->control: refs, nslots, write_pos, valid_read_pos
  cons,     \* the OMSConsumer of each session
  state,    \* "new", "attached", "stopped" or "gone", per consumer
  th        \* scheduler thread: pc, the consumer it works for, a slot pointer

vars == <<slots, control, cons, state, th>>

nslots == control.nslots
Pos == 0 .. nslots - 1

\* OMSbuff_new
Init ==
  /\ slots = [s \in 0 .. NSlots - 1 |->
                [refs |-> 0, seq |-> 0, ts |-> 0, next |-> (s + 1) % NSlots]]
  /\ control = [refs |-> 0, nslots |-> NSlots, write_pos |-> NSlots - 1, valid_read_pos |-> 0]
  /\ cons = [c \in Consumers |-> [read_pos |-> 0, last_read_pos |-> None, last_seq |-> 0]]
  /\ state = [c \in Consumers |-> "new"]
  /\ th = [pc |-> "idle", c |-> CHOOSE c \in Consumers : TRUE, s |-> None]

-----------------------------------------------------------------------------
(* The slot a consumer reads next: the selection that OMSbuff_getreader,
   OMSbuff_gotreader, OMSbuff_nextts and OMSbuff_isempty share.  A page added
   behind the last slot read is found through that slot's next. *)
After(k) == slots[slots[k.last_read_pos].next]

\* Mutant: the reference count is not looked at.
ReaderNoRefs(k) ==
  IF slots[k.read_pos].seq < k.last_seq THEN None ELSE k.read_pos

Reader(k) ==
  LET here   == slots[k.read_pos]
      jumped == k.last_read_pos # None
      added  == slots[k.last_read_pos].next
  IN IF here.refs = 0 \/ here.seq < k.last_seq
     THEN IF jumped /\ After(k).refs > 0 /\ After(k).seq > k.last_seq
          THEN added ELSE None
     ELSE IF jumped /\ After(k).seq < here.seq
          THEN added ELSE k.read_pos

\* The chain of next links that starts at a slot, and its part up to another.
Hop(from) ==
  LET hop[n \in Nat] == IF n = 0 THEN from ELSE slots[hop[n - 1]].next
  IN hop

\* Mutant: the slot at write_pos is left out (no refs++ behind the loop).
ChainShort(from, to) ==
  {s \in Pos : \E n \in 0 .. nslots - 1 :
                  /\ s = Hop(from)[n]
                  /\ \A j \in 0 .. n : Hop(from)[j] # to}

Chain(from, to) ==
  {s \in Pos : \E n \in 0 .. nslots - 1 :
                  /\ s = Hop(from)[n]
                  /\ \A j \in 0 .. n - 1 : Hop(from)[j] # to}

\* The producer is asked for a packet only below the bound of the instance.
Bound == slots[control.write_pos].seq < MaxSeq

-----------------------------------------------------------------------------
(* Main thread: OMSbuff_ref.  The new consumer starts at valid_read_pos and
   takes a reference on every slot from there to write_pos. *)
Ref(c) ==
  /\ state[c] = "new"
  /\ LET from == control.valid_read_pos
         mine == IF slots[from].seq = 0 THEN {}
                 ELSE Chain(from, control.write_pos)
     IN /\ cons' = [cons EXCEPT ![c] =
                      [read_pos |-> from, last_read_pos |-> None, last_seq |-> 0]]
        /\ slots' = [s \in Pos |-> IF s \in mine
                                     THEN [slots[s] EXCEPT !.refs = (@ + 1) % MaxRefs]
                                     ELSE slots[s]]
  /\ control' = [control EXCEPT !.refs = (@ + 1) % MaxRefs]
  /\ state' = [state EXCEPT ![c] = "attached"]
  /\ UNCHANGED <<th>>

-----------------------------------------------------------------------------
(* Scheduler thread: RTP_send_packet and get_frame *)

\* First OMSbuff_getreader of RTP_send_packet, and the ones of its loop.
GetReader(c) ==
  LET s == Reader(cons[c])
  IN th' = [pc |-> IF s # None THEN "send"
                   ELSE IF th.pc = "idle" THEN "getslot" ELSE "idle",
            c |-> c, s |-> s]

SendPacket(c) ==
  /\ th.pc = "idle"
  /\ state[c] = "attached"
  /\ Reader(cons[c]) # None \/ Bound
  /\ GetReader(c)
  /\ UNCHANGED <<slots, control, cons, state>>

SendAgain ==
  /\ th.pc = "reread"
  /\ GetReader(th.c)
  /\ UNCHANGED <<slots, control, cons, state>>

\* OMSbuff_addpage: a page of empty slots is linked in behind prev.
NewSlots == nslots .. nslots + OMSBUFF_MEM_PAGE - 1

WithPage(prev) ==
  [s \in Pos \cup NewSlots |->
     IF s \in NewSlots
     THEN [refs |-> 0, seq |-> 0, ts |-> 0,
           next |-> IF s + 1 \in NewSlots THEN s + 1 ELSE slots[prev].next]
     ELSE IF s = prev THEN [slots[s] EXCEPT !.next = nslots] ELSE slots[s]]

\* valid_read_pos is pushed over the slots that share its timestamp.
PushStops(from, s) ==
  \/ slots[s].seq >= slots[slots[s].next].seq
  \/ slots[s].ts # slots[from].ts

Pushed(from, to) ==
  \E n \in 0 .. nslots - 1 :
    /\ to = Hop(from)[n]
    /\ PushStops(from, to)
    /\ \A j \in 0 .. n - 1 : ~PushStops(from, Hop(from)[j])

\* OMSbuff_getslot when the next slot still has readers ...
GetSlotNewPage ==
  /\ th.pc = "getslot"
  /\ slots[slots[control.write_pos].next].refs > 0
  /\ slots' = WithPage(control.write_pos)
  /\ control' = [control EXCEPT !.nslots = @ + OMSBUFF_MEM_PAGE]
  /\ th' = [th EXCEPT !.pc = "fill", !.s = nslots]
  /\ UNCHANGED <<cons, state>>

\* Mutant: the slot is reused whether it has readers or not.
GetSlotStolen ==
  /\ th.pc = "getslot"
  /\ LET s   == slots[control.write_pos].next
         vrp == control.valid_read_pos
     IN /\ \E to \in Pos :
             /\ IF slots[vrp].seq # 0 /\ vrp = s THEN Pushed(vrp, to) ELSE to = vrp
             /\ control' = [control EXCEPT !.valid_read_pos = to]
        /\ th' = [th EXCEPT !.pc = "fill", !.s = s]
  /\ UNCHANGED <<slots, cons, state>>

\* ... and when it is free to be reused.
GetSlotReuse ==
  /\ th.pc = "getslot"
  /\ LET s   == slots[control.write_pos].next
         vrp == control.valid_read_pos
     IN /\ slots[s].refs = 0
        /\ \E to \in Pos :
             /\ IF slots[vrp].seq # 0 /\ vrp = s THEN Pushed(vrp, to) ELSE to = vrp
             /\ control' = [control EXCEPT !.valid_read_pos = to]
        /\ th' = [th EXCEPT !.pc = "fill", !.s = s]
  /\ UNCHANGED <<slots, cons, state>>

\* read_media filled the slot and OMSbuff_write commits it; with recallme the
\* loop of get_frame asks for another slot.
Commit ==
  /\ th.pc = "fill"
  /\ LET s    == slots[control.write_pos].next
         prev == slots[control.write_pos]
     IN /\ \E ts \in {prev.ts + d : d \in Ticks} :
             slots' = [slots EXCEPT ![s] = [refs |-> control.refs, seq |-> prev.seq + 1,
                                            ts |-> ts, next |-> slots[s].next]]
        /\ control' = [control EXCEPT !.write_pos = s]
  /\ \E out \in Outcomes \cap {"last", "recall"} :
       /\ out = "recall" => Bound'
       /\ th' = [th EXCEPT !.pc = IF out = "recall" THEN "getslot" ELSE "reread", !.s = None]
  /\ UNCHANGED <<cons, state>>

OfNewPage(s) == s >= NSlots /\ slots[s].seq = 0

\* read_media gave no data, or failed, and the slot is not committed.  At the
\* end of a stored file schedule_stop ends the sending of the session.
NoCommit ==
  /\ th.pc = "fill"
  /\ OfNewPage(th.s) => FailsOnNewPage
  /\ \E out \in Outcomes \cap {"empty", "error", "eof"} :
       /\ th' = [th EXCEPT !.pc = IF out = "empty" THEN "reread" ELSE "idle", !.s = None]
       /\ state' = IF out = "eof" THEN [state EXCEPT ![th.c] = "stopped"] ELSE state
  /\ UNCHANGED <<slots, control, cons>>

\* OMSbuff_gotreader after the packet was sent (or while unref drains): it
\* selects the slot again.
Advance(c, s) ==
  /\ slots' = [slots EXCEPT ![s].refs = (@ - 1) % MaxRefs]
  /\ cons' = [cons EXCEPT ![c] = [read_pos |-> slots[s].next, last_read_pos |-> s,
                                   last_seq |-> slots[s].seq]]

\* Mutant: the packet was sent and the position is not moved.
GotReaderStays ==
  /\ th.pc = "send"
  /\ th' = [th EXCEPT !.pc = "sent"]
  /\ UNCHANGED <<slots, control, cons, state>>

GotReader ==
  /\ th.pc = "send"
  /\ LET s == Reader(cons[th.c])
     IN IF s # None THEN Advance(th.c, s) ELSE UNCHANGED <<slots, cons>>
  /\ th' = [th EXCEPT !.pc = "sent"]
  /\ UNCHANGED <<control, state>>

\* OMSbuff_nextts: the loop goes on if the next slot is of the same time (a
\* comparison of two doubles, left open here), and ends otherwise.
NextTs ==
  /\ th.pc = "sent"
  /\ \/ Reader(cons[th.c]) # None /\ th' = [th EXCEPT !.pc = "reread", !.s = None]
     \/ th' = [th EXCEPT !.pc = "idle", !.s = None]
  /\ UNCHANGED <<slots, control, cons, state>>

-----------------------------------------------------------------------------
(* Scheduler thread: RTP_session_destroy *)

\* OMSbuff_unref: the count goes down, the mutex is released ...
Unref(c) ==
  /\ th.pc = "idle"
  /\ state[c] \in {"attached", "stopped"}
  /\ IF control.refs > 0
       THEN /\ control' = [control EXCEPT !.refs = @ - 1]
            /\ th' = [pc |-> "drain", c |-> c, s |-> None]
            /\ UNCHANGED state
       ELSE /\ state' = [state EXCEPT ![c] = "gone"]
            /\ UNCHANGED <<control, th>>
  /\ UNCHANGED <<slots, cons>>

\* Mutant: the loop looks at what is left (OMSbuff_getreader) and does not pass it.
DrainPeeks ==
  /\ th.pc = "drain"
  /\ Reader(cons[th.c]) = None
  /\ th' = [th EXCEPT !.pc = "idle"]
  /\ state' = [state EXCEPT ![th.c] = "gone"]
  /\ UNCHANGED <<slots, cons, control>>

\* ... and while (!OMSbuff_gotreader(cons)) reads what is left.
Drain ==
  /\ th.pc = "drain"
  /\ LET s == Reader(cons[th.c])
     IN IF s # None
        THEN Advance(th.c, s) /\ UNCHANGED <<th, state>>
        ELSE /\ th' = [th EXCEPT !.pc = "idle"]
             /\ state' = [state EXCEPT ![th.c] = "gone"]
             /\ UNCHANGED <<slots, cons>>
  /\ UNCHANGED control

-----------------------------------------------------------------------------
Send == GetSlotNewPage \/ GetSlotReuse \/ Commit \/ NoCommit \/ GotReader \/ NextTs \/ SendAgain

Next ==
  \/ \E c \in Consumers : Ref(c) \/ SendPacket(c) \/ Unref(c)
  \/ Send
  \/ Drain

Spec == Init /\ [][Next]_vars

-----------------------------------------------------------------------------
Slot == [refs : 0 .. MaxRefs - 1, seq : Nat, ts : Nat, next : Pos]
Pcs == {"idle", "getslot", "fill", "reread", "send", "sent", "drain"}

\* Type correctness; every index stays inside the array.
TypeOK ==
  /\ control \in [refs : 0 .. MaxRefs - 1, nslots : Nat \ {0},
                  write_pos : Pos, valid_read_pos : Pos]
  /\ slots \in [Pos -> Slot]
  /\ cons \in [Consumers -> [read_pos : Pos, last_read_pos : Pos \cup {None}, last_seq : Nat]]
  /\ state \in [Consumers -> {"new", "attached", "stopped", "gone"}]
  /\ th \in [pc : Pcs, c : Consumers, s : Pos \cup {None}]

\* The newest packet, and the next one a consumer has to get.
Top == slots[control.write_pos].seq
Cursor(c) ==
  IF cons[c].last_read_pos # None THEN cons[c].last_seq + 1
  ELSE IF slots[cons[c].read_pos].refs > 0 THEN slots[cons[c].read_pos].seq
  ELSE Top + 1
Attached == {c \in Consumers : state[c] \in {"attached", "stopped"}}
Draining == IF th.pc = "drain" THEN {th.c} ELSE {}

(* No two slots have the same successor: OMSbuff_addpage keeps the ring from
   joining itself. *)
LinksAreInjective == \A s, t \in Pos : slots[s].next = slots[t].next => s = t

(* The slot that OMSbuff_write commits is the one OMSbuff_getslot gave out, so
   the branch of OMSbuff_write that takes another slot and copies is not used. *)
CommitsItsSlot == th.pc = "fill" => th.s = slots[control.write_pos].next

(* control->refs counts the consumers attached, the one that OMSbuff_unref is
   draining excepted, although ref and unref run in different threads. *)
ControlRefsExact ==
  control.refs = Cardinality(Attached \ Draining)

(* A slot's reference count is the number of consumers that have still to read
   it: no reference is leaked (the slot would never be reused, the ring would
   grow without end) and none is stolen (a packet would be overwritten before
   somebody read it); and control->refs, from which a slot that is written gets
   its count, is exact as well. *)
RefsExact ==
  /\ ControlRefsExact
  /\ \A s \in Pos :
       slots[s].refs =
         Cardinality({c \in Attached : slots[s].seq >= Cursor(c) /\ slots[s].seq > 0})

(* "return the next slot in the buffer" (bufferpool/OMSbuff_getreader.c:7):
   a consumer never skips a packet and never gets one twice. *)
ReadInOrder ==
  [][\A c \in Consumers :
       (cons'[c].last_seq # cons[c].last_seq /\ cons[c].last_seq # 0)
         => cons'[c].last_seq = cons[c].last_seq + 1]_vars

(* OMSbuff_write "MUST be called at the end of operations with the obtained
   slot" (bufferpool/OMSbuff_getslot.c:8-9), so that every slot that is sent
   has been written; get_frame does not call it when read_media fails. *)
SendsWrittenSlots == th.pc = "send" => slots[th.s].seq > 0

\* The ring implements the log (PacketLog).
Log == INSTANCE PacketLog WITH
  top    <- Top,
  kept   <- {slots[s].seq : s \in Pos} \ {0},
  cursor <- [c \in Consumers |-> CASE state[c] = "new"  -> 0
                                   [] state[c] = "gone" -> -1
                                   [] OTHER             -> Cursor(c)]

(* What the buffer promises to its consumers: each gets every packet from the
   place where it was attached, once and in order, and no packet is overwritten
   while somebody has still to read it. *)
ImplementsLog == Log!Spec

(* The scheduler thread always takes its next step, and its loop over the
   sessions comes back to every session that is playing. *)
Fairness ==
  /\ WF_vars(Send)
  /\ WF_vars(Drain)
  /\ \A c \in Consumers : SF_vars(SendPacket(c))

FairSpec == Spec /\ Fairness

(* A packet that is in the buffer for a playing consumer is sent to it, unless
   the session is stopped or destroyed first. *)
EveryPacketIsRead ==
  \A c \in Consumers, n \in 1 .. MaxSeq :
    (state[c] = "attached" /\ Cursor(c) = n /\ n <= Top)
      ~> (state[c] # "attached" \/ Cursor(c) > n)

(* The loop "while (!OMSbuff_gotreader(cons))" of OMSbuff_unref ends. *)
UnrefEnds == \A c \in Consumers : (th.pc = "drain" /\ th.c = c) ~> state[c] = "gone"
=============================================================================
