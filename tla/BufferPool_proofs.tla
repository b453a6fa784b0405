-------------------------- MODULE BufferPool_proofs --------------------------
(***************************************************************************)
(* Proofs about BufferPool, for every number of slots, page size and set   *)
(* of consumers.                                                           *)
(***************************************************************************)
EXTENDS BufferPool, FiniteSetTheorems, WellFoundedInduction, TLAPS

\* The scheduler thread works for a consumer that has not left.
WorksForAttached == th.pc # "idle" => th.c \in Attached

IInv ==
  /\ TypeOK
  /\ LinksAreInjective
  /\ CommitsItsSlot
  /\ WorksForAttached
  /\ ControlRefsExact

-----------------------------------------------------------------------------
LEMMA MaxRefsPositive == MaxRefs \in Nat \ {0}
BY RefsAssumption, ConsumersAssumption, FS_CardinalityType

(* The counters of 16 bits stay in range. *)
LEMMA RefsInRange ==
  ASSUME NEW x \in Int PROVE x % MaxRefs \in 0 .. MaxRefs - 1
BY MaxRefsPositive

(* The slot OMSbuff_getreader and its copies select is a slot, or NULL. *)
LEMMA ReaderIsSlot ==
  ASSUME TypeOK, NEW c \in Consumers PROVE Reader(cons[c]) \in Pos \cup {None}
<1> DEFINE k == cons[c]
<1>1. k.read_pos \in Pos /\ k.last_read_pos \in Pos \cup {None}
  BY DEF TypeOK
<1>2. k.last_read_pos # None => slots[k.last_read_pos].next \in Pos
  BY <1>1 DEF TypeOK, Slot
<1> QED
  BY <1>1, <1>2 DEF Reader

LEMMA InitType == Init => TypeOK
<1> SUFFICES ASSUME Init PROVE TypeOK
  OBVIOUS
<1>1. MaxRefs \in Nat \ {0} /\ NSlots \in Nat /\ NSlots > 1
  BY RefsAssumption, ConsumersAssumption, SlotsAssumption, FS_CardinalityType
<1>2. Pos = 0 .. NSlots - 1
  BY DEF Init, Pos, nslots
<1>3. \A s \in Pos : [refs |-> 0, seq |-> 0, ts |-> 0, next |-> (s + 1) % NSlots] \in Slot
  BY <1>1, <1>2 DEF Slot
<1>4. slots \in [Pos -> Slot]
  BY <1>2, <1>3 DEF Init
<1>5. control \in [refs : 0 .. MaxRefs - 1, nslots : Nat \ {0},
                   write_pos : Pos, valid_read_pos : Pos]
  BY <1>1, <1>2 DEF Init
<1>6. cons \in [Consumers -> [read_pos : Pos, last_read_pos : Pos \cup {None}, last_seq : Nat]]
  BY <1>1, <1>2 DEF Init
<1>7. th \in [pc : Pcs, c : Consumers, s : Pos \cup {None}]
  BY ConsumersAssumption DEF Init, Pcs
<1>8. state \in [Consumers -> {"new", "attached", "stopped", "gone"}]
  BY DEF Init
<1> QED
  BY <1>4, <1>5, <1>6, <1>7, <1>8 DEF TypeOK

(* OMSbuff_new links every slot to the one behind it and the last to the first. *)
LEMMA NextOfInit ==
  ASSUME NEW s \in 0 .. NSlots - 1
  PROVE  (s + 1) % NSlots = IF s = NSlots - 1 THEN 0 ELSE s + 1
<1>1. NSlots \in Nat \ {0}
  BY SlotsAssumption
<1>2. CASE s = NSlots - 1
  BY <1>1, <1>2
<1>3. CASE s # NSlots - 1
  BY <1>1, <1>3
<1> QED
  BY <1>2, <1>3

LEMMA InitIInv == Init => IInv
<1> SUFFICES ASSUME Init PROVE IInv
  OBVIOUS
<1>1. LinksAreInjective
  <2>1. Pos = 0 .. NSlots - 1
    BY DEF Init, Pos, nslots
  <2>2. \A s \in Pos : slots[s].next = IF s = NSlots - 1 THEN 0 ELSE s + 1
    BY <2>1, NextOfInit DEF Init
  <2> QED
    BY <2>1, <2>2, SlotsAssumption DEF LinksAreInjective
<1>2. CommitsItsSlot /\ WorksForAttached
  BY DEF Init, CommitsItsSlot, WorksForAttached
<1>3. ControlRefsExact
  <2>1. Attached \ Draining = {} /\ control.refs = 0
    BY DEF Init, Attached, Draining
  <2> QED
    BY <2>1, FS_EmptySet DEF ControlRefsExact
<1> QED
  BY InitType, <1>1, <1>2, <1>3 DEF IInv
-----------------------------------------------------------------------------
ConsType == [read_pos : Pos, last_read_pos : Pos \cup {None}, last_seq : Nat]
ControlType == [refs : 0 .. MaxRefs - 1, nslots : Nat \ {0}, write_pos : Pos, valid_read_pos : Pos]
StateType == [Consumers -> {"new", "attached", "stopped", "gone"}]
ThType == [pc : Pcs, c : Consumers, s : Pos \cup {None}]

(* The parts of TypeOK, in the terms of an unchanged ring size. *)
LEMMA TypeParts ==
  ASSUME control'.nslots = control.nslots, control' \in ControlType, slots' \in [Pos -> Slot],
         cons' \in [Consumers -> ConsType], state' \in StateType, th' \in ThType
  PROVE  TypeOK'
<1>1. Pos' = Pos
  BY DEF Pos, nslots
<1>2. Slot' = Slot
  BY <1>1 DEF Slot
<1> QED
  BY <1>1, <1>2 DEF TypeOK, ConsType, ControlType, StateType, ThType

(* The next packet of a consumer is passed. *)
LEMMA AdvanceType ==
  ASSUME TypeOK, NEW c \in Consumers, NEW s \in Pos, Advance(c, s)
  PROVE  slots' \in [Pos -> Slot] /\ cons' \in [Consumers -> ConsType]
<1>1. slots[s] \in Slot
  BY DEF TypeOK
<1>2. (slots[s].refs - 1) % MaxRefs \in 0 .. MaxRefs - 1
  <2>1. slots[s].refs - 1 \in Int
    BY <1>1 DEF Slot
  <2> QED
    BY <2>1, RefsInRange
<1>3. [slots[s] EXCEPT !.refs = (slots[s].refs - 1) % MaxRefs] \in Slot
  BY <1>1, <1>2 DEF Slot
<1>4. slots' = [slots EXCEPT ![s] = [slots[s] EXCEPT !.refs = (slots[s].refs - 1) % MaxRefs]]
  BY DEF Advance, TypeOK
<1>5. slots' \in [Pos -> Slot]
  BY <1>3, <1>4 DEF TypeOK
<1>6. [read_pos |-> slots[s].next, last_read_pos |-> s, last_seq |-> slots[s].seq] \in ConsType
  BY <1>1 DEF Slot, ConsType
<1>7. cons' \in [Consumers -> ConsType]
  BY <1>6 DEF Advance, TypeOK, ConsType
<1> QED
  BY <1>5, <1>7

(* TypeOK, action by action. *)
LEMMA TypeKept ==
  ASSUME TypeOK, [Next]_vars PROVE TypeOK'
<1>0. /\ control \in ControlType /\ slots \in [Pos -> Slot] /\ state \in StateType
      /\ cons \in [Consumers -> ConsType] /\ th \in ThType
  BY DEF TypeOK, ControlType, ConsType, StateType, ThType
<1>1. ASSUME NEW c \in Consumers, Ref(c) PROVE TypeOK'
  <2>1. control.valid_read_pos \in Pos /\ control.refs + 1 \in Int
    BY <1>0 DEF ControlType
  <2>2. (control.refs + 1) % MaxRefs \in 0 .. MaxRefs - 1
    BY <2>1, RefsInRange
  <2>3. control' \in ControlType /\ control'.nslots = control.nslots
    BY <1>0, <1>1, <2>2 DEF Ref, ControlType
  <2>4. slots' \in [Pos -> Slot]
    <3>1. \A s \in Pos : [slots[s] EXCEPT !.refs = (slots[s].refs + 1) % MaxRefs] \in Slot
      <4>1. SUFFICES ASSUME NEW s \in Pos
                     PROVE  [slots[s] EXCEPT !.refs = (slots[s].refs + 1) % MaxRefs] \in Slot
        OBVIOUS
      <4>2. slots[s] \in Slot /\ slots[s].refs + 1 \in Int
        BY <1>0 DEF Slot
      <4>3. (slots[s].refs + 1) % MaxRefs \in 0 .. MaxRefs - 1
        BY <4>2, RefsInRange
      <4> QED
        BY <4>2, <4>3 DEF Slot
    <3>2. PICK mine : slots' = [s \in Pos |-> IF s \in mine
                                   THEN [slots[s] EXCEPT !.refs = (slots[s].refs + 1) % MaxRefs]
                                   ELSE slots[s]]
      BY <1>1 DEF Ref
    <3> QED
      BY <1>0, <3>1, <3>2
  <2>5. cons' \in [Consumers -> ConsType]
    <3>1. [read_pos |-> control.valid_read_pos, last_read_pos |-> None, last_seq |-> 0] \in ConsType
      BY <2>1 DEF ConsType
    <3>2. cons' = [cons EXCEPT ![c] = [read_pos |-> control.valid_read_pos,
                                       last_read_pos |-> None, last_seq |-> 0]]
      BY <1>1 DEF Ref
    <3> QED
      BY <1>0, <3>1, <3>2
  <2>6. state' \in StateType /\ th' = th
    BY <1>0, <1>1 DEF Ref, StateType
  <2> QED
    BY <1>0, <2>3, <2>4, <2>5, <2>6, TypeParts
<1>2. ASSUME NEW c \in Consumers, GetReader(c) PROVE th' \in ThType
  BY <1>2, ReaderIsSlot DEF GetReader, ThType, Pcs
<1>3. ASSUME NEW c \in Consumers, SendPacket(c) PROVE TypeOK'
  BY <1>0, <1>2, <1>3, TypeParts DEF SendPacket
<1>4. ASSUME SendAgain PROVE TypeOK'
  <2>1. th.c \in Consumers
    BY <1>0 DEF ThType
  <2> QED
    BY <1>0, <1>2, <1>4, <2>1, TypeParts DEF SendAgain
<1>5. ASSUME GetSlotReuse PROVE TypeOK'
  <2>1. slots[control.write_pos].next \in Pos
    BY <1>0 DEF ControlType, Slot
  <2>2. control' \in ControlType /\ control'.nslots = control.nslots
    BY <1>0, <1>5 DEF GetSlotReuse, ControlType
  <2>3. th' \in ThType
    BY <1>0, <1>5, <2>1 DEF GetSlotReuse, ThType, Pcs
  <2> QED
    BY <1>0, <1>5, <2>2, <2>3, TypeParts DEF GetSlotReuse
<1>6. ASSUME Commit PROVE TypeOK'
  <2> DEFINE s    == slots[control.write_pos].next
             prev == slots[control.write_pos]
  <2>1. s \in Pos /\ prev \in Slot /\ slots[s] \in Slot
    BY <1>0 DEF ControlType, Slot
  <2>2. PICK ts \in {prev.ts + d : d \in Ticks} :
          slots' = [slots EXCEPT ![s] = [refs |-> control.refs, seq |-> prev.seq + 1,
                                         ts |-> ts, next |-> slots[s].next]]
    BY <1>6 DEF Commit
  <2>3. [refs |-> control.refs, seq |-> prev.seq + 1, ts |-> ts, next |-> slots[s].next] \in Slot
    BY <1>0, <2>1, TicksAssumption DEF Slot, ControlType
  <2>4. slots' \in [Pos -> Slot]
    BY <1>0, <2>2, <2>3
  <2>5. control' \in ControlType /\ control'.nslots = control.nslots
    BY <1>0, <1>6, <2>1 DEF Commit, ControlType
  <2>6. th' \in ThType
    BY <1>0, <1>6 DEF Commit, ThType, Pcs
  <2> QED
    BY <1>0, <1>6, <2>4, <2>5, <2>6, TypeParts DEF Commit
<1>7. ASSUME NoCommit PROVE TypeOK'
  <2>1. th' \in ThType
    BY <1>0, <1>7 DEF NoCommit, ThType, Pcs
  <2>2. state' \in StateType
    BY <1>0, <1>7 DEF NoCommit, StateType
  <2> QED
    BY <1>0, <1>7, <2>1, <2>2, TypeParts DEF NoCommit
<1>8. ASSUME GotReader PROVE TypeOK'
  <2>1. th.c \in Consumers
    BY <1>0 DEF ThType
  <2>2. Reader(cons[th.c]) \in Pos \cup {None}
    BY <2>1, ReaderIsSlot
  <2>3. slots' \in [Pos -> Slot] /\ cons' \in [Consumers -> ConsType]
    <3>1. CASE Reader(cons[th.c]) = None
      BY <1>0, <1>8, <3>1 DEF GotReader
    <3>2. CASE Reader(cons[th.c]) # None
      BY <1>8, <2>1, <2>2, <3>2, AdvanceType DEF GotReader
    <3> QED
      BY <3>1, <3>2
  <2>4. th' \in ThType
    BY <1>0, <1>8 DEF GotReader, ThType, Pcs
  <2> QED
    BY <1>0, <1>8, <2>3, <2>4, TypeParts DEF GotReader
<1>9. ASSUME NextTs PROVE TypeOK'
  <2>1. th' \in ThType
    BY <1>0, <1>9 DEF NextTs, ThType, Pcs
  <2> QED
    BY <1>0, <1>9, <2>1, TypeParts DEF NextTs
<1>10. ASSUME NEW c \in Consumers, Unref(c) PROVE TypeOK'
  <2>1. control' \in ControlType /\ control'.nslots = control.nslots
    <3>1. CASE control.refs > 0
      <4>1. control.refs - 1 \in 0 .. MaxRefs - 1
        BY <1>0, <3>1, MaxRefsPositive DEF ControlType
      <4>2. control' = [control EXCEPT !.refs = control.refs - 1]
        BY <1>10, <3>1 DEF Unref
      <4> QED
        BY <1>0, <4>1, <4>2 DEF ControlType
    <3>2. CASE ~(control.refs > 0)
      BY <1>0, <1>10, <3>2 DEF Unref
    <3> QED
      BY <3>1, <3>2
  <2>2. th' \in ThType /\ state' \in StateType
    BY <1>0, <1>10 DEF Unref, ThType, Pcs, StateType
  <2> QED
    BY <1>0, <1>10, <2>1, <2>2, TypeParts DEF Unref
<1>11. ASSUME Drain PROVE TypeOK'
  <2>1. th.c \in Consumers
    BY <1>0 DEF ThType
  <2>2. Reader(cons[th.c]) \in Pos \cup {None}
    BY <2>1, ReaderIsSlot
  <2>3. slots' \in [Pos -> Slot] /\ cons' \in [Consumers -> ConsType]
    <3>1. CASE Reader(cons[th.c]) = None
      BY <1>0, <1>11, <3>1 DEF Drain
    <3>2. CASE Reader(cons[th.c]) # None
      BY <1>11, <2>1, <2>2, <3>2, AdvanceType DEF Drain
    <3> QED
      BY <3>1, <3>2
  <2>4. th' \in ThType
    BY <1>0, <1>11 DEF Drain, ThType, Pcs
  <2>5. state' \in StateType
    BY <1>0, <1>11 DEF Drain, StateType
  <2> QED
    BY <1>0, <1>11, <2>3, <2>4, <2>5, TypeParts DEF Drain
<1>12. ASSUME GetSlotNewPage PROVE TypeOK'
  <2> DEFINE wp == control.write_pos
             P  == 0 .. nslots + OMSBUFF_MEM_PAGE - 1
             S  == [refs : 0 .. MaxRefs - 1, seq : Nat, ts : Nat, next : P]
  <2>1. /\ nslots \in Nat \ {0} /\ wp \in Pos /\ OMSBUFF_MEM_PAGE \in Nat \ {0}
        /\ control.valid_read_pos \in Pos /\ control.refs \in 0 .. MaxRefs - 1
    BY <1>0, PageAssumption DEF ControlType, nslots
  <2>2. control' = [control EXCEPT !.nslots = nslots + OMSBUFF_MEM_PAGE]
    BY <1>12 DEF GetSlotNewPage, nslots
  <2>3. nslots' = nslots + OMSBUFF_MEM_PAGE /\ Pos' = P /\ Slot' = S
    <3>1. nslots' = nslots + OMSBUFF_MEM_PAGE
      BY <1>0, <2>2 DEF nslots, ControlType
    <3>2. Pos' = P
      BY <2>1, <3>1 DEF Pos
    <3> QED
      BY <3>1, <3>2 DEF Slot
  <2>4. Pos \subseteq P /\ Pos \cup NewSlots = P
    BY <2>1 DEF Pos, NewSlots
  <2>5. Slot \subseteq S
    BY <2>4 DEF Slot
  <2>6. slots' \in [P -> S]
    <3>1. SUFFICES ASSUME NEW s \in P PROVE WithPage(wp)[s] \in S
      BY <1>12, <2>4 DEF GetSlotNewPage, WithPage
    <3>2. slots[wp] \in Slot /\ slots[wp].next \in P
      BY <1>0, <2>1, <2>4 DEF Slot
    <3>3. CASE s \in NewSlots
      <4>1. WithPage(wp)[s] = [refs |-> 0, seq |-> 0, ts |-> 0,
               next |-> IF s + 1 \in NewSlots THEN s + 1 ELSE slots[wp].next]
        BY <2>4, <3>3 DEF WithPage
      <4>2. 0 \in 0 .. MaxRefs - 1
        BY MaxRefsPositive
      <4> QED
        BY <2>4, <3>2, <4>1, <4>2
    <3>4. CASE s \notin NewSlots
      <4>1. s \in Pos /\ slots[s] \in Slot
        BY <1>0, <2>4, <3>4
      <4>2. nslots \in P
        BY <2>1
      <4>3. WithPage(wp)[s] = IF s = wp THEN [slots[s] EXCEPT !.next = nslots] ELSE slots[s]
        BY <2>4, <3>4, <4>1 DEF WithPage
      <4> QED
        BY <2>5, <4>1, <4>2, <4>3 DEF Slot
    <3> QED
      BY <3>3, <3>4
  <2>7. th' = [th EXCEPT !.pc = "fill", !.s = nslots] /\ nslots \in P
    BY <1>12, <2>1 DEF GetSlotNewPage
  <2>8. th' \in [pc : Pcs, c : Consumers, s : P \cup {None}]
    BY <1>0, <2>4, <2>7 DEF ThType, Pcs
  <2>9. cons' \in [Consumers -> [read_pos : P, last_read_pos : P \cup {None}, last_seq : Nat]]
    <3>1. ConsType \subseteq [read_pos : P, last_read_pos : P \cup {None}, last_seq : Nat]
      BY <2>4 DEF ConsType
    <3> QED
      BY <1>0, <1>12, <3>1 DEF GetSlotNewPage
  <2>10. control' \in [refs : 0 .. MaxRefs - 1, nslots : Nat \ {0},
                       write_pos : P, valid_read_pos : P]
    BY <1>0, <2>1, <2>2, <2>4 DEF ControlType
  <2> QED
    BY <1>0, <1>12, <2>3, <2>6, <2>8, <2>9, <2>10 DEF TypeOK, GetSlotNewPage, StateType
<1>13. CASE UNCHANGED vars
  BY <1>0, <1>13, TypeParts DEF vars
<1> QED
  BY <1>1, <1>3, <1>4, <1>5, <1>6, <1>7, <1>8, <1>9, <1>10, <1>11, <1>12, <1>13
  DEF Next, Send
-----------------------------------------------------------------------------
(* The links, the write position and the size of the ring change only when a
   page is added and when a slot is committed. *)
LEMMA RingKept ==
  ASSUME TypeOK, [Next]_vars, ~GetSlotNewPage, ~Commit
  PROVE  /\ control'.nslots = control.nslots /\ control'.write_pos = control.write_pos
         /\ \A s \in Pos : slots'[s].next = slots[s].next
<1>0. slots \in [Pos -> Slot] /\ control \in ControlType
  BY DEF TypeOK, ControlType
<1>1. ASSUME NEW c, NEW s, Advance(c, s) PROVE \A t \in Pos : slots'[t].next = slots[t].next
  BY <1>0, <1>1 DEF Advance, Slot
<1>2. ASSUME NEW c \in Consumers, Ref(c)
      PROVE  /\ control'.nslots = control.nslots /\ control'.write_pos = control.write_pos
             /\ \A s \in Pos : slots'[s].next = slots[s].next
  <2>1. PICK mine : slots' = [s \in Pos |-> IF s \in mine
                                 THEN [slots[s] EXCEPT !.refs = (slots[s].refs + 1) % MaxRefs]
                                 ELSE slots[s]]
    BY <1>2 DEF Ref
  <2>2. \A s \in Pos : slots'[s].next = slots[s].next
    BY <1>0, <2>1 DEF Slot
  <2> QED
    BY <1>0, <1>2, <2>2 DEF Ref, ControlType
<1>3. ASSUME GotReader \/ Drain
      PROVE  /\ control'.nslots = control.nslots /\ control'.write_pos = control.write_pos
             /\ \A s \in Pos : slots'[s].next = slots[s].next
  BY <1>1, <1>3 DEF GotReader, Drain
<1>4. ASSUME \/ SendAgain \/ GetSlotReuse \/ NoCommit \/ NextTs \/ UNCHANGED vars
             \/ \E c \in Consumers : SendPacket(c) \/ Unref(c)
      PROVE  /\ control'.nslots = control.nslots /\ control'.write_pos = control.write_pos
             /\ \A s \in Pos : slots'[s].next = slots[s].next
  BY <1>0, <1>4 DEF SendAgain, GetSlotReuse, NoCommit, NextTs, vars, SendPacket, Unref, ControlType
<1> QED
  BY <1>2, <1>3, <1>4 DEF Next, Send

(* A page is linked in between two slots: its last slot takes over the
   successor that only the first of the two had. *)
LEMMA LinksKept ==
  ASSUME TypeOK, TypeOK', LinksAreInjective, [Next]_vars PROVE LinksAreInjective'
<1>0. slots \in [Pos -> Slot] /\ control \in ControlType /\ \A s \in Pos : slots[s].next \in Pos
  BY DEF TypeOK, ControlType, Slot
<1>1. CASE GetSlotNewPage
  <2> DEFINE wp == control.write_pos
  <2>1. nslots \in Nat \ {0} /\ wp \in Pos /\ OMSBUFF_MEM_PAGE \in Nat \ {0}
    BY <1>0, PageAssumption DEF ControlType, nslots
  <2>2. nslots' = nslots + OMSBUFF_MEM_PAGE
    BY <1>0, <1>1 DEF GetSlotNewPage, nslots, ControlType
  <2>3. Pos' = Pos \cup NewSlots
    BY <2>1, <2>2 DEF Pos, NewSlots
  <2>4. \A s \in NewSlots : slots'[s].next = IF s + 1 \in NewSlots THEN s + 1 ELSE slots[wp].next
    BY <1>1 DEF GetSlotNewPage, WithPage
  <2>5. \A s \in Pos : slots'[s].next = IF s = wp THEN nslots ELSE slots[s].next
    <3>1. \A s \in Pos : s \notin NewSlots
      BY <2>1 DEF Pos, NewSlots
    <3> QED
      BY <1>0, <1>1, <3>1 DEF GetSlotNewPage, WithPage, Slot
  <2>6. \A s \in NewSlots : s + 1 \notin NewSlots => s = nslots + OMSBUFF_MEM_PAGE - 1
    BY <2>1 DEF NewSlots
  <2>7. SUFFICES ASSUME NEW s \in Pos', NEW t \in Pos', slots'[s].next = slots'[t].next
                 PROVE  s = t
    BY DEF LinksAreInjective
  <2>8. \A u \in NewSlots : u > nslots - 1 /\ u \in Int
    BY <2>1 DEF NewSlots
  <2>9. \A u \in Pos : u \in Int /\ u < nslots
    BY <2>1 DEF Pos
  <2>10. CASE s \in Pos /\ t \in Pos
    BY <1>0, <2>1, <2>5, <2>7, <2>9, <2>10 DEF LinksAreInjective
  <2>11. CASE s \in NewSlots /\ t \in NewSlots
    BY <1>0, <2>1, <2>4, <2>6, <2>7, <2>8, <2>9, <2>11
  <2>12. ASSUME NEW u \in Pos, NEW w \in NewSlots, slots'[u].next = slots'[w].next PROVE FALSE
    <3>1. CASE w + 1 \in NewSlots
      BY <1>0, <2>1, <2>4, <2>5, <2>8, <2>9, <2>12, <3>1
    <3>2. CASE w + 1 \notin NewSlots
      BY <1>0, <2>1, <2>4, <2>5, <2>9, <2>12, <3>2 DEF LinksAreInjective
    <3> QED
      BY <3>1, <3>2
  <2> QED
    BY <2>3, <2>7, <2>10, <2>11, <2>12
<1>2. CASE Commit
  <2>1. Pos' = Pos
    BY <1>0, <1>2 DEF Commit, Pos, nslots, ControlType
  <2>2. \A s \in Pos : slots'[s].next = slots[s].next
    BY <1>0, <1>2 DEF Commit, Slot
  <2> QED
    BY <2>1, <2>2 DEF LinksAreInjective
<1>3. CASE ~GetSlotNewPage /\ ~Commit
  <2>1. control'.nslots = control.nslots /\ \A s \in Pos : slots'[s].next = slots[s].next
    BY <1>3, RingKept
  <2>2. Pos' = Pos
    BY <2>1 DEF Pos, nslots
  <2> QED
    BY <2>1, <2>2 DEF LinksAreInjective
<1> QED
  BY <1>1, <1>2, <1>3

(* While read_media fills a slot only the main thread can step, and it attaches
   a consumer without touching the links. *)
LEMMA CommitsKept ==
  ASSUME TypeOK, CommitsItsSlot, [Next]_vars PROVE CommitsItsSlot'
<1>0. /\ slots \in [Pos -> Slot] /\ control \in ControlType /\ control.write_pos \in Pos
      /\ th \in ThType
  BY DEF TypeOK, ControlType, ThType
<1>1. CASE GetSlotNewPage
  <2> DEFINE wp == control.write_pos
  <2>1. nslots \in Nat \ {0} /\ wp \in Pos
    BY <1>0 DEF ControlType, nslots
  <2>2. wp \notin NewSlots
    BY <2>1 DEF Pos, NewSlots
  <2>3. slots'[wp].next = nslots
    BY <1>0, <1>1, <2>1, <2>2 DEF GetSlotNewPage, WithPage, Slot
  <2>4. control'.write_pos = wp /\ th'.s = nslots
    BY <1>0, <1>1 DEF GetSlotNewPage, ControlType, ThType
  <2> QED
    BY <2>3, <2>4 DEF CommitsItsSlot
<1>2. CASE Commit
  BY <1>0, <1>2 DEF Commit, CommitsItsSlot, ThType
<1>3. CASE GetSlotReuse
  BY <1>0, <1>3 DEF GetSlotReuse, CommitsItsSlot, ThType, ControlType
<1>4. CASE ~GetSlotNewPage /\ ~Commit /\ ~GetSlotReuse
  <2>1. /\ control'.write_pos = control.write_pos
        /\ slots'[control.write_pos].next = slots[control.write_pos].next
    BY <1>0, <1>4, RingKept
  <2>2. th'.pc = "fill" => th' = th
    <3>1. CASE \E c \in Consumers : Ref(c) \/ SendPacket(c) \/ Unref(c)
      BY <1>0, <3>1 DEF Ref, SendPacket, GetReader, Unref, ThType
    <3>2. CASE Drain \/ UNCHANGED vars
      BY <1>0, <3>2 DEF Drain, vars, ThType
    <3>3. CASE NoCommit
      BY <1>0, <3>3 DEF NoCommit, ThType
    <3>4. CASE GotReader \/ NextTs
      BY <1>0, <3>4 DEF GotReader, NextTs, ThType
    <3>5. CASE SendAgain
      BY <1>0, <3>5 DEF SendAgain, GetReader, ThType
    <3> QED
      BY <1>4, <3>1, <3>2, <3>3, <3>4, <3>5 DEF Next, Send
  <2> QED
    BY <2>1, <2>2 DEF CommitsItsSlot
<1> QED
  BY <1>1, <1>2, <1>3, <1>4
-----------------------------------------------------------------------------
LEMMA WorksKept ==
  ASSUME TypeOK, WorksForAttached, [Next]_vars PROVE WorksForAttached'
<1>0. th \in ThType /\ state \in StateType
  BY DEF TypeOK, ThType, StateType
<1> USE DEF WorksForAttached, Attached, ThType, StateType
<1>1. CASE \E c \in Consumers : Ref(c)
  BY <1>0, <1>1 DEF Ref
<1>2. CASE \E c \in Consumers : SendPacket(c)
  BY <1>0, <1>2 DEF SendPacket, GetReader
<1>3. CASE \E c \in Consumers : Unref(c)
  BY <1>0, <1>3 DEF Unref
<1>4. CASE SendAgain
  BY <1>0, <1>4 DEF SendAgain, GetReader
<1>5. CASE GetSlotNewPage \/ GetSlotReuse \/ Commit
  BY <1>0, <1>5 DEF GetSlotNewPage, GetSlotReuse, Commit
<1>6. CASE NoCommit
  BY <1>0, <1>6 DEF NoCommit
<1>7. CASE GotReader \/ NextTs
  BY <1>0, <1>7 DEF GotReader, NextTs
<1>8. CASE Drain
  BY <1>0, <1>8 DEF Drain
<1>9. CASE UNCHANGED vars
  BY <1>9 DEF vars
<1> QED
  BY <1>1, <1>2, <1>3, <1>4, <1>5, <1>6, <1>7, <1>8, <1>9 DEF Next, Send

(* Ref and Unref run in different threads, and Unref counts down before it
   drains: the count is that of the consumers attached and not being drained. *)
LEMMA RefsKept ==
  ASSUME TypeOK, WorksForAttached, ControlRefsExact, [Next]_vars PROVE ControlRefsExact'
<1> DEFINE A == Attached \ Draining
<1>0. th \in ThType /\ state \in StateType /\ control \in ControlType
  BY DEF TypeOK, ThType, StateType, ControlType
<1>1. A \subseteq Consumers /\ IsFiniteSet(A)
  <2>1. A \subseteq Consumers
    BY DEF Attached
  <2> QED
    BY <2>1, ConsumersAssumption, FS_Subset, Zenon
<1>2. ASSUME NEW c \in Consumers, Ref(c) PROVE ControlRefsExact'
  <2>1. c \notin A /\ A' = A \cup {c}
    BY <1>0, <1>2 DEF Ref, Attached, Draining, WorksForAttached, StateType
  <2>2. IsFiniteSet(A \cup {c}) /\ Cardinality(A \cup {c}) = Cardinality(A) + 1
    BY <1>1, <2>1, FS_AddElement, Zenon
  <2>3. Cardinality(A \cup {c}) <= Cardinality(Consumers)
    <3>1. A \cup {c} \subseteq Consumers
      BY <1>1
    <3> QED
      BY <3>1, ConsumersAssumption, FS_Subset, Zenon
  <2>4. /\ control.refs = Cardinality(A)
        /\ Cardinality(A) \in Nat /\ Cardinality(Consumers) \in Nat
    BY <1>1, ConsumersAssumption, FS_CardinalityType DEF ControlRefsExact
  <2>5. control.refs + 1 < MaxRefs /\ control.refs + 1 \in Nat
    BY <2>2, <2>3, <2>4, RefsAssumption
  <2>6. (control.refs + 1) % MaxRefs = control.refs + 1
    BY <2>5, MaxRefsPositive
  <2>7. control'.refs = control.refs + 1
    BY <1>0, <1>2, <2>6 DEF Ref, ControlType
  <2> QED
    BY <2>1, <2>2, <2>4, <2>7 DEF ControlRefsExact
<1>3. ASSUME NEW c \in Consumers, Unref(c) PROVE ControlRefsExact'
  <2>1. c \in A /\ A = Attached
    BY <1>3 DEF Unref, Attached, Draining
  <2>2. Cardinality(A) # 0 /\ Cardinality(A) \in Nat
    BY <1>1, <2>1, FS_EmptySet, FS_CardinalityType, Zenon
  <2>3. control.refs = Cardinality(A) /\ control.refs > 0
    BY <2>2 DEF ControlRefsExact
  <2>4. /\ control' = [control EXCEPT !.refs = control.refs - 1]
        /\ th' = [pc |-> "drain", c |-> c, s |-> None] /\ state' = state
    BY <1>3, <2>3 DEF Unref
  <2>5. A' = A \ {c}
    BY <2>1, <2>4 DEF Attached, Draining
  <2>6. Cardinality(A \ {c}) = Cardinality(A) - 1
    BY <1>1, <2>1, FS_RemoveElement, Zenon
  <2> QED
    BY <1>0, <2>3, <2>4, <2>5, <2>6 DEF ControlRefsExact, ControlType
<1>4. ASSUME control'.refs = control.refs, A' = A PROVE ControlRefsExact'
  BY <1>4 DEF ControlRefsExact
<1>5. CASE Drain
  <2>1. A' = A
    BY <1>0, <1>5 DEF Drain, Attached, Draining, ThType, StateType
  <2> QED
    BY <1>4, <1>5, <2>1 DEF Drain
<1>6. CASE NoCommit
  <2>1. Attached' = Attached
    BY <1>0, <1>6 DEF NoCommit, Attached, WorksForAttached, ThType, StateType
  <2>2. Draining = {} /\ Draining' = {}
    BY <1>0, <1>6 DEF NoCommit, Draining, ThType
  <2> QED
    BY <1>4, <1>6, <2>1, <2>2 DEF NoCommit
<1>7. CASE \/ GetSlotNewPage \/ GetSlotReuse \/ Commit \/ GotReader \/ NextTs
           \/ SendAgain \/ \E c \in Consumers : SendPacket(c)
  <2>1. state' = state /\ control'.refs = control.refs
    BY <1>0, <1>7 DEF GetSlotNewPage, GetSlotReuse, Commit, GotReader, NextTs, SendAgain,
                      SendPacket, ControlType
  <2>2. Draining = {}
    BY <1>7 DEF GetSlotNewPage, GetSlotReuse, Commit, GotReader, NextTs, SendAgain,
                SendPacket, Draining
  <2>3. Draining' = {}
    <3>1. CASE GetSlotNewPage \/ GetSlotReuse \/ Commit \/ GotReader \/ NextTs
      BY <1>0, <3>1 DEF GetSlotNewPage, GetSlotReuse, Commit, GotReader, NextTs, Draining, ThType
    <3>2. CASE SendAgain \/ \E c \in Consumers : SendPacket(c)
      BY <3>2 DEF SendAgain, SendPacket, GetReader, Draining
    <3> QED
      BY <1>7, <3>1, <3>2
  <2> QED
    BY <1>4, <2>1, <2>2, <2>3 DEF Attached
<1>8. CASE UNCHANGED vars
  BY <1>4, <1>8 DEF vars, Attached, Draining
<1> QED
  BY <1>2, <1>3, <1>5, <1>6, <1>7, <1>8 DEF Next, Send

-----------------------------------------------------------------------------
LEMMA IInvKept == IInv /\ [Next]_vars => IInv'
<1>1. SUFFICES ASSUME IInv, [Next]_vars PROVE IInv'
  OBVIOUS
<1>2. TypeOK'
  BY <1>1, TypeKept DEF IInv
<1> QED
  BY <1>1, <1>2, LinksKept, CommitsKept, WorksKept, RefsKept DEF IInv

LEMMA IInvInvariant == Spec => []IInv
BY InitIInv, IInvKept, PTL DEF Spec

(* Every read, write and link position lies inside the array of slots, however
   many pages were added, and the reference counts fit their width. *)
THEOREM TypeCorrect == Spec => []TypeOK
<1>1. IInv => TypeOK
  BY DEF IInv
<1> QED
  BY IInvInvariant, <1>1, PTL

(* OMSbuff_addpage never makes two slots point to the same successor. *)
THEOREM LinksInjective == Spec => []LinksAreInjective
<1>1. IInv => LinksAreInjective
  BY DEF IInv
<1> QED
  BY IInvInvariant, <1>1, PTL

(* The slot read_media fills is the one OMSbuff_write commits, whatever the
   main thread does between OMSbuff_getslot and OMSbuff_write. *)
THEOREM SlotCommitted == Spec => []CommitsItsSlot
<1>1. IInv => CommitsItsSlot
  BY DEF IInv
<1> QED
  BY IInvInvariant, <1>1, PTL

(* control->refs is the number of consumers, so RTP_session_destroy frees the
   buffer when the last one is detached and not before. *)
THEOREM ControlRefsCorrect == Spec => []ControlRefsExact
<1>1. IInv => ControlRefsExact
  BY DEF IInv
<1> QED
  BY IInvInvariant, <1>1, PTL

-----------------------------------------------------------------------------
(***************************************************************************)
(* The order of the ring.  Behind the slot that was written last come the  *)
(* slots that were never written, and then the packets by their numbers,   *)
(* oldest first.                                                           *)
(***************************************************************************)
Wp == control.write_pos
Following == slots[Wp].next
Empty == {s \in Pos : slots[s].seq = 0}
Oldest == IF Empty = {} THEN Following ELSE slots[nslots - 1].next

Ring ==
  /\ nslots >= NSlots
  /\ \A s \in Pos : slots[s].next # s /\ slots[s].seq <= Top
  /\ \A s \in Pos : s # Wp /\ slots[s].seq > 0 => slots[slots[s].next].seq = slots[s].seq + 1
  /\ \A s, t \in Pos : slots[s].seq = slots[t].seq /\ slots[s].seq > 0 => s = t
  /\ Empty = {} \/ Empty = Following .. nslots - 1
  /\ \A s \in Empty : s + 1 \in Pos => slots[s].next = s + 1
  /\ \A s \in Pos \ Empty : slots[Oldest].seq \in 1 .. slots[s].seq
  /\ \A s \in Pos \ Empty : \A m \in slots[s].seq .. Top : \E t \in Pos : slots[t].seq = m
  /\ Empty = {} \/ nslots = NSlots \/ Following >= NSlots

(* valid_read_pos is not the slot that is being filled, so that a consumer that
   is attached meanwhile takes no reference on it. *)
Vrp ==
  LET v == control.valid_read_pos
  IN /\ slots[v].seq = 0 => Top = 0 /\ v = Following
     /\ th.pc = "fill" => slots[Following].refs = 0 /\ (slots[v].seq > 0 => v # th.s)

\* The packet a consumer has to get next, and the consumers that have to get one.
Due(c) ==
  IF cons[c].last_read_pos # None THEN cons[c].last_seq + 1
  ELSE IF slots[cons[c].read_pos].seq > 0 THEN slots[cons[c].read_pos].seq
  ELSE Top + 1
Readers(s) == {c \in Attached : slots[s].seq >= Due(c) /\ slots[s].seq > 0}
RefsAre == \A s \in Pos : slots[s].refs = Cardinality(Readers(s))

\* The slot that is being filled is of a page and was never written.
OnPage == th.pc = "fill" /\ OfNewPage(th.s)

\* Where the positions of a consumer are: one that was just attached ...
Fresh(c) ==
  /\ cons[c].last_seq = 0
  /\ slots[cons[c].read_pos].seq = 0 => Top = 0 /\ cons[c].read_pos = Following

\* ... one that has read everything, where a page may have been put in behind it
\* for the packet it is about to cause ...
CaughtUp(c) ==
  LET k == cons[c]
  IN /\ k.last_read_pos = Wp /\ k.read_pos # Wp
     /\ \/ k.read_pos = Following
        \/ th.c = c /\ OnPage /\ slots[Oldest].refs > 0

\* ... one that finds its packet at read_pos ...
InPlace(c) ==
  LET k == cons[c]
  IN /\ slots[k.read_pos].seq = k.last_seq + 1
     /\ \/ slots[slots[k.last_read_pos].next].seq > k.last_seq
        \/ OnPage /\ th.s = slots[k.last_read_pos].next

\* ... and one that finds it behind last_read_pos: it reads it before anyone else
\* writes, for as long as the ring is full only slots of pages are filled.
Jumps(c) ==
  LET k == cons[c]
  IN /\ slots[slots[k.last_read_pos].next].seq = k.last_seq + 1
     /\ slots[k.last_read_pos].seq = k.last_seq /\ k.read_pos # k.last_read_pos
     /\ th.c = c /\ th.pc \in {"getslot", "fill", "reread", "send"}
     /\ th.pc \in {"getslot", "fill"} => slots[Oldest].refs > 0
     /\ th.pc = "fill" => OnPage
     /\ th.pc = "getslot" => Empty = {} \/ Following >= NSlots

Reads(c) ==
  LET k == cons[c]
  IN IF k.last_read_pos = None THEN Fresh(c)
     ELSE /\ k.last_seq \in 1 .. Top
          /\ IF k.last_seq = Top THEN CaughtUp(c) ELSE InPlace(c) \/ Jumps(c)

\* Packets are made for a consumer that has none left, and what it made is the
\* first it has then; what is sent is what it is due.
Phase ==
  /\ th.pc \in {"getslot", "fill"} =>
       \A d \in Attached :
         cons[d].last_read_pos # None /\ cons[d].last_seq = Top => Due(th.c) = Top + 1
  /\ th.pc = "send" => th.s \in Pos /\ slots[th.s].seq = Due(th.c) /\ Due(th.c) <= Top

RInv ==
  /\ Ring
  /\ Vrp
  /\ RefsAre
  /\ \A c \in Attached : Reads(c)
  /\ Phase

-----------------------------------------------------------------------------
(* Induction: a property that fails for a number fails for a least one. *)
LEMMA LeastNat ==
  ASSUME NEW T, T \subseteq Nat, T # {}
  PROVE  \E x \in T : \A y \in T : x <= y
<1>1. PICK x \in T : \A y \in T : ~(<<y, x>> \in OpToRel(<, Nat))
  BY NatLessThanWellFounded, WFMin
<1>2. \A y \in T : ~(y < x)
  BY <1>1 DEF OpToRel
<1> QED
  BY <1>2

(* Iterating a function is well defined. *)
LEMMA Iterate ==
  ASSUME NEW S, NEW h \in S, NEW N \in [S -> S]
  PROVE  \E f \in [Nat -> S] : f[0] = h /\ \A n \in Nat : f[n + 1] = N[f[n]]
<1> DEFINE Upto(n, g) == g \in [0 .. n -> S] /\ g[0] = h /\ \A i \in 0 .. n - 1 : g[i + 1] = N[g[i]]
           Bad == {n \in Nat : ~ \E g : Upto(n, g)}
<1>1. Upto(0, [i \in 0 .. 0 |-> h])
  OBVIOUS
<1>2. ASSUME NEW n \in Nat, NEW g, Upto(n, g)
      PROVE  Upto(n + 1, [i \in 0 .. n + 1 |-> IF i = n + 1 THEN N[g[n]] ELSE g[i]])
  BY <1>2
<1>3. Bad = {}
  <2> SUFFICES ASSUME Bad # {} PROVE FALSE
    OBVIOUS
  <2>1. PICK m \in Bad : \A k \in Bad : m <= k
    BY LeastNat
  <2>2. m # 0
    BY <1>1
  <2>3. m - 1 \in Nat /\ m - 1 \notin Bad
    BY <2>1, <2>2
  <2>4. PICK g : Upto(m - 1, g)
    BY <2>3
  <2> HIDE DEF Upto
  <2>5. \E gg : Upto(m - 1 + 1, gg)
    BY <1>2, <2>3, <2>4
  <2> QED
    BY <2>5, <2>3
<1>4. ASSUME NEW m \in Nat, NEW n \in Nat, NEW f, NEW g, Upto(m, f), Upto(n, g), m <= n
      PROVE  f[m] = g[m]
  <2> DEFINE D == {i \in 0 .. m : f[i] # g[i]}
  <2> SUFFICES ASSUME D # {} PROVE FALSE
    OBVIOUS
  <2>1. PICK k \in D : \A l \in D : k <= l
    <3>1. D \subseteq Nat
      OBVIOUS
    <3> HIDE DEF D
    <3> QED
      BY <3>1, LeastNat
  <2>2. k # 0
    BY <1>4
  <2>3. f[k - 1] = g[k - 1] /\ k - 1 \in 0 .. m - 1 /\ k - 1 \in 0 .. n - 1
    BY <2>1, <2>2, <1>4
  <2>4. f[k - 1 + 1] = g[k - 1 + 1]
    BY <2>3, <1>4
  <2> QED
    BY <2>4, <2>1
<1> DEFINE G(n) == CHOOSE g : Upto(n, g)
           f == [n \in Nat |-> G(n)[n]]
<1>5. \A n \in Nat : Upto(n, G(n))
  BY <1>3
<1>6. f \in [Nat -> S] /\ f[0] = h
  <2> HIDE DEF G
  <2>1. \A n \in Nat : G(n)[n] \in S
    BY <1>5
  <2>2. G(0)[0] = h
    BY <1>5
  <2> QED
    BY <2>1, <2>2
<1>7. ASSUME NEW n \in Nat PROVE f[n + 1] = N[f[n]]
  <2> HIDE DEF G
  <2>1. G(n + 1)[n + 1] = N[G(n + 1)[n]]
    BY <1>5
  <2>2. G(n)[n] = G(n + 1)[n]
    <3> HIDE DEF Upto
    <3> QED
      BY <1>4, <1>5
  <2> QED
    BY <2>1, <2>2
<1> QED
  BY <1>6, <1>7

-----------------------------------------------------------------------------
(* The types, in the form the steps below use. *)
LEMMA SlotTypes ==
  ASSUME TypeOK
  PROVE  /\ nslots \in Nat \ {0} /\ Pos = 0 .. nslots - 1 /\ Wp \in Pos /\ Following \in Pos
         /\ \A s \in Pos : /\ slots[s].refs \in 0 .. MaxRefs - 1 /\ slots[s].seq \in Nat
                           /\ slots[s].ts \in Nat /\ slots[s].next \in Pos
         /\ Top \in Nat /\ control.valid_read_pos \in Pos
         /\ slots \in [Pos -> Slot]
BY DEF TypeOK, Slot, nslots, Pos, Wp, Following, Top

(* Hop follows the links. *)
LEMMA HopIs ==
  ASSUME TypeOK, NEW from \in Pos
  PROVE  /\ Hop(from) \in [Nat -> Pos]
         /\ Hop(from)[0] = from
         /\ \A n \in Nat : Hop(from)[n + 1] = slots[Hop(from)[n]].next
<1> DEFINE N == [s \in Pos |-> slots[s].next]
           IsHop(f) == f = [n \in Nat |-> IF n = 0 THEN from ELSE slots[f[n - 1]].next]
<1>1. N \in [Pos -> Pos]
  BY SlotTypes
<1>2. PICK f \in [Nat -> Pos] : f[0] = from /\ \A n \in Nat : f[n + 1] = N[f[n]]
  <2> HIDE DEF N
  <2> QED
    BY <1>1, Iterate
<1>3. IsHop(f)
  <2>1. \A n \in Nat : f[n] = IF n = 0 THEN from ELSE slots[f[n - 1]].next
    <3> SUFFICES ASSUME NEW n \in Nat, n # 0 PROVE f[n] = slots[f[n - 1]].next
      BY <1>2
    <3>1. n - 1 \in Nat /\ n - 1 + 1 = n
      OBVIOUS
    <3> QED
      BY <1>2, <3>1
  <2> QED
    BY <1>2, <2>1
<1>4. Hop(from) = CHOOSE g : IsHop(g)
  BY DEF Hop
<1>5. IsHop(Hop(from))
  <2> HIDE DEF IsHop
  <2> QED
    BY <1>3, <1>4
<1> DEFINE h == Hop(from)
<1> HIDE DEF h
<1>6. h = [n \in Nat |-> IF n = 0 THEN from ELSE slots[h[n - 1]].next]
  BY <1>5 DEF h
<1>7. h[0] = from /\ \A n \in Nat : h[n + 1] = slots[h[n]].next
  <2>1. h[0] = from
    BY <1>6
  <2>2. ASSUME NEW n \in Nat PROVE h[n + 1] = slots[h[n]].next
    <3>1. n + 1 \in Nat /\ n + 1 # 0 /\ n + 1 - 1 = n
      OBVIOUS
    <3> QED
      BY <1>6, <3>1
  <2> QED
    BY <2>1, <2>2
<1>8. h \in [Nat -> Pos]
  <2> DEFINE Bad == {n \in Nat : h[n] \notin Pos}
  <2>1. Bad = {}
    <3> SUFFICES ASSUME Bad # {} PROVE FALSE
      OBVIOUS
    <3>1. PICK m \in Bad : \A k \in Bad : m <= k
      <4>1. Bad \subseteq Nat
        OBVIOUS
      <4> HIDE DEF Bad
      <4> QED
        BY <4>1, LeastNat
    <3>2. m # 0
      BY <1>7
    <3>3. m - 1 \in Nat /\ h[m - 1] \in Pos /\ m - 1 + 1 = m
      BY <3>1, <3>2
    <3> QED
      BY <1>7, <3>1, <3>3, SlotTypes
  <2> QED
    BY <1>6, <2>1
<1> QED
  BY <1>7, <1>8 DEF h

(* The slots behind one that was written hold the packets that follow it, up to
   the newest. *)
LEMMA HopSeq ==
  ASSUME TypeOK, Ring, NEW from \in Pos, slots[from].seq > 0
  PROVE  \A n \in 0 .. Top - slots[from].seq : slots[Hop(from)[n]].seq = slots[from].seq + n
<1> DEFINE k == slots[from].seq
           h == Hop(from)
           Bad == {n \in 0 .. Top - k : slots[h[n]].seq # k + n}
<1> SUFFICES ASSUME Bad # {} PROVE FALSE
  OBVIOUS
<1>1. k \in Nat /\ Top \in Nat /\ k <= Top
  BY SlotTypes DEF Ring
<1>2. PICK m \in Bad : \A i \in Bad : m <= i
  <2>1. Bad \subseteq Nat
    OBVIOUS
  <2> HIDE DEF Bad
  <2> QED
    BY <2>1, LeastNat
<1>3. m # 0
  <2>1. h[0] = from
    BY HopIs
  <2>2. 0 \notin Bad
    BY <1>1, <2>1
  <2> HIDE DEF Bad
  <2> QED
    BY <2>2
<1>4. m - 1 \in 0 .. Top - k /\ m - 1 \notin Bad /\ m - 1 + 1 = m /\ m - 1 \in Nat
  <2>1. m \in Nat /\ m <= Top - k /\ Top - k \in Nat
    BY <1>1, <1>2
  <2> HIDE DEF k
  <2>2. m - 1 \in 0 .. Top - k /\ m - 1 + 1 = m /\ m - 1 \in Nat /\ ~(m <= m - 1)
    BY <1>3, <2>1
  <2> HIDE DEF Bad
  <2> QED
    BY <1>2, <2>2
<1>5. slots[h[m - 1]].seq = k + (m - 1) /\ h[m - 1] \in Pos
  BY <1>4, HopIs
<1>6. h[m - 1] # Wp
  BY <1>1, <1>2, <1>5 DEF Top, Wp
<1>7. slots[h[m]].seq = k + (m - 1) + 1
  <2>1. h[m] = slots[h[m - 1]].next
    BY <1>4, HopIs
  <2>2. slots[h[m - 1]].seq > 0
    BY <1>1, <1>4, <1>5
  <2> HIDE DEF h
  <2> QED
    BY <1>5, <1>6, <2>1, <2>2 DEF Ring
<1> QED
  BY <1>1, <1>2, <1>7

(* No two packets of the ring are of the same number, so there are no more
   than slots. *)
LEMMA RingHolds ==
  ASSUME TypeOK, Ring, NEW from \in Pos, slots[from].seq > 0
  PROVE  Top - slots[from].seq <= nslots - 1
<1> DEFINE k == slots[from].seq
           h == Hop(from)
           S == k .. Top
           f == [m \in S |-> h[m - k]]
<1>1. k \in Nat /\ Top \in Nat /\ k <= Top /\ nslots \in Nat \ {0} /\ Pos = 0 .. nslots - 1
  BY SlotTypes DEF Ring
<1>2. IsFiniteSet(S) /\ Cardinality(S) = Top - k + 1
  <2> HIDE DEF k
  <2>1. k \in Int /\ Top \in Int /\ ~(k > Top)
    BY <1>1
  <2> QED
    BY <2>1, FS_Interval
<1>3. IsFiniteSet(Pos) /\ Cardinality(Pos) = nslots
  <2>1. 0 \in Int /\ nslots - 1 \in Int /\ ~(0 > nslots - 1) /\ nslots - 1 - 0 + 1 = nslots
    BY <1>1
  <2>2. /\ IsFiniteSet(0 .. nslots - 1)
        /\ Cardinality(0 .. nslots - 1) = IF 0 > nslots - 1 THEN 0 ELSE nslots - 1 - 0 + 1
    BY <2>1, FS_Interval, Zenon
  <2> QED
    BY <1>1, <2>1, <2>2
<1>4. \A m \in S : m - k \in 0 .. Top - k /\ m - k \in Nat
  BY <1>1
<1>5. f \in [S -> Pos]
  BY <1>4, HopIs
<1>6. \A m \in S : slots[f[m]].seq = m
  BY <1>1, <1>4, HopSeq
<1> SUFFICES ASSUME Cardinality(Pos) < Cardinality(S) PROVE FALSE
  BY <1>1, <1>2, <1>3
<1> HIDE DEF f, S
<1>7. PICK x \in S, y \in S : x # y /\ f[x] = f[y]
  BY <1>2, <1>3, <1>5, FS_PigeonHole
<1> QED
  BY <1>6, <1>7

(* The slots on which a new consumer takes a reference. *)
LEMMA ChainIs ==
  ASSUME TypeOK, Ring, NEW from \in Pos, slots[from].seq > 0
  PROVE  Chain(from, Wp) = {s \in Pos : slots[s].seq >= slots[from].seq}
<1> DEFINE k == slots[from].seq
           h == Hop(from)
<1>1. /\ k \in Nat /\ Top \in Nat /\ k <= Top /\ nslots \in Nat /\ Wp \in Pos
      /\ Top - k <= nslots - 1 /\ slots[Wp].seq = Top /\ k > 0
      /\ \A s \in Pos : slots[s].seq \in Nat /\ slots[s].seq <= Top
  BY SlotTypes, RingHolds DEF Ring, Top, Wp
<1>2. h \in [Nat -> Pos] /\ \A n \in 0 .. Top - k : slots[h[n]].seq = k + n
  BY HopIs, HopSeq
<1>3. \A s, t \in Pos : slots[s].seq = slots[t].seq /\ slots[s].seq > 0 => s = t
  BY DEF Ring
<1> HIDE DEF k, h
<1>4. ASSUME NEW s \in Pos, NEW n \in 0 .. nslots - 1, s = h[n], \A j \in 0 .. n - 1 : h[j] # Wp
      PROVE  slots[s].seq >= k
  <2>1. CASE n <= Top - k
    BY <1>1, <1>2, <1>4, <2>1
  <2>2. CASE n > Top - k
    <3>1. Top - k \in 0 .. n - 1 /\ Top - k \in 0 .. Top - k /\ Top - k \in Nat
      BY <1>1, <2>2
    <3>2. slots[h[Top - k]].seq = Top /\ h[Top - k] \in Pos
      BY <1>1, <1>2, <3>1
    <3> QED
      BY <1>1, <1>3, <1>4, <3>1, <3>2
  <2> QED
    BY <1>1, <2>1, <2>2
<1>5. ASSUME NEW s \in Pos, slots[s].seq >= k
      PROVE  \E n \in 0 .. nslots - 1 : s = h[n] /\ \A j \in 0 .. n - 1 : h[j] # Wp
  <2> DEFINE n == slots[s].seq - k
  <2>1. slots[s].seq \in Nat /\ slots[s].seq <= Top
    BY <1>1
  <2>2. n \in 0 .. nslots - 1 /\ n \in 0 .. Top - k /\ n \in Nat
    BY <1>1, <1>5, <2>1
  <2>3. slots[h[n]].seq = slots[s].seq /\ h[n] \in Pos
    BY <1>1, <1>2, <2>1, <2>2
  <2>4. s = h[n]
    BY <1>1, <1>3, <1>5, <2>1, <2>3
  <2>5. ASSUME NEW j \in 0 .. n - 1 PROVE h[j] # Wp
    <3>1. j \in 0 .. Top - k /\ k + j < Top
      BY <1>1, <2>1
    <3>2. slots[h[j]].seq = k + j
      BY <1>2, <3>1
    <3> QED
      BY <1>1, <3>1, <3>2
  <2> QED
    BY <2>2, <2>4, <2>5
<1> QED
  BY <1>4, <1>5 DEF Chain, h, k

(* valid_read_pos is pushed away from the slot that is about to be reused. *)
LEMMA PushMoves ==
  ASSUME TypeOK, Ring, slots[Following].seq > 0, NEW to \in Pos, Pushed(Following, to)
  PROVE  to # Following /\ slots[to].seq > 0
<1> DEFINE k == slots[Following].seq
           h == Hop(Following)
<1>1. PICK n \in 0 .. nslots - 1 :
        to = h[n] /\ PushStops(Following, to) /\ \A j \in 0 .. n - 1 : ~PushStops(Following, h[j])
  BY DEF Pushed
<1>2. /\ nslots \in Nat /\ Following \in Pos /\ Wp \in Pos /\ k \in Nat /\ k > 0
      /\ \A s \in Pos : slots[s].seq \in Nat /\ slots[s].next \in Pos
  BY SlotTypes
<1>3. h \in [Nat -> Pos] /\ h[0] = Following /\ \A i \in Nat : h[i + 1] = slots[h[i]].next
  BY <1>2, HopIs
<1>4. n # 0
  <2>1. Following # Wp
    BY <1>2 DEF Ring, Following
  <2>2. slots[slots[Following].next].seq = k + 1
    BY <1>2, <2>1 DEF Ring
  <2>3. ~PushStops(Following, Following)
    BY <1>2, <2>2 DEF PushStops
  <2> QED
    BY <1>1, <1>3, <2>3
<1> DEFINE Bad == {i \in 0 .. n : ~(slots[h[i]].seq >= k + i)}
<1>5. Bad = {}
  <2> SUFFICES ASSUME Bad # {} PROVE FALSE
    OBVIOUS
  <2>1. PICK m \in Bad : \A i \in Bad : m <= i
    <3>1. Bad \subseteq Nat
      OBVIOUS
    <3> HIDE DEF Bad
    <3> QED
      BY <3>1, LeastNat
  <2>2. m # 0
    BY <1>2, <1>3
  <2>3. m - 1 \in 0 .. n - 1 /\ m - 1 \in 0 .. n /\ m - 1 \in Nat /\ m - 1 + 1 = m /\ m - 1 \notin Bad
    BY <1>2, <2>1, <2>2
  <2>4. h[m - 1] \in Pos /\ slots[h[m - 1]].seq >= k + (m - 1)
    BY <1>3, <2>3
  <2>5. ~PushStops(Following, h[m - 1])
    BY <1>1, <2>3
  <2>6. slots[slots[h[m - 1]].next].seq > slots[h[m - 1]].seq
    BY <1>2, <2>4, <2>5 DEF PushStops
  <2>7. h[m] = slots[h[m - 1]].next
    BY <1>3, <2>3
  <2> HIDE DEF h
  <2>8. slots[h[m]].seq >= k + m
    BY <1>2, <2>1, <2>4, <2>6, <2>7
  <2> QED
    BY <2>1, <2>8
<1>6. slots[to].seq >= k + n
  BY <1>1, <1>2, <1>5
<1> QED
  BY <1>1, <1>2, <1>4, <1>6

-----------------------------------------------------------------------------
LEMMA RingFacts ==
  ASSUME TypeOK, Ring
  PROVE  /\ Following # Wp /\ slots[Wp].seq = Top
         /\ \A s \in Pos : slots[s].seq \in 0 .. Top
         /\ Empty # {} => slots[Following].seq = 0
         /\ slots[Following].seq > 0 =>
              Empty = {} /\ Oldest = Following /\ \A s \in Pos : slots[Following].seq <= slots[s].seq
         /\ Oldest \in Pos
<1>1. /\ nslots \in Nat \ {0} /\ Pos = 0 .. nslots - 1 /\ Following \in Pos /\ Wp \in Pos /\ Top \in Nat
      /\ \A s \in Pos : slots[s].seq \in Nat /\ slots[s].next \in Pos
  BY SlotTypes
<1>2. Following # Wp /\ slots[Wp].seq = Top
  BY <1>1 DEF Ring, Following, Top, Wp
<1>3. \A s \in Pos : slots[s].seq \in 0 .. Top
  BY <1>1 DEF Ring
<1>4. ASSUME Empty # {} PROVE slots[Following].seq = 0
  <2>1. Empty = Following .. nslots - 1
    BY <1>4 DEF Ring
  <2>2. Following \in Following .. nslots - 1
    BY <1>1
  <2> QED
    BY <2>1, <2>2 DEF Empty
<1>5. ASSUME slots[Following].seq > 0
      PROVE  Empty = {} /\ Oldest = Following /\ \A s \in Pos : slots[Following].seq <= slots[s].seq
  <2>1. Empty = {}
    BY <1>4, <1>5
  <2>2. Oldest = Following
    BY <2>1 DEF Oldest
  <2>3. \A s \in Pos \ Empty : slots[Oldest].seq \in 1 .. slots[s].seq
    BY DEF Ring
  <2>4. \A s \in Pos : slots[Following].seq <= slots[s].seq
    BY <1>1, <2>1, <2>2, <2>3
  <2> QED
    BY <2>1, <2>2, <2>4
<1>6. Oldest \in Pos
  <2>1. nslots - 1 \in Pos
    BY <1>1
  <2> QED
    BY <1>1, <2>1 DEF Oldest
<1> QED
  BY <1>2, <1>3, <1>4, <1>5, <1>6

(* The packet a consumer is due is in the ring, or the next to be written. *)
LEMMA DueFacts ==
  ASSUME TypeOK, Ring, NEW c \in Consumers, Reads(c)
  PROVE  /\ Due(c) \in 1 .. Top + 1
         /\ Due(c) <= Top => \E s \in Pos : slots[s].seq = Due(c)
         /\ cons[c].last_read_pos = None =>
              Due(c) = IF slots[cons[c].read_pos].seq > 0 THEN slots[cons[c].read_pos].seq ELSE Top + 1
         /\ cons[c].last_read_pos # None => Due(c) = cons[c].last_seq + 1
<1> DEFINE k == cons[c]
<1>1. /\ k.read_pos \in Pos /\ k.last_seq \in Nat /\ (k.last_read_pos # None => k.last_read_pos \in Pos)
  BY DEF TypeOK
<1>2. \A s \in Pos : slots[s].seq \in 0 .. Top /\ slots[s].next \in Pos /\ Top \in Nat
  BY RingFacts, SlotTypes
<1>3. CASE k.last_read_pos = None
  BY <1>1, <1>2, <1>3 DEF Due
<1>4. CASE k.last_read_pos # None
  <2>1. Due(c) = k.last_seq + 1 /\ k.last_seq \in 1 .. Top
    BY <1>4 DEF Due, Reads
  <2>2. CASE k.last_seq = Top
    BY <1>2, <1>4, <2>1, <2>2
  <2>3. CASE k.last_seq # Top
    <3>1. InPlace(c) \/ Jumps(c)
      BY <1>4, <2>3 DEF Reads
    <3> QED
      BY <1>1, <1>2, <1>4, <2>1, <3>1 DEF InPlace, Jumps
  <2> QED
    BY <2>2, <2>3
<1> QED
  BY <1>3, <1>4

LEMMA ReadersFinite ==
  ASSUME NEW s PROVE /\ Readers(s) \subseteq Consumers /\ IsFiniteSet(Readers(s))
                     /\ Cardinality(Readers(s)) \in Nat
                     /\ Cardinality(Readers(s)) = 0 <=> Readers(s) = {}
<1>1. Readers(s) \subseteq Consumers
  BY DEF Readers, Attached
<1>2. IsFiniteSet(Readers(s))
  BY <1>1, ConsumersAssumption, FS_Subset, Zenon
<1> QED
  BY <1>1, <1>2, FS_CardinalityType, FS_EmptySet, Zenon

(* A slot has references as long as somebody has still to read it. *)
LEMMA Referenced ==
  ASSUME TypeOK, RefsAre, NEW s \in Pos
  PROVE  /\ slots[s].refs > 0 <=> \E c \in Attached : slots[s].seq >= Due(c) /\ slots[s].seq > 0
         /\ slots[s].refs = 0 <=> \A c \in Attached : ~(slots[s].seq >= Due(c) /\ slots[s].seq > 0)
<1>1. slots[s].refs = Cardinality(Readers(s))
  BY DEF RefsAre
<1>2. slots[s].refs = 0 <=> Readers(s) = {}
  BY <1>1, ReadersFinite
<1>3. slots[s].refs \in Nat
  BY SlotTypes
<1>4. slots[s].refs > 0 <=> Readers(s) # {}
  BY <1>2, <1>3
<1> QED
  BY <1>2, <1>4 DEF Readers

(* OMSbuff_getreader and its copies select the packet a consumer is due, and
   nothing when it has read all there are.  (While a slot of a page is filled a
   consumer may have that slot behind the one it read last.) *)
LEMMA ReaderCorrect ==
  ASSUME TypeOK, Ring, RefsAre, NEW c \in Attached, Reads(c), th.pc # "fill"
  PROVE  IF Due(c) = Top + 1 THEN Reader(cons[c]) = None
         ELSE Reader(cons[c]) \in Pos /\ slots[Reader(cons[c])].seq = Due(c)
<1> DEFINE k == cons[c]
           here == slots[k.read_pos]
<1>0. c \in Consumers
  BY DEF Attached
<1>1. /\ k.read_pos \in Pos /\ k.last_seq \in Nat /\ (k.last_read_pos # None => k.last_read_pos \in Pos)
  BY <1>0 DEF TypeOK
<1>2. \A s \in Pos : slots[s].seq \in 0 .. Top /\ slots[s].next \in Pos /\ Top \in Nat
  BY RingFacts, SlotTypes
<1>3. \A s, t \in Pos : slots[s].seq = slots[t].seq /\ slots[s].seq > 0 => s = t
  BY DEF Ring
<1>4. Due(c) \in 1 .. Top + 1
  BY <1>0, DueFacts
<1>5. \A s \in Pos : slots[s].seq >= Due(c) => slots[s].refs > 0
  BY <1>2, <1>4, Referenced
<1>6. CASE k.last_read_pos = None
  <2>1. k.last_seq = 0 /\ Due(c) = IF here.seq > 0 THEN here.seq ELSE Top + 1
    BY <1>0, <1>6, DueFacts DEF Reads, Fresh
  <2>2. CASE here.seq = 0
    <3>1. here.refs = 0
      BY <1>1, <2>2, Referenced
    <3> QED
      BY <1>2, <1>6, <2>1, <2>2, <3>1 DEF Reader
  <2>3. CASE here.seq # 0
    <3>1. here.seq > 0 /\ here.seq <= Top /\ here.seq \in Nat /\ Due(c) = here.seq /\ Top \in Nat
      BY <1>1, <1>2, <2>1, <2>3
    <3>2. here.refs > 0
      BY <1>1, <1>5, <3>1
    <3>3. Reader(k) = k.read_pos
      BY <1>6, <2>1, <3>1, <3>2 DEF Reader
    <3> QED
      BY <1>1, <3>1, <3>3
  <2> QED
    BY <2>2, <2>3
<1>7. CASE k.last_read_pos # None
  <2> DEFINE added == slots[k.last_read_pos].next
  <2>0. /\ Due(c) = k.last_seq + 1 /\ k.last_seq \in 1 .. Top /\ added \in Pos
        /\ After(k) = slots[added]
    BY <1>0, <1>1, <1>2, <1>7, DueFacts DEF Reads, After
  <2>1. CASE k.last_seq = Top
    <3>1. k.last_read_pos = Wp /\ k.read_pos = Following /\ k.read_pos # Wp
      BY <1>7, <2>1 DEF Reads, CaughtUp, OnPage
    <3>2. added = k.read_pos
      BY <3>1 DEF Following, Wp
    <3>3. here.seq < Top
      <4>1. here.seq # Top
        BY <1>1, <1>2, <1>3, <2>0, <2>1, <3>1, RingFacts, SlotTypes
      <4> QED
        BY <1>1, <1>2, <4>1
    <3>4. Reader(k) = None
      BY <1>1, <1>2, <2>0, <2>1, <3>2, <3>3 DEF Reader
    <3> QED
      BY <2>0, <2>1, <3>4
  <2>2. CASE k.last_seq # Top
    <3>0. Due(c) \in 1 .. Top /\ Due(c) # Top + 1
      BY <1>2, <1>1, <2>0, <2>2
    <3>1. CASE InPlace(c)
      <4>1. here.seq = k.last_seq + 1 /\ slots[added].seq > k.last_seq
        BY <3>1 DEF InPlace, OnPage
      <4>2. here.refs > 0
        BY <1>1, <1>2, <1>5, <2>0, <4>1
      <4>3. Reader(k) = k.read_pos
        BY <1>1, <1>2, <2>0, <4>1, <4>2 DEF Reader
      <4> QED
        BY <1>1, <2>0, <3>0, <4>1, <4>3
    <3>2. CASE Jumps(c)
      <4>1. /\ slots[added].seq = k.last_seq + 1 /\ slots[k.last_read_pos].seq = k.last_seq
            /\ k.read_pos # k.last_read_pos
        BY <3>2 DEF Jumps
      <4>2. slots[added].refs > 0
        BY <1>2, <1>5, <2>0, <4>1
      <4>3. CASE here.refs = 0 \/ here.seq < k.last_seq
        <5>1. Reader(k) = added
          BY <1>1, <1>2, <1>7, <2>0, <4>1, <4>2, <4>3 DEF Reader
        <5> QED
          BY <2>0, <3>0, <4>1, <5>1
      <4>4. CASE ~(here.refs = 0 \/ here.seq < k.last_seq)
        <5>1. here.seq # k.last_seq
          BY <1>1, <1>2, <1>3, <1>7, <2>0, <4>1
        <5>2. CASE here.seq = k.last_seq + 1
          <6>1. Reader(k) = IF slots[added].seq < here.seq THEN added ELSE k.read_pos
            BY <1>7, <2>0, <4>4 DEF Reader
          <6> QED
            BY <1>1, <1>2, <2>0, <3>0, <4>1, <5>2, <6>1
        <5>3. CASE here.seq > k.last_seq + 1
          <6>1. Reader(k) = added
            BY <1>7, <2>0, <4>1, <4>4, <5>3 DEF Reader
          <6> QED
            BY <2>0, <3>0, <4>1, <6>1
        <5>4. here.seq \in Nat
          BY <1>1, <1>2
        <5> QED
          BY <1>1, <4>4, <5>1, <5>2, <5>3, <5>4
      <4> QED
        BY <4>3, <4>4
    <3> QED
      BY <1>7, <2>2, <3>1, <3>2 DEF Reads
  <2> QED
    BY <2>1, <2>2
<1> QED
  BY <1>6, <1>7

(* The reference counts tell whether a consumer that read nothing yet has a
   packet to read, so that Cursor, which looks at them, is what it is due. *)
LEMMA CursorIsDue ==
  ASSUME TypeOK, Ring, RefsAre, NEW c \in Attached, Reads(c)
  PROVE  Cursor(c) = Due(c)
<1> DEFINE s == cons[c].read_pos
<1>1. c \in Consumers /\ s \in Pos
  BY DEF Attached, TypeOK
<1>2. CASE cons[c].last_read_pos # None
  BY <1>2 DEF Cursor, Due
<1>3. CASE cons[c].last_read_pos = None
  <2>1. slots[s].seq \in Nat
    BY <1>1, SlotTypes
  <2>2. CASE slots[s].seq > 0
    <3>1. Due(c) = slots[s].seq
      BY <1>3, <2>2 DEF Due
    <3>2. slots[s].refs > 0
      BY <1>1, <2>1, <2>2, <3>1, Referenced
    <3> QED
      BY <1>3, <3>1, <3>2 DEF Cursor
  <2>3. CASE slots[s].seq = 0
    <3>1. slots[s].refs = 0
      BY <1>1, <2>3, Referenced
    <3> QED
      BY <1>3, <2>3, <3>1 DEF Cursor, Due
  <2> QED
    BY <2>1, <2>2, <2>3
<1> QED
  BY <1>2, <1>3

-----------------------------------------------------------------------------
(* What does not touch the order of the ring: everything but a commit and a new
   page. *)
SameRing ==
  /\ nslots' = nslots /\ Wp' = Wp
  /\ \A s \in Pos : slots'[s].next = slots[s].next /\ slots'[s].seq = slots[s].seq

LEMMA SeqKept ==
  ASSUME TypeOK, [Next]_vars, ~GetSlotNewPage, ~Commit PROVE SameRing
<1>0. slots \in [Pos -> Slot]
  BY DEF TypeOK
<1>1. ASSUME NEW c, NEW s, Advance(c, s) PROVE \A t \in Pos : slots'[t].seq = slots[t].seq
  BY <1>0, <1>1 DEF Advance, Slot
<1>2. ASSUME NEW c \in Consumers, Ref(c) PROVE \A s \in Pos : slots'[s].seq = slots[s].seq
  <2>1. PICK mine : slots' = [s \in Pos |-> IF s \in mine
                                 THEN [slots[s] EXCEPT !.refs = (slots[s].refs + 1) % MaxRefs]
                                 ELSE slots[s]]
    BY <1>2 DEF Ref
  <2> QED
    BY <1>0, <2>1 DEF Slot
<1>3. ASSUME GotReader \/ Drain PROVE \A s \in Pos : slots'[s].seq = slots[s].seq
  BY <1>1, <1>3 DEF GotReader, Drain
<1>4. ASSUME \/ SendAgain \/ GetSlotReuse \/ NoCommit \/ NextTs \/ UNCHANGED vars
             \/ \E c \in Consumers : SendPacket(c) \/ Unref(c)
      PROVE  \A s \in Pos : slots'[s].seq = slots[s].seq
  BY <1>4 DEF SendAgain, GetSlotReuse, NoCommit, NextTs, vars, SendPacket, Unref
<1>5. \A s \in Pos : slots'[s].seq = slots[s].seq
  BY <1>2, <1>3, <1>4 DEF Next, Send
<1> QED
  BY <1>5, RingKept DEF SameRing, nslots, Wp

LEMMA Unmoved ==
  ASSUME TypeOK, SameRing
  PROVE  /\ nslots' = nslots /\ Pos' = Pos /\ Wp' = Wp /\ Top' = Top
         /\ Following' = Following /\ Empty' = Empty /\ Oldest' = Oldest
         /\ \A c \in Consumers : cons'[c] = cons[c] => Due(c)' = Due(c)
<1>1. nslots' = nslots /\ Wp' = Wp /\ Wp \in Pos /\ nslots - 1 \in Pos
  BY SlotTypes DEF SameRing
<1>2. Pos' = Pos
  BY <1>1 DEF Pos
<1>3. Top' = Top /\ Following' = Following
  BY <1>1 DEF SameRing, Top, Following, Wp
<1>4. Empty' = Empty
  BY <1>2 DEF SameRing, Empty
<1>5. Oldest' = Oldest
  BY <1>1, <1>3, <1>4 DEF SameRing, Oldest
<1>6. ASSUME NEW c \in Consumers, cons'[c] = cons[c] PROVE Due(c)' = Due(c)
  <2>1. cons[c].read_pos \in Pos
    BY DEF TypeOK
  <2> QED
    BY <1>3, <1>6, <2>1 DEF Due, SameRing
<1> QED
  BY <1>1, <1>2, <1>3, <1>4, <1>5, <1>6

LEMMA RingSame ==
  ASSUME TypeOK, Ring, SameRing PROVE Ring'
<1>1. /\ nslots' = nslots /\ Pos' = Pos /\ Wp' = Wp /\ Top' = Top
      /\ Following' = Following /\ Empty' = Empty /\ Oldest' = Oldest
  BY Unmoved
<1>2. \A s \in Pos : slots'[s].next = slots[s].next /\ slots'[s].seq = slots[s].seq /\ slots[s].next \in Pos
  BY SlotTypes DEF SameRing
<1>3. Oldest \in Pos
  BY RingFacts
<1>4. nslots' >= NSlots
  BY <1>1 DEF Ring
<1>5. \A s \in Pos' : slots'[s].next # s /\ slots'[s].seq <= Top'
  BY <1>1, <1>2 DEF Ring
<1>6. \A s \in Pos' : s # Wp' /\ slots'[s].seq > 0 => slots'[slots'[s].next].seq = slots'[s].seq + 1
  BY <1>1, <1>2 DEF Ring
<1>7. \A s, t \in Pos' : slots'[s].seq = slots'[t].seq /\ slots'[s].seq > 0 => s = t
  BY <1>1, <1>2 DEF Ring
<1>8. Empty' = {} \/ Empty' = Following' .. nslots' - 1
  BY <1>1 DEF Ring
<1>9. \A s \in Empty' : s + 1 \in Pos' => slots'[s].next = s + 1
  BY <1>1, <1>2 DEF Ring, Empty
<1>10. \A s \in Pos' \ Empty' : slots'[Oldest'].seq \in 1 .. slots'[s].seq
  BY <1>1, <1>2, <1>3 DEF Ring
<1>11. \A s \in Pos' \ Empty' : \A m \in slots'[s].seq .. Top' : \E t \in Pos' : slots'[t].seq = m
  BY <1>1, <1>2 DEF Ring
<1>12. Empty' = {} \/ nslots' = NSlots \/ Following' >= NSlots
  BY <1>1 DEF Ring
<1> QED
  BY <1>4, <1>5, <1>6, <1>7, <1>8, <1>9, <1>10, <1>11, <1>12 DEF Ring

(* A consumer whose positions are left alone still finds its packet there. *)
LEMMA ReadsSame ==
  ASSUME TypeOK, Ring, SameRing, NEW c \in Consumers, cons'[c] = cons[c], Reads(c),
         OnPage => OnPage' /\ th'.s = th.s /\ th'.c = th.c,
         slots[Oldest].refs > 0 => slots'[Oldest].refs > 0,
         cons[c].last_read_pos # None /\ Jumps(c) => Jumps(c)'
  PROVE  Reads(c)'
<1> DEFINE k == cons[c]
<1>1. /\ k.read_pos \in Pos /\ (k.last_read_pos # None => k.last_read_pos \in Pos)
  BY DEF TypeOK
<1>2. \A s \in Pos : slots'[s].next = slots[s].next /\ slots'[s].seq = slots[s].seq /\ slots[s].next \in Pos
  BY SlotTypes DEF SameRing
<1>3. Wp' = Wp /\ Top' = Top /\ Following' = Following /\ Oldest' = Oldest
  BY Unmoved
<1>4. CASE k.last_read_pos = None
  <2>1. Fresh(c)
    BY <1>4 DEF Reads
  <2>2. Fresh(c)'
    BY <1>1, <1>2, <1>3, <2>1 DEF Fresh
  <2> QED
    BY <1>4, <2>2 DEF Reads
<1>5. CASE k.last_read_pos # None
  <2>1. k.last_seq \in 1 .. Top
    BY <1>5 DEF Reads
  <2>2. CASE k.last_seq = Top
    <3>1. CaughtUp(c)
      BY <1>5, <2>2 DEF Reads
    <3>2. CaughtUp(c)'
      BY <1>3, <3>1 DEF CaughtUp
    <3> QED
      BY <1>3, <1>5, <2>1, <2>2, <3>2 DEF Reads
  <2>3. CASE k.last_seq # Top
    <3>1. InPlace(c) \/ Jumps(c)
      BY <1>5, <2>3 DEF Reads
    <3>2. InPlace(c) => InPlace(c)'
      BY <1>1, <1>2, <1>5 DEF InPlace
    <3> QED
      BY <1>3, <1>5, <2>1, <2>3, <3>1, <3>2 DEF Reads
  <2> QED
    BY <2>2, <2>3
<1> QED
  BY <1>4, <1>5

(* OMSbuff_gotreader leaves the consumer behind the packet it passes. *)
LEMMA AdvanceReads ==
  ASSUME TypeOK, Ring, SameRing, NEW c \in Consumers, NEW s \in Pos, slots[s].seq > 0,
         cons'[c] = [read_pos |-> slots[s].next, last_read_pos |-> s, last_seq |-> slots[s].seq]
  PROVE  Reads(c)' /\ Due(c)' = slots[s].seq + 1
<1>1. \A t \in Pos : slots'[t].next = slots[t].next /\ slots'[t].seq = slots[t].seq /\ slots[t].next \in Pos
  BY SlotTypes DEF SameRing
<1>2. Wp' = Wp /\ Top' = Top /\ Following' = Following /\ Wp \in Pos /\ Top \in Nat /\ slots[Wp].seq = Top
  BY Unmoved, SlotTypes, RingFacts
<1>3. slots[s].seq \in 1 .. Top
  BY RingFacts, SlotTypes
<1>4. s # None
  BY SlotTypes DEF None
<1>5. CASE slots[s].seq = Top
  <2>1. s = Wp
    BY <1>2, <1>3, <1>5 DEF Ring
  <2>2. slots[s].next = Following /\ Following # Wp
    BY <2>1, RingFacts DEF Following
  <2>3. CaughtUp(c)'
    BY <1>2, <2>1, <2>2 DEF CaughtUp
  <2> QED
    BY <1>2, <1>3, <1>4, <1>5, <2>3 DEF Reads, Due
<1>6. CASE slots[s].seq # Top
  <2>1. s # Wp
    BY <1>2, <1>6
  <2>2. slots[slots[s].next].seq = slots[s].seq + 1
    BY <2>1 DEF Ring
  <2>3. InPlace(c)'
    BY <1>1, <1>3, <2>2 DEF InPlace
  <2> QED
    BY <1>2, <1>3, <1>4, <1>6, <2>3 DEF Reads, Due
<1> QED
  BY <1>5, <1>6

LEMMA RefsSame ==
  ASSUME TypeOK, SameRing, RefsAre, Attached' = Attached,
         \A c \in Attached : cons'[c] = cons[c], \A s \in Pos : slots'[s].refs = slots[s].refs
  PROVE  RefsAre'
<1>1. Pos' = Pos /\ \A c \in Attached : Due(c)' = Due(c)
  BY Unmoved DEF Attached
<1>2. ASSUME NEW s \in Pos PROVE Readers(s)' = Readers(s)
  BY <1>1 DEF Readers, SameRing
<1> QED
  BY <1>1, <1>2 DEF RefsAre

(* ... and takes its reference on that packet away, and no other. *)
LEMMA AdvanceRefs ==
  ASSUME TypeOK, Ring, SameRing, RefsAre, Attached' = Attached, NEW c \in Attached, NEW s \in Pos,
         Reads(c), slots[s].seq = Due(c), Advance(c, s)
  PROVE  RefsAre'
<1>0. c \in Consumers /\ Attached \subseteq Consumers
  BY DEF Attached
<1>1. Due(c) \in 1 .. Top + 1
  BY <1>0, DueFacts
<1>2. slots[s].refs \in 0 .. MaxRefs - 1 /\ slots \in [Pos -> Slot] /\ MaxRefs \in Nat
  BY SlotTypes, MaxRefsPositive
<1>3. slots' = [slots EXCEPT ![s] = [slots[s] EXCEPT !.refs = (slots[s].refs - 1) % MaxRefs]]
  BY DEF Advance
<1>4. slots[s].refs > 0
  BY <1>1, <1>2, Referenced, SlotTypes
<1>5. (slots[s].refs - 1) % MaxRefs = slots[s].refs - 1
  BY <1>2, <1>4
<1>6. \A t \in Pos : slots'[t].refs = IF t = s THEN slots[s].refs - 1 ELSE slots[t].refs
  BY <1>2, <1>3, <1>5 DEF Slot
<1>7. cons'[c] = [read_pos |-> slots[s].next, last_read_pos |-> s, last_seq |-> slots[s].seq]
      /\ \A d \in Consumers : d # c => cons'[d] = cons[d]
  BY <1>0 DEF Advance, TypeOK
<1>8. Due(c)' = Due(c) + 1
  BY <1>0, <1>1, <1>7, AdvanceReads
<1>9. \A d \in Attached : d # c => Due(d)' = Due(d)
  BY <1>0, <1>7, Unmoved
<1>10. \A t \in Pos : slots'[t].seq = slots[t].seq /\ slots[t].seq \in Nat
  BY SlotTypes DEF SameRing
<1>11. \A t \in Pos : slots[t].seq = Due(c) => t = s
  BY <1>1 DEF Ring
<1>12. ASSUME NEW t \in Pos
       PROVE  Readers(t)' = IF t = s THEN Readers(t) \ {c} ELSE Readers(t)
  <2>1. \A d \in Attached : (slots'[t].seq >= Due(d)' /\ slots'[t].seq > 0) <=>
          (slots[t].seq >= Due(d) /\ slots[t].seq > 0) /\ ~(t = s /\ d = c)
    BY <1>1, <1>8, <1>9, <1>10, <1>11
  <2> HIDE DEF Due
  <2> QED
    BY <2>1 DEF Readers
<1>13. c \in Readers(s)
  BY <1>1 DEF Readers
<1>14. Cardinality(Readers(s) \ {c}) = Cardinality(Readers(s)) - 1
  BY <1>13, ReadersFinite, FS_RemoveElement, Zenon
<1>15. Pos' = Pos
  BY Unmoved
<1> QED
  BY <1>6, <1>12, <1>14, <1>15 DEF RefsAre

-----------------------------------------------------------------------------
(* Steps that leave the positions and the references alone. *)
(* RTP_send_packet looks for the first packet of its session. *)
LEMMA SendPacketStep ==
  ASSUME IInv, RInv, NEW c \in Consumers, SendPacket(c) PROVE RInv'
<1>0. TypeOK /\ Ring /\ RefsAre /\ WorksForAttached
  BY DEF IInv, RInv
<1>1. th.pc = "idle" /\ slots' = slots /\ control' = control /\ cons' = cons /\ state' = state
  BY DEF SendPacket
<1>2. SameRing
  BY <1>1 DEF SameRing, nslots, Wp
<1>3. Attached' = Attached /\ c \in Attached
  BY <1>1 DEF Attached, SendPacket
<1>4. /\ th' = [pc |-> IF Reader(cons[c]) # None THEN "send" ELSE "getslot", c |-> c, s |-> Reader(cons[c])]
  BY <1>1 DEF SendPacket, GetReader
<1>5. Ring'
  BY <1>0, <1>2, RingSame
<1>6. /\ Pos' = Pos /\ Top' = Top /\ Following' = Following /\ Oldest' = Oldest
      /\ \A d \in Consumers : Due(d)' = Due(d)
  BY <1>0, <1>1, <1>2, Unmoved
<1>7. Vrp'
  <2>1. th'.pc # "fill"
    BY <1>4
  <2> QED
    BY <1>1, <1>6, <2>1 DEF RInv, Vrp
<1>8. RefsAre'
  BY <1>0, <1>1, <1>2, <1>3, RefsSame
<1>9. \A d \in Attached' : Reads(d)'
  <2>1. ~OnPage /\ \A d \in Attached : ~Jumps(d)
    BY <1>1 DEF OnPage, Jumps
  <2>2. \A d \in Attached : Reads(d) /\ d \in Consumers
    BY DEF RInv, Attached
  <2> QED
    BY <1>0, <1>1, <1>2, <1>3, <1>6, <2>1, <2>2, ReadsSame
<1>10. Phase'
  <2>1. /\ Reads(c) /\ IF Due(c) = Top + 1 THEN Reader(cons[c]) = None
                       ELSE Reader(cons[c]) \in Pos /\ slots[Reader(cons[c])].seq = Due(c)
    BY <1>0, <1>1, <1>3, ReaderCorrect DEF RInv
  <2>2. Due(c) \in 1 .. Top + 1 /\ Top \in Nat
    BY <1>0, <2>1, DueFacts, SlotTypes
  <2>3. None \notin Pos
    BY <1>0, SlotTypes DEF None
  <2>4. CASE Due(c) = Top + 1
    BY <1>4, <1>6, <2>1, <2>4 DEF Phase
  <2>5. CASE Due(c) # Top + 1
    <3>1. th'.pc = "send" /\ th'.c = c /\ th'.s = Reader(cons[c]) /\ Due(c) <= Top
      BY <1>4, <2>1, <2>2, <2>3, <2>5
    <3> QED
      BY <1>1, <1>6, <2>1, <2>5, <3>1 DEF Phase
  <2> QED
    BY <2>4, <2>5
<1> QED
  BY <1>5, <1>7, <1>8, <1>9, <1>10 DEF RInv

(* ... and for the next one, which is there if one was just made. *)
LEMMA SendAgainStep ==
  ASSUME IInv, RInv, SendAgain PROVE RInv'
<1> DEFINE c == th.c
<1>0. TypeOK /\ Ring /\ RefsAre /\ WorksForAttached
  BY DEF IInv, RInv
<1>1. th.pc = "reread" /\ slots' = slots /\ control' = control /\ cons' = cons /\ state' = state
  BY DEF SendAgain
<1>2. SameRing
  BY <1>1 DEF SameRing, nslots, Wp
<1>3. Attached' = Attached /\ c \in Attached /\ Attached \subseteq Consumers
  BY <1>0, <1>1 DEF Attached, WorksForAttached
<1>4. /\ th' = [pc |-> IF Reader(cons[c]) # None THEN "send" ELSE "idle", c |-> c, s |-> Reader(cons[c])]
  BY <1>1 DEF SendAgain, GetReader
<1>5. Ring'
  BY <1>0, <1>2, RingSame
<1>6. /\ Pos' = Pos /\ Top' = Top /\ Following' = Following /\ Oldest' = Oldest
      /\ \A d \in Consumers : Due(d)' = Due(d)
  BY <1>0, <1>1, <1>2, Unmoved
<1>7. Vrp'
  <2>1. th'.pc # "fill"
    BY <1>4
  <2> QED
    BY <1>1, <1>6, <2>1 DEF RInv, Vrp
<1>8. RefsAre'
  BY <1>0, <1>1, <1>2, <1>3, RefsSame
<1>9. /\ Reads(c) /\ IF Due(c) = Top + 1 THEN Reader(cons[c]) = None
                     ELSE Reader(cons[c]) \in Pos /\ slots[Reader(cons[c])].seq = Due(c)
  BY <1>0, <1>1, <1>3, ReaderCorrect DEF RInv
<1>10. Due(c) \in 1 .. Top + 1 /\ Top \in Nat /\ None \notin Pos
  BY <1>0, <1>3, <1>9, DueFacts, SlotTypes DEF None
<1>11. ASSUME NEW d \in Attached PROVE Reads(d)'
  <2>1. ~OnPage /\ Reads(d) /\ d \in Consumers
    BY <1>1, <1>3 DEF OnPage, RInv
  <2>2. CASE ~Jumps(d)
    BY <1>0, <1>1, <1>2, <1>6, <2>1, <2>2, ReadsSame
  <2>3. CASE Jumps(d)
    <3>1. d = c
      BY <2>3 DEF Jumps
    <3>2. CASE cons[d].last_read_pos = None \/ cons[d].last_seq = Top
      <4>1. Wp' = Wp
        BY <1>0, <1>2, Unmoved
      <4>2. CASE cons[d].last_read_pos = None
        <5>1. Fresh(d)'
          BY <1>1, <1>6, <2>1, <4>2 DEF Reads, Fresh
        <5> QED
          BY <1>1, <4>2, <5>1 DEF Reads
      <4>3. CASE cons[d].last_read_pos # None /\ cons[d].last_seq = Top
        <5>1. CaughtUp(d)'
          BY <1>1, <1>6, <2>1, <4>1, <4>3 DEF Reads, CaughtUp
        <5>2. cons[d].last_seq \in 1 .. Top
          BY <2>1, <4>3 DEF Reads
        <5> QED
          BY <1>1, <1>6, <4>3, <5>1, <5>2 DEF Reads
      <4> QED
        BY <3>2, <4>2, <4>3
    <3>3. CASE ~(cons[d].last_read_pos = None \/ cons[d].last_seq = Top)
      <4>1. Due(c) # Top + 1
        BY <1>0, <2>1, <3>1, <3>3, <1>10, DueFacts DEF Reads
      <4>2. th'.pc = "send" /\ th'.c = c
        BY <1>4, <1>9, <1>10, <4>1
      <4>3. Jumps(d)'
        BY <1>1, <1>6, <2>3, <3>1, <4>2 DEF Jumps
      <4> QED
        BY <1>0, <1>1, <1>2, <1>6, <2>1, <4>3, ReadsSame
    <3> QED
      BY <3>2, <3>3
  <2> QED
    BY <2>2, <2>3
<1>12. Phase'
  <2>1. CASE Due(c) = Top + 1
    BY <1>4, <1>9, <2>1 DEF Phase
  <2>2. CASE Due(c) # Top + 1
    <3>1. th'.pc = "send" /\ th'.c = c /\ th'.s = Reader(cons[c]) /\ Due(c) <= Top
      BY <1>4, <1>9, <1>10, <2>2
    <3> QED
      BY <1>1, <1>3, <1>6, <1>9, <2>2, <3>1 DEF Phase
  <2> QED
    BY <2>1, <2>2
<1> QED
  BY <1>3, <1>5, <1>7, <1>8, <1>11, <1>12 DEF RInv

(* OMSbuff_getslot gives out a slot without readers and moves valid_read_pos
   off it. *)
LEMMA GetSlotReuseStep ==
  ASSUME IInv, RInv, GetSlotReuse PROVE RInv'
<1>0. TypeOK /\ Ring /\ RefsAre /\ Vrp /\ Phase
  BY DEF IInv, RInv
<1>1. /\ th.pc = "getslot" /\ slots' = slots /\ cons' = cons /\ state' = state
      /\ slots[Following].refs = 0 /\ th' = [th EXCEPT !.pc = "fill", !.s = Following]
  BY DEF GetSlotReuse, Following, Wp
<1>2. PICK to \in Pos :
         /\ IF slots[control.valid_read_pos].seq # 0 /\ control.valid_read_pos = Following
            THEN Pushed(Following, to) ELSE to = control.valid_read_pos
         /\ control' = [control EXCEPT !.valid_read_pos = to]
  BY Zenon DEF GetSlotReuse, Following, Wp
<1>3. control'.nslots = control.nslots /\ control'.write_pos = control.write_pos
      /\ control'.valid_read_pos = to /\ th'.pc = "fill" /\ th'.s = Following /\ th'.c = th.c
  BY <1>0, <1>1, <1>2 DEF TypeOK
<1>4. SameRing
  BY <1>1, <1>3 DEF SameRing, nslots, Wp
<1>5. Attached' = Attached /\ Attached \subseteq Consumers
  BY <1>1 DEF Attached
<1>6. Ring'
  BY <1>0, <1>4, RingSame
<1>7. /\ Pos' = Pos /\ Top' = Top /\ Following' = Following /\ Oldest' = Oldest /\ Empty' = Empty
      /\ \A d \in Consumers : Due(d)' = Due(d)
  BY <1>0, <1>1, <1>4, Unmoved
<1>8. Vrp'
  <2>1. slots[to].seq \in Nat /\ slots[Following].seq \in Nat
    BY <1>0, SlotTypes
  <2>2. CASE slots[control.valid_read_pos].seq # 0 /\ control.valid_read_pos = Following
    <3>1. to # Following /\ slots[to].seq > 0
      BY <1>0, <1>2, <2>1, <2>2, PushMoves
    <3> QED
      BY <1>1, <1>3, <1>7, <3>1 DEF Vrp
  <2>3. CASE ~(slots[control.valid_read_pos].seq # 0 /\ control.valid_read_pos = Following)
    BY <1>0, <1>1, <1>2, <1>3, <1>7, <2>1, <2>3 DEF Vrp
  <2> QED
    BY <2>2, <2>3
<1>9. RefsAre'
  BY <1>0, <1>1, <1>4, <1>5, RefsSame
<1>10. ASSUME NEW d \in Attached PROVE Reads(d)'
  <2>1. ~OnPage /\ Reads(d) /\ d \in Consumers
    BY <1>1, <1>5 DEF OnPage, RInv
  <2>2. Jumps(d) => Jumps(d)'
    <3> SUFFICES ASSUME Jumps(d) PROVE Jumps(d)'
      OBVIOUS
    <3>1. slots[Oldest].refs > 0 /\ (Empty = {} \/ Following >= NSlots)
      BY <1>1 DEF Jumps
    <3>2. Oldest # Following
      BY <1>1, <3>1
    <3>3. Empty # {} /\ Following >= NSlots
      BY <3>1, <3>2 DEF Oldest
    <3>4. slots[Following].seq = 0
      BY <1>0, <3>3, RingFacts
    <3>5. OnPage'
      BY <1>1, <1>3, <3>3, <3>4 DEF OnPage, OfNewPage
    <3> QED
      BY <1>1, <1>3, <1>7, <3>1, <3>5 DEF Jumps
  <2> QED
    BY <1>0, <1>1, <1>4, <1>7, <2>1, <2>2, ReadsSame
<1>11. Phase'
  <2>1. \A d \in Attached : cons[d].last_read_pos # None /\ cons[d].last_seq = Top => Due(th.c) = Top + 1
    BY <1>0, <1>1 DEF Phase
  <2>2. th.c \in Consumers
    BY <1>0 DEF TypeOK
  <2> QED
    BY <1>1, <1>3, <1>5, <1>7, <2>1, <2>2 DEF Phase
<1> QED
  BY <1>5, <1>6, <1>8, <1>9, <1>10, <1>11 DEF RInv

(* A slot of a page is not left empty: read_media fills it (FailsOnNewPage). *)
LEMMA NoCommitStep ==
  ASSUME IInv, RInv, NoCommit, ~FailsOnNewPage PROVE RInv'
<1>0. TypeOK /\ Ring /\ RefsAre /\ Vrp /\ WorksForAttached
  BY DEF IInv, RInv
<1>1. /\ th.pc = "fill" /\ slots' = slots /\ cons' = cons /\ control' = control
      /\ th'.pc \in {"reread", "idle"} /\ ~OnPage
  BY <1>0 DEF NoCommit, OnPage, TypeOK
<1>2. SameRing
  BY <1>1 DEF SameRing, nslots, Wp
<1>3. Attached' = Attached /\ Attached \subseteq Consumers
  BY <1>0 DEF NoCommit, Attached, WorksForAttached, TypeOK
<1>4. Ring'
  BY <1>0, <1>2, RingSame
<1>5. /\ Pos' = Pos /\ Top' = Top /\ Following' = Following /\ Oldest' = Oldest
      /\ \A d \in Consumers : Due(d)' = Due(d)
  BY <1>0, <1>1, <1>2, Unmoved
<1>6. Vrp'
  BY <1>0, <1>1, <1>5 DEF Vrp
<1>7. RefsAre'
  BY <1>0, <1>1, <1>2, <1>3, RefsSame
<1>8. \A d \in Attached : Reads(d)'
  <2>1. \A d \in Attached : ~Jumps(d)
    BY <1>1 DEF Jumps
  <2>2. \A d \in Attached : Reads(d) /\ d \in Consumers
    BY <1>3 DEF RInv
  <2> QED
    BY <1>0, <1>1, <1>2, <1>5, <2>1, <2>2, ReadsSame
<1>9. Phase'
  BY <1>1 DEF Phase
<1> QED
  BY <1>3, <1>4, <1>6, <1>7, <1>8, <1>9 DEF RInv

LEMMA NextTsStep ==
  ASSUME IInv, RInv, NextTs PROVE RInv'
<1>0. TypeOK /\ Ring /\ RefsAre /\ Vrp
  BY DEF IInv, RInv
<1>1. /\ th.pc = "sent" /\ slots' = slots /\ cons' = cons /\ control' = control /\ state' = state
      /\ th'.pc \in {"reread", "idle"}
  BY <1>0 DEF NextTs, TypeOK
<1>2. SameRing
  BY <1>1 DEF SameRing, nslots, Wp
<1>3. Attached' = Attached /\ Attached \subseteq Consumers
  BY <1>1 DEF Attached
<1>4. Ring'
  BY <1>0, <1>2, RingSame
<1>5. /\ Pos' = Pos /\ Top' = Top /\ Following' = Following /\ Oldest' = Oldest
  BY <1>0, <1>1, <1>2, Unmoved
<1>6. Vrp'
  BY <1>0, <1>1, <1>5 DEF Vrp
<1>7. RefsAre'
  BY <1>0, <1>1, <1>2, <1>3, RefsSame
<1>8. \A d \in Attached : Reads(d)'
  <2>1. ~OnPage /\ \A d \in Attached : ~Jumps(d) /\ Reads(d) /\ d \in Consumers
    BY <1>1, <1>3 DEF Jumps, OnPage, RInv
  <2> QED
    BY <1>0, <1>1, <1>2, <1>5, <2>1, ReadsSame
<1>9. Phase'
  BY <1>1 DEF Phase
<1> QED
  BY <1>3, <1>4, <1>6, <1>7, <1>8, <1>9 DEF RInv

LEMMA UnrefCounts ==
  ASSUME IInv, NEW c \in Consumers, Unref(c) PROVE control.refs > 0 /\ state' = state
<1>1. th.pc = "idle" /\ c \in Attached
  BY DEF Unref, Attached
<1>2. control.refs > 0
  <2>1. Attached \ Draining = Attached
    BY <1>1 DEF Draining
  <2>2. IsFiniteSet(Attached)
    <3>1. Attached \subseteq Consumers
      BY DEF Attached
    <3> QED
      BY <3>1, ConsumersAssumption, FS_Subset, Zenon
  <2>3. Cardinality(Attached) # 0 /\ Cardinality(Attached) \in Nat
    BY <1>1, <2>2, FS_EmptySet, FS_CardinalityType, Zenon
  <2> QED
    BY <2>1, <2>3 DEF IInv, ControlRefsExact
<1> QED
  BY <1>2 DEF Unref

(* OMSbuff_unref counts down first: the consumer is still to read what is left. *)
LEMMA UnrefStep ==
  ASSUME IInv, RInv, NEW c \in Consumers, Unref(c) PROVE RInv'
<1>0. TypeOK /\ Ring /\ RefsAre /\ Vrp /\ ControlRefsExact
  BY DEF IInv, RInv
<1>1. th.pc = "idle" /\ slots' = slots /\ cons' = cons /\ c \in Attached
  BY DEF Unref, Attached
<1>2. control.refs > 0
  BY UnrefCounts
<1>3. /\ state' = state /\ th'.pc = "drain" /\ control'.nslots = control.nslots
      /\ control'.write_pos = control.write_pos /\ control'.valid_read_pos = control.valid_read_pos
  BY <1>0, <1>2 DEF Unref, TypeOK
<1>4. SameRing
  BY <1>1, <1>3 DEF SameRing, nslots, Wp
<1>5. Attached' = Attached /\ Attached \subseteq Consumers
  BY <1>3 DEF Attached
<1>6. Ring'
  BY <1>0, <1>4, RingSame
<1>7. /\ Pos' = Pos /\ Top' = Top /\ Following' = Following /\ Oldest' = Oldest
  BY <1>0, <1>1, <1>4, Unmoved
<1>8. Vrp'
  BY <1>0, <1>1, <1>3, <1>7 DEF Vrp
<1>9. RefsAre'
  BY <1>0, <1>1, <1>4, <1>5, RefsSame
<1>10. \A d \in Attached : Reads(d)'
  <2>1. ~OnPage /\ \A d \in Attached : ~Jumps(d) /\ Reads(d) /\ d \in Consumers
    BY <1>1, <1>5 DEF Jumps, OnPage, RInv
  <2> QED
    BY <1>0, <1>1, <1>4, <1>7, <2>1, ReadsSame
<1>11. Phase'
  BY <1>3 DEF Phase
<1> QED
  BY <1>5, <1>6, <1>8, <1>9, <1>10, <1>11 DEF RInv

-----------------------------------------------------------------------------
(* A consumer passes its packet, after it was sent or while it is drained. *)
LEMMA AdvanceStep ==
  ASSUME IInv, RInv, NEW c \in Attached, NEW s \in Pos, Advance(c, s), slots[s].seq = Due(c),
         th.pc \in {"send", "drain"}, th'.pc \in {"sent", "drain"}, th.c = c,
         control' = control, state' = state
  PROVE  RInv'
<1>0. TypeOK /\ Ring /\ RefsAre /\ Vrp
  BY DEF IInv, RInv
<1>1. slots \in [Pos -> Slot] /\ slots' = [slots EXCEPT ![s] = [slots[s] EXCEPT !.refs = (slots[s].refs - 1) % MaxRefs]]
  BY <1>0 DEF TypeOK, Advance
<1>2. SameRing
  <2>1. \A t \in Pos : slots'[t].seq = slots[t].seq /\ slots'[t].next = slots[t].next
    BY <1>1 DEF Slot
  <2> QED
    BY <2>1 DEF SameRing, nslots, Wp
<1>3. Attached' = Attached /\ Attached \subseteq Consumers
  BY DEF Attached
<1>4. Ring'
  BY <1>0, <1>2, RingSame
<1>5. /\ Pos' = Pos /\ Top' = Top /\ Following' = Following /\ Oldest' = Oldest
  BY <1>0, <1>2, Unmoved
<1>6. Vrp'
  <2>1. control.valid_read_pos \in Pos
    BY <1>0, SlotTypes
  <2> QED
    BY <1>0, <1>2, <1>5, <2>1 DEF Vrp, SameRing
<1>7. Reads(c) /\ c \in Consumers
  BY <1>3 DEF RInv
<1>8. RefsAre'
  BY <1>0, <1>2, <1>3, <1>7, AdvanceRefs
<1>9. /\ cons'[c] = [read_pos |-> slots[s].next, last_read_pos |-> s, last_seq |-> slots[s].seq]
      /\ \A d \in Consumers : d # c => cons'[d] = cons[d]
  BY <1>0, <1>7 DEF Advance, TypeOK
<1>10. slots[s].seq > 0
  BY <1>0, <1>7, DueFacts, SlotTypes
<1>11. Reads(c)'
  BY <1>0, <1>2, <1>7, <1>9, <1>10, AdvanceReads
<1>12. ASSUME NEW d \in Attached, d # c PROVE Reads(d)'
  <2>1. d \in Consumers /\ Reads(d) /\ cons'[d] = cons[d] /\ ~OnPage /\ ~Jumps(d)
    BY <1>3, <1>9, <1>12 DEF RInv, OnPage, Jumps
  <2>2. CASE cons[d].last_read_pos = None
    <3>1. cons[d].read_pos \in Pos
      BY <1>0, <2>1 DEF TypeOK
    <3>2. Fresh(d)'
      BY <1>2, <1>5, <2>1, <2>2, <3>1 DEF Reads, Fresh, SameRing
    <3> QED
      BY <2>1, <2>2, <3>2 DEF Reads
  <2>3. CASE cons[d].last_read_pos # None /\ cons[d].last_seq = Top
    <3>1. CaughtUp(d)'
      BY <1>2, <1>5, <2>1, <2>3 DEF Reads, CaughtUp, SameRing
    <3>2. cons[d].last_seq \in 1 .. Top
      BY <2>1, <2>3 DEF Reads
    <3> QED
      BY <1>5, <2>1, <2>3, <3>1, <3>2 DEF Reads
  <2>4. CASE cons[d].last_read_pos # None /\ cons[d].last_seq # Top
    <3>1. InPlace(d) /\ cons[d].last_seq \in 1 .. Top
      BY <2>1, <2>4 DEF Reads
    <3>2. cons[d].read_pos \in Pos /\ cons[d].last_read_pos \in Pos /\ slots[cons[d].last_read_pos].next \in Pos
      BY <1>0, <2>1, <2>4, SlotTypes DEF TypeOK
    <3>3. InPlace(d)'
      BY <1>2, <2>1, <3>1, <3>2 DEF InPlace, SameRing
    <3> QED
      BY <1>5, <2>1, <2>4, <3>1, <3>3 DEF Reads
  <2> QED
    BY <2>2, <2>3, <2>4
<1>13. Phase'
  BY DEF Phase
<1> QED
  BY <1>3, <1>4, <1>6, <1>8, <1>11, <1>12, <1>13 DEF RInv

(* The packet that is sent is the one OMSbuff_gotreader passes. *)
LEMMA GotReaderAdvances ==
  ASSUME IInv, RInv, GotReader
  PROVE  \E s \in Pos : /\ slots[s].seq = Due(th.c) /\ s = Reader(cons[th.c]) /\ th.c \in Attached
                        /\ Advance(th.c, s) /\ Due(th.c) <= Top
<1> DEFINE c == th.c
           s == Reader(cons[c])
<1>0. TypeOK /\ Ring /\ RefsAre /\ Phase /\ WorksForAttached
  BY DEF IInv, RInv
<1>1. th.pc = "send" /\ c \in Attached /\ c \in Consumers
  BY <1>0 DEF GotReader, WorksForAttached, TypeOK
<1>2. Due(c) <= Top /\ Top \in Nat /\ None \notin Pos
  BY <1>0, <1>1, SlotTypes DEF Phase, None
<1>3. Reads(c) /\ IF Due(c) = Top + 1 THEN s = None ELSE s \in Pos /\ slots[s].seq = Due(c)
  BY <1>0, <1>1, ReaderCorrect DEF RInv
<1>4. Due(c) \in 1 .. Top + 1
  BY <1>0, <1>1, <1>3, DueFacts
<1>5. s \in Pos /\ slots[s].seq = Due(c)
  BY <1>2, <1>3, <1>4
<1>6. Advance(c, s)
  BY <1>2, <1>5 DEF GotReader
<1> QED
  BY <1>1, <1>2, <1>5, <1>6

LEMMA GotReaderStep ==
  ASSUME IInv, RInv, GotReader PROVE RInv'
<1>1. PICK s \in Pos : slots[s].seq = Due(th.c) /\ th.c \in Attached /\ Advance(th.c, s)
  BY GotReaderAdvances
<1>2. th.pc = "send" /\ th'.pc = "sent" /\ control' = control /\ state' = state
  BY DEF GotReader, IInv, TypeOK
<1> QED
  BY <1>1, <1>2, AdvanceStep

LEMMA DrainCases ==
  ASSUME IInv, RInv, Drain
  PROVE  /\ th.c \in Attached /\ th.c \in Consumers /\ th.pc = "drain" /\ control' = control
         /\ \/ /\ Due(th.c) <= Top /\ th' = th /\ state' = state
               /\ \E s \in Pos : slots[s].seq = Due(th.c) /\ Advance(th.c, s)
            \/ /\ Due(th.c) = Top + 1 /\ th'.pc = "idle" /\ slots' = slots /\ cons' = cons
               /\ state' = [state EXCEPT ![th.c] = "gone"]
<1> DEFINE c == th.c
           s == Reader(cons[c])
<1>0. TypeOK /\ Ring /\ RefsAre /\ Phase /\ WorksForAttached
  BY DEF IInv, RInv
<1>1. th.pc = "drain" /\ c \in Attached /\ c \in Consumers /\ control' = control
  BY <1>0 DEF Drain, WorksForAttached, TypeOK
<1>2. Top \in Nat /\ None \notin Pos
  BY <1>0, <1>1, SlotTypes DEF None
<1>3. Reads(c) /\ IF Due(c) = Top + 1 THEN s = None ELSE s \in Pos /\ slots[s].seq = Due(c)
  BY <1>0, <1>1, ReaderCorrect DEF RInv
<1>4. Due(c) \in 1 .. Top + 1
  BY <1>0, <1>1, <1>3, DueFacts
<1>5. CASE Due(c) = Top + 1
  BY <1>0, <1>1, <1>3, <1>5 DEF Drain, TypeOK
<1>6. CASE Due(c) # Top + 1
  <2>1. s \in Pos /\ s # None /\ slots[s].seq = Due(c) /\ Due(c) <= Top
    BY <1>2, <1>3, <1>4, <1>6
  <2>2. Advance(c, s) /\ th' = th /\ state' = state
    BY <2>1 DEF Drain
  <2> QED
    BY <1>1, <2>1, <2>2
<1> QED
  BY <1>1, <1>5, <1>6

LEMMA DrainStep ==
  ASSUME IInv, RInv, Drain PROVE RInv'
<1> DEFINE c == th.c
<1>0. TypeOK /\ Ring /\ RefsAre /\ Vrp
  BY DEF IInv, RInv
<1>1. c \in Attached /\ c \in Consumers /\ th.pc = "drain" /\ control' = control
  BY DrainCases
<1>2. CASE \E s \in Pos : slots[s].seq = Due(c) /\ Advance(c, s) /\ th' = th /\ state' = state
  BY <1>1, <1>2, AdvanceStep
<1>3. CASE /\ Due(c) = Top + 1 /\ th'.pc = "idle" /\ slots' = slots /\ cons' = cons
           /\ state' = [state EXCEPT ![c] = "gone"]
  <2>1. SameRing
    BY <1>1, <1>3 DEF SameRing, nslots, Wp
  <2>2. Attached' = Attached \ {c} /\ Attached \subseteq Consumers
    BY <1>0, <1>3 DEF Attached, TypeOK
  <2>3. Ring'
    BY <1>0, <2>1, RingSame
  <2>4. /\ Pos' = Pos /\ Top' = Top /\ Following' = Following /\ Oldest' = Oldest
        /\ \A d \in Consumers : Due(d)' = Due(d)
    BY <1>0, <1>3, <2>1, Unmoved
  <2>5. Vrp'
    BY <1>0, <1>1, <1>3, <2>4 DEF Vrp
  <2>6. RefsAre'
    <3>1. \A s \in Pos : slots[s].seq <= Top /\ slots[s].seq \in Nat /\ Top \in Nat
      BY <1>0, RingFacts, SlotTypes
    <3>2. ASSUME NEW s \in Pos PROVE Readers(s)' = Readers(s)
      <4>1. c \notin Readers(s)
        BY <1>3, <3>1 DEF Readers
      <4>2. Readers(s)' = {d \in Attached \ {c} : slots[s].seq >= Due(d) /\ slots[s].seq > 0}
        BY <1>3, <2>2, <2>4 DEF Readers
      <4> QED
        BY <4>1, <4>2 DEF Readers
    <3> QED
      BY <1>0, <1>3, <2>4, <3>2 DEF RefsAre
  <2>7. \A d \in Attached' : Reads(d)'
    <3>1. ~OnPage /\ \A d \in Attached : ~Jumps(d) /\ Reads(d) /\ d \in Consumers
      BY <1>1, <2>2 DEF Jumps, OnPage, RInv
    <3> QED
      BY <1>0, <1>3, <2>1, <2>2, <2>4, <3>1, ReadsSame
  <2>8. Phase'
    BY <1>3 DEF Phase
  <2> QED
    BY <2>3, <2>5, <2>6, <2>7, <2>8 DEF RInv
<1> QED
  BY <1>2, <1>3, DrainCases

(* The main thread attaches a consumer at valid_read_pos. *)
LEMMA RefEffect ==
  ASSUME IInv, RInv, NEW c \in Consumers, Ref(c)
  PROVE  LET v == control.valid_read_pos
         IN /\ SameRing /\ c \notin Attached /\ Attached' = Attached \cup {c} /\ th' = th
            /\ cons'[c] = [read_pos |-> v, last_read_pos |-> None, last_seq |-> 0]
            /\ \A d \in Consumers : d # c => cons'[d] = cons[d]
            /\ control'.valid_read_pos = v
            /\ \A s \in Pos : slots'[s].refs =
                 IF slots[v].seq > 0 /\ slots[s].seq >= slots[v].seq
                 THEN (slots[s].refs + 1) % MaxRefs ELSE slots[s].refs
<1> DEFINE v == control.valid_read_pos
           mine == IF slots[v].seq = 0 THEN {} ELSE Chain(v, Wp)
<1>0. TypeOK /\ Ring
  BY DEF IInv, RInv
<1>1. v \in Pos /\ \A s \in Pos : slots[s].seq \in Nat
  BY <1>0, SlotTypes
<1>2. slots' = [s \in Pos |-> IF s \in mine THEN [slots[s] EXCEPT !.refs = (slots[s].refs + 1) % MaxRefs]
                                            ELSE slots[s]]
  BY DEF Ref, Wp
<1>3. \A s \in Pos : s \in mine <=> slots[v].seq > 0 /\ slots[s].seq >= slots[v].seq
  <2>1. CASE slots[v].seq = 0
    BY <2>1
  <2>2. CASE slots[v].seq # 0
    <3>1. slots[v].seq > 0
      BY <1>1, <2>2
    <3>2. Chain(v, Wp) = {s \in Pos : slots[s].seq >= slots[v].seq}
      BY <1>0, <1>1, <3>1, ChainIs
    <3> QED
      BY <2>2, <3>1, <3>2
  <2> QED
    BY <2>1, <2>2
<1> HIDE DEF mine
<1>4. slots \in [Pos -> Slot]
  BY <1>0 DEF TypeOK
<1>5. \A s \in Pos : /\ slots'[s].next = slots[s].next /\ slots'[s].seq = slots[s].seq
                     /\ slots'[s].refs = IF s \in mine THEN (slots[s].refs + 1) % MaxRefs ELSE slots[s].refs
  BY <1>2, <1>4 DEF Slot
<1>6. /\ control'.nslots = control.nslots /\ control'.write_pos = control.write_pos
      /\ control'.valid_read_pos = v /\ th' = th
      /\ cons' = [cons EXCEPT ![c] = [read_pos |-> v, last_read_pos |-> None, last_seq |-> 0]]
      /\ state' = [state EXCEPT ![c] = "attached"] /\ state[c] = "new"
  BY <1>0 DEF Ref, TypeOK
<1>7. SameRing
  BY <1>5, <1>6 DEF SameRing, nslots, Wp
<1>8. c \notin Attached /\ Attached' = Attached \cup {c}
  BY <1>0, <1>6 DEF Attached, TypeOK
<1>9. /\ cons'[c] = [read_pos |-> v, last_read_pos |-> None, last_seq |-> 0]
      /\ \A d \in Consumers : d # c => cons'[d] = cons[d]
  BY <1>0, <1>6 DEF TypeOK
<1> QED
  BY <1>3, <1>5, <1>6, <1>7, <1>8, <1>9

LEMMA RefStep ==
  ASSUME IInv, RInv, NEW c \in Consumers, Ref(c) PROVE RInv'
<1> DEFINE v == control.valid_read_pos
<1>0. TypeOK /\ Ring /\ RefsAre /\ Vrp /\ Phase /\ WorksForAttached /\ CommitsItsSlot
  BY DEF IInv, RInv
<1>1. /\ SameRing /\ c \notin Attached /\ Attached' = Attached \cup {c} /\ th' = th
      /\ cons'[c] = [read_pos |-> v, last_read_pos |-> None, last_seq |-> 0]
      /\ \A d \in Consumers : d # c => cons'[d] = cons[d]
      /\ control'.valid_read_pos = v
      /\ \A s \in Pos : slots'[s].refs =
           IF slots[v].seq > 0 /\ slots[s].seq >= slots[v].seq
           THEN (slots[s].refs + 1) % MaxRefs ELSE slots[s].refs
  BY RefEffect
<1>2. /\ v \in Pos /\ Following \in Pos /\ Oldest \in Pos /\ Top \in Nat
      /\ \A s \in Pos : slots[s].seq \in Nat /\ slots[s].refs \in 0 .. MaxRefs - 1
      /\ \A s \in Pos : slots'[s].seq = slots[s].seq
  BY <1>0, <1>1, SlotTypes, RingFacts DEF SameRing
<1>3. Ring'
  BY <1>0, <1>1, RingSame
<1>4. /\ Pos' = Pos /\ Top' = Top /\ Following' = Following /\ Oldest' = Oldest
      /\ \A d \in Consumers : cons'[d] = cons[d] => Due(d)' = Due(d)
  BY <1>0, <1>1, Unmoved
<1>5. Attached \subseteq Consumers /\ \A d \in Attached : d # c /\ cons'[d] = cons[d] /\ Due(d)' = Due(d)
  BY <1>1, <1>4 DEF Attached
<1>6. Due(c)' = IF slots[v].seq > 0 THEN slots[v].seq ELSE Top + 1
  BY <1>1, <1>2, <1>4 DEF Due
<1>7. \A s \in Pos : slots[s].seq <= Top
  BY <1>0, RingFacts
<1>8. ASSUME NEW s \in Pos
      PROVE  slots'[s].refs = Cardinality(Readers(s)') /\ slots'[s].refs >= slots[s].refs
  <2>1. slots[s].refs = Cardinality(Readers(s)) /\ slots[s].refs \in Nat
    BY <1>0, <1>2 DEF RefsAre
  <2>2. Readers(s)' = {d \in Attached \cup {c} : slots[s].seq >= Due(d)' /\ slots[s].seq > 0}
    BY <1>1, <1>2 DEF Readers
  <2>3. {d \in Attached : slots[s].seq >= Due(d)' /\ slots[s].seq > 0} = Readers(s)
    BY <1>5 DEF Readers
  <2>4. CASE slots[v].seq > 0 /\ slots[s].seq >= slots[v].seq
    <3>1. Readers(s)' = Readers(s) \cup {c}
      BY <1>2, <1>6, <2>2, <2>3, <2>4
    <3>2. c \notin Readers(s)
      BY <1>1 DEF Readers
    <3>3. Cardinality(Readers(s) \cup {c}) = Cardinality(Readers(s)) + 1
      BY <3>2, ReadersFinite, FS_AddElement, Zenon
    <3>4. Cardinality(Readers(s) \cup {c}) <= Cardinality(Consumers)
      <4>1. Readers(s) \cup {c} \subseteq Consumers
        BY ReadersFinite
      <4> QED
        BY <4>1, ConsumersAssumption, FS_Subset, Zenon
    <3>5. Cardinality(Consumers) \in Nat
      BY ConsumersAssumption, FS_CardinalityType
    <3>6. slots[s].refs + 1 < MaxRefs /\ MaxRefs \in Nat \ {0}
      BY <2>1, <3>3, <3>4, <3>5, RefsAssumption, MaxRefsPositive
    <3>7. (slots[s].refs + 1) % MaxRefs = slots[s].refs + 1
      BY <2>1, <3>6
    <3>8. slots'[s].refs = slots[s].refs + 1
      BY <1>1, <2>4, <3>7
    <3> QED
      BY <2>1, <3>1, <3>3, <3>8
  <2>5. CASE ~(slots[v].seq > 0 /\ slots[s].seq >= slots[v].seq)
    <3>1. Readers(s)' = Readers(s)
      <4>1. ~(slots[s].seq >= Due(c)')
        BY <1>2, <1>6, <1>7, <2>5
      <4> QED
        BY <2>2, <2>3, <4>1
    <3>2. slots'[s].refs = slots[s].refs
      BY <1>1, <2>5
    <3> QED
      BY <2>1, <3>1, <3>2
  <2> QED
    BY <2>4, <2>5
<1>9. RefsAre'
  BY <1>4, <1>8 DEF RefsAre
<1>10. Vrp'
  <2>1. slots[v].seq = 0 => Top = 0 /\ v = Following
    BY <1>0 DEF Vrp
  <2>2. ASSUME th.pc = "fill"
        PROVE  slots'[Following].refs = 0 /\ (slots[v].seq > 0 => v # th.s)
    <3>1. slots[Following].refs = 0 /\ (slots[v].seq > 0 => v # Following) /\ th.s = Following
      BY <1>0, <2>2 DEF Vrp, CommitsItsSlot, Following, Wp
    <3>2. ~(slots[v].seq > 0 /\ slots[Following].seq >= slots[v].seq)
      <4> SUFFICES ASSUME slots[v].seq > 0, slots[Following].seq >= slots[v].seq PROVE FALSE
        OBVIOUS
      <4>1. slots[Following].seq > 0
        BY <1>2
      <4>2. slots[Following].seq <= slots[v].seq
        BY <1>0, <1>2, <4>1, RingFacts
      <4>3. slots[Following].seq = slots[v].seq
        BY <1>2, <4>2
      <4>4. v = Following
        BY <1>0, <1>2, <4>1, <4>3 DEF Ring
      <4> QED
        BY <3>1, <4>4
    <3>3. slots'[Following].refs = slots[Following].refs
      BY <1>1, <1>2, <3>2
    <3> QED
      BY <3>1, <3>3
  <2> QED
    BY <1>1, <1>2, <1>4, <2>1, <2>2 DEF Vrp
<1>11. \A d \in Attached' : Reads(d)'
  <2>1. OnPage => OnPage'
    <3> SUFFICES ASSUME OnPage PROVE OnPage'
      OBVIOUS
    <3>1. th.s \in Pos
      BY <1>0, SlotTypes DEF OnPage, CommitsItsSlot, Following, Wp
    <3> QED
      BY <1>1, <1>2, <3>1 DEF OnPage, OfNewPage
  <2>2. slots[Oldest].refs > 0 => slots'[Oldest].refs > 0
    <3>1. slots'[Oldest].refs >= slots[Oldest].refs /\ slots[Oldest].refs \in Nat
      BY <1>2, <1>8
    <3>2. Oldest' = Oldest
      BY <1>4
    <3>3. slots'[Oldest].refs \in Int
      <4>1. slots[Oldest].refs + 1 \in Int
        BY <1>2
      <4>2. (slots[Oldest].refs + 1) % MaxRefs \in 0 .. MaxRefs - 1
        BY <4>1, RefsInRange
      <4> QED
        BY <1>1, <1>2, <4>2
    <3> QED
      BY <3>1, <3>3
  <2>3. ASSUME NEW d \in Attached PROVE Reads(d)'
    <3>1. d \in Consumers /\ cons'[d] = cons[d] /\ Reads(d)
      BY <1>5 DEF RInv
    <3>2. ASSUME cons[d].last_read_pos # None, Jumps(d) PROVE Jumps(d)'
      <4>1. Empty' = Empty
        BY <1>0, <1>1, Unmoved
      <4>2. cons[d].last_read_pos \in Pos /\ slots[cons[d].last_read_pos].next \in Pos
        BY <1>0, <3>1, <3>2, SlotTypes DEF TypeOK
      <4>3. slots'[cons[d].last_read_pos].next = slots[cons[d].last_read_pos].next
        BY <1>1, <4>2 DEF SameRing
      <4>4. /\ slots'[slots'[cons'[d].last_read_pos].next].seq = cons'[d].last_seq + 1
            /\ slots'[cons'[d].last_read_pos].seq = cons'[d].last_seq
            /\ cons'[d].read_pos # cons'[d].last_read_pos
        BY <1>2, <3>1, <3>2, <4>2, <4>3 DEF Jumps
      <4>5. th.pc \in {"getslot", "fill"} => slots'[Oldest].refs > 0
        BY <2>2, <3>2 DEF Jumps
      <4>6. th.c = d /\ th.pc \in {"getslot", "fill", "reread", "send"}
        BY <3>2 DEF Jumps
      <4>7. th.pc = "fill" => OnPage'
        BY <2>1, <3>2 DEF Jumps
      <4>8. th.pc = "getslot" => Empty = {} \/ Following >= NSlots
        BY <3>2 DEF Jumps
      <4> QED
        BY <1>1, <1>4, <4>1, <4>4, <4>5, <4>6, <4>7, <4>8 DEF Jumps
    <3> QED
      BY <1>0, <1>1, <2>1, <2>2, <3>1, <3>2, ReadsSame
  <2>4. Reads(c)'
    BY <1>0, <1>1, <1>2, <1>4 DEF Reads, Fresh, Vrp
  <2> QED
    BY <1>1, <2>3, <2>4
<1>12. Phase'
  <2>1. th.pc # "idle" => th.c \in Attached /\ Due(th.c)' = Due(th.c)
    BY <1>0, <1>1, <1>5 DEF WorksForAttached
  <2>2. th.pc \in {"getslot", "fill"} =>
          \A d \in Attached' : cons'[d].last_read_pos # None /\ cons'[d].last_seq = Top' => Due(th.c)' = Top' + 1
    <3> SUFFICES ASSUME th.pc \in {"getslot", "fill"}, NEW d \in Attached',
                        cons'[d].last_read_pos # None, cons'[d].last_seq = Top'
                 PROVE  Due(th.c)' = Top' + 1
      OBVIOUS
    <3>1. d # c
      BY <1>1
    <3>2. d \in Attached /\ cons'[d] = cons[d]
      BY <1>1, <1>5, <3>1
    <3>3. Due(th.c) = Top + 1
      BY <1>0, <1>4, <3>2 DEF Phase
    <3> QED
      BY <1>4, <2>1, <3>3
  <2>3. th.pc = "send" => th.s \in Pos /\ slots'[th.s].seq = Due(th.c)' /\ Due(th.c)' <= Top
    BY <1>0, <1>2, <2>1 DEF Phase
  <2> QED
    BY <1>1, <1>4, <2>2, <2>3 DEF Phase
<1> QED
  BY <1>3, <1>9, <1>10, <1>11, <1>12 DEF RInv

-----------------------------------------------------------------------------
LEMMA NoThird ==
  ASSUME Cardinality(Attached) <= 2, NEW c \in Attached, NEW d \in Attached, NEW e \in Attached,
         c # e, d # e
  PROVE  c = d
<1> SUFFICES ASSUME c # d PROVE FALSE
  OBVIOUS
<1> DEFINE Two == {c} \cup {d}
           Three == Two \cup {e}
<1>1. IsFiniteSet({c}) /\ Cardinality({c}) = 1
  <2>1. IsFiniteSet({}) /\ Cardinality({}) = 0 /\ {} \cup {c} = {c} /\ c \notin {}
    BY FS_EmptySet
  <2> QED
    BY <2>1, FS_AddElement
<1>2. IsFiniteSet(Two) /\ Cardinality(Two) = 2
  BY <1>1, FS_AddElement
<1>3. e \notin Two
  OBVIOUS
<1> HIDE DEF Two
<1>4. Cardinality(Three) = 3
  BY <1>2, <1>3, FS_AddElement
<1>5. Three \subseteq Attached
  BY DEF Two
<1>6. Attached \subseteq Consumers
  BY DEF Attached
<1>7. IsFiniteSet(Attached)
  BY <1>6, ConsumersAssumption, FS_Subset, Zenon
<1> HIDE DEF Three
<1>8. Cardinality(Three) <= Cardinality(Attached)
  BY <1>5, <1>7, FS_Subset, Zenon
<1>9. Cardinality(Attached) \in Nat
  BY <1>7, FS_CardinalityType
<1> QED
  BY <1>4, <1>8, <1>9

(* OMSbuff_addpage puts a page of empty slots between the newest packet and the
   oldest one. *)
LEMMA PageEffect ==
  ASSUME TypeOK, GetSlotNewPage
  PROVE  /\ th.pc = "getslot" /\ slots[Following].refs > 0
         /\ nslots' = nslots + OMSBUFF_MEM_PAGE /\ Pos' = Pos \cup NewSlots /\ Wp' = Wp
         /\ OMSBUFF_MEM_PAGE \in Nat \ {0} /\ NewSlots = nslots .. nslots + OMSBUFF_MEM_PAGE - 1
         /\ \A s \in Pos : s \notin NewSlots
         /\ \A s \in NewSlots : /\ slots'[s].seq = 0 /\ slots'[s].refs = 0
                                /\ slots'[s].next = IF s + 1 \in NewSlots THEN s + 1 ELSE Following
         /\ \A s \in Pos : /\ slots'[s].seq = slots[s].seq /\ slots'[s].refs = slots[s].refs
                           /\ slots'[s].next = IF s = Wp THEN nslots ELSE slots[s].next
         /\ Following' = nslots /\ Top' = Top
         /\ th' = [th EXCEPT !.pc = "fill", !.s = nslots]
         /\ cons' = cons /\ state' = state /\ control'.valid_read_pos = control.valid_read_pos
<1>1. /\ nslots \in Nat \ {0} /\ Pos = 0 .. nslots - 1 /\ Wp \in Pos /\ Following \in Pos
      /\ slots \in [Pos -> Slot]
  BY SlotTypes
<1>2. OMSBUFF_MEM_PAGE \in Nat \ {0} /\ NewSlots = nslots .. nslots + OMSBUFF_MEM_PAGE - 1
  BY PageAssumption DEF NewSlots
<1>3. \A s \in Pos : s \notin NewSlots
  BY <1>1, <1>2
<1>4. /\ nslots' = nslots + OMSBUFF_MEM_PAGE /\ Wp' = Wp
      /\ control'.valid_read_pos = control.valid_read_pos
  BY DEF GetSlotNewPage, nslots, Wp, TypeOK
<1>5. Pos' = Pos \cup NewSlots
  BY <1>1, <1>2, <1>4 DEF Pos
<1>6. slots' = WithPage(Wp)
  BY DEF GetSlotNewPage, Wp
<1>7. ASSUME NEW s \in NewSlots
      PROVE  /\ slots'[s].seq = 0 /\ slots'[s].refs = 0
             /\ slots'[s].next = IF s + 1 \in NewSlots THEN s + 1 ELSE Following
  BY <1>6, <1>7 DEF WithPage, Following
<1>8. ASSUME NEW s \in Pos
      PROVE  /\ slots'[s].seq = slots[s].seq /\ slots'[s].refs = slots[s].refs
             /\ slots'[s].next = IF s = Wp THEN nslots ELSE slots[s].next
  <2>1. slots'[s] = IF s = Wp THEN [slots[s] EXCEPT !.next = nslots] ELSE slots[s]
    BY <1>3, <1>6, <1>8 DEF WithPage
  <2> QED
    BY <1>1, <2>1 DEF Slot
<1>9. Following' = nslots /\ Top' = Top
  BY <1>1, <1>4, <1>8 DEF Following, Top, Wp
<1>10. /\ th.pc = "getslot" /\ slots[Following].refs > 0
       /\ th' = [th EXCEPT !.pc = "fill", !.s = nslots] /\ cons' = cons /\ state' = state
  BY DEF GetSlotNewPage, Following, Wp
<1> QED
  BY <1>2, <1>3, <1>4, <1>5, <1>7, <1>8, <1>9, <1>10

LEMMA PageRing ==
  ASSUME TypeOK, Ring, RefsAre, GetSlotNewPage
  PROVE  /\ Ring' /\ Empty = {} /\ Oldest = Following /\ Oldest' = Following /\ Following \in Pos
         /\ slots[Following].seq > 0 /\ Top > 0
<1>1. /\ nslots \in Nat \ {0} /\ Pos = 0 .. nslots - 1 /\ Following \in Pos /\ Wp \in Pos /\ Top \in Nat
      /\ \A s \in Pos : slots[s].seq \in Nat /\ slots[s].next \in Pos
  BY SlotTypes
<1>2. /\ slots[Following].refs > 0
      /\ nslots' = nslots + OMSBUFF_MEM_PAGE /\ Pos' = Pos \cup NewSlots /\ Wp' = Wp
      /\ OMSBUFF_MEM_PAGE \in Nat \ {0} /\ NewSlots = nslots .. nslots + OMSBUFF_MEM_PAGE - 1
      /\ \A s \in Pos : s \notin NewSlots
      /\ \A s \in NewSlots : /\ slots'[s].seq = 0
                             /\ slots'[s].next = IF s + 1 \in NewSlots THEN s + 1 ELSE Following
      /\ \A s \in Pos : /\ slots'[s].seq = slots[s].seq
                        /\ slots'[s].next = IF s = Wp THEN nslots ELSE slots[s].next
      /\ Following' = nslots /\ Top' = Top
  BY PageEffect
<1>3. slots[Following].seq > 0
  BY <1>1, <1>2, Referenced
<1>4. /\ Empty = {} /\ Oldest = Following /\ \A s \in Pos : slots[Following].seq <= slots[s].seq
      /\ \A s \in Pos : slots[s].seq \in 0 .. Top
  BY <1>3, RingFacts
<1>5. Empty' = NewSlots
  <2>1. \A s \in Pos : slots[s].seq # 0
    BY <1>4 DEF Empty
  <2> QED
    BY <1>2, <2>1 DEF Empty
<1>6. nslots \in NewSlots /\ nslots' - 1 \in NewSlots /\ nslots' - 1 + 1 \notin NewSlots
  BY <1>1, <1>2
<1>7. Oldest' = Following
  <2>1. Empty' # {}
    BY <1>5, <1>6
  <2>2. slots'[nslots' - 1].next = Following
    BY <1>2, <1>6
  <2> QED
    BY <2>1, <2>2 DEF Oldest
<1>8. nslots' >= NSlots /\ Following' >= NSlots
  BY <1>1, <1>2, SlotsAssumption DEF Ring
<1>9. ASSUME NEW s \in Pos' PROVE slots'[s].next # s /\ slots'[s].seq <= Top'
  <2>1. CASE s \in NewSlots
    BY <1>1, <1>2, <2>1
  <2>2. CASE s \in Pos
    <3>1. slots[s].next # s /\ slots[s].seq <= Top
      BY <2>2 DEF Ring
    <3>2. s # nslots
      BY <1>1, <2>2
    <3> QED
      BY <1>2, <2>2, <3>1, <3>2
  <2> QED
    BY <1>2, <2>1, <2>2
<1>10. ASSUME NEW s \in Pos', s # Wp', slots'[s].seq > 0
       PROVE  slots'[slots'[s].next].seq = slots'[s].seq + 1
  <2>1. s \in Pos
    BY <1>2, <1>10
  <2>2. slots'[s].next = slots[s].next /\ slots[s].next \in Pos
    BY <1>1, <1>2, <1>10, <2>1
  <2> QED
    BY <1>2, <1>10, <2>1, <2>2 DEF Ring
<1>11. \A s, t \in Pos' : slots'[s].seq = slots'[t].seq /\ slots'[s].seq > 0 => s = t
  <2>1. \A s \in Pos' : slots'[s].seq > 0 => s \in Pos
    BY <1>2
  <2> QED
    BY <1>2, <2>1 DEF Ring
<1>12. Empty' = Following' .. nslots' - 1
  BY <1>1, <1>2, <1>5
<1>13. ASSUME NEW s \in Empty', s + 1 \in Pos' PROVE slots'[s].next = s + 1
  <2>1. s \in NewSlots
    BY <1>5
  <2>2. s + 1 \in NewSlots
    BY <1>1, <1>2, <1>13, <2>1
  <2> QED
    BY <1>2, <2>1, <2>2
<1>14. ASSUME NEW s \in Pos' \ Empty' PROVE slots'[Oldest'].seq \in 1 .. slots'[s].seq
  <2>1. s \in Pos
    BY <1>2, <1>5
  <2> QED
    BY <1>1, <1>2, <1>3, <1>4, <1>7, <2>1
<1>15. ASSUME NEW s \in Pos' \ Empty', NEW m \in slots'[s].seq .. Top'
       PROVE  \E t \in Pos' : slots'[t].seq = m
  <2>1. s \in Pos \ Empty /\ m \in slots[s].seq .. Top
    BY <1>2, <1>4, <1>5
  <2>2. PICK t \in Pos : slots[t].seq = m
    BY <2>1 DEF Ring
  <2> QED
    BY <1>2, <2>2
<1>16. Ring'
  BY <1>8, <1>9, <1>10, <1>11, <1>12, <1>13, <1>14, <1>15 DEF Ring
<1>17. Top > 0
  BY <1>1, <1>3, <1>4
<1> QED
  BY <1>1, <1>3, <1>4, <1>7, <1>16, <1>17

LEMMA PageDue ==
  ASSUME TypeOK, GetSlotNewPage, NEW d \in Attached PROVE Due(d)' = Due(d)
<1>1. cons[d].read_pos \in Pos
  BY DEF TypeOK, Attached
<1>2. cons' = cons /\ Top' = Top /\ \A s \in Pos : slots'[s].seq = slots[s].seq
  BY PageEffect
<1> QED
  BY <1>1, <1>2 DEF Due

(* Two consumers: the one that asks for a packet has read them all, and a page is
   made because the other has not.  With a third that had read them all as well
   the page would come between its positions, and this would not hold. *)
LEMMA GetSlotNewPageStep ==
  ASSUME IInv, RInv, GetSlotNewPage, Cardinality(Attached) <= 2 PROVE RInv'
<1> DEFINE c == th.c
<1>0. TypeOK /\ Ring /\ RefsAre /\ Vrp /\ Phase /\ WorksForAttached
  BY DEF IInv, RInv
<1>1. /\ nslots \in Nat \ {0} /\ Pos = 0 .. nslots - 1 /\ Following \in Pos /\ Wp \in Pos /\ Top \in Nat
      /\ \A s \in Pos : slots[s].seq \in Nat /\ slots[s].next \in Pos
      /\ control.valid_read_pos \in Pos
  BY <1>0, SlotTypes
<1>2. /\ th.pc = "getslot" /\ slots[Following].refs > 0
      /\ Pos' = Pos \cup NewSlots /\ Wp' = Wp
      /\ NewSlots = nslots .. nslots + OMSBUFF_MEM_PAGE - 1 /\ OMSBUFF_MEM_PAGE \in Nat \ {0}
      /\ \A s \in Pos : s \notin NewSlots
      /\ \A s \in NewSlots : slots'[s].seq = 0 /\ slots'[s].refs = 0
      /\ \A s \in Pos : /\ slots'[s].seq = slots[s].seq /\ slots'[s].refs = slots[s].refs
                        /\ slots'[s].next = IF s = Wp THEN nslots ELSE slots[s].next
      /\ Following' = nslots /\ Top' = Top
      /\ th' = [th EXCEPT !.pc = "fill", !.s = nslots]
      /\ cons' = cons /\ state' = state /\ control'.valid_read_pos = control.valid_read_pos
  BY <1>0, PageEffect
<1>3. /\ Ring' /\ Empty = {} /\ Oldest = Following /\ Oldest' = Following
      /\ slots[Following].seq > 0 /\ Top > 0
  BY <1>0, PageRing
<1>4. th'.pc = "fill" /\ th'.s = nslots /\ th'.c = c
  BY <1>0, <1>2 DEF TypeOK
<1>5. nslots \in NewSlots /\ nslots >= NSlots /\ nslots \notin Pos
  BY <1>0, <1>1, <1>2 DEF Ring
<1>6. OnPage'
  BY <1>2, <1>4, <1>5 DEF OnPage, OfNewPage
<1>7. Attached' = Attached /\ Attached \subseteq Consumers /\ c \in Attached
  BY <1>0, <1>2 DEF Attached, WorksForAttached
<1>8. \A d \in Attached : Due(d)' = Due(d)
  BY <1>0, PageDue
<1>9. Vrp'
  <2>1. slots[control.valid_read_pos].seq # 0
    BY <1>1, <1>3 DEF Empty
  <2> QED
    BY <1>1, <1>2, <1>4, <1>5, <2>1 DEF Vrp
<1>10. RefsAre'
  <2>1. ASSUME NEW s \in Pos PROVE Readers(s)' = Readers(s)
    BY <1>2, <1>7, <1>8 DEF Readers
  <2>2. ASSUME NEW s \in NewSlots PROVE Readers(s)' = {}
    BY <1>2, <2>2 DEF Readers
  <2>3. ASSUME NEW s \in Pos' PROVE slots'[s].refs = Cardinality(Readers(s)')
    <3>1. CASE s \in Pos
      BY <1>0, <1>2, <2>1, <3>1 DEF RefsAre
    <3>2. CASE s \in NewSlots
      BY <1>2, <2>2, <3>2, FS_EmptySet
    <3> QED
      BY <1>2, <3>1, <3>2
  <2> QED
    BY <2>3 DEF RefsAre
<1>11. ASSUME NEW d \in Attached, cons[d].last_read_pos # None, cons[d].last_seq = Top PROVE d = c
  <2>1. Due(c) = Top + 1
    BY <1>0, <1>2, <1>11 DEF Phase
  <2>2. Due(d) = Top + 1
    BY <1>11 DEF Due
  <2>3. PICK e \in Attached : slots[Following].seq >= Due(e)
    BY <1>0, <1>1, <1>2, Referenced
  <2>4. Due(e) \in 1 .. Top + 1 /\ slots[Following].seq <= Top
    BY <1>0, <1>1, <1>7, DueFacts, RingFacts DEF RInv
  <2>5. e # c /\ e # d
    BY <1>1, <2>1, <2>2, <2>3, <2>4
  <2> QED
    BY <1>7, <2>5, NoThird
<1>12. ASSUME NEW d \in Attached PROVE Reads(d)'
  <2> DEFINE k == cons[d]
  <2>1. Reads(d) /\ cons'[d] = k /\ k.read_pos \in Pos /\ (k.last_read_pos # None => k.last_read_pos \in Pos)
    BY <1>0, <1>2, <1>7 DEF RInv, TypeOK
  <2>2. CASE k.last_read_pos = None
    <3>1. Fresh(d)'
      BY <1>2, <1>3, <2>1, <2>2 DEF Reads, Fresh
    <3> QED
      BY <2>1, <2>2, <3>1 DEF Reads
  <2>3. CASE k.last_read_pos # None /\ k.last_seq = Top
    <3>1. CaughtUp(d) /\ k.last_seq \in 1 .. Top
      BY <2>1, <2>3 DEF Reads
    <3>2. d = c
      BY <1>11, <2>3
    <3>3. slots'[Oldest'].refs > 0
      BY <1>1, <1>2, <1>3
    <3>4. CaughtUp(d)'
      BY <1>2, <1>4, <1>6, <2>1, <3>1, <3>2, <3>3 DEF CaughtUp
    <3> QED
      BY <1>2, <2>1, <2>3, <3>1, <3>4 DEF Reads
  <2>4. CASE k.last_read_pos # None /\ k.last_seq # Top
    <3>1. (InPlace(d) \/ Jumps(d)) /\ k.last_seq \in 1 .. Top /\ k.last_read_pos \in Pos
      BY <2>1, <2>4 DEF Reads
    <3>2. CASE InPlace(d)
      <4>1. slots'[k.read_pos].seq = k.last_seq + 1
        BY <1>2, <2>1, <3>2 DEF InPlace
      <4>2. ASSUME k.last_read_pos = Wp PROVE InPlace(d)'
        <5>1. th'.s = slots'[k.last_read_pos].next
          BY <1>1, <1>2, <1>4, <4>2
        <5> QED
          BY <1>6, <2>1, <4>1, <5>1 DEF InPlace
      <4>3. ASSUME k.last_read_pos # Wp PROVE InPlace(d)'
        <5>1. slots'[k.last_read_pos].next = slots[k.last_read_pos].next
          BY <1>2, <3>1, <4>3
        <5>2. slots[slots[k.last_read_pos].next].seq > k.last_seq
          BY <1>2, <3>2 DEF InPlace, OnPage
        <5>3. slots'[slots'[k.last_read_pos].next].seq > k.last_seq
          BY <1>1, <1>2, <3>1, <5>1, <5>2
        <5> QED
          BY <2>1, <4>1, <5>3 DEF InPlace
      <4>4. InPlace(d)'
        BY <4>2, <4>3
      <4> QED
        BY <1>2, <2>1, <2>4, <3>1, <4>4 DEF Reads
    <3>3. CASE Jumps(d)
      <4>1. /\ slots[slots[k.last_read_pos].next].seq = k.last_seq + 1
            /\ slots[k.last_read_pos].seq = k.last_seq /\ k.read_pos # k.last_read_pos /\ th.c = d
        BY <3>3 DEF Jumps
      <4>2. k.last_read_pos # Wp
        BY <1>0, <2>4, <4>1, RingFacts
      <4>3. /\ slots'[slots'[k.last_read_pos].next].seq = k.last_seq + 1
            /\ slots'[k.last_read_pos].seq = k.last_seq
        <5>1. slots'[k.last_read_pos].next = slots[k.last_read_pos].next
          BY <1>2, <3>1, <4>2
        <5>2. slots[k.last_read_pos].next \in Pos
          BY <1>1, <3>1
        <5> QED
          BY <1>2, <3>1, <4>1, <5>1, <5>2
      <4>4. slots'[Oldest'].refs > 0
        BY <1>1, <1>2, <1>3
      <4>5. Jumps(d)'
        BY <1>4, <1>6, <2>1, <4>1, <4>3, <4>4 DEF Jumps
      <4> QED
        BY <1>2, <2>1, <2>4, <3>1, <4>5 DEF Reads
    <3> QED
      BY <3>1, <3>2, <3>3
  <2> QED
    BY <2>2, <2>3, <2>4
<1>13. Phase'
  <2>1. \A d \in Attached : cons[d].last_read_pos # None /\ cons[d].last_seq = Top => Due(c) = Top + 1
    BY <1>0, <1>2 DEF Phase
  <2>2. Due(th.c)' = Due(th.c)
    BY <1>4, <1>7, <1>8
  <2> QED
    BY <1>2, <1>4, <1>7, <2>1, <2>2 DEF Phase
<1> QED
  BY <1>3, <1>7, <1>9, <1>10, <1>12, <1>13 DEF RInv

-----------------------------------------------------------------------------
(* OMSbuff_write appends the packet: the slot behind the newest becomes the newest. *)
LEMMA CommitEffect ==
  ASSUME TypeOK, Commit
  PROVE  /\ th.pc = "fill" /\ th'.pc \in {"getslot", "reread"} /\ th'.c = th.c
         /\ nslots' = nslots /\ Pos' = Pos /\ Wp' = Following
         /\ slots'[Following].seq = Top + 1 /\ slots'[Following].refs = control.refs
         /\ \A s \in Pos : /\ slots'[s].next = slots[s].next
                           /\ s # Following => slots'[s].seq = slots[s].seq /\ slots'[s].refs = slots[s].refs
         /\ Following' = slots[Following].next /\ Top' = Top + 1
         /\ cons' = cons /\ state' = state /\ control'.valid_read_pos = control.valid_read_pos
<1>1. Following \in Pos /\ slots \in [Pos -> Slot]
  BY SlotTypes
<1>2. PICK ts \in Int :
        slots' = [slots EXCEPT ![Following] = [refs |-> control.refs, seq |-> Top + 1,
                                               ts |-> ts, next |-> slots[Following].next]]
  <2>1. \A d \in Ticks : slots[Wp].ts + d \in Int
    BY SlotTypes, TicksAssumption
  <2> QED
    BY <2>1 DEF Commit, Following, Wp, Top
<1>3. /\ slots'[Following].seq = Top + 1 /\ slots'[Following].refs = control.refs
      /\ \A s \in Pos : /\ slots'[s].next = slots[s].next
                        /\ s # Following => slots'[s].seq = slots[s].seq /\ slots'[s].refs = slots[s].refs
  BY <1>1, <1>2
<1>4. /\ nslots' = nslots /\ Wp' = Following /\ control'.valid_read_pos = control.valid_read_pos
  BY DEF Commit, TypeOK, nslots, Wp, Following
<1>5. Pos' = Pos
  BY <1>4 DEF Pos
<1>6. Following' = slots[Following].next /\ Top' = Top + 1
  BY <1>1, <1>3, <1>4 DEF Following, Top, Wp
<1>7. th.pc = "fill" /\ th'.pc \in {"getslot", "reread"} /\ th'.c = th.c /\ cons' = cons /\ state' = state
  BY DEF Commit, TypeOK
<1> QED
  BY <1>3, <1>4, <1>5, <1>6, <1>7

LEMMA CommitRing ==
  ASSUME TypeOK, LinksAreInjective, Ring, Commit
  PROVE  /\ Ring'
         /\ Empty # {} => Empty' = Empty \ {Following}
         /\ Empty # {} /\ Oldest # Following => Oldest' = Oldest
         /\ Empty' # {} => Following' = Following + 1
<1> DEFINE F == Following
<1>1. /\ nslots \in Nat \ {0} /\ Pos = 0 .. nslots - 1 /\ F \in Pos /\ Wp \in Pos /\ Top \in Nat
      /\ \A s \in Pos : slots[s].seq \in Nat /\ slots[s].next \in Pos
  BY SlotTypes
<1>2. /\ nslots' = nslots /\ Pos' = Pos /\ Wp' = F
      /\ slots'[F].seq = Top + 1
      /\ \A s \in Pos : slots'[s].next = slots[s].next /\ (s # F => slots'[s].seq = slots[s].seq)
      /\ Following' = slots[F].next /\ Top' = Top + 1
  BY CommitEffect
<1>3. /\ nslots >= NSlots
      /\ \A s \in Pos : slots[s].next # s /\ slots[s].seq <= Top
      /\ \A s \in Pos : s # Wp /\ slots[s].seq > 0 => slots[slots[s].next].seq = slots[s].seq + 1
      /\ \A s, t \in Pos : slots[s].seq = slots[t].seq /\ slots[s].seq > 0 => s = t
  BY DEF Ring
<1>4. /\ Empty = {} \/ Empty = F .. nslots - 1
      /\ \A s \in Empty : s + 1 \in Pos => slots[s].next = s + 1
      /\ Empty = {} \/ nslots = NSlots \/ F >= NSlots
  BY DEF Ring
<1>5. /\ \A s \in Pos \ Empty : slots[Oldest].seq \in 1 .. slots[s].seq
      /\ \A s \in Pos \ Empty : \A m \in slots[s].seq .. Top : \E t \in Pos : slots[t].seq = m
  BY DEF Ring
<1>6. /\ F # Wp /\ Oldest \in Pos /\ slots[F].next # F /\ slots[F].next \in Pos /\ slots[Wp].next = F
      /\ slots[F].seq > 0 => /\ Empty = {} /\ Oldest = F
                             /\ \A s \in Pos : slots[F].seq <= slots[s].seq
  BY <1>1, <1>3, RingFacts DEF Following
<1>7. \A s \in Pos : s # Wp => slots[s].next # F
  BY <1>1, <1>6 DEF LinksAreInjective
<1>8. Empty' = Empty \ {F}
  <2>1. \A s \in Pos : slots'[s].seq = 0 <=> slots[s].seq = 0 /\ s # F
    BY <1>1, <1>2
  <2> QED
    BY <1>2, <2>1 DEF Empty
<1>9. Empty' = {} \/ (Empty' = F + 1 .. nslots - 1 /\ F + 1 \in Pos /\ F \in Empty)
  <2>1. CASE Empty = {}
    BY <1>8, <2>1
  <2>2. CASE Empty = F .. nslots - 1
    BY <1>1, <1>8, <2>2
  <2> QED
    BY <1>4, <2>1, <2>2
<1>10. Empty' # {} => Following' = F + 1
  BY <1>2, <1>4, <1>9
<1>11. Empty' = {} \/ Empty' = Following' .. nslots' - 1
  BY <1>2, <1>9, <1>10
\* The next oldest.
<1>12. Empty' = {} => Oldest' = slots[F].next
  BY <1>2 DEF Oldest
<1>13. Empty' # {} => Oldest' = Oldest
  <2>1. nslots - 1 \in Pos /\ Oldest' = IF Empty' = {} THEN Following' ELSE slots'[nslots' - 1].next
    BY <1>1 DEF Oldest
  <2>2. Empty' # {} => Empty # {}
    BY <1>8
  <2> QED
    BY <1>2, <2>1, <2>2 DEF Oldest
<1>14. Empty # {} /\ Empty' = {} => F = nslots - 1 /\ Oldest' = Oldest
  <2> SUFFICES ASSUME Empty # {}, Empty' = {} PROVE F = nslots - 1 /\ Oldest' = Oldest
    OBVIOUS
  <2>1. Empty = F .. nslots - 1 /\ Empty = {F}
    BY <1>1, <1>4, <1>8
  <2>2. F = nslots - 1
    <3>1. nslots - 1 \in F .. nslots - 1
      BY <1>1
    <3> QED
      BY <2>1, <3>1
  <2>3. Oldest = slots[F].next
    BY <2>2 DEF Oldest
  <2> QED
    BY <1>12, <2>2, <2>3
<1>15. Oldest' \in Pos /\ (slots[F].seq > 0 => Oldest' = slots[F].next)
  <2>1. CASE Empty = {}
    BY <1>6, <1>8, <1>12, <2>1
  <2>2. CASE Empty # {}
    <3>1. Oldest' = Oldest
      BY <1>13, <1>14, <2>2
    <3> QED
      BY <1>6, <2>2, <3>1
  <2> QED
    BY <2>1, <2>2
<1>16. nslots' >= NSlots
  BY <1>2, <1>3
<1>17. \A s \in Pos' : slots'[s].next # s /\ slots'[s].seq <= Top'
  BY <1>1, <1>2, <1>3
<1>18. ASSUME NEW s \in Pos', s # Wp', slots'[s].seq > 0
       PROVE  slots'[slots'[s].next].seq = slots'[s].seq + 1
  <2>1. s \in Pos /\ s # F /\ slots'[s].seq = slots[s].seq /\ slots'[s].next = slots[s].next
    BY <1>2, <1>18
  <2>2. CASE s = Wp
    BY <1>2, <1>6, <2>1, <2>2, RingFacts
  <2>3. CASE s # Wp
    <3>1. slots[s].next # F /\ slots[s].next \in Pos
      BY <1>1, <1>7, <2>1, <2>3
    <3> QED
      BY <1>2, <1>3, <1>18, <2>1, <2>3, <3>1
  <2> QED
    BY <2>2, <2>3
<1>19. \A s, t \in Pos' : slots'[s].seq = slots'[t].seq /\ slots'[s].seq > 0 => s = t
  <2>1. \A s \in Pos : s # F => slots'[s].seq < Top + 1
    BY <1>1, <1>2, <1>3
  <2> QED
    BY <1>1, <1>2, <1>3, <2>1
<1>20. ASSUME NEW s \in Empty', s + 1 \in Pos' PROVE slots'[s].next = s + 1
  BY <1>2, <1>4, <1>8, <1>20 DEF Empty
<1>21. ASSUME NEW s \in Pos' \ Empty' PROVE slots'[Oldest'].seq \in 1 .. slots'[s].seq
  <2>1. s \in Pos /\ (s # F => s \notin Empty /\ slots'[s].seq = slots[s].seq)
    BY <1>2, <1>8
  <2>2. CASE slots[F].seq > 0
    <3>1. Oldest' = slots[F].next /\ Oldest' # F /\ slots[Oldest'].seq = slots[F].seq + 1
      BY <1>1, <1>3, <1>6, <1>15, <2>2
    <3>2. slots'[Oldest'].seq = slots[F].seq + 1 /\ slots[F].seq <= Top
      BY <1>1, <1>2, <1>3, <1>6, <3>1
    <3>3. CASE s = F
      BY <1>1, <1>2, <3>2, <3>3
    <3>4. CASE s # F
      <4>1. slots[s].seq # slots[F].seq /\ slots[F].seq <= slots[s].seq
        BY <1>1, <1>3, <1>6, <2>1, <2>2, <3>4
      <4>2. slots[s].seq \in Nat /\ slots[F].seq \in Nat
        BY <1>1, <2>1
      <4>3. slots[F].seq + 1 \in 1 .. slots[s].seq
        BY <4>1, <4>2
      <4> QED
        BY <2>1, <3>2, <3>4, <4>3
    <3> QED
      BY <3>3, <3>4
  <2>3. CASE slots[F].seq = 0
    <3>1. F \in Empty /\ Empty # {} /\ Empty = F .. nslots - 1
      BY <1>1, <1>4, <2>3 DEF Empty
    <3>2. Oldest' = Oldest
      BY <1>13, <1>14, <3>1
    <3>3. Oldest \notin Empty \ {F}
      <4> SUFFICES ASSUME Oldest \in Empty, Oldest # F PROVE FALSE
        OBVIOUS
      <4>1. Oldest - 1 \in Empty /\ Oldest - 1 + 1 = Oldest /\ Oldest - 1 \in Pos /\ nslots - 1 \in Pos
        BY <1>1, <3>1
      <4>2. slots[Oldest - 1].next = Oldest
        BY <1>4, <1>6, <4>1
      <4>3. slots[nslots - 1].next = Oldest
        BY <3>1 DEF Oldest
      <4>4. Oldest - 1 = nslots - 1
        BY <4>1, <4>2, <4>3 DEF LinksAreInjective
      <4> QED
        BY <1>1, <1>6, <4>1, <4>4
    <3>4. CASE Oldest = F
      <4>1. \A t \in Pos \ Empty : FALSE
        BY <1>5, <2>3, <3>4
      <4>2. s = F
        BY <2>1, <4>1
      <4> QED
        BY <1>1, <1>2, <3>2, <3>4, <4>2
    <3>5. CASE Oldest # F
      <4>1. slots'[Oldest].seq = slots[Oldest].seq /\ slots[Oldest].seq \in 1 .. Top
        <5>1. Oldest \in Pos \ Empty
          BY <1>6, <3>3, <3>5
        <5>2. slots[Oldest].seq # 0
          BY <5>1 DEF Empty
        <5> QED
          BY <1>1, <1>2, <1>3, <3>5, <5>1, <5>2
      <4>2. CASE s = F
        BY <1>1, <1>2, <3>2, <4>1, <4>2
      <4>3. CASE s # F
        BY <1>1, <1>5, <2>1, <3>2, <4>1, <4>3
      <4> QED
        BY <4>2, <4>3
    <3> QED
      BY <3>4, <3>5
  <2> QED
    BY <1>1, <2>2, <2>3
<1>22. ASSUME NEW s \in Pos' \ Empty', NEW m \in slots'[s].seq .. Top'
       PROVE  \E t \in Pos' : slots'[t].seq = m
  <2>1. s \in Pos /\ (s # F => s \notin Empty /\ slots'[s].seq = slots[s].seq)
    BY <1>2, <1>8
  <2>2. CASE m = Top + 1
    BY <1>1, <1>2, <2>2
  <2>3. CASE m # Top + 1
    <3>1. m \in slots[s].seq .. Top /\ s # F
      BY <1>1, <1>2, <1>22, <2>1, <2>3
    <3>2. PICK t \in Pos : slots[t].seq = m
      BY <1>5, <2>1, <3>1
    <3>3. t # F
      <4> SUFFICES ASSUME t = F PROVE FALSE
        OBVIOUS
      <4>1. slots[s].seq > 0 /\ slots[s].seq \in Nat /\ m >= slots[s].seq
        BY <1>1, <2>1, <3>1 DEF Empty
      <4>2. slots[F].seq > 0
        BY <1>1, <3>2, <4>1
      <4>3. slots[F].seq <= slots[s].seq
        BY <1>6, <2>1, <4>2
      <4>4. slots[F].seq = slots[s].seq
        BY <3>1, <3>2, <4>1, <4>3
      <4> QED
        BY <1>1, <1>3, <2>1, <3>1, <4>2, <4>4
    <3> QED
      BY <1>2, <3>2, <3>3
  <2> QED
    BY <2>2, <2>3
<1>23. Empty' = {} \/ nslots' = NSlots \/ Following' >= NSlots
  <2>1. CASE Empty' = {}
    BY <2>1
  <2>2. CASE Empty' # {}
    <3>1. Following' = F + 1 /\ Empty # {}
      BY <1>8, <1>10, <2>2
    <3> QED
      BY <1>1, <1>2, <1>4, <3>1, SlotsAssumption
  <2> QED
    BY <2>1, <2>2
<1>24. Ring'
  BY <1>11, <1>16, <1>17, <1>18, <1>19, <1>20, <1>21, <1>22, <1>23 DEF Ring
<1> QED
  BY <1>8, <1>10, <1>13, <1>14, <1>24

(* The slot that is written has no readers, so nobody loses a packet; and a
   consumer that had nothing to read is due the new packet. *)
LEMMA CommitDue ==
  ASSUME IInv, RInv, Commit, NEW d \in Attached
  PROVE  /\ Due(d)' = Due(d) /\ Reads(d) /\ Due(d) \in 1 .. Top + 1
         /\ slots[Following].seq > 0 => slots[Following].seq < Due(d)
         /\ cons[d].read_pos \in Pos /\ cons[d].last_seq \in Nat
         /\ cons[d].last_read_pos # None => cons[d].last_read_pos \in Pos /\ Due(d) = cons[d].last_seq + 1
<1>0. TypeOK /\ Ring /\ RefsAre /\ Vrp /\ Phase /\ CommitsItsSlot
  BY DEF IInv, RInv
<1>a. PICK F \in Pos : F = Following
  BY <1>0, SlotTypes
<1>1. /\ nslots \in Nat \ {0} /\ Pos = 0 .. nslots - 1 /\ F = Following /\ Wp \in Pos /\ Top \in Nat
      /\ \A s \in Pos : slots[s].seq \in 0 .. Top /\ slots[s].next \in Pos /\ slots[s].refs \in Nat
      /\ Oldest \in Pos /\ F # Wp /\ slots[Wp].seq = Top
  BY <1>0, <1>a, SlotTypes, RingFacts
<1>2. /\ th.pc = "fill" /\ th'.pc \in {"getslot", "reread"} /\ th'.c = th.c
      /\ nslots' = nslots /\ Pos' = Pos /\ Wp' = F
      /\ slots'[F].seq = Top + 1 /\ slots'[F].refs = control.refs
      /\ \A s \in Pos : /\ slots'[s].next = slots[s].next
                        /\ s # F => slots'[s].seq = slots[s].seq /\ slots'[s].refs = slots[s].refs
      /\ Following' = slots[F].next /\ Top' = Top + 1
      /\ cons' = cons /\ state' = state /\ control'.valid_read_pos = control.valid_read_pos
  BY <1>0, <1>a, CommitEffect
<1>4. slots[F].refs = 0 /\ th.s = F
  BY <1>0, <1>a, <1>2 DEF Vrp, CommitsItsSlot, Following, Wp
<1>5. Attached' = Attached /\ Attached \subseteq Consumers
  BY <1>2 DEF Attached
<1>6. /\ Reads(d) /\ Due(d) \in 1 .. Top + 1
      /\ slots[F].seq > 0 => slots[F].seq < Due(d)
      /\ cons[d].read_pos \in Pos /\ cons[d].last_seq \in Nat
      /\ cons[d].last_read_pos # None => cons[d].last_read_pos \in Pos /\ Due(d) = cons[d].last_seq + 1
  <2>1. Reads(d) /\ d \in Consumers
    BY <1>5 DEF RInv
  <2>2. Due(d) \in 1 .. Top + 1 /\ (cons[d].last_read_pos # None => Due(d) = cons[d].last_seq + 1)
    BY <1>0, <2>1, DueFacts
  <2>3. ~(slots[F].seq >= Due(d) /\ slots[F].seq > 0)
    BY <1>0, <1>1, <1>4, Referenced
  <2>4. slots[F].seq \in Nat
    BY <1>1
  <2>5. /\ cons[d].read_pos \in Pos /\ cons[d].last_seq \in Nat
        /\ cons[d].last_read_pos # None => cons[d].last_read_pos \in Pos
    BY <1>0, <2>1 DEF TypeOK
  <2>6. slots[F].seq > 0 => slots[F].seq < Due(d)
    BY <1>1, <2>2, <2>3, <2>4
  <2> QED
    BY <2>1, <2>2, <2>5, <2>6
<1>7. Due(d)' = Due(d)
  <2> DEFINE k == cons[d]
  <2>1. cons'[d] = k
    BY <1>2
  <2>2. CASE k.last_read_pos # None
    BY <1>2, <2>1, <2>2 DEF Due
  <2>3. CASE k.last_read_pos = None
    <3>1. Fresh(d) /\ k.read_pos \in Pos
      BY <1>6, <2>3 DEF Reads
    <3>2. CASE slots[k.read_pos].seq = 0
      <4>1. k.read_pos = F /\ Top = 0
        BY <1>a, <3>1, <3>2 DEF Fresh
      <4>2. Due(d) = Top + 1
        BY <1>1, <2>3, <3>2 DEF Due
      <4>3. Due(d)' = slots'[F].seq
        BY <1>1, <1>2, <2>1, <2>3, <4>1 DEF Due
      <4> QED
        BY <1>2, <4>2, <4>3
    <3>3. CASE slots[k.read_pos].seq # 0
      <4>1. slots[k.read_pos].seq > 0 /\ Due(d) = slots[k.read_pos].seq
        BY <1>1, <2>3, <3>1, <3>3 DEF Due
      <4>2. k.read_pos # F
        BY <1>1, <1>6, <4>1
      <4>3. slots'[k.read_pos].seq = slots[k.read_pos].seq
        BY <1>2, <3>1, <4>2
      <4> QED
        BY <2>1, <2>3, <4>1, <4>3 DEF Due
    <3> QED
      BY <3>2, <3>3
  <2> QED
    BY <2>2, <2>3
<1> QED
  BY <1>a, <1>6, <1>7

(* The new packet has a reader in everybody who is attached. *)
LEMMA CommitStep ==
  ASSUME IInv, RInv, Commit PROVE RInv'
<1>0. TypeOK /\ Ring /\ RefsAre /\ Vrp /\ Phase /\ CommitsItsSlot /\ LinksAreInjective /\ ControlRefsExact
  BY DEF IInv, RInv
<1>a. PICK F \in Pos : F = Following
  BY <1>0, SlotTypes
<1>1. /\ nslots \in Nat \ {0} /\ Pos = 0 .. nslots - 1 /\ F = Following /\ Wp \in Pos /\ Top \in Nat
      /\ \A s \in Pos : slots[s].seq \in 0 .. Top /\ slots[s].next \in Pos /\ slots[s].refs \in Nat
      /\ Oldest \in Pos /\ F # Wp /\ slots[Wp].seq = Top
  BY <1>0, <1>a, SlotTypes, RingFacts
<1>2. /\ th.pc = "fill" /\ th'.pc \in {"getslot", "reread"} /\ th'.c = th.c
      /\ nslots' = nslots /\ Pos' = Pos /\ Wp' = F
      /\ slots'[F].seq = Top + 1 /\ slots'[F].refs = control.refs
      /\ \A s \in Pos : /\ slots'[s].next = slots[s].next
                        /\ s # F => slots'[s].seq = slots[s].seq /\ slots'[s].refs = slots[s].refs
      /\ Following' = slots[F].next /\ Top' = Top + 1
      /\ cons' = cons /\ state' = state /\ control'.valid_read_pos = control.valid_read_pos
  BY <1>0, <1>a, CommitEffect
<1>3. /\ Ring'
      /\ Empty # {} => Empty' = Empty \ {F}
      /\ Empty # {} /\ Oldest # F => Oldest' = Oldest
      /\ Empty' # {} => Following' = F + 1
  BY <1>0, <1>a, CommitRing
<1>4. slots[F].refs = 0 /\ th.s = F
  BY <1>0, <1>a, <1>2 DEF Vrp, CommitsItsSlot, Following, Wp
<1>5. Attached' = Attached /\ Attached \subseteq Consumers
  BY <1>2 DEF Attached
<1>6. ASSUME NEW d \in Attached
      PROVE  /\ Reads(d) /\ Due(d) \in 1 .. Top + 1 /\ Due(d)' = Due(d)
             /\ slots[F].seq > 0 => slots[F].seq < Due(d)
             /\ cons[d].read_pos \in Pos /\ cons[d].last_seq \in Nat
             /\ cons[d].last_read_pos # None => cons[d].last_read_pos \in Pos /\ Due(d) = cons[d].last_seq + 1
  BY <1>a, CommitDue
<1>7. \A d \in Attached : Due(d)' = Due(d)
  BY <1>6
<1>8. Vrp'
  <2>1. control.valid_read_pos \in Pos
    BY <1>0, SlotTypes
  <2>2. slots'[control.valid_read_pos].seq # 0
    BY <1>0, <1>1, <1>2, <2>1 DEF Vrp
  <2> QED
    BY <1>2, <2>2 DEF Vrp
<1>9. RefsAre'
  <2>1. Readers(F)' = Attached
    <3>1. \A d \in Attached : slots'[F].seq >= Due(d)' /\ slots'[F].seq > 0
      BY <1>1, <1>2, <1>6, <1>7
    <3> QED
      BY <1>5, <3>1 DEF Readers
  <2>2. control.refs = Cardinality(Attached)
    <3>1. Attached \ Draining = Attached
      BY <1>2 DEF Draining
    <3> QED
      BY <1>0, <3>1 DEF ControlRefsExact
  <2>3. ASSUME NEW s \in Pos, s # F PROVE Readers(s)' = Readers(s)
    BY <1>2, <1>5, <1>7, <2>3 DEF Readers
  <2> QED
    BY <1>0, <1>2, <2>1, <2>2, <2>3 DEF RefsAre
\* A page was put in: what follows holds for the rest of it.
<1>10. ASSUME OnPage, slots[Oldest].refs > 0
       PROVE  slots'[Oldest'].refs > 0 /\ (Empty' = {} \/ Following' >= NSlots)
  <2>1. slots[F].seq = 0 /\ F >= NSlots
    BY <1>4, <1>10 DEF OnPage, OfNewPage
  <2>2. Empty # {}
    BY <1>1, <2>1 DEF Empty
  <2>3. Oldest # F
    BY <1>4, <1>10
  <2>4. Oldest' = Oldest
    BY <1>3, <2>2, <2>3
  <2>5. slots'[Oldest].refs > 0
    BY <1>1, <1>2, <1>10, <2>3
  <2>6. Empty' = {} \/ Following' >= NSlots
    BY <1>1, <1>3, <2>1, SlotsAssumption
  <2> QED
    BY <2>4, <2>5, <2>6
<1>11. ASSUME NEW d \in Attached PROVE Reads(d)'
  <2> DEFINE k == cons[d]
  <2>1. cons'[d] = k /\ Reads(d) /\ k.read_pos \in Pos /\ (k.last_read_pos # None => k.last_read_pos \in Pos)
        /\ k.last_seq \in Nat
    BY <1>2, <1>6
  <2>2. CASE k.last_read_pos = None
    <3>1. Fresh(d)
      BY <2>1, <2>2 DEF Reads
    <3>2. slots'[k.read_pos].seq # 0
      <4>1. CASE k.read_pos = F
        BY <1>1, <1>2, <4>1
      <4>2. CASE k.read_pos # F
        <5>1. slots[k.read_pos].seq # 0
          BY <1>1, <3>1, <4>2 DEF Fresh
        <5> QED
          BY <1>2, <2>1, <4>2, <5>1
      <4> QED
        BY <4>1, <4>2
    <3>3. Fresh(d)'
      BY <2>1, <3>1, <3>2 DEF Fresh
    <3> QED
      BY <2>1, <2>2, <3>3 DEF Reads
  <2>3. CASE k.last_read_pos # None
    <3>0. /\ k.last_seq \in 1 .. Top /\ k.last_seq # Top' /\ k.last_seq \in 1 .. Top'
          /\ Due(d) = k.last_seq + 1 /\ k.last_read_pos \in Pos
      BY <1>1, <1>2, <1>6, <2>1, <2>3 DEF Reads
    <3> SUFFICES InPlace(d)' \/ Jumps(d)'
      BY <2>1, <2>3, <3>0 DEF Reads
    <3>1. CASE k.last_seq = Top
      <4>1. CaughtUp(d)
        BY <2>1, <2>3, <3>1 DEF Reads
      <4>2. k.last_read_pos = Wp /\ k.read_pos # Wp
        BY <4>1 DEF CaughtUp
      <4>3. slots'[k.last_read_pos].next = F /\ slots'[k.last_read_pos].seq = Top
        BY <1>1, <1>2, <4>2 DEF Following
      <4>4. CASE k.read_pos = F
        <5>1. InPlace(d)'
          BY <1>1, <1>2, <2>1, <3>1, <4>3, <4>4 DEF InPlace
        <5> QED
          BY <5>1
      <4>5. CASE th.c = d /\ OnPage /\ slots[Oldest].refs > 0
        <5>1. Jumps(d)'
          BY <1>2, <1>10, <2>1, <3>1, <4>2, <4>3, <4>5 DEF Jumps
        <5> QED
          BY <5>1
      <4> QED
        BY <1>a, <4>1, <4>4, <4>5 DEF CaughtUp
    <3>2. CASE k.last_seq # Top /\ InPlace(d)
      <4>1. slots[k.read_pos].seq = k.last_seq + 1
        BY <3>2 DEF InPlace
      <4>2. k.read_pos # F
        BY <1>6, <3>0, <4>1
      <4>3. slots'[k.read_pos].seq = k.last_seq + 1
        BY <1>2, <2>1, <4>1, <4>2
      <4>4. slots'[k.last_read_pos].next = slots[k.last_read_pos].next
            /\ slots[k.last_read_pos].next \in Pos
        BY <1>1, <1>2, <3>0
      <4>5. slots'[slots[k.last_read_pos].next].seq > k.last_seq
        <5>1. CASE slots[k.last_read_pos].next = F
          BY <1>1, <1>2, <3>0, <5>1
        <5>2. CASE slots[k.last_read_pos].next # F
          BY <1>2, <1>4, <3>2, <4>4, <5>2 DEF InPlace
        <5> QED
          BY <5>1, <5>2
      <4>6. InPlace(d)'
        BY <2>1, <4>3, <4>4, <4>5 DEF InPlace
      <4> QED
        BY <4>6
    <3>3. CASE k.last_seq # Top /\ Jumps(d)
      <4>1. /\ slots[slots[k.last_read_pos].next].seq = k.last_seq + 1
            /\ slots[k.last_read_pos].seq = k.last_seq /\ k.read_pos # k.last_read_pos /\ th.c = d
            /\ OnPage /\ slots[Oldest].refs > 0
        BY <1>2, <3>3 DEF Jumps
      <4>2. slots[F].seq = 0
        BY <1>4, <4>1 DEF OnPage, OfNewPage
      <4>3. k.last_read_pos # F /\ slots[k.last_read_pos].next # F
        BY <3>0, <4>1, <4>2
      <4>4. /\ slots'[slots'[k.last_read_pos].next].seq = k.last_seq + 1
            /\ slots'[k.last_read_pos].seq = k.last_seq
        <5>1. slots'[k.last_read_pos].next = slots[k.last_read_pos].next
              /\ slots[k.last_read_pos].next \in Pos
          BY <1>1, <1>2, <3>0
        <5> QED
          BY <1>2, <3>0, <4>1, <4>3, <5>1
      <4>5. Jumps(d)'
        BY <1>2, <1>10, <2>1, <4>1, <4>4 DEF Jumps
      <4> QED
        BY <4>5
    <3> QED
      BY <2>1, <2>3, <3>1, <3>2, <3>3 DEF Reads
  <2> QED
    BY <2>2, <2>3
<1>12. Phase'
  <2>1. ASSUME NEW d \in Attached, cons[d].last_read_pos # None PROVE cons[d].last_seq # Top'
    BY <1>1, <1>2, <1>6, <2>1 DEF Reads
  <2> QED
    BY <1>2, <1>5, <2>1 DEF Phase
<1> QED
  BY <1>3, <1>5, <1>8, <1>9, <1>11, <1>12 DEF RInv

-----------------------------------------------------------------------------
\* A consumer that was not attached yet has read nothing.
NewUnread == \A c \in Consumers : state[c] = "new" => cons[c].last_seq = 0

\* No more than two sessions share the buffer at a time.
AtMostTwo == Cardinality(Attached) <= 2

(* OMSbuff_new leaves every slot empty. *)
LEMMA InitRInv == Init => RInv /\ NewUnread
<1> SUFFICES ASSUME Init PROVE RInv /\ NewUnread
  OBVIOUS
<1>1. NSlots \in Nat /\ NSlots > 1 /\ nslots = NSlots /\ Pos = 0 .. NSlots - 1 /\ Wp = NSlots - 1
  BY SlotsAssumption DEF Init, nslots, Pos, Wp
<1>2. \A s \in Pos : /\ slots[s].next = IF s = NSlots - 1 THEN 0 ELSE s + 1
                     /\ slots[s].seq = 0 /\ slots[s].refs = 0
  BY <1>1, NextOfInit DEF Init
<1>3. Top = 0 /\ Following = 0
  BY <1>1, <1>2 DEF Top, Following, Wp
<1>4. Empty = Pos
  BY <1>2 DEF Empty
<1>5. Attached = {}
  BY DEF Init, Attached
<1>6. Ring
  <2>1. \A s \in Pos : slots[s].next # s
    BY <1>1, <1>2
  <2>2. \A s \in Empty : s + 1 \in Pos => slots[s].next = s + 1
    BY <1>1, <1>2, <1>4
  <2> QED
    BY <1>1, <1>2, <1>3, <1>4, <2>1, <2>2 DEF Ring
<1>7. Vrp
  BY <1>2, <1>3 DEF Vrp, Init
<1>8. RefsAre
  <2>1. \A s : Readers(s) = {}
    BY <1>5 DEF Readers
  <2> QED
    BY <1>2, <2>1, FS_EmptySet DEF RefsAre
<1>9. Phase
  BY DEF Phase, Init
<1>10. NewUnread
  BY DEF NewUnread, Init
<1> QED
  BY <1>5, <1>6, <1>7, <1>8, <1>9, <1>10 DEF RInv

(* RInv, action by action. *)
LEMMA RInvKept ==
  ASSUME IInv, RInv, AtMostTwo, ~FailsOnNewPage, [Next]_vars PROVE RInv'
<1>1. CASE UNCHANGED vars
  <2>1. /\ nslots' = nslots /\ Pos' = Pos /\ Wp' = Wp /\ Top' = Top /\ Following' = Following
        /\ Empty' = Empty /\ Attached' = Attached /\ slots' = slots /\ cons' = cons /\ th' = th
        /\ control' = control /\ state' = state
    BY <1>1 DEF vars, nslots, Pos, Wp, Top, Following, Empty, Attached
  <2>2. SameRing
    BY <2>1 DEF SameRing
  <2>3. Ring' /\ RefsAre' /\ Oldest' = Oldest /\ \A c \in Consumers : Due(c)' = Due(c)
    BY <2>1, <2>2, RingSame, RefsSame, Unmoved DEF IInv, RInv
  <2>4. Vrp'
    BY <2>1 DEF RInv, Vrp
  <2>5. OnPage' = OnPage
    BY <2>1 DEF OnPage, OfNewPage
  <2>6. ASSUME NEW c \in Attached PROVE Reads(c)'
    <3>1. c \in Consumers /\ Reads(c)
      BY DEF Attached, RInv
    <3>2. Jumps(c) => Jumps(c)'
      BY <2>1, <2>3, <2>5 DEF Jumps
    <3> QED
      BY <2>1, <2>2, <2>3, <2>5, <3>1, <3>2, ReadsSame DEF IInv, RInv
  <2>7. Phase'
    <3>1. th.c \in Consumers
      BY DEF IInv, TypeOK
    <3>2. Due(th.c)' = Due(th.c)
      BY <2>1, <2>3, <3>1
    <3> QED
      BY <2>1, <3>2 DEF RInv, Phase
  <2> QED
    BY <2>1, <2>3, <2>4, <2>6, <2>7 DEF RInv
<1> QED
  BY <1>1, RefStep, SendPacketStep, UnrefStep, GetSlotNewPageStep, GetSlotReuseStep, CommitStep,
     NoCommitStep, GotReaderStep, NextTsStep, SendAgainStep, DrainStep DEF Next, Send, AtMostTwo

LEMMA NewUnreadKept ==
  ASSUME TypeOK, WorksForAttached, NewUnread, [Next]_vars PROVE NewUnread'
<1>0. /\ th \in ThType /\ state \in StateType /\ cons \in [Consumers -> ConsType]
  BY DEF TypeOK, ThType, StateType, ConsType
<1>1. ASSUME NEW c \in Consumers, Ref(c) PROVE NewUnread'
  BY <1>0, <1>1 DEF Ref, NewUnread, StateType, ConsType
<1>2. CASE GotReader \/ Drain
  <2>1. state[th.c] # "new" /\ th.c \in Consumers
    BY <1>0, <1>2 DEF GotReader, Drain, WorksForAttached, Attached, ThType
  <2>2. \A c \in Consumers : c # th.c => cons'[c] = cons[c] /\ state'[c] = state[c]
    BY <1>0, <1>2, <2>1 DEF GotReader, Drain, Advance, ThType, StateType
  <2>3. state'[th.c] # "new"
    BY <1>0, <1>2, <2>1 DEF GotReader, Drain, StateType
  <2> QED
    BY <2>2, <2>3 DEF NewUnread
<1>3. CASE UNCHANGED vars
  BY <1>3 DEF vars, NewUnread
<1>4. CASE \/ GetSlotNewPage \/ GetSlotReuse \/ Commit \/ NoCommit \/ NextTs \/ SendAgain
           \/ \E c \in Consumers : SendPacket(c) \/ Unref(c)
  <2>1. cons' = cons /\ \A c \in Consumers : state'[c] = "new" => state[c] = "new"
    BY <1>0, <1>4 DEF GetSlotNewPage, GetSlotReuse, Commit, NoCommit, NextTs, SendAgain,
                      SendPacket, Unref, StateType
  <2> QED
    BY <2>1 DEF NewUnread
<1> QED
  BY <1>1, <1>2, <1>3, <1>4 DEF Next, Send

(* RInv needs the two hypotheses: a third consumer, or a slot of a page that is
   given back empty, breaks it, and the code then skips packets. *)
LEMMA RInvInvariant ==
  ASSUME ~FailsOnNewPage PROVE Spec /\ []AtMostTwo => [](IInv /\ RInv /\ NewUnread)
<1>1. Init => IInv /\ RInv /\ NewUnread
  BY InitIInv, InitRInv
<1>3. AtMostTwo /\ (IInv /\ RInv /\ NewUnread) /\ [Next]_vars => (IInv /\ RInv /\ NewUnread)'
  BY IInvKept, RInvKept, NewUnreadKept DEF IInv
<1> QED
  BY <1>1, <1>3, PTL DEF Spec

-----------------------------------------------------------------------------
(* With no more than two sessions on the buffer at a time, and read_media filling
   every slot of a new page, OMSbuff_ref, OMSbuff_write, OMSbuff_gotreader and
   OMSbuff_unref keep every reference count exact: no slot is reused before it
   was read, and none is kept for ever. *)
THEOREM ReferencesExact ==
  ASSUME ~FailsOnNewPage PROVE Spec /\ []AtMostTwo => []RefsExact
<1>1. IInv /\ RInv => RefsExact
  <2> SUFFICES ASSUME IInv, RInv PROVE RefsExact
    OBVIOUS
  <2>1. \A c \in Attached : Cursor(c) = Due(c)
    BY CursorIsDue DEF IInv, RInv
  <2>2. \A s \in Pos : Readers(s) =
          {c \in Attached : slots[s].seq >= Cursor(c) /\ slots[s].seq > 0}
    BY <2>1 DEF Readers
  <2> QED
    BY <2>2 DEF IInv, RInv, RefsAre, RefsExact
<1> QED
  BY RInvInvariant, <1>1, PTL

(* RTP_send_packet never sends a slot that OMSbuff_write has not committed. *)
THEOREM SlotsSentWereWritten ==
  ASSUME ~FailsOnNewPage PROVE Spec /\ []AtMostTwo => []SendsWrittenSlots
<1>1. IInv /\ RInv => SendsWrittenSlots
  <2> SUFFICES ASSUME IInv, RInv, th.pc = "send" PROVE slots[th.s].seq > 0
    BY DEF SendsWrittenSlots
  <2>1. th.c \in Attached /\ th.c \in Consumers
    BY DEF IInv, WorksForAttached, TypeOK
  <2>2. slots[th.s].seq = Due(th.c)
    BY DEF RInv, Phase
  <2>3. Due(th.c) \in 1 .. Top + 1
    BY <2>1, DueFacts DEF IInv, RInv
  <2> QED
    BY <2>2, <2>3
<1> QED
  BY RInvInvariant, <1>1, PTL

\* ReadInOrder, for one step.
Ordered ==
  \A c \in Consumers :
    (cons'[c].last_seq # cons[c].last_seq /\ cons[c].last_seq # 0)
      => cons'[c].last_seq = cons[c].last_seq + 1

(* Only OMSbuff_ref and OMSbuff_gotreader move a consumer. *)
LEMMA MovesInOrder ==
  ASSUME IInv, RInv, NewUnread, [Next]_vars PROVE Ordered
<1>0. TypeOK /\ Ring
  BY DEF IInv, RInv
<1>1. ASSUME NEW d \in Consumers, Ref(d) PROVE Ordered
  <2>1. cons[d].last_seq = 0 /\ \A c \in Consumers : c # d => cons'[c] = cons[c]
    BY <1>0, <1>1 DEF Ref, NewUnread, TypeOK
  <2> QED
    BY <2>1 DEF Ordered
<1>2. ASSUME NEW d \in Attached, NEW s \in Pos, slots[s].seq = Due(d), Advance(d, s) PROVE Ordered
  <2>1. d \in Consumers /\ Reads(d)
    BY DEF Attached, RInv
  <2>2. cons'[d].last_seq = Due(d) /\ \A c \in Consumers : c # d => cons'[c] = cons[c]
    BY <1>0, <1>2, <2>1 DEF Advance, TypeOK
  <2>3. CASE cons[d].last_read_pos = None
    BY <2>1, <2>2, <2>3 DEF Ordered, Reads, Fresh
  <2>4. CASE cons[d].last_read_pos # None
    <3>1. Due(d) = cons[d].last_seq + 1
      BY <2>4 DEF Due
    <3> QED
      BY <2>2, <3>1 DEF Ordered
  <2> QED
    BY <2>3, <2>4
<1>3. CASE GotReader
  BY <1>2, <1>3, GotReaderAdvances
<1>4. CASE Drain
  <2>1. CASE cons' = cons
    BY <2>1 DEF Ordered
  <2> QED
    BY <1>2, <1>4, <2>1, DrainCases
<1>5. CASE \/ GetSlotNewPage \/ GetSlotReuse \/ Commit \/ NoCommit \/ NextTs \/ SendAgain
           \/ UNCHANGED vars \/ \E c \in Consumers : SendPacket(c) \/ Unref(c)
  <2>1. cons' = cons
    BY <1>5 DEF GetSlotNewPage, GetSlotReuse, Commit, NoCommit, NextTs, SendAgain, vars, SendPacket, Unref
  <2> QED
    BY <2>1 DEF Ordered
<1> QED
  BY <1>1, <1>3, <1>4, <1>5 DEF Next, Send

(* OMSbuff_getreader and OMSbuff_gotreader never make a consumer skip a packet
   or read one twice, wherever pages were put into the ring behind it. *)
THEOREM ReadsInOrder ==
  ASSUME ~FailsOnNewPage PROVE Spec /\ []AtMostTwo => ReadInOrder
<1>1. (IInv /\ RInv /\ NewUnread) /\ [Next]_vars => [Ordered]_vars
  BY MovesInOrder
<1>2. Spec /\ []AtMostTwo => [][Ordered]_vars
  BY RInvInvariant, <1>1, PTL DEF Spec
<1> QED
  BY <1>2 DEF ReadInOrder, Ordered

-----------------------------------------------------------------------------
(* The buffer as a log: the packets that are stored, and where everybody is. *)
Kept == {slots[s].seq : s \in Pos} \ {0}
Cursors == [c \in Consumers |-> CASE state[c] = "new"  -> 0
                                  [] state[c] = "gone" -> -1
                                  [] OTHER             -> Cursor(c)]

LEMMA CursorsAre ==
  ASSUME TypeOK, Ring, RefsAre, \A c \in Attached : Reads(c)
  PROVE  /\ Cursors = [c \in Consumers |-> IF c \in Attached THEN Due(c)
                                           ELSE IF state[c] = "new" THEN 0 ELSE -1]
         /\ \A c \in Consumers : Cursors[c] > 0 <=> c \in Attached
<1>1. ASSUME NEW c \in Consumers
      PROVE  /\ Cursors[c] = IF c \in Attached THEN Due(c) ELSE IF state[c] = "new" THEN 0 ELSE -1
             /\ c \in Attached => Due(c) \in 1 .. Top + 1
  <2>1. state[c] \in {"new", "attached", "stopped", "gone"}
    BY DEF TypeOK
  <2>2. c \in Attached => Cursor(c) = Due(c) /\ Due(c) \in 1 .. Top + 1
    BY CursorIsDue, DueFacts
  <2> QED
    BY <2>1, <2>2 DEF Cursors, Attached
<1>2. Top \in Nat
  BY SlotTypes
<1> QED
  BY <1>1, <1>2 DEF Cursors

LEMMA KeptSame ==
  ASSUME TypeOK, SameRing PROVE Kept' = Kept
<1>1. Pos' = Pos /\ \A s \in Pos : slots'[s].seq = slots[s].seq
  BY Unmoved DEF SameRing
<1> QED
  BY <1>1 DEF Kept

(* Everything from a packet that is stored up to the newest is stored. *)
LEMMA KeptFrom ==
  ASSUME TypeOK, Ring, NEW n \in 1 .. Top + 1, n <= Top => \E s \in Pos : slots[s].seq = n
  PROVE  n .. Top \subseteq Kept
<1> SUFFICES ASSUME NEW m \in n .. Top PROVE m \in Kept
  OBVIOUS
<1>1. Top \in Nat /\ n \in Nat /\ n > 0
  BY SlotTypes
<1>2. PICK s \in Pos : slots[s].seq = n
  BY <1>1
<1>3. s \in Pos \ Empty
  BY <1>1, <1>2 DEF Empty
<1>4. PICK t \in Pos : slots[t].seq = m
  BY <1>2, <1>3 DEF Ring
<1> QED
  BY <1>1, <1>4 DEF Kept

(* A step that leaves packets and positions alone is a step of nobody. *)
LEMMA LogStutter ==
  ASSUME Top' = Top, Kept' = Kept, Cursors' = Cursors PROVE UNCHANGED Log!vars
BY DEF Log!vars, Kept, Cursors

\* The state of a consumer as the log sees it.
Place(c) == IF c \in Attached THEN Due(c) ELSE IF state[c] = "new" THEN 0 ELSE -1

Placed == Cursors = [c \in Consumers |-> Place(c)] /\ \A c \in Consumers : Place(c) > 0 <=> c \in Attached

LEMMA PlacedNow == TypeOK /\ RInv => Placed
<1> SUFFICES ASSUME TypeOK, RInv PROVE Placed
  OBVIOUS
<1>1. Cursors = [c \in Consumers |-> Place(c)]
  BY CursorsAre DEF RInv, Place
<1>2. \A c \in Consumers : Cursors[c] = Place(c) /\ (Cursors[c] > 0 <=> c \in Attached)
  BY <1>1, CursorsAre DEF RInv
<1> QED
  BY <1>1, <1>2 DEF Placed

LEMMA PlacedNext == TypeOK' /\ RInv' => Placed'
BY PlacedNow, PTL

LEMMA CursorsSame ==
  ASSUME TypeOK, RInv, RInv', TypeOK', \A c \in Consumers : Place(c)' = Place(c)
  PROVE  Cursors' = Cursors
BY PlacedNow, PlacedNext DEF Placed

LEMMA Subscribes ==
  ASSUME IInv, RInv, RInv', TypeOK', NEW c \in Consumers, Ref(c)
  PROVE  Log!Subscribe(c)
<1> DEFINE v == control.valid_read_pos
           p == IF slots[v].seq > 0 THEN slots[v].seq ELSE Top + 1
<1>0. TypeOK /\ Ring /\ RefsAre /\ \A d \in Attached : Reads(d)
  BY DEF IInv, RInv
<1>1. /\ SameRing /\ c \notin Attached /\ Attached' = Attached \cup {c}
      /\ cons'[c] = [read_pos |-> v, last_read_pos |-> None, last_seq |-> 0]
      /\ \A d \in Consumers : d # c => cons'[d] = cons[d]
  BY RefEffect
<1>2. state[c] = "new" /\ \A d \in Consumers : d # c => state'[d] = state[d]
  BY <1>0 DEF Ref, TypeOK
<1>3. Top' = Top /\ Kept' = Kept
  BY <1>0, <1>1, Unmoved, KeptSame
<1>4. v \in Pos /\ slots[v].seq \in 0 .. Top /\ Top \in Nat
  BY <1>0, SlotTypes, RingFacts
<1>5. p \in 1 .. Top + 1 /\ (p <= Top => \E s \in Pos : slots[s].seq = p)
  BY <1>4
<1>6. p .. Top \subseteq Kept
  <2> HIDE DEF p
  <2> QED
    BY <1>0, <1>5, KeptFrom
<1>7. Due(c)' = p
  BY <1>1, <1>3, <1>4 DEF Due, SameRing
<1>8. Cursors = [d \in Consumers |-> Place(d)] /\ Cursors' = [d \in Consumers |-> Place(d)']
  BY <1>0, PlacedNow, PlacedNext DEF Placed
<1>9. Place(c) = 0 /\ Place(c)' = p
  BY <1>1, <1>2, <1>7 DEF Place
<1>10. ASSUME NEW d \in Consumers, d # c PROVE Place(d)' = Place(d)
  <2>1. Due(d)' = Due(d)
    BY <1>0, <1>1, <1>10, Unmoved
  <2> QED
    BY <1>1, <1>2, <1>10, <2>1 DEF Place
<1>11. Cursors[c] = 0 /\ Cursors' = [Cursors EXCEPT ![c] = p]
  <2> HIDE DEF p
  <2> QED
    BY <1>8, <1>9, <1>10
<1> HIDE DEF p
<1>12. \E q \in 1 .. Top + 1 : q .. Top \subseteq Kept /\ Cursors' = [Cursors EXCEPT ![c] = q]
  BY <1>5, <1>6, <1>11
<1> QED
  BY <1>3, <1>11, <1>12 DEF Log!Subscribe, Kept, Cursors

\* The packets somebody has still to read are all stored.
DueIsKept == \A c \in Attached : Due(c) .. Top \subseteq Kept

LEMMA DueKept == TypeOK /\ RInv => DueIsKept
<1> SUFFICES ASSUME TypeOK, RInv, NEW c \in Attached PROVE Due(c) .. Top \subseteq Kept
  BY DEF DueIsKept
<1>1. c \in Consumers /\ Reads(c) /\ Ring
  BY DEF Attached, RInv
<1>2. Due(c) \in 1 .. Top + 1 /\ (Due(c) <= Top => \E s \in Pos : slots[s].seq = Due(c))
  BY <1>1, DueFacts
<1> QED
  BY <1>1, <1>2, KeptFrom

LEMMA DueKeptNext == TypeOK' /\ RInv' => DueIsKept'
BY DueKept, PTL

LEMMA Publishes ==
  ASSUME IInv, RInv, RInv', TypeOK', Commit PROVE Log!Publish
<1>0. TypeOK /\ Ring
  BY DEF IInv, RInv
<1>1. PICK F \in Pos : F = Following
  BY <1>0, SlotTypes
<1>2. /\ Pos' = Pos /\ Top' = Top + 1 /\ cons' = cons /\ state' = state /\ slots'[F].seq = Top + 1
      /\ \A s \in Pos : s # F => slots'[s].seq = slots[s].seq
  BY <1>0, <1>1, CommitEffect
<1>3. Attached' = Attached
  BY <1>2 DEF Attached
<1>4. Cursors' = Cursors
  <2>1. \A c \in Consumers : Place(c)' = Place(c)
    BY <1>2, <1>3, CommitDue DEF Place
  <2> QED
    BY <1>0, <2>1, CursorsSame
<1>5. Kept' \subseteq Kept \cup {Top'}
  BY <1>2 DEF Kept
<1>6. Top' \in Kept'
  <2>1. Top \in Nat
    BY <1>0, SlotTypes
  <2> QED
    BY <1>2, <2>1 DEF Kept
<1>7. ASSUME NEW c \in Consumers, Cursors[c] > 0 PROVE Cursors[c] .. Top' \subseteq Kept'
  <2>1. c \in Attached /\ Cursors[c] = Due(c)
    BY <1>0, <1>7, PlacedNow DEF Placed, Place
  <2>2. Due(c)' = Due(c)
    BY <2>1, CommitDue
  <2>3. (Due(c) .. Top)' \subseteq Kept'
    BY <1>3, <2>1, DueKeptNext DEF DueIsKept
  <2> QED
    BY <2>1, <2>2, <2>3
<1> QED
  BY <1>2, <1>4, <1>5, <1>6, <1>7 DEF Log!Publish, Log!Subscribed, Kept, Cursors

LEMMA IsRead ==
  ASSUME IInv, RInv, RInv', TypeOK', NEW c \in Attached, NEW s \in Pos,
         slots[s].seq = Due(c), Advance(c, s), control' = control, state' = state
  PROVE  Log!Read(c)
<1>0. TypeOK /\ Ring /\ c \in Consumers /\ Reads(c)
  BY DEF IInv, RInv, Attached
<1>1. SameRing
  <2>1. slots \in [Pos -> Slot]
    BY <1>0 DEF TypeOK
  <2>2. \A t \in Pos : slots'[t].seq = slots[t].seq /\ slots'[t].next = slots[t].next
    BY <2>1 DEF Advance, Slot
  <2> QED
    BY <2>2 DEF SameRing, nslots, Wp
<1>2. Due(c) \in 1 .. Top + 1 /\ Top \in Nat
  BY <1>0, DueFacts, SlotTypes
<1>3. /\ cons'[c] = [read_pos |-> slots[s].next, last_read_pos |-> s, last_seq |-> slots[s].seq]
      /\ \A d \in Consumers : d # c => cons'[d] = cons[d]
  BY <1>0 DEF Advance, TypeOK
<1>4. Due(c)' = Due(c) + 1
  BY <1>0, <1>1, <1>2, <1>3, AdvanceReads
<1>5. Attached' = Attached
  BY DEF Attached
<1>6. Top' = Top /\ Kept' = Kept
  BY <1>0, <1>1, Unmoved, KeptSame
<1>7. \A d \in Consumers : d # c => Place(d)' = Place(d)
  BY <1>0, <1>1, <1>3, <1>5, Unmoved DEF Place
<1>8. Place(c) = Due(c) /\ Place(c)' = Due(c) + 1
  BY <1>4, <1>5 DEF Place
<1>9. Cursors = [d \in Consumers |-> Place(d)] /\ Cursors' = [d \in Consumers |-> Place(d)']
  BY <1>0, PlacedNow, PlacedNext DEF Placed
<1>10. Cursors[c] = Due(c) /\ Cursors' = [Cursors EXCEPT ![c] = Due(c) + 1]
  BY <1>0, <1>7, <1>8, <1>9
<1>11. Due(c) \in Kept
  BY <1>2 DEF Kept
<1> QED
  BY <1>6, <1>10, <1>11 DEF Log!Read, Kept, Cursors

LEMMA Unsubscribes ==
  ASSUME IInv, RInv, RInv', TypeOK', NEW c \in Attached, Due(c) = Top + 1, slots' = slots,
         cons' = cons, control' = control, state' = [state EXCEPT ![c] = "gone"]
  PROVE  Log!Unsubscribe(c)
<1>0. TypeOK /\ Ring /\ c \in Consumers
  BY DEF IInv, RInv, Attached
<1>1. SameRing
  BY DEF SameRing, nslots, Wp
<1>2. Top' = Top /\ Kept' = Kept /\ \A d \in Consumers : Due(d)' = Due(d)
  BY <1>0, <1>1, Unmoved, KeptSame
<1>3. /\ state'[c] = "gone" /\ \A d \in Consumers : d # c => state'[d] = state[d]
      /\ Attached' = Attached \ {c}
  BY <1>0 DEF TypeOK, Attached
<1>4. \A d \in Consumers : d # c => Place(d)' = Place(d)
  BY <1>2, <1>3 DEF Place
<1>5. Place(c) = Top + 1 /\ Place(c)' = -1
  BY <1>0, <1>3 DEF Place
<1>6. Cursors = [d \in Consumers |-> Place(d)] /\ Cursors' = [d \in Consumers |-> Place(d)']
  BY <1>0, PlacedNow, PlacedNext DEF Placed
<1>7. Cursors[c] = Top + 1 /\ Cursors' = [Cursors EXCEPT ![c] = -1]
  BY <1>0, <1>4, <1>5, <1>6
<1> QED
  BY <1>2, <1>7 DEF Log!Unsubscribe, Kept, Cursors

(* Everything else is internal to the buffer. *)
LEMMA Internal ==
  ASSUME IInv, RInv, RInv', TypeOK',
         \/ GetSlotNewPage \/ GetSlotReuse \/ NoCommit \/ NextTs \/ SendAgain \/ UNCHANGED vars
         \/ \E c \in Consumers : SendPacket(c) \/ Unref(c)
  PROVE  UNCHANGED Log!vars
<1>0. TypeOK /\ Ring /\ RefsAre /\ WorksForAttached
  BY DEF IInv, RInv
<1>1. cons' = cons
  BY DEF GetSlotNewPage, GetSlotReuse, NoCommit, NextTs, SendAgain, vars, SendPacket, Unref
<1>2. Attached' = Attached /\ \A c \in Consumers : c \notin Attached => state'[c] = state[c]
  <2>1. CASE NoCommit
    BY <1>0, <2>1 DEF NoCommit, Attached, WorksForAttached, TypeOK
  <2>2. ASSUME NEW c \in Consumers, Unref(c) PROVE state' = state
    BY <2>2, UnrefCounts
  <2>3. CASE ~NoCommit
    <3>1. state' = state
      BY <2>2, <2>3 DEF GetSlotNewPage, GetSlotReuse, NextTs, SendAgain, vars, SendPacket
    <3> QED
      BY <3>1 DEF Attached
  <2> QED
    BY <2>1, <2>3
<1>3. CASE GetSlotNewPage
  <2>1. Top' = Top
    BY <1>0, <1>3, PageEffect
  <2>2. Kept' = Kept
    <3>1. /\ Pos' = Pos \cup NewSlots /\ \A s \in NewSlots : slots'[s].seq = 0
          /\ \A s \in Pos : slots'[s].seq = slots[s].seq
      BY <1>0, <1>3, PageEffect
    <3> QED
      BY <3>1 DEF Kept
  <2>3. \A c \in Consumers : Place(c)' = Place(c)
    BY <1>0, <1>2, <1>3, PageDue DEF Place
  <2> QED
    BY <1>0, <2>1, <2>2, <2>3, CursorsSame, LogStutter
<1>4. CASE ~GetSlotNewPage
  <2>1. ~Commit
    <3> SUFFICES ASSUME Commit PROVE FALSE
      OBVIOUS
    <3>1. th.pc = "fill" /\ control'.write_pos = Following /\ Following # Wp
      BY <1>0, CommitEffect, RingFacts DEF Wp
    <3>2. control' # control
      BY <3>1 DEF Wp
    <3> QED
      BY <1>4, <3>1, <3>2 DEF GetSlotReuse, NoCommit, NextTs, SendAgain, vars, SendPacket, Unref
  <2>2. SameRing
    BY <1>0, <1>4, <2>1, SeqKept DEF Next, Send
  <2>3. Top' = Top /\ Kept' = Kept
    BY <1>0, <2>2, Unmoved, KeptSame
  <2>4. \A c \in Consumers : Place(c)' = Place(c)
    BY <1>0, <1>1, <1>2, <2>2, Unmoved DEF Place
  <2> QED
    BY <1>0, <2>3, <2>4, CursorsSame, LogStutter
<1> QED
  BY <1>3, <1>4

LEMMA InitLog == Init => Log!Init
<1> SUFFICES ASSUME Init PROVE Log!Init
  OBVIOUS
<1>1. NSlots \in Nat /\ NSlots > 1 /\ Pos = 0 .. NSlots - 1
  BY SlotsAssumption DEF Init, Pos, nslots
<1>2. \A s \in Pos : slots[s].seq = 0
  BY <1>1 DEF Init
<1>3. Top = 0
  BY <1>1, <1>2 DEF Init, Top
<1>4. Kept = {}
  BY <1>2 DEF Kept
<1>5. Cursors = [c \in Consumers |-> 0]
  BY DEF Init, Cursors
<1> QED
  BY <1>3, <1>4, <1>5 DEF Log!Init, Kept, Cursors

LEMMA LogStep ==
  ASSUME IInv, RInv, RInv', TypeOK', [Next]_vars PROVE [Log!Next]_(Log!vars)
<1>1. ASSUME NEW c \in Consumers, Ref(c) PROVE Log!Next
  BY <1>1, Subscribes DEF Log!Next
<1>2. CASE Commit
  BY <1>2, Publishes DEF Log!Next
<1>3. ASSUME NEW c \in Attached, NEW s \in Pos, slots[s].seq = Due(c), Advance(c, s),
             control' = control, state' = state
      PROVE  Log!Next
  <2>1. c \in Consumers
    BY DEF Attached
  <2> QED
    BY <1>3, <2>1, IsRead DEF Log!Next
<1>a. ASSUME NEW c \in Attached, Due(c) = Top + 1, slots' = slots, cons' = cons,
             control' = control, state' = [state EXCEPT ![c] = "gone"]
      PROVE  Log!Next
  <2>1. c \in Consumers
    BY DEF Attached
  <2>2. Log!Unsubscribe(c)
    BY <1>a, Unsubscribes
  <2> QED
    BY <2>1, <2>2 DEF Log!Next
<1>4. CASE GotReader
  BY <1>3, <1>4, GotReaderAdvances DEF GotReader
<1>5. CASE Drain
  <2>1. th.c \in Attached /\ th.c \in Consumers /\ control' = control
    BY <1>5, DrainCases
  <2>2. CASE state' = state /\ \E s \in Pos : slots[s].seq = Due(th.c) /\ Advance(th.c, s)
    BY <1>3, <2>1, <2>2
  <2>3. CASE /\ Due(th.c) = Top + 1 /\ slots' = slots /\ cons' = cons
             /\ state' = [state EXCEPT ![th.c] = "gone"]
    BY <1>a, <2>1, <2>3
  <2> QED
    BY <1>5, <2>2, <2>3, DrainCases
<1> QED
  BY <1>1, <1>2, <1>4, <1>5, Internal DEF Next, Send

(* The ring of slots, with its reference counts and the pages put into it,
   implements the log. *)
THEOREM BufferImplementsLog ==
  ASSUME ~FailsOnNewPage PROVE Spec /\ []AtMostTwo => ImplementsLog
<1>1. (IInv /\ RInv /\ NewUnread) /\ (IInv /\ RInv /\ NewUnread)' /\ [Next]_vars => [Log!Next]_(Log!vars)
  <2> SUFFICES ASSUME IInv, RInv, NewUnread, (IInv /\ RInv /\ NewUnread)', [Next]_vars
               PROVE  [Log!Next]_(Log!vars)
    OBVIOUS
  <2>1. TypeOK' /\ RInv'
    BY DEF IInv
  <2> QED
    BY <2>1, LogStep
<1>2. Spec /\ []AtMostTwo => Log!Spec
  BY <1>1, InitLog, RInvInvariant, PTL DEF Spec, Log!Spec
<1> QED
  BY <1>2 DEF ImplementsLog
=============================================================================
