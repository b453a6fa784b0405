------------------------- MODULE Adaptation_proofs -------------------------
(***************************************************************************)
(* Proofs about Adaptation, for every presentation that lists its entries  *)
(* in order, every set of sessions and reports, and without any bound on   *)
(* what happens.                                                           *)
(***************************************************************************)
EXTENDS Adaptation, FiniteSetTheorems, SequenceTheorems, TLAPS

-----------------------------------------------------------------------------
(* Entries are the numbers of the media list, and their order is the order   *)
(* of priorities and, the other way round, of rates.                         *)
LEMMA EntryNumbers ==
  /\ Entries = 1 .. Len(MeList) /\ Len(MeList) \in Nat \ {0} /\ 1 \in Entries
  /\ \A e \in Entries : Rate(e) \in Nat /\ Priority(e) = e
<1>1. /\ Len(MeList) \in Nat /\ Entries = 1 .. Len(MeList)
      /\ \A e \in Entries : MeList[e] \in [rate : Nat, priority : Nat]
  BY ListAssumption, LenProperties, ElementOfSeq DEF Entries
<1>2. Len(MeList) # 0
  BY ListAssumption, EmptySeq, LenProperties
<1>3. \A e \in Entries : Rate(e) \in Nat /\ Priority(e) = e
  BY <1>1, OrderAssumption DEF Rate, Priority
<1> QED
  BY <1>1, <1>2, <1>3

LEMMA RatesFall ==
  ASSUME NEW e \in Entries, NEW f \in Entries
  PROVE  /\ f < e <=> Rate(f) > Rate(e)
         /\ Rate(e) = Rate(f) <=> e = f
<1>1. f < e => Rate(f) > Rate(e)
  BY EntryNumbers, OrderAssumption DEF Rate
<1>2. e < f => Rate(e) > Rate(f)
  BY EntryNumbers, OrderAssumption DEF Rate
<1> QED
  BY <1>1, <1>2, EntryNumbers

(* search_media finds a wanted entry, when at most one is wanted. *)
LEMMA SearchFinds ==
  ASSUME NEW wanted \in SUBSET Entries, \A e, f \in wanted : e = f
  PROVE  /\ search_media(wanted) \in wanted \cup {0}
         /\ search_media(wanted) = 0 <=> wanted = {}
<1>1. CASE wanted = {}
  BY <1>1 DEF search_media
<1>2. CASE wanted # {}
  <2>1. PICK e \in wanted : wanted = {e}
    BY <1>2
  <2>2. e \in Int /\ e # 0
    BY EntryNumbers
  <2>3. Min(wanted) = e
    BY <2>1, <2>2 DEF Min
  <2> QED
    BY <1>2, <2>1, <2>2, <2>3 DEF search_media
<1> QED
  BY <1>1, <1>2

-----------------------------------------------------------------------------
(* Where a verdict leads to. *)

LEMMA RatesOfLadder == Rates \subseteq Nat /\ Rates \subseteq Ladder
BY EntryNumbers DEF Rates

(* One rate, or none, is the next one below a bound. *)
LEMMA DownIsBelow ==
  ASSUME NEW top \in Int, NEW tops \in SUBSET {top}
  PROVE  LET f == Down(tops) IN f = 0 \/ (f \in Entries /\ tops # {} /\ Rate(f) <= top)
<1> DEFINE wanted == {e \in Entries : Rate(e) \in Below(tops)}
<1>1. \A q, r \in Below(tops) : q = r /\ r <= top
  BY RatesOfLadder DEF Below
<1>2. \A e, f \in wanted : e = f
  BY <1>1, RatesFall
<1>3. search_media(wanted) \in wanted \cup {0}
  BY <1>2, SearchFinds
<1>4. wanted # {} => tops # {}
  BY DEF Below
<1> QED
  BY <1>1, <1>3, <1>4 DEF Down

LEMMA UpIsAbove ==
  ASSUME NEW bottom \in Int, NEW bottoms \in SUBSET {bottom}
  PROVE  LET f == Up(bottoms) IN f = 0 \/ (f \in Entries /\ bottoms # {} /\ Rate(f) >= bottom)
<1> DEFINE wanted == {e \in Entries : Rate(e) \in Above(bottoms)}
<1>1. \A q, r \in Above(bottoms) : q = r /\ r >= bottom
  BY RatesOfLadder DEF Above
<1>2. \A e, f \in wanted : e = f
  BY <1>1, RatesFall
<1>3. search_media(wanted) \in wanted \cup {0}
  BY <1>2, SearchFinds
<1>4. wanted # {} => bottoms # {}
  BY DEF Above
<1> QED
  BY <1>1, <1>3, <1>4 DEF Up

(* Half of a rate is less than the rate: the ladder has no gap of an octave. *)
LEMMA HalfIsLess ==
  ASSUME NEW rate \in Nat
  PROVE  \A r \in Half(rate) : r \in Nat /\ r < rate /\ \A q \in Half(rate) : q = r
<1>1. Ladder \subseteq Nat
  BY DEF Ladder
<1>2. rate \in Ladder /\ rate >= 16 => \E q \in Ladder : q < rate /\ 2 * q >= rate
  BY SMTT(60) DEF Ladder
<1>3. ASSUME NEW r \in Half(rate), NEW q \in Half(rate) PROVE q = r
  BY <1>1, <1>3 DEF Half
<1>4. ASSUME NEW r \in Half(rate) PROVE r \in Nat /\ r < rate
  BY <1>1, <1>2, <1>4 DEF Half
<1> QED
  BY <1>3, <1>4

LEMMA HalfMoves ==
  ASSUME NEW e \in Entries
  PROVE  half_MP3(e) = 0 \/ (half_MP3(e) \in Entries /\ Rate(half_MP3(e)) < Rate(e))
<1> DEFINE half == Half(Rate(e))
<1>1. Rate(e) \in Nat
  BY EntryNumbers
<1>2. CASE half = {}
  <2>1. half_MP3(e) = 0
    BY <1>2, DownIsBelow, 0 \in Int DEF half_MP3
  <2> QED
    BY <2>1
<1>3. CASE half # {}
  <2>1. PICK r \in half : TRUE
    BY <1>3
  <2>2. r \in Int /\ r < Rate(e) /\ half \in SUBSET {r}
    BY <1>1, <2>1, HalfIsLess
  <2>3. half_MP3(e) = 0 \/ (half_MP3(e) \in Entries /\ Rate(half_MP3(e)) <= r)
    BY <2>2, DownIsBelow DEF half_MP3
  <2> QED
    BY <1>1, <2>2, <2>3, EntryNumbers
<1> QED
  BY <1>2, <1>3

LEMMA DowngradeMoves ==
  ASSUME NEW e \in Entries
  PROVE  downgrade_MP3(e) = 0 \/ (downgrade_MP3(e) \in Entries /\ Rate(downgrade_MP3(e)) < Rate(e))
<1>1. Rate(e) \in Nat /\ Rate(e) - 1 \in Int
  BY EntryNumbers
<1>2. {r - 1 : r \in {Rate(e)} \cap Ladder} \in SUBSET {Rate(e) - 1}
  OBVIOUS
<1>3. downgrade_MP3(e) = 0 \/ (downgrade_MP3(e) \in Entries /\ Rate(downgrade_MP3(e)) <= Rate(e) - 1)
  BY <1>1, <1>2, DownIsBelow DEF downgrade_MP3
<1> QED
  BY <1>1, <1>3, EntryNumbers

LEMMA UpgradeMoves ==
  ASSUME NEW e \in Entries
  PROVE  upgrade_MP3(e) = 0 \/ (upgrade_MP3(e) \in Entries /\ Rate(upgrade_MP3(e)) > Rate(e))
<1>1. Rate(e) \in Nat /\ Rate(e) + 1 \in Int
  BY EntryNumbers
<1>2. {r + 1 : r \in {Rate(e)} \cap Ladder} \in SUBSET {Rate(e) + 1}
  OBVIOUS
<1>3. upgrade_MP3(e) = 0 \/ (upgrade_MP3(e) \in Entries /\ Rate(upgrade_MP3(e)) >= Rate(e) + 1)
  BY <1>1, <1>2, UpIsAbove DEF upgrade_MP3
<1> QED
  BY <1>1, <1>3, EntryNumbers

(* The entry behind, or in front of, another one; none only at the ends. *)
LEMMA PriorityMoves ==
  ASSUME NEW e \in Entries
  PROVE  /\ priority_decrease(e) = IF e + 1 \in Entries THEN e + 1 ELSE 0
         /\ priority_increase(e) = IF e = 1 THEN 0 ELSE e - 1
<1> DEFINE Wanted(n) == {f \in Entries : Priority(f) = n}
<1>1. \A n \in Int : search_media(Wanted(n)) = IF n \in Entries THEN n ELSE 0
  <2> SUFFICES ASSUME NEW n \in Int PROVE search_media(Wanted(n)) = IF n \in Entries THEN n ELSE 0
    OBVIOUS
  <2>1. Wanted(n) = {n} \cap Entries
    BY EntryNumbers
  <2>2. /\ search_media(Wanted(n)) \in Wanted(n) \cup {0}
        /\ search_media(Wanted(n)) = 0 <=> Wanted(n) = {}
    BY <2>1, SearchFinds
  <2> QED
    BY <2>1, <2>2
<1>2. e \in Int /\ e + 1 \in Int /\ e - 1 \in Int /\ Priority(e) = e /\ (e # 1 => e - 1 \in Entries)
  BY EntryNumbers
<1>3. priority_decrease(e) = search_media(Wanted(e + 1))
  BY <1>2 DEF priority_decrease
<1>4. priority_increase(e) = IF e = 1 THEN 0 ELSE search_media(Wanted(e - 1))
  BY <1>2 DEF priority_increase
<1> QED
  BY <1>1, <1>2, <1>3, <1>4

(* What a verdict finds is in its direction; it finds nothing only at the end. *)
LEMMA TargetIsThere ==
  ASSUME NEW e \in Entries, NEW v \in {-2, -1, 0, 1}
  PROVE  LET f == Target(e, v)
         IN /\ f \in Entries \cup {0}
            /\ f # 0 => IF v > 0 THEN Rate(f) > Rate(e) ELSE v < 0 /\ Rate(f) < Rate(e)
            /\ f = 0 /\ v < 0 => \A g \in Entries : Rate(g) >= Rate(e)
            /\ f = 0 /\ v > 0 => \A g \in Entries : Rate(g) <= Rate(e)
<1>1. /\ e \in Nat /\ (e + 1 \in Entries => Rate(e + 1) < Rate(e))
      /\ e # 1 => e - 1 \in Entries /\ Rate(e - 1) > Rate(e)
      /\ 0 \notin Entries
  BY EntryNumbers, RatesFall
<1>2. e + 1 \notin Entries => \A g \in Entries : Rate(g) >= Rate(e)
  BY EntryNumbers, RatesFall
<1>3. e = 1 => \A g \in Entries : Rate(g) <= Rate(e)
  BY EntryNumbers, RatesFall
<1>4. CASE v = -2
  BY <1>1, <1>2, <1>4, HalfMoves, PriorityMoves DEF Target, OrElse
<1>5. CASE v = -1
  BY <1>1, <1>2, <1>5, DowngradeMoves, PriorityMoves DEF Target, OrElse
<1>6. CASE v = 1
  BY <1>1, <1>3, <1>6, UpgradeMoves, PriorityMoves DEF Target, OrElse
<1>7. CASE v = 0
  BY <1>7 DEF Target
<1> QED
  BY <1>4, <1>5, <1>6, <1>7

LEMMA Verdicts ==
  ASSUME NEW c \in RTCP_stats
  PROVE  change_check(c) \in {-2, -1, 0, 1}
BY DEF change_check

-----------------------------------------------------------------------------
(* Types. *)

LEMMA CounterType ==
  ASSUME NEW f \in [Sessions -> Int], NEW s, NEW n \in Int
  PROVE  [f EXCEPT ![s] = n] \in [Sessions -> Int]
OBVIOUS

LEMMA SpendType ==
  ASSUME budget \in Bounded, NEW kind \in {"requests", "ends", "timeouts"}, Spend(kind)
  PROVE  budget' \in Bounded
<1>1. CASE kind = "requests"
  BY <1>1 DEF Spend, Bounded
<1>2. CASE kind = "ends"
  BY <1>2 DEF Spend, Bounded
<1>3. CASE kind = "timeouts"
  BY <1>3 DEF Spend, Bounded
<1> QED
  BY <1>1, <1>2, <1>3

LEMMA QueueType ==
  ASSUME NEW q \in Seq(Packet), NEW type \in {"SR", "RR", "SDES", "BYE"}
  PROVE  RTCP_send_packet(q, type) \in Seq(Packet)
<1>1. Size(type) \in Nat
  BY BoundAssumption DEF Size
<1>2. [type |-> type, size |-> Size(type)] \in Packet
  BY <1>1 DEF Packet
<1> QED
  BY <1>2, AppendProperties DEF RTCP_send_packet

(* The BYEs in a queue, and what a packet behind it adds. *)
ByeSet(q) == {i \in DOMAIN q : q[i].type = "BYE"}

LEMMA ByeSetFinite ==
  ASSUME NEW q \in Seq(Packet)
  PROVE  IsFiniteSet(ByeSet(q)) /\ Byes(q) \in Nat
<1>1. ByeSet(q) \subseteq 1 .. Len(q) /\ Len(q) \in Nat
  BY LenProperties DEF ByeSet
<1>2. IsFiniteSet(1 .. Len(q))
  BY <1>1, FS_Interval
<1>3. IsFiniteSet(ByeSet(q))
  BY <1>1, <1>2, FS_Subset
<1> QED
  BY <1>3, FS_CardinalityType DEF Byes, ByeSet

LEMMA ByesQueued ==
  ASSUME NEW q \in Seq(Packet), NEW type \in {"SR", "RR", "SDES", "BYE"}
  PROVE  LET n == Byes(RTCP_send_packet(q, type))
         IN  n = Byes(q) \/ (type = "BYE" /\ n = Byes(q) + 1)
<1> DEFINE p == [type |-> type, size |-> Size(type)]
           r == Append(q, p)
<1>1. p \in Packet /\ p.type = type
  BY BoundAssumption DEF Size, Packet
<1>2. /\ r \in Seq(Packet) /\ Len(r) = Len(q) + 1
      /\ \A i \in 1 .. Len(q) : r[i] = q[i]
      /\ r[Len(q) + 1] = p
  BY <1>1, AppendProperties
<1>3. DOMAIN r = 1 .. Len(q) + 1 /\ DOMAIN q = 1 .. Len(q) /\ Len(q) \in Nat
  BY <1>2, LenProperties
<1> HIDE DEF p, r
<1>4. CASE type # "BYE"
  <2>1. ByeSet(r) = ByeSet(q)
    BY <1>1, <1>2, <1>3, <1>4 DEF ByeSet
  <2> QED
    BY <2>1 DEF Byes, ByeSet, RTCP_send_packet, p, r
<1>5. CASE type = "BYE"
  <2>1. ByeSet(r) = ByeSet(q) \cup {Len(q) + 1} /\ Len(q) + 1 \notin ByeSet(q)
    BY <1>1, <1>2, <1>3, <1>5 DEF ByeSet
  <2>2. Byes(r) = Byes(q) + 1
    BY <2>1, ByeSetFinite, FS_AddElement DEF Byes, ByeSet
  <2> QED
    BY <1>5, <2>2 DEF RTCP_send_packet, p, r
<1> QED
  BY <1>4, <1>5

LEMMA ComposedType ==
  ASSUME TypeOK, NEW s \in Sessions PROVE Composed(s) \in Seq(Packet)
<1>1. out[s] \in Seq(Packet)
  BY DEF TypeOK
<1> DEFINE report == IF pkts[s] = 0 THEN "RR" ELSE "SR"
<1>2. RTCP_send_packet(out[s], report) \in Seq(Packet)
  BY <1>1, QueueType
<1> QED
  BY <1>2, QueueType DEF Composed

LEMMA BufferType ==
  ASSUME TypeOK, NEW s \in Sessions
  PROVE  CurBuf(s) \in 0 .. Len(refs) /\ Buffers = 1 .. Len(refs) /\ Len(refs) \in Nat
BY LenProperties DEF TypeOK, CurBuf, Buffers

LEMMA CountType ==
  ASSUME TypeOK, NEW s \in Sessions, NEW n \in Nat
  PROVE  [client EXCEPT ![s].rr = n] \in [Sessions -> RTCP_stats]
<1>1. \A c \in RTCP_stats : [c EXCEPT !.rr = n] \in RTCP_stats
  BY DEF RTCP_stats
<1>2. client \in [Sessions -> RTCP_stats]
  BY DEF TypeOK
<1>3. client[s] \in RTCP_stats
  BY <1>2
<1> QED
  BY <1>1, <1>2, <1>3

LEMMA LossType ==
  ASSUME TypeOK, NEW s \in Sessions, NEW l \in 0 .. 255, NEW j \in Nat
  PROVE  [client EXCEPT ![s].loss = l, ![s].jitter = j] \in [Sessions -> RTCP_stats]
<1>1. \A c \in RTCP_stats : [[c EXCEPT !.loss = l] EXCEPT !.jitter = j] \in RTCP_stats
  BY DEF RTCP_stats
<1>2. client \in [Sessions -> RTCP_stats]
  BY DEF TypeOK
<1>3. client[s] \in RTCP_stats
  BY <1>2
<1>4. [client EXCEPT ![s].loss = l, ![s].jitter = j]
        = [client EXCEPT ![s] = [[client[s] EXCEPT !.loss = l] EXCEPT !.jitter = j]]
  BY <1>2
<1> QED
  BY <1>1, <1>2, <1>3, <1>4

LEMMA InitType == Init => TypeOK
<1> SUFFICES ASSUME Init PROVE TypeOK
  OBVIOUS
<1>1. refs \in Seq(Int) /\ Len(refs) = 0 /\ freed \subseteq Buffers
  BY EmptySeq DEF Init
<1>2. out \in [Sessions -> Seq(Packet)]
  BY EmptySeq DEF Init
<1>3. cur \in [Sessions -> [entry : Entries, own : BOOLEAN]]
  BY EntryNumbers DEF Init
<1>4. main \in MainStates /\ th \in ThreadStates
  BY DEF Init, Idle, MainStates, ThreadStates
<1>5. budget \in Bounded
  BY BoundAssumption DEF Init
<1>6. adapt \in [Sessions -> Bounds] /\ client \in [Sessions -> RTCP_stats]
  BY DEF Init, Bounds, RTCP_stats
<1>7. /\ ownBuf \in [Sessions -> 0 .. Len(refs)] /\ entryBuf \in [Entries -> 0 .. Len(refs)]
      /\ cons \in [Sessions -> 0 .. Len(refs)]
  BY <1>1 DEF Init
<1>8. pkts \in [Sessions -> 0 .. Interval] /\ credit \in [Sessions -> Int] /\ owed \in [Sessions -> Int]
  BY BoundAssumption DEF Init
<1>9. life \in [Sessions -> {"none", "live", "removed"}]
  BY DEF Init
<1>10. pause \in [Sessions -> BOOLEAN] /\ started \in [Sessions -> BOOLEAN] /\ crossed \in BOOLEAN
  BY DEF Init
<1> QED
  BY <1>1, <1>2, <1>3, <1>4, <1>5, <1>6, <1>7, <1>8, <1>9, <1>10 DEF TypeOK

(* SETUP. *)
LEMMA SetupType ==
  ASSUME TypeOK, NEW s \in Sessions, NEW e \in Entries, Setup(s, e)
  PROVE  TypeOK'
<1>1. /\ refs' \in Seq(Int) /\ Len(refs') \in Nat /\ Len(refs) <= Len(refs')
      /\ DOMAIN refs' = 1 .. Len(refs') /\ DOMAIN refs = 1 .. Len(refs)
      /\ Len(refs) \in Nat
  <2>1. refs \in Seq(Int) /\ Append(refs, 0) \in Seq(Int) /\ Len(Append(refs, 0)) = Len(refs) + 1
    BY AppendProperties DEF TypeOK
  <2>2. refs' = Append(refs, 0) \/ refs' = refs
    BY DEF Setup
  <2> QED
    BY <2>1, <2>2, LenProperties
<1>2. /\ ownBuf' \in [Sessions -> 0 .. Len(refs')] /\ entryBuf' \in [Entries -> 0 .. Len(refs')]
      /\ cons' \in [Sessions -> 0 .. Len(refs')] /\ freed' \subseteq DOMAIN refs'
  <2>1. 0 .. Len(refs) \subseteq 0 .. Len(refs') /\ 0 \in 0 .. Len(refs') /\ Len(refs') \in 0 .. Len(refs')
    BY <1>1
  <2>2. entryBuf \in [Entries -> 0 .. Len(refs')]
    BY <2>1 DEF TypeOK
  <2>3. \E b \in 0 .. Len(refs') : ownBuf' = [ownBuf EXCEPT ![s] = b]
    BY <2>1, <2>2 DEF Setup
  <2>4. ownBuf' \in [Sessions -> 0 .. Len(refs')]
    BY <2>1, <2>3 DEF TypeOK
  <2>5. cons' \in [Sessions -> 0 .. Len(refs')]
    BY <2>1 DEF TypeOK, Setup
  <2>6. freed' \subseteq DOMAIN refs'
    <3>1. freed \subseteq 1 .. Len(refs) /\ freed' = freed
      BY <1>1 DEF TypeOK, Setup, Buffers
    <3>2. 1 .. Len(refs) \subseteq 1 .. Len(refs')
      BY <1>1
    <3> QED
      BY <1>1, <3>1, <3>2
  <2> QED
    BY <2>2, <2>4, <2>5, <2>6 DEF Setup
<1>3. budget' \in Bounded
  BY SpendType DEF Setup, Request, TypeOK
<1>4. /\ life' \in [Sessions -> {"none", "live", "removed"}]
      /\ cur' \in [Sessions -> [entry : Entries, own : BOOLEAN]]
      /\ pause' \in [Sessions -> BOOLEAN] /\ started' \in [Sessions -> BOOLEAN] /\ crossed' \in BOOLEAN
  BY DEF TypeOK, Setup
<1>5. adapt' \in [Sessions -> Bounds] /\ client' \in [Sessions -> RTCP_stats]
  BY DEF TypeOK, Setup, Bounds, RTCP_stats
<1>6. /\ pkts' \in [Sessions -> 0 .. Interval] /\ out' \in [Sessions -> Seq(Packet)]
      /\ credit' \in [Sessions -> Int] /\ owed' \in [Sessions -> Int]
  BY EmptySeq, BoundAssumption DEF TypeOK, Setup
<1>7. main' \in MainStates /\ th' \in ThreadStates
  BY DEF TypeOK, Setup
<1> QED
  BY <1>1, <1>2, <1>3, <1>4, <1>5, <1>6, <1>7 DEF TypeOK, Buffers

(* schedule_start. *)
LEMMA StartType ==
  ASSUME TypeOK, NEW s \in Sessions, Start(s), budget' \in Bounded
  PROVE  TypeOK'
<1>1. refs' \in Seq(Int) /\ Len(refs') = Len(refs) /\ DOMAIN refs' = DOMAIN refs
  <2>1. refs \in Seq(Int)
    BY DEF TypeOK
  <2>2. \A b \in DOMAIN refs : [refs EXCEPT ![b] = @ + 1] \in Seq(Int)
                              /\ Len([refs EXCEPT ![b] = @ + 1]) = Len(refs)
                              /\ DOMAIN [refs EXCEPT ![b] = @ + 1] = DOMAIN refs
    BY <2>1, ExceptSeq, ElementOfSeq, LenProperties
  <2>3. refs' = refs \/ \E b \in DOMAIN refs : refs' = [refs EXCEPT ![b] = @ + 1]
    BY DEF Start, Usable, Buffers
  <2> QED
    BY <2>1, <2>2, <2>3
<1>2. cons' \in [Sessions -> 0 .. Len(refs)]
  <2>1. cons' = cons \/ cons' = [cons EXCEPT ![s] = CurBuf(s)]
    BY DEF Start
  <2> QED
    BY <2>1, BufferType DEF TypeOK
<1>3. main' \in MainStates
  BY DEF Start, MainStates
<1>4. pause' \in [Sessions -> BOOLEAN]
  BY DEF Start, TypeOK
<1>5. credit' \in [Sessions -> Int]
  <2>1. credit' = [credit EXCEPT ![s] = credit[s]] \/ credit' = [credit EXCEPT ![s] = credit[s] + 2]
    BY DEF Start
  <2> QED
    BY <2>1 DEF TypeOK
<1> QED
  BY <1>1, <1>2, <1>3, <1>4, <1>5 DEF Start, TypeOK, Buffers

(* The requests and reports. *)
LEMMA MainType ==
  ASSUME TypeOK, Main PROVE TypeOK'
<1>1. ASSUME NEW s \in Sessions, NEW e \in Entries, Setup(s, e) PROVE TypeOK'
  BY <1>1, SetupType
<1>2. ASSUME Request PROVE budget' \in Bounded
  BY <1>2, SpendType DEF Request, TypeOK
<1>3. ASSUME NEW s \in Sessions, PlayAll(s) PROVE TypeOK'
  <2>1. CASE Start(s)
    BY <1>2, <1>3, <2>1, StartType DEF PlayAll
  <2>2. CASE ~Start(s)
    <3>1. pause' \in [Sessions -> BOOLEAN]
      BY <1>3, <2>2 DEF PlayAll, TypeOK
    <3> QED
      BY <1>2, <1>3, <2>2, <3>1 DEF PlayAll, TypeOK, media, hist, Buffers
  <2> QED
    BY <2>1, <2>2
<1>4. ASSUME NEW s \in Sessions, PlayFile(s) PROVE TypeOK'
  BY <1>2, <1>4, StartType DEF PlayFile
<1>5. ASSUME NEW s \in Sessions, Pause(s) PROVE TypeOK'
  <2>1. pause' \in [Sessions -> BOOLEAN]
    BY <1>5 DEF Pause, TypeOK
  <2> QED
    BY <1>2, <1>5, <2>1 DEF Pause, TypeOK, media, hist, Buffers
<1>6. ASSUME NEW s \in Sessions, Teardown(s) PROVE TypeOK'
  <2>1. life' \in [Sessions -> {"none", "live", "removed"}]
    BY <1>6 DEF Teardown, TypeOK
  <2> QED
    BY <1>2, <1>6, <2>1 DEF Teardown, TypeOK, media, hist, Buffers
<1>7. ASSUME NEW s \in Sessions, RTCP_recv_packet(s) PROVE TypeOK'
  <2>1. budget.reports \in Seq(Reports) /\ budget.reports # << >>
    BY <1>7 DEF RTCP_recv_packet, TypeOK, Bounded
  <2>2. Head(budget.reports) \in Reports /\ Tail(budget.reports) \in Seq(Reports)
    BY <2>1, HeadTailProperties
  <2>3. budget' \in Bounded
    BY <1>7, <2>2 DEF RTCP_recv_packet, TypeOK, Bounded
  <2>4. main' \in MainStates
    BY <1>7, <2>2 DEF RTCP_recv_packet, MainStates
  <2>5. client' \in [Sessions -> RTCP_stats]
    <3>1. client[s].rr + 1 \in Nat
      BY DEF TypeOK, RTCP_stats
    <3> QED
      BY <1>7, <3>1, CountType DEF RTCP_recv_packet
  <2>6. credit' \in [Sessions -> Int]
    BY <1>7 DEF RTCP_recv_packet, TypeOK
  <2> QED
    BY <1>7, <2>3, <2>4, <2>5, <2>6 DEF RTCP_recv_packet, TypeOK, media, Buffers
<1>8. ASSUME StartFlags PROVE TypeOK'
  <2>1. main.s \in Sessions /\ main' \in MainStates
    BY <1>8 DEF StartFlags, TypeOK, MainStates
  <2>2. started' \in [Sessions -> BOOLEAN] /\ adapt' \in [Sessions -> Bounds]
    BY <1>8, <2>1 DEF StartFlags, TypeOK, Bounds
  <2> QED
    BY <1>8, <2>1, <2>2 DEF StartFlags, TypeOK, media, hist, Buffers
<1>9. ASSUME StartCounts PROVE TypeOK'
  <2>1. main.s \in Sessions /\ main' \in MainStates
    BY <1>9 DEF StartCounts, TypeOK, MainStates, Idle
  <2>2. client' \in [Sessions -> RTCP_stats]
    BY <1>9, <2>1, CountType DEF StartCounts
  <2> QED
    BY <1>9, <2>1, <2>2 DEF StartCounts, TypeOK, media, hist, Buffers
<1>10. ASSUME RecvReport PROVE TypeOK'
  <2>1. main.s \in Sessions /\ main.report \in [loss : 0 .. 255, jitter : Nat] /\ main' \in MainStates
    BY <1>10, ReportAssumption DEF RecvReport, TypeOK, MainStates, Idle
  <2>2. StoredJitter(main.report.jitter) \in Nat
    BY <2>1 DEF StoredJitter, HighByte
  <2>3. client' \in [Sessions -> RTCP_stats]
    BY <1>10, <2>1, <2>2, LossType DEF RecvReport
  <2> QED
    BY <1>10, <2>1, <2>3 DEF RecvReport, TypeOK, media, hist, Buffers
<1> QED
  BY <1>1, <1>3, <1>4, <1>5, <1>6, <1>7, <1>8, <1>9, <1>10 DEF Main

(* The session the scheduler thread has in hand. *)
InHand == th.pc \in {"judge", "rtcp", "play"}

LEMMA ThreadType ==
  ASSUME TypeOK, InHand
  PROVE  /\ th.s \in Sessions /\ th.count \in Nat
         /\ [th EXCEPT !.pc = "rtcp"] \in ThreadStates /\ [th EXCEPT !.pc = "play"] \in ThreadStates
<1>1. th \in [pc : {"judge", "rtcp", "play"}, s : Sessions, count : Nat]
  BY DEF TypeOK, InHand, ThreadStates
<1> QED
  BY <1>1 DEF ThreadStates

LEMMA SimpleStates ==
  /\ Idle \in MainStates /\ Idle \in ThreadStates
  /\ [pc |-> "undefined"] \in ThreadStates
  /\ \A s \in Sessions, n \in Nat, p \in {"judge", "rtcp", "play"} :
       [pc |-> p, s |-> s, count |-> n] \in ThreadStates
BY DEF Idle, MainStates, ThreadStates

(* stream_switch and the bounds. *)
LEMMA AdaptType ==
  ASSUME TypeOK, Adapt
  PROVE  TypeOK'
<1> DEFINE s == th.s
           e == cur[s].entry
           v == change_check(client[s])
           target == IF Stopped(adapt[s], v) THEN 0 ELSE Target(e, v)
<1>1. s \in Sessions /\ th.count \in Nat /\ th' \in ThreadStates
  BY ThreadType DEF Adapt, InHand
<1>2. e \in Entries /\ client[s] \in RTCP_stats /\ adapt[s] \in Bounds
  BY <1>1 DEF TypeOK
<1>3. target \in Entries \cup {0}
  BY <1>2, Verdicts, TargetIsThere
<1>4. cur' \in [Sessions -> [entry : Entries, own : BOOLEAN]]
  <2>1. CASE target = 0
    BY <2>1 DEF Adapt, TypeOK
  <2>2. CASE target # 0
    <3>1. cur' = [cur EXCEPT ![s] = [entry |-> target, own |-> FALSE]] /\ target \in Entries
      BY <1>3, <2>2 DEF Adapt, stream_switch
    <3> QED
      BY <1>1, <3>1 DEF TypeOK
  <2> QED
    BY <2>1, <2>2
<1>5. entryBuf' \in [Entries -> 0 .. Len(refs)]
  <2>1. CASE target = 0
    BY <2>1 DEF Adapt, TypeOK
  <2>2. CASE target # 0
    <3>1. CurBuf(s) \in 0 .. Len(refs)
      BY <1>1, BufferType
    <3> QED
      BY <1>3, <2>2, <3>1 DEF Adapt, TypeOK, stream_switch
  <2> QED
    BY <2>1, <2>2
<1>6. crossed' \in BOOLEAN
  BY DEF Adapt, TypeOK, stream_switch
<1>7. adapt' \in [Sessions -> Bounds]
  <2>1. AfterVerdict(Judged(adapt[s], th.count), e, v) \in Bounds
    BY <1>1, <1>2 DEF AfterVerdict, Judged, Bounds
  <2>2. adapt' = [adapt EXCEPT ![s] = AfterVerdict(Judged(adapt[s], th.count), e, v)]
    BY DEF Adapt
  <2> QED
    BY <2>1, <2>2 DEF TypeOK
<1>8. credit' \in [Sessions -> Int]
  <2>1. credit' = [credit EXCEPT ![s] = credit[s] - 1] /\ credit \in [Sessions -> Int]
    BY DEF Adapt, TypeOK
  <2>2. credit[s] - 1 \in Int
    BY <1>1, <2>1
  <2> QED
    BY <2>1, <2>2, CounterType
<1> QED
  BY <1>1, <1>4, <1>5, <1>6, <1>7, <1>8 DEF Adapt, TypeOK, Buffers

LEMMA DestroyType ==
  ASSUME TypeOK, NEW s \in Sessions, RTP_session_destroy(s)
  PROVE  TypeOK'
<1>1. refs \in Seq(Int) /\ Buffers = 1 .. Len(refs)
  BY BufferType DEF TypeOK
<1>2. /\ refs' \in Seq(Int) /\ Len(refs') = Len(refs) /\ DOMAIN refs' = DOMAIN refs
  <2>1. \A b \in DOMAIN refs : /\ [refs EXCEPT ![b] = @ - 1] \in Seq(Int)
                              /\ Len([refs EXCEPT ![b] = @ - 1]) = Len(refs)
                              /\ DOMAIN [refs EXCEPT ![b] = @ - 1] = DOMAIN refs
    BY <1>1, ExceptSeq, ElementOfSeq, LenProperties
  <2>2. refs' = refs \/ \E b \in DOMAIN refs : refs' = [refs EXCEPT ![b] = @ - 1]
    BY DEF RTP_session_destroy, Usable, Buffers
  <2> QED
    BY <1>1, <2>1, <2>2
<1>3. freed' \subseteq DOMAIN refs
  <2>1. freed' = freed \/ (Usable(CurBuf(s)) /\ freed' = freed \cup {CurBuf(s)})
    BY DEF RTP_session_destroy
  <2> QED
    BY <2>1 DEF TypeOK, Usable, Buffers
<1>4. entryBuf' \in [Entries -> 0 .. Len(refs)]
  <2>1. 0 \in 0 .. Len(refs) /\ entryBuf \in [Entries -> 0 .. Len(refs)]
    BY BufferType DEF TypeOK
  <2>2. entryBuf' = entryBuf \/ entryBuf' = [entryBuf EXCEPT ![cur[s].entry] = 0]
    BY DEF RTP_session_destroy
  <2> QED
    BY <2>1, <2>2
<1>5. th' \in ThreadStates
  BY SimpleStates DEF RTP_session_destroy, TypeOK
<1>6. life' \in [Sessions -> {"none", "live", "removed"}]
  BY DEF RTP_session_destroy, TypeOK
<1> QED
  BY <1>2, <1>3, <1>4, <1>5, <1>6 DEF RTP_session_destroy, TypeOK, hist, Buffers

(* What the scheduler thread does. *)
LEMMA SchedulerType ==
  ASSUME TypeOK, Scheduler PROVE TypeOK'
<1>1. ASSUME NEW s \in Sessions, CheckCount(s) PROVE TypeOK'
  <2>1. client[s].rr \in Nat
    BY DEF TypeOK, RTCP_stats
  <2>2. th' \in ThreadStates
    BY <1>1, <2>1, SimpleStates DEF CheckCount
  <2> QED
    BY <1>1, <2>2 DEF CheckCount, TypeOK, media, hist, Buffers
<1>2. ASSUME NEW s \in Sessions, RTP_session_destroy(s) PROVE TypeOK'
  BY <1>2, DestroyType
<1>3. ASSUME Adapt PROVE TypeOK'
  BY <1>3, AdaptType
<1>4. ASSUME NoReport PROVE TypeOK'
  <2>1. th' \in ThreadStates
    BY <1>4, ThreadType DEF NoReport, InHand
  <2> QED
    BY <1>4, <2>1 DEF NoReport, TypeOK, media, hist, Buffers
<1>5. ASSUME Reporting
      PROVE  /\ th.s \in Sessions /\ th' \in ThreadStates
             /\ Composed(th.s) \in Seq(Packet)
  BY <1>5, ThreadType, ComposedType DEF Reporting, InHand
<1>6. ASSUME SendReports PROVE TypeOK'
  <2>1. owed' \in [Sessions -> Int]
    <3>1. \A q \in Seq(Packet) : Byes(q) \in Int
      <4> SUFFICES ASSUME NEW q \in Seq(Packet) PROVE Byes(q) \in Int
        OBVIOUS
      <4> QED
        BY ByeSetFinite, FS_CardinalityType DEF Byes, ByeSet
    <3>2. owed[th.s] - Byes(Composed(th.s)) \in Int
      BY <1>5, <1>6, <3>1 DEF SendReports, TypeOK
    <3> QED
      BY <1>6, <3>2 DEF SendReports, TypeOK
  <2>2. out' \in [Sessions -> Seq(Packet)]
    BY <1>6, EmptySeq DEF SendReports, TypeOK, Sent
  <2> QED
    BY <1>5, <1>6, <2>1, <2>2 DEF SendReports, Reporting, TypeOK, media, Buffers
<1>7. ASSUME SelectTimeout PROVE TypeOK'
  <2>1. budget' \in Bounded
    BY <1>7, SpendType DEF SelectTimeout, TypeOK
  <2>2. out' \in [Sessions -> Seq(Packet)]
    BY <1>5, <1>7 DEF SelectTimeout, TypeOK
  <2> QED
    BY <1>5, <1>7, <2>1, <2>2 DEF SelectTimeout, Reporting, TypeOK, media, Buffers
<1>8. ASSUME PlayOk PROVE TypeOK'
  <2>1. pkts' \in [Sessions -> 0 .. Interval]
    <3>1. pkts' = pkts \/ pkts' = [pkts EXCEPT ![th.s] = (pkts[th.s] % Interval) + 1]
      BY <1>8 DEF PlayOk
    <3>2. th.s \in Sessions
      BY <1>8, ThreadType DEF PlayOk, InHand
    <3>3. (pkts[th.s] % Interval) + 1 \in 0 .. Interval
      <4>1. pkts[th.s] \in Nat
        BY <3>2, BoundAssumption DEF TypeOK
      <4>2. Interval \in Nat \ {0}
        BY BoundAssumption
      <4>3. pkts[th.s] % Interval \in 0 .. Interval - 1
        BY <4>1, <4>2
      <4> QED
        BY <4>2, <4>3
    <3> QED
      BY <3>1, <3>3 DEF TypeOK
  <2>2. th' \in ThreadStates
    BY <1>8, SimpleStates DEF PlayOk
  <2> QED
    BY <1>8, <2>1, <2>2 DEF PlayOk, TypeOK, media, hist, Buffers
<1>9. ASSUME schedule_stop PROVE TypeOK'
  <2>1. th.s \in Sessions /\ th' \in ThreadStates /\ budget' \in Bounded
    BY <1>9, ThreadType, SimpleStates, SpendType DEF schedule_stop, InHand, TypeOK
  <2> DEFINE queued == RTCP_send_packet(RTCP_send_packet(out[th.s], "SR"), "BYE")
  <2>2. queued \in Seq(Packet)
    <3>1. out[th.s] \in Seq(Packet)
      BY <2>1 DEF TypeOK
    <3>2. RTCP_send_packet(out[th.s], "SR") \in Seq(Packet)
      BY <3>1, QueueType
    <3> QED
      BY <3>2, QueueType
  <2>3. out' = [out EXCEPT ![th.s] = queued]
    BY <1>9 DEF schedule_stop
  <2>4. out' \in [Sessions -> Seq(Packet)]
    BY <2>2, <2>3 DEF TypeOK
  <2>5. owed' = owed \/ owed' = [owed EXCEPT ![th.s] = owed[th.s] + 1]
    BY <1>9 DEF schedule_stop, TypeOK
  <2>6. owed' \in [Sessions -> Int]
    <3>1. owed \in [Sessions -> Int] /\ owed[th.s] + 1 \in Int
      BY <2>1 DEF TypeOK
    <3> QED
      BY <2>5, <3>1, CounterType
  <2>7. pause' \in [Sessions -> BOOLEAN] /\ started' \in [Sessions -> BOOLEAN]
    BY <1>9 DEF schedule_stop, TypeOK
  <2> QED
    BY <1>9, <2>1, <2>4, <2>6, <2>7 DEF schedule_stop, TypeOK, media, Buffers
<1>10. ASSUME PlayUndefined PROVE TypeOK'
  BY <1>10, SimpleStates DEF PlayUndefined, TypeOK, media, hist, Buffers
<1> QED
  BY <1>1, <1>2, <1>3, <1>4, <1>6, <1>7, <1>8, <1>9, <1>10 DEF Scheduler

LEMMA TypeStep ==
  ASSUME TypeOK, [Next]_vars PROVE TypeOK'
<1>1. CASE UNCHANGED vars
  BY <1>1 DEF vars, media, hist, TypeOK, Buffers
<1> QED
  BY <1>1, MainType, SchedulerType DEF Next

(* Every variable keeps its type, whatever the bounds on a behaviour. *)
THEOREM TypeCorrect == Spec => []TypeOK
BY InitType, TypeStep, PTL DEF Spec

-----------------------------------------------------------------------------
(* The bounds that stop the search. *)

(* BoundsAreReal, for every session there ever was. *)
RealBounds ==
  \A s \in Sessions :
    /\ ~(adapt[s].min /\ adapt[s].max)
    /\ adapt[s].min => \A e \in Entries : Rate(e) >= Rate(cur[s].entry)
    /\ adapt[s].max => \A e \in Entries : Rate(e) <= Rate(cur[s].entry)

(* What a step does to the entry and the bounds of a session: nothing, a fresh  *)
(* start, or a judgement.                                                       *)
LEMMA EntryStep ==
  ASSUME TypeOK, [Next]_vars, NEW s \in Sessions
  PROVE  \/ cur'[s].entry = cur[s].entry /\ adapt'[s].min = adapt[s].min /\ adapt'[s].max = adapt[s].max
         \/ ~adapt'[s].min /\ ~adapt'[s].max /\ (cur'[s].entry = cur[s].entry \/ life[s] = "none")
         \/ Adapt /\ th.s = s
<1> DEFINE Same(t) == cur'[t].entry = cur[t].entry /\ adapt'[t].min = adapt[t].min /\ adapt'[t].max = adapt[t].max
<1>1. ASSUME cur' = cur, adapt' = adapt PROVE Same(s)
  BY <1>1
<1>2. ASSUME NEW t \in Sessions, NEW e \in Entries, Setup(t, e)
      PROVE  Same(s) \/ (~adapt'[s].min /\ ~adapt'[s].max /\ life[s] = "none")
  <2>1. CASE s = t
    BY <1>2, <2>1 DEF Setup, TypeOK
  <2>2. CASE s # t
    BY <1>2, <2>2 DEF Setup, TypeOK
  <2> QED
    BY <2>1, <2>2
<1>3. ASSUME StartFlags
      PROVE  Same(s) \/ (~adapt'[s].min /\ ~adapt'[s].max /\ cur'[s].entry = cur[s].entry)
  BY <1>3 DEF StartFlags, TypeOK, media
<1>4. ASSUME Adapt, th.s # s PROVE Same(s)
  <2>1. cur'[s] = cur[s]
    BY <1>4 DEF Adapt, TypeOK, stream_switch
  <2>2. adapt'[s] = adapt[s]
    BY <1>4 DEF Adapt, TypeOK
  <2> QED
    BY <2>1, <2>2
<1>5. CASE UNCHANGED vars
  BY <1>1, <1>5 DEF vars, media
<1>6. CASE Main
  BY <1>1, <1>2, <1>3, <1>6
  DEF Main, PlayAll, PlayFile, Start, Pause, Teardown, RTCP_recv_packet, StartCounts, RecvReport, media
<1>7. CASE Scheduler
  BY <1>1, <1>4, <1>7
  DEF Scheduler, CheckCount, RTP_session_destroy, NoReport, Reporting, SendReports, SelectTimeout,
      PlayOk, schedule_stop, PlayUndefined, media
<1> QED
  BY <1>5, <1>6, <1>7 DEF Next

(* A judgement, in the terms of the verdict. *)
LEMMA AdaptStep ==
  ASSUME TypeOK, Adapt
  PROVE  LET s == th.s
             e == cur[s].entry
             v == change_check(client[s])
             f == Target(e, v)
         IN /\ s \in Sessions /\ e \in Entries /\ v \in {-2, -1, 0, 1}
            /\ Stopped(adapt[s], v) =>
                 /\ cur'[s].entry = e /\ adapt'[s].min = adapt[s].min /\ adapt'[s].max = adapt[s].max
            /\ ~Stopped(adapt[s], v) =>
                 /\ cur'[s].entry = IF f = 0 THEN e ELSE f
                 /\ adapt'[s].max => v > 0 /\ f = 0
                 /\ adapt'[s].min => v < 0 /\ f = 0
<1> DEFINE s == th.s
           e == cur[s].entry
           v == change_check(client[s])
           f == Target(e, v)
           a == AfterVerdict(Judged(adapt[s], th.count), e, v)
<1>1. s \in Sessions /\ th.count \in Nat
  BY ThreadType DEF Adapt, InHand
<1>2. e \in Entries /\ client[s] \in RTCP_stats /\ adapt[s] \in Bounds
  BY <1>1 DEF TypeOK
<1>3. v \in {-2, -1, 0, 1}
  BY <1>2, Verdicts
<1>4. adapt'[s] = a
  BY <1>1 DEF Adapt, TypeOK
<1>5. Stopped(Judged(adapt[s], th.count), v) <=> Stopped(adapt[s], v)
  BY <1>2 DEF Stopped, Judged, Bounds
<1>6. Stopped(adapt[s], v) => a.min = adapt[s].min /\ a.max = adapt[s].max
  BY <1>2, <1>5 DEF AfterVerdict, Judged, Bounds
<1>7. ~Stopped(adapt[s], v) => /\ a.max = (v > 0 /\ f = 0 /\ Priority(e) = 1)
                               /\ a.min = (v < 0 /\ f = 0)
  BY <1>2, <1>5 DEF AfterVerdict, Judged, Bounds
<1>8. Stopped(adapt[s], v) \/ f = 0 => cur' = cur
  BY DEF Adapt
<1>9. ~Stopped(adapt[s], v) /\ f # 0 => cur'[s].entry = f
  BY <1>1 DEF Adapt, TypeOK, stream_switch
<1> QED
  BY <1>1, <1>2, <1>3, <1>4, <1>6, <1>7, <1>8, <1>9

LEMMA RealBoundsInit == Init => RealBounds
BY DEF Init, RealBounds

LEMMA RealBoundsStep ==
  ASSUME TypeOK, RealBounds, [Next]_vars PROVE RealBounds'
<1> SUFFICES ASSUME NEW s \in Sessions
             PROVE  /\ ~(adapt'[s].min /\ adapt'[s].max)
                    /\ adapt'[s].min => \A g \in Entries : Rate(g) >= Rate(cur'[s].entry)
                    /\ adapt'[s].max => \A g \in Entries : Rate(g) <= Rate(cur'[s].entry)
  BY DEF RealBounds
<1>1. CASE cur'[s].entry = cur[s].entry /\ adapt'[s].min = adapt[s].min /\ adapt'[s].max = adapt[s].max
  BY <1>1 DEF RealBounds
<1>2. CASE ~adapt'[s].min /\ ~adapt'[s].max
  BY <1>2
<1>3. CASE Adapt /\ th.s = s
  <2> DEFINE v == change_check(client[s])
             e == cur[s].entry
             f == Target(e, v)
  <2>1. CASE Stopped(adapt[s], v)
    BY <1>3, <2>1, AdaptStep DEF RealBounds
  <2>2. CASE ~Stopped(adapt[s], v)
    <3>1. e \in Entries /\ v \in {-2, -1, 0, 1}
      BY <1>3, AdaptStep
    <3>2. /\ cur'[s].entry = IF f = 0 THEN e ELSE f
          /\ adapt'[s].max => v > 0 /\ f = 0
          /\ adapt'[s].min => v < 0 /\ f = 0
      BY <1>3, <2>2, AdaptStep
    <3>3. /\ f = 0 /\ v < 0 => \A g \in Entries : Rate(g) >= Rate(e)
          /\ f = 0 /\ v > 0 => \A g \in Entries : Rate(g) <= Rate(e)
      BY <3>1, TargetIsThere
    <3> QED
      BY <3>1, <3>2, <3>3
  <2> QED
    BY <2>1, <2>2
<1> QED
  BY <1>1, <1>2, <1>3, EntryStep

(* A bound that stops the search is the real end of the list, and a session     *)
(* never has both.                                                              *)
THEOREM BoundsCorrect == Spec => []BoundsAreReal
<1>1. Spec => [](TypeOK /\ RealBounds)
  BY InitType, TypeStep, RealBoundsInit, RealBoundsStep, PTL DEF Spec
<1>2. RealBounds => BoundsAreReal
  BY DEF RealBounds, BoundsAreReal
<1> QED
  BY <1>1, <1>2, PTL

LEMMA MoveStep ==
  ASSUME TypeOK, [Next]_vars, NEW s \in Sessions, life[s] = "live", cur'[s].entry # cur[s].entry
  PROVE  LET verdict == change_check(client[s])
             up == Rate(cur'[s].entry) > Rate(cur[s].entry)
         IN IF verdict > 0 THEN up ELSE verdict < 0 /\ ~up
<1> DEFINE v == change_check(client[s])
           e == cur[s].entry
           f == Target(e, v)
<1>1. Adapt /\ th.s = s
  BY EntryStep
<1>2. e \in Entries /\ v \in {-2, -1, 0, 1} /\ cur'[s].entry = f /\ f # 0
  BY <1>1, AdaptStep
<1>3. f \in Entries /\ IF v > 0 THEN Rate(f) > Rate(e) ELSE v < 0 /\ Rate(f) < Rate(e)
  BY <1>2, TargetIsThere
<1>4. Rate(e) \in Nat /\ Rate(f) \in Nat
  BY <1>2, <1>3, EntryNumbers
<1> QED
  BY <1>2, <1>3, <1>4

(* Only a verdict moves a session, and only in its direction. *)
THEOREM MovesCorrect == Spec => MovesWithVerdict
<1>1. ASSUME TypeOK, [Next]_vars
      PROVE  [\A s \in Sessions : life[s] = "live" /\ cur'[s].entry # cur[s].entry =>
                LET verdict == change_check(client[s])
                    up == Rate(cur'[s].entry) > Rate(cur[s].entry)
                IN IF verdict > 0 THEN up ELSE verdict < 0 /\ ~up]_vars
  BY <1>1, MoveStep
<1> QED
  BY <1>1, TypeCorrect, PTL DEF Spec, MovesWithVerdict

-----------------------------------------------------------------------------
(* How often a report is judged. *)

(* The judgement that is going on, one for a count the thread has not compared *)
(* yet, and those that a PLAY between its two stores may still cause.          *)
Judging(s) == th.pc = "judge" /\ th.s = s
LastCount(s) == IF Judging(s) THEN th.count ELSE adapt[s].prev
ToCome(s) ==
  (IF Judging(s) THEN 1 ELSE 0) + (IF client[s].rr # LastCount(s) THEN 1 ELSE 0)
  + (IF client[s].rr = 0 THEN 0
     ELSE IF main.pc = "started" /\ main.s = s THEN 2
     ELSE IF main.pc = "flags" /\ main.s = s THEN 1 ELSE 0)

CreditCovers == \A s \in Sessions : credit[s] >= ToCome(s)

(* The scheduler thread has a session in hand that is not destroyed. *)
HandAlive == InHand => life[th.s] # "none"

LEMMA HandAliveStep ==
  ASSUME TypeOK, HandAlive, [Next]_vars PROVE HandAlive'
<1>1. CASE UNCHANGED vars
  BY <1>1 DEF vars, HandAlive, InHand
<1>2. CASE Main
  <2>1. th' = th
    BY <1>2 DEF Main, Setup, PlayAll, PlayFile, Start, Pause, Teardown, RTCP_recv_packet, StartFlags,
                StartCounts, RecvReport
  <2>2. \A s \in Sessions : life[s] # "none" => life'[s] # "none"
    BY <1>2 DEF Main, Setup, PlayAll, PlayFile, Start, Pause, Teardown, RTCP_recv_packet, StartFlags,
                StartCounts, RecvReport, TypeOK
  <2> QED
    BY <2>1, <2>2, ThreadType DEF HandAlive, InHand
<1>3. CASE Scheduler
  <2>1. ASSUME NEW s \in Sessions, CheckCount(s) PROVE HandAlive'
    BY <2>1 DEF CheckCount, HandAlive, InHand
  <2>2. ASSUME NEW s \in Sessions, RTP_session_destroy(s) PROVE HandAlive'
    BY <2>2 DEF RTP_session_destroy, HandAlive, InHand, Idle
  <2>3. ASSUME th.pc \in {"judge", "rtcp"}, life' = life,
               th' = [th EXCEPT !.pc = "rtcp"] \/ th' = [th EXCEPT !.pc = "play"]
        PROVE  HandAlive'
    <3>1. th \in [pc : {"judge", "rtcp", "play"}, s : Sessions, count : Nat]
      BY <2>3 DEF TypeOK, ThreadStates
    <3>2. th'.s = th.s
      BY <2>3, <3>1
    <3> QED
      BY <2>3, <3>2 DEF HandAlive, InHand
  <2>4. ASSUME th'.pc \in {"idle", "undefined"} PROVE HandAlive'
    BY <2>4 DEF HandAlive, InHand
  <2>5. ASSUME Adapt \/ NoReport \/ SendReports \/ SelectTimeout PROVE HandAlive'
    BY <2>3, <2>5 DEF Adapt, NoReport, SendReports, SelectTimeout, Reporting
  <2>6. ASSUME PlayOk \/ schedule_stop \/ PlayUndefined PROVE HandAlive'
    BY <2>4, <2>6 DEF PlayOk, schedule_stop, PlayUndefined, Idle
  <2> QED
    BY <1>3, <2>1, <2>2, <2>5, <2>6 DEF Scheduler
<1> QED
  BY <1>1, <1>2, <1>3 DEF Next

(* What the proof needs of the types. *)
LEMMA CountTypes ==
  ASSUME TypeOK, NEW s \in Sessions
  PROVE  client[s].rr \in Nat /\ adapt[s].prev \in Nat /\ LastCount(s) \in Nat /\ credit[s] \in Int
<1>1. client[s].rr \in Nat /\ adapt[s].prev \in Nat /\ credit[s] \in Int
  BY DEF TypeOK, RTCP_stats, Bounds
<1>2. Judging(s) => th.count \in Nat
  BY ThreadType DEF Judging, InHand
<1> QED
  BY <1>1, <1>2 DEF LastCount

LEMMA CreditMain ==
  ASSUME TypeOK, TypeOK', HandAlive, CreditCovers, Main PROVE CreditCovers'
<1> SUFFICES ASSUME NEW s \in Sessions PROVE credit'[s] >= ToCome(s)'
  BY DEF CreditCovers
<1>0. /\ th' = th /\ credit[s] >= ToCome(s)
      /\ client[s].rr \in Nat /\ adapt[s].prev \in Nat /\ LastCount(s) \in Nat /\ credit[s] \in Int
  BY CountTypes
  DEF CreditCovers, Main, Setup, PlayAll, PlayFile, Start, Pause, Teardown, RTCP_recv_packet, StartFlags,
      StartCounts, RecvReport
<1>1. ASSUME NEW t \in Sessions, NEW e \in Entries, Setup(t, e) PROVE credit'[s] >= ToCome(s)'
  <2>1. main.pc = "idle" /\ main' = main
    BY <1>1 DEF Setup, Request, Idle
  <2>2. CASE s = t
    <3>1. ~Judging(s)
      BY <1>1, <2>2 DEF Setup, HandAlive, InHand, Judging
    <3>2. credit'[s] = 0 /\ client'[s].rr = 0 /\ adapt'[s].prev = 0
      BY <1>1, <2>2 DEF Setup, TypeOK
    <3> QED
      BY <1>0, <2>1, <3>1, <3>2 DEF ToCome, LastCount, Judging
  <2>3. CASE s # t
    <3>1. credit'[s] = credit[s] /\ client'[s] = client[s] /\ adapt'[s] = adapt[s]
      BY <1>1, <2>3 DEF Setup, TypeOK
    <3> QED
      BY <1>0, <2>1, <3>1 DEF ToCome, LastCount, Judging
  <2> QED
    BY <2>2, <2>3
<1>2. ASSUME NEW t \in Sessions, main.pc = "idle", Start(t) PROVE credit'[s] >= ToCome(s)'
  <2>1. client' = client /\ adapt' = adapt
    BY <1>2 DEF Start
  <2>2. credit'[s] = IF s = t /\ client[s].rr # 0 THEN credit[s] + 2 ELSE credit[s]
    BY <1>2 DEF Start, TypeOK
  <2>3. (main'.pc = "started" /\ main'.s = t) \/ main'.pc = "undefined"
    BY <1>2 DEF Start
  <2> QED
    BY <1>0, <1>2, <2>1, <2>2, <2>3 DEF ToCome, LastCount, Judging
<1>3. ASSUME main' = main, client' = client, adapt' = adapt, credit' = credit
      PROVE  credit'[s] >= ToCome(s)'
  BY <1>0, <1>3 DEF ToCome, LastCount, Judging
<1>4. ASSUME NEW t \in Sessions, RTCP_recv_packet(t) PROVE credit'[s] >= ToCome(s)'
  <2>1. main.pc = "idle" /\ main'.pc = "report" /\ adapt' = adapt
    BY <1>4 DEF RTCP_recv_packet, Idle
  <2>2. CASE s = t
    <3>1. credit'[s] = credit[s] + 1
      BY <1>4, <2>2 DEF RTCP_recv_packet, TypeOK
    <3> QED
      BY <1>0, <2>1, <3>1 DEF ToCome, LastCount, Judging
  <2>3. CASE s # t
    <3>1. credit'[s] = credit[s] /\ client'[s] = client[s]
      BY <1>4, <2>3 DEF RTCP_recv_packet, TypeOK
    <3> QED
      BY <1>0, <2>1, <3>1 DEF ToCome, LastCount, Judging
  <2> QED
    BY <2>2, <2>3
<1>5. ASSUME StartFlags PROVE credit'[s] >= ToCome(s)'
  <2>1. main.s \in Sessions /\ main.pc = "started" /\ main'.pc = "flags" /\ main'.s = main.s
    BY <1>5 DEF StartFlags, TypeOK, MainStates
  <2>2. client' = client /\ credit' = credit
    BY <1>5 DEF StartFlags, hist
  <2>3. adapt'[s].prev = IF s = main.s THEN 0 ELSE adapt[s].prev
    BY <1>5 DEF StartFlags, TypeOK
  <2> QED
    BY <1>0, <2>1, <2>2, <2>3 DEF ToCome, LastCount, Judging
<1>6. ASSUME StartCounts PROVE credit'[s] >= ToCome(s)'
  <2>1. main.s \in Sessions /\ main.pc = "flags" /\ main'.pc = "idle"
    BY <1>6 DEF StartCounts, TypeOK, MainStates, Idle
  <2>2. adapt' = adapt /\ credit' = credit
    BY <1>6 DEF StartCounts, hist
  <2>3. client'[s].rr = IF s = main.s THEN 0 ELSE client[s].rr
    BY <1>6 DEF StartCounts, TypeOK, RTCP_stats
  <2> QED
    BY <1>0, <2>1, <2>2, <2>3 DEF ToCome, LastCount, Judging
<1>7. ASSUME RecvReport PROVE credit'[s] >= ToCome(s)'
  <2>1. main.pc = "report" /\ main'.pc = "idle" /\ adapt' = adapt /\ credit' = credit
    BY <1>7 DEF RecvReport, hist, Idle
  <2>2. client'[s].rr = client[s].rr
    <3> DEFINE l == main.report.loss
               j == StoredJitter(main.report.jitter)
    <3>1. client \in [Sessions -> RTCP_stats] /\ client[s] \in RTCP_stats
      BY DEF TypeOK
    <3>2. client' = [client EXCEPT ![main.s] = [[client[main.s] EXCEPT !.loss = l] EXCEPT !.jitter = j]]
      BY <1>7, <3>1 DEF RecvReport
    <3>3. client'[s] = client[s] \/ client'[s] = [[client[s] EXCEPT !.loss = l] EXCEPT !.jitter = j]
      BY <3>1, <3>2
    <3> QED
      BY <3>1, <3>3 DEF RTCP_stats
  <2> QED
    BY <1>0, <2>1, <2>2 DEF ToCome, LastCount, Judging
<1>8. ASSUME NEW t \in Sessions, PlayAll(t) PROVE credit'[s] >= ToCome(s)'
  BY <1>2, <1>3, <1>8 DEF PlayAll, Request, Idle, hist
<1>9. ASSUME NEW t \in Sessions, PlayFile(t) PROVE credit'[s] >= ToCome(s)'
  BY <1>2, <1>9 DEF PlayFile, Request, Idle
<1>10. ASSUME NEW t \in Sessions, Pause(t) \/ Teardown(t) PROVE credit'[s] >= ToCome(s)'
  BY <1>3, <1>10 DEF Pause, Teardown, hist
<1> QED
  BY <1>1, <1>4, <1>5, <1>6, <1>7, <1>8, <1>9, <1>10 DEF Main

LEMMA CreditScheduler ==
  ASSUME TypeOK, TypeOK', CreditCovers, Scheduler PROVE CreditCovers'
<1> SUFFICES ASSUME NEW s \in Sessions PROVE credit'[s] >= ToCome(s)'
  BY DEF CreditCovers
<1>0. /\ main' = main /\ client' = client /\ credit[s] >= ToCome(s)
      /\ client[s].rr \in Nat /\ adapt[s].prev \in Nat /\ LastCount(s) \in Nat /\ credit[s] \in Int
  BY CountTypes
  DEF CreditCovers, Scheduler, CheckCount, RTP_session_destroy, Adapt, NoReport, Reporting, SendReports,
      SelectTimeout, PlayOk, schedule_stop, PlayUndefined
<1>1. ASSUME NEW t \in Sessions, CheckCount(t) PROVE credit'[s] >= ToCome(s)'
  <2>1. th.pc = "idle" /\ adapt' = adapt /\ credit' = credit
    BY <1>1 DEF CheckCount, Idle, hist
  <2>2. /\ th'.s = t /\ th'.count = client[t].rr
        /\ th'.pc = IF client[t].rr = adapt[t].prev THEN "rtcp" ELSE "judge"
    BY <1>1 DEF CheckCount
  <2> QED
    BY <1>0, <2>1, <2>2 DEF ToCome, LastCount, Judging
<1>2. ASSUME Adapt PROVE credit'[s] >= ToCome(s)'
  <2>1. th \in [pc : {"judge", "rtcp", "play"}, s : Sessions, count : Nat]
    BY <1>2 DEF Adapt, TypeOK, ThreadStates
  <2>2. th.pc = "judge" /\ th'.pc = "rtcp" /\ th'.s = th.s /\ th.s \in Sessions
    BY <1>2, <2>1 DEF Adapt
  <2>3. CASE s = th.s
    <3>1. credit'[s] = credit[s] - 1
      BY <1>2, <2>3 DEF Adapt, TypeOK
    <3>2. adapt'[s].prev = th.count
      <4>1. adapt[s] \in Bounds
        BY DEF TypeOK
      <4> QED
        BY <1>2, <2>3, <4>1 DEF Adapt, TypeOK, AfterVerdict, Judged, Bounds
    <3> QED
      BY <1>0, <2>2, <2>3, <3>1, <3>2 DEF ToCome, LastCount, Judging
  <2>4. CASE s # th.s
    <3>1. credit'[s] = credit[s] /\ adapt'[s] = adapt[s]
      BY <1>2, <2>4 DEF Adapt, TypeOK
    <3> QED
      BY <1>0, <2>2, <2>4, <3>1 DEF ToCome, LastCount, Judging
  <2> QED
    BY <2>3, <2>4
<1>3. ASSUME th.pc # "judge", th'.pc # "judge", adapt' = adapt, credit' = credit
      PROVE  credit'[s] >= ToCome(s)'
  BY <1>0, <1>3 DEF ToCome, LastCount, Judging
<1>4. ASSUME NoReport \/ SendReports \/ SelectTimeout PROVE credit'[s] >= ToCome(s)'
  <2>1. th.pc = "rtcp" /\ adapt' = adapt /\ credit' = credit /\ th' = [th EXCEPT !.pc = "play"]
    BY <1>4 DEF NoReport, SendReports, SelectTimeout, Reporting, hist
  <2>2. th \in [pc : {"judge", "rtcp", "play"}, s : Sessions, count : Nat]
    BY <2>1 DEF TypeOK, ThreadStates
  <2> QED
    BY <1>3, <2>1, <2>2
<1>5. ASSUME PlayOk \/ schedule_stop \/ PlayUndefined PROVE credit'[s] >= ToCome(s)'
  BY <1>3, <1>5 DEF PlayOk, schedule_stop, PlayUndefined, Idle, hist
<1>6. ASSUME NEW t \in Sessions, RTP_session_destroy(t) PROVE credit'[s] >= ToCome(s)'
  BY <1>3, <1>6 DEF RTP_session_destroy, Idle, hist
<1> QED
  BY <1>1, <1>2, <1>4, <1>5, <1>6 DEF Scheduler

LEMMA CreditStep ==
  ASSUME TypeOK, TypeOK', HandAlive, CreditCovers, [Next]_vars PROVE CreditCovers'
<1>1. CASE UNCHANGED vars
  BY <1>1 DEF vars, hist, CreditCovers, ToCome, LastCount, Judging
<1> QED
  BY <1>1, CreditMain, CreditScheduler DEF Next

(* There are no more judgements than reports, and two more at most for a PLAY. *)
THEOREM ReportsJudgedOnce == Spec => []EachReportOnce
<1>1. Init => HandAlive /\ CreditCovers
  BY DEF Init, Idle, HandAlive, InHand, CreditCovers, ToCome, LastCount, Judging
<1>2. Spec => [](TypeOK /\ HandAlive /\ CreditCovers)
  BY <1>1, InitType, TypeStep, HandAliveStep, CreditStep, PTL DEF Spec
<1>3. TypeOK /\ CreditCovers => EachReportOnce
  BY CountTypes DEF CreditCovers, ToCome, EachReportOnce
<1> QED
  BY <1>2, <1>3, PTL

-----------------------------------------------------------------------------
(* The buffers. *)

Alive(s) == life[s] # "none"

(* Until two sessions meet at an entry, the buffers of live sessions are open, *)
(* different, and the ones their consumers are attached to.                    *)
OwnBuffers ==
  ~crossed =>
    /\ \A s \in Sessions : Alive(s) =>
         CurBuf(s) \in Buffers \ freed /\ (cons[s] = 0 \/ cons[s] = CurBuf(s))
    /\ \A s, t \in Sessions : Alive(s) /\ Alive(t) /\ s # t => CurBuf(s) # CurBuf(t)

LEMMA OwnBuffersSame ==
  ASSUME OwnBuffers, cur' = cur, ownBuf' = ownBuf, entryBuf' = entryBuf, DOMAIN refs' = DOMAIN refs,
         freed' = freed, cons' = cons, crossed' = crossed, \A s \in Sessions : Alive(s)' => Alive(s)
  PROVE  OwnBuffers'
BY DEF OwnBuffers, CurBuf, Buffers

LEMMA OwnBuffersSetup ==
  ASSUME TypeOK, OwnBuffers, NEW s \in Sessions, NEW e \in Entries, Setup(s, e)
  PROVE  OwnBuffers'
<1> SUFFICES ASSUME ~crossed' PROVE OwnBuffers'
  BY DEF OwnBuffers
<1>1. /\ refs' = Append(refs, 0) /\ ownBuf' = [ownBuf EXCEPT ![s] = Len(refs')]
      /\ ~crossed /\ entryBuf' = entryBuf /\ freed' = freed
  BY DEF Setup
<1>2. /\ Len(refs') = Len(refs) + 1 /\ DOMAIN refs' = 1 .. Len(refs) + 1
      /\ DOMAIN refs = 1 .. Len(refs) /\ Len(refs) \in Nat
  <2>1. refs \in Seq(Int)
    BY DEF TypeOK
  <2>2. Append(refs, 0) \in Seq(Int) /\ Len(Append(refs, 0)) = Len(refs) + 1
    BY <2>1, AppendProperties
  <2> QED
    BY <1>1, <2>1, <2>2, LenProperties
<1>3. CurBuf(s)' = Len(refs) + 1 /\ cons'[s] = 0
  BY <1>1, <1>2 DEF Setup, TypeOK, CurBuf
<1>4. ASSUME NEW t \in Sessions, t # s
      PROVE  CurBuf(t)' = CurBuf(t) /\ cons'[t] = cons[t] /\ Alive(t)' = Alive(t)
  <2>1. cur'[t] = cur[t] /\ ownBuf'[t] = ownBuf[t] /\ cons'[t] = cons[t] /\ life'[t] = life[t]
    BY <1>1, <1>4 DEF Setup, TypeOK
  <2> QED
    BY <1>1, <2>1 DEF CurBuf, Alive
<1>5. freed \subseteq 1 .. Len(refs)
  BY <1>2 DEF TypeOK, Buffers
<1>6. ASSUME NEW t \in Sessions, t # s, Alive(t)
      PROVE  CurBuf(t) \in 1 .. Len(refs) /\ CurBuf(t) \notin freed /\ (cons[t] = 0 \/ cons[t] = CurBuf(t))
  BY <1>1, <1>2, <1>6 DEF OwnBuffers, Buffers
<1>7. ASSUME NEW t \in Sessions, Alive(t)'
      PROVE  CurBuf(t)' \in Buffers' \ freed' /\ (cons'[t] = 0 \/ cons'[t] = CurBuf(t)')
  <2>1. CASE t = s
    BY <1>1, <1>2, <1>3, <1>5, <2>1 DEF Buffers
  <2>2. CASE t # s
    BY <1>1, <1>2, <1>4, <1>6, <1>7, <2>2 DEF Buffers
  <2> QED
    BY <2>1, <2>2
<1>8. ASSUME NEW t \in Sessions, NEW u \in Sessions, Alive(t)', Alive(u)', t # u
      PROVE  CurBuf(t)' # CurBuf(u)'
  <2>1. CASE t # s /\ u # s
    BY <1>1, <1>4, <1>8, <2>1 DEF OwnBuffers
  <2>2. CASE t = s
    BY <1>2, <1>3, <1>4, <1>6, <1>8, <2>2
  <2>3. CASE u = s
    BY <1>2, <1>3, <1>4, <1>6, <1>8, <2>3
  <2> QED
    BY <2>1, <2>2, <2>3
<1> QED
  BY <1>7, <1>8 DEF OwnBuffers

LEMMA OwnBuffersStart ==
  ASSUME TypeOK, OwnBuffers, NEW s \in Sessions, Start(s)
  PROVE  OwnBuffers'
<1>1. DOMAIN refs' = DOMAIN refs /\ freed' = freed /\ crossed' = crossed /\ life' = life
  BY DEF Start
<1>2. \A t \in Sessions : CurBuf(t)' = CurBuf(t)
  BY DEF Start, CurBuf
<1>3. \A t \in Sessions : cons'[t] = cons[t] \/ cons'[t] = CurBuf(t)
  BY DEF Start, TypeOK
<1> QED
  BY <1>1, <1>2, <1>3 DEF OwnBuffers, Alive, Buffers

LEMMA OwnBuffersAdapt ==
  ASSUME TypeOK, HandAlive, OwnBuffers, Adapt
  PROVE  OwnBuffers'
<1> SUFFICES ASSUME ~crossed' PROVE OwnBuffers'
  BY DEF OwnBuffers
<1>1. PICK s \in Sessions : s = th.s /\ Alive(s)
  BY ThreadType DEF Adapt, InHand, HandAlive, Alive
<1> DEFINE e == cur[s].entry
           v == change_check(client[s])
           target == IF Stopped(adapt[s], v) THEN 0 ELSE Target(e, v)
<1>2. refs' = refs /\ freed' = freed /\ cons' = cons /\ life' = life /\ ownBuf' = ownBuf
  BY DEF Adapt
<1>3. CASE target = 0
  <2>1. cur' = cur /\ entryBuf' = entryBuf /\ crossed' = crossed
    BY <1>1, <1>3 DEF Adapt
  <2> QED
    BY <1>2, <2>1, OwnBuffersSame DEF Alive
<1>4. CASE target # 0
  <2>1. stream_switch(s, target)
    BY <1>1, <1>4 DEF Adapt
  <2>2. target \in Entries
    <3>1. e \in Entries /\ client[s] \in RTCP_stats
      BY <1>1 DEF TypeOK
    <3> QED
      BY <1>4, <3>1, Verdicts, TargetIsThere
  <2>3. ~crossed /\ \A t \in Sessions \ {s} : Alive(t) => cur[t] # [entry |-> target, own |-> FALSE]
    BY <2>1 DEF stream_switch, Alive
  <2>4. CurBuf(s)' = CurBuf(s)
    <3>1. cur'[s] = [entry |-> target, own |-> FALSE]
      BY <1>1, <2>1 DEF stream_switch, TypeOK
    <3>2. entryBuf'[target] = CurBuf(s)
      BY <2>1, <2>2 DEF stream_switch, TypeOK
    <3>3. cur'[s].entry = target /\ ~cur'[s].own
      BY <3>1
    <3>4. CurBuf(s)' = entryBuf'[target]
      BY <3>3 DEF CurBuf
    <3> QED
      BY <3>2, <3>4
  <2>5. ASSUME NEW t \in Sessions, t # s, Alive(t) PROVE CurBuf(t)' = CurBuf(t)
    <3>1. cur'[t] = cur[t] /\ cur[t] \in [entry : Entries, own : BOOLEAN]
      BY <2>1, <2>5 DEF stream_switch, TypeOK
    <3>2. cur[t].own \/ cur[t].entry # target
      BY <2>3, <2>5, <3>1
    <3>3. cur[t].entry # target => entryBuf'[cur[t].entry] = entryBuf[cur[t].entry]
      BY <2>1, <3>1 DEF stream_switch, TypeOK
    <3> QED
      BY <1>2, <3>1, <3>2, <3>3 DEF CurBuf
  <2>6. \A t \in Sessions : Alive(t)' <=> Alive(t)
    BY <1>2 DEF Alive
  <2>7. ASSUME NEW t \in Sessions, Alive(t) PROVE CurBuf(t)' = CurBuf(t)
    <3>1. CASE t = s
      BY <2>4, <3>1
    <3>2. CASE t # s
      BY <2>5, <2>7, <3>2
    <3> QED
      BY <3>1, <3>2
  <2> QED
    BY <1>2, <2>3, <2>6, <2>7 DEF OwnBuffers, Buffers
<1> QED
  BY <1>3, <1>4

LEMMA OwnBuffersDestroy ==
  ASSUME TypeOK, TypeOK', OwnBuffers, NEW s \in Sessions, RTP_session_destroy(s)
  PROVE  OwnBuffers'
<1> SUFFICES ASSUME ~crossed PROVE OwnBuffers'
  BY DEF OwnBuffers, RTP_session_destroy
<1>1. /\ Alive(s) /\ crossed' = crossed /\ cons' = cons /\ ownBuf' = ownBuf /\ cur' = cur
      /\ DOMAIN refs' = DOMAIN refs
  BY DEF RTP_session_destroy, Alive
<1>2. freed' = freed \/ freed' = freed \cup {CurBuf(s)}
  BY DEF RTP_session_destroy
<1>3. \A t \in Sessions : Alive(t)' => t # s /\ Alive(t)
  BY DEF RTP_session_destroy, Alive, TypeOK
<1>4. ASSUME NEW t \in Sessions, t # s, Alive(t) PROVE CurBuf(t)' = CurBuf(t)
  <2>1. CurBuf(t) # CurBuf(s)
    BY <1>1, <1>4 DEF OwnBuffers
  <2>2. entryBuf' = entryBuf \/ (~cur[s].own /\ entryBuf' = [entryBuf EXCEPT ![cur[s].entry] = 0])
    BY DEF RTP_session_destroy
  <2>3. cur[t].entry \in Entries /\ cur[s].entry \in Entries
    BY DEF TypeOK
  <2> QED
    BY <1>1, <2>1, <2>2, <2>3 DEF CurBuf, TypeOK
<1> QED
  BY <1>1, <1>2, <1>3, <1>4 DEF OwnBuffers, Buffers

LEMMA OwnBuffersStep ==
  ASSUME TypeOK, TypeOK', HandAlive, OwnBuffers, [Next]_vars PROVE OwnBuffers'
<1>1. ASSUME UNCHANGED media, \A s \in Sessions : Alive(s)' => Alive(s) PROVE OwnBuffers'
  BY <1>1, OwnBuffersSame DEF media
<1>2. CASE UNCHANGED vars
  BY <1>1, <1>2 DEF vars, Alive
<1>3. CASE Main
  <2>1. ASSUME UNCHANGED media, life' = life PROVE OwnBuffers'
    BY <1>1, <2>1 DEF Alive
  <2>2. ASSUME NEW s \in Sessions, PlayAll(s) PROVE OwnBuffers'
    BY <2>1, <2>2, OwnBuffersStart DEF PlayAll
  <2>3. ASSUME NEW s \in Sessions, PlayFile(s) PROVE OwnBuffers'
    BY <2>3, OwnBuffersStart DEF PlayFile
  <2>4. ASSUME NEW s \in Sessions, Pause(s) \/ RTCP_recv_packet(s) PROVE OwnBuffers'
    BY <2>1, <2>4 DEF Pause, RTCP_recv_packet
  <2>5. ASSUME NEW s \in Sessions, Teardown(s) PROVE OwnBuffers'
    <3>1. UNCHANGED media /\ \A t \in Sessions : Alive(t)' => Alive(t)
      BY <2>5 DEF Teardown, Alive, TypeOK
    <3> QED
      BY <1>1, <3>1
  <2>6. ASSUME StartFlags \/ StartCounts \/ RecvReport PROVE OwnBuffers'
    BY <2>1, <2>6 DEF StartFlags, StartCounts, RecvReport
  <2> QED
    BY <1>3, <2>2, <2>3, <2>4, <2>5, <2>6, OwnBuffersSetup DEF Main
<1>4. CASE Scheduler
  <2>1. ASSUME UNCHANGED media, life' = life PROVE OwnBuffers'
    BY <1>1, <2>1 DEF Alive
  <2>2. ASSUME NEW s \in Sessions, CheckCount(s) PROVE OwnBuffers'
    BY <2>1, <2>2 DEF CheckCount
  <2>3. ASSUME NoReport \/ SendReports \/ SelectTimeout PROVE OwnBuffers'
    BY <2>1, <2>3 DEF NoReport, SendReports, SelectTimeout, Reporting
  <2>4. ASSUME PlayOk \/ schedule_stop \/ PlayUndefined PROVE OwnBuffers'
    BY <2>1, <2>4 DEF PlayOk, schedule_stop, PlayUndefined
  <2> QED
    BY <1>4, <2>2, <2>3, <2>4, OwnBuffersAdapt, OwnBuffersDestroy DEF Scheduler
<1> QED
  BY <1>2, <1>3, <1>4 DEF Next

(* Until two sessions meet at an entry, each reads the buffer its own medium is *)
(* read into, and that buffer is open.                                          *)
THEOREM BuffersKept == Spec => []ReadsWhatItWrites
<1>1. Init => HandAlive /\ OwnBuffers
  BY DEF Init, Idle, HandAlive, InHand, OwnBuffers, Alive
<1>2. Spec => [](TypeOK /\ HandAlive /\ OwnBuffers)
  BY <1>1, InitType, TypeStep, HandAliveStep, OwnBuffersStep, PTL DEF Spec
<1>3. OwnBuffers => ReadsWhatItWrites
  BY DEF OwnBuffers, ReadsWhatItWrites, Alive
<1> QED
  BY <1>2, <1>3, PTL

-----------------------------------------------------------------------------
(* The BYEs. *)

LEMMA ByesStep ==
  ASSUME TypeOK, ByesMatchEnds, [Next]_vars PROVE ByesMatchEnds'
<1> SUFFICES ASSUME NEW s \in Sessions PROVE Byes(out'[s]) = owed'[s]
  BY DEF ByesMatchEnds, Byes
<1>0. out[s] \in Seq(Packet) /\ owed[s] \in Int /\ Byes(out[s]) = owed[s]
  BY DEF TypeOK, ByesMatchEnds
<1>1. Byes(<< >>) = 0
  BY FS_EmptySet, EmptySeq DEF Byes
<1>2. ASSUME out'[s] = out[s], owed'[s] = owed[s] PROVE Byes(out'[s]) = owed'[s]
  BY <1>0, <1>2
<1>3. ASSUME NEW t \in Sessions, NEW e \in Entries, Setup(t, e) PROVE Byes(out'[s]) = owed'[s]
  <2>1. CASE s = t
    BY <1>1, <1>3, <2>1 DEF Setup, TypeOK
  <2>2. CASE s # t
    BY <1>2, <1>3, <2>2 DEF Setup, TypeOK
  <2> QED
    BY <2>1, <2>2
<1>4. ASSUME NEW t \in Sessions PROVE Byes(Composed(t)) = Byes(out[t])
  <2> DEFINE report == IF pkts[t] = 0 THEN "RR" ELSE "SR"
  <2>1. out[t] \in Seq(Packet) /\ report \in {"SR", "RR"}
    BY DEF TypeOK
  <2>2. /\ RTCP_send_packet(out[t], report) \in Seq(Packet)
        /\ Byes(RTCP_send_packet(out[t], report)) = Byes(out[t])
    BY <2>1, QueueType, ByesQueued
  <2>3. Byes(RTCP_send_packet(RTCP_send_packet(out[t], report), "SDES")) = Byes(RTCP_send_packet(out[t], report))
    BY <2>2, ByesQueued
  <2> QED
    BY <2>2, <2>3 DEF Composed
<1>5. ASSUME SendReports PROVE Byes(out'[s]) = owed'[s]
  <2>1. th.s \in Sessions
    BY <1>5, ThreadType DEF SendReports, Reporting, InHand
  <2>2. CASE s = th.s
    <3>1. out'[s] = << >> /\ owed'[s] = owed[s] - Byes(Composed(s))
      BY <1>5, <2>2 DEF SendReports, TypeOK, Sent
    <3> QED
      BY <1>0, <1>1, <1>4, <3>1
  <2>3. CASE s # th.s
    BY <1>2, <1>5, <2>3 DEF SendReports, TypeOK
  <2> QED
    BY <2>2, <2>3
<1>6. ASSUME SelectTimeout PROVE Byes(out'[s]) = owed'[s]
  <2>1. owed' = owed /\ out'[s] = IF s = th.s THEN Composed(s) ELSE out[s]
    BY <1>6 DEF SelectTimeout, TypeOK
  <2> QED
    BY <1>0, <1>4, <2>1
<1>7. ASSUME schedule_stop PROVE Byes(out'[s]) = owed'[s]
  <2> DEFINE sr == RTCP_send_packet(out[s], "SR")
             queued == RTCP_send_packet(sr, "BYE")
  <2>1. CASE s = th.s
    <3>1. sr \in Seq(Packet) /\ Byes(sr) = Byes(out[s])
      BY <1>0, QueueType, ByesQueued
    <3>2. Byes(queued) = Byes(sr) \/ Byes(queued) = Byes(sr) + 1
      BY <3>1, ByesQueued
    <3>3. out'[s] = queued
      BY <1>7, <2>1 DEF schedule_stop, TypeOK
    <3>4. owed'[s] = IF Byes(queued) = Byes(out[s]) THEN owed[s] ELSE owed[s] + 1
      BY <1>7, <2>1 DEF schedule_stop, TypeOK
    <3> QED
      BY <1>0, <3>1, <3>2, <3>3, <3>4
  <2>2. CASE s # th.s
    <3>1. out'[s] = out[s] /\ owed'[s] = owed[s]
      BY <1>7, <2>2 DEF schedule_stop, TypeOK
    <3> QED
      BY <1>2, <3>1
  <2> QED
    BY <2>1, <2>2
<1>8. CASE UNCHANGED vars
  BY <1>2, <1>8 DEF vars, hist
<1>9. CASE Main
  BY <1>2, <1>3, <1>9
  DEF Main, PlayAll, PlayFile, Start, Pause, Teardown, RTCP_recv_packet, StartFlags, StartCounts,
      RecvReport, hist
<1>10. CASE Scheduler
  BY <1>2, <1>5, <1>6, <1>7, <1>10
  DEF Scheduler, CheckCount, RTP_session_destroy, Adapt, NoReport, PlayOk, PlayUndefined, hist
<1> QED
  BY <1>8, <1>9, <1>10 DEF Next

(* Each end of a stream leaves one BYE until it is sent or lost. *)
THEOREM ByesCorrect == Spec => []ByesMatchEnds
<1>1. Init => ByesMatchEnds
  BY FS_EmptySet, EmptySeq DEF Init, ByesMatchEnds, Byes
<1> QED
  BY <1>1, InitType, TypeStep, ByesStep, PTL DEF Spec
=============================================================================
