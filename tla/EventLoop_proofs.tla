-------------------------- MODULE EventLoop_proofs --------------------------
(***************************************************************************)
(* Proofs about EventLoop, for every finite set of clients, every number   *)
(* of connections per process and every number of forks; then about        *)
(* PortPool, the pool of ports that each of the processes has, for every   *)
(* size of the pool and every start_port; and about both together.         *)
(***************************************************************************)
EXTENDS EventLoop, PortPool, FiniteSetTheorems, FunctionTheorems, WellFoundedInduction, TLAPS

Listed(c) == owner[c] # Null
Born(q) == pc[q] # "unborn"

\* What waits for accept is in no list, and nothing waits twice.
BacklogIsNew ==
  /\ \A i \in DOMAIN backlog : backlog[i] \in asked /\ ~Listed(backlog[i])
  /\ \A i, j \in DOMAIN backlog : backlog[i] = backlog[j] => i = j
  /\ \A c \in Clients : Listed(c) => c \in asked

\* Pointers stay within a process's own list.
PointersStay ==
  /\ \A q \in Procs : head[q] # Null => owner[head[q]] = q
  /\ \A c \in Clients : Listed(c) /\ next[c] # Null => owner[next[c]] = owner[c]

\* Nothing points to the head, and nothing is pointed to twice.
OnePredecessor ==
  /\ \A q \in Procs, c \in Clients : head[q] # Null /\ Listed(c) => next[c] # head[q]
  /\ \A c, d \in Clients :
       Listed(c) /\ Listed(d) /\ next[c] # Null /\ next[c] = next[d] => c = d

\* No list runs in a circle: there is a rank that next raises.
NoCircle ==
  \E f \in [Clients -> Nat] :
    \A c \in Clients : Listed(c) /\ next[c] # Null => f[c] < f[next[c]]

\* pp is p's predecessor unless p is the head.
WalkInStep ==
  \A q \in Procs :
    pc[q] = "serve" /\ p[q] # Null =>
      /\ owner[p[q]] = q
      /\ p[q] # head[q] => pp[q] # Null /\ owner[pp[q]] = q /\ next[pp[q]] = p[q]

\* Processes are born in the order of their child_count; only the last listens, as
\* long as no fork has failed.
Generations ==
  /\ leaked = {} <=> \E q \in Procs : main_fd[q] = "listen"
  /\ \A q \in Procs :
       /\ Born(q) => /\ child_count[q] = q /\ start_port[q] = PoolStart(q)
                     /\ \A k \in Procs : k < q => Born(k)
       /\ ~Born(q) => /\ main_fd[q] = "closed" /\ conn_count[q] = 0
                      /\ head[q] = Null /\ \A c \in Clients : owner[c] # q
       /\ main_fd[q] = "listen" =>
            Born(q) /\ ~stop_schedule[q] /\ \A k \in Procs : q < k => ~Born(k)
       /\ Born(q) => (main_fd[q] = "listen" <=> conn_count[q] >= 0)
       /\ pc[q] \in {"serve", "accept"} /\ mainReady[q] => main_fd[q] = "listen" /\ backlog # << >>
       /\ conn_count[q] <= Max

IInv ==
  /\ TypeOK /\ BacklogIsNew /\ PointersStay /\ OnePredecessor /\ NoCircle
  /\ WalkInStep /\ Generations /\ CountIsLength

-----------------------------------------------------------------------------
(* The connections of a process are finitely many. *)
LEMMA OwnedFinite ==
  ASSUME NEW q PROVE IsFiniteSet(Owned(q)) /\ Cardinality(Owned(q)) \in Nat
<1>1. Owned(q) \in SUBSET Clients
  BY DEF Owned
<1> QED
  BY <1>1, ClientsAssumption, FS_Subset, FS_CardinalityType, Zenon

(* A process with a connection does not count none. *)
LEMMA OwnedSome ==
  ASSUME NEW q, NEW c \in Clients, owner[c] = q
  PROVE  Cardinality(Owned(q)) \in Nat \ {0}
<1>1. c \in Owned(q)
  BY DEF Owned
<1>2. Cardinality(Owned(q)) # 0
  BY <1>1, OwnedFinite, FS_EmptySet, Zenon
<1> QED
  BY <1>2, OwnedFinite

-----------------------------------------------------------------------------
LEMMA InitIInv == Init => IInv
<1> SUFFICES ASSUME Init PROVE IInv
  OBVIOUS
<1> USE MaxAssumption, ForksAssumption, PortAssumption, NullAssumption
<1>0. 0 \in Procs /\ Procs \subseteq Nat
  BY DEF Procs
<1>1. TypeOK
  BY <1>0 DEF Init, TypeOK
<1>2. BacklogIsNew
  BY DEF Init, BacklogIsNew, Listed
<1>3. PointersStay /\ OnePredecessor /\ WalkInStep
  BY DEF Init, PointersStay, OnePredecessor, WalkInStep, Listed
<1>4. NoCircle
  <2>1. [c \in Clients |-> 0] \in [Clients -> Nat]
    OBVIOUS
  <2> QED
    BY <2>1 DEF Init, NoCircle, Listed
<1>5. Generations
  BY <1>0 DEF Init, Generations, Born, PoolStart, Procs
<1>6. CountIsLength
  <2> SUFFICES ASSUME NEW q \in Procs PROVE Cardinality(Owned(q)) = 0 /\ conn_count[q] = 0
    BY DEF CountIsLength
  <2>1. Owned(q) = {}
    BY DEF Init, Owned
  <2> QED
    BY <2>1, FS_EmptySet DEF Init
<1> QED
  BY <1>1, <1>2, <1>3, <1>4, <1>5, <1>6 DEF IInv

-----------------------------------------------------------------------------
(* What the lists and the processes are does not change. *)
LEMMA SameLists ==
  ASSUME IInv, UNCHANGED <<list, conn_count, fork, stop_schedule>>
  PROVE  PointersStay' /\ OnePredecessor' /\ NoCircle' /\ CountIsLength'
<1>1. PointersStay' /\ OnePredecessor'
  BY DEF IInv, PointersStay, OnePredecessor, Listed, list
<1>2. NoCircle'
  BY DEF IInv, NoCircle, Listed, list
<1>3. CountIsLength'
  <2>1. \A q : Owned(q)' = Owned(q)
    BY DEF Owned, list
  <2> QED
    BY <2>1 DEF IInv, CountIsLength
<1> QED
  BY <1>1, <1>2, <1>3

LEMMA ClientStep ==
  ASSUME IInv, NEW c \in Clients, Connect(c) \/ Send(c) \/ Leave(c)
  PROVE  IInv'
<1> USE DEF Connect, Send, Leave
<1>1. TypeOK'
  <2>1. backlog' \in Seq(Clients)
    <3>1. backlog \in Seq(Clients)
      BY DEF IInv, TypeOK
    <3>2. backlog' = Append(backlog, c) \/ backlog' = backlog
      OBVIOUS
    <3> QED
      BY <3>1, <3>2
  <2>2. asked' \subseteq Clients /\ request' \subseteq Clients /\ gone' \subseteq Clients
    BY DEF IInv, TypeOK
  <2> QED
    BY <2>1, <2>2 DEF IInv, TypeOK, list, fork, walk
<1>2. BacklogIsNew'
  <2>1. CASE Connect(c)
    <3>1. backlog \in Seq(Clients) /\ backlog' = Append(backlog, c) /\ c \notin asked
      BY <2>1 DEF IInv, TypeOK
    <3>2. ~Listed(c)
      BY <3>1 DEF IInv, BacklogIsNew
    <3>3. \A i \in DOMAIN backlog' :
            \/ i \in DOMAIN backlog /\ backlog'[i] = backlog[i]
            \/ i = Len(backlog) + 1 /\ backlog'[i] = c
      BY <3>1
    <3> QED
      BY <2>1, <3>1, <3>2, <3>3 DEF IInv, BacklogIsNew, Listed, list
  <2>2. CASE Send(c) \/ Leave(c)
    BY <2>2 DEF IInv, BacklogIsNew, Listed, list
  <2> QED
    BY <2>1, <2>2
<1>3. PointersStay' /\ OnePredecessor' /\ NoCircle' /\ CountIsLength'
  BY SameLists
<1>4. WalkInStep'
  BY DEF IInv, WalkInStep, list, walk
<1>5. Generations'
  <2>1. backlog # << >> => backlog' # << >>
    BY DEF IInv, TypeOK
  <2> QED
    BY <2>1 DEF IInv, Generations, Born, PoolStart, list, fork, walk
<1> QED
  BY <1>1, <1>2, <1>3, <1>4, <1>5 DEF IInv

(* The steps that neither accept nor close. *)
QuietStep(q) ==
  Select(q) \/ ServeIdle(q) \/ ServeRequest(q) \/ ServeEnd(q) \/ NoAccept(q) \/ NumberFreed(q)

LEMMA QuietStepIInv ==
  ASSUME IInv, NEW q \in Procs, QuietStep(q)
  PROVE  IInv'
<1> USE DEF QuietStep, Select, ServeIdle, ServeRequest, ServeEnd, NoAccept, NumberFreed
<1>1. TypeOK'
  <2>1. backlog' \in Seq(Clients) /\ asked' \subseteq Clients
        /\ request' \subseteq Clients /\ gone' \subseteq Clients
    BY DEF IInv, TypeOK, client
  <2>2. UNCHANGED <<list, conn_count, fork, stop_schedule>>
    BY DEF IInv, TypeOK, list, fork, walk
  <2>3. rset' \in [Procs -> SUBSET Clients] /\ mainReady' \in [Procs -> BOOLEAN]
    <3>1. rset \in [Procs -> SUBSET Clients] /\ mainReady \in [Procs -> BOOLEAN]
      BY DEF IInv, TypeOK
    <3>2. CASE Select(q)
      <4>1. Readable(q) \in SUBSET Clients /\ Pending(q) \in BOOLEAN
        BY DEF Readable, Owned, Pending
      <4> QED
        BY <3>1, <3>2, <4>1
    <3>3. CASE ~Select(q)
      BY <3>1, <3>3 DEF walk
    <3> QED
      BY <3>2, <3>3
  <2>4. p' \in [Procs -> Clients \cup {Null}] /\ pp' \in [Procs -> Clients \cup {Null}]
    <3>1. /\ p \in [Procs -> Clients \cup {Null}] /\ pp \in [Procs -> Clients \cup {Null}]
          /\ head[q] \in Clients \cup {Null}
          /\ p[q] # Null => p[q] \in Clients /\ next[p[q]] \in Clients \cup {Null}
      BY DEF IInv, TypeOK
    <3>2. CASE Select(q) \/ ServeEnd(q)
      BY <3>1, <3>2
    <3>3. CASE ServeIdle(q) \/ ServeRequest(q)
      BY <3>1, <3>3
    <3>4. CASE NoAccept(q) \/ NumberFreed(q)
      BY <3>1, <3>4 DEF walk
    <3> QED
      BY <3>2, <3>3, <3>4
  <2>5. /\ main_fd' \in [Procs -> {"listen", "closed", "reused"}]
        /\ pc' \in [Procs -> {"unborn", "select", "serve", "accept"}]
    BY DEF IInv, TypeOK, walk
  <2> QED
    BY <2>1, <2>2, <2>3, <2>4, <2>5 DEF IInv, TypeOK, list, fork
<1>2. BacklogIsNew'
  BY DEF IInv, BacklogIsNew, Listed, client, list
<1>3. PointersStay' /\ OnePredecessor' /\ NoCircle' /\ CountIsLength'
  BY SameLists DEF client, list, fork, walk
<1>4. WalkInStep'
  <2>1. CASE Select(q)
    BY <2>1 DEF IInv, TypeOK, WalkInStep, PointersStay, list
  <2>2. CASE ServeIdle(q) \/ ServeRequest(q)
    <3>1. p[q] \in Clients /\ owner[p[q]] = q /\ q # Null
      BY <2>2, NullAssumption DEF IInv, TypeOK, WalkInStep
    <3>2. next[p[q]] # Null => owner[next[p[q]]] = q
      BY <3>1 DEF IInv, PointersStay, Listed
    <3>3. /\ p'[q] = next[p[q]] /\ pp'[q] = p[q]
          /\ \A k \in Procs \ {q} : p'[k] = p[k] /\ pp'[k] = pp[k]
          /\ pc' = pc
      BY <2>2 DEF IInv, TypeOK
    <3> QED
      BY <2>2, <3>1, <3>2, <3>3, NullAssumption DEF IInv, WalkInStep, list
  <2>3. CASE ServeEnd(q) \/ NoAccept(q) \/ NumberFreed(q)
    BY <2>3 DEF IInv, TypeOK, WalkInStep, list, walk
  <2> QED
    BY <2>1, <2>2, <2>3
<1>5. Generations'
  <2>1. CASE Select(q)
    <3>1. UNCHANGED <<backlog, owner, head, conn_count, child_count, start_port, leaked, stop_schedule, main_fd>>
      BY <2>1 DEF client, list, fork
    <3>2. ASSUME NEW k \in Procs, pc'[k] \in {"serve", "accept"}, mainReady'[k]
          PROVE  main_fd[k] = "listen" /\ backlog # << >>
      <4>1. /\ pc \in [Procs -> {"unborn", "select", "serve", "accept"}]
            /\ mainReady \in [Procs -> BOOLEAN]
        BY DEF IInv, TypeOK
      <4>2. CASE k = q
        <5>1. mainReady'[q] = Pending(q)
          BY <2>1, <4>1
        <5> QED
          BY <3>2, <4>2, <5>1 DEF Pending
      <4>3. CASE k # q
        <5>1. pc'[k] = pc[k] /\ mainReady'[k] = mainReady[k]
          BY <2>1, <4>1, <4>3
        <5> QED
          BY <3>2, <5>1 DEF IInv, Generations
      <4> QED
        BY <4>2, <4>3
    <3>3. \A k \in Procs : Born(k)' <=> Born(k)
      BY <2>1 DEF IInv, TypeOK, Born
    <3> QED
      BY <3>1, <3>2, <3>3 DEF IInv, Generations, PoolStart
  <2>2. CASE ServeIdle(q) \/ ServeRequest(q) \/ NumberFreed(q)
    BY <2>2 DEF IInv, TypeOK, Generations, Born, PoolStart, client, list, fork, walk
  <2>3. CASE ServeEnd(q) \/ NoAccept(q)
    BY <2>3 DEF IInv, TypeOK, Generations, Born, PoolStart, client, list, fork, walk
  <2> QED
    BY <2>1, <2>2, <2>3
<1> QED
  BY <1>1, <1>2, <1>3, <1>4, <1>5 DEF IInv

-----------------------------------------------------------------------------
(* A connection closes: its buffer leaves the list. *)
LEMMA CloseIInv ==
  ASSUME IInv, NEW q \in Procs, ServeClose(q)
  PROVE  IInv'
<1> DEFINE c == p[q]
<1> USE NullAssumption DEF ServeClose
<1>1. c \in Clients /\ owner[c] = q /\ Listed(c) /\ q # Null /\ Born(q)
  BY DEF IInv, TypeOK, WalkInStep, Listed, Born
<1>2. /\ owner' = [owner EXCEPT ![c] = Null]
      /\ conn_count' = [conn_count EXCEPT ![q] = @ - 1]
      /\ p' = [p EXCEPT ![q] = next[c]]
      /\ stop_schedule' = [stop_schedule EXCEPT ![q] = @ \/ Stops(q, c)]
      /\ request' = request \ {c} /\ gone' = gone \cup {c}
  BY DEF Release
<1>3. /\ owner \in [Clients -> Procs \cup {Null}] /\ next \in [Clients -> Clients \cup {Null}]
      /\ head \in [Procs -> Clients \cup {Null}] /\ conn_count \in [Procs -> Int]
      /\ p \in [Procs -> Clients \cup {Null}] /\ pp \in [Procs -> Clients \cup {Null}]
  BY DEF IInv, TypeOK
<1>4. /\ \A d \in Clients : Listed(d)' <=> Listed(d) /\ d # c
      /\ \A d \in Clients : Listed(d)' => owner'[d] = owner[d]
  BY <1>1, <1>2, <1>3 DEF Listed
<1>5. next[c] # Null => owner[next[c]] = q /\ next[c] # c
  BY <1>1, <1>3 DEF IInv, PointersStay, NoCircle
<1>6. ASSUME c = head[q] PROVE PointersStay' /\ OnePredecessor' /\ NoCircle' /\ WalkInStep'
  <2>1. head' = [head EXCEPT ![q] = next[c]] /\ next' = next
    BY <1>6 DEF Unlink
  <2>2. \A d \in Clients : Listed(d) => next[d] # c
    BY <1>1, <1>6 DEF IInv, OnePredecessor
  <2>3. PointersStay'
    <3>1. ASSUME NEW k \in Procs, head'[k] # Null PROVE owner'[head'[k]] = k
      BY <1>1, <1>2, <1>3, <1>5, <2>1, <3>1 DEF IInv, PointersStay
    <3>2. ASSUME NEW d \in Clients, Listed(d)', next'[d] # Null PROVE owner'[next'[d]] = owner'[d]
      BY <1>1, <1>2, <1>3, <1>4, <2>1, <2>2, <3>2 DEF IInv, PointersStay
    <3> QED
      BY <3>1, <3>2 DEF PointersStay
  <2>4. OnePredecessor'
    BY <1>1, <1>3, <1>4, <2>1 DEF IInv, OnePredecessor
  <2>5. NoCircle'
    BY <1>4, <2>1 DEF IInv, NoCircle
  <2>6. WalkInStep'
    <3> SUFFICES ASSUME NEW k \in Procs, pc'[k] = "serve", p'[k] # Null
                 PROVE  /\ owner'[p'[k]] = k
                        /\ p'[k] # head'[k] => pp'[k] # Null /\ owner'[pp'[k]] = k /\ next'[pp'[k]] = p'[k]
      BY DEF WalkInStep
    <3>1. CASE k = q
      BY <1>1, <1>2, <1>3, <1>5, <2>1, <3>1
    <3>2. CASE k # q
      BY <1>1, <1>2, <1>3, <2>1, <3>2 DEF IInv, WalkInStep
    <3> QED
      BY <3>1, <3>2
  <2> QED
    BY <2>3, <2>4, <2>5, <2>6
<1>7. ASSUME c # head[q] PROVE PointersStay' /\ OnePredecessor' /\ NoCircle' /\ WalkInStep'
  <2> DEFINE b == pp[q]
  <2>0. b \in Clients /\ owner[b] = q /\ Listed(b) /\ next[b] = c /\ b # c
    BY <1>1, <1>3, <1>7 DEF IInv, WalkInStep, NoCircle, Listed
  <2>1. head' = head /\ next' = [next EXCEPT ![b] = next[c]]
    BY <1>7 DEF Unlink
  <2>2. \A d \in Clients : Listed(d) /\ d # b => next[d] # c
    BY <1>1, <2>0 DEF IInv, OnePredecessor
  <2>3. PointersStay'
    <3>1. ASSUME NEW k \in Procs, head'[k] # Null PROVE owner'[head'[k]] = k
      BY <1>1, <1>2, <1>3, <1>7, <2>1, <3>1 DEF IInv, PointersStay
    <3>2. ASSUME NEW d \in Clients, Listed(d)', next'[d] # Null PROVE owner'[next'[d]] = owner'[d]
      <4>1. CASE d = b
        BY <1>2, <1>3, <1>5, <2>0, <2>1, <3>2, <4>1
      <4>2. CASE d # b
        <5>1. next'[d] = next[d] /\ next[d] # c /\ Listed(d) /\ owner'[d] = owner[d]
          BY <1>3, <1>4, <2>1, <2>2, <3>2, <4>2
        <5> QED
          BY <1>2, <1>3, <3>2, <5>1 DEF IInv, PointersStay
      <4> QED
        BY <4>1, <4>2
    <3> QED
      BY <3>1, <3>2 DEF PointersStay
  <2>4. OnePredecessor'
    <3>1. ASSUME NEW k \in Procs, NEW d \in Clients, head'[k] # Null, Listed(d)' PROVE next'[d] # head'[k]
      BY <1>1, <1>3, <1>4, <2>1, <3>1 DEF IInv, OnePredecessor
    <3>2. ASSUME NEW d \in Clients, NEW e \in Clients, Listed(d)', Listed(e)', next'[d] # Null, next'[d] = next'[e]
          PROVE  d = e
      BY <1>1, <1>3, <1>4, <2>0, <2>1, <3>2 DEF IInv, OnePredecessor
    <3> QED
      BY <3>1, <3>2 DEF OnePredecessor
  <2>5. NoCircle'
    <3>1. PICK f \in [Clients -> Nat] :
                 \A d \in Clients : Listed(d) /\ next[d] # Null => f[d] < f[next[d]]
      BY DEF IInv, NoCircle
    <3>2. ASSUME NEW d \in Clients, Listed(d)', next'[d] # Null PROVE f[d] < f[next'[d]]
      <4>1. CASE d = b
        <5>1. next[c] \in Clients /\ next'[d] = next[c]
          BY <1>1, <1>3, <2>0, <2>1, <3>2, <4>1
        <5>2. f[b] < f[c] /\ f[c] < f[next[c]]
          BY <1>1, <2>0, <3>1, <3>2, <5>1, NullAssumption
        <5> QED
          BY <1>1, <2>0, <4>1, <5>1, <5>2
      <4>2. CASE d # b
        BY <1>3, <1>4, <2>1, <3>1, <3>2, <4>2
      <4> QED
        BY <4>1, <4>2
    <3> QED
      BY <3>2 DEF NoCircle
  <2>6. WalkInStep'
    <3> SUFFICES ASSUME NEW k \in Procs, pc'[k] = "serve", p'[k] # Null
                 PROVE  /\ owner'[p'[k]] = k
                        /\ p'[k] # head'[k] => pp'[k] # Null /\ owner'[pp'[k]] = k /\ next'[pp'[k]] = p'[k]
      BY DEF WalkInStep
    <3>1. CASE k = q
      BY <1>1, <1>2, <1>3, <1>5, <2>0, <2>1, <3>1
    <3>2. CASE k # q
      BY <1>1, <1>2, <1>3, <2>0, <2>1, <3>2 DEF IInv, WalkInStep
    <3> QED
      BY <3>1, <3>2
  <2> QED
    BY <2>3, <2>4, <2>5, <2>6
<1>8. TypeOK'
  <2>1. /\ owner' \in [Clients -> Procs \cup {Null}] /\ conn_count' \in [Procs -> Int]
        /\ p' \in [Procs -> Clients \cup {Null}]
    BY <1>1, <1>2, <1>3
  <2>2. stop_schedule' \in [Procs -> BOOLEAN]
    <3>1. Stops(q, c) \in BOOLEAN /\ stop_schedule \in [Procs -> BOOLEAN]
      BY DEF Stops, IInv, TypeOK
    <3> QED
      BY <1>2, <3>1
  <2>3. next' \in [Clients -> Clients \cup {Null}] /\ head' \in [Procs -> Clients \cup {Null}]
    BY <1>1, <1>3 DEF Unlink
  <2> QED
    BY <1>1, <1>2, <2>1, <2>2, <2>3 DEF IInv, TypeOK, fork
<1>9. BacklogIsNew'
  <2>1. \A i \in DOMAIN backlog : backlog[i] \in Clients
    BY DEF IInv, TypeOK
  <2> QED
    BY <1>4, <2>1 DEF IInv, BacklogIsNew
<1>10. CountIsLength'
  <2>1. Owned(q)' = Owned(q) \ {c} /\ c \in Owned(q)
    BY <1>1, <1>2, <1>3 DEF Owned
  <2>2. Cardinality(Owned(q)') = Cardinality(Owned(q)) - 1
    BY <2>1, OwnedFinite, FS_RemoveElement, Zenon
  <2>3. \A k \in Procs \ {q} : Owned(k)' = Owned(k) /\ conn_count'[k] = conn_count[k]
    BY <1>1, <1>2, <1>3 DEF Owned
  <2>4. Cardinality(Owned(q)) \in Nat \ {0}
    BY <1>1, OwnedSome
  <2>5. conn_count[q] \in Int /\ conn_count'[q] = conn_count[q] - 1
    BY <1>2, <1>3
  <2>6. Cardinality(Owned(q)) = IF conn_count[q] >= 0 THEN conn_count[q] ELSE Max + 1 + conn_count[q]
    BY DEF IInv, CountIsLength
  <2>7. Cardinality(Owned(q)') = IF conn_count'[q] >= 0 THEN conn_count'[q] ELSE Max + 1 + conn_count'[q]
    BY <2>2, <2>4, <2>5, <2>6, MaxAssumption
  <2>8. \A k \in Procs \ {q} : Cardinality(Owned(k)') = IF conn_count'[k] >= 0 THEN conn_count'[k] ELSE Max + 1 + conn_count'[k]
    BY <2>3 DEF IInv, CountIsLength
  <2> QED
    BY <2>7, <2>8 DEF CountIsLength
<1>11. Generations'
  <2>1. conn_count[q] >= 0 => conn_count[q] >= 1
    <3>1. Cardinality(Owned(q)) \in Nat \ {0}
      BY <1>1, OwnedSome
    <3> QED
      BY <1>3, <3>1 DEF IInv, CountIsLength
  <2>2. main_fd[q] = "listen" => conn_count[q] >= 1
    BY <1>1, <2>1 DEF IInv, Generations
  <2>3. conn_count'[q] = conn_count[q] - 1 /\ conn_count[q] \in Int
        /\ \A k \in Procs \ {q} : conn_count'[k] = conn_count[k]
    BY <1>2, <1>3
  <2>4. main_fd[q] = "listen" => stop_schedule'[q] = stop_schedule[q]
    <3>1. stop_schedule \in [Procs -> BOOLEAN]
      BY DEF IInv, TypeOK
    <3> QED
      BY <1>2, <2>2, <2>3, <3>1 DEF Stops
  <2>5. \A k \in Procs \ {q} : stop_schedule'[k] = stop_schedule[k]
    BY <1>2 DEF IInv, TypeOK
  <2>6. \A k \in Procs : ~Born(k) => head'[k] = Null /\ \A d \in Clients : owner'[d] # k
    BY <1>1, <1>2, <1>3 DEF IInv, Generations, Unlink
  <2>7. /\ UNCHANGED <<child_count, start_port, leaked, main_fd, pc, mainReady, backlog>>
        /\ \A k \in Procs : conn_count[k] \in Int
    BY <1>3 DEF fork
  <2>8. ASSUME NEW k \in Procs
        PROVE  /\ ~Born(k) => conn_count'[k] = 0
               /\ main_fd[k] = "listen" => ~stop_schedule'[k]
               /\ Born(k) => (main_fd[k] = "listen" <=> conn_count'[k] >= 0)
               /\ conn_count'[k] <= Max
    <3>1. CASE k = q
      BY <1>1, <2>1, <2>2, <2>3, <2>4, <3>1, MaxAssumption DEF IInv, Generations
    <3>2. CASE k # q
      BY <2>3, <2>5, <3>2 DEF IInv, Generations
    <3> QED
      BY <3>1, <3>2
  <2> QED
    BY <2>6, <2>7, <2>8 DEF IInv, Generations, Born, PoolStart
<1> QED
  BY <1>6, <1>7, <1>8, <1>9, <1>10, <1>11 DEF IInv

-----------------------------------------------------------------------------
(* What accept takes is new, and it leaves the backlog. *)
LEMMA AcceptTakesNew ==
  ASSUME IInv, NEW q \in Procs, Accepting(q), NEW k \in Procs,
         owner' = [owner EXCEPT ![Head(backlog)] = k]
  PROVE  /\ Head(backlog) \in Clients /\ ~Listed(Head(backlog))
         /\ main_fd[q] = "listen" /\ Born(q)
         /\ backlog' \in Seq(Clients)
         /\ BacklogIsNew'
<1> DEFINE x == Head(backlog)
<1>1. backlog \in Seq(Clients) /\ owner \in [Clients -> Procs \cup {Null}]
  BY DEF IInv, TypeOK
<1>2. main_fd[q] = "listen" /\ backlog # << >> /\ Born(q)
  BY DEF IInv, Generations, Accepting, Born
<1>3. x \in Clients /\ x = backlog[1] /\ 1 \in DOMAIN backlog
  BY <1>1, <1>2
<1>4. ~Listed(x) /\ x \in asked
  BY <1>3 DEF IInv, BacklogIsNew
<1> HIDE DEF x
<1>0. owner' = [owner EXCEPT ![x] = k] /\ asked' = asked
  BY DEF x, Accepting
<1>5. backlog' \in Seq(Clients)
      /\ \A i \in DOMAIN backlog' :
           i \in Nat \ {0} /\ i + 1 \in DOMAIN backlog /\ backlog'[i] = backlog[i + 1]
  BY <1>1, <1>2 DEF Accepting
<1>6. \A i \in DOMAIN backlog' : backlog'[i] \in Clients /\ backlog'[i] # x
  <2> SUFFICES ASSUME NEW i \in DOMAIN backlog' PROVE backlog'[i] \in Clients /\ backlog'[i] # x
    OBVIOUS
  <2>1. i + 1 # 1 /\ i + 1 \in DOMAIN backlog /\ backlog'[i] = backlog[i + 1]
    BY <1>5
  <2> QED
    BY <1>1, <1>3, <2>1 DEF IInv, BacklogIsNew
<1>7. BacklogIsNew'
  <2>1. \A i \in DOMAIN backlog' : backlog'[i] \in asked' /\ owner'[backlog'[i]] = Null
    <3> SUFFICES ASSUME NEW i \in DOMAIN backlog' PROVE backlog'[i] \in asked' /\ owner'[backlog'[i]] = Null
      OBVIOUS
    <3>1. i + 1 \in DOMAIN backlog /\ backlog'[i] = backlog[i + 1] /\ asked' = asked
      BY <1>0, <1>5
    <3>2. backlog'[i] \in asked /\ owner[backlog'[i]] = Null
      BY <3>1 DEF IInv, BacklogIsNew, Listed
    <3>3. owner'[backlog'[i]] = Null
      BY <1>0, <1>1, <1>6, <3>2
    <3> QED
      BY <3>1, <3>2, <3>3
  <2>2. \A i, j \in DOMAIN backlog' : backlog'[i] = backlog'[j] => i = j
    <3> SUFFICES ASSUME NEW i \in DOMAIN backlog', NEW j \in DOMAIN backlog', backlog'[i] = backlog'[j]
                 PROVE  i = j
      OBVIOUS
    <3>1. /\ i \in Nat /\ j \in Nat /\ i + 1 \in DOMAIN backlog /\ j + 1 \in DOMAIN backlog
          /\ backlog[i + 1] = backlog[j + 1]
      BY <1>5
    <3>2. i + 1 = j + 1
      BY <3>1 DEF IInv, BacklogIsNew
    <3> QED
      BY <3>1, <3>2
  <2>3. \A c \in Clients : Listed(c)' => c \in asked'
    BY <1>0, <1>1, <1>3, <1>4 DEF IInv, BacklogIsNew, Listed
  <2> QED
    BY <2>1, <2>2, <2>3 DEF BacklogIsNew, Listed
<1> QED
  BY <1>2, <1>3, <1>4, <1>5, <1>7 DEF x

(* The connections of a process that gets one more. *)
LEMMA OneMoreOwned ==
  ASSUME IInv, NEW k \in Procs, NEW x \in Clients, ~Listed(x),
         owner' = [owner EXCEPT ![x] = k]
  PROVE  /\ Cardinality(Owned(k)') = Cardinality(Owned(k)) + 1
         /\ \A q \in Procs \ {k} : Owned(q)' = Owned(q)
         /\ \A c \in Clients : Listed(c)' <=> Listed(c) \/ c = x
<1>1. owner \in [Clients -> Procs \cup {Null}] /\ owner[x] = Null
  BY DEF IInv, TypeOK, Listed
<1>2. Owned(k)' = Owned(k) \cup {x} /\ x \notin Owned(k)
  BY <1>1, NullAssumption DEF Owned
<1>3. \A q \in Procs \ {k} : Owned(q)' = Owned(q)
  BY <1>1, NullAssumption DEF Owned
<1>4. \A c \in Clients : Listed(c)' <=> Listed(c) \/ c = x
  BY <1>1, NullAssumption DEF Listed
<1> QED
  BY <1>2, <1>3, <1>4, OwnedFinite, FS_AddElement, Zenon

(* Linking a new buffer behind a last one, or as the head of an empty list,
   keeps every list in shape. *)
LEMMA LinkKeepsLists ==
  ASSUME IInv, NEW k \in Procs, NEW x \in Clients, ~Listed(x),
         owner' = [owner EXCEPT ![x] = k],
         \/ /\ head[k] = Null
            /\ head' = [head EXCEPT ![k] = x]
            /\ next' = [next EXCEPT ![x] = Null]
         \/ \E last \in Owned(k) : /\ next[last] = Null /\ head' = head
                                   /\ next' = [next EXCEPT ![last] = x, ![x] = Null]
  PROVE  PointersStay' /\ OnePredecessor' /\ NoCircle'
<1> USE NullAssumption
<1>1. /\ owner \in [Clients -> Procs \cup {Null}] /\ next \in [Clients -> Clients \cup {Null}]
      /\ head \in [Procs -> Clients \cup {Null}] /\ owner[x] = Null
  BY DEF IInv, TypeOK, Listed
<1>2. \A c \in Clients : Listed(c)' <=> Listed(c) \/ c = x
  BY OneMoreOwned
<1>3. /\ \A q \in Procs : head[q] # x
      /\ \A c \in Clients : Listed(c) => next[c] # x
  BY <1>1 DEF IInv, PointersStay, Listed
<1>4. CASE head[k] = Null /\ head' = [head EXCEPT ![k] = x] /\ next' = [next EXCEPT ![x] = Null]
  <2>1. PointersStay'
    BY <1>1, <1>2, <1>3, <1>4 DEF IInv, PointersStay, Listed
  <2>2. OnePredecessor'
    BY <1>1, <1>2, <1>3, <1>4 DEF IInv, OnePredecessor
  <2>3. NoCircle'
    BY <1>1, <1>2, <1>4 DEF IInv, NoCircle
  <2> QED
    BY <2>1, <2>2, <2>3
<1>5. ASSUME NEW last \in Owned(k), next[last] = Null, head' = head,
             next' = [next EXCEPT ![last] = x, ![x] = Null]
      PROVE  PointersStay' /\ OnePredecessor' /\ NoCircle'
  <2>1. last \in Clients /\ owner[last] = k /\ last # x /\ Listed(last)
    BY <1>1 DEF Owned, Listed
  <2>2. /\ next'[last] = x /\ next'[x] = Null
        /\ \A c \in Clients \ {last, x} : next'[c] = next[c]
    BY <1>1, <1>5, <2>1
  <2>3. PointersStay'
    BY <1>1, <1>2, <1>3, <1>5, <2>1, <2>2 DEF IInv, PointersStay, Listed
  <2>4. OnePredecessor'
    BY <1>1, <1>2, <1>3, <1>5, <2>1, <2>2 DEF IInv, OnePredecessor
  <2>5. NoCircle'
    <3>1. PICK f \in [Clients -> Nat] :
                 \A d \in Clients : Listed(d) /\ next[d] # Null => f[d] < f[next[d]]
      BY DEF IInv, NoCircle
    <3>2. [f EXCEPT ![x] = f[last] + 1] \in [Clients -> Nat]
      BY <2>1
    <3>3. ASSUME NEW d \in Clients, Listed(d)', next'[d] # Null
          PROVE  [f EXCEPT ![x] = f[last] + 1][d] < [f EXCEPT ![x] = f[last] + 1][next'[d]]
      <4>1. CASE d = last
        BY <2>1, <2>2, <4>1
      <4>2. CASE d # last
        <5>1. d # x /\ Listed(d) /\ next'[d] = next[d] /\ next[d] # x /\ next[d] \in Clients
          BY <1>1, <1>2, <1>3, <2>2, <3>3, <4>2
        <5> QED
          BY <3>1, <3>3, <5>1
      <4> QED
        BY <4>1, <4>2
    <3> QED
      BY <3>2, <3>3 DEF NoCircle
  <2> QED
    BY <2>3, <2>4, <2>5
<1> QED
  BY <1>4, <1>5

-----------------------------------------------------------------------------
LEMMA AcceptHereIInv ==
  ASSUME IInv, NEW q \in Procs, AcceptHere(q)
  PROVE  IInv'
<1> DEFINE x == Head(backlog)
<1> USE NullAssumption
<1>0. /\ Accepting(q) /\ owner' = [owner EXCEPT ![x] = q]
      /\ conn_count[q] < Max /\ conn_count' = [conn_count EXCEPT ![q] = @ + 1]
      /\ pc' = [pc EXCEPT ![q] = "select"] /\ pc[q] = "accept"
      /\ UNCHANGED <<child_count, start_port, leaked, stop_schedule, main_fd, p, pp, rset, mainReady,
                     asked, request, gone>>
      /\ \/ /\ head[q] = Null
            /\ head' = [head EXCEPT ![q] = x]
            /\ next' = [next EXCEPT ![x] = Null]
         \/ /\ head[q] # Null
            /\ \E last \in Owned(q) : /\ next[last] = Null /\ head' = head
                                      /\ next' = [next EXCEPT ![last] = x, ![x] = Null]
  BY DEF AcceptHere, AddClient, Accepting, fork, walk
<1> HIDE DEF x
<1>1. /\ x \in Clients /\ ~Listed(x) /\ main_fd[q] = "listen" /\ Born(q)
      /\ backlog' \in Seq(Clients) /\ BacklogIsNew'
  BY <1>0, AcceptTakesNew DEF x
<1>2. /\ owner \in [Clients -> Procs \cup {Null}] /\ next \in [Clients -> Clients \cup {Null}]
      /\ head \in [Procs -> Clients \cup {Null}] /\ conn_count \in [Procs -> Int]
      /\ p \in [Procs -> Clients \cup {Null}] /\ pc \in [Procs -> {"unborn", "select", "serve", "accept"}]
  BY DEF IInv, TypeOK
<1>3. PointersStay' /\ OnePredecessor' /\ NoCircle'
  BY <1>0, <1>1, LinkKeepsLists
<1>4. TypeOK'
  <2>1. /\ owner' \in [Clients -> Procs \cup {Null}] /\ conn_count' \in [Procs -> Int]
        /\ pc' \in [Procs -> {"unborn", "select", "serve", "accept"}]
    BY <1>0, <1>1, <1>2
  <2>2. head' \in [Procs -> Clients \cup {Null}]
    BY <1>0, <1>1, <1>2
  <2>3. next' \in [Clients -> Clients \cup {Null}]
    <3>1. CASE next' = [next EXCEPT ![x] = Null]
      BY <1>2, <3>1
    <3>2. CASE \E last \in Owned(q) : next' = [next EXCEPT ![last] = x, ![x] = Null]
      BY <1>1, <1>2, <3>2
    <3> QED
      BY <1>0, <3>1, <3>2
  <2> QED
    BY <1>0, <1>1, <2>1, <2>2, <2>3 DEF IInv, TypeOK
<1>5. WalkInStep'
  <2> SUFFICES ASSUME NEW k \in Procs, pc'[k] = "serve", p'[k] # Null
               PROVE  /\ owner'[p'[k]] = k
                      /\ p'[k] # head'[k] => pp'[k] # Null /\ owner'[pp'[k]] = k /\ next'[pp'[k]] = p'[k]
    BY DEF WalkInStep
  <2>1. k # q /\ pc[k] = "serve" /\ p'[k] = p[k] /\ pp'[k] = pp[k] /\ p[k] # Null
    BY <1>0, <1>2
  <2>2. head'[k] = head[k] /\ \A c \in Clients : owner[c] = k => owner'[c] = k /\ next'[c] = next[c]
    BY <1>0, <1>1, <1>2, <2>1 DEF Owned, Listed
  <2> QED
    BY <1>2, <2>1, <2>2 DEF IInv, WalkInStep, TypeOK
<1>6. CountIsLength'
  <2>1. /\ Cardinality(Owned(q)') = Cardinality(Owned(q)) + 1
        /\ \A k \in Procs \ {q} : Owned(k)' = Owned(k)
    BY <1>0, <1>1, OneMoreOwned
  <2>2. conn_count[q] >= 0 /\ conn_count'[q] = conn_count[q] + 1 /\ conn_count[q] \in Int
        /\ \A k \in Procs \ {q} : conn_count'[k] = conn_count[k]
    BY <1>0, <1>1, <1>2 DEF IInv, Generations
  <2> QED
    BY <2>1, <2>2 DEF IInv, CountIsLength
<1>7. Generations'
  <2>1. conn_count[q] >= 0 /\ conn_count'[q] = conn_count[q] + 1 /\ conn_count[q] \in Int
        /\ \A k \in Procs \ {q} : conn_count'[k] = conn_count[k]
    BY <1>0, <1>1, <1>2 DEF IInv, Generations
  <2>2. \A k \in Procs : /\ Born(k)' <=> Born(k)
                         /\ ~Born(k) => head'[k] = head[k] /\ \A c \in Clients : owner'[c] # k
    BY <1>0, <1>1, <1>2 DEF IInv, Generations, Born
  <2>3. \A k \in Procs \ {q} : main_fd[k] # "listen"
    <3> SUFFICES ASSUME NEW k \in Procs \ {q}, main_fd[k] = "listen" PROVE FALSE
      OBVIOUS
    <3>1. k < q \/ q < k
      BY ForksAssumption DEF Procs
    <3> QED
      BY <1>1, <3>1 DEF IInv, Generations
  <2>4. \A k \in Procs : pc'[k] \in {"serve", "accept"} /\ mainReady[k] => k # q /\ main_fd[k] = "listen"
    BY <1>0, <1>2 DEF IInv, Generations
  <2>5. UNCHANGED <<child_count, start_port, leaked, stop_schedule, main_fd, mainReady>>
    BY <1>0
  <2>6. ASSUME NEW k \in Procs
        PROVE  /\ ~Born(k) => conn_count'[k] = 0
               /\ Born(k) => (main_fd[k] = "listen" <=> conn_count'[k] >= 0)
               /\ conn_count'[k] <= Max
    <3>1. CASE k = q
      BY <1>0, <1>1, <2>1, <3>1, MaxAssumption DEF IInv, Generations
    <3>2. CASE k # q
      BY <2>1, <3>2 DEF IInv, Generations
    <3> QED
      BY <3>1, <3>2
  <2>7. \A k \in Procs : pc'[k] \in {"serve", "accept"} /\ mainReady'[k] => main_fd'[k] = "listen" /\ backlog' # << >>
    BY <2>3, <2>4, <2>5
  <2> QED
    BY <2>2, <2>5, <2>6, <2>7 DEF IInv, Generations, PoolStart
<1> QED
  BY <1>1, <1>3, <1>4, <1>5, <1>6, <1>7 DEF IInv

-----------------------------------------------------------------------------
LEMMA AcceptForksIInv ==
  ASSUME IInv, NEW q \in Procs, AcceptForks(q)
  PROVE  IInv'
<1> DEFINE x == Head(backlog)
<1> USE NullAssumption
<1>0. PICK k \in Procs :
        /\ pc[k] = "unborn" /\ \A j \in Procs : j < k => pc[j] # "unborn"
        /\ Accepting(q) /\ conn_count[q] >= Max /\ pc[q] = "accept"
        /\ child_count' = [child_count EXCEPT ![k] = child_count[q] + 1]
        /\ start_port' = [start_port EXCEPT ![k] = PoolStart(child_count[q] + 1)]
        /\ conn_count' = [conn_count EXCEPT ![k] = ChildCount(q), ![q] = -1]
        /\ main_fd' = [main_fd EXCEPT ![k] = main_fd[q], ![q] = "closed"]
        /\ stop_schedule' = [stop_schedule EXCEPT ![k] = stop_schedule[q]]
        /\ owner' = [owner EXCEPT ![x] = k]
        /\ next' = [next EXCEPT ![x] = Null]
        /\ head' = [head EXCEPT ![k] = x]
        /\ pc' = [pc EXCEPT ![k] = "select", ![q] = "select"]
        /\ UNCHANGED <<p, pp, rset, mainReady, asked, request, gone, leaked>>
  BY DEF AcceptForks, Accepting, walk
<1> HIDE DEF x
<1>1. /\ x \in Clients /\ ~Listed(x) /\ main_fd[q] = "listen" /\ Born(q)
      /\ backlog' \in Seq(Clients) /\ BacklogIsNew'
  BY <1>0, AcceptTakesNew DEF x
<1>2. /\ owner \in [Clients -> Procs \cup {Null}] /\ next \in [Clients -> Clients \cup {Null}]
      /\ head \in [Procs -> Clients \cup {Null}] /\ conn_count \in [Procs -> Int]
      /\ child_count \in [Procs -> Nat] /\ start_port \in [Procs -> Nat]
      /\ main_fd \in [Procs -> {"listen", "closed", "reused"}]
      /\ stop_schedule \in [Procs -> BOOLEAN]
      /\ p \in [Procs -> Clients \cup {Null}] /\ pc \in [Procs -> {"unborn", "select", "serve", "accept"}]
  BY DEF IInv, TypeOK
<1>3. /\ k # q /\ ~Born(k) /\ head[k] = Null /\ conn_count[k] = 0
      /\ \A c \in Clients : owner[c] # k
  BY <1>0, <1>1 DEF IInv, Generations, Born
\* The child is the next process in line.
<1>4. k = q + 1 /\ child_count[q] = q /\ q \in Nat
  <2>1. q \in Nat /\ k \in Nat /\ \A j \in Procs : j \in Nat
    BY DEF Procs
  <2>2. ~(k < q)
    BY <1>1, <1>3 DEF IInv, Generations
  <2>3. ~(q + 1 < k)
    <3> SUFFICES ASSUME q + 1 < k PROVE FALSE
      OBVIOUS
    <3>1. q + 1 \in Procs
      BY <2>1, ForksAssumption DEF Procs
    <3> QED
      BY <1>0, <1>1, <2>1, <3>1 DEF IInv, Generations, Born
  <2> QED
    BY <1>1, <1>3, <2>1, <2>2, <2>3 DEF IInv, Generations
<1>5. PoolStart(child_count[q] + 1) \in Nat
  BY <1>4, MaxAssumption, PortAssumption DEF PoolStart
<1>6. PointersStay' /\ OnePredecessor' /\ NoCircle'
  BY <1>0, <1>1, <1>3, LinkKeepsLists
<1>7. TypeOK'
  <2>1. /\ owner' \in [Clients -> Procs \cup {Null}] /\ next' \in [Clients -> Clients \cup {Null}]
        /\ head' \in [Procs -> Clients \cup {Null}] /\ conn_count' \in [Procs -> Int]
        /\ pc' \in [Procs -> {"unborn", "select", "serve", "accept"}]
    <3>1. ChildCount(q) \in Int /\ -1 \in Int
      BY DEF ChildCount
    <3>2. conn_count' \in [Procs -> Int]
      BY <1>0, <1>2, <3>1
    <3>3. owner' \in [Clients -> Procs \cup {Null}] /\ head' \in [Procs -> Clients \cup {Null}]
      BY <1>0, <1>1, <1>2
    <3>4. next' \in [Clients -> Clients \cup {Null}]
      BY <1>0, <1>2
    <3>5. pc' \in [Procs -> {"unborn", "select", "serve", "accept"}]
      BY <1>0, <1>2
    <3> QED
      BY <3>2, <3>3, <3>4, <3>5
  <2>2. /\ child_count' \in [Procs -> Nat] /\ start_port' \in [Procs -> Nat]
        /\ stop_schedule' \in [Procs -> BOOLEAN]
        /\ main_fd' \in [Procs -> {"listen", "closed", "reused"}]
    BY <1>0, <1>2, <1>5
  <2> QED
    BY <1>0, <1>1, <2>1, <2>2 DEF IInv, TypeOK
<1>8. WalkInStep'
  <2> SUFFICES ASSUME NEW j \in Procs, pc'[j] = "serve", p'[j] # Null
               PROVE  /\ owner'[p'[j]] = j
                      /\ p'[j] # head'[j] => pp'[j] # Null /\ owner'[pp'[j]] = j /\ next'[pp'[j]] = p'[j]
    BY DEF WalkInStep
  <2>1. j # q /\ j # k /\ pc[j] = "serve" /\ p'[j] = p[j] /\ pp'[j] = pp[j] /\ p[j] # Null
    BY <1>0, <1>2
  <2>2. head'[j] = head[j] /\ \A c \in Clients : owner[c] = j => owner'[c] = j /\ next'[c] = next[c]
    BY <1>0, <1>1, <1>2, <2>1 DEF Listed
  <2> QED
    BY <1>2, <2>1, <2>2 DEF IInv, WalkInStep, TypeOK
<1>9. CountIsLength'
  <2>1. /\ Cardinality(Owned(k)') = Cardinality(Owned(k)) + 1
        /\ \A j \in Procs \ {k} : Owned(j)' = Owned(j)
    BY <1>0, <1>1, OneMoreOwned
  <2>2. /\ conn_count'[k] = 1 /\ conn_count'[q] = -1 /\ conn_count[q] = Max
        /\ \A j \in Procs \ {k, q} : conn_count'[j] = conn_count[j]
    BY <1>0, <1>1, <1>2, <1>3, MaxAssumption DEF IInv, Generations, ChildCount
  <2>3. Cardinality(Owned(k)) = 0 /\ Cardinality(Owned(q)) = Max
    BY <1>3, <2>2, MaxAssumption DEF IInv, CountIsLength
  <2> QED
    BY <1>3, <2>1, <2>2, <2>3, MaxAssumption DEF IInv, CountIsLength
<1>10. Generations'
  <2>1. /\ child_count'[k] = k /\ start_port'[k] = PoolStart(k)
        /\ conn_count'[k] = 1 /\ conn_count'[q] = -1
        /\ main_fd'[k] = "listen" /\ main_fd'[q] = "closed"
        /\ stop_schedule'[k] = stop_schedule[q] /\ stop_schedule'[q] = stop_schedule[q]
        /\ child_count'[q] = child_count[q] /\ start_port'[q] = start_port[q]
        /\ pc'[k] = "select" /\ pc'[q] = "select"
    BY <1>0, <1>1, <1>2, <1>3, <1>4 DEF ChildCount
  <2>2. \A j \in Procs \ {k, q} :
          /\ conn_count'[j] = conn_count[j] /\ child_count'[j] = child_count[j]
          /\ start_port'[j] = start_port[j] /\ main_fd'[j] = main_fd[j]
          /\ stop_schedule'[j] = stop_schedule[j] /\ pc'[j] = pc[j] /\ head'[j] = head[j]
          /\ \A c \in Clients : owner[c] # j => owner'[c] # j
    BY <1>0, <1>1, <1>2
  <2>3. \A j \in Procs : j # k /\ j # q => main_fd[j] # "listen" /\ (j < k => j < q) /\ (k < j => q < j)
    <3> SUFFICES ASSUME NEW j \in Procs, j # k, j # q
                 PROVE  main_fd[j] # "listen" /\ (j < k => j < q) /\ (k < j => q < j)
      OBVIOUS
    <3>1. j \in Nat /\ (j < k => j < q) /\ (k < j => q < j)
      BY <1>4 DEF Procs
    <3>2. j < q \/ q < j
      BY <1>4, <3>1
    <3> QED
      BY <1>1, <3>1, <3>2 DEF IInv, Generations
  <2>4. Born(k)' /\ Born(q)' /\ \A j \in Procs \ {k, q} : Born(j)' <=> Born(j)
    BY <2>1, <2>2 DEF Born
  <2>5. q < k /\ \A j \in Procs : k < j => ~Born(j) /\ j # q
    BY <1>1, <1>4 DEF IInv, Generations, Procs
  <2>6. UNCHANGED mainReady
    BY <1>0
  <2>7. \A j \in Procs : j < k => Born(j)
    BY <1>0 DEF Born
  <2>8. ASSUME NEW j \in Procs
        PROVE  /\ Born(j)' => /\ child_count'[j] = j /\ start_port'[j] = PoolStart(j)
                              /\ \A i \in Procs : i < j => Born(i)'
               /\ ~Born(j)' => /\ main_fd'[j] = "closed" /\ conn_count'[j] = 0
                               /\ head'[j] = Null /\ \A c \in Clients : owner'[c] # j
               /\ main_fd'[j] = "listen" =>
                    Born(j)' /\ ~stop_schedule'[j] /\ \A i \in Procs : j < i => ~Born(i)'
               /\ Born(j)' => (main_fd'[j] = "listen" <=> conn_count'[j] >= 0)
               /\ pc'[j] \in {"serve", "accept"} /\ mainReady'[j] => main_fd'[j] = "listen" /\ backlog' # << >>
               /\ conn_count'[j] <= Max
    <3>1. CASE j = k
      BY <1>1, <2>1, <2>2, <2>4, <2>5, <2>7, <3>1, MaxAssumption DEF IInv, Generations
    <3>2. CASE j = q
      BY <1>1, <1>3, <2>1, <2>4, <2>5, <3>2, MaxAssumption DEF IInv, Generations
    <3>3. CASE j # k /\ j # q
      BY <1>3, <2>2, <2>3, <2>4, <2>6, <3>3 DEF IInv, Generations
    <3> QED
      BY <3>1, <3>2, <3>3
  <2>9. leaked' = {} <=> \E j \in Procs : main_fd'[j] = "listen"
    BY <1>0, <1>1, <2>1 DEF IInv, Generations
  <2> QED
    BY <2>8, <2>9 DEF Generations, PoolStart
<1> QED
  BY <1>1, <1>6, <1>7, <1>8, <1>9, <1>10 DEF IInv

-----------------------------------------------------------------------------
(* A fork fails: the process stops listening and nobody takes over. *)
LEMMA ForkFailsIInv ==
  ASSUME IInv, NEW q \in Procs, ForkFails(q)
  PROVE  IInv'
<1> DEFINE x == Head(backlog)
<1> USE NullAssumption
<1>0. /\ Accepting(q) /\ conn_count[q] >= Max
      /\ conn_count' = [conn_count EXCEPT ![q] = -1]
      /\ main_fd' = [main_fd EXCEPT ![q] = "closed"]
      /\ leaked' = leaked \cup {x}
      /\ pc' = [pc EXCEPT ![q] = "select"]
      /\ UNCHANGED <<owner, next, head, child_count, start_port, stop_schedule, p, pp, rset, mainReady,
                     asked, request, gone>>
  BY DEF ForkFails, Accepting, walk, list
<1>1. /\ backlog \in Seq(Clients) /\ conn_count \in [Procs -> Int]
      /\ main_fd \in [Procs -> {"listen", "closed", "reused"}]
      /\ pc \in [Procs -> {"unborn", "select", "serve", "accept"}]
  BY DEF IInv, TypeOK
<1>2. main_fd[q] = "listen" /\ backlog # << >> /\ Born(q)
  BY <1>0 DEF IInv, Generations, Accepting, Born
<1>3. x \in Clients
  BY <1>1, <1>2
<1> HIDE DEF x
<1>4. backlog' \in Seq(Clients)
      /\ \A i \in DOMAIN backlog' :
           i \in Nat \ {0} /\ i + 1 \in DOMAIN backlog /\ backlog'[i] = backlog[i + 1]
  BY <1>0, <1>1, <1>2 DEF Accepting
<1>5. TypeOK'
  <2>1. /\ leaked' \subseteq Clients /\ conn_count' \in [Procs -> Int]
        /\ main_fd' \in [Procs -> {"listen", "closed", "reused"}]
        /\ pc' \in [Procs -> {"unborn", "select", "serve", "accept"}]
    <3>1. leaked \subseteq Clients /\ -1 \in Int
      BY DEF IInv, TypeOK
    <3> QED
      BY <1>0, <1>1, <1>3, <3>1
  <2> QED
    BY <1>0, <1>4, <2>1 DEF IInv, TypeOK
<1>6. BacklogIsNew'
  <2>1. \A i \in DOMAIN backlog' : backlog'[i] \in asked' /\ owner'[backlog'[i]] = Null
    <3> SUFFICES ASSUME NEW i \in DOMAIN backlog' PROVE backlog'[i] \in asked' /\ owner'[backlog'[i]] = Null
      OBVIOUS
    <3>1. i + 1 \in DOMAIN backlog /\ backlog'[i] = backlog[i + 1]
      BY <1>4
    <3> QED
      BY <1>0, <3>1 DEF IInv, BacklogIsNew, Listed
  <2>2. \A i, j \in DOMAIN backlog' : backlog'[i] = backlog'[j] => i = j
    <3> SUFFICES ASSUME NEW i \in DOMAIN backlog', NEW j \in DOMAIN backlog', backlog'[i] = backlog'[j]
                 PROVE  i = j
      OBVIOUS
    <3>1. /\ i \in Nat /\ j \in Nat /\ i + 1 \in DOMAIN backlog /\ j + 1 \in DOMAIN backlog
          /\ backlog[i + 1] = backlog[j + 1]
      BY <1>4
    <3>2. i + 1 = j + 1
      BY <3>1 DEF IInv, BacklogIsNew
    <3> QED
      BY <3>1, <3>2
  <2> QED
    BY <1>0, <2>1, <2>2 DEF IInv, BacklogIsNew, Listed
<1>7. PointersStay' /\ OnePredecessor' /\ NoCircle'
  <2>1. PointersStay' /\ OnePredecessor'
    BY <1>0 DEF IInv, PointersStay, OnePredecessor, Listed
  <2>2. NoCircle'
    BY <1>0 DEF IInv, NoCircle, Listed
  <2> QED
    BY <2>1, <2>2
<1>8. WalkInStep'
  BY <1>0, <1>1 DEF IInv, WalkInStep
<1>9. conn_count[q] = Max /\ \A k \in Procs \ {q} : conn_count'[k] = conn_count[k]
  BY <1>0, <1>1, MaxAssumption DEF IInv, Generations
<1>10. CountIsLength'
  <2>1. \A k : Owned(k)' = Owned(k)
    BY <1>0 DEF Owned
  <2>2. Cardinality(Owned(q)) = Max /\ conn_count'[q] = -1
    BY <1>0, <1>1, <1>9, MaxAssumption DEF IInv, CountIsLength
  <2> QED
    BY <1>9, <2>1, <2>2, MaxAssumption DEF IInv, CountIsLength
<1>11. Generations'
  <2>1. \A k \in Procs \ {q} : main_fd'[k] = main_fd[k] /\ main_fd[k] # "listen" /\ pc'[k] = pc[k]
    <3> SUFFICES ASSUME NEW k \in Procs \ {q}, main_fd[k] = "listen" PROVE FALSE
      BY <1>0, <1>1
    <3>1. k < q \/ q < k
      BY DEF Procs
    <3> QED
      BY <1>2, <3>1 DEF IInv, Generations
  <2>2. main_fd'[q] = "closed" /\ conn_count'[q] = -1 /\ pc'[q] = "select"
    BY <1>0, <1>1
  <2>3. \A k \in Procs : Born(k)' <=> Born(k)
    BY <1>2, <2>1, <2>2 DEF Born
  <2>4. leaked' # {} /\ \A k \in Procs : main_fd'[k] # "listen"
    BY <1>0, <2>1, <2>2
  <2>5. ASSUME NEW k \in Procs
        PROVE  /\ pc'[k] \in {"serve", "accept"} /\ mainReady'[k] => main_fd'[k] = "listen" /\ backlog' # << >>
               /\ ~Born(k) => main_fd'[k] = "closed" /\ conn_count'[k] = 0
               /\ Born(k) => ~(conn_count'[k] >= 0)
               /\ conn_count'[k] <= Max
    <3>1. CASE k = q
      BY <1>2, <2>2, <3>1, MaxAssumption
    <3>2. CASE k # q
      BY <1>0, <1>9, <2>1, <3>2 DEF IInv, Generations
    <3> QED
      BY <3>1, <3>2
  <2> QED
    BY <1>0, <2>3, <2>4, <2>5 DEF IInv, Generations, PoolStart
<1> QED
  BY <1>5, <1>6, <1>7, <1>8, <1>10, <1>11 DEF IInv

-----------------------------------------------------------------------------
LEMMA NextIInv == IInv /\ [Next]_vars => IInv'
<1> SUFFICES ASSUME IInv, [Next]_vars PROVE IInv'
  OBVIOUS
<1>1. ASSUME NEW c \in Clients, Connect(c) \/ Send(c) \/ Leave(c) PROVE IInv'
  BY <1>1, ClientStep
<1>2. ASSUME NEW q \in Procs, Turn(q) \/ NumberFreed(q) PROVE IInv'
  <2>1. CASE QuietStep(q)
    BY <2>1, QuietStepIInv
  <2>2. CASE ServeClose(q)
    BY <2>2, CloseIInv
  <2>3. CASE AcceptHere(q)
    BY <2>3, AcceptHereIInv
  <2>4. CASE AcceptForks(q)
    BY <2>4, AcceptForksIInv
  <2>5. CASE ForkFails(q)
    BY <2>5, ForkFailsIInv
  <2> QED
    BY <1>2, <2>1, <2>2, <2>3, <2>4, <2>5 DEF Turn, QuietStep
<1>3. CASE UNCHANGED vars
  <2>1. TypeOK' /\ BacklogIsNew' /\ PointersStay' /\ OnePredecessor' /\ WalkInStep'
    BY <1>3 DEF IInv, vars, client, list, fork, walk, TypeOK, BacklogIsNew, PointersStay,
                OnePredecessor, WalkInStep, Listed
  <2>2. NoCircle' /\ CountIsLength'
    BY <1>3, SameLists DEF vars, list
  <2>3. Generations'
    BY <1>3 DEF IInv, vars, client, list, fork, walk, Generations, Born, PoolStart
  <2> QED
    BY <2>1, <2>2, <2>3 DEF IInv
<1> QED
  BY <1>1, <1>2, <1>3 DEF Next

LEMMA IInvInvariant == Spec => []IInv
<1> QED
  BY InitIInv, NextIInv, PTL DEF Spec

-----------------------------------------------------------------------------
(* The types of the lists, the walks and the processes' statics. *)
THEOREM TypeCorrect == Spec => []TypeOK
<1>1. IInv => TypeOK
  BY DEF IInv
<1> QED
  BY IInvInvariant, <1>1, PTL

(* conn_count is the number of connections of a process that has not forked, and
   afterwards counts down from -1 as they close, whatever closes during the walk
   and whoever connects. *)
THEOREM CountCorrect == Spec => []CountIsLength
<1>1. IInv => CountIsLength
  BY DEF IInv
<1> QED
  BY IInvInvariant, <1>1, PTL

(* At any time and after any number of forks at most one process listens, and it
   is able to accept; one does unless a fork has failed, and none does then. *)
THEOREM AcceptorUnique == Spec => []OneAcceptor
<1>1. IInv => OneAcceptor
  <2> SUFFICES ASSUME IInv PROVE OneAcceptor
    OBVIOUS
  <2>1. ASSUME NEW q \in Procs, main_fd[q] = "listen", NEW k \in Procs \ {q}, main_fd[k] = "listen" PROVE FALSE
    <3>1. k < q \/ q < k
      BY DEF Procs
    <3> QED
      BY <2>1, <3>1 DEF IInv, Generations
  <2>2. ASSUME NEW q \in Procs, main_fd[q] = "listen" PROVE conn_count[q] >= 0 /\ ~stop_schedule[q]
    BY <2>2 DEF IInv, Generations
  <2>3. leaked = {} <=> \E q \in Procs : main_fd[q] = "listen"
    BY DEF IInv, Generations
  <2> QED
    BY <2>1, <2>2, <2>3 DEF OneAcceptor
<1> QED
  BY IInvInvariant, <1>1, PTL

(* The ranges of two process numbers do not meet. *)
LEMMA RangesDisjoint ==
  ASSUME NEW q \in Nat, NEW k \in Nat, q < k
  PROVE  PoolStart(q) + 2 * Max <= PoolStart(k)
<1>1. \A m, a, b \in Nat : a + 1 <= b => m * a + m <= m * b
  <2> SUFFICES ASSUME NEW m \in Nat, NEW a \in Nat, NEW b \in Nat, a + 1 <= b
               PROVE  m * a + m <= m * b
    OBVIOUS
  <2>1. b - (a + 1) \in Nat /\ m * (b - (a + 1)) \in Nat
    BY SMT
  <2>2. m * b = m * a + m + m * (b - (a + 1))
    BY SMT
  <2> QED
    BY <2>1, <2>2, SMT
<1>2. Max * q + Max <= Max * k
  BY <1>1, MaxAssumption
<1> QED
  BY <1>2, MaxAssumption, PortAssumption DEF PoolStart

(* No RTP or RTCP port belongs to the pools of two processes, for every
   ONE_FORK_MAX_CONNECTION and every number of forks. *)
THEOREM PoolsDisjoint == Spec => []PortsDisjoint
<1>1. IInv => PortsDisjoint
  <2> SUFFICES ASSUME IInv, NEW q \in Procs, NEW k \in Procs, q # k, Born(q), Born(k)
               PROVE  \/ start_port[q] + 2 * Max <= start_port[k]
                      \/ start_port[k] + 2 * Max <= start_port[q]
    BY DEF PortsDisjoint, Born
  <2>1. start_port[q] = PoolStart(q) /\ start_port[k] = PoolStart(k)
    BY DEF IInv, Generations
  <2>2. q \in Nat /\ k \in Nat /\ (q < k \/ k < q)
    BY DEF Procs
  <2> QED
    BY <2>1, <2>2, RangesDisjoint
<1> QED
  BY IInvInvariant, <1>1, PTL

-----------------------------------------------------------------------------
(* Induction: a property that fails for a number fails for a least one. *)
LEMMA LeastNat ==
  ASSUME NEW T, T \subseteq Nat, T # {}
  PROVE  \E x \in T : \A y \in T : x <= y
<1>1. PICK x \in T : \A y \in T : ~(<<y, x>> \in OpToRel(<, Nat))
  BY NatLessThanWellFounded, WFMin
<1>2. \A y \in T : ~(y < x)
  BY <1>1 DEF OpToRel
<1> QED
  BY <1>2

(* Iterating a function is well defined. *)
LEMMA Iterate ==
  ASSUME NEW S, NEW h \in S, NEW Succ \in [S -> S]
  PROVE  \E f \in [Nat -> S] : f[0] = h /\ \A n \in Nat : f[n + 1] = Succ[f[n]]
<1> DEFINE Upto(n, g) == g \in [0 .. n -> S] /\ g[0] = h /\ \A i \in 0 .. n - 1 : g[i + 1] = Succ[g[i]]
           Bad == {n \in Nat : ~ \E g : Upto(n, g)}
<1>1. Upto(0, [i \in 0 .. 0 |-> h])
  OBVIOUS
<1>2. ASSUME NEW n \in Nat, NEW g, Upto(n, g)
      PROVE  Upto(n + 1, [i \in 0 .. n + 1 |-> IF i = n + 1 THEN Succ[g[n]] ELSE g[i]])
  BY <1>2
<1>3. Bad = {}
  <2> SUFFICES ASSUME Bad # {} PROVE FALSE
    OBVIOUS
  <2>1. PICK m \in Bad : \A k \in Bad : m <= k
    BY LeastNat
  <2>2. m # 0
    BY <1>1
  <2>3. m - 1 \in Nat /\ m - 1 \notin Bad
    BY <2>1, <2>2
  <2>4. PICK g : Upto(m - 1, g)
    BY <2>3
  <2> HIDE DEF Upto
  <2>5. \E gg : Upto(m - 1 + 1, gg)
    BY <1>2, <2>3, <2>4
  <2> QED
    BY <2>5, <2>3
<1>4. ASSUME NEW m \in Nat, NEW n \in Nat, NEW f, NEW g, Upto(m, f), Upto(n, g), m <= n
      PROVE  f[m] = g[m]
  <2> DEFINE D == {i \in 0 .. m : f[i] # g[i]}
  <2> SUFFICES ASSUME D # {} PROVE FALSE
    OBVIOUS
  <2>1. PICK k \in D : \A l \in D : k <= l
    <3>1. D \subseteq Nat
      OBVIOUS
    <3> HIDE DEF D
    <3> QED
      BY <3>1, LeastNat
  <2>2. k # 0
    BY <1>4
  <2>3. f[k - 1] = g[k - 1] /\ k - 1 \in 0 .. m - 1 /\ k - 1 \in 0 .. n - 1
    BY <2>1, <2>2, <1>4
  <2>4. f[k - 1 + 1] = g[k - 1 + 1]
    BY <2>3, <1>4
  <2> QED
    BY <2>4, <2>1
<1> DEFINE G(n) == CHOOSE g : Upto(n, g)
           f == [n \in Nat |-> G(n)[n]]
<1>5. \A n \in Nat : Upto(n, G(n))
  BY <1>3
<1>6. f \in [Nat -> S] /\ f[0] = h
  <2> HIDE DEF G
  <2>1. \A n \in Nat : G(n)[n] \in S
    BY <1>5
  <2>2. G(0)[0] = h
    BY <1>5
  <2> QED
    BY <2>1, <2>2
<1>7. ASSUME NEW n \in Nat PROVE f[n + 1] = Succ[f[n]]
  <2> HIDE DEF G
  <2>1. G(n + 1)[n + 1] = Succ[G(n + 1)[n]]
    BY <1>5
  <2>2. G(n)[n] = G(n + 1)[n]
    <3> HIDE DEF Upto
    <3> QED
      BY <1>4, <1>5
  <2> QED
    BY <2>1, <2>2
<1> QED
  BY <1>6, <1>7

(* Induction, for a set of numbers. *)
LEMMA NatsAll ==
  ASSUME NEW T, 0 \in T, \A n \in Nat : n \in T => n + 1 \in T
  PROVE  Nat \subseteq T
<1> DEFINE D == Nat \ T
<1> SUFFICES ASSUME D # {} PROVE FALSE
  OBVIOUS
<1>1. PICK m \in D : \A k \in D : m <= k
  BY LeastNat
<1>2. m # 0 /\ m - 1 \in Nat /\ m - 1 + 1 = m
  BY <1>1
<1>3. m - 1 \in T
  BY <1>1, <1>2
<1> QED
  BY <1>2, <1>3

-----------------------------------------------------------------------------
\* O, among the buffers S, is linked from the head h by nx without a circle, and
\* ends in nl: each element but h has a predecessor, and the rank f climbs.
IsList(S, nl, O, h, nx, f) ==
  /\ IsFiniteSet(S) /\ nl \notin S /\ O \subseteq S /\ h \in O \cup {nl}
  /\ nx \in [S -> S \cup {nl}] /\ f \in [S -> Nat]
  /\ \A c \in O : nx[c] # nl => nx[c] \in O /\ f[c] < f[nx[c]]
  /\ \A c \in O : c = h \/ \E d \in O : nx[d] = c

\* t goes along the pointers, from the head.
IsWalk(S, nl, h, nx, t) ==
  /\ t \in [Nat -> S \cup {nl}] /\ t[0] = h
  /\ \A n \in Nat : t[n + 1] = IF t[n] = nl THEN nl ELSE nx[t[n]]

(* A walk visits all of a list, once each, and then ends. *)
LEMMA WalkVisitsAll ==
  ASSUME NEW S, NEW nl, NEW O, NEW h, NEW nx, NEW f, NEW t,
         IsList(S, nl, O, h, nx, f), IsWalk(S, nl, h, nx, t)
  PROVE  /\ {t[n] : n \in 0 .. Cardinality(O) - 1} = O
         /\ t[Cardinality(O)] = nl
<1> USE DEF IsList, IsWalk
<1>1. IsFiniteSet(O) /\ Cardinality(O) \in Nat
  BY FS_Subset, FS_CardinalityType
\* The walk stays in O until it ends.
<1>2. \A n \in Nat : t[n] \in O \cup {nl}
  <2> DEFINE T == {n \in Nat : t[n] \in O \cup {nl}}
  <2>1. 0 \in T
    OBVIOUS
  <2>2. \A n \in Nat : n \in T => n + 1 \in T
    OBVIOUS
  <2>3. Nat \subseteq T
    <3> HIDE DEF T
    <3> QED
      BY <2>1, <2>2, NatsAll
  <2> QED
    BY <2>3
\* It climbs in rank.
<1>3. ASSUME NEW m \in Nat, \A n \in 0 .. m : t[n] # nl
      PROVE  \A j \in 0 .. m : \A i \in 0 .. j - 1 : f[t[i]] < f[t[j]]
  <2> DEFINE T == {j \in Nat : j <= m => \A i \in 0 .. j - 1 : f[t[i]] < f[t[j]]}
  <2>1. 0 \in T
    OBVIOUS
  <2>2. ASSUME NEW j \in Nat, j \in T, j + 1 <= m PROVE \A i \in 0 .. j : f[t[i]] < f[t[j + 1]]
    <3>1. t[j] \in O /\ t[j + 1] = nx[t[j]] /\ t[j + 1] # nl
      BY <1>2, <1>3, <2>2
    <3>2. f[t[j]] < f[t[j + 1]] /\ f[t[j]] \in Nat /\ f[t[j + 1]] \in Nat
      BY <3>1
    <3>3. ASSUME NEW i \in 0 .. j - 1 PROVE f[t[i]] < f[t[j + 1]]
      <4>1. f[t[i]] < f[t[j]]
        BY <2>2, <3>3
      <4>2. t[i] \in O
        BY <1>2, <1>3, <2>2, <3>3
      <4> QED
        BY <3>2, <4>1, <4>2
    <3>4. \A i \in 0 .. j : i \in 0 .. j - 1 \/ i = j
      OBVIOUS
    <3> QED
      BY <3>2, <3>3, <3>4
  <2>3. Nat \subseteq T
    <3>1. \A n \in Nat : n \in T => n + 1 \in T
      BY <2>2
    <3> HIDE DEF T
    <3> QED
      BY <2>1, <3>1, NatsAll
  <2> QED
    BY <2>3
<1>4. ASSUME NEW m \in Nat, \A n \in 0 .. m : t[n] # nl
      PROVE  \A i, j \in 0 .. m : t[i] = t[j] => i = j
  <2> SUFFICES ASSUME NEW i \in 0 .. m, NEW j \in 0 .. m, i < j, t[i] = t[j] PROVE FALSE
    OBVIOUS
  <2>1. i \in 0 .. j - 1
    OBVIOUS
  <2>2. f[t[i]] < f[t[j]]
    BY <1>3, <1>4, <2>1
  <2>3. f[t[i]] \in Nat
    BY <1>2, <1>4
  <2> QED
    BY <2>2, <2>3
\* So it ends.
<1>5. \E n \in Nat : t[n] = nl
  <2> SUFFICES ASSUME \A n \in Nat : t[n] # nl PROVE FALSE
    OBVIOUS
  <2> DEFINE K == Cardinality(O)
             Z == 0 .. K
             g == [n \in Z |-> t[n]]
  <2>1. g \in [Z -> O]
    BY <1>1, <1>2
  <2>2. IsFiniteSet(Z) /\ Cardinality(Z) = K + 1
    <3>1. K \in Nat
      BY <1>1
    <3> HIDE DEF K
    <3>2. IsFiniteSet(Z) /\ Cardinality(Z) = IF 0 > K THEN 0 ELSE K - 0 + 1
      BY ONLY <3>1, FS_Interval
    <3> QED
      BY ONLY <3>1, <3>2
  <2>3. \E x, y \in Z : x # y /\ g[x] = g[y]
    <3>1. Cardinality(O) < Cardinality(Z)
      BY <1>1, <2>2
    <3>2. IsFiniteSet(O) /\ IsFiniteSet(Z)
      BY <1>1, <2>2
    <3> HIDE DEF g, Z, K
    <3> QED
      BY ONLY <2>1, <3>1, <3>2, FS_PigeonHole
  <2>4. PICK x \in 0 .. K, y \in 0 .. K : x # y /\ t[x] = t[y]
    BY <2>3
  <2>5. K \in Nat /\ \A n \in 0 .. K : t[n] # nl
    BY <1>1
  <2>6. \A i, j \in 0 .. K : t[i] = t[j] => i = j
    <3> HIDE DEF K
    <3> QED
      BY <1>4, <2>5
  <2> HIDE DEF K
  <2> QED
    BY <2>4, <2>6
<1>6. PICK m \in Nat : t[m] = nl /\ \A n \in 0 .. m - 1 : t[n] # nl
  <2> DEFINE T == {n \in Nat : t[n] = nl}
  <2>1. PICK m \in T : \A n \in T : m <= n
    BY <1>5, LeastNat
  <2> QED
    BY <2>1
\* Nothing is left out: of what is, take what is lowest in rank.
<1>7. O \subseteq {t[n] : n \in 0 .. m - 1}
  <2> DEFINE V == {t[n] : n \in 0 .. m - 1}
             R == {f[c] : c \in O \ V}
  <2> SUFFICES ASSUME O \ V # {} PROVE FALSE
    OBVIOUS
  <2>1. PICK r \in R : \A s \in R : r <= s
    <3>1. R \subseteq Nat /\ R # {}
      OBVIOUS
    <3> HIDE DEF R
    <3> QED
      BY <3>1, LeastNat
  <2>2. PICK c \in O \ V : f[c] = r
    BY <2>1
  <2>3. c # h
    BY <1>6, <2>2
  <2>4. PICK d \in O : nx[d] = c
    BY <2>2, <2>3
  <2>5. f[d] < f[c] /\ f[d] \in Nat /\ f[c] \in Nat
    BY <2>2, <2>4
  <2>6. d \in V
    <3> SUFFICES ASSUME d \notin V PROVE FALSE
      OBVIOUS
    <3>1. f[d] \in R
      OBVIOUS
    <3>2. f[c] <= f[d]
      BY <2>1, <2>2, <3>1
    <3> QED
      BY <2>5, <3>2
  <2>7. PICK n \in 0 .. m - 1 : d = t[n]
    BY <2>6
  <2>8. t[n + 1] = c /\ n + 1 \in 0 .. m
    BY <2>4, <2>7
  <2>9. n + 1 # m
    BY <1>6, <2>2, <2>8
  <2> QED
    BY <2>2, <2>8, <2>9
<1>8. {t[n] : n \in 0 .. m - 1} = O
  BY <1>2, <1>6, <1>7
<1>9. Cardinality(O) = m
  <2> DEFINE g == [n \in 0 .. m - 1 |-> t[n]]
  <2>1. g \in [0 .. m - 1 -> O]
    BY <1>8
  <2>2. \A i, j \in 0 .. m - 1 : g[i] = g[j] => i = j
    <3>1. CASE m = 0
      BY <3>1
    <3>2. CASE m # 0
      <4>1. m - 1 \in Nat
        BY <3>2
      <4> QED
        BY <1>4, <1>6, <4>1
    <3> QED
      BY <3>1, <3>2
  <2>3. \A c \in O : \E n \in 0 .. m - 1 : g[n] = c
    BY <1>8
  <2>4. g \in Bijection(0 .. m - 1, O)
    <3> HIDE DEF g
    <3> QED
      BY <2>1, <2>2, <2>3, Fun_IsBij
  <2>5. IsFiniteSet(0 .. m - 1) /\ Cardinality(0 .. m - 1) = m
    <3>1. m - 1 \in Int /\ 0 \in Int
      OBVIOUS
    <3>2. IsFiniteSet(0 .. m - 1) /\ Cardinality(0 .. m - 1) = IF 0 > m - 1 THEN 0 ELSE m - 1 - 0 + 1
      BY <3>1, FS_Interval, Zenon
    <3> QED
      BY <3>2
  <2>6. ExistsBijection(0 .. m - 1, O)
    <3> HIDE DEF g
    <3> QED
      BY <2>4 DEF ExistsBijection
  <2> QED
    BY <2>5, <2>6, FS_Bijection
<1> QED
  BY <1>6, <1>8, <1>9

-----------------------------------------------------------------------------
\* Every buffer but the head of its list has a predecessor.
HasPredecessor ==
  \A c \in Clients : Listed(c) =>
    c = head[owner[c]] \/ \E d \in Clients : owner[d] = owner[c] /\ next[d] = c

(* A list whose buffers point the right way holds all of them. *)
LEMMA ListIsWalk ==
  ASSUME IInv, HasPredecessor
  PROVE  ListHoldsOwned
<1> USE NullAssumption
<1> SUFFICES ASSUME NEW q \in Procs
             PROVE  /\ {Nth(q)[n] : n \in 0 .. Cardinality(Owned(q)) - 1} = Owned(q)
                    /\ Nth(q)[Cardinality(Owned(q))] = Null
  BY DEF ListHoldsOwned
<1>1. /\ owner \in [Clients -> Procs \cup {Null}] /\ next \in [Clients -> Clients \cup {Null}]
      /\ head \in [Procs -> Clients \cup {Null}]
  BY DEF IInv, TypeOK
<1> DEFINE S == Clients \cup {Null}
           Succ == [c \in S |-> IF c = Null THEN Null ELSE next[c]]
<1>2. Succ \in [S -> S] /\ head[q] \in S
  BY <1>1
<1>3. PICK t \in [Nat -> S] : t[0] = head[q] /\ \A n \in Nat : t[n + 1] = Succ[t[n]]
  <2>1. PICK h \in S, M \in [S -> S] : h = head[q] /\ M = Succ
    BY <1>2
  <2>2. \E t \in [Nat -> S] : t[0] = h /\ \A n \in Nat : t[n + 1] = M[t[n]]
    <3> HIDE DEF S, Succ
    <3> QED
      BY ONLY Iterate, h \in S, M \in [S -> S]
  <2> HIDE DEF S, Succ
  <2> QED
    BY <2>1, <2>2
<1>4. \A n \in Nat : t[n + 1] = IF t[n] = Null THEN Null ELSE next[t[n]]
  <2> SUFFICES ASSUME NEW n \in Nat PROVE t[n + 1] = IF t[n] = Null THEN Null ELSE next[t[n]]
    OBVIOUS
  <2>1. t[n] \in S /\ t[n + 1] = Succ[t[n]]
    BY <1>3
  <2> QED
    BY <2>1
<1>5. Owned(q) \subseteq Clients /\ Cardinality(Owned(q)) \in Nat
      /\ Cardinality(Clients) \in Nat /\ Cardinality(Owned(q)) <= Cardinality(Clients)
  <2>1. Owned(q) \in SUBSET Clients
    BY DEF Owned
  <2> QED
    BY <2>1, ClientsAssumption, FS_Subset, FS_CardinalityType
<1>6. head[q] \in Owned(q) \cup {Null}
  BY <1>1 DEF IInv, PointersStay, Owned
<1>7. \A c \in Owned(q) : next[c] # Null => next[c] \in Owned(q)
  BY <1>1 DEF IInv, PointersStay, Listed, Owned
<1>8. \A c \in Owned(q) : c = head[q] \/ \E d \in Owned(q) : next[d] = c
  BY DEF HasPredecessor, Listed, Owned
<1>9. PICK f \in [Clients -> Nat] : \A c \in Clients : Listed(c) /\ next[c] # Null => f[c] < f[next[c]]
  BY DEF IInv, NoCircle
<1>10. \A c \in Owned(q) : next[c] # Null => f[c] < f[next[c]]
  BY <1>9 DEF Owned, Listed
<1>11. /\ {t[n] : n \in 0 .. Cardinality(Owned(q)) - 1} = Owned(q)
       /\ t[Cardinality(Owned(q))] = Null
  <2>1. t \in [Nat -> Clients \cup {Null}] /\ t[0] = head[q] /\ Null \notin Clients
    BY <1>3
  <2>2. PICK O \in SUBSET Clients, nx \in [Clients -> Clients \cup {Null}], h \in Clients \cup {Null} :
           O = Owned(q) /\ nx = next /\ h = head[q]
    BY <1>1, <1>5
  <2>3. IsList(Clients, Null, O, h, nx, f)
    BY <1>6, <1>7, <1>8, <1>10, <2>2, ClientsAssumption DEF IsList
  <2>4. IsWalk(Clients, Null, h, nx, t)
    BY <1>4, <2>1, <2>2 DEF IsWalk
  <2>5. /\ {t[n] : n \in 0 .. Cardinality(O) - 1} = O /\ t[Cardinality(O)] = Null
    BY ONLY <2>3, <2>4, WalkVisitsAll
  <2> QED
    BY <2>2, <2>5
\* Nth(q) is that walk.
<1> DEFINE K == Cardinality(Clients)
           Def(g) == g = [n \in 0 .. K |-> IF n = 0 THEN head[q]
                                           ELSE IF g[n - 1] = Null THEN Null ELSE next[g[n - 1]]]
<1>12. Def([n \in 0 .. K |-> t[n]])
  <2> DEFINE g == [n \in 0 .. K |-> t[n]]
  <2> SUFFICES ASSUME NEW n \in 0 .. K
               PROVE  t[n] = IF n = 0 THEN head[q] ELSE IF g[n - 1] = Null THEN Null ELSE next[g[n - 1]]
    OBVIOUS
  <2>1. CASE n = 0
    BY <1>3, <2>1
  <2>2. CASE n # 0
    <3>1. n - 1 \in 0 .. K /\ n - 1 \in Nat /\ n - 1 + 1 = n
      BY <1>5, <2>2
    <3>2. g[n - 1] = t[n - 1]
      BY <3>1
    <3>3. t[n] = IF t[n - 1] = Null THEN Null ELSE next[t[n - 1]]
      BY <1>4, <3>1
    <3> QED
      BY <2>2, <3>2, <3>3
  <2> QED
    BY <2>1, <2>2
<1>13. Nth(q) = CHOOSE g : Def(g)
  BY DEF Nth
<1>14. Def(Nth(q))
  <2> HIDE DEF Def
  <2> QED
    BY <1>12, <1>13
<1>15. \A n \in 0 .. K : Nth(q)[n] = t[n]
  <2> DEFINE w == Nth(q)
             T == {n \in Nat : n <= K => w[n] = t[n]}
  <2>0. w = [n \in 0 .. K |-> IF n = 0 THEN head[q] ELSE IF w[n - 1] = Null THEN Null ELSE next[w[n - 1]]]
    BY <1>14
  <2> HIDE DEF w
  <2>1. 0 \in T
    BY <1>3, <1>5, <2>0
  <2>2. ASSUME NEW n \in Nat, n \in T, n + 1 <= K PROVE w[n + 1] = t[n + 1]
    <3>1. n + 1 \in 0 .. K /\ n + 1 # 0 /\ n + 1 - 1 = n /\ n <= K
      BY <1>5, <2>2
    <3>2. w[n + 1] = IF w[n] = Null THEN Null ELSE next[w[n]]
      BY <2>0, <3>1
    <3> QED
      BY <1>4, <2>2, <3>1, <3>2
  <2>3. Nat \subseteq T
    <3>1. \A n \in Nat : n \in T => n + 1 \in T
      BY <2>2
    <3> HIDE DEF T
    <3> QED
      BY <2>1, <3>1, NatsAll
  <2> QED
    BY <2>3, <1>5 DEF w
<1> HIDE DEF K
<1>16. K \in Nat /\ Cardinality(Owned(q)) \in 0 .. K /\ 0 .. Cardinality(Owned(q)) - 1 \subseteq 0 .. K
  BY <1>5 DEF K
<1> QED
  BY <1>11, <1>15, <1>16

-----------------------------------------------------------------------------
(* A new buffer behind a last one or at an empty head. *)
LEMMA LinkKeepsPredecessors ==
  ASSUME IInv, HasPredecessor, NEW k \in Procs, NEW x \in Clients, ~Listed(x),
         owner' = [owner EXCEPT ![x] = k],
         \/ /\ head[k] = Null
            /\ head' = [head EXCEPT ![k] = x]
            /\ next' = [next EXCEPT ![x] = Null]
         \/ \E last \in Owned(k) : /\ next[last] = Null /\ head' = head
                                   /\ next' = [next EXCEPT ![last] = x, ![x] = Null]
  PROVE  HasPredecessor'
<1> USE NullAssumption
<1>1. /\ owner \in [Clients -> Procs \cup {Null}] /\ next \in [Clients -> Clients \cup {Null}]
      /\ head \in [Procs -> Clients \cup {Null}] /\ owner[x] = Null /\ owner'[x] = k
  BY DEF IInv, TypeOK, Listed
<1>2. \A c \in Clients \ {x} : owner'[c] = owner[c] /\ c # Null
  BY <1>1
\* x has one: it is the head, or the last one is its predecessor.
<1>3. x = head'[k] \/ \E d \in Clients : owner'[d] = k /\ next'[d] = x
  BY <1>1 DEF Owned
<1>4. ASSUME NEW c \in Clients, c # x, owner[c] # Null
      PROVE  c = head'[owner[c]] \/ \E d \in Clients : owner'[d] = owner[c] /\ next'[d] = c
  <2>1. CASE c = head[owner[c]]
    BY <1>1, <1>4, <2>1
  <2>2. ASSUME NEW d \in Clients, owner[d] = owner[c], next[d] = c
        PROVE  owner'[d] = owner[c] /\ next'[d] = c
    <3>1. d # x /\ c # Null
      BY <1>1, <1>4, <2>2
    <3> QED
      BY <1>1, <1>2, <2>2, <3>1
  <2> QED
    BY <1>4, <2>1, <2>2 DEF HasPredecessor, Listed
<1> QED
  BY <1>1, <1>2, <1>3, <1>4 DEF HasPredecessor, Listed

(* A buffer leaves: what followed it gets its predecessor. *)
LEMMA CloseKeepsPredecessors ==
  ASSUME IInv, HasPredecessor, NEW q \in Procs, ServeClose(q)
  PROVE  HasPredecessor'
<1> DEFINE c == p[q]
<1> USE NullAssumption DEF ServeClose
<1>1. /\ c \in Clients /\ owner[c] = q /\ q # Null
      /\ owner \in [Clients -> Procs \cup {Null}] /\ next \in [Clients -> Clients \cup {Null}]
      /\ head \in [Procs -> Clients \cup {Null}] /\ owner' = [owner EXCEPT ![c] = Null]
  BY DEF IInv, TypeOK, WalkInStep, Release
<1>2. \A d, e \in Clients : owner[d] = owner[e] /\ owner[d] # Null /\ next[d] = next[e] /\ next[d] # Null => d = e
  BY DEF IInv, OnePredecessor, Listed
<1>3. next[c] # Null => next[c] # c
  BY <1>1 DEF IInv, NoCircle, Listed
<1>4. CASE c = head[q]
  <2>1. head' = [head EXCEPT ![q] = next[c]] /\ next' = next
    BY <1>4 DEF Unlink
  <2> SUFFICES ASSUME NEW e \in Clients, e # c, owner[e] # Null
               PROVE  e = head'[owner[e]] \/ \E d \in Clients : owner'[d] = owner[e] /\ next'[d] = e
    BY <1>1 DEF HasPredecessor, Listed
  <2>2. CASE e = head[owner[e]]
    BY <1>1, <1>4, <2>1, <2>2
  <2>3. ASSUME NEW d \in Clients, owner[d] = owner[e], next[d] = e
        PROVE  e = head'[owner[e]] \/ (owner'[d] = owner[e] /\ next'[d] = e)
    BY <1>1, <2>1, <2>3
  <2> QED
    BY <2>2, <2>3 DEF HasPredecessor, Listed
<1>5. CASE c # head[q]
  <2> DEFINE b == pp[q]
  <2>0. b \in Clients /\ owner[b] = q /\ next[b] = c /\ b # c
    BY <1>1, <1>3, <1>5 DEF IInv, TypeOK, WalkInStep
  <2>1. head' = head /\ next' = [next EXCEPT ![b] = next[c]]
    BY <1>5 DEF Unlink
  <2> SUFFICES ASSUME NEW e \in Clients, e # c, owner[e] # Null
               PROVE  e = head'[owner[e]] \/ \E d \in Clients : owner'[d] = owner[e] /\ next'[d] = e
    BY <1>1 DEF HasPredecessor, Listed
  <2>2. CASE e = head[owner[e]]
    BY <1>1, <2>1, <2>2
  <2>3. ASSUME NEW d \in Clients, owner[d] = owner[e], next[d] = e
        PROVE  \E a \in Clients : owner'[a] = owner[e] /\ next'[a] = e
    <3>1. CASE d = c
      BY <1>1, <2>0, <2>1, <2>3, <3>1
    <3>2. CASE d # c
      <4>1. d # b
        BY <2>0, <2>3
      <4> QED
        BY <1>1, <2>1, <2>3, <3>2, <4>1
    <3> QED
      BY <3>1, <3>2
  <2> QED
    BY <2>2, <2>3 DEF HasPredecessor, Listed
<1> QED
  BY <1>4, <1>5

LEMMA NextHasPredecessor == IInv /\ HasPredecessor /\ [Next]_vars => HasPredecessor'
<1> SUFFICES ASSUME IInv, HasPredecessor, [Next]_vars PROVE HasPredecessor'
  OBVIOUS
<1>1. ASSUME UNCHANGED list PROVE HasPredecessor'
  BY <1>1 DEF list, HasPredecessor, Listed
<1>2. ASSUME NEW q \in Procs, AcceptHere(q) PROVE HasPredecessor'
  <2>1. /\ Accepting(q) /\ owner' = [owner EXCEPT ![Head(backlog)] = q]
        /\ \/ /\ head[q] = Null
              /\ head' = [head EXCEPT ![q] = Head(backlog)]
              /\ next' = [next EXCEPT ![Head(backlog)] = Null]
           \/ \E last \in Owned(q) : /\ next[last] = Null /\ head' = head
                                     /\ next' = [next EXCEPT ![last] = Head(backlog), ![Head(backlog)] = Null]
    BY <1>2 DEF AcceptHere, AddClient, Accepting
  <2>2. Head(backlog) \in Clients /\ ~Listed(Head(backlog))
    BY <2>1, AcceptTakesNew
  <2> QED
    BY <2>1, <2>2, LinkKeepsPredecessors
<1>3. ASSUME NEW q \in Procs, AcceptForks(q) PROVE HasPredecessor'
  <2>1. PICK k \in Procs :
          /\ pc[k] = "unborn" /\ Accepting(q) /\ owner' = [owner EXCEPT ![Head(backlog)] = k]
          /\ head' = [head EXCEPT ![k] = Head(backlog)]
          /\ next' = [next EXCEPT ![Head(backlog)] = Null]
    BY <1>3 DEF AcceptForks, Accepting
  <2>2. Head(backlog) \in Clients /\ ~Listed(Head(backlog))
    BY <2>1, AcceptTakesNew
  <2>3. head[k] = Null
    BY <2>1 DEF IInv, Generations, Born
  <2> QED
    BY <2>1, <2>2, <2>3, LinkKeepsPredecessors
<1>4. ASSUME NEW q \in Procs, Turn(q) \/ NumberFreed(q) PROVE HasPredecessor'
  <2>0. CASE ForkFails(q)
    BY <1>1, <2>0 DEF ForkFails
  <2>1. CASE QuietStep(q)
    BY <1>1, <2>1 DEF QuietStep, Select, ServeIdle, ServeRequest, ServeEnd, NoAccept, NumberFreed, list
  <2> QED
    BY <1>2, <1>3, <1>4, <2>0, <2>1, CloseKeepsPredecessors DEF Turn, QuietStep
<1>5. ASSUME NEW c \in Clients, Connect(c) \/ Send(c) \/ Leave(c) PROVE HasPredecessor'
  BY <1>1, <1>5 DEF Connect, Send, Leave, list
<1> QED
  BY <1>1, <1>4, <1>5 DEF Next, vars, list

(* Whatever connects, closes or forks in whatever order, and wherever the walk
   of schedule_connections is, the list of each process runs through its own
   connections, once each, and ends: unlinking uses the right predecessor. *)
THEOREM ListCorrect == Spec => []ListHoldsOwned
<1>1. Init => HasPredecessor
  BY DEF Init, HasPredecessor, Listed
<1>2. IInv /\ HasPredecessor => ListHoldsOwned
  BY ListIsWalk
<1> QED
  BY IInvInvariant, NextHasPredecessor, <1>1, <1>2, PTL DEF Spec

-----------------------------------------------------------------------------
(* The pool of ports of a process. *)

\* Every cell that goes around, foreign ones included: not 0, and not so small that
\* its pair would be a negative port.
CellValues == {c \in Nat : c # 0 /\ 2 * c >= FirstPort}

(* The invariant of the two scans that holds with multicast streams as well:
   what each pc knows of the cell it stands on. *)
ScanInv ==
  /\ PoolTypeOK
  /\ \A i \in Index : port_pool[i] # 0 => port_pool[i] \in CellValues
  /\ get.pc \in {"take", "clear"} => get.i \in Index /\ port_pool[get.i] # 0
  /\ rel.pc = "fill" => rel.i \in Index /\ port_pool[rel.i] = 0
  /\ GetFailsOnlyWhenEmpty

\* The value RTP_release_port_pair writes is never 0, whatever port it is given.
LEMMA CellIsValue ==
  ASSUME NEW port \in Nat
  PROVE  CellOf(port) \in CellValues
<1>1. CASE port >= FirstPort
  BY <1>1, FirstPortAssumption DEF CellValues, CellOf, Half
<1>2. CASE port < FirstPort
  BY <1>2, FirstPortAssumption DEF CellValues, CellOf, Half
<1> QED
  BY <1>1, <1>2, FirstPortAssumption

\* A cell survives the conversion to a port pair and back.
LEMMA PairRoundTrip ==
  ASSUME NEW c \in Cells
  PROVE  CellOf(PairOf(c)) = c
BY FirstPortAssumption, NAssumption DEF Cells, PairOf, CellOf, Half

LEMMA PairOfValue ==
  ASSUME NEW c \in CellValues
  PROVE  PairOf(c) \in Nat
BY FirstPortAssumption DEF PairOf, CellValues

LEMMA ScanInit == PoolInit => ScanInv
<1> SUFFICES ASSUME PoolInit PROVE ScanInv
  OBVIOUS
<1>1. \A i \in Index : i + FirstPort \in CellValues
  BY NAssumption, FirstPortAssumption DEF Index, CellValues
<1>2. port_pool \in [Index -> Nat] /\ \A i \in Index : port_pool[i] \in CellValues
  BY <1>1 DEF PoolInit, CellValues
<1>3. get.pc = "idle" /\ rel.pc = "idle"
  BY DEF PoolInit, Idle
<1>4. PoolTypeOK
  <2>1. Idle \in PcRecord({"idle", "scan", "fill"})
    BY NAssumption DEF PcRecord, Idle
  <2>2. Idle \in PcRecord({"idle", "scan", "take", "clear", "setup"})
    BY NAssumption DEF PcRecord, Idle
  <2> QED
    BY <1>2, <2>1, <2>2 DEF PoolInit, PoolTypeOK
<1> QED
  BY <1>2, <1>3, <1>4 DEF PoolInit, ScanInv, GetFailsOnlyWhenEmpty

LEMMA ScanStep == ScanInv /\ [PoolNext]_pool_vars => ScanInv'
<1> SUFFICES ASSUME ScanInv, [PoolNext]_pool_vars PROVE ScanInv'
  OBVIOUS
<1> USE NAssumption, FirstPortAssumption
        DEF ScanInv, PoolTypeOK, PcRecord, Index, GetFailsOnlyWhenEmpty, Idle
<1>1. CASE GetCall
  BY <1>1 DEF GetCall
<1>2. CASE GetScan
  BY <1>2 DEF GetScan
<1>3. CASE GetTake
  BY <1>3, PairOfValue DEF GetTake
<1>4. CASE GetClear
  BY <1>4 DEF GetClear
<1>5. CASE GetFail
  BY <1>5 DEF GetFail
<1>6. CASE SetupCompletes
  <2>1. get.port \in Nat /\ get' = Idle /\ held' = held \cup {get.port}
    BY <1>6 DEF SetupCompletes
  <2>2. held' \subseteq Nat /\ shared' \subseteq held'
    BY <1>6, <2>1 DEF SetupCompletes
  <2>3. PoolTypeOK'
    BY <1>6, <2>1, <2>2 DEF SetupCompletes
  <2> QED
    BY <1>6, <2>1, <2>3 DEF SetupCompletes
<1>7. CASE SetupAbandons
  <2>1. get.port \in Nat /\ get' = Idle /\ lost' = lost \cup {get.port}
    BY <1>7 DEF SetupAbandons
  <2>2. lost' \subseteq Nat /\ shared' \subseteq held'
    BY <1>7, <2>1 DEF SetupAbandons
  <2>3. PoolTypeOK'
    BY <1>7, <2>1, <2>2 DEF SetupAbandons
  <2> QED
    BY <1>7, <2>1, <2>3 DEF SetupAbandons
<1>8. CASE CloseUnicast
  <2>1. PICK port \in held : rel' = [pc |-> "scan", i |-> 0, port |-> port]
    BY <1>8 DEF CloseUnicast
  <2>2. held' \subseteq Nat /\ shared' \subseteq held' /\ port \in Nat
    BY <1>8, <2>1 DEF CloseUnicast
  <2> QED
    BY <1>8, <2>1, <2>2 DEF CloseUnicast
<1>9. CASE CloseMulticast
  BY <1>9, MulticastAssumption DEF CloseMulticast
<1>10. CASE RelScan
  <2>0. /\ rel.pc = "scan" /\ rel.i \in 0 .. N - 1 /\ rel.port \in Nat
        /\ rel \in [pc : {"idle", "scan", "fill"}, i : 0 .. N, port : Nat]
    BY <1>10 DEF RelScan
  <2>1. /\ rel' \in PcRecord({"idle", "scan", "fill"})
        /\ rel'.pc = "fill" => rel'.i \in Index /\ port_pool[rel'.i] = 0
    <3>1. CASE port_pool[rel.i] = 0
      <4>1. rel' = [rel EXCEPT !.pc = "fill"]
        BY <1>10, <3>1 DEF RelScan
      <4> QED
        BY <2>0, <3>1, <4>1
    <3>2. CASE port_pool[rel.i] # 0
      <4>1. rel' = [rel EXCEPT !.i = @ + 1]
        BY <1>10, <3>2 DEF RelScan
      <4> QED
        BY <2>0, <4>1
    <3> QED
      BY <3>1, <3>2
  <2>2. UNCHANGED <<port_pool, get, held, shared, lost, multi, hadFree>>
    BY <1>10 DEF RelScan
  <2> QED
    BY <2>1, <2>2
<1>11. CASE RelFill
  <2>1. CellOf(rel.port) \in CellValues
    BY <1>11, CellIsValue DEF RelFill
  <2>2. CellOf(rel.port) # 0 /\ CellOf(rel.port) \in Nat
    BY <2>1 DEF CellValues
  <2> QED
    BY <1>11, <2>1, <2>2 DEF RelFill
<1>12. CASE RelFail
  BY <1>12 DEF RelFail
<1>13. CASE UNCHANGED pool_vars
  BY <1>13 DEF pool_vars
<1> QED
  BY <1>1, <1>2, <1>3, <1>4, <1>5, <1>6, <1>7, <1>8, <1>9, <1>10, <1>11, <1>12, <1>13
     DEF PoolNext, MainThread, Scheduler

(* The scans stay inside the array, whatever the other thread does. *)
THEOREM PoolTypeCorrect == PoolSpec => []PoolTypeOK
<1>1. ScanInv => PoolTypeOK
  BY DEF ScanInv
<1> QED
  BY <1>1, ScanInit, ScanStep, PTL DEF PoolSpec

(* SETUP is refused for want of a port only if the pool was empty when
   RTP_get_port_pair began, for every pool size, with multicast or without. *)
THEOREM RefusedOnlyWhenEmpty == PoolSpec => []GetFailsOnlyWhenEmpty
<1>1. ScanInv => GetFailsOnlyWhenEmpty
  BY DEF ScanInv
<1> QED
  BY <1>1, ScanInit, ScanStep, PTL DEF PoolSpec

-----------------------------------------------------------------------------
(* Until a multicast session is closed only pairs of the pool go around, and
   the N pairs are conserved. *)
Pairs == {PairOf(c) : c \in Cells}

PoolInv ==
  /\ ScanInv
  /\ \A i \in Index : port_pool[i] # 0 => port_pool[i] \in Cells
  /\ Out \subseteq Pairs
  /\ shared = {}
  /\ get.pc = "clear" => get.port = PairOf(port_pool[get.i])
  /\ UsedOnce
  /\ AllThere
  /\ CellAhead

LEMMA PairInjective ==
  ASSUME NEW c \in Nat, NEW d \in Nat, PairOf(c) = PairOf(d)
  PROVE  c = d
BY FirstPortAssumption DEF PairOf

(* N cells cannot hold N - 1 pairs without a hole: while a pair is out, some
   cell of the array is empty. *)
LEMMA EmptyCell ==
  ASSUME PoolInv, Out # {}
  PROVE  \E j \in Index : port_pool[j] = 0
<1> SUFFICES ASSUME \A j \in Index : port_pool[j] # 0 PROVE FALSE
  OBVIOUS
<1>1. PICK c \in Cells : PairOf(c) \in Out
  BY DEF PoolInv, Pairs
<1> DEFINE T == Cells \ {c}
<1>2. port_pool \in [Index -> T]
  <2>1. \A j \in Index : port_pool[j] \in Cells /\ port_pool[j] # c
    BY <1>1 DEF PoolInv, UsedOnce
  <2> QED
    BY <2>1 DEF PoolInv, ScanInv, PoolTypeOK
<1>3. IsFiniteSet(Cells) /\ Cardinality(Cells) = N
  BY FS_Interval, NAssumption, FirstPortAssumption DEF Cells
<1>4. IsFiniteSet(Index) /\ Cardinality(Index) = N
  BY FS_Interval, NAssumption DEF Index
<1>5. IsFiniteSet(T) /\ Cardinality(T) = N - 1
  BY <1>1, <1>3, FS_RemoveElement
<1>6. \E x, y \in Index : x # y /\ port_pool[x] = port_pool[y]
  <2>1. Cardinality(T) < Cardinality(Index)
    BY <1>4, <1>5, NAssumption
  <2> HIDE DEF T
  <2> QED
    BY <1>2, <1>4, <1>5, <2>1, FS_PigeonHole, Zenon
<1> QED
  BY <1>6 DEF PoolInv, UsedOnce

LEMMA PoolInvInit == PoolInit => PoolInv
<1> SUFFICES ASSUME PoolInit PROVE PoolInv
  OBVIOUS
<1>1. ScanInv
  BY ScanInit
<1>2. get.pc = "idle" /\ rel.pc = "idle" /\ Out = {}
  BY DEF PoolInit, Idle, Out, Setup, Releasing
<1>3. \A i \in Index : port_pool[i] = i + FirstPort /\ port_pool[i] \in Cells
  BY NAssumption, FirstPortAssumption DEF PoolInit, Index, Cells
<1>4. UsedOnce
  BY <1>2, <1>3, FirstPortAssumption DEF UsedOnce, PoolInit, Idle, Index, Releasing, Setup
<1>5. AllThere
  <2> SUFFICES ASSUME NEW c \in Cells PROVE \E i \in Index : port_pool[i] = c
    BY DEF AllThere
  <2>1. c - FirstPort \in Index /\ c - FirstPort + FirstPort = c
    BY NAssumption, FirstPortAssumption DEF Cells, Index
  <2> QED
    BY <1>3, <2>1
<1> QED
  BY <1>1, <1>2, <1>3, <1>4, <1>5 DEF PoolInv, CellAhead, PoolInit

(* The steps that neither touch the array nor move a pair. *)
LEMMA PoolKept ==
  ASSUME PoolInv, ScanInv', port_pool' = port_pool, Out' = Out,
         Releasing' = Releasing, Setup' = Setup, UNCHANGED <<held, shared, lost>>,
         get'.pc = "clear" => get'.port = PairOf(port_pool[get'.i]),
         CellAhead'
  PROVE  PoolInv'
BY DEF PoolInv, UsedOnce, AllThere, Index, Cells, PairOf, Pairs

LEMMA PoolStep ==
  ASSUME PoolInv, Unpolluted, [PoolNext]_pool_vars, ~CloseMulticast
  PROVE  PoolInv'
<1>0. ScanInv'
  BY ScanStep DEF PoolInv
<1> USE <1>0
<1>1. CASE GetCall
  BY <1>1, PoolKept DEF GetCall, Idle, Out, Setup, Releasing, PoolInv, CellAhead
<1>2. CASE GetScan
  BY <1>2, PoolKept DEF GetScan, Out, Setup, Releasing, PoolInv, CellAhead,
     ScanInv, PoolTypeOK, PcRecord
<1>3. CASE GetTake
  BY <1>3, PoolKept DEF GetTake, Out, Setup, Releasing, PoolInv, CellAhead,
     ScanInv, PoolTypeOK, PcRecord
<1>4. CASE GetClear
  <2> DEFINE i == get.i
             c == port_pool[i]
  <2>1. /\ i \in Index /\ c # 0 /\ c \in Cells /\ c \in Nat
        /\ get.port = PairOf(c) /\ PairOf(c) \notin Out /\ get.pc = "clear"
    BY <1>4 DEF GetClear, PoolInv, ScanInv, PoolTypeOK, UsedOnce
  <2>2. /\ port_pool' = [port_pool EXCEPT ![i] = 0]
        /\ held' = held /\ shared' = shared /\ lost' = lost /\ rel' = rel
        /\ Setup' = {PairOf(c)} /\ Setup = {} /\ Releasing' = Releasing
    BY <1>4, <2>1 DEF GetClear, Setup, Releasing, PoolInv, ScanInv, PoolTypeOK, PcRecord
  <2>3. /\ \A j \in Index : port_pool'[j] = IF j = i THEN 0 ELSE port_pool[j]
        /\ Out' = Out \cup {PairOf(c)}
    BY <2>2 DEF Out, PoolInv, ScanInv, PoolTypeOK
  <2>4. \A j \in Index : port_pool'[j] # 0 =>
          port_pool'[j] \in Cells /\ PairOf(port_pool'[j]) \notin Out'
    <3> SUFFICES ASSUME NEW j \in Index, port_pool'[j] # 0
                 PROVE  port_pool'[j] \in Cells /\ PairOf(port_pool'[j]) \notin Out'
      OBVIOUS
    <3>1. j # i /\ port_pool'[j] = port_pool[j] /\ port_pool[j] # c /\ port_pool[j] \in Nat
      BY <2>1, <2>3 DEF PoolInv, ScanInv, PoolTypeOK, UsedOnce
    <3>2. PairOf(port_pool[j]) # PairOf(c)
      BY <3>1, <2>1, PairInjective
    <3> QED
      BY <3>1, <3>2, <2>3 DEF PoolInv, UsedOnce
  <2>5. UsedOnce' /\ shared' = {}
    BY <2>1, <2>2, <2>3, <2>4 DEF PoolInv, UsedOnce, Out, Index
  <2>6. AllThere'
    BY <2>1, <2>3 DEF PoolInv, AllThere, Index, Cells, PairOf
  <2>7. CellAhead'
    BY <2>2, <2>3, <2>1 DEF PoolInv, CellAhead, ScanInv, PoolTypeOK, PcRecord, Index
  <2>8. Out' \subseteq Pairs' /\ get'.pc # "clear"
    BY <1>4, <2>1, <2>3 DEF PoolInv, Pairs, Cells, PairOf, GetClear, ScanInv, PoolTypeOK, PcRecord
  <2> QED
    BY <2>4, <2>5, <2>6, <2>7, <2>8 DEF PoolInv, Index, Cells
<1>5. CASE GetFail
  BY <1>5, PoolKept DEF GetFail, Idle, Out, Setup, Releasing, PoolInv, CellAhead
<1>6. CASE SetupCompletes
  <2>1. /\ Setup = {get.port} /\ Setup' = {} /\ Releasing' = Releasing /\ Out' = Out
        /\ port_pool' = port_pool /\ rel' = rel /\ get'.pc = "idle"
        /\ held' = held \cup Setup /\ lost' = lost /\ shared' = shared \cup (held \cap Setup)
    BY <1>6 DEF SetupCompletes, Setup, Releasing, Out, Idle
  <2> QED
    BY <2>1 DEF PoolInv, UsedOnce, AllThere, CellAhead, Index, Cells, PairOf, Pairs
<1>7. CASE SetupAbandons
  <2>1. /\ Setup = {get.port} /\ Setup' = {} /\ Releasing' = Releasing /\ Out' = Out
        /\ port_pool' = port_pool /\ rel' = rel /\ get'.pc = "idle"
        /\ lost' = lost \cup Setup /\ held' = held /\ shared' = shared
    BY <1>7 DEF SetupAbandons, Setup, Releasing, Out, Idle
  <2> QED
    BY <2>1 DEF PoolInv, UsedOnce, AllThere, CellAhead, Index, Cells, PairOf, Pairs
<1>8. CASE CloseUnicast
  <2>1. PICK port \in held : /\ held' = held \ {port} /\ shared' = {}
                             /\ rel' = [pc |-> "scan", i |-> 0, port |-> port]
    BY <1>8 DEF CloseUnicast, PoolInv
  <2>2. /\ Releasing = {} /\ Releasing' = {port} /\ Setup' = Setup /\ Out' = Out
        /\ port_pool' = port_pool /\ get' = get /\ lost' = lost
    BY <1>8, <2>1 DEF CloseUnicast, Setup, Releasing, Out
  <2>3. CellAhead'
    <3>1. \E j \in Index : port_pool[j] = 0
      BY <2>1, EmptyCell DEF Out
    <3> QED
      BY <3>1, <2>1, <2>2 DEF CellAhead, Index
  <2> QED
    BY <2>1, <2>2, <2>3 DEF PoolInv, UsedOnce, AllThere, Index, Cells, PairOf, Pairs
<1>9. CASE CloseMulticast
  BY <1>9
<1>10. CASE RelScan
  <2>1. CellAhead'
    BY <1>10 DEF RelScan, PoolInv, CellAhead, ScanInv, PoolTypeOK, PcRecord, Index
  <2> QED
    BY <1>10, <2>1, PoolKept DEF RelScan, Out, Setup, Releasing, PoolInv, ScanInv, PoolTypeOK, PcRecord
<1>11. CASE RelFill
  <2> DEFINE i == rel.i
             c == CellOf(rel.port)
  <2>1. /\ i \in Index /\ port_pool[i] = 0 /\ rel.pc = "fill" /\ Releasing = {rel.port}
        /\ rel.port \in Out
    BY <1>11 DEF RelFill, PoolInv, ScanInv, Releasing, Out
  <2>2. c \in Cells /\ c \in Nat /\ c # 0 /\ PairOf(c) = rel.port
    <3>1. PICK d \in Cells : rel.port = PairOf(d)
      BY <2>1 DEF PoolInv, Pairs
    <3>2. c = d
      BY <3>1, PairRoundTrip
    <3> QED
      BY <3>1, <3>2, FirstPortAssumption, NAssumption DEF Cells
  <2>3. /\ port_pool' = [port_pool EXCEPT ![i] = c]
        /\ held' = held /\ shared' = shared /\ lost' = lost /\ get' = get
        /\ Setup' = Setup /\ Releasing' = {} /\ rel'.pc = "idle"
    BY <1>11 DEF RelFill, Setup, Releasing, Idle
  <2>4. /\ \A j \in Index : port_pool'[j] = IF j = i THEN c ELSE port_pool[j]
        /\ Out' = Out \ {PairOf(c)}
    BY <2>1, <2>2, <2>3 DEF Out, PoolInv, ScanInv, PoolTypeOK, UsedOnce
  <2>5. \A j \in Index : port_pool[j] # 0 => port_pool[j] # c
    BY <2>1, <2>2 DEF PoolInv, UsedOnce
  <2>6. UsedOnce' /\ shared' = {}
    BY <2>1, <2>2, <2>3, <2>4, <2>5 DEF PoolInv, UsedOnce, Index, PairOf
  <2>7. AllThere'
    <3> SUFFICES ASSUME NEW d \in Cells
                 PROVE  (\E j \in Index : port_pool'[j] = d) \/ PairOf(d) \in Out'
      BY DEF AllThere, Cells, Index, PairOf
    <3>1. CASE d = c
      BY <3>1, <2>1, <2>4
    <3>2. CASE d # c
      <4>1. PairOf(d) # PairOf(c)
        BY <3>2, <2>2, PairInjective, FirstPortAssumption, NAssumption DEF Cells
      <4>2. d # 0
        BY FirstPortAssumption, NAssumption DEF Cells
      <4> QED
        BY <4>1, <4>2, <2>1, <2>4 DEF PoolInv, AllThere
    <3> QED
      BY <3>1, <3>2
  <2>8. get'.pc = "clear" => get'.port = PairOf(port_pool'[get'.i])
    BY <2>1, <2>3, <2>4 DEF PoolInv, ScanInv
  <2> QED
    BY <2>2, <2>3, <2>4, <2>6, <2>7, <2>8
       DEF PoolInv, CellAhead, Index, Cells, Pairs, PairOf
<1>12. CASE RelFail
  BY <1>12, NAssumption DEF RelFail, PoolInv, CellAhead
<1>13. CASE UNCHANGED pool_vars
  BY <1>13, PoolKept DEF pool_vars, Out, Setup, Releasing, PoolInv, CellAhead
<1> QED
  BY <1>1, <1>2, <1>3, <1>4, <1>5, <1>6, <1>7, <1>8, <1>9, <1>10, <1>11, <1>12, <1>13
     DEF PoolNext, MainThread, Scheduler

\* The inductive invariant: the pool is exact as long as it is unpolluted.
PollutionInv == ScanInv /\ (Unpolluted => PoolInv)

LEMMA PollutionStep == PollutionInv /\ [PoolNext]_pool_vars => PollutionInv'
<1> SUFFICES ASSUME PollutionInv, [PoolNext]_pool_vars PROVE PollutionInv'
  OBVIOUS
<1>1. ScanInv'
  BY ScanStep DEF PollutionInv
<1>2. CASE CloseMulticast
  <2>1. PICK session \in multi : multi' = multi \ {session}
    BY <1>2 DEF CloseMulticast
  <2>2. multi \subseteq Multicast /\ session \in Multicast
    BY <2>1 DEF PollutionInv, ScanInv, PoolTypeOK
  <2>3. ~Unpolluted'
    BY <2>1, <2>2 DEF Unpolluted
  <2> QED
    BY <1>1, <2>3 DEF PollutionInv
<1>3. CASE ~CloseMulticast
  <2>1. multi' = multi
    BY <1>3 DEF PoolNext, MainThread, Scheduler, GetCall, GetScan, GetTake, GetClear,
       GetFail, SetupCompletes, SetupAbandons, CloseUnicast, RelScan, RelFill,
       RelFail, pool_vars
  <2>2. Unpolluted' => Unpolluted
    BY <2>1 DEF Unpolluted
  <2>3. Unpolluted => PoolInv'
    BY <1>3, PoolStep DEF PollutionInv
  <2> QED
    BY <1>1, <2>2, <2>3 DEF PollutionInv
<1> QED
  BY <1>2, <1>3

(* What the inductive invariant says of the pool, for every pool size and every
   interleaving of the two threads. *)
LEMMA PoolConserved == PoolSpec => []PollutionInv
<1>1. PoolInit => PollutionInv
  BY PoolInvInit DEF PollutionInv, PoolInv
<1> QED
  BY <1>1, PollutionStep, PTL DEF PoolSpec

(* Until a multicast session is closed no port pair is ever in two places:
   RTP_get_port_pair gives each pair to one SETUP only, without a lock. *)
THEOREM PairsUsedOnce == PoolSpec => []NoDoubleUse
<1>1. PollutionInv => NoDoubleUse
  BY DEF PollutionInv, PoolInv, NoDoubleUse
<1> QED
  BY <1>1, PoolConserved, PTL

(* Until a multicast session is closed each of the N pairs is in a cell, in a
   session, in a failed SETUP or in the release under way. *)
THEOREM NoPairLost == PoolSpec => []NoPairVanishes
<1>1. PollutionInv => NoPairVanishes
  BY DEF PollutionInv, PoolInv, NoPairVanishes
<1> QED
  BY <1>1, PoolConserved, PTL

(* Until a multicast session is closed RTP_release_port_pair finds an empty cell
   ahead of its scan (a pigeonhole argument on cells and pairs). *)
THEOREM ReleaseSucceeds == PoolSpec => []ReleaseFindsCell
<1>1. PollutionInv => ReleaseFindsCell
  BY DEF PollutionInv, PoolInv, ReleaseFindsCell
<1> QED
  BY <1>1, PoolConserved, PTL

-----------------------------------------------------------------------------
(* A pair that is out of the pool of a process: neither of its ports is one *)
(* of another process.  N and Max are the same ONE_FORK_MAX_CONNECTION.     *)
PortsInRange ==
  Unpolluted => \A port \in Out : FirstPort <= port /\ port + 1 < FirstPort + 2 * N

OnlyItsOwn ==
  \A q, k \in Procs :
    q # k /\ pc[q] # "unborn" /\ pc[k] # "unborn" /\ FirstPort = start_port[q] /\ Unpolluted =>
      \A port \in Out : {port, port + 1} \cap (start_port[k] .. start_port[k] + 2 * Max - 1) = {}

(* RTP_get_port_pair gives out pairs between start_port and the start_port of
   the next pool. *)
THEOREM PoolStaysInRange == PoolSpec => []PortsInRange
<1>1. PollutionInv => PortsInRange
  <2> SUFFICES ASSUME PoolInv, NEW port \in Out
               PROVE  FirstPort <= port /\ port + 1 < FirstPort + 2 * N
    BY DEF PollutionInv, PortsInRange
  <2>1. PICK c \in Cells : port = PairOf(c)
    BY DEF PoolInv, Pairs
  <2> QED
    BY <2>1, NAssumption, FirstPortAssumption DEF Cells, PairOf
<1> QED
  BY <1>1, PoolConserved, PTL

(* As long as no multicast session was closed, the ports that a process hands
   out are in no other process's pool (RTP_port_pool_init and the start port that
   a child computes, eventloop.c). *)
THEOREM PortsOfOneProcess ==
  ASSUME N = Max
  PROVE  Spec /\ PoolSpec => []OnlyItsOwn
<1>1. PortsDisjoint /\ PortsInRange /\ PollutionInv /\ IInv => OnlyItsOwn
  <2> SUFFICES ASSUME PortsDisjoint, PortsInRange, PollutionInv, IInv, NEW q \in Procs, NEW k \in Procs, q # k,
                      Born(q), Born(k), FirstPort = start_port[q], Unpolluted, NEW port \in Out
               PROVE  {port, port + 1} \cap (start_port[k] .. start_port[k] + 2 * Max - 1) = {}
    BY DEF OnlyItsOwn, Born
  <2>1. FirstPort <= port /\ port + 1 < FirstPort + 2 * Max
    BY DEF PortsInRange
  <2>2. \/ FirstPort + 2 * Max <= start_port[k]
        \/ start_port[k] + 2 * Max <= FirstPort
    BY DEF PortsDisjoint, Born
  <2>3. start_port[k] \in Int /\ FirstPort \in Int /\ Max \in Int
    <3>1. start_port[k] = PoolStart(k) /\ k \in Int
      BY DEF IInv, Generations, Procs
    <3> QED
      BY <3>1, MaxAssumption, PortAssumption, FirstPortAssumption DEF PoolStart
  <2>4. port \in Int
    <3>1. PICK c \in Cells : port = PairOf(c)
      BY DEF PollutionInv, PoolInv, Pairs
    <3> QED
      BY <3>1, NAssumption, FirstPortAssumption DEF Cells, PairOf
  <2> QED
    BY <2>1, <2>2, <2>3, <2>4
<1> QED
  BY <1>1, PoolStaysInRange, PoolConserved, PoolsDisjoint, IInvInvariant, PTL
=============================================================================
