------------------------ MODULE Descriptions_proofs ------------------------
(***************************************************************************)
(* Proofs about Descriptions, for every set of files, sessions and file    *)
(* contents, any number of lookups, and files changed at any time.  First  *)
(* what each step does to the thread that takes it and to the cache, then  *)
(* the invariant, then that each step keeps it.                            *)
(***************************************************************************)
EXTENDS Descriptions, SequenceTheorems, WellFoundedInduction, TLAPS

-----------------------------------------------------------------------------
(* The type invariant, by what a step changes. *)

TypeCache ==
  /\ head \in 0 .. Len(nodes)
  /\ nodes \in Seq(Description) /\ lists \in Seq(Seq(Streams))
  /\ \A n \in NodeIds : nodes[n].next \in 0 .. Len(nodes) /\ nodes[n].list \in 0 .. Len(lists)
TypeThreads ==
  /\ th \in [Threads -> Thread]
  /\ \A t \in Threads : /\ {th[t].curr, th[t].last, th[t].match} \subseteq 0 .. Len(nodes)
                        /\ th[t].list \in 0 .. Len(lists)
TypeRest ==
  /\ file \in [Names -> [ctime : Nat, content : Contents \cup {Missing}]]
  /\ session \in [Sessions -> Names \cup {NoName}]
  /\ reply \in [streams : Seq(Streams), multicast : BOOLEAN]
  /\ lookups \in Nat /\ edits \in Nat
  /\ since \subseteq Contents \cup {Missing} /\ failed \subseteq Names \cup {NoName}
  /\ tangled \in BOOLEAN /\ mixed \in BOOLEAN
  /\ blurred \subseteq Names /\ doubt \in BOOLEAN

LEMMA TypeParts == TypeOK <=> TypeCache /\ TypeThreads /\ TypeRest
BY DEF TypeOK, TypeCache, TypeThreads, TypeRest

(* A step changes the record of one thread. *)
LEMMA ThreadStep ==
  ASSUME TypeOK, NEW t \in Threads, NEW l \in Thread, th' = [th EXCEPT ![t] = l],
         Len(nodes') \in Nat, Len(lists') \in Nat, Len(nodes) <= Len(nodes'), Len(lists) <= Len(lists'),
         l.curr \in 0 .. Len(nodes'), l.last \in 0 .. Len(nodes'), l.match \in 0 .. Len(nodes'),
         l.list \in 0 .. Len(lists')
  PROVE  TypeThreads' /\ th'[t] = l /\ \A u \in Threads : u # t => th'[u] = th[u]
<1>1. th \in [Threads -> Thread] /\ Len(nodes) \in Nat /\ Len(lists) \in Nat
  BY LenProperties DEF TypeOK
<1>2. th' \in [Threads -> Thread] /\ th'[t] = l /\ \A u \in Threads : u # t => th'[u] = th[u]
  BY <1>1
<1>3. \A u \in Threads : /\ {th[u].curr, th[u].last, th[u].match} \subseteq 0 .. Len(nodes')
                         /\ th[u].list \in 0 .. Len(lists')
  BY <1>1 DEF TypeOK
<1> QED
  BY <1>2, <1>3 DEF TypeThreads

(* What a thread is about to follow, by where it is. *)
LEMMA FollowedAt ==
  ASSUME NEW t \in Threads
  PROVE  /\ th[t].pc = "walk" => Followed(t) = {th[t].curr}
         /\ th[t].pc = "insert" /\ head # Null => Followed(t) = {th[t].last}
         /\ th[t].pc = "fail" => Followed(t) = {th[t].match, IF th[t].last = Null THEN head ELSE th[t].last}
         /\ th[t].pc \in {"compare", "open", "block", "validate"} => Followed(t) = {th[t].match}
         /\ th[t].pc = "answer" /\ (th[t].job = "adapt" \/ ~th[t].err) => Followed(t) = {th[t].match}
<1> DEFINE pc == th[t].pc
           adapted == th[t].job = "adapt" \/ ~th[t].err
<1>1. CASE pc = "walk"
  BY <1>1 DEF Followed
<1>2. CASE pc = "insert"
  BY <1>2 DEF Followed
<1>3. CASE pc = "fail"
  BY <1>3 DEF Followed
<1>4. CASE pc \in {"compare", "open", "block", "validate"}
  BY <1>4 DEF Followed
<1>5. CASE pc = "answer" /\ adapted
  BY <1>5 DEF Followed
<1> QED
  BY <1>1, <1>2, <1>3, <1>4, <1>5

(* Whatever the threads do, a thread knows the name it looks up, is at a    *)
(* description of that name, and at none outside of enum_media's calls.     *)
NamedAt(t) ==
  LET l == th[t]
  IN /\ l.pc # "idle" => l.name \in Names
     /\ l.match # Null => l.pc \in Inside \cup {"undefined"}
     /\ l.pc \in Inside => l.match # Null /\ nodes[l.match].name = l.name
     /\ l.pc \in {"walk", "insert", "stat", "compare", "open", "block", "validate"} => ~l.err
     /\ l.pc = "validate" => l.todo # << >>
Named == \A t \in Threads : NamedAt(t)

(* Descriptions that differ in their place in the list, or in being freed. *)
Like(d, e) ==
  d.name = e.name /\ d.last_change = e.last_change /\ d.list = e.list /\ d.multicast = e.multicast
Others(t) == \A u \in Threads : u # t => th'[u] = th[u]
SameName(t) == th'[t].name = th[t].name /\ th'[t].job = th[t].job

-----------------------------------------------------------------------------
(* The effect of each step. *)

LEMMA HistType ==
  ASSUME TypeOK, UNCHANGED <<file, session, reply, lookups, edits, since, blurred, doubt>>,
         failed' \subseteq Names \cup {NoName}, tangled' \in BOOLEAN, mixed' \in BOOLEAN
  PROVE  TypeRest'
BY DEF TypeOK, TypeRest

LEMMA WalkEffect ==
  ASSUME TypeOK, NEW t \in Threads, Walk(t)
  PROVE  /\ TypeOK' /\ Others(t) /\ SameName(t)
         /\ th'[t].err = th[t].err
         /\ th[t].pc = "walk" /\ th[t].curr \in NodeIds /\ ~nodes[th[t].curr].freed
         /\ \/ th'[t].pc = "stat" /\ th'[t].match = th[t].curr /\ nodes[th[t].curr].name = th[t].name
               /\ mixed' = (mixed \/ Meets(t, th[t].curr))
            \/ th'[t].pc \in {"walk", "insert"} /\ th'[t].match = th[t].match /\ mixed' = mixed
<1> DEFINE n == th[t].curr
           found == [th[t] EXCEPT !.match = n, !.pc = "stat"]
           on == [th[t] EXCEPT !.last = n, !.curr = nodes[n].next,
                               !.pc = IF nodes[n].next = Null THEN "insert" ELSE "walk"]
<1>1. /\ th \in [Threads -> Thread] /\ th[t] \in Thread /\ n \in NodeIds /\ nodes \in Seq(Description)
      /\ th[t].pc = "walk" /\ ~nodes[n].freed
  BY FollowedAt DEF TypeOK, Walk, At, Allocated, NodeIds, Null
<1>2. nodes[n] \in Description /\ nodes[n].next \in 0 .. Len(nodes)
  BY <1>1, ElementOfSeq DEF NodeIds, TypeOK
<1>3. \/ th' = [th EXCEPT ![t] = found] /\ nodes[n].name = th[t].name /\ mixed' = (mixed \/ Meets(t, n))
      \/ th' = [th EXCEPT ![t] = on] /\ mixed' = mixed
  BY <1>1 DEF Walk
<1>4. found \in Thread /\ on \in Thread
  BY <1>1, <1>2 DEF Thread, Pcs, Description
<1>5. UNCHANGED <<file, cache, session, reply, lookups, edits, since, failed, tangled, blurred, doubt>>
  BY DEF Walk
<1>6. Len(nodes) \in Nat /\ Len(lists) \in Nat
  BY LenProperties DEF TypeOK
<1>7. /\ found.curr \in 0 .. Len(nodes) /\ found.last \in 0 .. Len(nodes)
      /\ found.match \in 0 .. Len(nodes) /\ found.list \in 0 .. Len(lists)
      /\ on.curr \in 0 .. Len(nodes) /\ on.last \in 0 .. Len(nodes)
      /\ on.match \in 0 .. Len(nodes) /\ on.list \in 0 .. Len(lists)
  BY <1>1, <1>2 DEF TypeOK, NodeIds, Thread
<1> HIDE DEF found, on
<1>8. /\ TypeThreads' /\ Others(t)
      /\ \/ th'[t] = found /\ nodes[n].name = th[t].name /\ mixed' = (mixed \/ Meets(t, n))
         \/ th'[t] = on /\ mixed' = mixed
  <2>1. UNCHANGED <<nodes, lists>> /\ Len(nodes) <= Len(nodes') /\ Len(lists) <= Len(lists')
    BY <1>5, <1>6 DEF cache
  <2>2. CASE th' = [th EXCEPT ![t] = found] /\ nodes[n].name = th[t].name /\ mixed' = (mixed \/ Meets(t, n))
    BY <2>1, <2>2, <1>4, <1>6, <1>7, ThreadStep DEF Others
  <2>3. CASE th' = [th EXCEPT ![t] = on] /\ mixed' = mixed
    BY <2>1, <2>3, <1>4, <1>6, <1>7, ThreadStep DEF Others
  <2> QED
    BY <1>3, <2>2, <2>3
<1>9. TypeCache' /\ TypeRest'
  <2>1. mixed' \in BOOLEAN
    BY <1>3 DEF TypeOK
  <2> QED
    BY <1>5, <2>1, HistType DEF TypeOK, TypeCache, cache, NodeIds
<1>10. TypeOK'
  BY <1>8, <1>9 DEF TypeOK, TypeCache, TypeThreads, TypeRest
<1> QED
  BY <1>1, <1>8, <1>10 DEF SameName, Thread, found, on

(* Steps that leave a thread's pointers, the cache, or all but one description. *)
LEMMA SamePointers ==
  ASSUME TypeOK, NEW t \in Threads, NEW l \in Thread, th' = [th EXCEPT ![t] = l],
         Len(nodes') = Len(nodes), Len(lists') = Len(lists),
         l.curr = th[t].curr, l.last = th[t].last, l.match = th[t].match, l.list \in {Null, th[t].list}
  PROVE  TypeThreads' /\ th'[t] = l /\ Others(t)
<1>1. Len(nodes) \in Nat /\ Len(lists) \in Nat
  BY LenProperties DEF TypeOK
<1>2. /\ th[t].curr \in 0 .. Len(nodes) /\ th[t].last \in 0 .. Len(nodes)
      /\ th[t].match \in 0 .. Len(nodes) /\ th[t].list \in 0 .. Len(lists)
  BY DEF TypeOK
<1>3. /\ l.curr \in 0 .. Len(nodes') /\ l.last \in 0 .. Len(nodes') /\ l.match \in 0 .. Len(nodes')
      /\ l.list \in 0 .. Len(lists') /\ Len(nodes) <= Len(nodes') /\ Len(lists) <= Len(lists')
  BY <1>1, <1>2 DEF Null
<1> QED
  BY <1>1, <1>2, <1>3, ThreadStep DEF Others

LEMMA SameCache ==
  ASSUME TypeOK, UNCHANGED cache
  PROVE  TypeCache' /\ Len(nodes') = Len(nodes) /\ Len(lists') = Len(lists) /\ NodeIds' = NodeIds
BY DEF TypeOK, TypeCache, cache, NodeIds

LEMMA NodeStep ==
  ASSUME TypeOK, NEW n \in NodeIds, NEW d \in Description, nodes' = [nodes EXCEPT ![n] = d],
         lists' \in Seq(Seq(Streams)), Len(lists) <= Len(lists'),
         d.next \in 0 .. Len(nodes), d.list \in 0 .. Len(lists'), head' \in 0 .. Len(nodes)
  PROVE  /\ TypeCache' /\ Len(nodes') = Len(nodes) /\ NodeIds' = NodeIds
         /\ nodes'[n] = d /\ \A m \in NodeIds : m # n => nodes'[m] = nodes[m]
<1>1. nodes \in Seq(Description) /\ Len(lists) \in Nat /\ Len(lists') \in Nat
  BY LenProperties DEF TypeOK
<1>2. /\ nodes' \in Seq(Description) /\ Len(nodes') = Len(nodes)
      /\ \A m \in NodeIds : nodes'[m] = IF m = n THEN d ELSE nodes[m]
  BY <1>1, ExceptSeq DEF NodeIds
<1>3. \A m \in NodeIds : nodes'[m].next \in 0 .. Len(nodes) /\ nodes'[m].list \in 0 .. Len(lists')
  BY <1>1, <1>2 DEF TypeOK, NodeIds
<1> QED
  BY <1>1, <1>2, <1>3 DEF TypeCache, NodeIds

LEMMA ThreadOnly ==
  ASSUME TypeOK, NEW t \in Threads, NEW l \in Thread, th' = [th EXCEPT ![t] = l],
         UNCHANGED <<file, cache, session, reply, lookups, edits, hist>>,
         l.curr = th[t].curr, l.last = th[t].last, l.match = th[t].match, l.list = th[t].list
  PROVE  TypeOK' /\ th'[t] = l /\ Others(t)
<1>1. TypeCache' /\ TypeThreads' /\ th'[t] = l /\ Others(t)
  BY SameCache, SamePointers
<1>2. TypeRest'
  BY HistType DEF hist, TypeOK
<1> QED
  BY <1>1, <1>2 DEF TypeOK, TypeCache, TypeThreads, TypeRest

LEMMA StatEffect ==
  ASSUME TypeOK, Named, NEW t \in Threads, Stat(t)
  PROVE  /\ TypeOK' /\ Others(t) /\ SameName(t) /\ th[t].pc = "stat"
         /\ th'[t].err = th[t].err /\ th'[t].match = th[t].match
         /\ \/ th'[t].pc = "fail" /\ file[th[t].name].content = Missing
            \/ th'[t].pc = "compare" /\ th'[t].ctime = file[th[t].name].ctime
               /\ file[th[t].name].content # Missing
<1> DEFINE c == file[th[t].name].content
           l == IF c = Missing THEN [th[t] EXCEPT !.pc = "fail"]
                ELSE [th[t] EXCEPT !.ctime = file[th[t].name].ctime, !.pc = "compare"]
<1>1. th \in [Threads -> Thread] /\ th[t] \in Thread /\ th[t].pc = "stat" /\ th[t].name \in Names
  BY DEF TypeOK, Stat, At, Named, NamedAt
<1>2. th' = [th EXCEPT ![t] = l] /\ l \in Thread
  <2>1. CASE c = Missing
    BY <1>1, <2>1 DEF Stat, Thread, Pcs
  <2>2. CASE c # Missing
    BY <1>1, <2>2 DEF Stat, Thread, Pcs, TypeOK
  <2> QED
    BY <2>1, <2>2
<1>3. /\ l.curr = th[t].curr /\ l.last = th[t].last /\ l.match = th[t].match /\ l.list = th[t].list
      /\ l.name = th[t].name /\ l.job = th[t].job /\ l.err = th[t].err
      /\ \/ l.pc = "fail" /\ c = Missing
         \/ l.pc = "compare" /\ l.ctime = file[th[t].name].ctime /\ c # Missing
  BY <1>1 DEF Thread
<1> HIDE DEF l
<1>4. TypeOK' /\ th'[t] = l /\ Others(t)
  BY <1>2, <1>3, ThreadOnly DEF Stat
<1> QED
  BY <1>1, <1>3, <1>4 DEF SameName

LEMMA EndOfFileEffect ==
  ASSUME TypeOK, NEW t \in Threads, EndOfFile(t)
  PROVE  /\ TypeOK' /\ Others(t) /\ SameName(t) /\ th[t].pc = "block"
         /\ th'[t].err = th[t].err /\ th'[t].match = th[t].match
         /\ th'[t].pc = "answer" /\ th[t].todo = << >>
<1> DEFINE l == [th[t] EXCEPT !.pc = "answer"]
<1>1. th \in [Threads -> Thread] /\ th[t] \in Thread /\ th[t].pc = "block"
  BY DEF TypeOK, EndOfFile, At
<1>2. th' = [th EXCEPT ![t] = l] /\ l \in Thread
  BY <1>1 DEF EndOfFile, Goto, Thread, Pcs
<1>3. /\ l.curr = th[t].curr /\ l.last = th[t].last /\ l.match = th[t].match /\ l.list = th[t].list
      /\ l.name = th[t].name /\ l.job = th[t].job /\ l.err = th[t].err /\ l.pc = "answer"
  BY <1>1 DEF Thread
<1> HIDE DEF l
<1>4. TypeOK' /\ th'[t] = l /\ Others(t)
  BY <1>2, <1>3, ThreadOnly DEF EndOfFile
<1> QED
  BY <1>1, <1>3, <1>4 DEF SameName, EndOfFile

LEMMA FollowsFreedEffect ==
  ASSUME TypeOK, NEW t \in Threads, FollowsFreed(t)
  PROVE  /\ TypeOK' /\ Others(t) /\ SameName(t) /\ th[t].pc \notin {"idle", "undefined"}
         /\ th'[t].err = th[t].err /\ th'[t].match = th[t].match
         /\ th'[t].pc = "undefined"
<1> DEFINE l == [th[t] EXCEPT !.pc = "undefined"]
<1>1. th \in [Threads -> Thread] /\ th[t] \in Thread /\ th[t].pc # "undefined"
  BY DEF TypeOK, FollowsFreed, Undefined
<1>2. th[t].pc # "idle"
  BY DEF FollowsFreed, Followed
<1>3. th' = [th EXCEPT ![t] = l] /\ l \in Thread
  BY <1>1 DEF FollowsFreed, Goto, Thread, Pcs
<1>4. /\ l.curr = th[t].curr /\ l.last = th[t].last /\ l.match = th[t].match /\ l.list = th[t].list
      /\ l.name = th[t].name /\ l.job = th[t].job /\ l.err = th[t].err /\ l.pc = "undefined"
  BY <1>1 DEF Thread
<1> HIDE DEF l
<1>5. TypeOK' /\ th'[t] = l /\ Others(t)
  BY <1>3, <1>4, ThreadOnly DEF FollowsFreed
<1> QED
  BY <1>1, <1>2, <1>4, <1>5 DEF SameName

LEMMA ValidateEffect ==
  ASSUME TypeOK, Named, NEW t \in Threads, Validate(t)
  PROVE  /\ TypeOK' /\ Others(t) /\ SameName(t) /\ th[t].pc = "validate"
         /\ th'[t].err = th[t].err /\ th'[t].match = th[t].match /\ th'[t].list = th[t].list
         /\ \/ th'[t].pc = "block" /\ th'[t].todo = Tail(th[t].todo)
            \/ th'[t].pc \in {"fail", "undefined"}
<1> DEFINE kind == Head(th[t].todo).kind
           l == IF kind = "valid" THEN [th[t] EXCEPT !.todo = Tail(@), !.pc = "block"]
                ELSE IF kind = "invalid" THEN [th[t] EXCEPT !.pc = "fail"]
                ELSE [th[t] EXCEPT !.pc = "undefined"]
<1>1. th \in [Threads -> Thread] /\ th[t] \in Thread /\ th[t].pc = "validate" /\ th[t].todo # << >>
  BY DEF TypeOK, Validate, At, Named, NamedAt
<1>2. th[t].todo \in Seq(Streams) /\ Tail(th[t].todo) \in Seq(Streams)
  BY <1>1, HeadTailProperties DEF Thread
<1>3. th' = [th EXCEPT ![t] = l] /\ l \in Thread
  <2>1. CASE kind = "valid"
    BY <1>1, <1>2, <2>1 DEF Validate, Thread, Pcs
  <2>2. CASE kind = "invalid"
    BY <1>1, <2>2 DEF Validate, Thread, Pcs
  <2>3. CASE kind \notin {"valid", "invalid"}
    BY <1>1, <2>3 DEF Validate, Thread, Pcs
  <2> QED
    BY <2>1, <2>2, <2>3
<1>4. /\ l.curr = th[t].curr /\ l.last = th[t].last /\ l.match = th[t].match /\ l.list = th[t].list
      /\ l.name = th[t].name /\ l.job = th[t].job /\ l.err = th[t].err
      /\ \/ l.pc = "block" /\ l.todo = Tail(th[t].todo)
         \/ l.pc \in {"fail", "undefined"}
  BY <1>1 DEF Thread
<1> HIDE DEF l
<1>5. TypeOK' /\ th'[t] = l /\ Others(t)
  BY <1>3, <1>4, ThreadOnly DEF Validate
<1> QED
  BY <1>1, <1>4, <1>5 DEF SameName

(* The description at which a thread goes on is in memory. *)
LEMMA MatchOf ==
  ASSUME TypeOK, NEW t \in Threads, th[t].pc \in {"compare", "open", "block", "validate", "fail"},
         \A n \in Followed(t) : Allocated(n)
  PROVE  th[t].match \in NodeIds /\ ~nodes[th[t].match].freed /\ nodes[th[t].match] \in Description
<1>1. th[t].match \in NodeIds /\ ~nodes[th[t].match].freed
  <2>1. th[t].match \in Followed(t)
    BY FollowedAt
  <2>2. th[t].match \in 0 .. Len(nodes)
    BY DEF TypeOK
  <2> QED
    BY <2>1, <2>2 DEF Allocated, Null, NodeIds
<1> QED
  BY <1>1, ElementOfSeq DEF TypeOK, NodeIds

LEMMA CompareEffect ==
  ASSUME TypeOK, NEW t \in Threads, Compare(t)
  PROVE  LET n == th[t].match
         IN /\ TypeOK' /\ Others(t) /\ SameName(t) /\ th[t].pc = "compare"
            /\ th'[t].err = th[t].err /\ th'[t].match = n
            /\ n \in NodeIds /\ ~nodes[n].freed /\ NodeIds' = NodeIds
            /\ \/ th'[t].pc = "answer" /\ nodes[n].last_change = th[t].ctime /\ nodes' = nodes
               \/ th'[t].pc = "open" /\ nodes[n].last_change # th[t].ctime
                  /\ nodes'[n] = [nodes[n] EXCEPT !.last_change = th[t].ctime]
                  /\ \A m \in NodeIds : m # n => nodes'[m] = nodes[m]
<1> DEFINE n == th[t].match
           same == nodes[n].last_change = th[t].ctime
           l == [th[t] EXCEPT !.pc = IF same THEN "answer" ELSE "open"]
           d == [nodes[n] EXCEPT !.last_change = th[t].ctime]
<1>1. /\ th \in [Threads -> Thread] /\ th[t] \in Thread /\ th[t].pc = "compare"
      /\ n \in NodeIds /\ ~nodes[n].freed /\ nodes[n] \in Description
  BY MatchOf DEF TypeOK, Compare, At
<1>2. UNCHANGED <<file, head, lists, session, reply, lookups, edits, hist>>
  BY DEF Compare
<1>3. th' = [th EXCEPT ![t] = l] /\ l \in Thread
  BY <1>1 DEF Compare, Goto, Thread, Pcs
<1>4. /\ l.curr = th[t].curr /\ l.last = th[t].last /\ l.match = n /\ l.list = th[t].list
      /\ l.name = th[t].name /\ l.job = th[t].job /\ l.err = th[t].err
      /\ l.pc = IF same THEN "answer" ELSE "open"
  BY <1>1 DEF Thread
<1> HIDE DEF l
<1>5. CASE same
  <2>1. nodes' = nodes
    BY <1>5 DEF Compare
  <2>2. TypeOK' /\ th'[t] = l /\ Others(t)
    BY <1>2, <1>3, <1>4, <2>1, ThreadOnly DEF cache
  <2> QED
    BY <1>1, <1>4, <1>5, <2>1, <2>2 DEF SameName, NodeIds
<1>6. CASE ~same
  <2>1. nodes' = [nodes EXCEPT ![n] = d]
    BY <1>1, <1>6 DEF Compare, TypeOK
  <2>2. d \in Description /\ d.next = nodes[n].next /\ d.list = nodes[n].list
    BY <1>1 DEF Description, Thread
  <2> HIDE DEF d
  <2>3. /\ d.next \in 0 .. Len(nodes) /\ d.list \in 0 .. Len(lists') /\ head' \in 0 .. Len(nodes)
        /\ lists' \in Seq(Seq(Streams)) /\ Len(lists) <= Len(lists') /\ Len(lists') = Len(lists)
    BY <1>1, <1>2, <2>2, LenProperties DEF TypeOK
  <2>4. /\ TypeCache' /\ Len(nodes') = Len(nodes) /\ NodeIds' = NodeIds /\ nodes'[n] = d
        /\ \A m \in NodeIds : m # n => nodes'[m] = nodes[m]
    BY <1>1, <2>1, <2>2, <2>3, NodeStep
  <2>5. TypeThreads' /\ th'[t] = l /\ Others(t)
    BY <1>3, <1>4, <2>3, <2>4, SamePointers
  <2>6. TypeRest'
    BY <1>2, HistType DEF hist, TypeOK
  <2>7. TypeOK'
    BY <2>4, <2>5, <2>6 DEF TypeOK, TypeCache, TypeThreads, TypeRest
  <2> QED
    BY <1>1, <1>4, <1>6, <2>4, <2>5, <2>7 DEF SameName, d
<1> QED
  BY <1>5, <1>6

LEMMA OpenEffect ==
  ASSUME TypeOK, Named, NEW t \in Threads, Open(t)
  PROVE  LET n == th[t].match
             content == file[th[t].name].content
         IN /\ TypeOK' /\ Others(t) /\ SameName(t) /\ th[t].pc = "open"
            /\ th'[t].err = th[t].err /\ th'[t].match = n
            /\ n \in NodeIds /\ ~nodes[n].freed /\ NodeIds' = NodeIds
            /\ \/ th'[t].pc = "fail" /\ content = Missing /\ nodes' = nodes
               \/ th'[t].pc = "block" /\ content # Missing
                  /\ th'[t].list = Null /\ th'[t].todo = content.streams
                  /\ nodes'[n] = [nodes[n] EXCEPT !.multicast = @ \/ content.multicast]
                  /\ \A m \in NodeIds : m # n => nodes'[m] = nodes[m]
<1> DEFINE n == th[t].match
           content == file[th[t].name].content
           l == [th[t] EXCEPT !.list = Null, !.todo = content.streams, !.pc = "block"]
           gone == [th[t] EXCEPT !.pc = "fail"]
           d == [nodes[n] EXCEPT !.multicast = @ \/ content.multicast]
<1>1. /\ th \in [Threads -> Thread] /\ th[t] \in Thread /\ th[t].pc = "open"
      /\ n \in NodeIds /\ ~nodes[n].freed /\ nodes[n] \in Description /\ th[t].name \in Names
  BY MatchOf DEF TypeOK, Open, At, Named, NamedAt
<1>2. UNCHANGED <<file, head, lists, session, reply, lookups, edits, hist>>
  BY DEF Open
<1>3. content # Missing => content.streams \in Seq(Streams) /\ content.multicast \in BOOLEAN
  BY <1>1, ContentAssumption DEF TypeOK
<1>4. CASE content = Missing
  <2>1. nodes' = nodes /\ th' = [th EXCEPT ![t] = gone] /\ gone \in Thread
    BY <1>1, <1>4 DEF Open, Goto, Thread, Pcs
  <2>2. /\ gone.curr = th[t].curr /\ gone.last = th[t].last /\ gone.match = n /\ gone.list = th[t].list
        /\ gone.name = th[t].name /\ gone.job = th[t].job /\ gone.err = th[t].err /\ gone.pc = "fail"
    BY <1>1 DEF Thread
  <2> HIDE DEF gone
  <2>3. TypeOK' /\ th'[t] = gone /\ Others(t)
    BY <1>2, <2>1, <2>2, ThreadOnly DEF cache
  <2> QED
    BY <1>1, <1>4, <2>1, <2>2, <2>3 DEF SameName, NodeIds
<1>5. CASE content # Missing
  <2>1. nodes' = [nodes EXCEPT ![n] = d] /\ th' = [th EXCEPT ![t] = l]
    BY <1>1, <1>5 DEF Open, TypeOK
  <2>2. l \in Thread
    BY <1>1, <1>3, <1>5 DEF Thread, Pcs, Null
  <2>3. /\ l.curr = th[t].curr /\ l.last = th[t].last /\ l.match = n /\ l.list = Null
        /\ l.name = th[t].name /\ l.job = th[t].job /\ l.err = th[t].err /\ l.pc = "block"
        /\ l.todo = content.streams
    BY <1>1 DEF Thread
  <2>4. d \in Description /\ d.next = nodes[n].next /\ d.list = nodes[n].list
    BY <1>1, <1>3, <1>5 DEF Description
  <2> HIDE DEF d, l
  <2>5. /\ d.next \in 0 .. Len(nodes) /\ d.list \in 0 .. Len(lists') /\ head' \in 0 .. Len(nodes)
        /\ lists' \in Seq(Seq(Streams)) /\ Len(lists) <= Len(lists') /\ Len(lists') = Len(lists)
    BY <1>1, <1>2, <2>4, LenProperties DEF TypeOK
  <2>6. /\ TypeCache' /\ Len(nodes') = Len(nodes) /\ NodeIds' = NodeIds /\ nodes'[n] = d
        /\ \A m \in NodeIds : m # n => nodes'[m] = nodes[m]
    BY <1>1, <2>1, <2>4, <2>5, NodeStep
  <2>7. TypeThreads' /\ th'[t] = l /\ Others(t)
    BY <2>1, <2>2, <2>3, <2>5, <2>6, SamePointers
  <2>8. TypeRest'
    BY <1>2, HistType DEF hist, TypeOK
  <2>9. TypeOK'
    BY <2>6, <2>7, <2>8 DEF TypeOK, TypeCache, TypeThreads, TypeRest
  <2> QED
    BY <1>1, <1>5, <2>3, <2>6, <2>7, <2>9 DEF SameName, d
<1> QED
  BY <1>4, <1>5

(* A stream goes to the end of one list, which is new with the first stream. *)
LEMMA AppendSeq ==
  ASSUME NEW S, NEW s \in Seq(S), NEW x \in S
  PROVE  /\ Append(s, x) \in Seq(S) /\ Len(Append(s, x)) = Len(s) + 1
         /\ Append(s, x)[Len(s) + 1] = x
         /\ \A i \in 1 .. Len(s) : Append(s, x)[i] = s[i]
OBVIOUS

LEMMA ListsAppended ==
  ASSUME TypeOK, NEW list \in 0 .. Len(lists), NEW x \in Streams
  PROVE  LET new == Appended(lists, list, x)
             at == IF list = Null THEN Len(new) ELSE list
         IN /\ new \in Seq(Seq(Streams)) /\ Len(lists) <= Len(new)
            /\ at \in 1 .. Len(new) /\ (list = Null => at = Len(lists) + 1)
            /\ new[at] = Append(IF list = Null THEN << >> ELSE lists[list], x)
            /\ \A i \in 1 .. Len(lists) : i # at => new[i] = lists[i]
<1> DEFINE new == Appended(lists, list, x)
           at == IF list = Null THEN Len(new) ELSE list
<1>1. lists \in Seq(Seq(Streams)) /\ Len(lists) \in Nat
  BY LenProperties DEF TypeOK
<1>2. CASE list = Null
  <2>1. new = Append(lists, <<x>>) /\ <<x>> \in Seq(Streams) /\ <<x>> = Append(<< >>, x)
    BY <1>2 DEF Appended
  <2>2. /\ new \in Seq(Seq(Streams)) /\ Len(new) = Len(lists) + 1 /\ new[Len(lists) + 1] = <<x>>
        /\ \A i \in 1 .. Len(lists) : new[i] = lists[i]
    BY <1>1, <2>1, AppendSeq
  <2>3. at = Len(lists) + 1 /\ at \in 1 .. Len(new)
    BY <1>1, <1>2, <2>2
  <2>4. new[at] = Append(IF list = Null THEN << >> ELSE lists[list], x)
    BY <1>2, <2>1, <2>2, <2>3
  <2> QED
    BY <1>1, <2>2, <2>3, <2>4
<1>3. CASE list # Null
  <2>1. list \in 1 .. Len(lists) /\ lists[list] \in Seq(Streams) /\ Append(lists[list], x) \in Seq(Streams)
    BY <1>1, <1>3, ElementOfSeq, AppendSeq DEF Null
  <2>2. new = [lists EXCEPT ![list] = Append(lists[list], x)]
    BY <1>1, <1>3, <2>1 DEF Appended
  <2>3. /\ new \in Seq(Seq(Streams)) /\ Len(new) = Len(lists)
        /\ \A i \in 1 .. Len(lists) : new[i] = IF i = list THEN Append(lists[list], x) ELSE lists[i]
    BY <1>1, <2>1, <2>2, ExceptSeq
  <2>4. at = list /\ at \in 1 .. Len(new)
    BY <1>3, <2>1, <2>3
  <2>5. new[at] = Append(IF list = Null THEN << >> ELSE lists[list], x)
    BY <1>3, <2>1, <2>3, <2>4
  <2> QED
    BY <1>1, <1>3, <2>3, <2>4, <2>5
<1> QED
  BY <1>2, <1>3

LEMMA BlockEffect ==
  ASSUME TypeOK, NEW t \in Threads, Block(t)
  PROVE  LET n == th[t].match
             at == th'[t].list
         IN /\ TypeOK' /\ Others(t) /\ SameName(t) /\ th[t].pc = "block" /\ th'[t].pc = "validate"
            /\ th'[t].err = th[t].err /\ th'[t].match = n
            /\ n \in NodeIds /\ ~nodes[n].freed /\ NodeIds' = NodeIds
            /\ th[t].todo # << >> /\ th'[t].todo = th[t].todo
            /\ at # Null /\ at = (IF th[t].list = Null THEN Len(lists) + 1 ELSE th[t].list)
            /\ lists'[at] = Append(IF th[t].list = Null THEN << >> ELSE lists[th[t].list], Head(th[t].todo))
            /\ \A i \in 1 .. Len(lists) : i # at => lists'[i] = lists[i]
            /\ nodes'[n] = IF th[t].list = Null THEN [nodes[n] EXCEPT !.list = at] ELSE nodes[n]
            /\ \A m \in NodeIds : m # n => nodes'[m] = nodes[m]
<1> DEFINE n == th[t].match
           new == Appended(lists, th[t].list, Head(th[t].todo))
           at == IF th[t].list = Null THEN Len(new) ELSE th[t].list
           l == [th[t] EXCEPT !.list = at, !.pc = "validate"]
           d == IF th[t].list = Null THEN [nodes[n] EXCEPT !.list = at] ELSE nodes[n]
<1>1. /\ th \in [Threads -> Thread] /\ th[t] \in Thread /\ th[t].pc = "block"
      /\ n \in NodeIds /\ ~nodes[n].freed /\ nodes[n] \in Description /\ th[t].todo # << >>
  BY MatchOf DEF TypeOK, Block, At
<1>2. UNCHANGED <<file, head, session, reply, lookups, edits, hist>> /\ lists' = new
  BY DEF Block
<1>3. Head(th[t].todo) \in Streams
  BY <1>1, HeadTailProperties DEF Thread
<1>4. th[t].list \in 0 .. Len(lists) /\ nodes \in Seq(Description)
  BY DEF TypeOK
<1>5. /\ new \in Seq(Seq(Streams)) /\ Len(lists) <= Len(new)
      /\ at \in 1 .. Len(new) /\ (th[t].list = Null => at = Len(lists) + 1)
      /\ new[at] = Append(IF th[t].list = Null THEN << >> ELSE lists[th[t].list], Head(th[t].todo))
      /\ \A i \in 1 .. Len(lists) : i # at => new[i] = lists[i]
  BY <1>3, <1>4, ListsAppended
<1>6. th' = [th EXCEPT ![t] = l] /\ nodes' = [nodes EXCEPT ![n] = d]
  <2>1. th' = [th EXCEPT ![t] = l]
    BY <1>1 DEF Block
  <2>2. CASE th[t].list = Null
    BY <1>1, <1>4, <2>2 DEF Block
  <2>3. CASE th[t].list # Null
    <3>1. nodes' = nodes /\ d = nodes[n]
      BY <2>3 DEF Block
    <3>2. nodes = [nodes EXCEPT ![n] = nodes[n]]
      BY <1>4, LenProperties
    <3> QED
      BY <2>1, <3>1, <3>2
  <2> QED
    BY <2>1, <2>2, <2>3
<1>7. Len(lists) \in Nat /\ Len(new) \in Nat /\ Len(nodes) \in Nat
  BY <1>4, <1>5, LenProperties DEF TypeOK
<1> HIDE DEF new
<1>8. l \in Thread
  BY <1>1, <1>5, <1>7 DEF Thread, Pcs
<1>9. /\ l.curr = th[t].curr /\ l.last = th[t].last /\ l.match = n /\ l.list = at
      /\ l.name = th[t].name /\ l.job = th[t].job /\ l.err = th[t].err /\ l.pc = "validate"
      /\ l.todo = th[t].todo
  BY <1>1 DEF Thread
<1>10. /\ d \in Description /\ d.next = nodes[n].next /\ d.list \in {at, nodes[n].list}
  BY <1>1, <1>5, <1>7 DEF Description
<1> HIDE DEF d, l
<1>11. /\ th[t].curr \in 0 .. Len(nodes) /\ th[t].last \in 0 .. Len(nodes)
       /\ nodes[n].next \in 0 .. Len(nodes) /\ nodes[n].list \in 0 .. Len(lists)
  BY <1>1 DEF TypeOK
<1>12. /\ d.next \in 0 .. Len(nodes) /\ d.list \in 0 .. Len(lists') /\ head' \in 0 .. Len(nodes)
       /\ lists' \in Seq(Seq(Streams)) /\ Len(lists) <= Len(lists')
  <2> HIDE DEF at
  <2>3. 1 .. Len(new) \subseteq 0 .. Len(new) /\ 0 .. Len(lists) \subseteq 0 .. Len(new)
    BY <1>5, <1>7
  <2>1. at \in 0 .. Len(new) /\ nodes[n].list \in 0 .. Len(new)
    BY <1>5, <1>11, <2>3
  <2>2. head' \in 0 .. Len(nodes)
    BY <1>2 DEF TypeOK
  <2> QED
    BY <1>2, <1>5, <1>10, <1>11, <2>1, <2>2
<1>13. /\ TypeCache' /\ Len(nodes') = Len(nodes) /\ NodeIds' = NodeIds /\ nodes'[n] = d
       /\ \A m \in NodeIds : m # n => nodes'[m] = nodes[m]
  BY <1>1, <1>6, <1>10, <1>12, NodeStep
<1>14. /\ l.curr \in 0 .. Len(nodes') /\ l.last \in 0 .. Len(nodes') /\ l.match \in 0 .. Len(nodes')
       /\ l.list \in 0 .. Len(lists') /\ Len(nodes') \in Nat /\ Len(lists') \in Nat
       /\ Len(nodes) <= Len(nodes') /\ Len(lists) <= Len(lists')
  BY <1>1, <1>2, <1>5, <1>7, <1>9, <1>11, <1>13 DEF NodeIds
<1>15. TypeThreads' /\ th'[t] = l /\ Others(t)
  BY <1>6, <1>8, <1>14, ThreadStep DEF Others
<1>16. TypeRest'
  BY <1>2, HistType DEF hist, TypeOK
<1>17. TypeOK'
  BY <1>13, <1>15, <1>16 DEF TypeOK, TypeCache, TypeThreads, TypeRest
<1> HIDE DEF at
<1>18. at # Null /\ at = (IF th[t].list = Null THEN Len(lists) + 1 ELSE th[t].list)
  BY <1>5, <1>7 DEF at, Null
<1> QED
  BY <1>1, <1>2, <1>5, <1>9, <1>13, <1>15, <1>17, <1>18 DEF SameName, d

LEMMA InsertEffect ==
  ASSUME TypeOK, Named, NEW t \in Threads, Insert(t)
  PROVE  LET n == Len(nodes) + 1
         IN /\ TypeOK' /\ Others(t) /\ SameName(t) /\ th[t].pc = "insert" /\ th'[t].pc = "stat"
            /\ th'[t].err = th[t].err /\ th'[t].match = n
            /\ NodeIds' = NodeIds \cup {n} /\ n \notin NodeIds
            /\ nodes'[n] = New(th[t].name)
            /\ \A m \in NodeIds : Like(nodes'[m], nodes[m]) /\ nodes'[m].freed = nodes[m].freed
<1> DEFINE n == Len(nodes) + 1
           last == th[t].last
           linked == IF head = Null THEN nodes ELSE [nodes EXCEPT ![last].next = n]
           l == [th[t] EXCEPT !.match = n, !.pc = "stat"]
           made == New(th[t].name)
<1>1. /\ th \in [Threads -> Thread] /\ th[t] \in Thread /\ th[t].pc = "insert"
      /\ (head # Null => last \in NodeIds) /\ th[t].name \in Names
      /\ nodes \in Seq(Description) /\ lists \in Seq(Seq(Streams))
  BY FollowedAt DEF TypeOK, Insert, At, Allocated, Null, NodeIds, Named, NamedAt
<1>2. UNCHANGED <<file, lists, session, reply, lookups, edits, since, mixed, blurred, doubt>>
  BY DEF Insert
<1>3. Len(nodes) \in Nat /\ n \in Nat /\ Len(lists) \in Nat
  BY <1>1, LenProperties
<1>4. /\ linked \in Seq(Description) /\ Len(linked) = Len(nodes)
      /\ \A m \in NodeIds : linked[m] \in {nodes[m], [nodes[m] EXCEPT !.next = n]}
  <2>1. CASE head = Null
    BY <1>1, <2>1
  <2>2. CASE head # Null
    <3> DEFINE d == [nodes[last] EXCEPT !.next = n]
    <3>1. nodes[last] \in Description
      BY <1>1, <2>2, ElementOfSeq DEF NodeIds
    <3>2. d \in Description /\ linked = [nodes EXCEPT ![last] = d]
      BY <1>1, <1>3, <2>2, <3>1 DEF Description
    <3> HIDE DEF linked
    <3>3. /\ linked \in Seq(Description) /\ Len(linked) = Len(nodes)
          /\ \A m \in NodeIds : linked[m] = IF m = last THEN d ELSE nodes[m]
      BY <1>1, <2>2, <3>2, ExceptSeq DEF NodeIds
    <3> QED
      BY <3>3
  <2> QED
    BY <2>1, <2>2
<1>5. made \in Description /\ made.next = 0 /\ made.list = 0
  BY <1>1 DEF Description, New, Null
<1>6. nodes' = Append(linked, made) /\ head' = (IF head = Null THEN n ELSE head)
  BY DEF Insert
<1> HIDE DEF linked, made
<1>7. /\ nodes' \in Seq(Description) /\ Len(nodes') = n /\ nodes'[n] = made
      /\ \A m \in NodeIds : nodes'[m] = linked[m]
  BY <1>3, <1>4, <1>5, <1>6, AppendSeq DEF NodeIds
<1>8. NodeIds' = NodeIds \cup {n} /\ n \notin NodeIds
  BY <1>3, <1>7 DEF NodeIds
<1>9. \A m \in NodeIds : nodes[m] \in Description /\ nodes[m].next \in 0 .. Len(nodes) /\ nodes[m].list \in 0 .. Len(lists)
  BY <1>1, ElementOfSeq DEF TypeOK, NodeIds
<1>10. \A m \in NodeIds : /\ nodes'[m].next \in 0 .. n /\ nodes'[m].list \in 0 .. Len(lists)
                          /\ Like(nodes'[m], nodes[m]) /\ nodes'[m].freed = nodes[m].freed
  <2> TAKE m \in NodeIds
  <2>1. nodes'[m] = nodes[m] \/ nodes'[m] = [nodes[m] EXCEPT !.next = n]
    BY <1>4, <1>7
  <2> QED
    BY <1>3, <1>9, <2>1 DEF Description, Like
<1>11. TypeCache'
  <2>1. head' \in 0 .. n
    BY <1>3, <1>6 DEF TypeOK
  <2>2. \A m \in NodeIds' : nodes'[m].next \in 0 .. n /\ nodes'[m].list \in 0 .. Len(lists)
    BY <1>3, <1>5, <1>7, <1>8, <1>10
  <2> QED
    BY <1>1, <1>2, <1>7, <2>1, <2>2 DEF TypeCache
<1>12. th' = [th EXCEPT ![t] = l] /\ l \in Thread
  BY <1>1, <1>3 DEF Insert, Thread, Pcs
<1>13. /\ l.curr = th[t].curr /\ l.last = last /\ l.match = n /\ l.list = th[t].list
       /\ l.name = th[t].name /\ l.job = th[t].job /\ l.err = th[t].err /\ l.pc = "stat"
  BY <1>1 DEF Thread
<1> HIDE DEF l
<1>14. th[t].curr \in 0 .. Len(nodes) /\ last \in 0 .. Len(nodes) /\ th[t].list \in 0 .. Len(lists)
  BY DEF TypeOK
<1>15. /\ l.curr \in 0 .. Len(nodes') /\ l.last \in 0 .. Len(nodes') /\ l.match \in 0 .. Len(nodes')
       /\ l.list \in 0 .. Len(lists') /\ Len(nodes') \in Nat /\ Len(lists') \in Nat
       /\ Len(nodes) <= Len(nodes') /\ Len(lists) <= Len(lists')
  BY <1>2, <1>3, <1>7, <1>13, <1>14
<1>16. TypeThreads' /\ th'[t] = l /\ Others(t)
  BY <1>12, <1>15, ThreadStep DEF Others
<1>17. TypeRest'
  <2>1. failed' \subseteq Names \cup {NoName}
    BY DEF Insert, TypeOK
  <2>2. tangled' \in BOOLEAN /\ mixed' \in BOOLEAN
    BY DEF Insert, TypeOK
  <2> QED
    BY <1>2, <2>1, <2>2, HistType
<1>18. TypeOK'
  BY <1>11, <1>16, <1>17 DEF TypeOK, TypeCache, TypeThreads, TypeRest
<1> QED
  BY <1>1, <1>7, <1>8, <1>10, <1>13, <1>16, <1>18 DEF SameName, made

LEMMA FailEffect ==
  ASSUME TypeOK, Named, NEW t \in Threads, Fail(t)
  PROVE  LET n == th[t].match
         IN /\ TypeOK' /\ Others(t) /\ SameName(t) /\ th[t].pc = "fail" /\ th'[t].pc = "answer"
            /\ th'[t].err /\ th'[t].match = n /\ n \in NodeIds /\ NodeIds' = NodeIds
            /\ nodes'[n].freed
            /\ \A m \in NodeIds : /\ Like(nodes'[m], nodes[m])
                                  /\ m # n => nodes'[m].freed = nodes[m].freed
<1> DEFINE n == th[t].match
           last == th[t].last
           new == Unlinked(head, nodes, last, n)
           l == [th[t] EXCEPT !.err = TRUE, !.pc = "answer"]
<1>1. /\ th \in [Threads -> Thread] /\ th[t] \in Thread /\ th[t].pc = "fail" /\ n \in NodeIds
      /\ IF last = Null THEN head \in NodeIds ELSE last \in NodeIds
      /\ nodes \in Seq(Description) /\ lists \in Seq(Seq(Streams)) /\ th[t].name \in Names
  <2>1. th[t].pc = "fail" /\ \A m \in Followed(t) : Allocated(m)
    BY DEF Fail, At
  <2>2. Followed(t) = {n, IF last = Null THEN head ELSE last}
    BY <2>1, FollowedAt
  <2>3. n # Null /\ (IF last = Null THEN head ELSE last) # Null
    BY <2>1, <2>2 DEF Allocated
  <2> QED
    BY <2>1, <2>3 DEF TypeOK, NodeIds, Null, Named, NamedAt
<1>2. UNCHANGED <<file, lists, session, reply, lookups, edits, since, mixed, blurred, doubt>>
  BY DEF Fail
<1>3. Len(nodes) \in Nat /\ \A m \in NodeIds : nodes[m] \in Description /\ nodes[m].next \in 0 .. Len(nodes)
                                               /\ nodes[m].list \in 0 .. Len(lists)
  BY <1>1, ElementOfSeq, LenProperties DEF NodeIds, TypeOK
<1>4. /\ new.head \in 0 .. Len(nodes) /\ new.nodes \in Seq(Description) /\ Len(new.nodes) = Len(nodes)
      /\ \A m \in NodeIds : new.nodes[m] \in {nodes[m], [nodes[m] EXCEPT !.next = nodes[n].next]}
  <2>1. CASE last = Null
    BY <1>1, <1>3, <2>1 DEF Unlinked
  <2>2. CASE last # Null
    <3> DEFINE d == [nodes[last] EXCEPT !.next = nodes[n].next]
    <3>1. d \in Description /\ new.nodes = [nodes EXCEPT ![last] = d] /\ new.head = head
      BY <1>1, <1>3, <2>2 DEF Unlinked, Description
    <3>2. /\ new.nodes \in Seq(Description) /\ Len(new.nodes) = Len(nodes)
          /\ \A m \in NodeIds : new.nodes[m] = IF m = last THEN d ELSE nodes[m]
      BY <1>1, <2>2, <3>1, ExceptSeq DEF NodeIds
    <3> QED
      BY <3>1, <3>2 DEF TypeOK
  <2> QED
    BY <2>1, <2>2
<1> HIDE DEF new
<1>5. nodes' = [new.nodes EXCEPT ![n].freed = TRUE] /\ head' = new.head
  BY DEF Fail, new
<1>6. /\ nodes' \in Seq(Description) /\ Len(nodes') = Len(nodes)
      /\ \A m \in NodeIds : nodes'[m] = IF m = n THEN [new.nodes[n] EXCEPT !.freed = TRUE] ELSE new.nodes[m]
  <2> DEFINE d == [new.nodes[n] EXCEPT !.freed = TRUE]
  <2>1. new.nodes[n] \in Description
    BY <1>1, <1>4, ElementOfSeq DEF NodeIds
  <2>2. d \in Description /\ nodes' = [new.nodes EXCEPT ![n] = d]
    BY <1>1, <1>4, <1>5, <2>1 DEF Description, NodeIds
  <2> HIDE DEF d
  <2>3. /\ nodes' \in Seq(Description) /\ Len(nodes') = Len(nodes)
        /\ \A m \in NodeIds : nodes'[m] = IF m = n THEN d ELSE new.nodes[m]
    BY <1>1, <1>4, <2>2, ExceptSeq DEF NodeIds
  <2> QED
    BY <2>3 DEF d
<1>7. NodeIds' = NodeIds
  BY <1>6 DEF NodeIds
<1>8. \A m \in NodeIds : /\ nodes'[m].next \in 0 .. Len(nodes) /\ nodes'[m].list \in 0 .. Len(lists)
                         /\ Like(nodes'[m], nodes[m])
                         /\ nodes'[m].freed = IF m = n THEN TRUE ELSE nodes[m].freed
  <2> TAKE m \in NodeIds
  <2>1. new.nodes[m] = nodes[m] \/ new.nodes[m] = [nodes[m] EXCEPT !.next = nodes[n].next]
    BY <1>4
  <2>2. nodes[m] \in Description /\ nodes[n].next \in 0 .. Len(nodes) /\ nodes[m].next \in 0 .. Len(nodes)
        /\ nodes[m].list \in 0 .. Len(lists)
    BY <1>1, <1>3
  <2> DEFINE e == new.nodes[m]
  <2>3. /\ e \in Description /\ e.next \in 0 .. Len(nodes) /\ e.list \in 0 .. Len(lists)
        /\ Like(e, nodes[m]) /\ e.freed = nodes[m].freed
    BY <1>3, <2>1, <2>2 DEF Description, Like
  <2>4. nodes'[m] = IF m = n THEN [e EXCEPT !.freed = TRUE] ELSE e
    BY <1>6
  <2> HIDE DEF e
  <2>5. CASE m = n
    BY <2>3, <2>4, <2>5 DEF Description, Like
  <2>6. CASE m # n
    BY <2>3, <2>4, <2>6
  <2> QED
    BY <2>5, <2>6
<1>9. TypeCache'
  BY <1>1, <1>2, <1>4, <1>5, <1>6, <1>7, <1>8 DEF TypeCache
<1>10. th' = [th EXCEPT ![t] = l] /\ l \in Thread
  BY <1>1 DEF Fail, Thread, Pcs
<1>11. /\ l.curr = th[t].curr /\ l.last = last /\ l.match = n /\ l.list = th[t].list
       /\ l.name = th[t].name /\ l.job = th[t].job /\ l.err /\ l.pc = "answer"
  BY <1>1 DEF Thread
<1> HIDE DEF l
<1>12. TypeThreads' /\ th'[t] = l /\ Others(t)
  BY <1>2, <1>6, <1>10, <1>11, SamePointers
<1>13. TypeRest'
  <2>1. failed' \subseteq Names \cup {NoName}
    BY <1>1 DEF Fail, TypeOK
  <2>2. tangled' \in BOOLEAN /\ mixed' \in BOOLEAN
    BY DEF Fail, TypeOK
  <2> QED
    BY <1>2, <2>1, <2>2, HistType
<1>14. TypeOK'
  BY <1>9, <1>12, <1>13 DEF TypeOK, TypeCache, TypeThreads, TypeRest
<1> QED
  BY <1>1, <1>7, <1>8, <1>11, <1>12, <1>14 DEF SameName

(* A caller starts or ends. *)
LEMMA Restart ==
  ASSUME TypeOK, NEW t \in Threads, NEW l \in Thread, th' = [th EXCEPT ![t] = l], UNCHANGED cache,
         l.curr \in {Null, head}, l.last = Null, l.match = Null, l.list = Null
  PROVE  TypeCache' /\ TypeThreads' /\ th'[t] = l /\ Others(t)
<1>1. /\ Len(nodes) \in Nat /\ Len(lists) \in Nat /\ head \in 0 .. Len(nodes)
      /\ Len(nodes') = Len(nodes) /\ Len(lists') = Len(lists) /\ TypeCache'
  BY LenProperties, SameCache DEF TypeOK
<1>2. /\ l.curr \in 0 .. Len(nodes') /\ l.last \in 0 .. Len(nodes') /\ l.match \in 0 .. Len(nodes')
      /\ l.list \in 0 .. Len(lists') /\ Len(nodes) <= Len(nodes') /\ Len(lists) <= Len(lists')
      /\ Len(nodes') \in Nat /\ Len(lists') \in Nat
  BY <1>1 DEF Null
<1> QED
  BY <1>1, <1>2, ThreadStep DEF Others

LEMMA LookupThread ==
  ASSUME TypeOK, NEW job \in Jobs, NEW n \in Names, NEW s \in Sessions \cup {NoName},
         NEW f \in Files \cup {NoName}
  PROVE  LET l == Lookup(job, n, s, f)
         IN /\ l \in Thread /\ l.curr = head /\ l.last = Null /\ l.match = Null /\ l.list = Null
            /\ l.pc \in {"walk", "insert"} /\ l.name = n /\ ~l.err
<1>1. Len(nodes) \in Nat /\ head \in Nat /\ << >> \in Seq(Streams)
  BY LenProperties DEF TypeOK
<1> QED
  BY <1>1 DEF Lookup, Idle, Thread, Pcs, Null

LEMMA IdleThread ==
  /\ Idle \in Thread /\ Idle.curr = Null /\ Idle.last = Null /\ Idle.match = Null /\ Idle.list = Null
  /\ Idle.pc = "idle" /\ ~Idle.err
<1>1. << >> \in Seq(Streams)
  OBVIOUS
<1> QED
  BY <1>1 DEF Idle, Thread, Pcs, Jobs, Null

Starts(t) ==
  /\ TypeOK' /\ Others(t) /\ UNCHANGED <<file, cache, failed, tangled, mixed, blurred>>
  /\ th[t].pc = "idle" /\ th'[t].pc \in {"walk", "insert"} /\ th'[t].match = Null /\ ~th'[t].err
  /\ th'[t].name \in Names

LEMMA SetupEffect ==
  ASSUME TypeOK, NEW s \in Sessions, NEW n \in Names, NEW f \in Files, Setup(s, n, f)
  PROVE  /\ Starts("main") /\ reply' = NoReply /\ since' = {file[th'["main"].name].content}
         /\ doubt' <=> th'["main"].name \in blurred
<1> DEFINE l == Lookup("setup", n, s, f)
<1>1. /\ th["main"].pc = "idle" /\ th' = [th EXCEPT !["main"] = l] /\ lookups' = lookups + 1
      /\ since' = {file[n].content} /\ doubt' = (n \in blurred) /\ reply' = NoReply
      /\ UNCHANGED <<file, cache, session, edits, failed, tangled, mixed, blurred>>
  BY DEF Setup, Request, At, Start
<1>2. /\ l \in Thread /\ l.curr = head /\ l.last = Null /\ l.match = Null /\ l.list = Null
      /\ l.pc \in {"walk", "insert"} /\ l.name = n /\ ~l.err
  BY LookupThread DEF Jobs
<1> HIDE DEF l
<1>3. TypeCache' /\ TypeThreads' /\ th'["main"] = l /\ Others("main")
  BY <1>1, <1>2, Restart DEF Threads
<1>4. TypeRest'
  BY <1>1 DEF TypeRest, TypeOK, NoReply
<1> QED
  BY <1>1, <1>2, <1>3, <1>4 DEF Starts, TypeOK, TypeCache, TypeThreads, TypeRest

LEMMA DescribeEffect ==
  ASSUME TypeOK, NEW n \in Names, Describe(n)
  PROVE  /\ Starts("main") /\ reply' = NoReply /\ since' = {file[th'["main"].name].content}
         /\ doubt' <=> th'["main"].name \in blurred
<1> DEFINE l == Lookup("describe", n, NoName, NoName)
<1>1. /\ th["main"].pc = "idle" /\ th' = [th EXCEPT !["main"] = l] /\ lookups' = lookups + 1
      /\ since' = {file[n].content} /\ doubt' = (n \in blurred) /\ reply' = NoReply
      /\ UNCHANGED <<file, cache, session, edits, failed, tangled, mixed, blurred>>
  BY DEF Describe, Request, At, Start
<1>2. /\ l \in Thread /\ l.curr = head /\ l.last = Null /\ l.match = Null /\ l.list = Null
      /\ l.pc \in {"walk", "insert"} /\ l.name = n /\ ~l.err
  BY LookupThread DEF Jobs
<1> HIDE DEF l
<1>3. TypeCache' /\ TypeThreads' /\ th'["main"] = l /\ Others("main")
  BY <1>1, <1>2, Restart DEF Threads
<1>4. TypeRest'
  BY <1>1 DEF TypeRest, TypeOK, NoReply
<1> QED
  BY <1>1, <1>2, <1>3, <1>4 DEF Starts, TypeOK, TypeCache, TypeThreads, TypeRest

LEMMA AdaptEffect ==
  ASSUME TypeOK, NEW s \in Sessions, Adapt(s)
  PROVE  Starts("scheduler") /\ reply' = reply /\ since' = since /\ doubt' = doubt
<1> DEFINE l == Lookup("adapt", session[s], s, NoName)
<1>1. /\ th["scheduler"].pc = "idle" /\ th' = [th EXCEPT !["scheduler"] = l] /\ lookups' = lookups + 1
      /\ UNCHANGED <<file, cache, session, reply, edits, hist>> /\ session[s] \in Names
  BY DEF Adapt, At, Start, TypeOK
<1>2. /\ l \in Thread /\ l.curr = head /\ l.last = Null /\ l.match = Null /\ l.list = Null
      /\ l.pc \in {"walk", "insert"} /\ l.name \in Names /\ ~l.err
  BY <1>1, LookupThread DEF Jobs
<1> HIDE DEF l
<1>3. TypeCache' /\ TypeThreads' /\ th'["scheduler"] = l /\ Others("scheduler")
  BY <1>1, <1>2, Restart DEF Threads
<1>4. TypeRest'
  BY <1>1 DEF TypeRest, TypeOK, hist
<1> QED
  BY <1>1, <1>2, <1>3, <1>4 DEF Starts, TypeOK, TypeCache, TypeThreads, TypeRest, hist

Ends(t) ==
  /\ TypeOK' /\ Others(t) /\ UNCHANGED <<file, cache, hist>>
  /\ th[t].pc = "answer"
  /\ \/ th'[t] = Idle
     \/ th'[t].pc \in {"walk", "insert"} /\ th'[t].match = Null /\ ~th'[t].err
        /\ th'[t].name = th[t].name /\ reply' = reply

LEMMA SetupAnswerEffect ==
  ASSUME TypeOK, Named, SetupAnswer
  PROVE  Ends("main") /\ reply' = reply
<1>1. /\ th["main"].pc = "answer" /\ th' = [th EXCEPT !["main"] = Idle]
      /\ UNCHANGED <<file, cache, reply, lookups, edits, hist>>
  BY DEF SetupAnswer, Answered, At
<1>2. TypeCache' /\ TypeThreads' /\ th'["main"] = Idle /\ Others("main")
  BY <1>1, IdleThread, Restart DEF Threads
<1>3. session' \in [Sessions -> Names \cup {NoName}]
  <2>1. th["main"].name \in Names
    BY <1>1 DEF Named, NamedAt, Threads
  <2> QED
    BY <2>1 DEF SetupAnswer, TypeOK
<1>4. TypeRest'
  BY <1>1, <1>3 DEF TypeRest, TypeOK, hist
<1> QED
  BY <1>1, <1>2, <1>4 DEF Ends, TypeOK, TypeCache, TypeThreads, TypeRest

LEMMA AdaptAnswerEffect ==
  ASSUME TypeOK, AdaptAnswer
  PROVE  Ends("scheduler") /\ reply' = reply
<1>1. /\ th["scheduler"].pc = "answer" /\ th' = [th EXCEPT !["scheduler"] = Idle]
      /\ UNCHANGED <<file, cache, session, reply, lookups, edits, hist>>
  BY DEF AdaptAnswer, At
<1>2. TypeCache' /\ TypeThreads' /\ th'["scheduler"] = Idle /\ Others("scheduler")
  BY <1>1, IdleThread, Restart DEF Threads
<1>3. TypeRest'
  BY <1>1 DEF TypeRest, TypeOK, hist
<1> QED
  BY <1>1, <1>2, <1>3 DEF Ends, TypeOK, TypeCache, TypeThreads, TypeRest

LEMMA DescribeAgainEffect ==
  ASSUME TypeOK, Named, DescribeAgain
  PROVE  Ends("main") /\ reply' = reply
<1> DEFINE l == Lookup("sdp", th["main"].name, NoName, NoName)
<1>1. /\ th["main"].pc = "answer" /\ th["main"].name \in Names
      /\ th' = [th EXCEPT !["main"] = Idle] \/ th' = [th EXCEPT !["main"] = l]
      /\ UNCHANGED <<file, cache, session, reply, lookups, edits, hist>>
  BY DEF DescribeAgain, Answered, At, Named, NamedAt, Threads
<1>2. /\ l \in Thread /\ l.curr = head /\ l.last = Null /\ l.match = Null /\ l.list = Null
      /\ l.pc \in {"walk", "insert"} /\ l.name = th["main"].name /\ ~l.err
  BY <1>1, LookupThread DEF Jobs
<1> HIDE DEF l
<1>3. TypeCache' /\ TypeThreads' /\ (th'["main"] = Idle \/ th'["main"] = l) /\ Others("main")
  <2>1. CASE th' = [th EXCEPT !["main"] = Idle]
    BY <1>1, <2>1, IdleThread, Restart DEF Threads
  <2>2. CASE th' = [th EXCEPT !["main"] = l]
    BY <1>1, <1>2, <2>2, Restart DEF Threads
  <2> QED
    BY <1>1, <2>1, <2>2
<1>4. TypeRest'
  BY <1>1 DEF TypeRest, TypeOK, hist
<1> QED
  BY <1>1, <1>2, <1>3, <1>4 DEF Ends, TypeOK, TypeCache, TypeThreads, TypeRest

LEMMA DescribedType ==
  ASSUME TypeOK, NEW n \in NodeIds
  PROVE  ListOf(n) \in Seq(Streams) /\ Described(n) \in [streams : Seq(Streams), multicast : BOOLEAN]
<1>1. /\ nodes[n] \in Description /\ nodes[n].list \in 0 .. Len(lists)
      /\ lists \in Seq(Seq(Streams)) /\ Len(lists) \in Nat
  BY ElementOfSeq, LenProperties DEF TypeOK, NodeIds
<1>2. ListOf(n) \in Seq(Streams)
  <2>1. CASE nodes[n].list = Null
    BY <2>1 DEF ListOf
  <2>2. CASE nodes[n].list # Null
    <3>1. nodes[n].list \in 1 .. Len(lists)
      BY <1>1, <2>2 DEF Null
    <3> QED
      BY <1>1, <2>2, <3>1, ElementOfSeq DEF ListOf
  <2> QED
    BY <2>1, <2>2
<1> QED
  BY <1>1, <1>2 DEF Described, Description

LEMMA DescribeAnswerEffect ==
  ASSUME TypeOK, DescribeAnswer
  PROVE  LET n == th["main"].match
         IN /\ Ends("main") /\ th'["main"] = Idle
            /\ \/ reply' = NoReply
               \/ /\ ~th["main"].err /\ n \in NodeIds /\ ~nodes[n].freed
                  /\ reply' = Described(n)
<1> DEFINE n == th["main"].match
<1>1. /\ th["main"].pc = "answer" /\ th' = [th EXCEPT !["main"] = Idle]
      /\ \A m \in Followed("main") : Allocated(m)
      /\ UNCHANGED <<file, cache, session, lookups, edits, hist>>
  BY DEF DescribeAnswer, Answered, At
<1>2. TypeCache' /\ TypeThreads' /\ th'["main"] = Idle /\ Others("main")
  BY <1>1, IdleThread, Restart DEF Threads
<1>3. ~th["main"].err => n \in NodeIds /\ ~nodes[n].freed
  <2>1. "main" \in Threads
    BY DEF Threads
  <2>2. ~th["main"].err => n \in Followed("main")
    BY <1>1, <2>1, FollowedAt
  <2>3. n \in 0 .. Len(nodes)
    BY <2>1 DEF TypeOK
  <2> QED
    BY <1>1, <2>2, <2>3 DEF Allocated, NodeIds, Null
<1>4. reply' = NoReply \/ (~th["main"].err /\ reply' = Described(n))
  BY DEF DescribeAnswer
<1>5. reply' \in [streams : Seq(Streams), multicast : BOOLEAN]
  <2>1. CASE reply' = NoReply
    BY <2>1 DEF NoReply
  <2>2. CASE ~th["main"].err /\ reply' = Described(n)
    BY <1>3, <2>2, DescribedType
  <2> QED
    BY <1>4, <2>1, <2>2
<1>6. TypeRest'
  BY <1>1, <1>5 DEF TypeRest, TypeOK, hist
<1> QED
  BY <1>1, <1>2, <1>3, <1>4, <1>6 DEF Ends, TypeOK, TypeCache, TypeThreads, TypeRest

LEMMA TeardownEffect ==
  ASSUME TypeOK, NEW s \in Sessions, Teardown(s)
  PROVE  TypeOK' /\ UNCHANGED <<file, cache, th, reply, hist>>
<1>1. UNCHANGED <<file, cache, th, reply, lookups, edits, hist>>
  BY DEF Teardown
<1>2. session' \in [Sessions -> Names \cup {NoName}]
  BY DEF Teardown, TypeOK
<1> QED
  BY <1>1, <1>2 DEF TypeOK, cache, hist, NodeIds

(* What a change of a file leaves as it is, and what it tells the histories. *)
FileChanges(n) ==
  /\ \A m \in Names \ {n} : file'[m] = file[m] /\ (m \in blurred' <=> m \in blurred)
  /\ \/ file'[n].ctime = file[n].ctime /\ (Told(n) => n \in blurred')
     \/ file'[n].ctime = file[n].ctime + 1
  /\ since \subseteq since'
  /\ n = th["main"].name => file'[n].content \in since'
  /\ UNCHANGED <<cache, session, reply, failed, tangled, mixed>>

(* A thread that reads the file may go on with other streams. *)
Rereads(n, t) ==
  \E todo \in Seq(Streams) :
    /\ th'[t] = [th[t] EXCEPT !.todo = todo]
    /\ th[t].name = n /\ th[t].pc \in {"block", "validate"}
    /\ th[t].pc = "validate" => todo # << >>
Rewrites(n) ==
  /\ \A t \in Threads : th'[t] = th[t] \/ Rereads(n, t)
  /\ doubt => doubt'
  /\ n = th["main"].name /\ n \in blurred' => doubt'
  /\ th'["main"] # th["main"] => doubt'

LEMMA ChangeEffect ==
  ASSUME TypeOK, NEW n \in Names, NEW c \in Contents \cup {Missing}, Change(n, c), doubt' \in BOOLEAN
  PROVE  FileChanges(n) /\ TypeCache' /\ TypeRest'
<1>1. /\ UNCHANGED <<cache, session, reply, lookups, failed, tangled, mixed>> /\ edits' = edits + 1
      /\ since' = IF n = th["main"].name THEN since \cup {c} ELSE since
      /\ \/ /\ file' = [file EXCEPT ![n].content = c]
            /\ blurred' = IF Told(n) THEN blurred \cup {n} ELSE blurred
         \/ /\ file' = [file EXCEPT ![n] = [ctime |-> file[n].ctime + 1, content |-> c]]
            /\ blurred' = blurred \ {n}
  BY DEF Change, TypeOK
<1>2. /\ file' \in [Names -> [ctime : Nat, content : Contents \cup {Missing}]]
      /\ \A m \in Names \ {n} : file'[m] = file[m]
      /\ file'[n].content = c
      /\ \/ file'[n].ctime = file[n].ctime /\ (Told(n) => n \in blurred')
         \/ file'[n].ctime = file[n].ctime + 1
  <2>1. file \in [Names -> [ctime : Nat, content : Contents \cup {Missing}]]
    BY DEF TypeOK
  <2>2. CASE file' = [file EXCEPT ![n].content = c] /\ blurred' = IF Told(n) THEN blurred \cup {n} ELSE blurred
    BY <2>1, <2>2
  <2>3. CASE file' = [file EXCEPT ![n] = [ctime |-> file[n].ctime + 1, content |-> c]]
    BY <2>1, <2>3
  <2> QED
    BY <1>1, <2>2, <2>3
<1>3. blurred' \subseteq Names /\ \A m \in Names \ {n} : m \in blurred' <=> m \in blurred
  BY <1>1 DEF TypeOK
<1>4. TypeRest'
  BY <1>1, <1>2, <1>3 DEF TypeOK, TypeRest
<1>5. TypeCache'
  BY <1>1, SameCache DEF TypeCache
<1> QED
  BY <1>1, <1>2, <1>3, <1>4, <1>5 DEF FileChanges

LEMMA ReplaceEffect ==
  ASSUME TypeOK, NEW n \in Names, Replace(n)
  PROVE  TypeOK' /\ FileChanges(n) /\ Rewrites(n) /\ UNCHANGED th
<1>1. PICK c \in Contents \cup {Missing} : Change(n, c)
  BY DEF Replace
<1>2. UNCHANGED th /\ (doubt' <=> doubt \/ (n = th["main"].name /\ n \in blurred')) /\ doubt' \in BOOLEAN
  BY DEF Replace, TypeOK
<1>3. FileChanges(n) /\ TypeCache' /\ TypeRest'
  BY <1>1, <1>2, ChangeEffect
<1>4. TypeThreads'
  BY <1>2, <1>3, SameCache DEF FileChanges, TypeThreads, TypeOK
<1> QED
  BY <1>2, <1>3, <1>4, TypeParts DEF Rewrites, TypeOK, TypeCache, TypeThreads, TypeRest

LEMMA SpliceType ==
  ASSUME NEW l \in Thread, NEW c \in Contents, NEW todo \in Splices(l, c)
  PROVE  todo \in Seq(Streams) /\ (l.pc = "validate" => todo # << >>)
<1>1. l.todo \in Seq(Streams) /\ c.streams \in Seq(Streams)
  BY ContentAssumption DEF Thread
<1>2. Len(l.todo) \in Nat /\ Len(c.streams) \in Nat
  BY <1>1, LenProperties
<1>3. PICK i \in (IF l.pc = "validate" THEN 1 ELSE 0) .. Len(l.todo), k \in 1 .. Len(c.streams) + 1 :
        todo = Spliced(l, c, i, k)
  BY DEF Splices
<1> DEFINE old == SubSeq(l.todo, 1, i)
           new == SubSeq(c.streams, k, Len(c.streams))
<1>4. i \in Nat /\ i <= Len(l.todo) /\ (l.pc = "validate" => i >= 1) /\ k \in Nat /\ k >= 1
  BY <1>2, <1>3
<1>5. old \in Seq(Streams) /\ Len(old) = IF 1 <= i THEN i ELSE 0
  <2>1. \A j \in 1 .. i : l.todo[j] \in Streams
    BY <1>1, <1>2, <1>4, ElementOfSeq
  <2> QED
    BY <1>4, <2>1, SubSeqProperties
<1>6. new \in Seq(Streams)
  <2>1. \A j \in k .. Len(c.streams) : c.streams[j] \in Streams
    BY <1>1, <1>2, <1>4, ElementOfSeq
  <2> QED
    BY <1>2, <1>4, <2>1, SubSeqProperties
<1> HIDE DEF old, new
<1>7. old \o new \in Seq(Streams) /\ Len(old \o new) = Len(old) + Len(new) /\ Len(new) \in Nat
  BY <1>5, <1>6, ConcatProperties, LenProperties
<1>8. l.pc = "validate" => Len(old \o new) # 0
  BY <1>4, <1>5, <1>7
<1>9. todo = old \o new
  BY <1>3 DEF Spliced, old, new
<1> QED
  BY <1>7, <1>8, <1>9, EmptySeq

LEMMA OverwriteEffect ==
  ASSUME TypeOK, NEW n \in Names, Overwrite(n)
  PROVE  TypeOK' /\ FileChanges(n) /\ Rewrites(n)
<1>a. PICK c \in Contents :
        /\ Change(n, c)
        /\ \E todo \in [Threads -> UNION {Splices(th[t], c) : t \in Threads}] :
             /\ \A t \in Threads : todo[t] \in Splices(th[t], c)
             /\ th' = [t \in Threads |-> IF Reads(t, n) THEN [th[t] EXCEPT !.todo = todo[t]] ELSE th[t]]
  BY DEF Overwrite
<1>b. PICK new \in [Threads -> UNION {Splices(th[t], c) : t \in Threads}] :
        /\ \A t \in Threads : new[t] \in Splices(th[t], c)
        /\ th' = [t \in Threads |-> IF Reads(t, n) THEN [th[t] EXCEPT !.todo = new[t]] ELSE th[t]]
  BY <1>a
<1>1. /\ Change(n, c)
      /\ \A t \in Threads : new[t] \in Splices(th[t], c)
      /\ th' = [t \in Threads |-> IF Reads(t, n) THEN [th[t] EXCEPT !.todo = new[t]] ELSE th[t]]
  BY <1>a, <1>b
<1>2. /\ doubt' <=> doubt \/ (n = th["main"].name /\ (n \in blurred' \/ Reads("main", n)))
      /\ doubt' \in BOOLEAN
  BY DEF Overwrite, TypeOK
<1>3. FileChanges(n) /\ TypeCache' /\ TypeRest'
  BY <1>1, <1>2, ChangeEffect
<1>4. ASSUME NEW t \in Threads
      PROVE  /\ th'[t] \in Thread /\ th'[t].curr = th[t].curr /\ th'[t].last = th[t].last
             /\ th'[t].match = th[t].match /\ th'[t].list = th[t].list
             /\ th'[t] = th[t] \/ (Rereads(n, t) /\ Reads(t, n))
  <2>1. th[t] \in Thread
    BY DEF TypeOK
  <2>2. CASE Reads(t, n)
    <3>1. new[t] \in Splices(th[t], c)
      BY <1>1
    <3>2. new[t] \in Seq(Streams) /\ (th[t].pc = "validate" => new[t] # << >>)
      BY <2>1, <3>1, SpliceType
    <3>3. th'[t] = [th[t] EXCEPT !.todo = new[t]]
      BY <1>1, <2>2
    <3>4. Rereads(n, t)
      BY <2>2, <3>2, <3>3 DEF Rereads, Reads
    <3> QED
      BY <2>1, <2>2, <3>2, <3>3, <3>4 DEF Thread
  <2>3. CASE ~Reads(t, n)
    BY <1>1, <2>1, <2>3
  <2> QED
    BY <2>2, <2>3
<1>5. TypeThreads'
  <2>1. Len(nodes') = Len(nodes) /\ Len(lists') = Len(lists)
    BY <1>3, SameCache DEF FileChanges
  <2>2. th' \in [Threads -> Thread]
    <3>1. th' = [t \in Threads |-> th'[t]]
      BY <1>1
    <3> QED
      BY <1>4, <3>1
  <2> QED
    BY <1>4, <2>1, <2>2 DEF TypeThreads, TypeOK
<1>6. Rewrites(n)
  BY <1>2, <1>4 DEF Rewrites, Reads, Threads
<1>7. TypeOK'
  BY <1>3, <1>5 DEF TypeOK, TypeCache, TypeThreads, TypeRest
<1> QED
  BY <1>3, <1>6, <1>7

-----------------------------------------------------------------------------
(* The invariant.  While a thread is parsing, what it has read so far and    *)
(* the streams that are to come are those of the file.                       *)
Parses == {"block", "validate"}
Busy == Parses \cup {"open", "fail", "undefined"}

Parsed(t) == IF th[t].list = Null THEN << >> ELSE lists[th[t].list]
Rest(t) == IF th[t].pc = "validate" THEN Tail(th[t].todo) ELSE th[t].todo

NodeMatches(n, c) ==
  c # Missing /\ (c.streams = << >> \/ (c.streams = ListOf(n) /\ (c.multicast => nodes[n].multicast)))
ParseMatches(t, c) ==
  c # Missing /\ c.streams = Parsed(t) \o Rest(t) /\ (c.multicast => nodes[th[t].match].multicast)

(* A description that carries the time of the file carries its contents, as *)
(* long as the file has not been changed since within that second.          *)
Sound(n) ==
  LET f == file[nodes[n].name]
  IN /\ nodes[n].last_change <= f.ctime
     /\ nodes[n].last_change = f.ctime /\ nodes[n].name \notin blurred => NodeMatches(n, f.content)

Calm == ~(mixed \/ tangled)
Holds(t) == th[t].pc \in Inside

(* No two descriptions share a media list. *)
ListsApart ==
  \A m, n \in NodeIds : m # n /\ nodes[m].list # Null => nodes[m].list # nodes[n].list
KnownSince ==
  th["main"].pc # "idle" =>
    /\ file[th["main"].name].content \in since
    /\ th["main"].name \in blurred => doubt
NoReplyYet == th["main"].pc # "idle" => reply = NoReply
Dated == \A n \in Names : file[n].ctime > 0

(* Until two threads come to one description or one is unlinked under the   *)
(* other: they are at different ones, which are in memory; each description *)
(* that no thread is parsing is sound; what a thread is parsing will be; and *)
(* what the main thread has found is the file as it was since the request.  *)
Apart ==
  /\ \A t, u \in Threads : t # u /\ Holds(t) /\ Holds(u) => th[t].match # th[u].match
  /\ \A t \in Threads : Holds(t) /\ ~th[t].err => ~nodes[th[t].match].freed
Resting(n) == ~nodes[n].freed /\ \A t \in Threads : th[t].match = n => th[t].pc \notin Busy
RestSound == \A n \in NodeIds : Resting(n) => Sound(n)
ParsingAt(t) ==
  LET l == th[t]
  IN /\ l.pc = "compare" => l.ctime <= file[l.name].ctime
     /\ l.pc = "open" => nodes[l.match].last_change <= file[l.name].ctime
     /\ l.pc \in Parses =>
          /\ nodes[l.match].last_change <= file[l.name].ctime
          /\ nodes[l.match].last_change = file[l.name].ctime /\ l.name \notin blurred =>
               ParseMatches(t, file[l.name].content)
          /\ l.list # Null => nodes[l.match].list = l.list
MainSound ==
  LET m == th["main"]
  IN ~doubt =>
     /\ m.pc = "compare" /\ nodes[m.match].last_change = m.ctime => \E c \in since : NodeMatches(m.match, c)
     /\ m.pc \in Parses => \E c \in since : ParseMatches("main", c)
     /\ m.pc = "answer" /\ ~m.err => \E c \in since : NodeMatches(m.match, c)
CalmInv == Calm => Apart /\ RestSound /\ (\A t \in Threads : ParsingAt(t)) /\ MainSound

IInv == TypeOK /\ Named /\ Dated /\ ListsApart /\ KnownSince /\ NoReplyYet /\ CalmInv /\ DescribesTheFile

-----------------------------------------------------------------------------
(* What a step of one thread leaves as it is: every description but the one  *)
(* the thread is at, with its list.                                          *)
SameNode(m) ==
  /\ Like(nodes'[m], nodes[m]) /\ nodes'[m].freed = nodes[m].freed
  /\ nodes[m].list # Null => lists'[nodes[m].list] = lists[nodes[m].list]

LEMMA SameMatches ==
  ASSUME NEW m \in NodeIds, SameNode(m)
  PROVE  /\ ListOf(m)' = ListOf(m)
         /\ \A c : NodeMatches(m, c)' <=> NodeMatches(m, c)
         /\ file' = file /\ blurred' = blurred => (Sound(m)' <=> Sound(m))
<1>1. ListOf(m)' = ListOf(m)
  BY DEF SameNode, ListOf, Like
<1>2. \A c : NodeMatches(m, c)' <=> NodeMatches(m, c)
  BY <1>1 DEF NodeMatches, SameNode, Like
<1> QED
  BY <1>1, <1>2 DEF Sound, SameNode, Like

Elsewhere(t) == \A m \in NodeIds : ~(Holds(t) /\ th[t].match = m) => SameNode(m)

LEMMA HeldNode ==
  ASSUME TypeOK, Named, NEW t \in Threads, Holds(t)
  PROVE  th[t].match \in NodeIds /\ nodes[th[t].match].name = th[t].name /\ th[t].name \in Names
BY DEF TypeOK, Named, NamedAt, Holds, NodeIds, Null, Inside

(* So the other thread finds what it had found ... *)
LEMMA OthersKeep ==
  ASSUME IInv, Calm, NEW t \in Threads, Others(t), file' = file, blurred' = blurred, Elsewhere(t),
         NEW u \in Threads, u # t
  PROVE  /\ Holds(u) => SameNode(th[u].match)
         /\ ParsingAt(u)'
         /\ u = "main" /\ since \subseteq since' /\ doubt' = doubt => MainSound'
<1> DEFINE n == th[u].match
<1>1. th'[u] = th[u] /\ TypeOK /\ Named /\ Apart /\ ParsingAt(u) /\ MainSound
  BY DEF IInv, CalmInv, Others
<1>2. ASSUME Holds(u)
      PROVE  SameNode(n) /\ n \in NodeIds
  BY <1>1, <1>2, HeldNode DEF Apart, Elsewhere
<1>3. th[u].pc \in Parses \cup {"compare", "open", "answer"} => Holds(u)
  BY DEF Holds, Inside, Parses
<1>4. th[u].pc \in Parses => \A c : ParseMatches(u, c)' <=> ParseMatches(u, c)
  <2> SUFFICES ASSUME th[u].pc \in Parses
               PROVE  \A c : ParseMatches(u, c)' <=> ParseMatches(u, c)
    OBVIOUS
  <2>1. SameNode(n) /\ (th[u].list # Null => nodes[n].list = th[u].list)
    BY <1>1, <1>2, <1>3 DEF ParsingAt
  <2>2. Parsed(u)' = Parsed(u) /\ Rest(u)' = Rest(u)
    BY <1>1, <2>1 DEF Parsed, Rest, SameNode
  <2> QED
    BY <1>1, <2>1, <2>2 DEF ParseMatches, SameNode, Like
<1>5. ParsingAt(u)'
  <2>1. th[u].pc \in Parses \cup {"open"} =>
          nodes'[n].last_change = nodes[n].last_change /\ nodes'[n].list = nodes[n].list
    BY <1>2, <1>3 DEF SameNode, Like
  <2> QED
    BY <1>1, <1>4, <2>1 DEF ParsingAt
<1>6. ASSUME u = "main", since \subseteq since', doubt' = doubt
      PROVE  MainSound'
  <2> SUFFICES ASSUME ~doubt
               PROVE  MainSound'
    BY <1>6 DEF MainSound
  <2>0. ~doubt
    OBVIOUS
  <2>1. Holds(u) => /\ nodes'[n].last_change = nodes[n].last_change
                    /\ \A c : NodeMatches(n, c)' <=> NodeMatches(n, c)
    <3> SUFFICES ASSUME Holds(u)
                 PROVE  /\ nodes'[n].last_change = nodes[n].last_change
                        /\ \A c : NodeMatches(n, c)' <=> NodeMatches(n, c)
      OBVIOUS
    <3>1. PICK k \in NodeIds : k = n /\ SameNode(k)
      BY <1>2
    <3>2. \A c : NodeMatches(k, c)' <=> NodeMatches(k, c)
      BY <3>1, SameMatches
    <3>3. n' = n /\ n = k
      BY <1>1, <3>1
    <3> QED
      BY <3>1, <3>2, <3>3 DEF SameNode, Like, NodeMatches, ListOf
  <2>2. /\ th[u].pc = "compare" /\ nodes[n].last_change = th[u].ctime => \E c \in since : NodeMatches(n, c)
        /\ th[u].pc \in Parses => \E c \in since : ParseMatches(u, c)
        /\ th[u].pc = "answer" /\ ~th[u].err => \E c \in since : NodeMatches(n, c)
    BY <1>1, <1>6, <2>0 DEF MainSound
  <2>3. /\ th[u].pc = "compare" /\ nodes'[n].last_change = th[u].ctime => \E c \in since' : NodeMatches(n, c)'
        /\ th[u].pc \in Parses => \E c \in since' : ParseMatches(u, c)'
        /\ th[u].pc = "answer" /\ ~th[u].err => \E c \in since' : NodeMatches(n, c)'
    BY <1>3, <1>4, <1>6, <2>1, <2>2
  <2> QED
    BY <1>1, <1>6, <2>3 DEF MainSound
<1> QED
  BY <1>2, <1>5, <1>6

(* ... and a description nobody is at stays sound. *)
LEMMA RestKeeps ==
  ASSUME IInv, Calm, ~Undefined, NEW t \in Threads, Others(t), file' = file, blurred' = blurred, Elsewhere(t),
         NEW m \in NodeIds, ~(Holds(t) /\ th[t].match = m), Resting(m)'
  PROVE  Sound(m)'
<1>1. TypeOK /\ Named /\ RestSound /\ SameNode(m)
  BY DEF IInv, CalmInv, Elsewhere
<1>2. ~nodes[m].freed
  BY <1>1 DEF Resting, SameNode
<1>3. th[t].match # m
  <2>1. m # Null
    BY DEF NodeIds, Null
  <2> QED
    BY <1>1, <2>1 DEF Named, NamedAt, Undefined, Holds
<1>4. Resting(m)
  BY <1>2, <1>3 DEF Resting, Others
<1> QED
  BY <1>1, <1>4, SameMatches DEF RestSound

(* No answer leaves while a thread is in enum_media. *)
LEMMA InsideKeeps ==
  ASSUME IInv, NEW t \in Threads, Others(t), SameName(t), th[t].pc # "idle",
         UNCHANGED <<file, reply, since, blurred, doubt>>, Calm' => Calm
  PROVE  KnownSince' /\ NoReplyYet' /\ DescribesTheFile'
<1>1. KnownSince /\ NoReplyYet /\ DescribesTheFile
  BY DEF IInv
<1>2. th["main"].pc # "idle" \/ th'["main"] = th["main"]
  BY DEF Others, Threads
<1>3. th'["main"].name = th["main"].name
  BY <1>2 DEF Others, SameName, Threads
<1>4. KnownSince' /\ NoReplyYet'
  BY <1>1, <1>2, <1>3 DEF KnownSince, NoReplyYet
<1>5. DescribesTheFile'
  <2>1. CASE th["main"].pc # "idle"
    BY <1>1, <2>1 DEF NoReplyYet, DescribesTheFile
  <2>2. CASE th'["main"] = th["main"]
    BY <1>1, <2>2 DEF DescribesTheFile, Calm
  <2> QED
    BY <1>2, <2>1, <2>2
<1> QED
  BY <1>4, <1>5

(* What is left to show of a step of a thread. *)
LEMMA StepKeeps ==
  ASSUME IInv, ~Undefined, TypeOK', NEW t \in Threads, Others(t), file' = file, blurred' = blurred,
         NodeIds \subseteq NodeIds',
         \A m \in NodeIds : nodes'[m].name = nodes[m].name,
         NamedAt(t)', ListsApart', KnownSince' /\ NoReplyYet' /\ DescribesTheFile',
         Calm' => Calm /\ Elsewhere(t),
         t # "main" => since' = since /\ doubt' = doubt,
         Calm' => \A u \in Threads : u # t /\ Holds(u) /\ Holds(t)' => th'[t].match # th[u].match,
         Calm' => (Holds(t)' /\ ~th'[t].err => ~nodes'[th'[t].match].freed),
         Calm' => \A m \in NodeIds' : (m \in NodeIds => Holds(t) /\ th[t].match = m) /\ Resting(m)' => Sound(m)',
         Calm' => ParsingAt(t)',
         Calm' /\ t = "main" => MainSound'
  PROVE  IInv'
<1>1. TypeOK /\ Named /\ Dated
  BY DEF IInv
<1>2. Named'
  <2> SUFFICES ASSUME NEW u \in Threads, u # t
               PROVE  NamedAt(u)'
    BY DEF Named
  <2>1. NamedAt(u) /\ th'[u] = th[u]
    BY <1>1 DEF Named, Others
  <2>2. Holds(u) => th[u].match \in NodeIds
    BY <1>1, HeldNode
  <2> QED
    BY <2>1, <2>2 DEF NamedAt, Holds
<1>3. Dated'
  BY <1>1 DEF Dated
<1>4. CalmInv'
  <2> SUFFICES ASSUME Calm'
               PROVE  Apart' /\ RestSound' /\ (\A u \in Threads : ParsingAt(u)') /\ MainSound'
    BY DEF CalmInv
  <2>1. Calm /\ Elsewhere(t) /\ Apart
    BY DEF IInv, CalmInv
  <2>2. Apart'
    <3>1. \A u, v \in Threads : u # v /\ Holds(u)' /\ Holds(v)' => th'[u].match # th'[v].match
      BY <2>1 DEF Apart, Others, Holds
    <3>2. ASSUME NEW u \in Threads, u # t, Holds(u)', ~th'[u].err
          PROVE  ~nodes'[th'[u].match].freed
      <4>1. th'[u] = th[u] /\ Holds(u)
        BY <3>2 DEF Others, Holds
      <4>2. SameNode(th[u].match)
        BY <2>1, <3>2, <4>1, OthersKeep
      <4> QED
        BY <2>1, <3>2, <4>1, <4>2 DEF Apart, SameNode
    <3> QED
      BY <3>1, <3>2 DEF Apart
  <2>3. RestSound'
    <3> SUFFICES ASSUME NEW m \in NodeIds', Resting(m)'
                 PROVE  Sound(m)'
      BY DEF RestSound
    <3>1. CASE m \in NodeIds => Holds(t) /\ th[t].match = m
      BY <3>1
    <3>2. CASE m \in NodeIds /\ ~(Holds(t) /\ th[t].match = m)
      BY <2>1, <3>2, RestKeeps
    <3> QED
      BY <3>1, <3>2
  <2>4. \A u \in Threads : ParsingAt(u)'
    BY <2>1, OthersKeep
  <2>5. MainSound'
    <3>1. CASE t = "main"
      BY <3>1
    <3>2. CASE t # "main"
      BY <2>1, <3>2, OthersKeep DEF Threads
    <3> QED
      BY <3>1, <3>2
  <2> QED
    BY <2>2, <2>3, <2>4, <2>5
<1> QED
  BY <1>2, <1>3, <1>4 DEF IInv

-----------------------------------------------------------------------------
(* Each step keeps the invariant. *)

LEMMA CacheKept ==
  ASSUME ListsApart, UNCHANGED cache
  PROVE  /\ \A t : Elsewhere(t) /\ ListsApart' /\ NodeIds' = NodeIds
         /\ \A m \in NodeIds : nodes'[m].name = nodes[m].name
         /\ \A m \in NodeIds : SameNode(m)
BY DEF cache, Elsewhere, SameNode, Like, ListsApart, NodeIds

LEMMA WalkKeeps ==
  ASSUME IInv, NEW t \in Threads, Walk(t)
  PROVE  IInv'
<1>1. TypeOK /\ Named /\ ListsApart /\ ~Undefined /\ UNCHANGED <<file, cache, reply, since, tangled, blurred, doubt>>
  BY DEF IInv, Walk, At
<1>2. /\ TypeOK' /\ Others(t) /\ SameName(t) /\ th'[t].err = th[t].err
      /\ th[t].pc = "walk" /\ th[t].curr \in NodeIds /\ ~nodes[th[t].curr].freed
      /\ \/ th'[t].pc = "stat" /\ th'[t].match = th[t].curr /\ nodes[th[t].curr].name = th[t].name
               /\ mixed' = (mixed \/ Meets(t, th[t].curr))
         \/ th'[t].pc \in {"walk", "insert"} /\ th'[t].match = th[t].match /\ mixed' = mixed
  BY <1>1, WalkEffect
<1>3. NamedAt(t)
  BY <1>1 DEF Named
<1>4. ~Holds(t) /\ th[t].match = Null
  BY <1>2, <1>3 DEF Holds, NamedAt, Inside
<1>5. Calm' => Calm
  BY <1>1, <1>2 DEF Calm
<1>6. nodes' = nodes /\ NodeIds' = NodeIds /\ Elsewhere(t) /\ ListsApart'
  BY <1>1, CacheKept DEF cache
<1>7. NamedAt(t)'
  BY <1>2, <1>3, <1>4, <1>6 DEF NamedAt, SameName, Inside, NodeIds, Null
<1>8. KnownSince' /\ NoReplyYet' /\ DescribesTheFile'
  BY <1>1, <1>2, <1>5, InsideKeeps
<1>9. ASSUME Calm', NEW u \in Threads, u # t, Holds(u), Holds(t)'
      PROVE  th'[t].match # th[u].match
  <2>1. th'[t].pc = "stat" /\ th'[t].match = th[t].curr /\ ~Meets(t, th[t].curr)
    BY <1>2, <1>9 DEF Holds, Inside, Calm
  <2>2. u = Other(t)
    BY <1>9 DEF Other, Threads
  <2> QED
    BY <1>9, <2>1, <2>2 DEF Meets, Holds
<1>10. Holds(t)' => ~nodes'[th'[t].match].freed
  BY <1>2, <1>6 DEF Holds, Inside
<1>11. ParsingAt(t)' /\ (t = "main" => MainSound')
  BY <1>2 DEF ParsingAt, MainSound, Parses
<1> QED
  BY <1>1, <1>2, <1>4, <1>5, <1>6, <1>7, <1>8, <1>9, <1>10, <1>11, StepKeeps

LEMMA FollowsFreedKeeps ==
  ASSUME IInv, NEW t \in Threads, FollowsFreed(t)
  PROVE  IInv'
<1>1. /\ TypeOK /\ Named /\ ListsApart /\ ~Undefined
      /\ UNCHANGED <<file, cache, reply, since, tangled, mixed, blurred, doubt>>
  BY DEF IInv, FollowsFreed, hist
<1>2. /\ TypeOK' /\ Others(t) /\ SameName(t) /\ th[t].pc \notin {"idle", "undefined"}
      /\ th'[t].pc = "undefined"
  BY <1>1, FollowsFreedEffect
<1>3. NamedAt(t)
  BY <1>1 DEF Named
<1>4. Calm' => Calm
  BY <1>1 DEF Calm
<1>5. nodes' = nodes /\ NodeIds' = NodeIds /\ Elsewhere(t) /\ ListsApart'
  BY <1>1, CacheKept DEF cache
<1>6. NamedAt(t)' /\ ~Holds(t)'
  BY <1>2, <1>3, <1>5 DEF NamedAt, SameName, Inside, Holds
<1>7. KnownSince' /\ NoReplyYet' /\ DescribesTheFile'
  BY <1>1, <1>2, <1>4, InsideKeeps
<1>8. ASSUME NEW m \in NodeIds', m \in NodeIds => Holds(t) /\ th[t].match = m, Resting(m)'
      PROVE  Sound(m)'
  <2>1. th'[t].match = m
    BY <1>1, <1>2, <1>5, <1>8, FollowsFreedEffect
  <2> QED
    BY <1>2, <1>8, <2>1 DEF Resting, Busy
<1>9. ParsingAt(t)' /\ (t = "main" => MainSound')
  BY <1>2 DEF ParsingAt, MainSound, Parses
<1> QED
  BY <1>1, <1>2, <1>4, <1>5, <1>6, <1>7, <1>8, <1>9, StepKeeps

LEMMA StatKeeps ==
  ASSUME IInv, NEW t \in Threads, Stat(t)
  PROVE  IInv'
<1> DEFINE n == th[t].match
           f == file[th[t].name]
<1>1. /\ TypeOK /\ Named /\ ListsApart /\ ~Undefined /\ KnownSince
      /\ UNCHANGED <<file, cache, reply, since, tangled, mixed, blurred, doubt>>
  BY DEF IInv, Stat, At, hist
<1>2. /\ TypeOK' /\ Others(t) /\ SameName(t) /\ th[t].pc = "stat"
      /\ th'[t].err = th[t].err /\ th'[t].match = n
      /\ \/ th'[t].pc = "fail" /\ f.content = Missing
         \/ th'[t].pc = "compare" /\ th'[t].ctime = f.ctime /\ f.content # Missing
  BY <1>1, StatEffect
<1>3. NamedAt(t) /\ Holds(t) /\ Holds(t)'
  BY <1>1, <1>2 DEF Named, Holds, Inside
<1>4. Calm' => Calm
  BY <1>1 DEF Calm
<1>5. nodes' = nodes /\ NodeIds' = NodeIds /\ Elsewhere(t) /\ ListsApart' /\ \A m \in NodeIds : SameNode(m)
  BY <1>1, CacheKept DEF cache
<1>6. NamedAt(t)'
  BY <1>2, <1>3, <1>5 DEF NamedAt, SameName, Inside, Holds
<1>7. KnownSince' /\ NoReplyYet' /\ DescribesTheFile'
  BY <1>1, <1>2, <1>4, InsideKeeps
<1>8. n \in NodeIds /\ nodes[n].name = th[t].name /\ th[t].name \in Names
  BY <1>1, <1>3, HeldNode
<1>9. ASSUME Calm'
      PROVE  Apart /\ Sound(n)
  <2>1. Apart /\ RestSound
    BY <1>4, <1>9 DEF IInv, CalmInv
  <2>2. Resting(n)
    <3>1. ~nodes[n].freed
      BY <1>2, <1>3, <2>1 DEF Apart, NamedAt
    <3>2. ASSUME NEW u \in Threads, th[u].match = n
          PROVE  th[u].pc \notin Busy
      <4>1. CASE u = t
        BY <1>2, <4>1 DEF Busy, Parses
      <4>2. CASE u # t
        <5>1. ~Holds(u)
          BY <1>3, <2>1, <3>2, <4>2 DEF Apart
        <5> QED
          BY <1>1, <5>1 DEF Holds, Inside, Busy, Parses, Undefined
      <4> QED
        BY <4>1, <4>2
    <3> QED
      BY <3>1, <3>2 DEF Resting
  <2> QED
    BY <1>8, <2>1, <2>2 DEF RestSound
<1>10. Calm' => \A u \in Threads : u # t /\ Holds(u) => th'[t].match # th[u].match
  BY <1>2, <1>3, <1>9 DEF Apart
<1>11. Calm' => ~nodes'[th'[t].match].freed
  BY <1>2, <1>3, <1>5, <1>9 DEF Apart, NamedAt
<1>12. ASSUME Calm', NEW m \in NodeIds', m \in NodeIds => th[t].match = m
       PROVE  Sound(m)'
  BY <1>1, <1>5, <1>9, <1>12, SameMatches
<1>13. ParsingAt(t)'
  <2>1. f.ctime \in Nat
    BY <1>1, <1>8 DEF TypeOK
  <2> QED
    BY <1>1, <1>2, <2>1 DEF ParsingAt, Parses, SameName
<1>14. ASSUME Calm', t = "main"
       PROVE  MainSound'
  <2>1. CASE ~doubt /\ th'[t].pc = "compare" /\ nodes'[n].last_change = th'[t].ctime
    <3>1. NodeMatches(n, f.content) /\ f.content \in since
      BY <1>1, <1>2, <1>5, <1>8, <1>9, <1>14, <2>1 DEF Sound, KnownSince
    <3>2. PICK k \in NodeIds : k = n
      BY <1>8
    <3>3. NodeMatches(k, f.content)'
      <4>1. PICK c : c = f.content
        OBVIOUS
      <4>2. NodeMatches(k, c)'
        BY <1>5, <3>1, <3>2, <4>1, SameMatches
      <4> QED
        BY <1>1, <1>2, <4>1, <4>2 DEF NodeMatches, SameName
    <3> QED
      BY <1>1, <1>2, <1>14, <2>1, <3>1, <3>2, <3>3 DEF MainSound, Parses, NodeMatches, ListOf, cache
  <2>2. CASE ~(~doubt /\ th'[t].pc = "compare" /\ nodes'[n].last_change = th'[t].ctime)
    BY <1>1, <1>2, <1>14, <2>2 DEF MainSound, Parses
  <2> QED
    BY <2>1, <2>2
<1> QED
  BY <1>1, <1>2, <1>3, <1>4, <1>5, <1>6, <1>7, <1>10, <1>11, <1>12, <1>13, <1>14, StepKeeps

LEMMA ParsedType ==
  ASSUME TypeOK, NEW t \in Threads
  PROVE  Parsed(t) \in Seq(Streams)
<1>1. lists \in Seq(Seq(Streams)) /\ Len(lists) \in Nat /\ th[t].list \in 0 .. Len(lists)
  BY LenProperties DEF TypeOK
<1>2. CASE th[t].list = Null
  BY <1>2 DEF Parsed
<1>3. CASE th[t].list # Null
  <2>1. th[t].list \in 1 .. Len(lists)
    BY <1>1, <1>3 DEF Null
  <2> QED
    BY <1>1, <1>3, <2>1, ElementOfSeq DEF Parsed
<1> QED
  BY <1>2, <1>3

LEMMA EndOfFileKeeps ==
  ASSUME IInv, NEW t \in Threads, EndOfFile(t)
  PROVE  IInv'
<1> DEFINE n == th[t].match
           f == file[th[t].name]
<1>1. /\ TypeOK /\ Named /\ ListsApart /\ ~Undefined
      /\ UNCHANGED <<file, cache, reply, since, tangled, mixed, blurred, doubt>>
  BY DEF IInv, EndOfFile, At, hist
<1>2. /\ TypeOK' /\ Others(t) /\ SameName(t) /\ th[t].pc = "block"
      /\ th'[t].err = th[t].err /\ th'[t].match = n /\ th'[t].pc = "answer" /\ th[t].todo = << >>
  BY <1>1, EndOfFileEffect
<1>3. NamedAt(t) /\ Holds(t) /\ Holds(t)'
  BY <1>1, <1>2 DEF Named, Holds, Inside
<1>4. Calm' => Calm
  BY <1>1 DEF Calm
<1>5. /\ nodes' = nodes /\ lists' = lists /\ NodeIds' = NodeIds /\ Elsewhere(t) /\ ListsApart'
      /\ \A m \in NodeIds : SameNode(m)
  BY <1>1, CacheKept DEF cache
<1>6. NamedAt(t)'
  BY <1>2, <1>3, <1>5 DEF NamedAt, SameName, Inside, Holds
<1>7. KnownSince' /\ NoReplyYet' /\ DescribesTheFile'
  BY <1>1, <1>2, <1>4, InsideKeeps
<1>8. n \in NodeIds /\ nodes[n].name = th[t].name /\ th[t].name \in Names
  BY <1>1, <1>3, HeldNode
<1>9. ASSUME Calm'
      PROVE  /\ Apart /\ ParsingAt(t) /\ MainSound
             /\ \A c : ParseMatches(t, c) => NodeMatches(n, c)
  <2>1. Apart /\ ParsingAt(t) /\ MainSound
    BY <1>4, <1>9 DEF IInv, CalmInv
  <2>2. Parsed(t) = << >> \/ Parsed(t) = ListOf(n)
    BY <1>2, <2>1 DEF Parsed, ListOf, ParsingAt, Parses
  <2>3. Parsed(t) \o Rest(t) = Parsed(t)
    <3>1. Parsed(t) \in Seq(Streams)
      BY <1>1, ParsedType
    <3> QED
      BY <1>2, <3>1, ConcatEmptySeq DEF Rest
  <2> QED
    BY <2>1, <2>2, <2>3 DEF ParseMatches, NodeMatches
<1>10. Calm' => \A u \in Threads : u # t /\ Holds(u) => th'[t].match # th[u].match
  BY <1>2, <1>3, <1>9 DEF Apart
<1>11. Calm' => (~th'[t].err => ~nodes'[th'[t].match].freed)
  BY <1>2, <1>3, <1>5, <1>9 DEF Apart
<1>12. ASSUME Calm', NEW m \in NodeIds', m \in NodeIds => th[t].match = m
       PROVE  Sound(m)'
  <2>1. /\ nodes[n].last_change <= f.ctime
        /\ nodes[n].last_change = f.ctime /\ th[t].name \notin blurred => ParseMatches(t, f.content)
    BY <1>2, <1>9, <1>12 DEF ParsingAt, Parses
  <2>2. Sound(n)
    BY <1>8, <1>9, <1>12, <2>1 DEF Sound
  <2> QED
    BY <1>1, <1>5, <1>12, <2>2, SameMatches
<1>13. ParsingAt(t)'
  BY <1>2 DEF ParsingAt, Parses
<1>14. ASSUME Calm', t = "main"
       PROVE  MainSound'
  <2>1. ~doubt => \E c \in since : NodeMatches(n, c)
    BY <1>2, <1>9, <1>14 DEF MainSound, Parses
  <2> QED
    BY <1>1, <1>2, <1>5, <1>14, <2>1 DEF MainSound, Parses, NodeMatches, ListOf
<1> QED
  BY <1>1, <1>2, <1>3, <1>4, <1>5, <1>6, <1>7, <1>10, <1>11, <1>12, <1>13, <1>14, StepKeeps

LEMMA ValidateKeeps ==
  ASSUME IInv, NEW t \in Threads, Validate(t)
  PROVE  IInv'
<1> DEFINE n == th[t].match
           f == file[th[t].name]
<1>1. /\ TypeOK /\ Named /\ ListsApart /\ ~Undefined
      /\ UNCHANGED <<file, cache, reply, since, tangled, mixed, blurred, doubt>>
  BY DEF IInv, Validate, At, hist
<1>2. /\ TypeOK' /\ Others(t) /\ SameName(t) /\ th[t].pc = "validate"
      /\ th'[t].err = th[t].err /\ th'[t].match = n /\ th'[t].list = th[t].list
      /\ \/ th'[t].pc = "block" /\ th'[t].todo = Tail(th[t].todo)
         \/ th'[t].pc \in {"fail", "undefined"}
  BY <1>1, ValidateEffect
<1>3. NamedAt(t) /\ Holds(t)
  BY <1>1, <1>2 DEF Named, Holds, Inside
<1>4. Calm' => Calm
  BY <1>1 DEF Calm
<1>5. /\ nodes' = nodes /\ lists' = lists /\ NodeIds' = NodeIds /\ Elsewhere(t) /\ ListsApart'
      /\ \A m \in NodeIds : SameNode(m)
  BY <1>1, CacheKept DEF cache
<1>6. NamedAt(t)'
  BY <1>2, <1>3, <1>5 DEF NamedAt, SameName, Inside, Holds
<1>7. KnownSince' /\ NoReplyYet' /\ DescribesTheFile'
  BY <1>1, <1>2, <1>4, InsideKeeps
<1>8. ASSUME Calm'
      PROVE  Apart /\ ParsingAt(t) /\ MainSound
  BY <1>4, <1>8 DEF IInv, CalmInv
<1>9. Calm' => \A u \in Threads : u # t /\ Holds(u) => th'[t].match # th[u].match
  BY <1>2, <1>3, <1>8 DEF Apart
<1>10. Calm' => (~th'[t].err => ~nodes'[th'[t].match].freed)
  BY <1>2, <1>3, <1>5, <1>8 DEF Apart
<1>11. ASSUME NEW m \in NodeIds', m \in NodeIds => th[t].match = m, Resting(m)'
       PROVE  Sound(m)'
  BY <1>2, <1>5, <1>11 DEF Resting, Busy, Parses
<1>12. th'[t].pc = "block" => Parsed(t)' = Parsed(t) /\ Rest(t)' = Rest(t)
  BY <1>2, <1>5 DEF Parsed, Rest
<1>13. th'[t].pc = "block" => \A c : ParseMatches(t, c)' <=> ParseMatches(t, c)
  BY <1>2, <1>5, <1>12 DEF ParseMatches
<1>14. Calm' => ParsingAt(t)'
  BY <1>1, <1>2, <1>5, <1>8, <1>13 DEF ParsingAt, Parses, SameName
<1>15. ASSUME Calm', t = "main"
       PROVE  MainSound'
  BY <1>1, <1>2, <1>8, <1>13, <1>15 DEF MainSound, Parses
<1> QED
  BY <1>1, <1>2, <1>3, <1>4, <1>5, <1>6, <1>7, <1>9, <1>10, <1>11, <1>14, <1>15, StepKeeps

LEMMA CompareKeeps ==
  ASSUME IInv, NEW t \in Threads, Compare(t)
  PROVE  IInv'
<1> DEFINE n == th[t].match
           f == file[th[t].name]
<1>1. /\ TypeOK /\ Named /\ ListsApart /\ ~Undefined
      /\ UNCHANGED <<file, lists, reply, since, tangled, mixed, blurred, doubt>>
  BY DEF IInv, Compare, At, hist
<1>2. /\ TypeOK' /\ Others(t) /\ SameName(t) /\ th[t].pc = "compare"
      /\ th'[t].err = th[t].err /\ th'[t].match = n
      /\ n \in NodeIds /\ ~nodes[n].freed /\ NodeIds' = NodeIds
      /\ \/ th'[t].pc = "answer" /\ nodes[n].last_change = th[t].ctime /\ nodes' = nodes
         \/ th'[t].pc = "open" /\ nodes[n].last_change # th[t].ctime
            /\ nodes'[n] = [nodes[n] EXCEPT !.last_change = th[t].ctime]
            /\ \A m \in NodeIds : m # n => nodes'[m] = nodes[m]
  BY <1>1, CompareEffect
<1>3. NamedAt(t) /\ Holds(t) /\ Holds(t)'
  BY <1>1, <1>2 DEF Named, Holds, Inside
<1>4. Calm' => Calm
  BY <1>1 DEF Calm
<1>5. nodes[n] \in Description /\ nodes[n].name = th[t].name /\ th[t].name \in Names
  BY <1>1, <1>2, <1>3, ElementOfSeq, HeldNode DEF TypeOK, NodeIds
<1>6. /\ nodes'[n].name = nodes[n].name /\ nodes'[n].list = nodes[n].list
      /\ nodes'[n].freed = nodes[n].freed
      /\ th'[t].pc = "open" => nodes'[n].last_change = th[t].ctime
      /\ \A m \in NodeIds : m # n => nodes'[m] = nodes[m]
  BY <1>2, <1>5 DEF Description
<1>7. Elsewhere(t) /\ ListsApart' /\ \A m \in NodeIds : nodes'[m].name = nodes[m].name
  BY <1>1, <1>2, <1>3, <1>6 DEF Elsewhere, SameNode, Like, ListsApart
<1>8. NamedAt(t)'
  BY <1>2, <1>3, <1>6 DEF NamedAt, SameName, Inside, Holds
<1>9. KnownSince' /\ NoReplyYet' /\ DescribesTheFile'
  BY <1>1, <1>2, <1>4, InsideKeeps
<1>10. ASSUME Calm'
       PROVE  Apart /\ RestSound /\ ParsingAt(t) /\ MainSound
  BY <1>4, <1>10 DEF IInv, CalmInv
<1>11. Calm' => \A u \in Threads : u # t /\ Holds(u) => th'[t].match # th[u].match
  BY <1>2, <1>3, <1>10 DEF Apart
<1>12. ~nodes'[th'[t].match].freed
  BY <1>2, <1>6
<1>13. ASSUME Calm', NEW m \in NodeIds', m \in NodeIds => n = m, Resting(m)'
       PROVE  Sound(m)'
  <2>1. m = n /\ th'[t].pc \notin Busy
    BY <1>2, <1>13 DEF Resting
  <2>2. nodes' = nodes
    BY <1>2, <2>1 DEF Busy, Parses
  <2>3. Resting(n)
    <3> SUFFICES ASSUME NEW u \in Threads, th[u].match = n
                 PROVE  th[u].pc \notin Busy
      BY <1>2 DEF Resting
    <3>1. CASE u = t
      BY <1>2, <3>1 DEF Busy, Parses
    <3>2. CASE u # t
      <4>1. th'[u] = th[u]
        BY <1>2, <3>2 DEF Others
      <4>2. th'[u].match = m => th'[u].pc \notin Busy
        BY <1>13 DEF Resting
      <4> QED
        BY <2>1, <4>1, <4>2
    <3> QED
      BY <3>1, <3>2
  <2>4. Sound(n)
    BY <1>2, <1>10, <1>13, <2>3 DEF RestSound
  <2> QED
    BY <1>1, <2>1, <2>2, <2>4 DEF Sound, NodeMatches, ListOf
<1>14. Calm' => ParsingAt(t)'
  BY <1>1, <1>2, <1>6, <1>10 DEF ParsingAt, Parses, SameName
<1>15. ASSUME Calm', t = "main"
       PROVE  MainSound'
  <2>1. CASE th'[t].pc = "answer"
    <3>1. nodes' = nodes /\ (~doubt => \E c \in since : NodeMatches(n, c))
      BY <1>2, <1>10, <1>15, <2>1 DEF MainSound
    <3> QED
      BY <1>1, <1>2, <1>15, <2>1, <3>1 DEF MainSound, Parses, NodeMatches, ListOf
  <2>2. CASE th'[t].pc = "open"
    BY <1>15, <2>2 DEF MainSound, Parses
  <2> QED
    BY <1>2, <2>1, <2>2
<1> QED
  BY <1>1, <1>2, <1>3, <1>4, <1>7, <1>8, <1>9, <1>11, <1>12, <1>13, <1>14, <1>15, StepKeeps

LEMMA OpenKeeps ==
  ASSUME IInv, NEW t \in Threads, Open(t)
  PROVE  IInv'
<1> DEFINE n == th[t].match
           f == file[th[t].name]
<1>1. /\ TypeOK /\ Named /\ ListsApart /\ KnownSince /\ ~Undefined
      /\ UNCHANGED <<file, lists, reply, since, tangled, mixed, blurred, doubt>>
  BY DEF IInv, Open, At, hist
<1>2. /\ TypeOK' /\ Others(t) /\ SameName(t) /\ th[t].pc = "open"
      /\ th'[t].err = th[t].err /\ th'[t].match = n
      /\ n \in NodeIds /\ ~nodes[n].freed /\ NodeIds' = NodeIds
      /\ \/ th'[t].pc = "fail" /\ f.content = Missing /\ nodes' = nodes
         \/ th'[t].pc = "block" /\ f.content # Missing
            /\ th'[t].list = Null /\ th'[t].todo = f.content.streams
            /\ nodes'[n] = [nodes[n] EXCEPT !.multicast = @ \/ f.content.multicast]
            /\ \A m \in NodeIds : m # n => nodes'[m] = nodes[m]
  BY <1>1, OpenEffect
<1>3. NamedAt(t) /\ Holds(t) /\ Holds(t)'
  BY <1>1, <1>2 DEF Named, Holds, Inside
<1>4. Calm' => Calm
  BY <1>1 DEF Calm
<1>5. nodes[n] \in Description /\ nodes[n].name = th[t].name /\ th[t].name \in Names
  BY <1>1, <1>2, <1>3, ElementOfSeq, HeldNode DEF TypeOK, NodeIds
<1>6. /\ nodes'[n].name = nodes[n].name /\ nodes'[n].list = nodes[n].list
      /\ nodes'[n].freed = nodes[n].freed /\ nodes'[n].last_change = nodes[n].last_change
      /\ th'[t].pc = "block" /\ f.content.multicast => nodes'[n].multicast
      /\ \A m \in NodeIds : m # n => nodes'[m] = nodes[m]
  BY <1>2, <1>5 DEF Description
<1>7. Elsewhere(t) /\ ListsApart' /\ \A m \in NodeIds : nodes'[m].name = nodes[m].name
  BY <1>1, <1>2, <1>3, <1>6 DEF Elsewhere, SameNode, Like, ListsApart
<1>8. NamedAt(t)'
  BY <1>2, <1>3, <1>6 DEF NamedAt, SameName, Inside, Holds
<1>9. KnownSince' /\ NoReplyYet' /\ DescribesTheFile'
  BY <1>1, <1>2, <1>4, InsideKeeps
<1>10. ASSUME Calm'
       PROVE  Apart /\ ParsingAt(t)
  BY <1>4, <1>10 DEF IInv, CalmInv
<1>11. Calm' => \A u \in Threads : u # t /\ Holds(u) => th'[t].match # th[u].match
  BY <1>2, <1>3, <1>10 DEF Apart
<1>12. ~nodes'[th'[t].match].freed
  BY <1>2, <1>6
<1>13. ASSUME NEW m \in NodeIds', m \in NodeIds => n = m, Resting(m)'
       PROVE  Sound(m)'
  BY <1>2, <1>13 DEF Resting, Busy, Parses
<1>14. th'[t].pc = "block" => ParseMatches(t, f.content)'
  <2> SUFFICES ASSUME th'[t].pc = "block"
               PROVE  ParseMatches(t, f.content)'
    OBVIOUS
  <2>1. f.content # Missing /\ th'[t].list = Null /\ th'[t].todo = f.content.streams
    BY <1>2
  <2>2. f.content.streams \in Seq(Streams)
    BY <1>1, <1>5, <2>1, ContentAssumption DEF TypeOK
  <2>3. Parsed(t)' = << >> /\ Rest(t)' = f.content.streams
    BY <2>1 DEF Parsed, Rest
  <2>4. << >> \o f.content.streams = f.content.streams
    BY <2>2, ConcatEmptySeq
  <2>5. f' = f /\ (f.content.multicast => nodes'[n].multicast) /\ th'[t].match = n
    BY <1>1, <1>2, <1>6 DEF SameName
  <2> QED
    BY <2>1, <2>3, <2>4, <2>5 DEF ParseMatches
<1>15. Calm' => ParsingAt(t)'
  <2>1. nodes[n].last_change <= f.ctime \/ ~Calm'
    BY <1>2, <1>10 DEF ParsingAt
  <2>2. f' = f
    BY <1>1, <1>2 DEF SameName
  <2>3. th'[t].name = th[t].name /\ file' = file
    BY <1>1, <1>2 DEF SameName
  <2> QED
    BY <1>2, <1>6, <1>14, <2>1, <2>2, <2>3 DEF ParsingAt, Parses
<1>16. ASSUME t = "main"
       PROVE  MainSound'
  <2>1. f.content \in since /\ f' = f
    BY <1>1, <1>2, <1>16 DEF KnownSince, SameName
  <2>2. th'[t].pc = "block" => \E c \in since' : ParseMatches(t, c)'
    BY <1>1, <1>14, <2>1
  <2> QED
    BY <1>2, <1>16, <2>2 DEF MainSound, Parses
<1> QED
  BY <1>1, <1>2, <1>3, <1>4, <1>7, <1>8, <1>9, <1>11, <1>12, <1>13, <1>15, <1>16, StepKeeps

(* Reading a stream moves it from what is to come to what was read. *)
LEMMA ConcatHead ==
  ASSUME NEW S, NEW s \in Seq(S), NEW r \in Seq(S), r # << >>
  PROVE  Append(s, Head(r)) \o Tail(r) = s \o r
<1>1. Head(r) \in S /\ Tail(r) \in Seq(S) /\ Len(Tail(r)) = Len(r) - 1
      /\ \A i \in 1 .. Len(Tail(r)) : Tail(r)[i] = r[i + 1]
  BY HeadTailProperties
<1>2. Append(s, Head(r)) \in Seq(S) /\ Len(Append(s, Head(r))) = Len(s) + 1
      /\ Append(s, Head(r))[Len(s) + 1] = Head(r)
      /\ \A i \in 1 .. Len(s) : Append(s, Head(r))[i] = s[i]
  BY <1>1, AppendSeq
<1>3. Len(s) \in Nat /\ Len(r) \in Nat \ {0} /\ Head(r) = r[1]
  BY EmptySeq, LenProperties
<1> DEFINE x == Append(s, Head(r)) \o Tail(r)
           y == s \o r
<1>4. /\ x \in Seq(S) /\ Len(x) = Len(s) + Len(r)
      /\ \A i \in 1 .. Len(s) + Len(r) : x[i] = IF i <= Len(s) + 1 THEN Append(s, Head(r))[i] ELSE Tail(r)[i - (Len(s) + 1)]
  <2>1. /\ x \in Seq(S) /\ Len(x) = (Len(s) + 1) + Len(Tail(r))
        /\ \A i \in 1 .. (Len(s) + 1) + Len(Tail(r)) :
             x[i] = IF i <= Len(s) + 1 THEN Append(s, Head(r))[i] ELSE Tail(r)[i - (Len(s) + 1)]
    BY <1>1, <1>2, ConcatProperties
  <2>2. (Len(s) + 1) + Len(Tail(r)) = Len(s) + Len(r)
    BY <1>1, <1>3
  <2> QED
    BY <2>1, <2>2
<1>5. /\ y \in Seq(S) /\ Len(y) = Len(s) + Len(r)
      /\ \A i \in 1 .. Len(s) + Len(r) : y[i] = IF i <= Len(s) THEN s[i] ELSE r[i - Len(s)]
  BY ConcatProperties
<1> HIDE DEF x, y
<1>6. ASSUME NEW i \in 1 .. Len(x)
      PROVE  x[i] = y[i]
  <2>1. CASE i <= Len(s)
    BY <1>2, <1>3, <1>4, <1>5, <1>6, <2>1
  <2>2. CASE i = Len(s) + 1
    BY <1>2, <1>3, <1>4, <1>5, <1>6, <2>2
  <2>3. CASE i > Len(s) + 1
    <3>1. i - (Len(s) + 1) \in 1 .. Len(Tail(r)) /\ (i - (Len(s) + 1)) + 1 = i - Len(s)
      BY <1>1, <1>3, <1>4, <1>6, <2>3
    <3>2. Tail(r)[i - (Len(s) + 1)] = r[i - Len(s)]
      BY <1>1, <3>1
    <3> QED
      BY <1>3, <1>4, <1>5, <1>6, <2>3, <3>2
  <2> QED
    BY <1>3, <1>4, <1>6, <2>1, <2>2, <2>3
<1>7. x = y
  BY <1>4, <1>5, <1>6, SeqEqual
<1> QED
  BY <1>7 DEF x, y

LEMMA BlockKeeps ==
  ASSUME IInv, NEW t \in Threads, Block(t)
  PROVE  IInv'
<1> DEFINE n == th[t].match
           f == file[th[t].name]
           at == th'[t].list
           todo == th[t].todo
<1>1. /\ TypeOK /\ Named /\ ListsApart /\ ~Undefined
      /\ UNCHANGED <<file, reply, since, tangled, mixed, blurred, doubt>>
  BY DEF IInv, Block, At, hist
<1>2. /\ TypeOK' /\ Others(t) /\ SameName(t) /\ th[t].pc = "block" /\ th'[t].pc = "validate"
      /\ th'[t].err = th[t].err /\ th'[t].match = n
      /\ n \in NodeIds /\ ~nodes[n].freed /\ NodeIds' = NodeIds
      /\ todo # << >> /\ th'[t].todo = todo
      /\ at # Null /\ at = (IF th[t].list = Null THEN Len(lists) + 1 ELSE th[t].list)
      /\ lists'[at] = Append(IF th[t].list = Null THEN << >> ELSE lists[th[t].list], Head(todo))
      /\ \A i \in 1 .. Len(lists) : i # at => lists'[i] = lists[i]
      /\ nodes'[n] = IF th[t].list = Null THEN [nodes[n] EXCEPT !.list = at] ELSE nodes[n]
      /\ \A m \in NodeIds : m # n => nodes'[m] = nodes[m]
  BY <1>1, BlockEffect
<1>3. NamedAt(t) /\ Holds(t) /\ Holds(t)'
  BY <1>1, <1>2 DEF Named, Holds, Inside
<1>4. Calm' => Calm
  BY <1>1 DEF Calm
<1>5. nodes[n] \in Description /\ nodes[n].name = th[t].name /\ th[t].name \in Names
  BY <1>1, <1>2, <1>3, ElementOfSeq, HeldNode DEF TypeOK, NodeIds
<1>6. /\ nodes'[n].name = nodes[n].name /\ nodes'[n].last_change = nodes[n].last_change
      /\ nodes'[n].freed = nodes[n].freed /\ nodes'[n].multicast = nodes[n].multicast
      /\ nodes'[n].list = IF th[t].list = Null THEN at ELSE nodes[n].list
  BY <1>2, <1>5 DEF Description
<1>7. Len(lists) \in Nat /\ \A m \in NodeIds : nodes[m].list \in 0 .. Len(lists)
  BY <1>1, LenProperties DEF TypeOK
<1>8. ASSUME Calm'
      PROVE  Apart /\ ParsingAt(t) /\ MainSound /\ (th[t].list # Null => nodes[n].list = th[t].list)
  <2>1. Apart /\ ParsingAt(t) /\ MainSound
    BY <1>4, <1>8 DEF IInv, CalmInv
  <2> QED
    BY <1>2, <2>1 DEF ParsingAt, Parses
<1>9. ASSUME Calm'
      PROVE  Elsewhere(t)
  <2> SUFFICES ASSUME NEW m \in NodeIds, m # n
               PROVE  SameNode(m)
    BY <1>3 DEF Elsewhere
  <2>1. nodes[m].list # Null => nodes[m].list \in 1 .. Len(lists) /\ nodes[m].list # at
    <3> SUFFICES ASSUME nodes[m].list # Null
                 PROVE  nodes[m].list \in 1 .. Len(lists) /\ nodes[m].list # at
      OBVIOUS
    <3>1. nodes[m].list \in 1 .. Len(lists)
      BY <1>7 DEF Null
    <3>2. CASE th[t].list = Null
      BY <1>2, <1>7, <3>1, <3>2
    <3>3. CASE th[t].list # Null
      <4>1. at = nodes[n].list
        BY <1>2, <1>8, <1>9, <3>3
      <4> QED
        BY <1>1, <1>2, <3>1, <4>1 DEF ListsApart
    <3> QED
      BY <3>1, <3>2, <3>3
  <2> QED
    BY <1>2, <2>1 DEF SameNode, Like
<1>10. ListsApart'
  <2>1. CASE th[t].list = Null
    <3>1. \A m \in NodeIds : nodes[m].list # at
      BY <1>2, <1>7, <2>1
    <3>2. \A k \in NodeIds : nodes'[k].list = IF k = n THEN at ELSE nodes[k].list
      BY <1>2, <1>6, <2>1
    <3>3. at # Null /\ NodeIds' = NodeIds
      BY <1>2
    <3> HIDE DEF at, n
    <3> QED
      BY <1>1, <3>1, <3>2, <3>3 DEF ListsApart
  <2>2. CASE th[t].list # Null
    BY <1>1, <1>2, <1>6, <2>2 DEF ListsApart
  <2> QED
    BY <2>1, <2>2
<1>11. NamedAt(t)'
  BY <1>2, <1>3, <1>6 DEF NamedAt, SameName, Inside, Holds
<1>12. KnownSince' /\ NoReplyYet' /\ DescribesTheFile'
  BY <1>1, <1>2, <1>4, InsideKeeps
<1>13. Calm' => \A u \in Threads : u # t /\ Holds(u) => th'[t].match # th[u].match
  BY <1>2, <1>3, <1>8 DEF Apart
<1>14. ~nodes'[th'[t].match].freed
  BY <1>2, <1>6
<1>15. ASSUME NEW m \in NodeIds', m \in NodeIds => n = m, Resting(m)'
       PROVE  Sound(m)'
  BY <1>2, <1>15 DEF Resting, Busy, Parses
<1>16. \A c : ParseMatches(t, c)' <=> ParseMatches(t, c)
  <2>1. Parsed(t) \in Seq(Streams) /\ todo \in Seq(Streams)
    BY <1>1, ParsedType DEF TypeOK, Thread
  <2>2. Parsed(t)' = Append(Parsed(t), Head(todo)) /\ Rest(t)' = Tail(todo) /\ Rest(t) = todo
    BY <1>2 DEF Parsed, Rest
  <2>3. Parsed(t)' \o Rest(t)' = Parsed(t) \o Rest(t)
    <3>1. todo # << >>
      BY <1>2
    <3>2. Append(Parsed(t), Head(todo)) \o Tail(todo) = Parsed(t) \o todo
      BY <2>1, <3>1, ConcatHead
    <3> QED
      BY <2>2, <3>2
  <2> QED
    BY <1>2, <1>6, <2>3 DEF ParseMatches
<1>17. ASSUME Calm'
       PROVE  ParsingAt(t)'
  <2>1. /\ nodes[n].last_change <= f.ctime
        /\ nodes[n].last_change = f.ctime /\ th[t].name \notin blurred => ParseMatches(t, f.content)
    BY <1>2, <1>8, <1>17 DEF ParsingAt, Parses
  <2>2. nodes'[n].list = at
    BY <1>2, <1>6, <1>8, <1>17
  <2>3. f' = f /\ th'[t].name = th[t].name
    BY <1>1, <1>2 DEF SameName
  <2>4. ParseMatches(t, f.content) => ParseMatches(t, f.content)'
    BY <1>16, <2>3
  <2> QED
    BY <1>1, <1>2, <1>6, <2>1, <2>2, <2>3, <2>4 DEF ParsingAt, Parses
<1>18. ASSUME Calm', t = "main"
       PROVE  MainSound'
  <2>1. ~doubt => \E c \in since' : ParseMatches(t, c)'
    BY <1>1, <1>2, <1>8, <1>16, <1>18 DEF MainSound, Parses
  <2> QED
    BY <1>1, <1>2, <1>18, <2>1 DEF MainSound, Parses
<1>19. \A m \in NodeIds : nodes'[m].name = nodes[m].name
  BY <1>2, <1>6
<1> QED
  BY <1>1, <1>2, <1>3, <1>4, <1>9, <1>10, <1>11, <1>12, <1>13, <1>14, <1>15, <1>17, <1>18, <1>19, StepKeeps

LEMMA InsertKeeps ==
  ASSUME IInv, NEW t \in Threads, Insert(t)
  PROVE  IInv'
<1> DEFINE n == Len(nodes) + 1
<1>1. /\ TypeOK /\ Named /\ ListsApart /\ Dated /\ ~Undefined
      /\ UNCHANGED <<file, lists, reply, since, mixed, blurred, doubt>> /\ (tangled => tangled')
  BY DEF IInv, Insert, At
<1>2. /\ TypeOK' /\ Others(t) /\ SameName(t) /\ th[t].pc = "insert" /\ th'[t].pc = "stat"
      /\ th'[t].err = th[t].err /\ th'[t].match = n
      /\ NodeIds' = NodeIds \cup {n} /\ n \notin NodeIds
      /\ nodes'[n] = New(th[t].name)
      /\ \A m \in NodeIds : Like(nodes'[m], nodes[m]) /\ nodes'[m].freed = nodes[m].freed
  BY <1>1, InsertEffect
<1>3. NamedAt(t) /\ ~Holds(t)
  BY <1>1, <1>2 DEF Named, Holds, Inside
<1>4. Calm' => Calm
  BY <1>1 DEF Calm
<1>5. nodes'[n].name = th[t].name /\ nodes'[n].last_change = 0 /\ nodes'[n].list = Null /\ ~nodes'[n].freed
  BY <1>2 DEF New
<1>6. th[t].name \in Names /\ n # Null
  <2>1. Len(nodes) \in Nat
    BY <1>1, LenProperties DEF TypeOK
  <2> QED
    BY <1>2, <1>3, <2>1 DEF NamedAt, Null
<1>7. Elsewhere(t) /\ \A m \in NodeIds : nodes'[m].name = nodes[m].name
  BY <1>1, <1>2 DEF Elsewhere, SameNode, Like
<1>8. ListsApart'
  BY <1>1, <1>2, <1>5 DEF ListsApart, Like
<1>9. NamedAt(t)'
  BY <1>2, <1>3, <1>5, <1>6 DEF NamedAt, SameName, Inside
<1>10. KnownSince' /\ NoReplyYet' /\ DescribesTheFile'
  BY <1>1, <1>2, <1>4, InsideKeeps
<1>11. \A u \in Threads : Holds(u) => th'[t].match # th[u].match
  BY <1>1, <1>2, HeldNode
<1>12. ~nodes'[th'[t].match].freed
  BY <1>2, <1>5
<1>13. ASSUME NEW m \in NodeIds', m \in NodeIds => Holds(t) /\ th[t].match = m
       PROVE  Sound(m)'
  <2>1. m = n
    BY <1>2, <1>3, <1>13
  <2>2. file[th[t].name].ctime \in Nat /\ file[th[t].name].ctime > 0
    BY <1>1, <1>6 DEF TypeOK, Dated
  <2> QED
    BY <1>1, <1>5, <2>1, <2>2 DEF Sound
<1>14. ParsingAt(t)' /\ (t = "main" => MainSound')
  BY <1>2 DEF ParsingAt, MainSound, Parses
<1> QED
  BY <1>1, <1>2, <1>3, <1>4, <1>7, <1>8, <1>9, <1>10, <1>11, <1>12, <1>13, <1>14, StepKeeps

LEMMA FailKeeps ==
  ASSUME IInv, NEW t \in Threads, Fail(t)
  PROVE  IInv'
<1> DEFINE n == th[t].match
<1>1. /\ TypeOK /\ Named /\ ListsApart /\ ~Undefined
      /\ UNCHANGED <<file, lists, reply, since, mixed, blurred, doubt>>
      /\ (tangled' <=> tangled \/ th[Other(t)].pc # "idle")
  BY DEF IInv, Fail, At
<1>2. /\ TypeOK' /\ Others(t) /\ SameName(t) /\ th[t].pc = "fail" /\ th'[t].pc = "answer"
      /\ th'[t].err /\ th'[t].match = n /\ n \in NodeIds /\ NodeIds' = NodeIds
      /\ nodes'[n].freed
      /\ \A m \in NodeIds : /\ Like(nodes'[m], nodes[m])
                            /\ m # n => nodes'[m].freed = nodes[m].freed
  BY <1>1, FailEffect
<1>3. NamedAt(t) /\ Holds(t) /\ Holds(t)'
  BY <1>1, <1>2 DEF Named, Holds, Inside
<1>4. Calm' => Calm
  BY <1>1 DEF Calm
<1>5. Elsewhere(t) /\ \A m \in NodeIds : nodes'[m].name = nodes[m].name
  BY <1>1, <1>2, <1>3 DEF Elsewhere, SameNode, Like
<1>6. ListsApart'
  BY <1>1, <1>2 DEF ListsApart, Like
<1>7. NamedAt(t)'
  BY <1>2, <1>3, <1>5 DEF NamedAt, SameName, Inside, Holds
<1>8. KnownSince' /\ NoReplyYet' /\ DescribesTheFile'
  BY <1>1, <1>2, <1>4, InsideKeeps
<1>9. ASSUME Calm', NEW u \in Threads, u # t
      PROVE  ~Holds(u)
  <2>1. u = Other(t)
    BY <1>9 DEF Other, Threads
  <2> QED
    BY <1>1, <1>9, <2>1 DEF Calm, Holds, Inside
<1>10. ASSUME NEW m \in NodeIds', m \in NodeIds => n = m, Resting(m)'
       PROVE  Sound(m)'
  BY <1>2, <1>10 DEF Resting
<1>11. ParsingAt(t)' /\ (t = "main" => MainSound')
  BY <1>2 DEF ParsingAt, MainSound, Parses
<1> QED
  BY <1>1, <1>2, <1>3, <1>4, <1>5, <1>6, <1>7, <1>8, <1>9, <1>10, <1>11, StepKeeps

LEMMA StartsKeeps ==
  ASSUME IInv, ~Undefined, NEW t \in Threads, Starts(t),
         t = "main" => /\ reply' = NoReply /\ since' = {file[th'["main"].name].content}
                       /\ doubt' <=> th'["main"].name \in blurred,
         t # "main" => reply' = reply /\ since' = since /\ doubt' = doubt
  PROVE  IInv'
<1>1. TypeOK /\ Named /\ ListsApart /\ KnownSince /\ NoReplyYet /\ DescribesTheFile
  BY DEF IInv
<1>2. /\ TypeOK' /\ Others(t) /\ UNCHANGED <<file, cache, failed, tangled, mixed, blurred>>
      /\ th[t].pc = "idle" /\ th'[t].pc \in {"walk", "insert"} /\ th'[t].match = Null /\ ~th'[t].err
      /\ th'[t].name \in Names
  BY DEF Starts
<1>3. ~Holds(t) /\ ~Holds(t)'
  BY <1>2 DEF Holds, Inside
<1>4. Calm' <=> Calm
  BY <1>2 DEF Calm
<1>5. NodeIds' = NodeIds /\ nodes' = nodes /\ Elsewhere(t) /\ ListsApart'
  BY <1>1, <1>2, CacheKept DEF cache
<1>6. NamedAt(t)'
  BY <1>2 DEF NamedAt, Inside
<1>7. KnownSince' /\ NoReplyYet' /\ DescribesTheFile'
  <2>1. CASE t = "main"
    <3>1. th'["main"] # Idle
      BY <1>2, <2>1, IdleThread
    <3> QED
      BY <1>2, <2>1, <3>1 DEF KnownSince, NoReplyYet, DescribesTheFile
  <2>2. CASE t # "main"
    <3>1. th'["main"] = th["main"]
      BY <1>2, <2>2 DEF Others, Threads
    <3> QED
      BY <1>1, <1>2, <2>2, <3>1 DEF KnownSince, NoReplyYet, DescribesTheFile
  <2> QED
    BY <2>1, <2>2
<1>8. ParsingAt(t)' /\ (t = "main" => MainSound')
  BY <1>2 DEF ParsingAt, MainSound, Parses
<1> QED
  BY <1>2, <1>3, <1>4, <1>5, <1>6, <1>7, <1>8, StepKeeps

LEMMA EndsKeeps ==
  ASSUME IInv, ~Undefined, NEW t \in Threads, Ends(t), DescribesTheFile',
         t # "main" => reply' = reply
  PROVE  IInv'
<1>1. TypeOK /\ Named /\ ListsApart /\ KnownSince /\ NoReplyYet
  BY DEF IInv
<1>2. /\ TypeOK' /\ Others(t) /\ UNCHANGED <<file, cache, since, tangled, mixed, blurred, doubt>>
      /\ th[t].pc = "answer"
      /\ \/ th'[t] = Idle
         \/ th'[t].pc \in {"walk", "insert"} /\ th'[t].match = Null /\ ~th'[t].err
            /\ th'[t].name = th[t].name /\ reply' = reply
  BY DEF Ends, hist
<1>3. NamedAt(t) /\ Holds(t)
  BY <1>1, <1>2 DEF Named, Holds, Inside
<1>4. ~Holds(t)' /\ th'[t].pc \in {"idle", "walk", "insert"}
  BY <1>2, IdleThread DEF Holds, Inside
<1>5. Calm' <=> Calm
  BY <1>2 DEF Calm
<1>6. /\ NodeIds' = NodeIds /\ nodes' = nodes /\ lists' = lists /\ Elsewhere(t) /\ ListsApart'
      /\ \A m \in NodeIds : SameNode(m)
  BY <1>1, <1>2, CacheKept DEF cache
<1>7. NamedAt(t)'
  BY <1>2, <1>3, IdleThread DEF NamedAt, Inside
<1>8. KnownSince' /\ NoReplyYet'
  <2>1. CASE t = "main"
    BY <1>1, <1>2, <2>1, IdleThread DEF KnownSince, NoReplyYet
  <2>2. CASE t # "main"
    <3>1. th'["main"] = th["main"]
      BY <1>2, <2>2 DEF Others, Threads
    <3> QED
      BY <1>1, <1>2, <2>2, <3>1 DEF KnownSince, NoReplyYet
  <2> QED
    BY <2>1, <2>2
<1>9. ASSUME Calm', NEW m \in NodeIds', m \in NodeIds => th[t].match = m, Resting(m)'
      PROVE  Sound(m)'
  <2>1. Resting(m)
    <3> SUFFICES ASSUME NEW u \in Threads, th[u].match = m
                 PROVE  th[u].pc \notin Busy
      BY <1>6, <1>9 DEF Resting
    <3>1. CASE u = t
      BY <1>2, <3>1 DEF Busy, Parses
    <3>2. CASE u # t
      BY <1>2, <1>9, <3>2 DEF Resting, Others
    <3> QED
      BY <3>1, <3>2
  <2>2. Sound(m)
    BY <1>5, <1>6, <1>9, <2>1 DEF IInv, CalmInv, RestSound
  <2> QED
    BY <1>2, <1>6, <1>9, <2>2, SameMatches
<1>10. ParsingAt(t)' /\ (t = "main" => MainSound')
  BY <1>4 DEF ParsingAt, MainSound, Parses
<1> QED
  BY <1>2, <1>3, <1>4, <1>5, <1>6, <1>7, <1>8, <1>9, <1>10, StepKeeps

LEMMA AnswersKeep ==
  ASSUME IInv, SetupAnswer \/ DescribeAgain \/ AdaptAnswer \/ DescribeAnswer
  PROVE  IInv'
<1>1. TypeOK /\ Named /\ NoReplyYet /\ DescribesTheFile /\ ~Undefined
  BY DEF IInv, SetupAnswer, DescribeAgain, AdaptAnswer, DescribeAnswer, Answered, At
<1>2. CASE SetupAnswer \/ DescribeAgain
  <2>1. Ends("main") /\ reply' = reply
    BY <1>1, <1>2, SetupAnswerEffect, DescribeAgainEffect
  <2>2. DescribesTheFile'
    <3>1. reply = NoReply
      BY <1>1, <2>1 DEF Ends, NoReplyYet
    <3> QED
      BY <2>1, <3>1 DEF DescribesTheFile
  <2> QED
    BY <1>1, <2>1, <2>2, EndsKeeps DEF Threads
<1>3. CASE AdaptAnswer
  <2>1. Ends("scheduler") /\ reply' = reply
    BY <1>1, <1>3, AdaptAnswerEffect
  <2>2. DescribesTheFile'
    <3>1. th'["main"] = th["main"] /\ UNCHANGED hist
      BY <2>1 DEF Ends, Others, Threads
    <3> QED
      BY <1>1, <2>1, <3>1 DEF DescribesTheFile, hist
  <2> QED
    BY <1>1, <2>1, <2>2, EndsKeeps DEF Threads
<1>4. CASE DescribeAnswer
  <2> DEFINE n == th["main"].match
  <2>1. /\ Ends("main") /\ th'["main"] = Idle
        /\ \/ reply' = NoReply
           \/ ~th["main"].err /\ n \in NodeIds /\ ~nodes[n].freed /\ reply' = Described(n)
    BY <1>1, <1>4, DescribeAnswerEffect
  <2>2. DescribesTheFile'
    <3>1. CASE reply' = NoReply
      BY <3>1 DEF DescribesTheFile
    <3>2. CASE ~th["main"].err /\ reply' = Described(n)
      <4>1. UNCHANGED hist /\ th["main"].pc = "answer"
        BY <2>1 DEF Ends
      <4>2. ASSUME ~(mixed' \/ tangled' \/ doubt')
            PROVE  \E c \in since : NodeMatches(n, c)
        <5>1. Calm /\ ~doubt
          BY <4>1, <4>2 DEF Calm, hist
        <5> QED
          BY <3>2, <4>1, <5>1 DEF IInv, CalmInv, MainSound
      <4>3. reply'.streams = ListOf(n) /\ reply'.multicast = nodes[n].multicast
        BY <3>2 DEF Described
      <4>4. ASSUME ~(mixed' \/ tangled' \/ doubt')
            PROVE  \E c \in since' : c # Missing /\ (c.streams = << >> \/
                     (c.streams = reply'.streams /\ (c.multicast => reply'.multicast)))
        BY <4>1, <4>2, <4>3, <4>4 DEF NodeMatches, hist
      <4> QED
        BY <4>4 DEF DescribesTheFile
    <3> QED
      BY <2>1, <3>1, <3>2
  <2> QED
    BY <1>1, <2>1, <2>2, EndsKeeps DEF Threads
<1> QED
  BY <1>2, <1>3, <1>4

LEMMA RequestsKeep ==
  ASSUME IInv,
         \/ \E s \in Sessions, n \in Names, f \in Files : Setup(s, n, f)
         \/ \E n \in Names : Describe(n)
         \/ \E s \in Sessions : Adapt(s)
  PROVE  IInv'
<1>1. TypeOK
  BY DEF IInv
<1>2. CASE \E s \in Sessions, n \in Names, f \in Files : Setup(s, n, f)
  <2>1. /\ ~Undefined /\ Starts("main") /\ reply' = NoReply /\ since' = {file[th'["main"].name].content}
        /\ doubt' <=> th'["main"].name \in blurred
    BY <1>1, <1>2, SetupEffect DEF Setup, Request, At
  <2> QED
    BY <2>1, StartsKeeps DEF Threads
<1>3. CASE \E n \in Names : Describe(n)
  <2>1. /\ ~Undefined /\ Starts("main") /\ reply' = NoReply /\ since' = {file[th'["main"].name].content}
        /\ doubt' <=> th'["main"].name \in blurred
    BY <1>1, <1>3, DescribeEffect DEF Describe, Request, At
  <2> QED
    BY <2>1, StartsKeeps DEF Threads
<1>4. CASE \E s \in Sessions : Adapt(s)
  <2>1. ~Undefined /\ Starts("scheduler") /\ reply' = reply /\ since' = since /\ doubt' = doubt
    BY <1>1, <1>4, AdaptEffect DEF Adapt, At
  <2> QED
    BY <2>1, StartsKeeps DEF Threads
<1> QED
  BY <1>2, <1>3, <1>4

(* A thread that goes on with other streams stays where it is. *)
LEMMA RewritesLeaves ==
  ASSUME TypeOK, NEW n \in Names, Rewrites(n), NEW t \in Threads
  PROVE  /\ th'[t].pc = th[t].pc /\ th'[t].name = th[t].name /\ th'[t].match = th[t].match
         /\ th'[t].curr = th[t].curr /\ th'[t].last = th[t].last /\ th'[t].err = th[t].err
         /\ th'[t].ctime = th[t].ctime /\ th'[t].list = th[t].list
         /\ th[t].pc = "validate" /\ th[t].todo # << >> => th'[t].todo # << >>
         /\ th'[t] # th[t] => th[t].name = n /\ th[t].pc \in Parses
<1>1. th[t] \in Thread
  BY DEF TypeOK
<1>2. CASE th'[t] = th[t]
  BY <1>2
<1>3. CASE Rereads(n, t)
  <2>1. PICK todo \in Seq(Streams) :
          /\ th'[t] = [th[t] EXCEPT !.todo = todo]
          /\ th[t].name = n /\ th[t].pc \in {"block", "validate"}
          /\ th[t].pc = "validate" => todo # << >>
    BY <1>3 DEF Rereads
  <2> QED
    BY <1>1, <2>1 DEF Thread, Parses
<1> QED
  BY <1>2, <1>3 DEF Rewrites

(* A description that has the time of a file that was changed within that    *)
(* second, and that no thread is about to fill, is known to blur.            *)
LEMMA ToldBlurs ==
  ASSUME TypeOK, NEW n \in Names, FileChanges(n), NEW k \in NodeIds, nodes[k].name = n, ~nodes[k].freed,
         \A t \in Threads : th[t].match = k => th[t].pc # "open",
         nodes[k].last_change <= file[n].ctime, nodes[k].last_change = file'[n].ctime
  PROVE  n \in blurred'
<1>1. nodes[k] \in Description /\ file[n].ctime \in Nat
  BY ElementOfSeq DEF TypeOK, NodeIds
<1>2. nodes[k].last_change \in Nat
  BY <1>1 DEF Description
<1>3. file'[n].ctime = file[n].ctime
  BY <1>1, <1>2 DEF FileChanges
<1>4. DOMAIN nodes = NodeIds
  BY DEF TypeOK, NodeIds
<1>5. Told(n)
  BY <1>3, <1>4 DEF Told
<1> QED
  BY <1>1, <1>3, <1>5 DEF FileChanges

LEMMA ChangeKeeps ==
  ASSUME IInv, TypeOK', NEW n \in Names, FileChanges(n), Rewrites(n)
  PROVE  IInv'
<1>1. TypeOK /\ Named /\ Dated /\ ListsApart /\ KnownSince /\ NoReplyYet /\ CalmInv /\ DescribesTheFile
  BY DEF IInv
<1>2. /\ UNCHANGED <<cache, reply, failed, tangled, mixed>> /\ (doubt => doubt')
      /\ th'["main"] # th["main"] => doubt'
      /\ n = th["main"].name /\ n \in blurred' => doubt'
      /\ since \subseteq since' /\ (n = th["main"].name => file'[n].content \in since')
      /\ \A m \in Names \ {n} : file'[m] = file[m] /\ (m \in blurred' <=> m \in blurred)
  BY DEF FileChanges, Rewrites
<1>3. \A t \in Threads :
        /\ th'[t].pc = th[t].pc /\ th'[t].name = th[t].name /\ th'[t].match = th[t].match
        /\ th'[t].curr = th[t].curr /\ th'[t].last = th[t].last /\ th'[t].err = th[t].err
        /\ th'[t].ctime = th[t].ctime /\ th'[t].list = th[t].list
        /\ th[t].pc = "validate" /\ th[t].todo # << >> => th'[t].todo # << >>
        /\ th'[t] # th[t] => th[t].name = n /\ th[t].pc \in Parses
  BY <1>1, RewritesLeaves
<1>4. \A m \in Names : file[m].ctime \in Nat /\ file'[m].ctime \in Nat /\ file'[m].ctime >= file[m].ctime
  <2>1. \A m \in Names : file[m].ctime \in Nat /\ file'[m].ctime \in Nat
    BY <1>1 DEF TypeOK
  <2>2. file'[n].ctime = file[n].ctime \/ file'[n].ctime = file[n].ctime + 1
    BY DEF FileChanges
  <2>3. \A m \in Names : m # n => file'[m] = file[m]
    BY <1>2
  <2>4. file'[n].ctime >= file[n].ctime
    BY <2>1, <2>2
  <2>5. ASSUME NEW m \in Names, m # n
        PROVE  file'[m].ctime >= file[m].ctime
    BY <2>1, <2>3, <2>5
  <2> QED
    BY <2>1, <2>4, <2>5
<1>5. UNCHANGED <<nodes, lists, head>> /\ NodeIds' = NodeIds
  BY <1>2 DEF cache, NodeIds
<1>6. Named' /\ ListsApart' /\ Dated'
  <2>1. Named'
    BY <1>1, <1>3, <1>5 DEF Named, NamedAt
  <2>2. ListsApart'
    BY <1>1, <1>5 DEF ListsApart
  <2>3. Dated'
    BY <1>1, <1>4 DEF Dated
  <2> QED
    BY <2>1, <2>2, <2>3
<1>7. KnownSince' /\ NoReplyYet' /\ DescribesTheFile'
  <2>1. th'["main"].pc = th["main"].pc /\ th'["main"].name = th["main"].name
    BY <1>3 DEF Threads
  <2>2. KnownSince'
    <3> SUFFICES ASSUME th["main"].pc # "idle"
                 PROVE  /\ file'[th["main"].name].content \in since'
                        /\ th["main"].name \in blurred' => doubt'
      BY <2>1 DEF KnownSince
    <3>1. th["main"].name \in Names
      BY <1>1 DEF Named, NamedAt, Threads
    <3>2. CASE th["main"].name = n
      BY <1>2, <3>2
    <3>3. CASE th["main"].name # n
      BY <1>1, <1>2, <3>1, <3>3 DEF KnownSince
    <3> QED
      BY <3>2, <3>3
  <2>3. NoReplyYet'
    BY <1>1, <1>2, <2>1 DEF NoReplyYet
  <2>4. DescribesTheFile'
    <3>1. CASE th'["main"] = th["main"]
      BY <1>1, <1>2, <3>1 DEF DescribesTheFile
    <3>2. CASE th'["main"] # th["main"]
      BY <1>2, <3>2 DEF DescribesTheFile
    <3> QED
      BY <3>1, <3>2
  <2> QED
    BY <2>2, <2>3, <2>4
<1>8. \A k \in NodeIds : \A d : NodeMatches(k, d)' <=> NodeMatches(k, d)
  BY <1>5 DEF NodeMatches, ListOf
<1>9. \A t \in Threads : th'[t] = th[t] => \A d : ParseMatches(t, d)' <=> ParseMatches(t, d)
  BY <1>5 DEF ParseMatches, Parsed, Rest
<1>10. CalmInv'
  <2> SUFFICES ASSUME Calm
               PROVE  Apart' /\ RestSound' /\ (\A t \in Threads : ParsingAt(t)') /\ MainSound'
    BY <1>2 DEF CalmInv, Calm
  <2>1. Apart /\ RestSound /\ (\A t \in Threads : ParsingAt(t)) /\ MainSound
    BY <1>1 DEF CalmInv
  <2>2. Apart'
    BY <1>3, <1>5, <2>1 DEF Apart, Holds
  <2>3. RestSound'
    <3> SUFFICES ASSUME NEW k \in NodeIds, Resting(k)
                 PROVE  Sound(k)'
      BY <1>3, <1>5 DEF RestSound, Resting
    <3>1. Sound(k) /\ nodes[k] \in Description
      BY <1>1, <2>1, ElementOfSeq DEF RestSound, TypeOK, NodeIds
    <3>2. nodes[k].name \in Names /\ nodes[k].last_change \in Nat
      BY <3>1 DEF Description
    <3>3. CASE nodes[k].name = n
      <4>1. nodes[k].last_change <= file[n].ctime
        BY <3>1, <3>3 DEF Sound
      <4>2. ~nodes[k].freed /\ \A t \in Threads : th[t].match = k => th[t].pc # "open"
        BY DEF Resting, Busy
      <4>3. nodes[k].last_change = file'[n].ctime => n \in blurred'
        BY <1>1, <3>3, <4>1, <4>2, ToldBlurs
      <4> QED
        BY <1>4, <1>5, <3>2, <3>3, <4>1, <4>3 DEF Sound
    <3>4. CASE nodes[k].name # n
      BY <1>2, <1>5, <1>8, <3>1, <3>2, <3>4 DEF Sound
    <3> QED
      BY <3>3, <3>4
  <2>4. ASSUME NEW t \in Threads
        PROVE  ParsingAt(t)'
    <3> DEFINE l == th[t]
               f == file[l.name]
    <3>1. /\ ParsingAt(t) /\ NamedAt(t)
          /\ th'[t].pc = l.pc /\ th'[t].name = l.name /\ th'[t].match = l.match
          /\ th'[t].ctime = l.ctime /\ th'[t].list = l.list
      BY <1>1, <1>3, <2>1 DEF Named
    <3>2. CASE l.pc \notin {"compare", "open", "block", "validate"}
      BY <3>1, <3>2 DEF ParsingAt, Parses
    <3>3. CASE l.pc \in {"compare", "open", "block", "validate"}
      <4>1. Holds(t)
        BY <3>3 DEF Holds, Inside
      <4>2. l.match \in NodeIds /\ l.name \in Names /\ nodes[l.match].name = l.name
        BY <1>1, <4>1, HeldNode
      <4>3. nodes[l.match].last_change \in Nat /\ l.ctime \in Nat
        <5>1. nodes[l.match] \in Description /\ l \in Thread
          BY <1>1, <4>2, ElementOfSeq DEF TypeOK, NodeIds
        <5> QED
          BY <5>1 DEF Description, Thread
      <4>4. CASE l.name = n
        <5>1. /\ l.pc = "compare" => l.ctime <= file'[n].ctime
              /\ l.pc \in Parses \cup {"open"} => nodes[l.match].last_change <= file'[n].ctime
          BY <1>4, <3>1, <4>2, <4>3, <4>4 DEF ParsingAt
        <5>2. ASSUME l.pc \in Parses, nodes[l.match].last_change = file'[n].ctime
              PROVE  n \in blurred'
          <6>1. ~nodes[l.match].freed
            BY <2>1, <3>1, <4>1, <5>2 DEF Apart, NamedAt, Parses
          <6>2. \A u \in Threads : th[u].match = l.match => th[u].pc # "open"
            BY <2>1, <4>1, <5>2 DEF Apart, Holds, Inside, Parses
          <6>3. nodes[l.match].last_change <= file[n].ctime
            BY <3>1, <4>4, <5>2 DEF ParsingAt
          <6> QED
            BY <1>1, <4>2, <4>4, <5>2, <6>1, <6>2, <6>3, ToldBlurs
        <5>3. l.pc \in Parses => (l.list # Null => nodes[l.match].list = l.list)
          BY <3>1 DEF ParsingAt
        <5> QED
          BY <1>5, <3>1, <4>4, <5>1, <5>2, <5>3 DEF ParsingAt
      <4>5. CASE l.name # n
        <5>1. file'[l.name] = f /\ (l.name \in blurred' <=> l.name \in blurred) /\ th'[t] = l
          BY <1>2, <1>3, <4>2, <4>5
        <5>2. \A d : ParseMatches(t, d)' <=> ParseMatches(t, d)
          BY <1>9, <5>1
        <5> QED
          BY <1>5, <3>1, <5>1, <5>2 DEF ParsingAt
      <4> QED
        BY <4>4, <4>5
    <3> QED
      BY <3>2, <3>3
  <2>5. MainSound'
    <3> DEFINE m == th["main"]
    <3> SUFFICES ASSUME ~doubt'
                 PROVE  MainSound'
      BY DEF MainSound
    <3>1. th'["main"] = m /\ "main" \in Threads /\ ~doubt
      BY <1>2 DEF Threads
    <3>2. m.pc \in {"compare", "answer"} => m.match \in NodeIds
      BY <1>1, <3>1, HeldNode DEF Holds, Inside
    <3>3. ASSUME NEW d, m.match \in NodeIds, NodeMatches(m.match, d)
          PROVE  NodeMatches(m.match, d)'
      BY <1>5, <3>1, <3>3 DEF NodeMatches, ListOf
    <3>4. /\ m.pc = "compare" /\ nodes[m.match].last_change = m.ctime => \E d \in since : NodeMatches(m.match, d)
          /\ m.pc \in Parses => \E d \in since : ParseMatches("main", d)
          /\ m.pc = "answer" /\ ~m.err => \E d \in since : NodeMatches(m.match, d)
      BY <2>1, <3>1 DEF MainSound
    <3>5. /\ m.pc = "compare" /\ nodes[m.match].last_change = m.ctime => \E d \in since' : NodeMatches(m.match, d)'
          /\ m.pc \in Parses => \E d \in since' : ParseMatches("main", d)'
          /\ m.pc = "answer" /\ ~m.err => \E d \in since' : NodeMatches(m.match, d)'
      BY <1>2, <1>9, <3>1, <3>2, <3>3, <3>4
    <3> QED
      BY <1>5, <3>1, <3>5 DEF MainSound
  <2> QED
    BY <2>2, <2>3, <2>4, <2>5
<1> QED
  BY <1>6, <1>7, <1>10 DEF IInv

LEMMA StandsStill ==
  ASSUME IInv, TypeOK', UNCHANGED <<file, cache, th, reply, hist>>
  PROVE  IInv'
<1>1. UNCHANGED <<file, head, nodes, lists, th, reply, since, failed, tangled, mixed, blurred, doubt>>
  BY DEF cache, hist
<1>2. Named' /\ Dated' /\ ListsApart' /\ KnownSince' /\ NoReplyYet' /\ DescribesTheFile'
  BY <1>1 DEF IInv, Named, NamedAt, Dated, ListsApart, KnownSince, NoReplyYet, DescribesTheFile, NodeIds
<1>3. CalmInv'
  <2>1. /\ \A k, c : NodeMatches(k, c)' <=> NodeMatches(k, c)
        /\ \A t, c : ParseMatches(t, c)' <=> ParseMatches(t, c)
    BY <1>1 DEF NodeMatches, ListOf, ParseMatches, Parsed, Rest
  <2>2. Apart' <=> Apart
    BY <1>1 DEF Apart, Holds
  <2>3. RestSound' <=> RestSound
    BY <1>1, <2>1 DEF RestSound, Resting, Sound, NodeIds
  <2>4. (\A t \in Threads : ParsingAt(t)') <=> (\A t \in Threads : ParsingAt(t))
    BY <1>1, <2>1 DEF ParsingAt
  <2>5. MainSound' <=> MainSound
    BY <1>1, <2>1 DEF MainSound, NodeMatches, ListOf
  <2> QED
    BY <1>1, <2>2, <2>3, <2>4, <2>5 DEF IInv, CalmInv, Calm
<1> QED
  BY <1>2, <1>3 DEF IInv

-----------------------------------------------------------------------------
LEMMA InitIsSound == Init => IInv
<1> SUFFICES ASSUME Init
             PROVE  IInv
  OBVIOUS
<1>1. /\ file \in [Names -> [ctime : {1}, content : Contents]]
      /\ head = Null /\ nodes = << >> /\ lists = << >> /\ th = [t \in Threads |-> Idle]
      /\ session = [s \in Sessions |-> NoName] /\ reply = NoReply /\ lookups = 0 /\ edits = 0
      /\ since = {} /\ failed = {} /\ tangled = FALSE /\ mixed = FALSE /\ blurred = {} /\ doubt = FALSE
  BY DEF Init
<1>2. Len(nodes) = 0 /\ Len(lists) = 0 /\ NodeIds = {}
  BY <1>1, EmptySeq DEF NodeIds
<1>3. TypeOK
  <2>1. TypeCache
    BY <1>1, <1>2, EmptySeq DEF TypeCache, Null
  <2>2. TypeThreads
    BY <1>1, <1>2, IdleThread DEF TypeThreads, Null
  <2>3. TypeRest
    <3>1. file \in [Names -> [ctime : Nat, content : Contents \cup {Missing}]]
      <4>1. \A n \in Names : file[n] \in [ctime : {1}, content : Contents]
        BY <1>1
      <4>2. [ctime : {1}, content : Contents] \subseteq [ctime : Nat, content : Contents \cup {Missing}]
        <5> DEFINE C == Contents \cup {Missing}
        <5>1. {1} \subseteq Nat /\ Contents \subseteq C
          OBVIOUS
        <5> HIDE DEF C
        <5>2. [ctime : {1}, content : Contents] \subseteq [ctime : Nat, content : C]
          BY <5>1
        <5> QED
          BY <5>2 DEF C
      <4> QED
        BY <1>1, <4>1, <4>2
    <3>2. reply \in [streams : Seq(Streams), multicast : BOOLEAN]
      BY <1>1, EmptySeq DEF NoReply
    <3> QED
      BY <1>1, <3>1, <3>2 DEF TypeRest
  <2> QED
    BY <2>1, <2>2, <2>3, TypeParts
<1>4. \A t \in Threads : th[t] = Idle
  BY <1>1
<1>5. Named /\ Dated /\ ListsApart
  BY <1>1, <1>2, <1>4, IdleThread DEF Named, NamedAt, Dated, ListsApart, Inside
<1>6. KnownSince /\ NoReplyYet /\ DescribesTheFile
  BY <1>1, <1>4, IdleThread DEF KnownSince, NoReplyYet, DescribesTheFile, Threads
<1>7. CalmInv
  BY <1>2, <1>4, IdleThread DEF CalmInv, Apart, Holds, Inside, RestSound, ParsingAt, Parses, MainSound, Threads
<1> QED
  BY <1>3, <1>5, <1>6, <1>7 DEF IInv

LEMMA NextKeeps == IInv /\ [Next]_vars => IInv'
<1> SUFFICES ASSUME IInv, [Next]_vars
             PROVE  IInv'
  OBVIOUS
<1>1. TypeOK
  BY DEF IInv
<1>2. CASE \E n \in Names : Replace(n) \/ Overwrite(n)
  BY <1>1, <1>2, ReplaceEffect, OverwriteEffect, ChangeKeeps
<1>3. CASE \/ \E s \in Sessions, n \in Names, f \in Files : Setup(s, n, f)
           \/ \E n \in Names : Describe(n)
           \/ \E s \in Sessions : Adapt(s)
  BY <1>3, RequestsKeep
<1>4. CASE \E s \in Sessions : Teardown(s)
  BY <1>1, <1>4, TeardownEffect, StandsStill
<1>5. CASE \E t \in Threads : enum_media(t) \/ FollowsFreed(t)
  BY <1>5, WalkKeeps, InsertKeeps, FailKeeps, StatKeeps, CompareKeeps, OpenKeeps, BlockKeeps,
     EndOfFileKeeps, ValidateKeeps, FollowsFreedKeeps DEF enum_media
<1>6. CASE SetupAnswer \/ DescribeAgain \/ DescribeAnswer \/ AdaptAnswer
  BY <1>6, AnswersKeep
<1>7. CASE UNCHANGED vars
  <2>1. TypeOK'
    BY <1>1, <1>7 DEF TypeOK, vars, cache, hist, NodeIds
  <2> QED
    BY <1>7, <2>1, StandsStill DEF vars
<1> QED
  BY <1>2, <1>3, <1>4, <1>5, <1>6, <1>7 DEF Next

(* The pointers of the cache and of both threads are null or lead to something *)
(* that was made (enum_media.c:14-45, parse_SD_file.c:57-68).                 *)
THEOREM TypeCorrect == Spec => []TypeOK
<1>1. IInv => TypeOK
  BY DEF IInv
<1> QED
  BY <1>1, InitIsSound, NextKeeps, PTL DEF Spec

(* For any files and any changes to them, an answer to DESCRIBE holds all       *)
(* streams of the file as it was at some time since the request, as long as the *)
(* threads do not come to one description (get_media_descr.c:31-47,             *)
(* get_SDP_descr.c:22-24, parse_SD_file.c:29-32), unless the file was changed   *)
(* within a second that a description has for its last_change, and not since,   *)
(* or was written while the main thread read it (parse_SD_file.c:29, 45, 71).   *)
THEOREM AnswersAreSound == Spec => []DescribesTheFile
<1>1. IInv => DescribesTheFile
  BY DEF IInv
<1> QED
  BY <1>1, InitIsSound, NextKeeps, PTL DEF Spec

-----------------------------------------------------------------------------
(* Induction: a property that fails for a number fails for a least one. *)
LEMMA LeastNat ==
  ASSUME NEW T, T \subseteq Nat, T # {}
  PROVE  \E x \in T : \A y \in T : x <= y
<1>1. PICK x \in T : \A y \in T : ~(<<y, x>> \in OpToRel(<, Nat))
  BY NatLessThanWellFounded, WFMin
<1>2. \A y \in T : ~(y < x)
  BY <1>1 DEF OpToRel
<1> QED
  BY <1>2

(* Iterating a function is well defined. *)
LEMMA Iterate ==
  ASSUME NEW S, NEW h \in S, NEW N \in [S -> S]
  PROVE  \E f \in [Nat -> S] : f[0] = h /\ \A n \in Nat : f[n + 1] = N[f[n]]
<1> DEFINE Upto(n, g) == g \in [0 .. n -> S] /\ g[0] = h /\ \A i \in 0 .. n - 1 : g[i + 1] = N[g[i]]
           Bad == {n \in Nat : ~ \E g : Upto(n, g)}
<1>1. Upto(0, [i \in 0 .. 0 |-> h])
  OBVIOUS
<1>2. ASSUME NEW n \in Nat, NEW g, Upto(n, g)
      PROVE  Upto(n + 1, [i \in 0 .. n + 1 |-> IF i = n + 1 THEN N[g[n]] ELSE g[i]])
  BY <1>2
<1>3. Bad = {}
  <2> SUFFICES ASSUME Bad # {} PROVE FALSE
    OBVIOUS
  <2>1. PICK m \in Bad : \A k \in Bad : m <= k
    BY LeastNat
  <2>2. m # 0
    BY <1>1
  <2>3. m - 1 \in Nat /\ m - 1 \notin Bad
    BY <2>1, <2>2
  <2>4. PICK g : Upto(m - 1, g)
    BY <2>3
  <2> HIDE DEF Upto
  <2>5. \E gg : Upto(m - 1 + 1, gg)
    BY <1>2, <2>3, <2>4
  <2> QED
    BY <2>5, <2>3
<1>4. ASSUME NEW m \in Nat, NEW n \in Nat, NEW f, NEW g, Upto(m, f), Upto(n, g), m <= n
      PROVE  f[m] = g[m]
  <2> DEFINE D == {i \in 0 .. m : f[i] # g[i]}
  <2> SUFFICES ASSUME D # {} PROVE FALSE
    OBVIOUS
  <2>1. PICK k \in D : \A l \in D : k <= l
    <3>1. D \subseteq Nat
      OBVIOUS
    <3> HIDE DEF D
    <3> QED
      BY <3>1, LeastNat
  <2>2. k # 0
    BY <1>4
  <2>3. f[k - 1] = g[k - 1] /\ k - 1 \in 0 .. m - 1 /\ k - 1 \in 0 .. n - 1
    BY <2>1, <2>2, <1>4
  <2>4. f[k - 1 + 1] = g[k - 1 + 1]
    BY <2>3, <1>4
  <2> QED
    BY <2>4, <2>1
<1> DEFINE G(n) == CHOOSE g : Upto(n, g)
           f == [n \in Nat |-> G(n)[n]]
<1>5. \A n \in Nat : Upto(n, G(n))
  BY <1>3
<1>6. f \in [Nat -> S] /\ f[0] = h
  <2> HIDE DEF G
  <2>1. \A n \in Nat : G(n)[n] \in S
    BY <1>5
  <2>2. G(0)[0] = h
    BY <1>5
  <2> QED
    BY <2>1, <2>2
<1>7. ASSUME NEW n \in Nat PROVE f[n + 1] = N[f[n]]
  <2> HIDE DEF G
  <2>1. G(n + 1)[n + 1] = N[G(n + 1)[n]]
    BY <1>5
  <2>2. G(n)[n] = G(n + 1)[n]
    <3> HIDE DEF Upto
    <3> QED
      BY <1>4, <1>5
  <2> QED
    BY <2>1, <2>2
<1> QED
  BY <1>6, <1>7

(* Induction, for a set of numbers. *)
LEMMA NatsAll ==
  ASSUME NEW T, 0 \in T, \A n \in Nat : n \in T => n + 1 \in T
  PROVE  Nat \subseteq T
<1> DEFINE D == Nat \ T
<1> SUFFICES ASSUME D # {} PROVE FALSE
  OBVIOUS
<1>1. PICK m \in D : \A k \in D : m <= k
  BY LeastNat
<1>2. m # 0 /\ m - 1 \in Nat /\ m - 1 + 1 = m
  BY <1>1
<1>3. m - 1 \in T
  BY <1>1, <1>2
<1> QED
  BY <1>2, <1>3

-----------------------------------------------------------------------------
(* The list while no thread changes it under the other: its descriptions,    *)
(* what a thread knows of it as it walks, and the sessions' presentations.   *)

\* The descriptions in use.
Live == {n \in NodeIds : ~nodes[n].freed}

\* The list holds them in the order in which they were made.
ListSorted ==
  /\ IF head = Null THEN Live = {} ELSE head \in Live /\ \A k \in Live : head <= k
  /\ \A n \in Live :
       IF nodes[n].next = Null THEN \A k \in Live : k <= n
       ELSE /\ nodes[n].next \in Live /\ n < nodes[n].next
            /\ \A k \in Live : n < k => nodes[n].next <= k
NamesOnce == \A m, n \in Live : nodes[m].name = nodes[n].name => m = n

\* A thread's last is the predecessor of n.
Behind(t, n) ==
  IF th[t].last = Null THEN head = n ELSE th[t].last \in Live /\ nodes[th[t].last].next = n

\* What a thread has passed by has another name; what it has found stays in use.
Searching(t) ==
  LET l == th[t]
  IN /\ l.pc = "walk" => /\ l.curr \in Live /\ Behind(t, l.curr)
                         /\ \A n \in Live : n < l.curr => nodes[n].name # l.name
     /\ l.pc = "insert" => Behind(t, Null) /\ \A n \in Live : nodes[n].name # l.name
     /\ l.pc \in Inside \ {"answer"} => l.match \in Live /\ Behind(t, l.match)
     /\ l.pc = "answer" /\ ~l.err => l.match \in Live

\* The presentations of the sessions are in use or have left with an error.
SessionsLive ==
  \A s \in Sessions : session[s] # NoName =>
    session[s] \in failed \/ \E n \in Live : nodes[n].name = session[s]

ListInv ==
  ~tangled => ListSorted /\ NamesOnce /\ (\A t \in Threads : Searching(t)) /\ SessionsLive

(* Place follows the next pointers from the head. *)
LEMMA PlaceSteps ==
  ASSUME TypeOK
  PROVE  /\ Place[1] = head
         /\ \A i \in Nat \ {0} : Place[i + 1] = IF Place[i] = Null THEN Null ELSE nodes[Place[i]].next
<1> DEFINE S == 0 .. Len(nodes)
           N == [c \in S |-> IF c = Null THEN Null ELSE nodes[c].next]
           Def(g) == g = [i \in Nat |-> IF i <= 1 THEN head
                                        ELSE IF g[i - 1] = Null THEN Null ELSE nodes[g[i - 1]].next]
<1>1. head \in S /\ N \in [S -> S]
  <2>1. Len(nodes) \in Nat /\ head \in S /\ Null \in S
    BY LenProperties DEF TypeOK, Null
  <2>2. \A c \in S : c # Null => nodes[c].next \in S
    BY <2>1 DEF TypeOK, NodeIds, Null
  <2> QED
    BY <2>1, <2>2
<1>2. PICK t \in [Nat -> S] : t[0] = head /\ \A i \in Nat : t[i + 1] = N[t[i]]
  <2>1. PICK h \in S, M \in [S -> S] : h = head /\ M = N
    BY <1>1
  <2>2. \E t \in [Nat -> S] : t[0] = h /\ \A n \in Nat : t[n + 1] = M[t[n]]
    <3> HIDE DEF S, N
    <3> QED
      BY ONLY Iterate, h \in S, M \in [S -> S]
  <2> HIDE DEF S, N
  <2> QED
    BY <2>1, <2>2
<1>3. \A i \in Nat : t[i + 1] = IF t[i] = Null THEN Null ELSE nodes[t[i]].next
  <2> SUFFICES ASSUME NEW i \in Nat PROVE t[i + 1] = IF t[i] = Null THEN Null ELSE nodes[t[i]].next
    OBVIOUS
  <2>1. t[i] \in S /\ t[i + 1] = N[t[i]]
    BY <1>2
  <2> QED
    BY <2>1
<1> DEFINE g == [i \in Nat |-> IF i <= 1 THEN head ELSE t[i - 1]]
<1>4. Def(g)
  <2> SUFFICES ASSUME NEW i \in Nat, ~(i <= 1)
               PROVE  t[i - 1] = IF g[i - 1] = Null THEN Null ELSE nodes[g[i - 1]].next
    OBVIOUS
  <2>1. i - 1 \in Nat /\ i - 2 \in Nat /\ i - 2 + 1 = i - 1
    OBVIOUS
  <2>2. g[i - 1] = t[i - 2]
    BY <1>2, <2>1
  <2>3. t[i - 1] = IF t[i - 2] = Null THEN Null ELSE nodes[t[i - 2]].next
    BY <1>3, <2>1
  <2> QED
    BY <2>2, <2>3
<1>5. Place = CHOOSE f : Def(f)
  BY DEF Place
<1>6. Def(Place)
  <2> HIDE DEF Def
  <2> QED
    BY <1>4, <1>5
<1> DEFINE P == Place
<1> HIDE DEF P
<1>7. P = [i \in Nat |-> IF i <= 1 THEN head ELSE IF P[i - 1] = Null THEN Null ELSE nodes[P[i - 1]].next]
  BY <1>6 DEF P
<1>8. ASSUME NEW i \in Nat \ {0}
      PROVE  P[i + 1] = IF P[i] = Null THEN Null ELSE nodes[P[i]].next
  <2>1. i + 1 \in Nat /\ ~(i + 1 <= 1) /\ i + 1 - 1 = i
    OBVIOUS
  <2>2. PICK Q : Q = P
    OBVIOUS
  <2>3. P[i + 1] = IF i + 1 <= 1 THEN head
                   ELSE IF Q[i + 1 - 1] = Null THEN Null ELSE nodes[Q[i + 1 - 1]].next
    <3>1. P = [j \in Nat |-> IF j <= 1 THEN head ELSE IF Q[j - 1] = Null THEN Null ELSE nodes[Q[j - 1]].next]
      BY <1>7, <2>2
    <3> QED
      BY <2>1, <3>1
  <2> QED
    BY <2>1, <2>2, <2>3
<1>9. P[1] = head
  BY <1>7
<1> QED
  BY <1>8, <1>9 DEF P

(* A sorted list ends, and holds what is in use and nothing else. *)
LEMMA SortedHolds ==
  ASSUME TypeOK, ListSorted
  PROVE  Cached = Live /\ Place[Len(nodes) + 1] = Null
<1>1. Len(nodes) \in Nat /\ NodeIds = 1 .. Len(nodes) /\ Live \subseteq NodeIds /\ Null = 0
  BY LenProperties DEF TypeOK, NodeIds, Live, Null
<1> DEFINE P == Place
<1>0. P[1] = head /\ \A i \in Nat \ {0} : P[i + 1] = IF P[i] = Null THEN Null ELSE nodes[P[i]].next
  BY PlaceSteps
<1>a. \A k \in Live : k \in Nat /\ k # Null /\ 1 <= k /\ k <= Len(nodes)
  BY <1>1
<1> HIDE DEF P
<1> DEFINE T == {i \in Nat : i # 0 =>
                   /\ P[i] # Null => P[i] \in Live /\ i <= P[i]
                   /\ \A k \in Live : P[i] = Null \/ k < P[i] => \E j \in 1 .. i - 1 : k = P[j]}
<1>2. 0 \in T
  OBVIOUS
<1>3. 1 \in T
  <2>1. head # Null => head \in Live /\ \A k \in Live : ~(k < head)
    BY <1>a DEF ListSorted
  <2>2. head = Null => Live = {}
    BY DEF ListSorted
  <2>3. P[1] = head /\ (head # Null => 1 <= head)
    BY <1>0, <1>a, <2>1
  <2> QED
    BY <2>1, <2>2, <2>3
<1>4. ASSUME NEW i \in Nat, i # 0, i \in T PROVE i + 1 \in T
  <2> DEFINE c == P[i]
             d == P[i + 1]
  <2>1. d = IF c = Null THEN Null ELSE nodes[c].next
    BY <1>4, <1>0
  <2>2. /\ c # Null => c \in Live /\ i <= c
        /\ \A k \in Live : c = Null \/ k < c => \E j \in 1 .. i - 1 : k = P[j]
    BY <1>4
  <2>3. \A k : (\E j \in 1 .. i - 1 : k = P[j]) \/ k = c => \E j \in 1 .. i : k = P[j]
    BY <1>4
  <2>4. i + 1 - 1 = i
    BY <1>4
  <2> HIDE DEF c, d
  <2>5. d # Null => d \in Live /\ i + 1 <= d
    BY <1>a, <2>1, <2>2 DEF ListSorted
  <2>6. ASSUME NEW k \in Live, d = Null \/ k < d PROVE \E j \in 1 .. i : k = P[j]
    <3>1. CASE c = Null \/ k < c
      BY <2>2, <2>3, <3>1
    <3>2. CASE c # Null /\ c <= k
      <4>1. ~(c < k)
        BY <1>a, <2>1, <2>2, <2>6, <3>2 DEF ListSorted
      <4>2. k = c
        BY <1>a, <2>2, <3>2, <4>1
      <4> QED
        BY <2>3, <4>2
    <3> QED
      BY <1>a, <2>2, <3>1, <3>2
  <2> QED
    BY <1>4, <2>4, <2>5, <2>6 DEF d
<1>5. Nat \subseteq T
  <2>1. \A i \in Nat : i \in T => i + 1 \in T
    BY <1>3, <1>4
  <2> HIDE DEF T
  <2> QED
    BY <1>2, <2>1, NatsAll
<1>6. Len(nodes) + 1 \in T /\ Len(nodes) + 1 # 0
  BY <1>1, <1>5
<1>7. P[Len(nodes) + 1] = Null
  <2>1. P[Len(nodes) + 1] # Null => P[Len(nodes) + 1] \in Live /\ Len(nodes) + 1 <= P[Len(nodes) + 1]
    BY <1>6
  <2>2. Len(nodes) \in Nat
    BY <1>1
  <2> DEFINE x == P[Len(nodes) + 1]
  <2> HIDE DEF T, x
  <2> SUFFICES ASSUME x # Null PROVE FALSE
    BY DEF x
  <2>3. x \in Live /\ Len(nodes) + 1 <= x
    BY <2>1 DEF x
  <2>4. x \in Nat /\ x <= Len(nodes)
    BY <1>a, <2>3
  <2> QED
    BY <2>2, <2>3, <2>4
<1>8. \A k \in Live : \E j \in 1 .. Len(nodes) : k = P[j]
  <2>1. Len(nodes) + 1 - 1 = Len(nodes)
    BY <1>1
  <2> QED
    BY <1>6, <1>7, <2>1
<1>9. \A i \in 1 .. Len(nodes) : P[i] # Null => P[i] \in Live
  BY <1>1, <1>5
<1>10. {P[i] : i \in NodeIds} \ {Null} = Live
  <2>1. ASSUME NEW k \in Live PROVE k # Null /\ \E j \in NodeIds : k = P[j]
    BY <1>1, <1>8, <1>a
  <2>2. ASSUME NEW i \in NodeIds, P[i] # Null PROVE P[i] \in Live
    BY <1>1, <1>9, <2>2
  <2> HIDE DEF T
  <2> QED
    BY <2>1, <2>2
<1> QED
  BY <1>7, <1>10 DEF Cached, P

(* What the runs check. *)
LEMMA ListInvShows ==
  ASSUME TypeOK, ListInv
  PROVE  CacheIsAList /\ SessionsStayKnown
<1>1. ~tangled => Cached = Live /\ Place[Len(nodes) + 1] = Null
  BY SortedHolds DEF ListInv
<1> QED
  BY <1>1 DEF ListInv, NamesOnce, SessionsLive, Live, CacheIsAList, SessionsStayKnown

-----------------------------------------------------------------------------
(* Steps that leave the list alone. *)

SameList ==
  /\ head' = head /\ NodeIds' = NodeIds
  /\ \A n \in NodeIds : /\ nodes'[n].next = nodes[n].next /\ nodes'[n].freed = nodes[n].freed
                        /\ nodes'[n].name = nodes[n].name

LEMMA CacheSame == UNCHANGED cache => SameList
BY DEF cache, SameList, NodeIds

(* The list, and what a thread knows of it that does not move. *)
LEMMA SameListKeeps ==
  ASSUME TypeOK, SameList
  PROVE  /\ Live' = Live
         /\ ListSorted => ListSorted'
         /\ NamesOnce => NamesOnce'
         /\ \A t \in Threads : th'[t] = th[t] /\ Searching(t) => Searching(t)'
<1>1. Live' = Live /\ Live \subseteq NodeIds
  BY DEF SameList, Live
<1>2. \A n \in Live : nodes'[n].next = nodes[n].next /\ nodes'[n].name = nodes[n].name
  BY <1>1 DEF SameList
<1>3. head' = head
  BY DEF SameList
<1>4. ListSorted => ListSorted'
  BY <1>1, <1>2, <1>3 DEF ListSorted, Null
<1>5. NamesOnce => NamesOnce'
  BY <1>1, <1>2 DEF NamesOnce
<1>6. ASSUME NEW t \in Threads, th'[t] = th[t], Searching(t) PROVE Searching(t)'
  <2>1. ASSUME NEW n, Behind(t, n) PROVE Behind(t, n)'
    BY <1>1, <1>2, <1>3, <1>6, <2>1 DEF Behind, Null
  <2>2. Null' = Null
    BY DEF Null
  <2> QED
    BY <1>1, <1>2, <1>6, <2>1, <2>2 DEF Searching
<1> QED
  BY <1>1, <1>4, <1>5, <1>6

(* A sessions' list changes by what the step does to one session. *)
LEMMA SessionsKept ==
  ASSUME TypeOK, SameList, SessionsLive, failed \subseteq failed', session' = session
  PROVE  SessionsLive'
<1>1. Live' = Live /\ \A n \in Live : nodes'[n].name = nodes[n].name
  BY SameListKeeps DEF SameList, Live
<1> QED
  BY <1>1 DEF SessionsLive

(* parse_SD_file, at the description that was found. *)
Parsing(t) ==
  Stat(t) \/ Compare(t) \/ Open(t) \/ Block(t) \/ EndOfFile(t) \/ Validate(t) \/ FollowsFreed(t)

LEMMA ParsingMoves ==
  ASSUME TypeOK, Named, NEW t \in Threads, Parsing(t)
  PROVE  /\ SameList /\ Others(t) /\ UNCHANGED <<session, failed, tangled>>
         /\ th'[t].last = th[t].last /\ th'[t].match = th[t].match
         /\ th'[t].name = th[t].name /\ th'[t].err = th[t].err
         /\ \/ th'[t].pc = "undefined"
            \/ th[t].pc \in Inside \ {"answer"} /\ th'[t].pc \in Inside
<1>0. th \in [Threads -> Thread] /\ th[t] \in Thread
  BY DEF TypeOK
<1>1. CASE Stat(t)
  BY <1>0, <1>1, StatEffect, CacheSame DEF Stat, hist, SameName, Inside, Thread
<1>2. CASE EndOfFile(t)
  BY <1>0, <1>2, EndOfFileEffect, CacheSame DEF EndOfFile, Goto, hist, SameName, Inside, Thread
<1>3. CASE FollowsFreed(t)
  BY <1>0, <1>3, FollowsFreedEffect, CacheSame DEF FollowsFreed, Goto, hist, SameName, Inside, Thread
<1>4. CASE Validate(t)
  BY <1>0, <1>4, ValidateEffect, CacheSame DEF Validate, hist, SameName, Inside, Thread
<1>5. CASE Compare(t)
  <2>1. head' = head /\ UNCHANGED <<session, failed, tangled>> /\ th'[t].last = th[t].last
    BY <1>0, <1>5 DEF Compare, Goto, hist, Thread
  <2>2. th[t].match \in NodeIds /\ nodes[th[t].match] \in Description
    BY <1>5, CompareEffect, ElementOfSeq DEF TypeOK, NodeIds
  <2> DEFINE n == th[t].match
  <2>3. /\ Others(t) /\ th'[t].name = th[t].name /\ th'[t].err = th[t].err /\ th'[t].match = n
        /\ th[t].pc = "compare" /\ th'[t].pc \in {"answer", "open"}
    BY <1>5, CompareEffect DEF SameName
  <2>4. /\ NodeIds' = NodeIds /\ (nodes' = nodes \/ nodes'[n] = [nodes[n] EXCEPT !.last_change = th[t].ctime])
        /\ \A m \in NodeIds : m # n => nodes'[m] = nodes[m]
    BY <1>5, CompareEffect
  <2>5. \A m \in NodeIds : /\ nodes'[m].next = nodes[m].next /\ nodes'[m].freed = nodes[m].freed
                          /\ nodes'[m].name = nodes[m].name
    BY <2>2, <2>4 DEF Description
  <2> QED
    BY <2>1, <2>3, <2>4, <2>5 DEF SameList, Inside
<1>6. CASE Open(t)
  <2>1. head' = head /\ UNCHANGED <<session, failed, tangled>> /\ th'[t].last = th[t].last
    BY <1>0, <1>6 DEF Open, Goto, hist, Thread
  <2>2. th[t].match \in NodeIds /\ nodes[th[t].match] \in Description
    BY <1>6, OpenEffect, ElementOfSeq DEF TypeOK, NodeIds
  <2> DEFINE n == th[t].match
  <2>3. /\ Others(t) /\ th'[t].name = th[t].name /\ th'[t].err = th[t].err /\ th'[t].match = n
        /\ th[t].pc = "open" /\ th'[t].pc \in {"fail", "block"}
    BY <1>6, OpenEffect DEF SameName
  <2>4. /\ NodeIds' = NodeIds /\ (nodes' = nodes \/ nodes'[n] = [nodes[n] EXCEPT !.multicast = @ \/ file[th[t].name].content.multicast])
        /\ \A m \in NodeIds : m # n => nodes'[m] = nodes[m]
    BY <1>6, OpenEffect
  <2>5. \A m \in NodeIds : /\ nodes'[m].next = nodes[m].next /\ nodes'[m].freed = nodes[m].freed
                          /\ nodes'[m].name = nodes[m].name
    BY <2>2, <2>4 DEF Description
  <2> QED
    BY <2>1, <2>3, <2>4, <2>5 DEF SameList, Inside
<1>7. CASE Block(t)
  <2>1. head' = head /\ UNCHANGED <<session, failed, tangled>> /\ th'[t].last = th[t].last
    BY <1>0, <1>7 DEF Block, hist, Thread
  <2>2. th[t].match \in NodeIds /\ nodes[th[t].match] \in Description
    BY <1>7, BlockEffect, ElementOfSeq DEF TypeOK, NodeIds
  <2> DEFINE n == th[t].match
  <2>3. /\ Others(t) /\ th'[t].name = th[t].name /\ th'[t].err = th[t].err /\ th'[t].match = n
        /\ th[t].pc = "block" /\ th'[t].pc = "validate"
    BY <1>7, BlockEffect DEF SameName
  <2>4. /\ NodeIds' = NodeIds /\ (nodes'[n] = nodes[n] \/ nodes'[n] = [nodes[n] EXCEPT !.list = th'[t].list])
        /\ \A m \in NodeIds : m # n => nodes'[m] = nodes[m]
    BY <1>7, BlockEffect
  <2>5. \A m \in NodeIds : /\ nodes'[m].next = nodes[m].next /\ nodes'[m].freed = nodes[m].freed
                          /\ nodes'[m].name = nodes[m].name
    BY <2>2, <2>4 DEF Description
  <2> QED
    BY <2>1, <2>3, <2>4, <2>5 DEF SameList, Inside
<1> QED
  BY <1>1, <1>2, <1>3, <1>4, <1>5, <1>6, <1>7 DEF Parsing

LEMMA ParsingListInv ==
  ASSUME TypeOK, Named, ListInv, NEW t \in Threads, Parsing(t)
  PROVE  ListInv'
<1> SUFFICES ASSUME ~tangled'
             PROVE  ListSorted' /\ NamesOnce' /\ (\A u \in Threads : Searching(u)') /\ SessionsLive'
  BY DEF ListInv
<1>1. /\ SameList /\ Others(t) /\ UNCHANGED <<session, failed, tangled>>
      /\ th'[t].last = th[t].last /\ th'[t].match = th[t].match
      /\ th'[t].name = th[t].name /\ th'[t].err = th[t].err
      /\ \/ th'[t].pc = "undefined"
         \/ th[t].pc \in Inside \ {"answer"} /\ th'[t].pc \in Inside
  BY ParsingMoves
<1>2. ListSorted /\ NamesOnce /\ (\A u \in Threads : Searching(u)) /\ SessionsLive
  BY <1>1 DEF ListInv
<1>3. ListSorted' /\ NamesOnce' /\ SessionsLive' /\ Live' = Live
  BY <1>1, <1>2, SameListKeeps, SessionsKept
<1>4. \A u \in Threads : u # t => Searching(u)'
  BY <1>1, <1>2, SameListKeeps DEF Others
<1>5. Searching(t)'
  <2>1. CASE th'[t].pc = "undefined"
    BY <2>1 DEF Searching, Inside
  <2>2. CASE th[t].pc \in Inside \ {"answer"} /\ th'[t].pc \in Inside
    <3>1. th[t].match \in Live /\ Behind(t, th[t].match)
      BY <1>2, <2>2 DEF Searching
    <3>2. Behind(t, th[t].match)'
      BY <1>1, <3>1 DEF Behind, SameList, Live, Null
    <3> QED
      BY <1>1, <1>3, <2>2, <3>1, <3>2 DEF Searching, Inside, Behind
  <2> QED
    BY <1>1, <2>1, <2>2
<1> QED
  BY <1>3, <1>4, <1>5

-----------------------------------------------------------------------------
(* The loop over the list. *)

LEMMA WalkListInv ==
  ASSUME TypeOK, Named, ListInv, NEW t \in Threads, Walk(t)
  PROVE  ListInv'
<1> SUFFICES ASSUME ~tangled'
             PROVE  ListSorted' /\ NamesOnce' /\ (\A u \in Threads : Searching(u)') /\ SessionsLive'
  BY DEF ListInv
<1> DEFINE n == th[t].curr
<1>1. UNCHANGED <<cache, session, failed, tangled>> /\ Others(t) /\ th[t].pc = "walk"
  BY WalkEffect DEF Walk
<1>2. ListSorted /\ NamesOnce /\ (\A u \in Threads : Searching(u)) /\ SessionsLive
  BY <1>1 DEF ListInv
<1>3. SameList
  BY <1>1, CacheSame
<1>4. ListSorted' /\ NamesOnce' /\ SessionsLive' /\ Live' = Live
  BY <1>1, <1>2, <1>3, SameListKeeps, SessionsKept
<1>5. \A u \in Threads : u # t => Searching(u)'
  BY <1>1, <1>2, <1>3, SameListKeeps DEF Others
<1>6. /\ n \in Live /\ Behind(t, n) /\ \A m \in Live : m < n => nodes[m].name # th[t].name
  BY <1>1, <1>2 DEF Searching
<1>7. nodes' = nodes /\ head' = head
  BY <1>1 DEF cache
<1>8. th \in [Threads -> Thread] /\ th[t] \in Thread
  BY DEF TypeOK
<1>9. CASE nodes[n].name = th[t].name
  <2>1. th' = [th EXCEPT ![t].match = n, ![t].pc = "stat"]
    BY <1>9 DEF Walk
  <2>2. th'[t].match = n /\ th'[t].pc = "stat" /\ th'[t].last = th[t].last
    BY <1>8, <2>1 DEF Thread
  <2>4. Behind(t, th[t].match)'
    BY <1>4, <1>6, <1>7, <2>2 DEF Behind
  <2>5. th'[t].match \in Live'
    BY <1>4, <1>6, <2>2
  <2>6. Searching(t)'
    BY <2>2, <2>4, <2>5 DEF Searching
  <2> QED
    BY <1>4, <1>5, <2>6
<1>10. CASE nodes[n].name # th[t].name
  <2> DEFINE next == nodes[n].next
  <2>1. th' = [th EXCEPT ![t].last = n, ![t].curr = next, ![t].pc = IF next = Null THEN "insert" ELSE "walk"]
    BY <1>10 DEF Walk
  <2>2. /\ th'[t].last = n /\ th'[t].curr = next /\ th'[t].name = th[t].name
        /\ th'[t].pc = IF next = Null THEN "insert" ELSE "walk"
    BY <1>8, <2>1 DEF Thread
  <2>3. n # Null /\ n \in NodeIds /\ \A k \in Live : k \in Nat
    BY <1>6 DEF Live, NodeIds, Null
  <2>4. CASE next = Null
    <3>1. Behind(t, Null)'
      BY <1>4, <1>6, <1>7, <2>2, <2>3, <2>4 DEF Behind, Null
    <3>2. \A k \in Live : nodes[k].name # th[t].name
      <4> SUFFICES ASSUME NEW k \in Live PROVE nodes[k].name # th[t].name
        OBVIOUS
      <4>1. k <= n
        BY <1>2, <1>6, <2>4 DEF ListSorted
      <4>2. k < n \/ k = n
        BY <1>6, <2>3, <4>1
      <4> QED
        BY <1>6, <1>10, <4>2
    <3> QED
      BY <1>4, <1>5, <1>7, <2>2, <2>4, <3>1, <3>2 DEF Searching, Inside
  <2>5. CASE next # Null
    <3>1. next \in Live
      BY <1>2, <1>6, <2>5 DEF ListSorted
    <3>2. Behind(t, th[t].curr)'
      BY <1>4, <1>6, <1>7, <2>2, <2>3, <2>5 DEF Behind, Null
    <3>3. ASSUME NEW k \in Live, k < next PROVE nodes[k].name # th[t].name
      <4>1. ~(n < k)
        BY <1>2, <1>6, <2>3, <2>5, <3>1, <3>3 DEF ListSorted
      <4>2. k < n \/ k = n
        BY <1>6, <2>3, <4>1
      <4> QED
        BY <1>6, <1>10, <4>2
    <3> QED
      BY <1>4, <1>5, <1>7, <2>2, <2>5, <3>1, <3>2, <3>3 DEF Searching, Inside
  <2> QED
    BY <2>4, <2>5
<1> QED
  BY <1>9, <1>10

-----------------------------------------------------------------------------
(* Requests begin and end. *)

(* A thread that begins to search stands before the first description. *)
LEMMA FreshSearch ==
  ASSUME TypeOK, ListSorted, NEW t \in Threads, SameList, th'[t].curr = head, th'[t].last = Null,
         th'[t].pc = IF head = Null THEN "insert" ELSE "walk"
  PROVE  Searching(t)'
<1>1. Live' = Live /\ head' = head
  BY SameListKeeps DEF SameList
<1>2. \A k \in Live : k \in Nat
  BY DEF Live, NodeIds
<1>3. CASE head = Null
  <2>1. Live' = {} /\ th'[t].pc = "insert" /\ Behind(t, Null)'
    BY <1>1, <1>3 DEF ListSorted, Behind, Null
  <2> QED
    BY <2>1 DEF Searching, Inside
<1>4. CASE head # Null
  <2>1. head \in Live /\ \A k \in Live : ~(k < head)
    BY <1>2, <1>4 DEF ListSorted
  <2>2. th'[t].pc = "walk" /\ Behind(t, th[t].curr)'
    BY <1>1, <1>4 DEF Behind, Null
  <2> QED
    BY <1>1, <2>1, <2>2 DEF Searching, Inside
<1> QED
  BY <1>3, <1>4

(* A thread starts to search, or becomes idle. *)
Restarts(t) ==
  /\ UNCHANGED <<cache, tangled, failed>> /\ Others(t)
  /\ \/ th'[t].pc = "idle"
     \/ /\ th'[t].curr = head /\ th'[t].last = Null
        /\ th'[t].pc = IF head = Null THEN "insert" ELSE "walk"

LEMMA RestartListInv ==
  ASSUME TypeOK, ListInv, NEW t \in Threads, Restarts(t), ~tangled => SessionsLive'
  PROVE  ListInv'
<1> SUFFICES ASSUME ~tangled'
             PROVE  ListSorted' /\ NamesOnce' /\ (\A u \in Threads : Searching(u)') /\ SessionsLive'
  BY DEF ListInv
<1>1. ~tangled /\ SameList
  BY CacheSame DEF Restarts
<1>2. ListSorted' /\ NamesOnce' /\ SessionsLive'
  BY <1>1, SameListKeeps DEF ListInv
<1>3. \A u \in Threads : u # t => Searching(u)'
  BY <1>1, SameListKeeps DEF Restarts, Others, ListInv
<1>4. Searching(t)'
  <2>1. CASE th'[t].pc = "idle"
    BY <2>1 DEF Searching, Inside
  <2> QED
    BY <1>1, <2>1, FreshSearch DEF Restarts, ListInv
<1> QED
  BY <1>2, <1>3, <1>4

LEMMA RequestListInv ==
  ASSUME TypeOK, Named, ListInv,
         \/ \E s \in Sessions, n \in Names, f \in Files : Setup(s, n, f)
         \/ \E n \in Names : Describe(n)
         \/ \E s \in Sessions : Adapt(s)
         \/ DescribeAgain \/ DescribeAnswer \/ AdaptAnswer
  PROVE  ListInv'
<1>0. th \in [Threads -> Thread] /\ "main" \in Threads /\ "scheduler" \in Threads
  BY DEF TypeOK, Threads
<1>1. \A job, n, s, f : /\ Lookup(job, n, s, f).curr = head /\ Lookup(job, n, s, f).last = Null
                        /\ Lookup(job, n, s, f).pc = IF head = Null THEN "insert" ELSE "walk"
  BY DEF Lookup, Idle
<1>2. Idle.pc = "idle"
  BY DEF Idle
<1>3. ASSUME NEW t \in Threads, NEW l, th' = [th EXCEPT ![t] = l], UNCHANGED <<cache, session, failed, tangled>>,
             l = Idle \/ \E job, n, s, f : l = Lookup(job, n, s, f)
      PROVE  ListInv'
  <2>1. th'[t] = l /\ Others(t)
    BY <1>0, <1>3 DEF Others
  <2>2. Restarts(t)
    BY <1>1, <1>2, <1>3, <2>1 DEF Restarts
  <2>3. ~tangled => SessionsLive'
    BY <1>3, CacheSame, SessionsKept DEF ListInv
  <2> QED
    BY <2>2, <2>3, RestartListInv
<1>4. ASSUME NEW s \in Sessions, NEW n \in Names, NEW f \in Files, Setup(s, n, f) PROVE ListInv'
  BY <1>0, <1>3, <1>4 DEF Setup, Start
<1>5. ASSUME NEW n \in Names, Describe(n) PROVE ListInv'
  BY <1>0, <1>3, <1>5 DEF Describe, Start
<1>6. ASSUME NEW s \in Sessions, Adapt(s) PROVE ListInv'
  BY <1>0, <1>3, <1>6 DEF Adapt, Start, hist
<1>7. ASSUME DescribeAgain PROVE ListInv'
  <2>1. \/ th' = [th EXCEPT !["main"] = Lookup("sdp", th["main"].name, NoName, NoName)]
        \/ th' = [th EXCEPT !["main"] = Idle]
    BY <1>7 DEF DescribeAgain
  <2> QED
    BY <1>0, <1>3, <1>7, <2>1 DEF DescribeAgain, hist
<1>8. ASSUME DescribeAnswer \/ AdaptAnswer PROVE ListInv'
  BY <1>0, <1>3, <1>8 DEF DescribeAnswer, AdaptAnswer, hist
<1> QED
  BY <1>4, <1>5, <1>6, <1>7, <1>8

(* The session of a SETUP gets the name of the description that was found. *)
LEMMA SetupAnswerListInv ==
  ASSUME TypeOK, Named, ListInv, SetupAnswer
  PROVE  ListInv'
<1> DEFINE m == th["main"]
<1>1. /\ "main" \in Threads /\ th \in [Threads -> Thread] /\ session \in [Sessions -> Names \cup {NoName}]
      /\ m.pc = "answer" /\ th' = [th EXCEPT !["main"] = Idle] /\ UNCHANGED <<cache, hist>>
  BY DEF Threads, TypeOK, SetupAnswer, Answered, At
<1>2. Restarts("main")
  <2>1. th'["main"] = Idle /\ Others("main")
    BY <1>1 DEF Others
  <2>2. Idle.pc = "idle"
    BY DEF Idle
  <2> QED
    BY <1>1, <2>1, <2>2 DEF Restarts, hist
<1>3. ASSUME ~tangled PROVE SessionsLive'
  <2>1. SessionsLive /\ (~m.err => m.match \in Live) /\ Live' = Live /\ nodes' = nodes /\ failed' = failed
    BY <1>1, <1>3, CacheSame, SameListKeeps DEF ListInv, Searching, cache, hist
  <2>2. nodes[m.match].name = m.name
    BY <1>1 DEF Named, NamedAt, Inside
  <2>3. \/ session' = session
        \/ ~m.err /\ session' = [session EXCEPT ![m.s] = m.name]
    BY DEF SetupAnswer
  <2>4. \A s \in Sessions : session'[s] = session[s] \/ (~m.err /\ session'[s] = m.name)
    BY <1>1, <2>3
  <2> QED
    BY <2>1, <2>2, <2>4 DEF SessionsLive
<1> QED
  BY <1>1, <1>2, <1>3, RestartListInv

(* Files change and sessions end; the threads stay where they are. *)
SamePlace(t) ==
  /\ th'[t].pc = th[t].pc /\ th'[t].name = th[t].name /\ th'[t].match = th[t].match
  /\ th'[t].curr = th[t].curr /\ th'[t].last = th[t].last /\ th'[t].err = th[t].err

LEMMA StillListInv ==
  ASSUME TypeOK, ListInv, UNCHANGED <<cache, failed, tangled>>, \A u \in Threads : SamePlace(u),
         \A s \in Sessions : session'[s] \in {session[s], NoName}
  PROVE  ListInv'
<1> SUFFICES ASSUME ~tangled'
             PROVE  ListSorted' /\ NamesOnce' /\ (\A u \in Threads : Searching(u)') /\ SessionsLive'
  BY DEF ListInv
<1>1. ~tangled /\ SameList
  BY CacheSame
<1>2. ListSorted' /\ NamesOnce' /\ Live' = Live
  BY <1>1, SameListKeeps DEF ListInv
<1>3. SessionsLive'
  BY <1>1, <1>2 DEF SessionsLive, ListInv, cache
<1>4. ASSUME NEW u \in Threads PROVE Searching(u)'
  <2>1. Searching(u) /\ SamePlace(u) /\ nodes' = nodes /\ head' = head
    BY <1>1 DEF ListInv, cache
  <2>2. \A k : Behind(u, k)' <=> Behind(u, k)
    BY <1>2, <2>1 DEF Behind, SamePlace
  <2> QED
    BY <1>2, <2>1, <2>2 DEF Searching, SamePlace
<1> QED
  BY <1>2, <1>3, <1>4

-----------------------------------------------------------------------------
(* A new description, at the end. *)

LEMMA InsertNext ==
  ASSUME TypeOK, Named, NEW t \in Threads, Insert(t)
  PROVE  \A m \in NodeIds :
           nodes'[m].next = IF head # Null /\ m = th[t].last THEN Len(nodes) + 1 ELSE nodes[m].next
<1> DEFINE n == Len(nodes) + 1
           last == th[t].last
           linked == IF head = Null THEN nodes ELSE [nodes EXCEPT ![last].next = n]
           made == New(th[t].name)
<1>1. /\ th[t].pc = "insert" /\ (head # Null => last \in NodeIds) /\ th[t].name \in Names
      /\ nodes \in Seq(Description) /\ Len(nodes) \in Nat
      /\ \A m \in NodeIds : nodes[m] \in Description
  BY FollowedAt, LenProperties, ElementOfSeq DEF TypeOK, Insert, At, Allocated, Null, NodeIds, Named, NamedAt
<1>2. nodes' = Append(linked, made) /\ made \in Description
  BY <1>1 DEF Insert, Description, New, Null
<1>3. /\ linked \in Seq(Description) /\ Len(linked) = Len(nodes)
      /\ \A m \in NodeIds : linked[m].next = IF head # Null /\ m = last THEN n ELSE nodes[m].next
  <2>1. CASE head = Null
    BY <1>1, <2>1
  <2>2. CASE head # Null
    <3> DEFINE d == [nodes[last] EXCEPT !.next = n]
    <3>1. nodes[last] \in Description
      BY <1>1, <2>2
    <3>a. n \in Nat
      BY <1>1
    <3>b. d \in Description /\ d.next = n
      BY <3>1, <3>a DEF Description
    <3>2. d \in Description /\ d.next = n /\ linked = [nodes EXCEPT ![last] = d]
      BY <1>1, <2>2, <3>b
    <3> HIDE DEF linked, d
    <3>3. /\ linked \in Seq(Description) /\ Len(linked) = Len(nodes)
          /\ \A m \in NodeIds : linked[m] = IF m = last THEN d ELSE nodes[m]
      BY <1>1, <2>2, <3>2, ExceptSeq DEF NodeIds
    <3> QED
      BY <2>2, <3>2, <3>3
  <2> QED
    BY <2>1, <2>2
<1> HIDE DEF linked, made
<1>4. \A m \in NodeIds : nodes'[m] = linked[m]
  BY <1>2, <1>3, AppendSeq DEF NodeIds
<1> QED
  BY <1>3, <1>4

LEMMA InsertListInv ==
  ASSUME TypeOK, Named, ListInv, NEW t \in Threads, Insert(t)
  PROVE  ListInv'
<1> SUFFICES ASSUME ~tangled'
             PROVE  ListSorted' /\ NamesOnce' /\ (\A u \in Threads : Searching(u)') /\ SessionsLive'
  BY DEF ListInv
<1> DEFINE n == Len(nodes) + 1
           last == th[t].last
<1>1. /\ Others(t) /\ th[t].pc = "insert" /\ th'[t].pc = "stat" /\ th'[t].match = n
      /\ th'[t].name = th[t].name
      /\ NodeIds' = NodeIds \cup {n} /\ n \notin NodeIds /\ nodes'[n] = New(th[t].name)
      /\ \A m \in NodeIds : nodes'[m].name = nodes[m].name /\ nodes'[m].freed = nodes[m].freed
  BY InsertEffect DEF SameName, Like
<1>2. \A m \in NodeIds : nodes'[m].next = IF head # Null /\ m = last THEN n ELSE nodes[m].next
  BY InsertNext
<1>3. /\ head' = (IF head = Null THEN n ELSE head) /\ session' = session
      /\ failed' = failed \ {th[t].name} /\ th' = [th EXCEPT ![t].match = n, ![t].pc = "stat"]
      /\ ~tangled /\ th[Other(t)].pc # "insert"
  BY DEF Insert, TypeOK
<1>4. ListSorted /\ NamesOnce /\ (\A u \in Threads : Searching(u)) /\ SessionsLive
  BY <1>3 DEF ListInv
<1>5. th'[t].last = last
  BY <1>3 DEF TypeOK, Thread
<1>6. n \in Nat /\ \A k \in NodeIds : k \in Nat /\ k # Null /\ k < n
  BY LenProperties DEF TypeOK, NodeIds, Null
<1>7. New(th[t].name).name = th[t].name /\ New(th[t].name).next = Null /\ ~New(th[t].name).freed
  BY DEF New
<1>8. Live' = Live \cup {n} /\ Live \subseteq NodeIds /\ n \notin Live /\ n # Null
  BY <1>1, <1>6, <1>7 DEF Live, Null
<1>9. IF head = Null THEN Live = {} /\ last = Null ELSE last \in Live /\ nodes[last].next = Null
  <2>1. Behind(t, Null)
    BY <1>1, <1>4 DEF Searching
  <2> QED
    BY <1>4, <2>1 DEF Behind, ListSorted
<1>10. \A m \in Live : nodes[m].name # th[t].name
  BY <1>1, <1>4 DEF Searching
<1> HIDE DEF n, last
<1>11. ListSorted'
  <2>1. CASE head = Null
    <3>1. Live' = {n} /\ head' = n /\ nodes'[n].next = Null
      BY <1>1, <1>3, <1>7, <1>8, <1>9, <2>1
    <3> QED
      BY <1>6, <1>8, <3>1 DEF ListSorted, Null
  <2>2. CASE head # Null
    <3>1. last \in Live /\ \A k \in Live : k <= last
      BY <1>4, <1>9, <2>2 DEF ListSorted
    <3>2. head' \in Live' /\ \A k \in Live' : head' <= k
      BY <1>3, <1>4, <1>6, <1>8, <2>2 DEF ListSorted
    <3>3. ASSUME NEW k \in Live
          PROVE  nodes'[k].next # Null /\ nodes'[k].next \in Live' /\ k < nodes'[k].next
                 /\ \A m \in Live' : k < m => nodes'[k].next <= m
      <4>1. CASE k = last
        <5>1. nodes'[k].next = n
          BY <1>2, <1>8, <2>2, <4>1
        <5>2. \A m \in Live' : k < m => m = n
          BY <1>6, <1>8, <3>1, <4>1
        <5> QED
          BY <1>6, <1>8, <5>1, <5>2
      <4>2. CASE k # last
        <5>1. nodes'[k].next = nodes[k].next
          BY <1>2, <1>8, <4>2
        <5>2. nodes[k].next # Null
          <6>1. k < last
            BY <1>6, <1>8, <3>1, <4>2
          <6> QED
            BY <1>4, <1>6, <1>8, <3>1, <6>1 DEF ListSorted
        <5>3. nodes[k].next \in Live /\ k < nodes[k].next /\ \A m \in Live : k < m => nodes[k].next <= m
          BY <1>4, <5>2 DEF ListSorted
        <5> QED
          BY <1>6, <1>8, <5>1, <5>2, <5>3
      <4> QED
        BY <4>1, <4>2
    <3>4. nodes'[n].next = Null /\ \A k \in Live' : k <= n
      BY <1>1, <1>6, <1>7, <1>8
    <3>5. \A k \in Live' : k \in Live \/ k = n
      BY <1>8
    <3>6. head' # Null /\ Null' = Null
      BY <1>3, <2>2 DEF Null
    <3> QED
      BY <3>2, <3>3, <3>4, <3>5, <3>6 DEF ListSorted
  <2> QED
    BY <2>1, <2>2
<1>12. NamesOnce'
  BY <1>1, <1>4, <1>7, <1>8, <1>10 DEF NamesOnce
<1>13. Searching(t)'
  <2>1. Behind(t, th[t].match)'
    <3>1. CASE head = Null
      BY <1>1, <1>3, <1>5, <1>9, <3>1 DEF Behind, Null
    <3>2. CASE head # Null
      BY <1>1, <1>2, <1>5, <1>6, <1>8, <1>9, <3>2 DEF Behind, Null
    <3> QED
      BY <3>1, <3>2
  <2> QED
    BY <1>1, <1>8, <2>1 DEF Searching
<1>14. ASSUME NEW u \in Threads, u # t PROVE Searching(u)'
  <2>1. th'[u] = th[u] /\ th[u].pc # "insert" /\ Searching(u)
    <3>1. Other(t) = u
      BY <1>14 DEF Other, Threads
    <3> QED
      BY <1>1, <1>3, <1>4, <1>14, <3>1 DEF Others
  <2>2. ASSUME NEW m \in Live, Behind(u, m) PROVE Behind(u, m)'
    <3>1. head # Null /\ m # Null
      BY <1>6, <1>8, <1>9, <2>2
    <3>2. CASE th[u].last = Null
      BY <1>3, <2>1, <2>2, <3>1, <3>2 DEF Behind, Null
    <3>3. CASE th[u].last # Null
      <4>1. th[u].last \in Live /\ nodes[th[u].last].next = m /\ th[u].last # last
        BY <1>9, <2>2, <3>1, <3>3 DEF Behind
      <4>2. nodes'[th[u].last].next = m
        BY <1>2, <1>8, <4>1
      <4> QED
        BY <1>8, <2>1, <3>3, <4>1, <4>2 DEF Behind, Null
    <3> QED
      BY <3>2, <3>3
  <2>3. CASE th[u].pc = "walk"
    <3>1. th[u].curr \in Live /\ Behind(u, th[u].curr)' /\ \A k \in Live : k < th[u].curr => nodes[k].name # th[u].name
      BY <2>1, <2>2, <2>3 DEF Searching
    <3>2. \A k \in Live' : k < th[u].curr => nodes'[k].name # th[u].name
      BY <1>1, <1>6, <1>8, <3>1
    <3> QED
      BY <1>8, <2>1, <2>3, <3>1, <3>2 DEF Searching, Inside, Behind
  <2>4. CASE th[u].pc \in Inside \ {"answer"}
    <3>1. th[u].match \in Live /\ Behind(u, th[u].match)'
      BY <2>1, <2>2, <2>4 DEF Searching
    <3> QED
      BY <1>8, <2>1, <2>4, <3>1 DEF Searching, Inside, Behind
  <2>5. CASE th[u].pc = "answer"
    BY <1>8, <2>1, <2>5 DEF Searching, Inside
  <2> QED
    BY <2>1, <2>3, <2>4, <2>5 DEF Searching
<1>15. SessionsLive'
  <2> SUFFICES ASSUME NEW s \in Sessions, session[s] # NoName
               PROVE  session[s] \in failed' \/ \E m \in Live' : nodes'[m].name = session[s]
    BY <1>3 DEF SessionsLive
  <2>1. CASE session[s] = th[t].name
    BY <1>1, <1>7, <1>8, <2>1
  <2>2. CASE session[s] # th[t].name
    BY <1>1, <1>3, <1>4, <1>8, <2>2 DEF SessionsLive
  <2> QED
    BY <2>1, <2>2
<1> QED
  BY <1>11, <1>12, <1>13, <1>14, <1>15

-----------------------------------------------------------------------------
(* A description whose file does not parse leaves the list. *)

LEMMA FailNext ==
  ASSUME TypeOK, Named, NEW t \in Threads, Fail(t)
  PROVE  /\ head' = IF th[t].last = Null THEN nodes[head].next ELSE head
         /\ \A m \in NodeIds :
              nodes'[m].next = IF th[t].last # Null /\ m = th[t].last THEN nodes[th[t].match].next
                               ELSE nodes[m].next
<1> DEFINE n == th[t].match
           last == th[t].last
           new == Unlinked(head, nodes, last, n)
<1>1. th[t].pc = "fail" /\ \A m \in Followed(t) : Allocated(m)
  BY DEF Fail, At
<1>2. n # Null /\ (last # Null => last # Null /\ Allocated(last))
  BY <1>1, FollowedAt DEF Allocated
<1>3. /\ n \in NodeIds /\ (last # Null => last \in NodeIds) /\ nodes \in Seq(Description)
      /\ \A m \in NodeIds : nodes[m] \in Description /\ nodes[m].next \in Nat
  <2>1. nodes \in Seq(Description)
    BY DEF TypeOK
  <2>2. Len(nodes) \in Nat /\ \A m \in NodeIds : nodes[m] \in Description
    BY <2>1, LenProperties, ElementOfSeq DEF NodeIds
  <2>3. \A m \in NodeIds : nodes[m].next \in Nat
    BY <2>2 DEF Description
  <2>4. n \in 0 .. Len(nodes) /\ last \in 0 .. Len(nodes)
    BY DEF TypeOK
  <2>5. n \in NodeIds /\ (last # Null => last \in NodeIds)
    BY <1>2, <2>2, <2>4 DEF NodeIds, Null
  <2> QED
    BY <2>1, <2>2, <2>3, <2>5
<1>4. new.head = (IF last = Null THEN nodes[head].next ELSE head)
  BY DEF Unlinked
<1>5. /\ new.nodes \in Seq(Description) /\ Len(new.nodes) = Len(nodes)
      /\ \A m \in NodeIds : /\ new.nodes[m] \in Description
                            /\ new.nodes[m].next = IF last # Null /\ m = last THEN nodes[n].next ELSE nodes[m].next
  <2>1. CASE last = Null
    BY <1>3, <2>1 DEF Unlinked
  <2>2. CASE last # Null
    <3> DEFINE d == [nodes[last] EXCEPT !.next = nodes[n].next]
    <3>1. d \in Description /\ d.next = nodes[n].next
      BY <1>3, <2>2 DEF Description
    <3>2. new.nodes = [nodes EXCEPT ![last] = d]
      BY <1>3, <2>2 DEF Unlinked
    <3> HIDE DEF d
    <3>3. /\ new.nodes \in Seq(Description) /\ Len(new.nodes) = Len(nodes)
          /\ \A m \in NodeIds : new.nodes[m] = IF m = last THEN d ELSE nodes[m]
      BY <1>3, <2>2, <3>1, <3>2, ExceptSeq DEF NodeIds
    <3> QED
      BY <1>3, <2>2, <3>1, <3>3
  <2> QED
    BY <2>1, <2>2
<1> HIDE DEF new
<1>6. nodes' = [new.nodes EXCEPT ![n].freed = TRUE] /\ head' = new.head
  BY DEF Fail, new
<1>7. \A m \in NodeIds : nodes'[m].next = new.nodes[m].next
  <2> DEFINE d == [new.nodes[n] EXCEPT !.freed = TRUE]
  <2>1. new.nodes[n] \in Description
    BY <1>3, <1>5
  <2>2. d \in Description /\ d.next = new.nodes[n].next
    BY <2>1 DEF Description
  <2>3. nodes' = [new.nodes EXCEPT ![n] = d]
    BY <1>3, <1>5, <1>6 DEF NodeIds
  <2> HIDE DEF d
  <2>4. \A m \in NodeIds : nodes'[m] = IF m = n THEN d ELSE new.nodes[m]
    BY <1>3, <1>5, <2>2, <2>3, ExceptSeq DEF NodeIds
  <2> QED
    BY <2>2, <2>4
<1> QED
  BY <1>4, <1>5, <1>6, <1>7

LEMMA FailListInv ==
  ASSUME TypeOK, Named, ListInv, NEW t \in Threads, Fail(t)
  PROVE  ListInv'
<1> SUFFICES ASSUME ~tangled'
             PROVE  ListSorted' /\ NamesOnce' /\ (\A u \in Threads : Searching(u)') /\ SessionsLive'
  BY DEF ListInv
<1> DEFINE n == th[t].match
           last == th[t].last
<1>1. /\ Others(t) /\ th[t].pc = "fail" /\ th'[t].pc = "answer" /\ th'[t].err
      /\ n \in NodeIds /\ NodeIds' = NodeIds /\ nodes'[n].freed
      /\ \A m \in NodeIds : nodes'[m].name = nodes[m].name /\ (m # n => nodes'[m].freed = nodes[m].freed)
  BY FailEffect DEF Like
<1>2. /\ head' = IF last = Null THEN nodes[head].next ELSE head
      /\ \A m \in NodeIds : nodes'[m].next = IF last # Null /\ m = last THEN nodes[n].next ELSE nodes[m].next
  BY FailNext
<1>3. /\ session' = session /\ failed' = failed \cup {th[t].name}
      /\ ~tangled /\ th[Other(t)].pc = "idle"
  BY DEF Fail, TypeOK
<1>4. ListSorted /\ NamesOnce /\ (\A u \in Threads : Searching(u)) /\ SessionsLive
  BY <1>3 DEF ListInv
<1>5. n \in Live /\ IF last = Null THEN head = n ELSE last \in Live /\ nodes[last].next = n
  BY <1>1, <1>4 DEF Searching, Behind, Inside
<1>6. Live' = Live \ {n} /\ Live \subseteq NodeIds /\ \A k \in NodeIds : k \in Nat /\ k # Null
  BY <1>1, LenProperties DEF Live, TypeOK, NodeIds, Null
<1>7. nodes[n].name = th[t].name
  BY <1>1 DEF Named, NamedAt, Inside
<1> HIDE DEF n, last
<1>8. ListSorted'
  <2>1. Null' = Null
    BY DEF Null
  \* What follows n, and what stands before it.
  <2>2. IF nodes[n].next = Null THEN \A k \in Live : k <= n
        ELSE nodes[n].next \in Live /\ n < nodes[n].next /\ \A k \in Live : n < k => nodes[n].next <= k
    BY <1>4, <1>5 DEF ListSorted
  <2>3. head # Null /\ head \in Live /\ \A k \in Live : head <= k
    BY <1>4, <1>5 DEF ListSorted
  <2>4. ASSUME NEW k \in Live, nodes[k].next # Null
        PROVE  nodes[k].next \in Live /\ k < nodes[k].next /\ \A m \in Live : k < m => nodes[k].next <= m
    BY <1>4, <2>4 DEF ListSorted
  <2>5. ASSUME NEW k \in Live, nodes[k].next = Null PROVE \A m \in Live : m <= k
    BY <1>4, <2>5 DEF ListSorted
  <2>6. CASE last = Null
    <3>1. head = n /\ head' = nodes[n].next
      BY <1>2, <1>5, <2>6
    <3>2. IF head' = Null THEN Live' = {} ELSE head' \in Live' /\ \A k \in Live' : head' <= k
      <4>1. \A k \in Live' : k \in Live /\ n < k
        BY <1>5, <1>6, <2>3, <3>1
      <4>2. CASE head' = Null
        BY <1>5, <1>6, <2>2, <3>1, <4>1, <4>2
      <4>3. CASE head' # Null
        BY <1>5, <1>6, <2>2, <3>1, <4>1, <4>3
      <4> QED
        BY <4>2, <4>3
    <3>3. ASSUME NEW k \in Live'
          PROVE  IF nodes'[k].next = Null THEN \A m \in Live' : m <= k
                 ELSE /\ nodes'[k].next \in Live' /\ k < nodes'[k].next
                      /\ \A m \in Live' : k < m => nodes'[k].next <= m
      <4>1. k \in Live /\ k # n /\ n < k /\ nodes'[k].next = nodes[k].next
        BY <1>2, <1>5, <1>6, <2>3, <2>6, <3>1
      <4>2. CASE nodes[k].next = Null
        BY <1>6, <2>5, <4>1, <4>2
      <4>3. CASE nodes[k].next # Null
        BY <1>5, <1>6, <2>4, <4>1, <4>3
      <4> QED
        BY <4>1, <4>2, <4>3
    <3> QED
      BY <2>1, <3>2, <3>3 DEF ListSorted
  <2>7. CASE last # Null
    <3>1. last \in Live /\ nodes[last].next = n /\ n # Null /\ last < n
          /\ \A m \in Live : last < m => n <= m
      BY <1>5, <1>6, <2>4, <2>7
    <3>2. head' = head /\ head' \in Live' /\ \A k \in Live' : head' <= k
      BY <1>2, <1>5, <1>6, <2>3, <2>7, <3>1
    <3>3. ASSUME NEW k \in Live'
          PROVE  IF nodes'[k].next = Null THEN \A m \in Live' : m <= k
                 ELSE /\ nodes'[k].next \in Live' /\ k < nodes'[k].next
                      /\ \A m \in Live' : k < m => nodes'[k].next <= m
      <4>0. k \in Live /\ k # n /\ \A m \in Live' : m \in Live /\ m # n
        BY <1>6
      <4>1. CASE k = last
        <5>1. nodes'[k].next = nodes[n].next
          BY <1>2, <1>6, <2>7, <4>0, <4>1
        <5>2. CASE nodes[n].next = Null
          <6> SUFFICES ASSUME NEW m \in Live' PROVE m <= k
            BY <5>1, <5>2
          <6>0. m \in Live /\ m # n /\ m \in Nat /\ n \in Nat /\ last \in Nat
            BY <1>5, <1>6, <3>1, <4>0
          <6>1. m <= n /\ (last < m => n <= m)
            BY <2>2, <3>1, <5>2, <6>0
          <6> QED
            BY <4>1, <6>0, <6>1
        <5>3. CASE nodes[n].next # Null
          <6>1. nodes[n].next \in Live' /\ k < nodes[n].next
            <7>1. nodes[n].next \in Live /\ n < nodes[n].next /\ last < n
              BY <2>2, <3>1, <5>3
            <7>2. n \in Nat /\ last \in Nat /\ nodes[n].next \in Nat
              BY <1>5, <1>6, <3>1, <7>1
            <7>3. last < nodes[n].next /\ nodes[n].next # n
              BY <7>1, <7>2
            <7> QED
              BY <1>6, <4>1, <7>1, <7>3
          <6>2. ASSUME NEW m \in Live', k < m PROVE nodes[n].next <= m
            <7>0. m \in Live /\ m # n /\ m \in Nat /\ n \in Nat
              BY <1>5, <1>6, <4>0, <6>2
            <7>1. n < m
              BY <3>1, <4>1, <6>2, <7>0
            <7> QED
              BY <2>2, <4>0, <5>3, <7>1
          <6> QED
            BY <5>1, <5>3, <6>1, <6>2
        <5> QED
          BY <5>2, <5>3
      <4>2. CASE k # last
        <5>1. nodes'[k].next = nodes[k].next
          BY <1>2, <1>6, <4>0, <4>2
        <5>2. CASE nodes[k].next = Null
          BY <2>5, <4>0, <5>1, <5>2
        <5>3. CASE nodes[k].next # Null
          <6>1. nodes[k].next # n
            BY <1>5, <1>6, <2>4, <3>1, <4>0, <4>2, <5>3
          <6>2. nodes[k].next \in Live'
            BY <1>6, <2>4, <4>0, <5>3, <6>1
          <6> QED
            BY <2>4, <4>0, <5>1, <5>3, <6>2
        <5> QED
          BY <5>2, <5>3
      <4> QED
        BY <4>1, <4>2
    <3>4. head' # Null
      BY <2>3, <3>2
    <3> QED
      BY <2>1, <3>2, <3>3, <3>4 DEF ListSorted
  <2> QED
    BY <2>6, <2>7
<1>9. NamesOnce'
  BY <1>1, <1>4, <1>6 DEF NamesOnce
<1>10. \A u \in Threads : Searching(u)'
  <2>1. Searching(t)'
    BY <1>1 DEF Searching, Inside
  <2>2. ASSUME NEW u \in Threads, u # t PROVE Searching(u)'
    <3>1. Other(t) = u
      BY <2>2 DEF Other, Threads
    <3>2. th'[u].pc = "idle"
      BY <1>1, <1>3, <2>2, <3>1 DEF Others
    <3> QED
      BY <3>2 DEF Searching, Inside
  <2> QED
    BY <2>1, <2>2
<1>11. SessionsLive'
  BY <1>1, <1>3, <1>4, <1>6, <1>7 DEF SessionsLive
<1> QED
  BY <1>8, <1>9, <1>10, <1>11

-----------------------------------------------------------------------------
LEMMA NextListInv == IInv /\ ListInv /\ [Next]_vars => ListInv'
<1> SUFFICES ASSUME IInv, ListInv, [Next]_vars PROVE ListInv'
  OBVIOUS
<1>1. TypeOK /\ Named
  BY DEF IInv
<1>2. ASSUME NEW n \in Names, Replace(n) \/ Overwrite(n) PROVE ListInv'
  <2>1. FileChanges(n) /\ Rewrites(n)
    BY <1>1, <1>2, ReplaceEffect, OverwriteEffect
  <2>2. UNCHANGED <<cache, session, failed, tangled>>
    BY <2>1 DEF FileChanges
  <2>3. \A u \in Threads : SamePlace(u)
    BY <1>1, <2>1, RewritesLeaves DEF SamePlace
  <2> QED
    BY <1>1, <2>2, <2>3, StillListInv
<1>3. CASE \/ \E s \in Sessions, n \in Names, f \in Files : Setup(s, n, f)
           \/ \E n \in Names : Describe(n)
           \/ \E s \in Sessions : Adapt(s)
           \/ DescribeAgain \/ DescribeAnswer \/ AdaptAnswer
  BY <1>1, <1>3, RequestListInv
<1>4. ASSUME NEW s \in Sessions, Teardown(s) PROVE ListInv'
  <2>1. \A r \in Sessions : session'[r] \in {session[r], NoName}
    BY <1>1, <1>4 DEF Teardown, TypeOK
  <2> QED
    BY <1>1, <1>4, <2>1, StillListInv DEF Teardown, hist, SamePlace
<1>5. ASSUME NEW t \in Threads, enum_media(t) \/ FollowsFreed(t) PROVE ListInv'
  BY <1>1, <1>5, WalkListInv, InsertListInv, FailListInv, ParsingListInv DEF enum_media, Parsing
<1>6. CASE SetupAnswer
  BY <1>1, <1>6, SetupAnswerListInv
<1>7. CASE UNCHANGED vars
  BY <1>1, <1>7, StillListInv DEF vars, hist, SamePlace
<1> QED
  BY <1>2, <1>3, <1>4, <1>5, <1>6, <1>7 DEF Next

LEMMA ListInvInvariant == Spec => [](TypeOK /\ ListInv)
<1>1. Init => ListInv
  <2> SUFFICES ASSUME Init PROVE ListSorted /\ NamesOnce /\ (\A t \in Threads : Searching(t)) /\ SessionsLive
    BY DEF ListInv
  <2>1. Live = {} /\ head = Null
    BY DEF Init, Live, NodeIds
  <2>2. \A t \in Threads : th[t].pc = "idle"
    BY DEF Init, Idle
  <2>3. \A s \in Sessions : session[s] = NoName
    BY DEF Init
  <2> QED
    BY <2>1, <2>2, <2>3 DEF ListSorted, NamesOnce, Searching, Inside, SessionsLive
<1>2. IInv => TypeOK
  BY DEF IInv
<1> QED
  BY <1>1, <1>2, InitIsSound, NextKeeps, NextListInv, PTL DEF Spec

(* For any names, files and edits, and any interleaving of the two threads, the *)
(* list of descriptions ends, holds no freed one and none twice for a name,     *)
(* until a parse that fails meets the other thread (enum_media.c:14-45).        *)
THEOREM CacheStaysAList == Spec => []CacheIsAList
<1>1. TypeOK /\ ListInv => CacheIsAList
  BY ListInvShows
<1> QED
  BY <1>1, ListInvInvariant, PTL

(* Until then the presentation of a session is in the list or has left it with  *)
(* an error of its own file (enum_media.c:23-45, RTSP_setup.c:400,              *)
(* priority_decrease.c:16).                                                     *)
THEOREM SessionsKnown == Spec => []SessionsStayKnown
<1>1. TypeOK /\ ListInv => SessionsStayKnown
  BY ListInvShows
<1> QED
  BY <1>1, ListInvInvariant, PTL
=============================================================================
