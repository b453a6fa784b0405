----------------------------- MODULE Log_proofs -----------------------------
(***************************************************************************)
(* Proofs about Log, for every set of processes, of configured handles and *)
(* of messages, every interval and every number of rotated files: types,   *)
(* that rotations keep files, that files someone removed are left, and     *)
(* that lines are whole.                                                   *)
(***************************************************************************)
EXTENDS Log, SequenceTheorems, FiniteSetTheorems, WellFoundedInduction, TLAPS

(* The pieces there are, and a character of a line. *)
Parts == {"dump", "newline"} \cup UNION {{s.conf.funcs[k] : k \in 1 .. Len(s.conf.funcs)} : s \in Scenarios}
Char == Nat \X Parts \X Nat

(* A property that fails for a number fails for a least one. *)
LEMMA LeastNat ==
  ASSUME NEW T, T \subseteq Nat, T # {}
  PROVE  \E x \in T : \A y \in T : x <= y
<1>1. PICK x \in T : \A y \in T : ~(<<y, x>> \in OpToRel(<, Nat))
  BY NatLessThanWellFounded, WFMin
<1>2. \A y \in T : ~(y < x)
  BY <1>1 DEF OpToRel
<1> QED
  BY <1>2

\* Concatenation, kept folded.
Cat(u, v) == u \o v

\* join puts the elements of s together from the left.
Joins(join, s) == join = [i \in 1 .. Len(s) |-> IF i = 1 THEN s[i] ELSE Cat(join[i - 1], s[i])]

(* What puts a sequence together, element by element. *)
LEMMA JoinsSteps ==
  ASSUME NEW s \in Seq(Seq(Char)), NEW join, Joins(join, s)
  PROVE  /\ Len(s) > 0 => join[1] = s[1]
         /\ \A i \in 2 .. Len(s) : join[i] = Cat(join[i - 1], s[i])
<1>1. Len(s) \in Nat
  BY LenProperties
<1> PICK h : h = join
  OBVIOUS
<1>2. join = [i \in 1 .. Len(s) |-> IF i = 1 THEN s[i] ELSE Cat(h[i - 1], s[i])]
  BY DEF Joins
<1>3. \A i \in 1 .. Len(s) : join[i] = IF i = 1 THEN s[i] ELSE Cat(h[i - 1], s[i])
  BY <1>2, Zenon
<1>4. Len(s) > 0 => join[1] = s[1]
  BY <1>1, <1>3
<1>5. \A i \in 2 .. Len(s) : i \in 1 .. Len(s) /\ i # 1
  BY <1>1
<1>6. \A i \in 2 .. Len(s) : join[i] = Cat(h[i - 1], s[i])
  BY <1>3, <1>5, Zenon
<1> QED
  BY <1>4, <1>6

\* t begins with s.
Begins(s, t) == Len(s) <= Len(t) /\ \A i \in 1 .. Len(s) : s[i] = t[i]

(* Two sequences with a common beginning are put together alike so far. *)
LEMMA JoinsAlike ==
  ASSUME NEW s \in Seq(Seq(Char)), NEW t \in Seq(Seq(Char)), NEW join, NEW h, Joins(join, s), Joins(h, t),
         Begins(s, t), Len(s) > 0
  PROVE  join[Len(s)] = h[Len(s)]
<1>1. Len(s) \in Nat /\ Len(t) \in Nat /\ Len(s) <= Len(t) /\ \A i \in 1 .. Len(s) : s[i] = t[i]
  BY LenProperties DEF Begins
<1> DEFINE T == {i \in 1 .. Len(s) : join[i] # h[i]}
<1> SUFFICES ASSUME T # {} PROVE FALSE
  <2>1. Len(s) \in 1 .. Len(s)
    BY <1>1
  <2> QED
    BY <2>1
<1>2. PICK k \in T : \A l \in T : k <= l
  <2>1. T \subseteq Nat
    BY <1>1
  <2> HIDE DEF T
  <2> QED
    BY <2>1, LeastNat
<1>3. k \in 1 .. Len(s) /\ join[k] # h[k] /\ s[k] = t[k]
  BY <1>1, <1>2
<1>4. CASE k = 1
  <2>1. Len(s) > 0 /\ Len(t) > 0
    BY <1>1, <1>3
  <2>2. join[1] = s[1] /\ h[1] = t[1]
    BY <2>1, JoinsSteps, Zenon
  <2> QED
    BY <1>3, <1>4, <2>2
<1>5. CASE k # 1
  <2>1. k - 1 \in 1 .. Len(s) /\ k - 1 \notin T
    BY <1>1, <1>2, <1>3, <1>5
  <2>2. join[k - 1] = h[k - 1]
    BY <2>1
  <2>3. k \in 2 .. Len(s) /\ k \in 2 .. Len(t)
    BY <1>1, <1>3, <1>5
  <2>4. join[k] = Cat(join[k - 1], s[k]) /\ h[k] = Cat(h[k - 1], t[k])
    BY <2>3, JoinsSteps
  <2> QED
    BY <1>3, <2>2, <2>4
<1> QED
  BY <1>4, <1>5

(* What puts a sequence together puts together one that is longer by one. *)
LEMMA JoinsLonger ==
  ASSUME NEW s \in Seq(Seq(Char)), NEW m \in Seq(Char), NEW join, Joins(join, s), NEW t, t = Append(s, m)
  PROVE  LET h == [i \in 1 .. Len(t) |-> IF i <= Len(s) THEN join[i] ELSE IF i = 1 THEN m ELSE Cat(join[i - 1], m)]
         IN Joins(h, t)
<1> DEFINE h == [i \in 1 .. Len(t) |-> IF i <= Len(s) THEN join[i] ELSE IF i = 1 THEN m ELSE Cat(join[i - 1], m)]
           f == [i \in 1 .. Len(t) |-> IF i = 1 THEN t[i] ELSE Cat(h[i - 1], t[i])]
<1>1. /\ Len(s) \in Nat /\ Len(t) = Len(s) + 1 /\ t[Len(s) + 1] = m
      /\ \A i \in 1 .. Len(s) : t[i] = s[i]
  BY LenProperties, AppendProperties
<1>2. ASSUME NEW i \in 1 .. Len(t) PROVE h[i] = f[i]
  <2>1. CASE i <= Len(s) /\ i = 1
    BY <1>1, <2>1, JoinsSteps
  <2>2. CASE i <= Len(s) /\ i # 1
    <3>1. i \in 2 .. Len(s) /\ i - 1 \in 1 .. Len(t) /\ i - 1 <= Len(s)
      BY <1>1, <2>2
    <3>2. join[i] = Cat(join[i - 1], s[i]) /\ h[i] = join[i] /\ h[i - 1] = join[i - 1]
      BY <3>1, <2>2, JoinsSteps
    <3> QED
      BY <1>1, <2>2, <3>1, <3>2
  <2>3. CASE ~(i <= Len(s)) /\ i = 1
    BY <1>1, <2>3
  <2>4. CASE ~(i <= Len(s)) /\ i # 1
    <3>1. i = Len(s) + 1 /\ i - 1 \in 1 .. Len(t) /\ i - 1 <= Len(s)
      BY <1>1, <2>4
    <3>2. h[i] = Cat(join[i - 1], m) /\ h[i - 1] = join[i - 1] /\ t[i] = m
      BY <1>1, <2>4, <3>1
    <3> QED
      BY <2>4, <3>2
  <2> QED
    BY <2>1, <2>2, <2>3, <2>4
<1>3. h = f
  <2>1. h = [i \in 1 .. Len(t) |-> h[i]] /\ f = [i \in 1 .. Len(t) |-> f[i]]
    OBVIOUS
  <2> HIDE DEF h, f
  <2> QED
    BY <1>2, <2>1
<1>4. Joins(h, t)
  BY <1>3, Zenon DEF Joins
<1> QED
  BY <1>4

(* Every sequence can be put together. *)
LEMMA JoinsExists ==
  \A s \in Seq(Seq(Char)) : \E join : Joins(join, s)
<1> DEFINE T == {n \in Nat : \E s \in Seq(Seq(Char)) : Len(s) = n /\ ~ \E join : Joins(join, s)}
<1>1. T = {}
  <2> SUFFICES ASSUME T # {} PROVE FALSE
    OBVIOUS
  <2>1. PICK n \in T : \A k \in T : n <= k
    <3>1. T \subseteq Nat
      OBVIOUS
    <3> HIDE DEF T
    <3> QED
      BY <3>1, LeastNat
  <2>2. PICK s \in Seq(Seq(Char)) : Len(s) = n /\ ~ \E join : Joins(join, s)
    BY <2>1
  <2>3. CASE n = 0
    <3>1. 1 .. Len(s) = {}
      BY <2>2, <2>3
    <3> DEFINE join == [i \in 1 .. Len(s) |-> s[i]]
    <3>2. join = [i \in 1 .. Len(s) |-> IF i = 1 THEN s[i] ELSE Cat(join[i - 1], s[i])]
      BY <3>1
    <3>3. Joins(join, s)
      BY <3>2, Zenon DEF Joins
    <3> QED
      BY <2>2, <3>3
  <2>4. CASE n # 0
    <3>1. n \in Nat /\ n - 1 \in Nat /\ s # << >>
      BY <2>1, <2>2, <2>4, EmptySeq
    <3>2. PICK r \in Seq(Seq(Char)), m \in Seq(Char) : s = Append(r, m)
      BY <3>1, SequenceEmptyOrAppend
    <3>3. Len(r) = n - 1
      BY <2>2, <3>2, AppendProperties, LenProperties
    <3>4. n - 1 \notin T
      BY <2>1, <3>1
    <3>5. PICK join : Joins(join, r)
      BY <3>1, <3>2, <3>3, <3>4, Zenon
    <3> QED
      BY <2>2, <3>2, <3>5, JoinsLonger
  <2> QED
    BY <2>3, <2>4
<1> SUFFICES ASSUME NEW s \in Seq(Seq(Char)) PROVE \E join : Joins(join, s)
  OBVIOUS
<1>2. Len(s) \in Nat /\ Len(s) \notin T
  BY <1>1, LenProperties
<1> QED
  BY <1>2

(* FlattenSeq puts it together. *)
LEMMA FlattenIs ==
  ASSUME NEW s \in Seq(Seq(Char)), Len(s) > 0
  PROVE  \E join : Joins(join, s) /\ FlattenSeq(s) = join[Len(s)]
<1> DEFINE f == CHOOSE join : join = [i \in 1 .. Len(s) |-> IF i = 1 THEN s[i] ELSE join[i - 1] \o s[i]]
<1>1. \E join : join = [i \in 1 .. Len(s) |-> IF i = 1 THEN s[i] ELSE join[i - 1] \o s[i]]
  BY JoinsExists, Zenon DEF Joins, Cat
<1>2. f = [i \in 1 .. Len(s) |-> IF i = 1 THEN s[i] ELSE f[i - 1] \o s[i]]
  BY <1>1, Zenon
<1>3. Joins(f, s)
  BY <1>2, Zenon DEF Joins, Cat
<1>4. Len(s) # 0
  BY LenProperties
<1>5. FlattenSeq(s) = f[Len(s)]
  BY <1>4, Zenon DEF FlattenSeq
<1> HIDE DEF f
<1> QED
  BY <1>3, <1>5

(* One more message goes behind the others. *)
LEMMA FlattenAppend ==
  ASSUME NEW s \in Seq(Seq(Char)), NEW m \in Seq(Char)
  PROVE  FlattenSeq(Append(s, m)) = FlattenSeq(s) \o m
<1> DEFINE t == Append(s, m)
<1>1. /\ t \in Seq(Seq(Char)) /\ Len(t) = Len(s) + 1 /\ t[Len(s) + 1] = m /\ Len(s) \in Nat
      /\ \A i \in 1 .. Len(s) : t[i] = s[i]
  BY LenProperties, AppendProperties
<1> HIDE DEF t
<1>2. PICK h : Joins(h, t) /\ FlattenSeq(t) = h[Len(t)]
  <2>1. Len(t) > 0
    BY <1>1
  <2> QED
    BY <1>1, <2>1, FlattenIs, Zenon
<1>3. CASE Len(s) = 0
  <2>1. FlattenSeq(t) = m
    <3>1. Len(t) = 1 /\ t[1] = m
      BY <1>1, <1>3
    <3>2. Joins(h, t) /\ t \in Seq(Seq(Char)) /\ Len(t) > 0 /\ FlattenSeq(t) = h[1]
      BY <1>1, <1>2, <3>1
    <3>3. h[1] = t[1]
      BY <3>2, JoinsSteps, Zenon
    <3> QED
      BY <3>1, <3>2, <3>3, Zenon
  <2>2. FlattenSeq(s) = << >>
    BY <1>3, EmptySeq DEF FlattenSeq
  <2> QED
    BY <2>1, <2>2, ConcatEmptySeq DEF t
<1>4. CASE Len(s) # 0
  <2>1. PICK join : Joins(join, s) /\ FlattenSeq(s) = join[Len(s)]
    <3>1. Len(s) > 0
      BY <1>1, <1>4
    <3> QED
      BY <3>1, FlattenIs, Zenon
  <2>2. join[Len(s)] = h[Len(s)]
    <3>1. Begins(s, t) /\ Len(s) \in 1 .. Len(s)
      BY <1>1, <1>4 DEF Begins
    <3>2. t \in Seq(Seq(Char)) /\ Joins(join, s) /\ Joins(h, t)
      BY <1>1, <1>2, <2>1
    <3>3. Len(s) > 0
      BY <1>1, <1>4
    <3> QED
      BY <3>1, <3>2, <3>3, JoinsAlike, Zenon
  <2>3. Len(t) \in 2 .. Len(t) /\ Len(t) - 1 = Len(s)
    BY <1>1, <1>4
  <2>4. h[Len(t)] = Cat(h[Len(s)], t[Len(t)])
    <3>1. t \in Seq(Seq(Char)) /\ Joins(h, t)
      BY <1>1, <1>2
    <3>2. \A i \in 2 .. Len(t) : h[i] = Cat(h[i - 1], t[i])
      BY <3>1, JoinsSteps, Zenon
    <3>3. h[Len(t)] = Cat(h[Len(t) - 1], t[Len(t)])
      BY <2>3, <3>2, Zenon
    <3> QED
      BY <2>3, <3>3, Zenon
  <2> QED
    BY <1>1, <1>2, <2>1, <2>2, <2>4 DEF t, Cat
<1> QED
  BY <1>3, <1>4

(* The stream is a sequence of bytes. *)
LEMMA FlattenIsSeq ==
  \A s \in Seq(Seq(Char)) : FlattenSeq(s) \in Seq(Char)
<1> DEFINE T == {n \in Nat : \E s \in Seq(Seq(Char)) : Len(s) = n /\ FlattenSeq(s) \notin Seq(Char)}
<1>1. T = {}
  <2> SUFFICES ASSUME T # {} PROVE FALSE
    OBVIOUS
  <2>1. PICK n \in T : \A k \in T : n <= k
    <3>1. T \subseteq Nat
      OBVIOUS
    <3> HIDE DEF T
    <3> QED
      BY <3>1, LeastNat
  <2>2. PICK s \in Seq(Seq(Char)) : Len(s) = n /\ FlattenSeq(s) \notin Seq(Char)
    BY <2>1
  <2>3. CASE n = 0
    <3>1. FlattenSeq(s) = << >>
      BY <2>2, <2>3, EmptySeq DEF FlattenSeq
    <3> QED
      BY <2>2, <3>1, EmptySeq
  <2>4. CASE n # 0
    <3>1. n \in Nat /\ n - 1 \in Nat /\ s # << >>
      BY <2>1, <2>2, <2>4, EmptySeq
    <3>2. PICK r \in Seq(Seq(Char)), m \in Seq(Char) : s = Append(r, m)
      BY <3>1, SequenceEmptyOrAppend
    <3>3. Len(r) = n - 1
      BY <2>2, <3>2, AppendProperties, LenProperties
    <3>4. n - 1 \notin T
      BY <2>1, <3>1
    <3>5. FlattenSeq(r) \in Seq(Char)
      BY <3>1, <3>2, <3>3, <3>4, Zenon
    <3>6. FlattenSeq(s) = FlattenSeq(r) \o m
      BY <3>2, FlattenAppend
    <3> QED
      BY <2>2, <3>2, <3>5, <3>6, ConcatProperties
  <2> QED
    BY <2>3, <2>4
<1> SUFFICES ASSUME NEW s \in Seq(Seq(Char)) PROVE FlattenSeq(s) \in Seq(Char)
  OBVIOUS
<1>2. Len(s) \in Nat /\ Len(s) \notin T
  BY <1>1, LenProperties
<1> QED
  BY <1>2

(* Sequences can be put together in any order. *)
LEMMA Associative ==
  \A u, v, w \in Seq(Char) : (u \o v) \o w = u \o (v \o w)
BY ConcatAssociative, Z3

(* ... also sequences of sequences. *)
LEMMA AssociativeLines ==
  \A u, v, w \in Seq(Seq(Char)) : (u \o v) \o w = u \o (v \o w)
BY ConcatAssociative, Z3

(* Two sequences are put together as what they make up is. *)
LEMMA FlattenConcat ==
  ASSUME NEW s \in Seq(Seq(Char))
  PROVE  \A t \in Seq(Seq(Char)) : FlattenSeq(s \o t) = FlattenSeq(s) \o FlattenSeq(t)
<1> DEFINE Fails(t) == FlattenSeq(s \o t) # FlattenSeq(s) \o FlattenSeq(t)
           T == {n \in Nat : \E t \in Seq(Seq(Char)) : Len(t) = n /\ Fails(t)}
<1>1. T = {}
  <2> SUFFICES ASSUME T # {} PROVE FALSE
    OBVIOUS
  <2>1. PICK n \in T : \A k \in T : n <= k
    <3>1. T \subseteq Nat
      OBVIOUS
    <3> HIDE DEF T
    <3> QED
      BY <3>1, LeastNat
  <2>2. PICK t \in Seq(Seq(Char)) : Len(t) = n /\ Fails(t)
    BY <2>1
  <2>0. FlattenSeq(s) \in Seq(Char)
    BY FlattenIsSeq
  <2>3. CASE n = 0
    <3>1. t = << >>
      BY <2>2, <2>3, EmptySeq
    <3>2. FlattenSeq(t) = << >>
      BY <2>2, <2>3, <3>1 DEF FlattenSeq
    <3>3. s \o t = s /\ FlattenSeq(s) \o << >> = FlattenSeq(s)
      BY <2>0, <3>1, ConcatEmptySeq
    <3> QED
      BY <2>2, <3>2, <3>3
  <2>4. CASE n # 0
    <3>1. n \in Nat /\ n - 1 \in Nat /\ t # << >>
      BY <2>1, <2>2, <2>4, EmptySeq
    <3>2. PICK r \in Seq(Seq(Char)), m \in Seq(Char) : t = Append(r, m)
      BY <3>1, SequenceEmptyOrAppend
    <3>3. Len(r) = n - 1 /\ Len(r) \in Nat
      BY <2>2, <3>2, AppendProperties, LenProperties
    <3>4. n - 1 \notin T
      BY <2>1, <3>1
    <3>5. FlattenSeq(s \o r) = FlattenSeq(s) \o FlattenSeq(r)
      <4>1. ~Fails(r)
        BY <3>1, <3>2, <3>3, <3>4, Zenon
      <4> QED
        BY <4>1
    <3>6. s \o t = Append(s \o r, m) /\ s \o r \in Seq(Seq(Char))
      <4>1. t = r \o <<m>> /\ <<m>> \in Seq(Seq(Char))
        BY <3>2, AppendIsConcat, SMTT(30)
      <4>2. s \o (r \o <<m>>) = (s \o r) \o <<m>>
        BY <3>2, <4>1, AssociativeLines, ZenonT(30)
      <4>3. s \o r \in Seq(Seq(Char))
        BY ConcatProperties
      <4> QED
        BY <4>1, <4>2, <4>3, AppendIsConcat
    <3>7. /\ FlattenSeq(s \o t) = FlattenSeq(s \o r) \o m
          /\ FlattenSeq(t) = FlattenSeq(r) \o m
      BY <3>2, <3>6, FlattenAppend
    <3>8. (FlattenSeq(s) \o FlattenSeq(r)) \o m = FlattenSeq(s) \o (FlattenSeq(r) \o m)
      <4>1. FlattenSeq(r) \in Seq(Char)
        BY FlattenIsSeq
      <4> QED
        BY <2>0, <4>1, Associative
    <3> QED
      BY <2>2, <3>5, <3>7, <3>8
  <2> QED
    BY <2>3, <2>4
<1> SUFFICES ASSUME NEW t \in Seq(Seq(Char)) PROVE ~Fails(t)
  OBVIOUS
<1>2. Len(t) \in Nat /\ Len(t) \notin T
  BY <1>1, LenProperties
<1> QED
  BY <1>2

-----------------------------------------------------------------------------
(* Types. *)

BufType == [size : Nat, ptr : Nat, remain : Int, text : Seq(Char)]
Msg == [id : Nat, len : Nat, args : BOOLEAN, dump : BOOLEAN, day : Nat,
        stale : BOOLEAN, redone : BOOLEAN, mixed : BOOLEAN]
Pcs == {"idle", "fill", "lock", "mutex", "section", "rename", "release", "open", "write", "test"}
Whys == {"none", "grow", "SIZE", "PER_DAY", "PER_HOUR"}
Thread == [pc : Pcs, i : Nat \ {0}, msg : Msg, why : Whys, new : Nat]
Entry == [proc : Procs, msg : Msg, text : Seq(Char), until : Nat]

\* Nothing needs to be known of two of the counters.
HandleOK(h) ==
  /\ h = [line |-> h.line, hex |-> h.hex, open |-> h.open, fd |-> h.fd, test |-> h.test,
          stsize |-> h.stsize, skip |-> h.skip, cache1 |-> h.cache1, rday |-> h.rday]
  /\ h.line \in BufType /\ h.hex \in BufType
  /\ h.open \in BOOLEAN /\ h.fd \in Nat /\ h.test \in 1 .. TestInterval
  /\ h.cache1 \in Nat /\ h.rday \in Nat

\* What is in a buffer goes as far as its pointer.
InOrder(b) == b.ptr = b.size - 2 - b.remain /\ b.ptr <= Len(b.text)

ConfOK == \E s \in Scenarios : conf = s.conf /\ kinds = s.kinds
ThreadsOK ==
  /\ th \in [Procs -> [Threads -> Thread]]
  /\ \A p \in Procs, t \in Threads : th[p][t].i <= Len(conf.funcs) + 1
HandlesOK ==
  /\ g = [p \in Procs |-> g[p]]
  /\ \A p \in Procs : HandleOK(g[p])
BuffersOK == \A p \in Procs, t \in Threads : th[p][t].pc # "idle" => InOrder(Buf(p, t))
LocksOK ==
  /\ mutex \in [Procs -> {"none", "nobody"} \cup Threads]
  /\ owner \in Procs \cup {0}
  /\ life \in [Procs -> {"unborn", "runs", "ended"}]
  /\ leaked \in BOOLEAN
FilesOK ==
  /\ data \in Seq(Seq(Entry))
  /\ DOMAIN names \subseteq Int /\ names = [n \in DOMAIN names |-> names[n]]
  /\ \A n \in DOMAIN names : names[n] \in 1 .. Len(data)
  /\ DOMAIN gone \subseteq 1 .. Len(data) /\ gone = [i \in DOMAIN gone |-> gone[i]]
  /\ \A i \in DOMAIN gone : gone[i] \in Nat
  /\ \A p \in Procs : g[p].fd \in 1 .. Len(data)
TimesOK ==
  /\ now \in Nat \ {0}
  /\ left \in [{"calls", "faults", "removals", "forks", "exits", "days"} -> Nat]

TypeInv == ConfOK /\ ThreadsOK /\ HandlesOK /\ BuffersOK /\ LocksOK /\ FilesOK /\ TimesOK

(* Processes are numbered from 1 on, and 0 is none. *)
LEMMA ProcsAreNats ==
  /\ Procs \subseteq Nat \ {0} /\ 1 \in Procs /\ 0 \notin Procs
  /\ \A p \in Procs : 1 .. p \subseteq Procs
<1>1. Procs = 1 .. Cardinality(Procs) /\ IsFiniteSet(Procs) /\ 1 \in Procs
  BY LogAssumption
<1>2. Cardinality(Procs) \in Nat
  BY <1>1, FS_CardinalityType
<1> DEFINE c == Cardinality(Procs)
<1> HIDE DEF c
<1>3. Procs = 1 .. c /\ c \in Nat
  BY <1>1, <1>2 DEF c
<1> QED
  BY <1>1, <1>3

(* What is assumed of the handle and of the messages. *)
LEMMA ConfFacts ==
  ASSUME ConfOK
  PROVE  /\ \A k \in 1 .. Len(conf.funcs) : conf.funcs[k] \in Parts
         /\ conf.how \in {"first", "each", "console"}
         /\ conf.how = "console" <=> conf.output # "FILE"
         /\ conf.funcs \in Seq(STRING) /\ Len(conf.funcs) \in Nat \ {0}
         /\ IsLineStyle(conf.funcs)
         /\ conf.bufsize \in Nat /\ conf.max \in Nat /\ 2 < conf.bufsize /\ conf.bufsize <= conf.max
         /\ Len(conf.funcs) + 2 <= conf.max /\ Len(conf.funcs) + 3 <= MaxSize
         /\ \A m \in kinds : /\ m.len \in Nat /\ m.args \in BOOLEAN /\ m.dump \in BOOLEAN
                             /\ m.dump => m.len > 0
<1>1. PICK s \in Scenarios : conf = s.conf /\ kinds = s.kinds
  BY DEF ConfOK
<1>2. IsLineStyle(conf.funcs)
  BY <1>1, HandlesAssumption
<1>3. conf.funcs \in Seq(STRING) /\ Len(conf.funcs) \in Nat \ {0}
  <2>1. conf.funcs \in Seq(STRING) /\ \E k \in 1 .. Len(conf.funcs) : TRUE
    BY <1>2 DEF IsLineStyle
  <2>2. Len(conf.funcs) \in Nat
    BY <2>1, LenProperties
  <2> QED
    BY <2>1, <2>2
<1>4. \A k \in 1 .. Len(conf.funcs) : conf.funcs[k] \in Parts
  BY <1>1 DEF Parts
<1> QED
  BY <1>1, <1>2, <1>3, <1>4, HandlesAssumption, MessagesAssumption

(* The part up to the pointer grows by what is put there. *)
LEMMA PutCorrect ==
  ASSUME NEW b \in BufType, InOrder(b), NEW chars \in Seq(Char)
  PROVE  LET c == Put(b, chars)
         IN /\ c \in BufType /\ InOrder(c)
            /\ c.size = b.size /\ c.ptr = b.ptr + Len(chars) /\ c.remain = b.remain - Len(chars)
            /\ SubSeq(c.text, 1, c.ptr) = SubSeq(b.text, 1, b.ptr) \o chars
<1> DEFINE n == Len(chars)
           u == SubSeq(b.text, 1, b.ptr)
           w == SubSeq(b.text, b.ptr + n + 1, Len(b.text))
           c == Put(b, chars)
           v == u \o chars
<1>1. /\ b.text \in Seq(Char) /\ Len(b.text) \in Nat /\ n \in Nat /\ b.ptr \in Nat
      /\ b.size \in Nat /\ b.remain \in Int
      /\ b.ptr = b.size - 2 - b.remain /\ b.ptr <= Len(b.text)
  BY LenProperties DEF BufType, InOrder
<1>2. \A i \in 1 .. Len(b.text) : b.text[i] \in Char
  BY <1>1, ElementOfSeq
<1>3. u \in Seq(Char) /\ Len(u) = b.ptr
  <2>1. \A i \in 1 .. b.ptr : b.text[i] \in Char
    BY <1>1, <1>2
  <2>2. /\ u \in Seq(Char) /\ Len(u) = IF 1 <= b.ptr THEN b.ptr - 1 + 1 ELSE 0
    BY <1>1, <2>1, SubSeqProperties
  <2> QED
    BY <1>1, <2>2
<1>4. w \in Seq(Char)
  <2>1. \A i \in b.ptr + n + 1 .. Len(b.text) : b.text[i] \in Char
    BY <1>1, <1>2
  <2>2. b.ptr + n + 1 \in Int /\ Len(b.text) \in Int
    BY <1>1
  <2> QED
    BY <2>1, <2>2, SubSeqProperties
<1>5. v \in Seq(Char) /\ Len(v) = b.ptr + n
  BY <1>3, ConcatProperties
<1>6. /\ v \o w \in Seq(Char) /\ Len(v \o w) = b.ptr + n + Len(w) /\ Len(w) \in Nat
      /\ SubSeq(v \o w, 1, b.ptr + n) = v
  <2>1. v \o w \in Seq(Char) /\ Len(v \o w) = Len(v) + Len(w) /\ Len(w) \in Nat
    BY <1>4, <1>5, ConcatProperties, LenProperties
  <2>2. SubSeq(v \o w, 1, Len(v)) = v
    <3>1. CASE Len(v) = 0
      <4>1. v = << >>
        BY <1>5, <3>1, EmptySeq
      <4> QED
        BY <2>1, <3>1, <4>1, SubSeqEmpty
    <3>2. CASE Len(v) # 0
      <4>1. Len(v) \in Nat /\ 1 \in 1 .. Len(v) /\ Len(v) \in 1 .. Len(v)
        BY <1>5, <3>2, LenProperties
      <4>2. SubSeq(v \o w, 1, Len(v)) = SubSeq(v, 1, Len(v))
        BY <1>4, <1>5, <4>1, SubSeqOfConcat1
      <4> QED
        BY <1>5, <4>2, SubSeqFull
    <3> QED
      BY <3>1, <3>2
  <2> QED
    BY <1>5, <2>1, <2>2
<1> PICK d : d = c
  OBVIOUS
<1>7. d = [b EXCEPT !.text = v \o w, !.ptr = b.ptr + n, !.remain = b.remain - n]
  BY DEF Put
<1> HIDE DEF u, w, n, v, c
<1>8. d.text = v \o w /\ d.ptr = b.ptr + n /\ d.remain = b.remain - n /\ d.size = b.size /\ d \in BufType
  <2>1. b.ptr + n \in Nat /\ b.remain - n \in Int
    BY <1>1
  <2> PICK z \in Seq(Char) : z = v \o w
    BY <1>6
  <2> PICK k \in Nat : k = b.ptr + n
    BY <2>1
  <2> PICK r \in Int : r = b.remain - n
    BY <2>1
  <2>2. d = [b EXCEPT !.text = z, !.ptr = k, !.remain = r]
    BY <1>7
  <2>3. d \in BufType /\ d.text = z /\ d.ptr = k /\ d.remain = r /\ d.size = b.size
    BY <2>2 DEF BufType
  <2> QED
    BY <2>3
<1>9. InOrder(d)
  <2>1. Len(d.text) = b.ptr + n + Len(w) /\ Len(w) \in Nat
    BY <1>6, <1>8
  <2> QED
    BY <1>1, <1>8, <2>1, SMTT(30) DEF InOrder
<1>10. SubSeq(d.text, 1, d.ptr) = u \o chars
  BY <1>6, <1>8 DEF v
<1> QED
  BY <1>8, <1>9, <1>10 DEF n, u, c

(* The text of a piece. *)
LEMMA CharsType ==
  ASSUME NEW p \in Nat, NEW id \in Nat, NEW piece \in Parts, NEW n \in Int, NEW date \in Nat
  PROVE  /\ Chars(p, id, piece, n, date) \in Seq(Char)
         /\ n \in Nat => Len(Chars(p, id, piece, n, date)) = n
<1> DEFINE third == IF piece = "date" THEN date ELSE IF piece = "pid" THEN p ELSE 0
<1>1. third \in Nat
  OBVIOUS
<1> HIDE DEF third
<1>2. <<id, piece, third>> \in Char
  BY <1>1 DEF Char
<1> PICK x \in Char : x = <<id, piece, third>>
  BY <1>2
<1>3. Chars(p, id, piece, n, date) = [k \in 1 .. n |-> x]
  BY DEF Chars, third
<1>4. CASE n \in Nat
  <2>1. [k \in 1 .. n |-> x] \in [1 .. n -> Char]
    OBVIOUS
  <2>2. [k \in 1 .. n |-> x] \in Seq(Char)
    BY <1>4, <2>1, SeqDef
  <2>3. Len([k \in 1 .. n |-> x]) = n
    BY <1>4, <2>2, LenProperties
  <2> QED
    BY <1>3, <2>2, <2>3
<1>5. CASE n \notin Nat
  <2>1. 1 .. n = {} /\ 1 .. 0 = {}
    BY <1>5
  <2>2. [k \in 1 .. n |-> x] \in [1 .. 0 -> Char]
    BY <2>1
  <2> QED
    BY <1>3, <1>5, <2>2, SeqDef
<1> QED
  BY <1>4, <1>5

(* The piece at which the style functions stop: the first that does not fit. *)
LEMMA StopFirst ==
  ASSUME NEW b, NEW i \in Nat \ {0}, NEW len, conf.funcs \in Seq(STRING), i <= Len(conf.funcs) + 1
  PROVE  /\ Stop(b, i, len) \in i .. Len(conf.funcs) + 1
         /\ \A k \in i .. Stop(b, i, len) - 1 : Fits(b, conf.funcs[k], LengthOf(i, k, len))
         /\ Stop(b, i, len) <= Len(conf.funcs) =>
              ~Fits(b, conf.funcs[Stop(b, i, len)], LengthOf(i, Stop(b, i, len), len))
<1> DEFINE n == Len(conf.funcs)
           stuck == {k \in i .. n : ~Fits(b, conf.funcs[k], LengthOf(i, k, len))}
           all == stuck \cup {n + 1}
           stop == Stop(b, i, len)
<1>1. n \in Nat
  BY LenProperties
<1> HIDE DEF n
<1>2. stuck \subseteq i .. n
  OBVIOUS
<1>3. \E k \in all : \A j \in stuck : k <= j
  <2>1. CASE stuck = {}
    BY <2>1
  <2>2. CASE stuck # {}
    <3> HIDE DEF stuck
    <3>1. stuck \subseteq Nat
      BY <1>1, <1>2
    <3>2. PICK k \in stuck : \A j \in stuck : k <= j
      BY <2>2, <3>1, LeastNat
    <3> QED
      BY <3>2
  <2> QED
    BY <2>1, <2>2
<1>4. stop = CHOOSE k \in all : \A j \in stuck : k <= j
  BY DEF Stop, n
<1>5. stop \in all /\ \A j \in stuck : stop <= j
  <2> HIDE DEF stop, all, stuck
  <2> QED
    BY <1>3, <1>4, Zenon
<1> HIDE DEF stop
<1>6. stop \in i .. n + 1
  BY <1>1, <1>2, <1>5 DEF n
<1>7. ASSUME NEW k \in i .. stop - 1 PROVE Fits(b, conf.funcs[k], LengthOf(i, k, len))
  <2>1. k \in i .. n /\ ~(stop <= k)
    BY <1>1, <1>6
  <2>2. k \notin stuck
    BY <1>5, <2>1
  <2> QED
    BY <2>1, <2>2
<1>8. ASSUME stop <= n PROVE ~Fits(b, conf.funcs[stop], LengthOf(i, stop, len))
  BY <1>1, <1>5, <1>6, <1>8
<1> QED
  BY <1>6, <1>7, <1>8 DEF n, stop

\* The pieces from one to another, the last one excluded.
Piece(p, id, k, len, date) ==
  Chars(p, id, conf.funcs[k], IF conf.funcs[k] = "format" THEN len ELSE 1, date)
Pieces(p, id, from, to, len, date) == [k \in 1 .. to - from |-> Piece(p, id, from + k - 1, len, date)]

(* A piece of a line is text. *)
LEMMA PieceType ==
  ASSUME ConfOK, NEW p \in Nat, NEW id \in Nat, NEW len \in Nat, NEW date \in Nat,
         NEW k \in 1 .. Len(conf.funcs)
  PROVE  /\ Piece(p, id, k, len, date) \in Seq(Char)
         /\ Len(Piece(p, id, k, len, date)) = IF conf.funcs[k] = "format" THEN len ELSE 1
<1>1. conf.funcs[k] \in Parts
  BY ConfFacts
<1> DEFINE n == IF conf.funcs[k] = "format" THEN len ELSE 1
<1>2. n \in Nat
  OBVIOUS
<1> HIDE DEF n
<1>3. Chars(p, id, conf.funcs[k], n, date) \in Seq(Char) /\ Len(Chars(p, id, conf.funcs[k], n, date)) = n
  <2> PICK piece \in Parts : piece = conf.funcs[k]
    BY <1>1
  <2>1. Chars(p, id, piece, n, date) \in Seq(Char) /\ Len(Chars(p, id, piece, n, date)) = n
    BY <1>2, CharsType
  <2> QED
    BY <2>1
<1> QED
  BY <1>3 DEF Piece, n

(* The pieces that fit are a sequence of texts. *)
LEMMA PiecesType ==
  ASSUME ConfOK, NEW p \in Nat, NEW id \in Nat, NEW len \in Nat, NEW date \in Nat,
         NEW from \in Nat \ {0}, NEW to \in from .. Len(conf.funcs) + 1
  PROVE  /\ Pieces(p, id, from, to, len, date) \in Seq(Seq(Char))
         /\ Len(Pieces(p, id, from, to, len, date)) = to - from
<1>1. Len(conf.funcs) \in Nat /\ to - from \in Nat
  BY ConfFacts
<1>2. ASSUME NEW k \in 1 .. to - from PROVE Piece(p, id, from + k - 1, len, date) \in Seq(Char)
  <2>1. from + k - 1 \in 1 .. Len(conf.funcs)
    BY <1>1
  <2> QED
    BY <2>1, PieceType
<1> DEFINE n == to - from
           f == [k \in 1 .. n |-> Piece(p, id, from + k - 1, len, date)]
<1>3. n \in Nat /\ f \in [1 .. n -> Seq(Char)]
  BY <1>1, <1>2
<1>4. f \in Seq(Seq(Char))
  <2> HIDE DEF f, n
  <2> QED
    BY <1>3, SeqDef
<1>5. Len(f) = n
  <2>1. DOMAIN f = 1 .. n
    OBVIOUS
  <2> HIDE DEF f, n
  <2> QED
    BY <1>3, <1>4, <2>1, LenProperties
<1> QED
  BY <1>4, <1>5 DEF Pieces

\* What the style functions leave before a dump is put behind them.
Styled(p, t, len, stop) ==
  Put(Buf(p, t), FlattenSeq(Pieces(p, th[p][t].msg.id, th[p][t].i, stop, len, Date(p))))

(* What a call puts into the buffer is text, and for a dump more of it. *)
LEMMA FilledIs ==
  ASSUME NEW p, NEW t, NEW len, NEW stop
  PROVE  Filled(p, t, len, stop) =
           IF th[p][t].msg.dump /\ stop > Len(conf.funcs)
           THEN Dumped(Styled(p, t, len, stop), p, th[p][t].msg) ELSE Styled(p, t, len, stop)
BY DEF Filled, Styled, Pieces, Piece

\* What a dump puts into the buffer.
Shown(b, p, msg) == Chars(p, msg.id, "dump", IF msg.len < b.remain THEN msg.len ELSE b.remain, 0)

(* A dump keeps the buffer in order. *)
LEMMA DumpedType ==
  ASSUME NEW b \in BufType, InOrder(b), NEW p \in Nat, NEW msg \in Msg
  PROVE  /\ Dumped(b, p, msg) \in BufType /\ InOrder(Dumped(b, p, msg)) /\ Dumped(b, p, msg).size = b.size
         /\ Shown(b, p, msg) \in Seq(Char)
         /\ Dumped(b, p, msg).ptr = b.ptr + Len(Shown(b, p, msg))
         /\ Len(Dumped(b, p, msg).text) = Len(Put(b, Shown(b, p, msg)).text)
         /\ \A k \in 1 .. Len(Dumped(b, p, msg).text) :
              Dumped(b, p, msg).text[k] =
                IF k = Dumped(b, p, msg).ptr THEN <<msg.id, "newline", 0>> ELSE Put(b, Shown(b, p, msg)).text[k]
<1> DEFINE n == IF msg.len < b.remain THEN msg.len ELSE b.remain
           chars == Chars(p, msg.id, "dump", n, 0)
           full == Put(b, chars)
<1>1. n \in Int /\ msg.id \in Nat
  BY DEF Msg, BufType
<1> HIDE DEF n
<1>2. chars \in Seq(Char)
  <2> PICK i \in Nat : i = msg.id
    BY <1>1
  <2> PICK piece \in Parts : piece = "dump"
    BY DEF Parts
  <2> PICK zero \in Nat : zero = 0
    OBVIOUS
  <2>1. Chars(p, i, piece, n, zero) \in Seq(Char)
    BY <1>1, CharsType
  <2> QED
    BY <2>1
<1> PICK d : d = Dumped(b, p, msg)
  OBVIOUS
<1>3. d = [full EXCEPT !.text[full.ptr] = <<msg.id, "newline", 0>>]
  BY DEF Dumped, n
<1> HIDE DEF chars
<1>4. full \in BufType /\ InOrder(full) /\ full.size = b.size /\ full.ptr = b.ptr + Len(chars)
  BY <1>2, PutCorrect
<1> HIDE DEF full
<1>5. <<msg.id, "newline", 0>> \in Char
  <2> PICK i \in Nat : i = msg.id
    BY <1>1
  <2>1. <<i, "newline", 0>> \in Nat \X Parts \X Nat
    BY DEF Parts
  <2> QED
    BY <2>1 DEF Char
<1> PICK x \in Char : x = <<msg.id, "newline", 0>>
  BY <1>5
<1>6. full.text \in Seq(Char) /\ Len(full.text) \in Nat
  BY <1>4, LenProperties DEF BufType
<1> DEFINE z == [full.text EXCEPT ![full.ptr] = x]
<1>7. /\ z \in Seq(Char) /\ Len(z) = Len(full.text)
      /\ \A k \in 1 .. Len(full.text) : z[k] = IF k = full.ptr THEN x ELSE full.text[k]
  <2> PICK s \in Seq(Char) : s = full.text
    BY <1>6
  <2> PICK q \in Nat : q = full.ptr
    BY <1>4 DEF BufType
  <2> DEFINE y == [s EXCEPT ![q] = x]
  <2>1. DOMAIN s = 1 .. Len(s) /\ Len(s) \in Nat /\ \A k \in 1 .. Len(s) : s[k] \in Char
    BY LenProperties, ElementOfSeq
  <2>2. y = [k \in 1 .. Len(s) |-> IF k = q THEN x ELSE s[k]]
    BY <2>1
  <2>3. y \in [1 .. Len(s) -> Char]
    BY <2>1, <2>2
  <2>4. y \in Seq(Char)
    BY <2>1, <2>3, SeqDef
  <2>5. Len(y) = Len(s)
    BY <2>1, <2>2, <2>4, LenProperties
  <2> QED
    BY <2>2, <2>4, <2>5
<1>8. d = [full EXCEPT !.text = z]
  BY <1>3
<1> HIDE DEF z
<1>9. d \in BufType /\ d.text = z /\ d.ptr = full.ptr /\ d.remain = full.remain /\ d.size = full.size
  <2> PICK y \in Seq(Char) : y = z
    BY <1>7
  <2> QED
    BY <1>4, <1>8 DEF BufType
<1>10. InOrder(d)
  BY <1>4, <1>7, <1>9 DEF InOrder
<1> QED
  BY <1>2, <1>4, <1>7, <1>9, <1>10 DEF n, chars, full, Shown

(* A dump leaves the buffer of its type and in order. *)
LEMMA DumpedKeeps ==
  ASSUME NEW b \in BufType, InOrder(b), NEW p \in Nat, NEW msg \in Msg
  PROVE  Dumped(b, p, msg) \in BufType /\ InOrder(Dumped(b, p, msg)) /\ Dumped(b, p, msg).size = b.size
BY DumpedType, Zenon

-----------------------------------------------------------------------------
(* What the steps do to the types of the variables. *)
(* What the types say of one thread and its process. *)
LEMMA ThreadFacts ==
  ASSUME TypeInv, NEW p \in Procs, NEW t \in Threads
  PROVE  /\ th[p][t] \in Thread /\ th[p][t].msg \in Msg /\ th[p][t].i \in 1 .. Len(conf.funcs) + 1
         /\ HandleOK(g[p]) /\ Buf(p, t) \in BufType /\ Date(p) \in Nat /\ p \in Nat
         /\ Sibling(t) \in Threads /\ Sibling(t) # t /\ (\A u \in Threads : u = t \/ u = Sibling(t))
         /\ MaxOf(p, t) \in Nat /\ Which(p, t) \in {"hex", "line"}
         /\ th[p][t].pc # "idle" => InOrder(Buf(p, t))
<1>1. th[p][t] \in Thread /\ th[p][t].i <= Len(conf.funcs) + 1
  BY DEF TypeInv, ThreadsOK
<1>2. th[p][t].msg \in Msg /\ th[p][t].i \in Nat \ {0}
  BY <1>1 DEF Thread
<1>3. th[p][t].i \in 1 .. Len(conf.funcs) + 1
  BY <1>1, <1>2, ConfFacts DEF TypeInv
<1>4. HandleOK(g[p])
  BY DEF TypeInv, HandlesOK
<1>5. Buf(p, t) \in BufType
  BY <1>4 DEF Buf, Which, HandleOK
<1>6. Date(p) \in Nat /\ p \in Nat
  BY <1>4, ProcsAreNats DEF Date, HandleOK, TypeInv, TimesOK
<1>7. Sibling(t) \in Threads /\ Sibling(t) # t /\ (\A u \in Threads : u = t \/ u = Sibling(t))
  BY DEF Sibling, Threads
<1>8. MaxOf(p, t) \in Nat
  BY ConfFacts, LogAssumption DEF MaxOf, TypeInv
<1>9. Which(p, t) \in {"hex", "line"}
  BY DEF Which
<1>10. th[p][t].pc # "idle" => InOrder(Buf(p, t))
  BY DEF TypeInv, BuffersOK
<1> QED
  BY <1>1, <1>2, <1>3, <1>4, <1>5, <1>6, <1>7, <1>8, <1>9, <1>10

(* The pieces that fit leave the buffer of its type and in order. *)
LEMMA FilledType ==
  ASSUME TypeInv, NEW p \in Procs, NEW t \in Threads, th[p][t].pc # "idle",
         NEW len \in Nat, NEW stop \in th[p][t].i .. Len(conf.funcs) + 1
  PROVE  LET b == Filled(p, t, len, stop)
         IN b \in BufType /\ InOrder(b) /\ b.size = Buf(p, t).size
<1> DEFINE i == th[p][t].i
           id == th[p][t].msg.id
           s == Styled(p, t, len, stop)
<1>1. i \in Nat \ {0} /\ id \in Nat /\ Date(p) \in Nat /\ p \in Nat /\ th[p][t].msg \in Msg
      /\ Buf(p, t) \in BufType /\ InOrder(Buf(p, t))
  <2>1. /\ th[p][t].msg \in Msg /\ th[p][t].i \in 1 .. Len(conf.funcs) + 1
        /\ Date(p) \in Nat /\ p \in Nat /\ Buf(p, t) \in BufType /\ InOrder(Buf(p, t))
    BY ThreadFacts
  <2>2. th[p][t].msg.id \in Nat
    BY <2>1 DEF Msg
  <2>3. th[p][t].i \in Nat \ {0}
    BY <2>1, ConfFacts DEF TypeInv
  <2> QED
    BY <2>1, <2>2, <2>3
<1>2. stop \in i .. Len(conf.funcs) + 1
  OBVIOUS
<1> HIDE DEF i, id
<1>3. Pieces(p, id, i, stop, len, Date(p)) \in Seq(Seq(Char))
  BY <1>1, <1>2, PiecesType DEF TypeInv
<1>4. FlattenSeq(Pieces(p, id, i, stop, len, Date(p))) \in Seq(Char)
  BY <1>3, FlattenIsSeq
<1>5. s \in BufType /\ InOrder(s) /\ s.size = Buf(p, t).size
  BY <1>1, <1>4, PutCorrect DEF Styled, i, id
<1> HIDE DEF s
<1>6. Dumped(s, p, th[p][t].msg) \in BufType /\ InOrder(Dumped(s, p, th[p][t].msg))
      /\ Dumped(s, p, th[p][t].msg).size = Buf(p, t).size
  <2> PICK m \in Msg : m = th[p][t].msg
    BY <1>1
  <2>1. Dumped(s, p, m) \in BufType /\ InOrder(Dumped(s, p, m)) /\ Dumped(s, p, m).size = s.size
    <3>1. InOrder(s) /\ s \in BufType /\ p \in Nat /\ m \in Msg
      BY <1>1, <1>5
    <3> QED
      BY <3>1, DumpedKeeps
  <2> QED
    BY <1>5, <2>1
<1> QED
  BY <1>5, <1>6, FilledIs DEF s

(* One thread and the handle of its process change. *)
Sets(p, t, s, h) ==
  /\ s \in Thread /\ HandleOK(h) /\ s.i <= Len(conf.funcs) + 1
  /\ th' = [th EXCEPT ![p][t] = s] /\ g' = [g EXCEPT ![p] = h]
  /\ conf' = conf /\ kinds' = kinds

(* A step that changes one thread and one handle keeps the types of both. *)
LEMMA TouchType ==
  ASSUME ThreadsOK, HandlesOK, NEW p \in Procs, NEW t \in Threads, NEW s, NEW h, Sets(p, t, s, h)
  PROVE  /\ ThreadsOK' /\ HandlesOK'
         /\ th'[p][t] = s /\ g'[p] = h
         /\ \A q \in Procs, u \in Threads : (q = p /\ u = t) \/ th'[q][u] = th[q][u]
         /\ \A q \in Procs \ {p} : g'[q] = g[q]
<1>0. /\ s \in Thread /\ HandleOK(h) /\ s.i <= Len(conf.funcs) + 1
      /\ th' = [th EXCEPT ![p][t] = s] /\ g' = [g EXCEPT ![p] = h] /\ conf' = conf
  BY DEF Sets
<1>1. th \in [Procs -> [Threads -> Thread]]
  BY DEF ThreadsOK
<1>2. th' \in [Procs -> [Threads -> Thread]] /\ th'[p][t] = s
      /\ \A q \in Procs, u \in Threads : (q = p /\ u = t) \/ th'[q][u] = th[q][u]
  BY <1>0, <1>1
<1>3. ThreadsOK'
  BY <1>0, <1>2 DEF ThreadsOK
<1>4. g' = [q \in Procs |-> g'[q]] /\ g'[p] = h /\ \A q \in Procs \ {p} : g'[q] = g[q]
  BY <1>0 DEF HandlesOK
<1>5. HandlesOK'
  BY <1>0, <1>4 DEF HandlesOK, HandleOK
<1> QED
  BY <1>2, <1>3, <1>4, <1>5

(* The files as far as a step leaves them. *)
LEMMA FilesSame ==
  ASSUME FilesOK, UNCHANGED FileVars, \A p \in Procs : \E q \in Procs : g'[p].fd = g[q].fd
  PROVE  FilesOK'
BY DEF FilesOK, FileVars

(* The buffers of threads that are in a call stay in order. *)
LEMMA BuffersStep ==
  ASSUME TypeInv, NEW p \in Procs, NEW t \in Threads,
         \A q \in Procs \ {p} : g'[q] = g[q],
         \A q \in Procs, u \in Threads : (q = p /\ u = t) \/ th'[q][u] = th[q][u],
         th'[p][t].pc # "idle" => InOrder(Buf(p, t))',
         \A u \in Threads \ {t} :
           th[p][u].pc # "idle" => \/ g'[p][Which(p, u)] = g[p][Which(p, u)]
                                   \/ InOrder(g'[p][Which(p, u)])
  PROVE  BuffersOK'
<1> SUFFICES ASSUME NEW q \in Procs, NEW u \in Threads, th'[q][u].pc # "idle" PROVE InOrder(Buf(q, u))'
  BY DEF BuffersOK
<1>1. CASE q = p /\ u = t
  BY <1>1
<1>2. CASE q # p \/ u # t
  <2>1. th'[q][u] = th[q][u]
    BY <1>2
  <2>2. Which(q, u)' = Which(q, u) /\ InOrder(Buf(q, u))
    BY <2>1 DEF Which, TypeInv, BuffersOK
  <2>3. CASE q # p
    BY <2>2, <2>3 DEF Buf, InOrder
  <2>4. CASE q = p
    <3>1. u \in Threads \ {t} /\ th[p][u].pc # "idle"
      BY <1>2, <2>1, <2>4
    <3>2. \/ g'[p][Which(p, u)] = g[p][Which(p, u)] \/ InOrder(g'[p][Which(p, u)])
      BY <3>1
    <3> QED
      BY <2>2, <2>4, <3>2 DEF Buf, InOrder
  <2> QED
    BY <2>3, <2>4
<1> QED
  BY <1>1, <1>2

SetBuffer(h, w, b) == [h EXCEPT ![w] = b]
SetCache(h, c) == [h EXCEPT !.cache1 = c]

(* What a handle is after its buffer and its cached time were set. *)
LEMMA HandleBuffer ==
  ASSUME NEW h, HandleOK(h), NEW b \in BufType, NEW w \in {"hex", "line"}, NEW k,
         k = SetBuffer(h, w, b)
  PROVE  /\ HandleOK(k) /\ k[w] = b
         /\ k.open = h.open /\ k.fd = h.fd /\ k.test = h.test /\ k.stsize = h.stsize /\ k.skip = h.skip
         /\ k.cache1 = h.cache1 /\ k.rday = h.rday
         /\ \A v \in {"hex", "line"} \ {w} : k[v] = h[v]
<1>1. CASE w = "hex"
  <2>1. k = [h EXCEPT !.hex = b]
    BY <1>1 DEF SetBuffer
  <2> QED
    BY <1>1, <2>1 DEF HandleOK
<1>2. CASE w = "line"
  <2>1. k = [h EXCEPT !.line = b]
    BY <1>2 DEF SetBuffer
  <2> QED
    BY <1>2, <2>1 DEF HandleOK
<1> QED
  BY <1>1, <1>2

\* What a step of the style functions leaves.
FillStep(p, t, len, stop, buf, h, s) ==
  LET double == IF 2 * buf.size > MaxOf(p, t) THEN MaxOf(p, t) ELSE 2 * buf.size
  IN /\ len \in Lengths(th[p][t].msg) /\ len \in Nat
     /\ stop = Stop(Buf(p, t), th[p][t].i, len) /\ stop \in th[p][t].i .. Len(conf.funcs) + 1
     /\ buf = Filled(p, t, len, stop) /\ buf \in BufType /\ InOrder(buf) /\ buf.size = Buf(p, t).size
     /\ h[Which(p, t)] = buf /\ h.cache1 = (IF "date" \in ToSet(conf.funcs) THEN Date(p) ELSE g[p].cache1)
     /\ \A w \in {"hex", "line"} \ {Which(p, t)} : h[w] = g[p][w]
     /\ h.open = g[p].open /\ h.fd = g[p].fd /\ h.test = g[p].test /\ h.stsize = g[p].stsize
     /\ h.skip = g[p].skip /\ h.rday = g[p].rday
     /\ HandleOK(h) /\ g' = [g EXCEPT ![p] = h]
     /\ s \in Thread /\ s.i <= Len(conf.funcs) + 1 /\ th' = [th EXCEPT ![p][t] = s]
     /\ s.msg = th[p][t].msg
     /\ \/ stop > Len(conf.funcs) /\ s.i = stop /\ s.pc = AfterFill(p) /\ s.why = th[p][t].why /\ s.new = th[p][t].new
        \/ /\ stop <= Len(conf.funcs) /\ buf.size = MaxOf(p, t)
           /\ s.i = stop + 1 /\ s.pc = "fill" /\ s.why = th[p][t].why /\ s.new = th[p][t].new
        \/ /\ stop <= Len(conf.funcs) /\ buf.size # MaxOf(p, t)
           /\ s.i = stop /\ s.pc = "lock" /\ s.why = "grow" /\ s.new = double

(* LogStyle_FuncArray: one thread and one buffer of its process change. *)
LEMMA FillEffect ==
  ASSUME TypeInv, NEW p \in Procs, NEW t \in Threads, Fill(p, t)
  PROVE  \E len, stop, buf, h, s : FillStep(p, t, len, stop, buf, h, s)
<1> PICK r \in Thread : r = th[p][t]
  BY ThreadFacts
<1>1. /\ r.msg \in Msg /\ r.i \in 1 .. Len(conf.funcs) + 1 /\ r.pc = "fill"
      /\ HandleOK(g[p]) /\ Buf(p, t) \in BufType /\ Date(p) \in Nat /\ p \in Nat
      /\ MaxOf(p, t) \in Nat /\ Which(p, t) \in {"hex", "line"} /\ InOrder(Buf(p, t))
  <2>1. r.pc = "fill"
    <3>1. At(p, t, "fill")
      BY DEF Fill
    <3> QED
      BY <3>1 DEF At
  <2> QED
    BY <2>1, ThreadFacts
<1> DEFINE Double(buf) == IF 2 * buf.size > MaxOf(p, t) THEN MaxOf(p, t) ELSE 2 * buf.size
           Effect(stop, buf) ==
             /\ g' = [g EXCEPT ![p][Which(p, t)] = buf,
                               ![p].cache1 = IF "date" \in ToSet(conf.funcs) THEN Date(p) ELSE @]
             /\ th' = [th EXCEPT ![p][t] =
                  CASE stop > Len(conf.funcs) -> [@ EXCEPT !.i = stop, !.pc = AfterFill(p)]
                    [] stop <= Len(conf.funcs) /\ buf.size = MaxOf(p, t) -> [@ EXCEPT !.i = stop + 1]
                    [] OTHER -> [@ EXCEPT !.i = stop, !.pc = "lock", !.why = "grow", !.new = Double(buf)]]
<1>2. PICK len, stop, buf :
        /\ len \in Lengths(r.msg) /\ stop = Stop(Buf(p, t), r.i, len) /\ buf = Filled(p, t, len, stop)
        /\ Effect(stop, buf)
  <2>1. \E len \in Lengths(th[p][t].msg) : \E stop \in {Stop(Buf(p, t), th[p][t].i, len)} :
          \E buf \in {Filled(p, t, len, stop)} : Effect(stop, buf)
    BY DEF Fill
  <2> HIDE DEF Effect
  <2> QED
    BY <2>1
<1>3. len \in Nat
  <2>1. r.msg.len \in Nat /\ \A m \in kinds : m.len \in Nat
    BY <1>1, ConfFacts DEF Msg, TypeInv
  <2> QED
    BY <1>2, <2>1 DEF Lengths
<1>4. conf.funcs \in Seq(STRING) /\ Len(conf.funcs) \in Nat /\ r.i \in Nat \ {0} /\ r.i <= Len(conf.funcs) + 1
  BY <1>1, ConfFacts DEF TypeInv
<1>5. stop = Stop(Buf(p, t), r.i, len) /\ stop \in r.i .. Len(conf.funcs) + 1
  BY <1>2, <1>4, StopFirst
<1>6. buf = Filled(p, t, len, stop) /\ buf \in BufType /\ InOrder(buf) /\ buf.size = Buf(p, t).size
  BY <1>1, <1>2, <1>3, <1>5, FilledType
<1> PICK double : double = Double(buf)
  OBVIOUS
<1> PICK c \in Nat : c = IF "date" \in ToSet(conf.funcs) THEN Date(p) ELSE g[p].cache1
  BY <1>1 DEF HandleOK
<1> PICK w \in {"hex", "line"} : w = Which(p, t)
  BY <1>1
<1>20. PICK o : o = g[p]
  OBVIOUS
<1>21. PICK k : k = SetBuffer(o, w, buf)
  OBVIOUS
<1>22. PICK h : h = SetCache(k, c)
  OBVIOUS
<1> PICK n \in Nat : n = Len(conf.funcs)
  BY <1>4
<1>7. /\ HandleOK(k) /\ k[w] = buf /\ k.cache1 = o.cache1
      /\ k.open = o.open /\ k.fd = o.fd /\ k.test = o.test /\ k.stsize = o.stsize
      /\ k.skip = o.skip /\ k.rday = o.rday
      /\ \A v \in {"hex", "line"} \ {w} : k[v] = o[v]
  <2>1. HandleOK(o) /\ buf \in BufType
    BY <1>1, <1>6, <1>20
  <2> QED
    BY <2>1, <1>21, HandleBuffer
<1>8. /\ HandleOK(h) /\ h.cache1 = c /\ h.hex = k.hex /\ h.line = k.line
      /\ h.open = k.open /\ h.fd = k.fd /\ h.test = k.test /\ h.stsize = k.stsize /\ h.skip = k.skip
      /\ h.rday = k.rday
  <2>1. HandleOK(k) /\ c \in Nat
    BY <1>7
  <2> QED
    BY <1>22, <2>1 DEF HandleOK, SetCache
<1>9. /\ HandleOK(h) /\ h[w] = buf /\ h.cache1 = c
      /\ \A v \in {"hex", "line"} \ {w} : h[v] = g[p][v]
      /\ h.open = g[p].open /\ h.fd = g[p].fd /\ h.test = g[p].test /\ h.stsize = g[p].stsize
      /\ h.skip = g[p].skip /\ h.rday = g[p].rday
  <2>1. \A v \in {"hex", "line"} : h[v] = k[v]
    BY <1>8
  <2> QED
    BY <1>7, <1>8, <1>20, <2>1
<1>10. g' = [g EXCEPT ![p] = h]
  <2>1. g' = [g EXCEPT ![p][w] = buf, ![p].cache1 = IF "date" \in ToSet(conf.funcs) THEN Date(p) ELSE @]
    BY <1>2
  <2>2. g = [q \in Procs |-> g[q]]
    BY DEF TypeInv, HandlesOK
  <2>3. g' = [g EXCEPT ![p] = [[g[p] EXCEPT ![w] = buf] EXCEPT !.cache1 = IF "date" \in ToSet(conf.funcs) THEN Date(p) ELSE g[p].cache1]]
    BY <2>1, <2>2, <1>1, <1>7
  <2> QED
    BY <1>7, <1>20, <1>21, <1>22, <2>3 DEF SetBuffer, SetCache
<1>11. AfterFill(p) \in Pcs /\ double \in Nat /\ stop \in Nat \ {0} /\ stop <= n + 1
  <2>1. AfterFill(p) \in Pcs
    BY DEF AfterFill, Pcs
  <2>2. buf.size \in Nat
    BY <1>6 DEF BufType
  <2>3. double \in Nat
    BY <1>1, <2>2
  <2>4. stop \in Nat \ {0} /\ stop <= n + 1
    BY <1>4, <1>5
  <2> QED
    BY <2>1, <2>3, <2>4
<1>23. PICK s : s = CASE stop > n -> [r EXCEPT !.i = stop, !.pc = AfterFill(p)]
                   [] stop <= n /\ buf.size = MaxOf(p, t) -> [r EXCEPT !.i = stop + 1]
                   [] OTHER -> [r EXCEPT !.i = stop, !.pc = "lock", !.why = "grow", !.new = double]
  OBVIOUS
<1>12. th' = [th EXCEPT ![p][t] = s]
  BY <1>2, <1>23
<1> HIDE DEF Effect, Double
<1>13. /\ s \in Thread /\ s.i <= n + 1 /\ s.msg = r.msg
       /\ \/ stop > n /\ s.i = stop /\ s.pc = AfterFill(p) /\ s.why = r.why /\ s.new = r.new
          \/ /\ stop <= n /\ buf.size = MaxOf(p, t)
             /\ s.i = stop + 1 /\ s.pc = "fill" /\ s.why = r.why /\ s.new = r.new
          \/ /\ stop <= n /\ buf.size # MaxOf(p, t)
             /\ s.i = stop /\ s.pc = "lock" /\ s.why = "grow" /\ s.new = double
  <2>1. CASE stop > n
    <3>0. ~(stop <= n)
      BY <1>11, <2>1
    <3>1. s = [r EXCEPT !.i = stop, !.pc = AfterFill(p)]
      BY <1>23, <2>1, <3>0, Zenon
    <3> QED
      BY <1>11, <2>1, <3>1 DEF Thread
  <2>2. CASE ~(stop > n) /\ buf.size = MaxOf(p, t)
    <3>0. stop <= n
      BY <1>11, <2>2
    <3>1. s = [r EXCEPT !.i = stop + 1] /\ stop <= n
      BY <1>23, <2>2, <3>0, Zenon
    <3> QED
      <4>1. stop + 1 \in Nat \ {0} /\ stop + 1 <= n + 1
        BY <1>11, <3>0
      <4>2. s \in Thread /\ s.i = stop + 1 /\ s.pc = r.pc /\ s.why = r.why /\ s.new = r.new /\ s.msg = r.msg
        BY <3>1, <4>1 DEF Thread
      <4> QED
        BY <1>1, <2>2, <3>0, <4>1, <4>2
  <2>3. CASE ~(stop > n) /\ buf.size # MaxOf(p, t)
    <3>0. stop <= n
      BY <1>11, <2>3
    <3>1. s = [r EXCEPT !.i = stop, !.pc = "lock", !.why = "grow", !.new = double] /\ stop <= n
      BY <1>23, <2>3, <3>0, Zenon
    <3> QED
      BY <1>11, <2>3, <3>1 DEF Thread, Pcs, Whys
  <2> QED
    BY <2>1, <2>2, <2>3
<1>14. FillStep(p, t, len, stop, buf, h, s)
  BY <1>2, <1>3, <1>5, <1>6, <1>9, <1>10, <1>12, <1>13 DEF FillStep, Double
<1> QED
  BY <1>14

(* The stores that begin a call leave the buffer in order. *)
LEMMA EmptiedType ==
  ASSUME NEW b \in BufType
  PROVE  Emptied(b) \in BufType /\ InOrder(Emptied(b)) /\ Emptied(b).size = b.size
         /\ Emptied(b).ptr = 0 /\ Emptied(b).remain = b.size - 2
<1> PICK d : d = Emptied(b)
  OBVIOUS
<1>1. d \in BufType /\ d.ptr = 0 /\ d.remain = b.size - 2 /\ d.size = b.size /\ d.text = b.text
  <2>1. b.size \in Nat /\ b.size - 2 \in Int
    BY DEF BufType
  <2> PICK r \in Int : r = b.size - 2
    BY <2>1
  <2> PICK z \in Nat : z = 0
    OBVIOUS
  <2>2. d = [b EXCEPT !.remain = r, !.ptr = z]
    BY DEF Emptied
  <2> QED
    BY <2>2 DEF BufType
<1>2. Len(d.text) \in Nat
  BY <1>1, LenProperties DEF BufType
<1>3. InOrder(d)
  BY <1>1, <1>2 DEF InOrder, BufType
<1> QED
  BY <1>1, <1>3

(* So does SetBufferSize. *)
LEMMA GrownType ==
  ASSUME NEW b \in BufType, InOrder(b), NEW n \in Nat
  PROVE  /\ Grown(b, n) \in BufType /\ InOrder(Grown(b, n)) /\ Grown(b, n).size = n
         /\ Grown(b, n).ptr = b.ptr /\ Grown(b, n).text = b.text
         /\ Grown(b, n).remain = b.remain + (n - b.size)
<1> PICK d : d = Grown(b, n)
  OBVIOUS
<1>1. d \in BufType /\ d.ptr = b.ptr /\ d.remain = b.remain + (n - b.size) /\ d.size = n /\ d.text = b.text
  <2>1. b.size \in Nat /\ b.remain \in Int /\ b.remain + (n - b.size) \in Int
    BY DEF BufType
  <2> PICK r \in Int : r = b.remain + (n - b.size)
    BY <2>1
  <2>2. d = [b EXCEPT !.remain = r, !.size = n]
    BY DEF Grown
  <2> QED
    BY <2>2 DEF BufType
<1>2. b.size \in Nat /\ b.remain \in Int /\ b.ptr \in Nat
  BY DEF BufType
<1>3. InOrder(d)
  BY <1>1, <1>2 DEF InOrder
<1> QED
  BY <1>1, <1>3

(* What is written is text. *)
LEMMA TextType ==
  ASSUME NEW b \in BufType, InOrder(b)
  PROVE  Text(b) \in Seq(Char) /\ Text(b) = SubSeq(b.text, 1, b.ptr) /\ Len(Text(b)) = b.ptr
<1>1. b.text \in Seq(Char) /\ Len(b.text) \in Nat /\ b.ptr \in Nat /\ b.ptr <= Len(b.text)
      /\ b.ptr = b.size - 2 - b.remain
  BY LenProperties DEF BufType, InOrder
<1>2. \A i \in 1 .. b.ptr : b.text[i] \in Char
  BY <1>1, ElementOfSeq
<1>3. SubSeq(b.text, 1, b.ptr) \in Seq(Char) /\ Len(SubSeq(b.text, 1, b.ptr)) = IF 1 <= b.ptr THEN b.ptr - 1 + 1 ELSE 0
  BY <1>1, <1>2, SubSeqProperties
<1> QED
  BY <1>1, <1>3 DEF Text

(* A thread without a call is of its type. *)
LEMMA IdleType ==
  ASSUME ConfOK
  PROVE  IdleThread \in Thread /\ IdleThread.i <= Len(conf.funcs) + 1 /\ IdleThread.pc = "idle"
<1>1. NoMessage \in Msg
  BY DEF NoMessage, Msg
<1>2. IdleThread \in Thread
  BY <1>1 DEF IdleThread, Thread, Pcs, Whys
<1>3. IdleThread.i = 1 /\ IdleThread.pc = "idle"
  BY DEF IdleThread
<1>4. Len(conf.funcs) \in Nat
  BY ConfFacts
<1> QED
  BY <1>2, <1>3, <1>4

(* A thread goes to another place. *)
Moves(p, t, s, pc, why, new) ==
  /\ s \in Thread /\ th' = [th EXCEPT ![p][t] = s]
  /\ s.i = th[p][t].i /\ s.msg = th[p][t].msg /\ s.pc = pc /\ s.why = why /\ s.new = new

(* A thread goes to another place, for a reason and with a number. *)
LEMMA MovesTo ==
  ASSUME ThreadsOK, NEW p \in Procs, NEW t \in Threads, NEW pc \in Pcs, NEW why \in Whys, NEW new \in Nat
  PROVE  /\ th' = [th EXCEPT ![p][t].pc = pc] => \E s : Moves(p, t, s, pc, th[p][t].why, th[p][t].new)
         /\ th' = [th EXCEPT ![p][t].pc = pc, ![p][t].why = why] => \E s : Moves(p, t, s, pc, why, th[p][t].new)
         /\ th' = [th EXCEPT ![p][t].pc = pc, ![p][t].new = new] => \E s : Moves(p, t, s, pc, th[p][t].why, new)
<1> PICK r \in Thread : r = th[p][t]
  BY DEF ThreadsOK
<1>0. th \in [Procs -> [Threads -> Thread]]
  BY DEF ThreadsOK
<1>1. ASSUME th' = [th EXCEPT ![p][t].pc = pc] PROVE \E s : Moves(p, t, s, pc, th[p][t].why, th[p][t].new)
  <2> PICK s : s = [r EXCEPT !.pc = pc]
    OBVIOUS
  <2>1. th' = [th EXCEPT ![p][t] = s]
    BY <1>0, <1>1
  <2>2. s \in Thread /\ s.i = r.i /\ s.msg = r.msg /\ s.pc = pc /\ s.why = r.why /\ s.new = r.new
    BY DEF Thread
  <2> QED
    BY <2>1, <2>2 DEF Moves
<1>2. ASSUME th' = [th EXCEPT ![p][t].pc = pc, ![p][t].why = why] PROVE \E s : Moves(p, t, s, pc, why, th[p][t].new)
  <2>0. PICK s : s = [r EXCEPT !.pc = pc, !.why = why]
    OBVIOUS
  <2>1. th' = [th EXCEPT ![p][t] = s]
    BY <1>0, <1>2, <2>0 DEF Thread
  <2>2. s \in Thread /\ s.i = r.i /\ s.msg = r.msg /\ s.pc = pc /\ s.why = why /\ s.new = r.new
    BY <2>0 DEF Thread
  <2> QED
    BY <2>1, <2>2 DEF Moves
<1>3. ASSUME th' = [th EXCEPT ![p][t].pc = pc, ![p][t].new = new] PROVE \E s : Moves(p, t, s, pc, th[p][t].why, new)
  <2>0. PICK s : s = [r EXCEPT !.pc = pc, !.new = new]
    OBVIOUS
  <2>1. th' = [th EXCEPT ![p][t] = s]
    BY <1>0, <1>3, <2>0 DEF Thread
  <2>2. s \in Thread /\ s.i = r.i /\ s.msg = r.msg /\ s.pc = pc /\ s.why = r.why /\ s.new = new
    BY <2>0 DEF Thread
  <2> QED
    BY <2>1, <2>2 DEF Moves
<1> QED
  BY <1>1, <1>2, <1>3

\* The buffer that a message goes to.
Goes(msg) == IF msg.dump THEN "hex" ELSE "line"

(* A step of one thread that keeps files and locks typed keeps all types. *)
LEMMA StepType ==
  ASSUME TypeInv, NEW p \in Procs, NEW t \in Threads, NEW s, NEW h, Sets(p, t, s, h),
         s.pc # "idle" => InOrder(h[Goes(s.msg)]),
         \A v \in {"hex", "line"} : h[v] = g[p][v] \/ InOrder(h[v])
  PROVE  /\ ConfOK' /\ ThreadsOK' /\ HandlesOK' /\ BuffersOK'
         /\ th'[p][t] = s /\ g'[p] = h
         /\ \A q \in Procs, u \in Threads : (q = p /\ u = t) \/ th'[q][u] = th[q][u]
         /\ \A q \in Procs \ {p} : g'[q] = g[q]
<1>1. ThreadsOK /\ HandlesOK
  BY DEF TypeInv
<1>2. /\ ThreadsOK' /\ HandlesOK' /\ th'[p][t] = s /\ g'[p] = h
      /\ \A q \in Procs, u \in Threads : (q = p /\ u = t) \/ th'[q][u] = th[q][u]
      /\ \A q \in Procs \ {p} : g'[q] = g[q]
  BY <1>1, TouchType
<1>3. ConfOK'
  BY DEF TypeInv, ConfOK, Sets
<1>4. th'[p][t].pc # "idle" => InOrder(Buf(p, t))'
  BY <1>2 DEF Buf, Which, Goes, InOrder
<1>5. \A u \in Threads \ {t} :
           th[p][u].pc # "idle" => \/ g'[p][Which(p, u)] = g[p][Which(p, u)]
                                   \/ InOrder(g'[p][Which(p, u)])
  BY <1>2 DEF Which
<1>6. BuffersOK'
  BY <1>2, <1>4, <1>5, BuffersStep
<1> QED
  BY <1>2, <1>3, <1>6

\* What most steps leave alone.
Quiet(p, h) == UNCHANGED <<FileVars, now, left>> /\ h.fd = g[p].fd

(* A step that touches neither files nor locks keeps all types. *)
LEMMA QuietType ==
  ASSUME TypeInv, NEW p \in Procs, NEW h, Quiet(p, h), g'[p] = h, \A q \in Procs \ {p} : g'[q] = g[q]
  PROVE  FilesOK' /\ TimesOK'
<1>1. \A q \in Procs : g'[q].fd = g[q].fd
  BY DEF Quiet
<1> QED
  BY <1>1 DEF Quiet, FilesOK, FileVars, TypeInv, TimesOK

(* Fill keeps the types. *)
LEMMA FillType ==
  ASSUME TypeInv, NEW p \in Procs, NEW t \in Threads, Fill(p, t)
  PROVE  TypeInv'
<1>1. PICK len, stop, buf, h, s : FillStep(p, t, len, stop, buf, h, s)
  BY FillEffect
<1>0. conf' = conf /\ kinds' = kinds
  BY DEF Fill, World
<1>2. /\ Sets(p, t, s, h) /\ s.msg = th[p][t].msg
      /\ h.fd = g[p].fd /\ h[Which(p, t)] = buf /\ InOrder(buf)
      /\ \A w \in {"hex", "line"} \ {Which(p, t)} : h[w] = g[p][w]
  BY <1>0, <1>1 DEF FillStep, Sets
<1>3. Quiet(p, h) /\ UNCHANGED LockVars /\ life' = life
  BY <1>2 DEF Fill, Quiet, World
<1>4. Goes(s.msg) = Which(p, t)
  BY <1>2 DEF Goes, Which
<1>5. \A v \in {"hex", "line"} : h[v] = g[p][v] \/ InOrder(h[v])
  BY <1>2
<1>6. /\ ConfOK' /\ ThreadsOK' /\ HandlesOK' /\ BuffersOK'
      /\ g'[p] = h /\ \A q \in Procs \ {p} : g'[q] = g[q]
  BY <1>2, <1>3, <1>4, <1>5, StepType
<1>7. FilesOK' /\ TimesOK'
  BY <1>3, <1>6, QuietType
<1>8. LocksOK'
  BY <1>3 DEF TypeInv, LocksOK, LockVars
<1> QED
  BY <1>6, <1>7, <1>8 DEF TypeInv

\* The step of a thread that has a handle for another one and leaves the buffers alone.
Plain(p, t, s, h) ==
  /\ Sets(p, t, s, h)
  /\ s.pc # "idle" => s.msg = th[p][t].msg
  /\ h.line = g[p].line /\ h.hex = g[p].hex

(* A step that only moves a thread keeps the types. *)
LEMMA PlainType ==
  ASSUME TypeInv, NEW p \in Procs, NEW t \in Threads, th[p][t].pc # "idle", NEW s, NEW h, Plain(p, t, s, h)
  PROVE  /\ ConfOK' /\ ThreadsOK' /\ HandlesOK' /\ BuffersOK'
         /\ th'[p][t] = s /\ g'[p] = h
         /\ \A q \in Procs, u \in Threads : (q = p /\ u = t) \/ th'[q][u] = th[q][u]
         /\ \A q \in Procs \ {p} : g'[q] = g[q]
<1>1. \A v \in {"hex", "line"} : h[v] = g[p][v]
  BY DEF Plain
<1>2. InOrder(Buf(p, t)) /\ Which(p, t) \in {"hex", "line"}
  BY ThreadFacts
<1>3. s.pc # "idle" => Goes(s.msg) = Which(p, t)
  BY DEF Plain, Goes, Which
<1>4. s.pc # "idle" => InOrder(h[Goes(s.msg)])
  BY <1>1, <1>2, <1>3 DEF Buf
<1> QED
  BY <1>1, <1>4, StepType DEF Plain

(* Setting the pc, the reason and the number is such a step. *)
LEMMA SetsMoves ==
  ASSUME TypeInv, NEW p \in Procs, NEW t \in Threads, NEW s, NEW pc, NEW why, NEW new,
         Moves(p, t, s, pc, why, new), UNCHANGED <<conf, kinds>>
  PROVE  /\ \A h : HandleOK(h) /\ g' = [g EXCEPT ![p] = h] => Sets(p, t, s, h)
         /\ g' = g => Sets(p, t, s, g[p])
         /\ s.msg = th[p][t].msg
<1>1. HandleOK(g[p]) /\ th[p][t].i <= Len(conf.funcs) + 1
  BY DEF TypeInv, HandlesOK, ThreadsOK
<1>2. g = [q \in Procs |-> g[q]]
  BY DEF TypeInv, HandlesOK
<1>3. g' = g => g' = [g EXCEPT ![p] = g[p]]
  BY <1>2
<1> QED
  BY <1>1, <1>3 DEF Moves, Sets

(* So is the end of a call. *)
LEMMA SetsIdle ==
  ASSUME TypeInv, NEW p \in Procs, NEW t \in Threads, UNCHANGED <<conf, kinds>>,
         th' = [th EXCEPT ![p][t] = IdleThread]
  PROVE  /\ \A h : HandleOK(h) /\ g' = [g EXCEPT ![p] = h] => Sets(p, t, IdleThread, h)
         /\ g' = g => Sets(p, t, IdleThread, g[p])
<1>1. HandleOK(g[p]) /\ IdleThread \in Thread /\ IdleThread.i <= Len(conf.funcs) + 1
  BY IdleType DEF TypeInv, HandlesOK
<1>2. g = [q \in Procs |-> g[q]]
  BY DEF TypeInv, HandlesOK
<1>3. g' = g => g' = [g EXCEPT ![p] = g[p]]
  BY <1>2
<1> QED
  BY <1>1, <1>3 DEF Sets

(* A step that leaves handles and files alone. *)
LEMMA SameHandle ==
  ASSUME TypeInv, NEW p \in Procs, NEW t \in Threads, th[p][t].pc # "idle", NEW s,
         Sets(p, t, s, g[p]), s.pc # "idle" => s.msg = th[p][t].msg,
         UNCHANGED <<FileVars, now>>,
         left' \in [{"calls", "faults", "removals", "forks", "exits", "days"} -> Nat], LocksOK'
  PROVE  TypeInv'
<1>1. Plain(p, t, s, g[p])
  BY DEF Plain
<1>2. /\ ConfOK' /\ ThreadsOK' /\ HandlesOK' /\ BuffersOK'
      /\ g'[p] = g[p] /\ \A q \in Procs \ {p} : g'[q] = g[q]
  BY <1>1, PlainType
<1>3. FilesOK'
  BY <1>2 DEF TypeInv, FilesOK, FileVars
<1> QED
  BY <1>2, <1>3 DEF TypeInv, TimesOK

(* A bound that is counted down stays a number. *)
LEMMA LeftDown ==
  ASSUME TypeInv, NEW k \in {"calls", "faults", "removals", "forks", "exits", "days"},
         left[k] > 0, left' = [left EXCEPT ![k] = left[k] - 1]
  PROVE  left' \in [{"calls", "faults", "removals", "forks", "exits", "days"} -> Nat]
BY DEF TypeInv, TimesOK

(* ReturnEarly keeps the types. *)
LEMMA ReturnEarlyType ==
  ASSUME TypeInv, NEW p \in Procs, NEW t \in Threads, ReturnEarly(p, t)
  PROVE  TypeInv'
<1>1. th[p][t].pc # "idle"
  BY DEF ReturnEarly, At
<1>2. Sets(p, t, IdleThread, g[p])
  BY SetsIdle DEF ReturnEarly, World
<1>3. left' \in [{"calls", "faults", "removals", "forks", "exits", "days"} -> Nat]
  <2>1. CASE left.faults > 0 /\ left' = [left EXCEPT !.faults = @ - 1]
    BY <2>1 DEF TypeInv, TimesOK
  <2>2. CASE left' = left
    BY <2>2 DEF TypeInv, TimesOK
  <2> QED
    BY <2>1, <2>2 DEF ReturnEarly
<1>4. LocksOK' /\ UNCHANGED <<FileVars, now>>
  BY DEF ReturnEarly, World, LockVars, TypeInv, LocksOK
<1>5. IdleThread.pc = "idle"
  BY DEF IdleThread
<1> QED
  BY <1>1, <1>2, <1>3, <1>4, <1>5, SameHandle

(* LockFile keeps the types. *)
LEMMA LockFileType ==
  ASSUME TypeInv, NEW p \in Procs, NEW t \in Threads, LockFile(p, t)
  PROVE  TypeInv'
<1>1. th[p][t].pc = "lock" /\ UNCHANGED <<conf, kinds, g, FileVars, now, left>>
  BY DEF LockFile, At, World
<1>2. PICK s : Moves(p, t, s, "mutex", th[p][t].why, th[p][t].new)
  <2>1. th' = [th EXCEPT ![p][t].pc = "mutex"] /\ ThreadsOK
    BY DEF LockFile, GoTo, TypeInv
  <2>2. "mutex" \in Pcs /\ th[p][t].why \in Whys /\ th[p][t].new \in Nat
    BY DEF Pcs, TypeInv, ThreadsOK, Thread
  <2> QED
    BY <2>1, <2>2, MovesTo
<1>3. Sets(p, t, s, g[p]) /\ s.msg = th[p][t].msg
  BY <1>1, <1>2, SetsMoves
<1>4. LocksOK'
  BY DEF LockFile, World, TypeInv, LocksOK
<1>5. left' \in [{"calls", "faults", "removals", "forks", "exits", "days"} -> Nat]
  BY <1>1 DEF TypeInv, TimesOK
<1> QED
  BY <1>1, <1>3, <1>4, <1>5, SameHandle

(* LockMutex keeps the types. *)
LEMMA LockMutexType ==
  ASSUME TypeInv, NEW p \in Procs, NEW t \in Threads, LockMutex(p, t)
  PROVE  TypeInv'
<1>1. th[p][t].pc = "mutex" /\ UNCHANGED <<conf, kinds, g, FileVars, now, left>>
  BY DEF LockMutex, At, World
<1>2. PICK s : Moves(p, t, s, "section", th[p][t].why, th[p][t].new)
  <2>1. th' = [th EXCEPT ![p][t].pc = "section"] /\ ThreadsOK
    BY DEF LockMutex, GoTo, TypeInv
  <2>2. "section" \in Pcs /\ th[p][t].why \in Whys /\ th[p][t].new \in Nat
    BY DEF Pcs, TypeInv, ThreadsOK, Thread
  <2> QED
    BY <2>1, <2>2, MovesTo
<1>3. Sets(p, t, s, g[p]) /\ s.msg = th[p][t].msg
  BY <1>1, <1>2, SetsMoves
<1>4. LocksOK'
  BY DEF LockMutex, World, TypeInv, LocksOK
<1>5. left' \in [{"calls", "faults", "removals", "forks", "exits", "days"} -> Nat]
  BY <1>1 DEF TypeInv, TimesOK
<1> QED
  BY <1>1, <1>3, <1>4, <1>5, SameHandle

(* A step that leaves the buffers and the content of the files alone. *)
LEMMA OtherHandle ==
  ASSUME TypeInv, NEW p \in Procs, NEW t \in Threads, th[p][t].pc # "idle", NEW s, NEW h,
         Plain(p, t, s, h), h.fd = g[p].fd, UNCHANGED <<data, gone, now, left>>,
         DOMAIN names' \subseteq Int, names' = [n \in DOMAIN names' |-> names'[n]],
         \A n \in DOMAIN names' : names'[n] \in 1 .. Len(data), LocksOK'
  PROVE  TypeInv'
<1>1. /\ ConfOK' /\ ThreadsOK' /\ HandlesOK' /\ BuffersOK'
      /\ g'[p] = h /\ \A q \in Procs \ {p} : g'[q] = g[q]
  BY PlainType
<1>2. \A q \in Procs : g'[q].fd = g[q].fd
  BY <1>1
<1>3. FilesOK'
  BY <1>2 DEF TypeInv, FilesOK
<1> QED
  BY <1>1, <1>3 DEF TypeInv, TimesOK

(* The files stay typed when only the handles change. *)
LEMMA NamesSame ==
  ASSUME TypeInv
  PROVE  /\ DOMAIN names \subseteq Int /\ names = [n \in DOMAIN names |-> names[n]]
         /\ \A n \in DOMAIN names : names[n] \in 1 .. Len(data)
BY DEF TypeInv, FilesOK

(* The file descriptor and the names are moved and taken away. *)
LEMMA NamesMoved ==
  ASSUME TypeInv, NEW m \in Int
  PROVE  /\ Exists(LogName) => /\ DOMAIN Moved(m) \subseteq Int /\ Moved(m) = [n \in DOMAIN Moved(m) |-> Moved(m)[n]]
                               /\ \A n \in DOMAIN Moved(m) : Moved(m)[n] \in 1 .. Len(data)
         /\ DOMAIN Without(names, m) \subseteq Int
         /\ Without(names, m) = [n \in DOMAIN Without(names, m) |-> Without(names, m)[n]]
         /\ \A n \in DOMAIN Without(names, m) : Without(names, m)[n] \in 1 .. Len(data)
BY NamesSame DEF Moved, Without, Exists, LogName

(* The locks stay typed when the mutex is given back. *)
LEMMA SameLocks ==
  ASSUME TypeInv, UNCHANGED <<mutex, owner, life, leaked>>
  PROVE  LocksOK'
BY DEF TypeInv, LocksOK

(* The handle stays typed through the test for a changed file. *)
LEMMA TestedType ==
  ASSUME TypeInv, NEW p \in Procs
  PROVE  LET h == Counted(Tested(g[p]))
         IN /\ HandleOK(h) /\ h.fd = g[p].fd /\ h.line = g[p].line /\ h.hex = g[p].hex
            /\ h.cache1 = g[p].cache1 /\ h.rday = g[p].rday
<1> PICK o : o = g[p]
  OBVIOUS
<1>1. HandleOK(o)
  BY DEF TypeInv, HandlesOK
<1> PICK k : k = Tested(o)
  OBVIOUS
<1>2. /\ HandleOK(k) /\ k.fd = o.fd /\ k.line = o.line /\ k.hex = o.hex
      /\ k.cache1 = o.cache1 /\ k.rday = o.rday
  <2>1. TestInterval \in Nat \ {0}
    BY LogAssumption
  <2> DEFINE changed == ~Exists(LogName) \/ Size(names[LogName]) < o.stsize
             tests == conf.options = "CHANGE_TEST" /\ conf.how = "first"
             closes == conf.options = "OPEN_AND_CLOSE" /\ conf.how = "each"
  <2> PICK c \in BOOLEAN : c = ~changed
    OBVIOUS
  <2>0. k = CASE o.open /\ tests -> IF o.test > 1 THEN [o EXCEPT !.test = @ - 1]
                                    ELSE [o EXCEPT !.test = TestInterval, !.open = c]
              [] o.open /\ closes -> [o EXCEPT !.open = FALSE]
              [] OTHER -> o
    BY Zenon DEF Tested
  <2>2. closes => ~tests
    OBVIOUS
  <2> HIDE DEF changed, tests, closes
  <2>3. \/ k = o
        \/ o.test > 1 /\ k = [o EXCEPT !.test = @ - 1]
        \/ ~(o.test > 1) /\ k = [o EXCEPT !.test = TestInterval, !.open = c]
        \/ k = [o EXCEPT !.open = FALSE]
    BY <2>0, <2>2, Zenon
  <2>4. CASE k = o
    BY <1>1, <2>4
  <2>5. CASE o.test > 1 /\ k = [o EXCEPT !.test = @ - 1]
    BY <1>1, <2>1, <2>5 DEF HandleOK
  <2>6. CASE k = [o EXCEPT !.test = TestInterval, !.open = c]
    <3>1. PICK m : m = [o EXCEPT !.test = TestInterval]
      OBVIOUS
    <3>2. k = [m EXCEPT !.open = c]
      BY <2>6, <3>1
    <3>3. /\ HandleOK(m) /\ m.fd = o.fd /\ m.line = o.line /\ m.hex = o.hex
          /\ m.cache1 = o.cache1 /\ m.rday = o.rday
      BY <1>1, <2>1, <3>1 DEF HandleOK
    <3> QED
      BY <3>2, <3>3 DEF HandleOK
  <2>7. CASE k = [o EXCEPT !.open = FALSE]
    BY <1>1, <2>7 DEF HandleOK
  <2> QED
    BY <2>3, <2>4, <2>5, <2>6, <2>7
<1> PICK h : h = Counted(k)
  OBVIOUS
<1>3. h = k \/ h = [k EXCEPT !.skip = @ - 1]
  BY DEF Counted
<1>4. /\ HandleOK(h) /\ h.fd = k.fd /\ h.line = k.line /\ h.hex = k.hex
      /\ h.cache1 = k.cache1 /\ h.rday = k.rday
  BY <1>2, <1>3 DEF HandleOK
<1> QED
  BY <1>2, <1>4

(* Test keeps the types. *)
LEMMA TestType ==
  ASSUME TypeInv, NEW p \in Procs, NEW t \in Threads, Test(p, t)
  PROVE  TypeInv'
<1>1. th[p][t].pc # "idle" /\ UNCHANGED <<conf, kinds, life, now, left, FileVars, LockVars>>
  BY DEF Test, At, World
<1>2. PICK h : h = Counted(Tested(g[p]))
  OBVIOUS
<1>3. /\ HandleOK(h) /\ h.fd = g[p].fd /\ h.line = g[p].line /\ h.hex = g[p].hex
  BY <1>2, TestedType
<1>4. \E s, k : Plain(p, t, s, k) /\ k.fd = g[p].fd
  <2>1. CASE RotationDue(h)
    <3>1. th' = [th EXCEPT ![p][t].pc = "lock", ![p][t].why = conf.rotate]
          /\ g' = [g EXCEPT ![p] = [h EXCEPT !.open = @ /\ conf.how # "first"]]
      BY <1>2, <2>1 DEF Test
    <3>2. conf.rotate \in {"SIZE", "PER_DAY", "PER_HOUR"}
      BY <2>1 DEF RotationDue
    <3>3. "lock" \in Pcs /\ conf.rotate \in Whys /\ th[p][t].new \in Nat /\ ThreadsOK
      BY <3>2 DEF Pcs, Whys, TypeInv, ThreadsOK, Thread
    <3>4. PICK s : Moves(p, t, s, "lock", conf.rotate, th[p][t].new)
      BY <3>1, <3>3, MovesTo
    <3>5. PICK c : c = (h.open /\ conf.how # "first")
      OBVIOUS
    <3>6. PICK k : k = [h EXCEPT !.open = c]
      OBVIOUS
    <3>7. g' = [g EXCEPT ![p] = k]
      BY <3>1, <3>5, <3>6
    <3>8. HandleOK(k) /\ k.fd = h.fd /\ k.line = h.line /\ k.hex = h.hex
      BY <1>3, <3>5, <3>6 DEF HandleOK
    <3>9. Sets(p, t, s, k) /\ s.msg = th[p][t].msg
      BY <1>1, <3>4, <3>7, <3>8, SetsMoves
    <3> QED
      BY <1>3, <3>8, <3>9 DEF Plain
  <2>2. CASE ~RotationDue(h)
    <3>1. th' = [th EXCEPT ![p][t] = IdleThread] /\ g' = [g EXCEPT ![p] = [h EXCEPT !.cache1 = 0]]
      BY <1>2, <2>2 DEF Test
    <3>2. PICK k : k = [h EXCEPT !.cache1 = 0]
      OBVIOUS
    <3>3. HandleOK(k) /\ k.fd = h.fd /\ k.line = h.line /\ k.hex = h.hex
      BY <1>3, <3>2 DEF HandleOK
    <3>4. g' = [g EXCEPT ![p] = k]
      BY <3>1, <3>2
    <3>5. Sets(p, t, IdleThread, k)
      BY <1>1, <3>1, <3>3, <3>4, SetsIdle
    <3>6. IdleThread.pc = "idle"
      BY DEF IdleThread
    <3> QED
      BY <1>3, <3>3, <3>5, <3>6 DEF Plain
  <2> QED
    BY <2>1, <2>2
<1>5. PICK s, k : Plain(p, t, s, k) /\ k.fd = g[p].fd
  BY <1>4
<1>6. LocksOK'
  BY <1>1, SameLocks DEF LockVars
<1>7. /\ names' = names /\ UNCHANGED <<data, gone, now, left>>
  BY <1>1 DEF FileVars
<1> QED
  BY <1>1, <1>5, <1>6, <1>7, NamesSame, OtherHandle

(* Release keeps the types. *)
LEMMA ReleaseType ==
  ASSUME TypeInv, NEW p \in Procs, NEW t \in Threads, Release(p, t)
  PROVE  TypeInv'
<1>1. th[p][t].pc # "idle" /\ UNCHANGED <<conf, kinds, life, now, left, FileVars, mutex>>
  BY DEF Release, At, World
<1>2. LocksOK'
  <2>1. owner' \in Procs \cup {0} /\ leaked' \in BOOLEAN
    BY DEF Release, TypeInv, LocksOK
  <2> QED
    BY <1>1, <2>1 DEF TypeInv, LocksOK
<1>3. \E s, k : Plain(p, t, s, k) /\ k.fd = g[p].fd
  <2>1. CASE th[p][t].why = "grow"
    <3>1. th' = [th EXCEPT ![p][t].pc = "fill"] /\ g' = g
      BY <2>1 DEF Release, GoTo
    <3>2. "fill" \in Pcs /\ th[p][t].why \in Whys /\ th[p][t].new \in Nat /\ ThreadsOK
      BY DEF Pcs, TypeInv, ThreadsOK, Thread
    <3>3. PICK s : Moves(p, t, s, "fill", th[p][t].why, th[p][t].new)
      BY <3>1, <3>2, MovesTo
    <3>4. Sets(p, t, s, g[p]) /\ s.msg = th[p][t].msg
      BY <1>1, <3>1, <3>3, SetsMoves
    <3> QED
      BY <3>4 DEF Plain
  <2>2. CASE th[p][t].why # "grow"
    <3>1. th' = [th EXCEPT ![p][t] = IdleThread] /\ g' = [g EXCEPT ![p].cache1 = 0]
      BY <2>2 DEF Release
    <3>2. PICK o : o = g[p]
      OBVIOUS
    <3>3. PICK k : k = [o EXCEPT !.cache1 = 0]
      OBVIOUS
    <3>4. HandleOK(o)
      BY <3>2 DEF TypeInv, HandlesOK
    <3>5. HandleOK(k) /\ k.fd = o.fd /\ k.line = o.line /\ k.hex = o.hex
      BY <3>3, <3>4 DEF HandleOK
    <3>6. g' = [g EXCEPT ![p] = k]
      BY <3>1, <3>2, <3>3
    <3>7. Sets(p, t, IdleThread, k)
      BY <1>1, <3>1, <3>5, <3>6, SetsIdle
    <3>8. IdleThread.pc = "idle"
      BY DEF IdleThread
    <3> QED
      BY <3>2, <3>5, <3>7, <3>8 DEF Plain
  <2> QED
    BY <2>1, <2>2
<1>4. PICK s, k : Plain(p, t, s, k) /\ k.fd = g[p].fd
  BY <1>3
<1>5. names' = names /\ UNCHANGED <<data, gone, now, left>>
  BY <1>1 DEF FileVars
<1> QED
  BY <1>1, <1>2, <1>4, <1>5, NamesSame, OtherHandle

(* The first free number, or the last number. *)
LEMMA NumberFirst ==
  /\ Number \in 1 .. RotateCount /\ RotateCount \in Nat \ {0}
  /\ FreeNumbers # {} => Number \in FreeNumbers
  /\ FreeNumbers = {} => Number = RotateCount
<1>1. RotateCount \in Nat \ {0}
  BY LogAssumption
<1>2. FreeNumbers \subseteq 1 .. RotateCount
  BY DEF FreeNumbers
<1>3. ASSUME FreeNumbers # {} PROVE Number \in FreeNumbers
  <2>1. PICK T : T = FreeNumbers
    OBVIOUS
  <2>2. T \subseteq Nat /\ T # {}
    BY <1>1, <1>2, <1>3, <2>1
  <2>3. \E n \in T : \A m \in T : n <= m
    BY <2>2, LeastNat
  <2>4. Number = CHOOSE n \in T : \A m \in T : n <= m
    BY <1>3, <2>1 DEF Number
  <2>5. Number \in T
    BY <2>3, <2>4, Zenon
  <2> QED
    BY <2>1, <2>5
<1>4. FreeNumbers = {} => Number = RotateCount
  BY DEF Number
<1>5. Number \in 1 .. RotateCount
  <2>1. CASE FreeNumbers = {}
    BY <1>1, <1>4, <2>1
  <2>2. CASE FreeNumbers # {}
    BY <1>2, <1>3, <2>2
  <2> QED
    BY <2>1, <2>2
<1> QED
  BY <1>1, <1>3, <1>4, <1>5, Zenon

(* StatLog keeps the types. *)
LEMMA StatLogType ==
  ASSUME TypeInv, NEW p \in Procs, NEW t \in Threads, StatLog(p, t)
  PROVE  TypeInv'
<1>1. th[p][t].pc # "idle" /\ UNCHANGED <<conf, kinds, life, now, left, FileVars, owner, leaked>>
  BY DEF StatLog, At, World
<1>2. mutex' = mutex \/ mutex' = [mutex EXCEPT ![p] = "none"]
  BY DEF StatLog, Leave
<1>3. LocksOK'
  BY <1>1, <1>2 DEF TypeInv, LocksOK
<1>4. PICK o : o = g[p]
  OBVIOUS
<1>5. HandleOK(o)
  BY <1>4 DEF TypeInv, HandlesOK
<1>6. \E st, skip : g' \in {g, [g EXCEPT ![p].stsize = st, ![p].skip = skip], [g EXCEPT ![p].stsize = st]}
  BY DEF StatLog
<1>7. PICK st, skip : g' \in {g, [g EXCEPT ![p].stsize = st, ![p].skip = skip], [g EXCEPT ![p].stsize = st]}
  BY <1>6
<1>8. \E k : /\ g' = [g EXCEPT ![p] = k] /\ HandleOK(k)
             /\ k.fd = o.fd /\ k.line = o.line /\ k.hex = o.hex
  <2>0. g = [q \in Procs |-> g[q]]
    BY DEF TypeInv, HandlesOK
  <2>1. CASE g' = g
    <3>1. g' = [g EXCEPT ![p] = o]
      BY <1>4, <2>0, <2>1
    <3> QED
      BY <1>5, <3>1
  <2>2. CASE g' = [g EXCEPT ![p].stsize = st]
    <3>1. PICK k : k = [o EXCEPT !.stsize = st]
      OBVIOUS
    <3>2. HandleOK(k) /\ k.fd = o.fd /\ k.line = o.line /\ k.hex = o.hex
      BY <1>5, <3>1 DEF HandleOK
    <3>3. g' = [g EXCEPT ![p] = k]
      BY <1>4, <2>2, <3>1
    <3> QED
      BY <3>2, <3>3
  <2>3. CASE g' = [g EXCEPT ![p].stsize = st, ![p].skip = skip]
    <3>1. PICK m : m = [o EXCEPT !.stsize = st]
      OBVIOUS
    <3>2. PICK k : k = [m EXCEPT !.skip = skip]
      OBVIOUS
    <3>3. HandleOK(m) /\ m.fd = o.fd /\ m.line = o.line /\ m.hex = o.hex
      BY <1>5, <3>1 DEF HandleOK
    <3>4. HandleOK(k) /\ k.fd = m.fd /\ k.line = m.line /\ k.hex = m.hex
      BY <3>2, <3>3 DEF HandleOK
    <3>5. g' = [g EXCEPT ![p] = k]
      <4>1. g' = [[g EXCEPT ![p].stsize = st] EXCEPT ![p].skip = skip]
        BY <2>3
      <4>2. [g EXCEPT ![p].stsize = st] = [g EXCEPT ![p] = m]
        BY <1>4, <3>1
      <4>3. [[g EXCEPT ![p] = m] EXCEPT ![p].skip = skip] = [g EXCEPT ![p] = k]
        BY <2>0, <3>2
      <4> QED
        BY <4>1, <4>2, <4>3
    <3> QED
      BY <3>3, <3>4, <3>5
  <2> QED
    BY <1>7, <2>1, <2>2, <2>3
<1>9. PICK k : /\ g' = [g EXCEPT ![p] = k] /\ HandleOK(k)
               /\ k.fd = o.fd /\ k.line = o.line /\ k.hex = o.hex
  BY <1>8
<1>10. \E s : Sets(p, t, s, k) /\ s.msg = th[p][t].msg
  <2>1. {"release", "rename"} \subseteq Pcs /\ th[p][t].why \in Whys /\ th[p][t].new \in Nat /\ ThreadsOK
    BY DEF Pcs, TypeInv, ThreadsOK, Thread
  <2>2. \/ th' = [th EXCEPT ![p][t].pc = "release"]
        \/ th' = [th EXCEPT ![p][t].pc = "rename", ![p][t].new = Number]
    BY DEF StatLog, Leave, GoTo
  <2>3. CASE th' = [th EXCEPT ![p][t].pc = "release"]
    <3>1. PICK s : Moves(p, t, s, "release", th[p][t].why, th[p][t].new)
      BY <2>1, <2>3, MovesTo
    <3> QED
      BY <1>1, <1>9, <3>1, SetsMoves
  <2>4. CASE th' = [th EXCEPT ![p][t].pc = "rename", ![p][t].new = Number]
    <3>1. Number \in Nat
      BY NumberFirst
    <3>2. PICK n \in Nat : n = Number
      BY <3>1
    <3>3. th' = [th EXCEPT ![p][t].pc = "rename", ![p][t].new = n]
      BY <2>4, <3>2
    <3>4. PICK s : Moves(p, t, s, "rename", th[p][t].why, n)
      BY <2>1, <3>3, MovesTo
    <3> QED
      BY <1>1, <1>9, <3>4, SetsMoves
  <2> QED
    BY <2>2, <2>3, <2>4
<1>11. PICK s : Sets(p, t, s, k) /\ s.msg = th[p][t].msg
  BY <1>10
<1>12. Plain(p, t, s, k)
  BY <1>4, <1>9, <1>11 DEF Plain
<1>13. names' = names /\ UNCHANGED <<data, gone, now, left>>
  BY <1>1 DEF FileVars
<1> QED
  BY <1>1, <1>3, <1>4, <1>9, <1>12, <1>13, NamesSame, OtherHandle

(* Rename keeps the types. *)
LEMMA RenameType ==
  ASSUME TypeInv, NEW p \in Procs, NEW t \in Threads, Rename(p, t)
  PROVE  TypeInv'
<1>1. th[p][t].pc # "idle" /\ UNCHANGED <<conf, kinds, life, now, left, data, gone, owner, leaked>>
  BY DEF Rename, At, World
<1>2. mutex' = [mutex EXCEPT ![p] = "none"] /\ th' = [th EXCEPT ![p][t].pc = "release"]
      /\ g' = [g EXCEPT ![p].skip = 1]
  BY DEF Rename, Leave, GoTo
<1>3. LocksOK'
  BY <1>1, <1>2 DEF TypeInv, LocksOK
<1>4. PICK o : o = g[p]
  OBVIOUS
<1>5. PICK k : k = [o EXCEPT !.skip = 1]
  OBVIOUS
<1>6. HandleOK(o)
  BY <1>4 DEF TypeInv, HandlesOK
<1>7. HandleOK(k) /\ k.fd = o.fd /\ k.line = o.line /\ k.hex = o.hex
  BY <1>5, <1>6 DEF HandleOK
<1>8. g' = [g EXCEPT ![p] = k]
  BY <1>2, <1>4, <1>5
<1>9. "release" \in Pcs /\ th[p][t].why \in Whys /\ th[p][t].new \in Nat /\ ThreadsOK
  BY DEF Pcs, TypeInv, ThreadsOK, Thread
<1>10. PICK s : Moves(p, t, s, "release", th[p][t].why, th[p][t].new)
  BY <1>2, <1>9, MovesTo
<1>11. Sets(p, t, s, k) /\ s.msg = th[p][t].msg
  BY <1>1, <1>7, <1>8, <1>10, SetsMoves
<1>12. Plain(p, t, s, k)
  BY <1>4, <1>7, <1>11 DEF Plain
<1>13. PICK n \in Int : n = th[p][t].new
  BY <1>9
<1>14. names' = IF Exists(LogName) THEN Moved(n) ELSE Without(names, n)
  BY <1>13 DEF Rename
<1>15. /\ DOMAIN names' \subseteq Int /\ names' = [i \in DOMAIN names' |-> names'[i]]
       /\ \A i \in DOMAIN names' : names'[i] \in 1 .. Len(data)
  <2>1. CASE Exists(LogName)
    BY <1>14, <2>1, NamesMoved
  <2>2. CASE ~Exists(LogName)
    BY <1>14, <2>2, NamesMoved
  <2> QED
    BY <2>1, <2>2
<1>16. UNCHANGED <<data, gone, now, left>>
  BY <1>1
<1> QED
  BY <1>1, <1>3, <1>4, <1>7, <1>12, <1>15, <1>16, OtherHandle

(* The rotation by date keeps the types. *)
LEMMA RotateByDateType ==
  ASSUME TypeInv, NEW p \in Procs, NEW t \in Threads, NEW mode, RotateByDate(p, t, mode)
  PROVE  TypeInv'
<1>1. th[p][t].pc # "idle" /\ UNCHANGED <<conf, kinds, life, now, left, data, gone, owner, leaked>>
  BY DEF RotateByDate, At, World
<1>2. mutex' = [mutex EXCEPT ![p] = "none"] /\ th' = [th EXCEPT ![p][t].pc = "release"]
      /\ g' = [g EXCEPT ![p].cache1 = Date(p), ![p].rday = Date(p)]
  BY DEF RotateByDate, Leave, GoTo
<1>3. LocksOK'
  BY <1>1, <1>2 DEF TypeInv, LocksOK
<1>4. PICK o : o = g[p]
  OBVIOUS
<1>d. PICK d \in Nat : d = Date(p)
  BY ThreadFacts
<1>5. PICK m : m = [o EXCEPT !.cache1 = d]
  OBVIOUS
<1>x. PICK k : k = [m EXCEPT !.rday = d]
  OBVIOUS
<1>6. HandleOK(o)
  BY <1>4 DEF TypeInv, HandlesOK
<1>7. HandleOK(k) /\ k.fd = o.fd /\ k.line = o.line /\ k.hex = o.hex
  <2>1. HandleOK(m) /\ m.fd = o.fd /\ m.line = o.line /\ m.hex = o.hex
    BY <1>5, <1>6 DEF HandleOK
  <2> QED
    BY <1>x, <2>1 DEF HandleOK
<1>8. g' = [g EXCEPT ![p] = k]
  <2>0. g = [q \in Procs |-> g[q]]
    BY DEF TypeInv, HandlesOK
  <2>1. g' = [[g EXCEPT ![p].cache1 = d] EXCEPT ![p].rday = d]
    BY <1>2, <1>d
  <2>2. [g EXCEPT ![p].cache1 = d] = [g EXCEPT ![p] = m]
    BY <1>4, <1>5
  <2>3. [[g EXCEPT ![p] = m] EXCEPT ![p].rday = d] = [g EXCEPT ![p] = k]
    BY <2>0, <1>x
  <2> QED
    BY <2>1, <2>2, <2>3
<1>9. "release" \in Pcs /\ th[p][t].why \in Whys /\ th[p][t].new \in Nat /\ ThreadsOK
  BY DEF Pcs, TypeInv, ThreadsOK, Thread
<1>10. PICK s : Moves(p, t, s, "release", th[p][t].why, th[p][t].new)
  BY <1>2, <1>9, MovesTo
<1>11. Sets(p, t, s, k) /\ s.msg = th[p][t].msg
  BY <1>1, <1>7, <1>8, <1>10, SetsMoves
<1>12. Plain(p, t, s, k)
  BY <1>4, <1>7, <1>11 DEF Plain
<1>13. PICK n \in Int : n = DayName(g[p].rday)
  <2>1. g[p].rday \in Nat /\ RotateCount \in Nat
    BY <1>4, <1>6, LogAssumption DEF HandleOK
  <2> QED
    BY <2>1 DEF DayName
<1>14. names' = names \/ (Exists(LogName) /\ names' = Moved(n))
  BY <1>13 DEF RotateByDate
<1>15. /\ DOMAIN names' \subseteq Int /\ names' = [i \in DOMAIN names' |-> names'[i]]
       /\ \A i \in DOMAIN names' : names'[i] \in 1 .. Len(data)
  <2>1. CASE Exists(LogName) /\ names' = Moved(n)
    BY <2>1, NamesMoved
  <2>2. CASE names' = names
    BY <2>2, NamesSame
  <2> QED
    BY <1>14, <2>1, <2>2
<1>16. UNCHANGED <<data, gone, now, left>>
  BY <1>1
<1> QED
  BY <1>1, <1>3, <1>4, <1>7, <1>12, <1>15, <1>16, OtherHandle

(* Open keeps the types. *)
LEMMA OpenType ==
  ASSUME TypeInv, NEW p \in Procs, NEW t \in Threads, Open(p, t)
  PROVE  /\ TypeInv' /\ Len(data') >= Len(data) /\ Len(data) \in Nat
         /\ g'[p].open /\ g'[p].fd = names'[LogName]
<1>1. th[p][t].pc # "idle" /\ UNCHANGED <<conf, kinds, life, now, left, gone, mutex, owner, leaked>>
  BY DEF Open, At, World, LockVars
<1>2. th' = [th EXCEPT ![p][t].pc = "write"]
      /\ g' = [g EXCEPT ![p].open = TRUE, ![p].fd = names'[LogName]]
  BY DEF Open, GoTo
<1>3. data \in Seq(Seq(Entry)) /\ Len(data) \in Nat
  BY LenProperties DEF TypeInv, FilesOK
<1>4. /\ data' \in Seq(Seq(Entry)) /\ Len(data') >= Len(data) /\ Len(data') \in Nat
      /\ DOMAIN names' \subseteq Int /\ names' = [i \in DOMAIN names' |-> names'[i]]
      /\ \A i \in DOMAIN names' : names'[i] \in 1 .. Len(data')
      /\ LogName \in DOMAIN names'
  <2>1. CASE Exists(LogName)
    <3>1. data' = data /\ names' = names
      BY <2>1 DEF Open
    <3> QED
      BY <1>3, <2>1, <3>1, NamesSame DEF Exists
  <2>2. CASE ~Exists(LogName)
    <3>1. data' = Append(data, <<>>)
          /\ names' = [f \in {LogName} \cup DOMAIN names |-> IF f = LogName THEN Len(data) + 1 ELSE names[f]]
      BY <2>2 DEF Open
    <3>2. << >> \in Seq(Entry)
      BY EmptySeq
    <3>3. data' \in Seq(Seq(Entry)) /\ Len(data') = Len(data) + 1
      BY <1>3, <3>1, <3>2, AppendProperties
    <3> QED
      BY <1>3, <3>1, <3>3, NamesSame DEF LogName
  <2> QED
    BY <2>1, <2>2
<1>5. PICK f \in 1 .. Len(data') : f = names'[LogName]
  BY <1>4
<1>6. PICK o : o = g[p]
  OBVIOUS
<1>7. PICK m : m = [o EXCEPT !.open = TRUE]
  OBVIOUS
<1>8. PICK k : k = [m EXCEPT !.fd = f]
  OBVIOUS
<1>9. HandleOK(o)
  BY <1>6 DEF TypeInv, HandlesOK
<1>10. HandleOK(k) /\ k.fd = f /\ k.open /\ k.line = o.line /\ k.hex = o.hex
  <2>1. HandleOK(m) /\ m.open /\ m.line = o.line /\ m.hex = o.hex
    BY <1>7, <1>9 DEF HandleOK
  <2>2. f \in Nat
    BY <1>4, <1>5
  <2> QED
    BY <1>8, <2>1, <2>2 DEF HandleOK
<1>11. g' = [g EXCEPT ![p] = k]
  <2>0. g = [q \in Procs |-> g[q]]
    BY DEF TypeInv, HandlesOK
  <2>1. g' = [[g EXCEPT ![p].open = TRUE] EXCEPT ![p].fd = f]
    BY <1>2, <1>5
  <2>2. [g EXCEPT ![p].open = TRUE] = [g EXCEPT ![p] = m]
    BY <1>6, <1>7
  <2>3. [[g EXCEPT ![p] = m] EXCEPT ![p].fd = f] = [g EXCEPT ![p] = k]
    BY <2>0, <1>8
  <2> QED
    BY <2>1, <2>2, <2>3
<1>12. "write" \in Pcs /\ th[p][t].why \in Whys /\ th[p][t].new \in Nat /\ ThreadsOK
  BY DEF Pcs, TypeInv, ThreadsOK, Thread
<1>13. PICK s : Moves(p, t, s, "write", th[p][t].why, th[p][t].new)
  BY <1>2, <1>12, MovesTo
<1>14. Sets(p, t, s, k) /\ s.msg = th[p][t].msg
  BY <1>1, <1>10, <1>11, <1>13, SetsMoves
<1>15. Plain(p, t, s, k)
  BY <1>6, <1>10, <1>14 DEF Plain
<1>16. /\ ConfOK' /\ ThreadsOK' /\ HandlesOK' /\ BuffersOK'
       /\ g'[p] = k /\ \A q \in Procs \ {p} : g'[q] = g[q]
  BY <1>1, <1>15, PlainType
<1>17. FilesOK'
  <2>1. \A q \in Procs : g'[q].fd \in 1 .. Len(data')
    <3>1. \A q \in Procs : g[q].fd \in 1 .. Len(data)
      BY DEF TypeInv, FilesOK
    <3>2. g'[p].fd \in 1 .. Len(data')
      BY <1>10, <1>16
    <3>3. \A q \in Procs \ {p} : g'[q].fd \in 1 .. Len(data')
      <4>1. 1 .. Len(data) \subseteq 1 .. Len(data')
        BY <1>3, <1>4
      <4> QED
        BY <1>16, <3>1, <4>1
    <3> QED
      BY <3>2, <3>3
  <2>2. DOMAIN gone \subseteq 1 .. Len(data') /\ gone = [i \in DOMAIN gone |-> gone[i]]
        /\ \A i \in DOMAIN gone : gone[i] \in Nat
    BY <1>3, <1>4 DEF TypeInv, FilesOK
  <2> QED
    BY <1>1, <1>4, <2>1, <2>2 DEF FilesOK
<1>18. LocksOK' /\ TimesOK'
  BY <1>1 DEF TypeInv, LocksOK, TimesOK
<1> QED
  BY <1>3, <1>4, <1>5, <1>10, <1>16, <1>17, <1>18 DEF TypeInv

(* Write keeps the types. *)
LEMMA WriteType ==
  ASSUME TypeInv, NEW p \in Procs, NEW t \in Threads, Write(p, t)
  PROVE  /\ TypeInv' /\ Len(data') = Len(data)
<1>1. th[p][t].pc # "idle" /\ UNCHANGED <<conf, kinds, life, now, left, g, names, gone, mutex, owner, leaked>>
  BY DEF Write, At, World, LockVars
<1>2. th' = [th EXCEPT ![p][t].pc = "test"]
  BY DEF Write, GoTo
<1>3. PICK entry : /\ entry = [proc |-> p, msg |-> th[p][t].msg, text |-> Text(Buf(p, t)), until |-> now]
                   /\ data' = [data EXCEPT ![g[p].fd] = Append(data[g[p].fd], entry)]
  BY DEF Write
<1>4. data \in Seq(Seq(Entry)) /\ Len(data) \in Nat /\ g[p].fd \in 1 .. Len(data)
  BY LenProperties DEF TypeInv, FilesOK
<1>5. entry \in Entry
  <2>1. Buf(p, t) \in BufType /\ InOrder(Buf(p, t)) /\ th[p][t].msg \in Msg
    BY <1>1, ThreadFacts
  <2>2. Text(Buf(p, t)) \in Seq(Char)
    BY <2>1, TextType
  <2> QED
    BY <1>3, <2>1, <2>2 DEF Entry, TypeInv, TimesOK
<1>6. data[g[p].fd] \in Seq(Entry)
  BY <1>4, ElementOfSeq
<1>7. PICK f \in Seq(Entry) : f = Append(data[g[p].fd], entry)
  BY <1>5, <1>6, AppendProperties
<1>8. data' \in Seq(Seq(Entry)) /\ Len(data') = Len(data)
  <2>1. data' = [data EXCEPT ![g[p].fd] = f]
    BY <1>3, <1>7
  <2> QED
    BY <1>4, <2>1
<1>9. "test" \in Pcs /\ th[p][t].why \in Whys /\ th[p][t].new \in Nat /\ ThreadsOK
  BY DEF Pcs, TypeInv, ThreadsOK, Thread
<1>10. PICK s : Moves(p, t, s, "test", th[p][t].why, th[p][t].new)
  BY <1>2, <1>9, MovesTo
<1>11. Sets(p, t, s, g[p]) /\ s.msg = th[p][t].msg
  BY <1>1, <1>10, SetsMoves
<1>12. Plain(p, t, s, g[p])
  BY <1>11 DEF Plain
<1>13. ConfOK' /\ ThreadsOK' /\ HandlesOK' /\ BuffersOK'
  BY <1>1, <1>12, PlainType
<1>14. FilesOK' /\ LocksOK' /\ TimesOK'
  BY <1>1, <1>8 DEF TypeInv, FilesOK, LocksOK, TimesOK
<1> QED
  BY <1>8, <1>13, <1>14 DEF TypeInv

(* Realloc keeps the types. *)
LEMMA ReallocType ==
  ASSUME TypeInv, NEW p \in Procs, NEW t \in Threads, Realloc(p, t)
  PROVE  /\ TypeInv'
         /\ \E s, h : /\ Sets(p, t, s, h)
                      /\ h = SetBuffer(g[p], Which(p, t), Grown(Buf(p, t), th[p][t].new))
                      /\ s.i = th[p][t].i /\ s.pc = "release" /\ s.why = th[p][t].why /\ s.new = th[p][t].new
                      /\ s.msg = [th[p][t].msg EXCEPT !.redone = @ \/ AtMessage(p, t)]
<1>1. th[p][t].pc # "idle" /\ UNCHANGED <<conf, kinds, life, now, left, FileVars, owner, leaked>>
  BY DEF Realloc, At, World
<1>2. /\ mutex' = [mutex EXCEPT ![p] = "none"]
      /\ g' = [g EXCEPT ![p][Which(p, t)] = Grown(g[p][Which(p, t)], th[p][t].new)]
      /\ th' = [th EXCEPT ![p][t].pc = "release", ![p][t].msg.redone = @ \/ AtMessage(p, t)]
  BY DEF Realloc
<1>3. LocksOK'
  BY <1>1, <1>2 DEF TypeInv, LocksOK
<1>4. /\ Buf(p, t) \in BufType /\ InOrder(Buf(p, t)) /\ HandleOK(g[p]) /\ Which(p, t) \in {"hex", "line"}
      /\ th[p][t] \in Thread /\ th[p][t].msg \in Msg /\ th[p][t].i <= Len(conf.funcs) + 1
  BY <1>1, ThreadFacts, ConfFacts DEF TypeInv, ThreadsOK
<1>5. th[p][t].new \in Nat
  BY <1>4 DEF Thread
<1>6. Grown(Buf(p, t), th[p][t].new) \in BufType /\ InOrder(Grown(Buf(p, t), th[p][t].new))
  BY <1>4, <1>5, GrownType
<1>7. PICK b \in BufType : b = Grown(Buf(p, t), th[p][t].new)
  BY <1>6
<1>8. PICK o : o = g[p]
  OBVIOUS
<1>9. PICK w \in {"hex", "line"} : w = Which(p, t)
  BY <1>4
<1>10. PICK h : h = SetBuffer(o, w, b)
  OBVIOUS
<1>11. /\ HandleOK(h) /\ h[w] = b /\ h.fd = o.fd
       /\ \A v \in {"hex", "line"} \ {w} : h[v] = o[v]
  <2>1. HandleOK(o)
    BY <1>4, <1>8
  <2> QED
    BY <1>10, <2>1, HandleBuffer
<1>12. g' = [g EXCEPT ![p] = h]
  <2>1. g' = [g EXCEPT ![p][w] = b]
    BY <1>2, <1>7, <1>9 DEF Buf
  <2> QED
    BY <1>8, <1>10, <2>1 DEF SetBuffer
<1>13. PICK r \in Thread : r = th[p][t]
  BY <1>4
<1>14. PICK c \in BOOLEAN : c = (r.msg.redone \/ AtMessage(p, t))
  OBVIOUS
<1>15. PICK m \in Msg : m = [r.msg EXCEPT !.redone = c]
  BY <1>4, <1>13 DEF Msg
<1>16. PICK s : s = [r EXCEPT !.pc = "release", !.msg = m]
  OBVIOUS
<1>17. s \in Thread /\ s.i = r.i /\ s.pc = "release" /\ s.why = r.why /\ s.new = r.new /\ s.msg = m
  BY <1>16 DEF Thread, Pcs
<1>18. th' = [th EXCEPT ![p][t] = s]
  <2>0. th \in [Procs -> [Threads -> Thread]]
    BY DEF TypeInv, ThreadsOK
  <2>1. th' = [[th EXCEPT ![p][t].pc = "release"] EXCEPT ![p][t].msg.redone = c]
    BY <1>2, <1>13, <1>14, <2>0 DEF Thread
  <2>2. PICK r1 : r1 = [r EXCEPT !.pc = "release"]
    OBVIOUS
  <2>3. [th EXCEPT ![p][t].pc = "release"] = [th EXCEPT ![p][t] = r1]
    BY <1>13, <2>2
  <2>4. r1 \in Thread /\ r1.msg = r.msg
    BY <2>2 DEF Thread, Pcs
  <2>5. [[th EXCEPT ![p][t] = r1] EXCEPT ![p][t].msg.redone = c] = [th EXCEPT ![p][t] = [r1 EXCEPT !.msg = [r1.msg EXCEPT !.redone = c]]]
    BY <2>0
  <2>6. s = [r1 EXCEPT !.msg = m]
    BY <1>16, <2>2 DEF Thread
  <2> QED
    BY <1>15, <2>1, <2>3, <2>4, <2>5, <2>6
<1>19. Sets(p, t, s, h)
  BY <1>1, <1>4, <1>11, <1>12, <1>13, <1>17, <1>18 DEF Sets
<1>20. Goes(s.msg) = w
  <2>1. m.dump = r.msg.dump
    BY <1>4, <1>13, <1>15 DEF Msg
  <2> QED
    BY <1>9, <1>13, <1>17, <2>1 DEF Goes, Which
<1>21. /\ InOrder(h[Goes(s.msg)])
       /\ \A v \in {"hex", "line"} : h[v] = g[p][v] \/ InOrder(h[v])
  BY <1>6, <1>7, <1>8, <1>11, <1>20
<1>22. /\ ConfOK' /\ ThreadsOK' /\ HandlesOK' /\ BuffersOK'
       /\ g'[p] = h /\ \A q \in Procs \ {p} : g'[q] = g[q]
  BY <1>19, <1>21, StepType
<1>23. FilesOK' /\ TimesOK'
  BY <1>1, <1>8, <1>11, <1>22, QuietType DEF Quiet
<1>24. TypeInv'
  BY <1>3, <1>22, <1>23 DEF TypeInv
<1>25. s.msg = [th[p][t].msg EXCEPT !.redone = @ \/ AtMessage(p, t)]
  BY <1>13, <1>14, <1>15, <1>17
<1> QED
  BY <1>7, <1>8, <1>9, <1>10, <1>13, <1>17, <1>19, <1>24, <1>25

(* What the beginning of a call leaves: its own thread, the other one and the handle. *)
BeginStep(p, t, buffer, s, v, h) ==
  LET u == Sibling(t)
      busy == th[p][u].pc # "idle"
  IN /\ th[p][t].pc = "idle"
     /\ s \in Thread /\ v \in Thread /\ HandleOK(h)
     /\ s.pc = "fill" /\ s.i = 1 /\ s.why = "none" /\ s.new = 0
     /\ s.msg.day = now /\ s.msg.stale = (g[p].cache1 # 0) /\ ~s.msg.redone /\ s.msg.mixed = busy
     /\ s.msg.dump = (buffer = "hex")
     /\ \E m \in kinds : s.msg.len = m.len /\ s.msg.args = m.args /\ s.msg.dump = m.dump
     /\ v.pc = th[p][u].pc /\ v.i = th[p][u].i /\ v.why = th[p][u].why /\ v.new = th[p][u].new
     /\ v.msg = [th[p][u].msg EXCEPT !.mixed = @ \/ busy]
     /\ h = SetBuffer(g[p], buffer, Emptied(g[p][buffer]))
     /\ th' = [[th EXCEPT ![p][t] = s] EXCEPT ![p][u] = v]
     /\ g' = [g EXCEPT ![p] = h]
     /\ left' \in [{"calls", "faults", "removals", "forks", "exits", "days"} -> Nat]
     /\ UNCHANGED World /\ UNCHANGED FileVars /\ UNCHANGED LockVars

(* A call that begins empties a buffer and tells the other thread of it. *)
LEMMA BeginEffect ==
  ASSUME TypeInv, NEW p \in Procs, NEW t \in Threads, NEW buffer \in {"hex", "line"}, Begin(p, t, buffer)
  PROVE  \E s, v, h : BeginStep(p, t, buffer, s, v, h)
<1> DEFINE u == Sibling(t)
           busy == th[p][u].pc # "idle"
<1>1. PICK c \in BOOLEAN : c = busy
  OBVIOUS
<1>2. PICK d \in BOOLEAN : d = (g[p].cache1 # 0)
  OBVIOUS
<1>3. PICK m \in kinds :
        LET msg == [id |-> left.calls, len |-> m.len, args |-> m.args, dump |-> m.dump,
                    day |-> now, stale |-> d, redone |-> FALSE, mixed |-> c]
        IN /\ m.dump <=> buffer = "hex"
           /\ th' = [th EXCEPT ![p][t] = [IdleThread EXCEPT !.pc = "fill", !.msg = msg],
                                ![p][u].msg.mixed = @ \/ c]
           /\ g' = [g EXCEPT ![p][buffer] = Emptied(@)]
  BY <1>1, <1>2 DEF Begin
<1>4. left.calls \in Nat /\ now \in Nat /\ m.len \in Nat /\ m.args \in BOOLEAN /\ m.dump \in BOOLEAN
  BY ConfFacts DEF TypeInv, TimesOK
<1>5. PICK msg : msg = [id |-> left.calls, len |-> m.len, args |-> m.args, dump |-> m.dump,
                        day |-> now, stale |-> d, redone |-> FALSE, mixed |-> c]
  OBVIOUS
<1>6. msg \in Msg /\ msg.len = m.len /\ msg.args = m.args /\ msg.dump = m.dump
      /\ msg.day = now /\ msg.stale = d /\ ~msg.redone /\ msg.mixed = c
  BY <1>4, <1>5 DEF Msg
<1>7. PICK s : s = [IdleThread EXCEPT !.pc = "fill", !.msg = msg]
  OBVIOUS
<1>8. s \in Thread /\ s.pc = "fill" /\ s.msg = msg /\ s.i = 1 /\ s.why = "none" /\ s.new = 0
  <2>1. IdleThread \in Thread /\ IdleThread.i = 1 /\ IdleThread.why = "none" /\ IdleThread.new = 0
    BY IdleType DEF IdleThread, TypeInv
  <2> QED
    BY <1>6, <1>7, <2>1 DEF Thread, Pcs
<1>9. PICK r \in Thread : r = th[p][u]
  BY ThreadFacts
<1>10. r.msg \in Msg
  BY <1>9 DEF Thread
<1>11. PICK e \in BOOLEAN : e = (r.msg.mixed \/ c)
  OBVIOUS
<1>12. PICK k \in Msg : k = [r.msg EXCEPT !.mixed = e]
  BY <1>10, <1>11 DEF Msg
<1>13. PICK v : v = [r EXCEPT !.msg = k]
  OBVIOUS
<1>14. v \in Thread /\ v.pc = r.pc /\ v.i = r.i /\ v.why = r.why /\ v.new = r.new /\ v.msg = k
  BY <1>13 DEF Thread
<1>15. th' = [[th EXCEPT ![p][t] = s] EXCEPT ![p][u] = v]
  <2>0. th \in [Procs -> [Threads -> Thread]] /\ u # t /\ u \in Threads
    BY ThreadFacts DEF TypeInv, ThreadsOK
  <2>1. PICK f : f = [th EXCEPT ![p][t] = s]
    OBVIOUS
  <2>2. f \in [Procs -> [Threads -> Thread]] /\ f[p][u] = r
    BY <1>8, <1>9, <2>0, <2>1
  <2>3. th' = [f EXCEPT ![p][u].msg.mixed = @ \/ c]
    BY <1>3, <1>5, <1>7, <2>0, <2>1
  <2>4. [f EXCEPT ![p][u].msg.mixed = @ \/ c] = [f EXCEPT ![p][u] = [r EXCEPT !.msg = [r.msg EXCEPT !.mixed = e]]]
    BY <1>11, <2>0, <2>2
  <2> QED
    BY <1>12, <1>13, <2>1, <2>3, <2>4
<1>16. PICK o : o = g[p]
  OBVIOUS
<1>17. HandleOK(o)
  BY <1>16 DEF TypeInv, HandlesOK
<1>18. PICK b \in BufType : b = Emptied(o[buffer])
  <2>1. o[buffer] \in BufType
    BY <1>17 DEF HandleOK
  <2> QED
    BY <2>1, EmptiedType
<1>19. PICK h : h = SetBuffer(o, buffer, b)
  OBVIOUS
<1>20. HandleOK(h)
  BY <1>17, <1>19, HandleBuffer
<1>21. g' = [g EXCEPT ![p] = h]
  BY <1>3, <1>16, <1>18, <1>19 DEF SetBuffer
<1>22. th[p][t].pc = "idle" /\ UNCHANGED World /\ UNCHANGED FileVars /\ UNCHANGED LockVars
  BY DEF Begin, At
<1>23. left' \in [{"calls", "faults", "removals", "forks", "exits", "days"} -> Nat]
  <2>1. left.calls > 0 /\ left' = [left EXCEPT !.calls = @ - 1]
    BY DEF Begin
  <2> QED
    BY <2>1 DEF TypeInv, TimesOK
<1>24. s.msg.dump = (buffer = "hex")
  BY <1>3, <1>4, <1>6, <1>8
<1>25. v.msg = [th[p][u].msg EXCEPT !.mixed = @ \/ busy]
  BY <1>1, <1>9, <1>11, <1>12, <1>14
<1>26. h = SetBuffer(g[p], buffer, Emptied(g[p][buffer]))
  BY <1>16, <1>18, <1>19
<1>27. \E j \in kinds : s.msg.len = j.len /\ s.msg.args = j.args /\ s.msg.dump = j.dump
  BY <1>6, <1>8
<1>28. s.msg.day = now /\ s.msg.stale = (g[p].cache1 # 0) /\ ~s.msg.redone /\ s.msg.mixed = busy
  BY <1>1, <1>2, <1>6, <1>8
<1> HIDE DEF busy
<1>29. v.pc = th[p][u].pc /\ v.i = th[p][u].i /\ v.why = th[p][u].why /\ v.new = th[p][u].new
  BY <1>9, <1>14
<1>30. s.pc = "fill" /\ s.i = 1 /\ s.why = "none" /\ s.new = 0 /\ s \in Thread /\ v \in Thread
  BY <1>8, <1>14
<1>31. /\ s.msg.mixed = (th[p][Sibling(t)].pc # "idle")
       /\ v.msg = [th[p][Sibling(t)].msg EXCEPT !.mixed = @ \/ (th[p][Sibling(t)].pc # "idle")]
  BY <1>25, <1>28 DEF busy
<1>33. BeginStep(p, t, buffer, s, v, h)
  BY <1>15, <1>20, <1>21, <1>22, <1>23, <1>24, <1>26, <1>27, <1>28, <1>29, <1>30, <1>31, Zenon DEF BeginStep
<1> QED
  BY <1>33

(* Begin keeps the types. *)
LEMMA BeginType ==
  ASSUME TypeInv, NEW p \in Procs, NEW t \in Threads, NEW buffer \in {"hex", "line"},
         NEW s, NEW v, NEW h, BeginStep(p, t, buffer, s, v, h)
  PROVE  /\ TypeInv'
         /\ th'[p][t] = s /\ th'[p][Sibling(t)] = v /\ g'[p] = h
         /\ \A q \in Procs \ {p} : th'[q] = th[q] /\ g'[q] = g[q]
<1>1. PICK u \in Threads : u = Sibling(t) /\ u # t /\ \A w \in Threads : w = t \/ w = u
  BY ThreadFacts
<1>2. /\ s \in Thread /\ v \in Thread /\ HandleOK(h) /\ s.pc = "fill" /\ s.i = 1
      /\ v.pc = th[p][u].pc /\ v.i = th[p][u].i
      /\ th' = [[th EXCEPT ![p][t] = s] EXCEPT ![p][u] = v]
      /\ g' = [g EXCEPT ![p] = h]
  BY <1>1 DEF BeginStep
<1>3. UNCHANGED <<conf, kinds, life, now, names, data, gone, mutex, owner, leaked>>
  BY DEF BeginStep, World, FileVars, LockVars
<1>4. th \in [Procs -> [Threads -> Thread]]
  BY DEF TypeInv, ThreadsOK
<1>5. th' \in [Procs -> [Threads -> Thread]]
  BY <1>2, <1>4
<1>6. th'[p][t] = s /\ th'[p][u] = v
      /\ \A q \in Procs \ {p} : th'[q] = th[q]
  BY <1>1, <1>2, <1>4
<1>7. g' = [q \in Procs |-> g'[q]] /\ g'[p] = h /\ \A q \in Procs \ {p} : g'[q] = g[q]
  BY <1>2 DEF TypeInv, HandlesOK
<1>8. ThreadsOK'
  <2>1. Len(conf.funcs) \in Nat /\ \A q \in Procs, w \in Threads : th[q][w].i <= Len(conf.funcs) + 1
    BY ConfFacts DEF TypeInv, ThreadsOK
  <2>2. th'[p][t].i <= Len(conf.funcs) + 1 /\ th'[p][u].i <= Len(conf.funcs) + 1
    BY <1>2, <1>6, <2>1
  <2>3. \A q \in Procs, w \in Threads : th'[q][w].i <= Len(conf.funcs) + 1
    BY <1>1, <1>6, <2>1, <2>2
  <2> QED
    BY <1>3, <1>5, <2>3 DEF ThreadsOK
<1>9. HandlesOK'
  BY <1>2, <1>3, <1>7 DEF TypeInv, HandlesOK, HandleOK
<1>10. /\ h[buffer] = Emptied(g[p][buffer]) /\ InOrder(h[buffer]) /\ h.fd = g[p].fd
       /\ \A w \in {"hex", "line"} \ {buffer} : h[w] = g[p][w]
  <2>1. h = SetBuffer(g[p], buffer, Emptied(g[p][buffer])) /\ HandleOK(g[p])
    BY DEF BeginStep, TypeInv, HandlesOK
  <2>2. g[p][buffer] \in BufType
    BY <2>1 DEF HandleOK
  <2>3. Emptied(g[p][buffer]) \in BufType /\ InOrder(Emptied(g[p][buffer]))
    BY <2>2, EmptiedType
  <2> QED
    BY <2>1, <2>3, HandleBuffer
<1>11. BuffersOK'
  <2> SUFFICES ASSUME NEW q \in Procs, NEW w \in Threads, th'[q][w].pc # "idle" PROVE InOrder(Buf(q, w))'
    BY DEF BuffersOK
  <2>1. CASE q # p
    <3>1. th'[q][w] = th[q][w] /\ g'[q] = g[q]
      BY <1>6, <1>7, <2>1
    <3>2. InOrder(Buf(q, w))
      BY <3>1 DEF TypeInv, BuffersOK
    <3> QED
      BY <3>1, <3>2 DEF Buf, Which, InOrder
  <2>2. CASE q = p
    <3>1. CASE w = t
      <4>1. Which(q, w)' = buffer
        <5>1. s.msg.dump = (buffer = "hex")
          BY DEF BeginStep
        <5> QED
          BY <1>6, <2>2, <3>1, <5>1 DEF Which
      <4> QED
        BY <1>7, <1>10, <2>2, <4>1 DEF Buf, InOrder
    <3>2. CASE w = u
      <4>1. v.msg.dump = th[p][u].msg.dump
        <5>1. th[p][u].msg \in Msg
          BY ThreadFacts
        <5>2. v.msg = [th[p][u].msg EXCEPT !.mixed = @ \/ (th[p][u].pc # "idle")]
          BY <1>1 DEF BeginStep
        <5> QED
          BY <5>1, <5>2 DEF Msg
      <4>2. Which(q, w)' = Which(p, u) /\ Which(p, u) \in {"hex", "line"}
        BY <1>6, <2>2, <3>2, <4>1 DEF Which
      <4>3. InOrder(Buf(p, u))
        BY <1>2, <1>6, <2>2, <3>2 DEF TypeInv, BuffersOK
      <4>4. InOrder(h[Which(p, u)])
        <5>1. CASE Which(p, u) = buffer
          BY <1>10, <5>1
        <5>2. CASE Which(p, u) # buffer
          BY <1>10, <4>2, <4>3, <5>2 DEF Buf
        <5> QED
          BY <5>1, <5>2
      <4> QED
        BY <1>7, <2>2, <4>2, <4>4 DEF Buf, InOrder
    <3> QED
      BY <1>1, <3>1, <3>2
  <2> QED
    BY <2>1, <2>2
<1>12. FilesOK'
  <2>1. \A q \in Procs : g'[q].fd = g[q].fd
    BY <1>7, <1>10
  <2> QED
    BY <1>3, <2>1 DEF TypeInv, FilesOK
<1>13. LocksOK' /\ ConfOK'
  BY <1>3 DEF TypeInv, LocksOK, ConfOK
<1>14. TimesOK'
  BY <1>3 DEF BeginStep, TypeInv, TimesOK
<1> QED
  BY <1>1, <1>6, <1>7, <1>8, <1>9, <1>11, <1>12, <1>13, <1>14 DEF TypeInv

-----------------------------------------------------------------------------
(* Whole steps: threads, processes and what goes on around them. *)
(* The step of a thread leaves the other threads and processes where they are. *)
Framed(p, t) ==
  /\ life[p] = "runs" /\ conf' = conf
  /\ \A q \in Procs, u \in Threads : \/ q = p /\ u = t
                                     \/ /\ th'[q][u].pc = th[q][u].pc /\ th'[q][u].why = th[q][u].why
                                        /\ th'[q][u].new = th[q][u].new
  /\ \A q \in Procs \ {p} : g'[q] = g[q]

Only(p, t) == \A q \in Procs, u \in Threads : (q = p /\ u = t) \/ th'[q][u] = th[q][u]
Pokes(p, t, s, h) == th' = [th EXCEPT ![p][t] = s] /\ g' = [g EXCEPT ![p] = h]

(* A step that sets one thread and one handle leaves all others. *)
LEMMA FrameOf ==
  ASSUME TypeInv, NEW p \in Procs, NEW t \in Threads, NEW s, NEW h,
         life[p] = "runs", conf' = conf, Pokes(p, t, s, h)
  PROVE  Framed(p, t) /\ Only(p, t) /\ th'[p][t] = s /\ g'[p] = h
<1>0. th' = [th EXCEPT ![p][t] = s] /\ g' = [g EXCEPT ![p] = h]
  BY DEF Pokes
<1>1. th \in [Procs -> [Threads -> Thread]] /\ g = [q \in Procs |-> g[q]]
  BY DEF TypeInv, ThreadsOK, HandlesOK
<1>2. \A q \in Procs, u \in Threads : (q = p /\ u = t) \/ th'[q][u] = th[q][u]
  BY <1>0, <1>1
<1>3. \A q \in Procs \ {p} : g'[q] = g[q]
  BY <1>0, <1>1
<1>4. th'[p][t] = s /\ g'[p] = h
  BY <1>0, <1>1
<1> QED
  BY <1>2, <1>3, <1>4 DEF Framed, Only

(* What is not begun has no calls. *)
Alive ==
  /\ life[1] # "unborn"
  /\ \A p \in Procs, t \in Threads : life[p] = "unborn" => th[p][t].pc = "idle"

(* The types hold at first. *)
LEMMA InitType ==
  ASSUME Init
  PROVE  TypeInv /\ Alive
<1>1. PICK s \in Scenarios : conf = s.conf /\ kinds = s.kinds /\ left = s.left
  BY DEF Init
<1>2. ConfOK
  BY <1>1 DEF ConfOK
<1>3. /\ g = [p \in Procs |-> NewHandle(conf)]
      /\ th = [p \in Procs |-> [t \in Threads |-> IdleThread]]
      /\ life = [p \in Procs |-> IF p = 1 THEN "runs" ELSE "unborn"]
      /\ mutex = [p \in Procs |-> "none"] /\ owner = 0 /\ leaked = FALSE
      /\ data = <<<<>>, <<>>>> /\ now = 1 /\ gone = <<>>
      /\ names = [f \in {Console} \cup {n \in {LogName} : conf.how = "first"} |-> IF f = Console THEN 1 ELSE 2]
  BY DEF Init
<1>4. IdleThread \in Thread /\ IdleThread.i <= Len(conf.funcs) + 1 /\ IdleThread.pc = "idle"
  BY <1>2, IdleType
<1>5. ThreadsOK /\ BuffersOK
  BY <1>3, <1>4 DEF ThreadsOK, BuffersOK
<1>6. \A b \in Nat : NewBuf(b) \in BufType
  <2>1. << >> \in Seq(Char)
    BY EmptySeq
  <2> QED
    BY <2>1 DEF NewBuf, BufType
<1>7. HandleOK(NewHandle(conf))
  <2>1. conf.bufsize \in Nat /\ BufSize \in Nat /\ TestInterval \in Nat \ {0}
    BY <1>2, ConfFacts, LogAssumption
  <2>2. NewBuf(conf.bufsize) \in BufType /\ NewBuf(BufSize) \in BufType
    BY <1>6, <2>1
  <2> QED
    BY <2>1, <2>2 DEF NewHandle, HandleOK
<1>8. HandlesOK
  BY <1>3, <1>7 DEF HandlesOK
<1>9. LocksOK
  BY <1>3, ProcsAreNats DEF LocksOK
<1>10. FilesOK
  <2>1. << >> \in Seq(Entry)
    BY EmptySeq
  <2>2. data \in Seq(Seq(Entry)) /\ Len(data) = 2
    BY <1>3, <2>1
  <2>3. DOMAIN names \subseteq {-1, 0} /\ \A n \in DOMAIN names : names[n] \in {1, 2}
    BY <1>3 DEF Console, LogName
  <2>4. names = [n \in DOMAIN names |-> names[n]]
    BY <1>3
  <2>5. DOMAIN gone = {}
    BY <1>3
  <2>6. \A p \in Procs : g[p].fd \in {1, 2}
    BY <1>3 DEF NewHandle
  <2>7. gone = [i \in DOMAIN gone |-> gone[i]]
    BY <1>3
  <2> QED
    BY <2>2, <2>3, <2>4, <2>5, <2>6, <2>7 DEF FilesOK
<1>11. TimesOK
  BY <1>1, <1>3, LogAssumption DEF TimesOK
<1>12. Alive
  BY <1>3, <1>4, ProcsAreNats DEF Alive
<1> QED
  BY <1>2, <1>5, <1>8, <1>9, <1>10, <1>11, <1>12 DEF TypeInv

(* Fork keeps the types, and the child has the handle of its parent. *)
LEMMA ForkType ==
  ASSUME TypeInv, Alive, NEW p \in Procs, NEW q \in Procs, Fork(p, q)
  PROVE  /\ TypeInv' /\ Alive'
         /\ q # 1 /\ q # p /\ life[q] = "unborn" /\ life'[q] = "runs" /\ g'[q] = g[p]
         /\ \A r \in Procs \ {q} : g'[r] = g[r] /\ life'[r] = life[r] /\ mutex'[r] = mutex[r]
<1>1. /\ life[p] = "runs" /\ life[q] = "unborn" /\ left.forks > 0 /\ left' = [left EXCEPT !.forks = @ - 1]
      /\ life' = [life EXCEPT ![q] = "runs"] /\ g' = [g EXCEPT ![q] = g[p]]
      /\ mutex' = [mutex EXCEPT ![q] = IF mutex[p] = "none" THEN "none" ELSE "nobody"]
      /\ UNCHANGED <<conf, kinds, now, th, FileVars, owner, leaked>>
  BY DEF Fork, At
<1>t. TimesOK'
  <2>1. now' = now /\ left.forks > 0 /\ left' = [left EXCEPT !.forks = @ - 1]
    BY <1>1
  <2> QED
    BY <2>1, LeftDown DEF TypeInv, TimesOK
<1>2. ConfOK' /\ ThreadsOK' /\ TimesOK'
  <2>1. UNCHANGED <<conf, kinds, th>>
    BY <1>1
  <2> QED
    BY <1>t, <2>1 DEF TypeInv, ConfOK, ThreadsOK
<1>3. LocksOK'
  BY <1>1 DEF TypeInv, LocksOK
<1>4. /\ q # 1 /\ q # p /\ life'[q] = "runs" /\ g'[q] = g[p] /\ life'[1] # "unborn"
      /\ \A r \in Procs \ {q} : g'[r] = g[r] /\ life'[r] = life[r] /\ mutex'[r] = mutex[r]
  BY <1>1, ProcsAreNats DEF TypeInv, LocksOK, HandlesOK, Alive
<1>5. HandlesOK'
  BY <1>1, <1>4 DEF TypeInv, HandlesOK, HandleOK
<1>6. BuffersOK'
  <2>1. \A u \in Threads : th'[q][u].pc = "idle"
    BY <1>1 DEF Alive
  <2>2. ASSUME NEW r \in Procs, NEW u \in Threads, th'[r][u].pc # "idle" PROVE InOrder(Buf(r, u))'
    <3>1. r # q /\ th'[r][u] = th[r][u] /\ g'[r] = g[r] /\ InOrder(Buf(r, u))
      BY <1>1, <1>4, <2>1, <2>2 DEF TypeInv, BuffersOK
    <3> QED
      BY <3>1 DEF Buf, Which, InOrder
  <2> QED
    BY <2>2 DEF BuffersOK
<1>7. FilesOK'
  <2>1. UNCHANGED FileVars
    BY <1>1
  <2>2. \A r \in Procs : \E o \in Procs : g'[r].fd = g[o].fd
    BY <1>4
  <2> QED
    BY <2>1, <2>2, FilesSame DEF TypeInv
<1>8. Alive'
  BY <1>1, <1>4 DEF Alive
<1> QED
  BY <1>1, <1>2, <1>3, <1>4, <1>5, <1>6, <1>7, <1>8 DEF TypeInv

(* The end of a process keeps the types. *)
LEMMA EndType ==
  ASSUME TypeInv, Alive, NEW p \in Procs,
         life[p] = "runs", life' = [life EXCEPT ![p] = "ended"], owner' = (IF owner = p THEN 0 ELSE owner),
         left' \in [{"calls", "faults", "removals", "forks", "exits", "days"} -> Nat],
         UNCHANGED <<conf, kinds, now, g, th, FileVars, mutex, leaked>>
  PROVE  TypeInv' /\ Alive'
<1>1. ConfOK' /\ ThreadsOK' /\ HandlesOK' /\ TimesOK'
  BY DEF TypeInv, ConfOK, ThreadsOK, HandlesOK, HandleOK, TimesOK
<1>2. LocksOK'
  BY DEF TypeInv, LocksOK
<1>3. FilesOK'
  BY FilesSame DEF TypeInv
<1>4. BuffersOK'
  BY DEF TypeInv, BuffersOK, Buf, Which, InOrder
<1>5. Alive'
  BY DEF Alive, TypeInv, LocksOK
<1> QED
  BY <1>1, <1>2, <1>3, <1>4, <1>5 DEF TypeInv

(* Fail keeps the types. *)
LEMMA FailType ==
  ASSUME TypeInv, Alive, NEW p \in Procs, NEW t \in Threads, Fail(p, t)
  PROVE  TypeInv' /\ Alive'
<1>1. left' \in [{"calls", "faults", "removals", "forks", "exits", "days"} -> Nat]
  BY DEF Fail, TypeInv, TimesOK
<1> QED
  BY <1>1, EndType DEF Fail, At

(* Exit keeps the types. *)
LEMMA ExitType ==
  ASSUME TypeInv, Alive, NEW p \in Procs, Exit(p)
  PROVE  TypeInv' /\ Alive'
<1>1. left.exits > 0 /\ left' = [left EXCEPT !.exits = @ - 1]
  BY DEF Exit
<1>2. left' \in [{"calls", "faults", "removals", "forks", "exits", "days"} -> Nat]
  BY <1>1 DEF TypeInv, TimesOK
<1> QED
  BY <1>2, EndType DEF Exit, At

(* RemoveLog keeps the types. *)
LEMMA RemoveLogType ==
  ASSUME TypeInv, Alive, RemoveLog
  PROVE  TypeInv' /\ Alive'
<1>1. /\ Exists(LogName) /\ names' = Without(names, LogName)
      /\ gone' = [i \in {names[LogName]} \cup DOMAIN gone |-> IF i = names[LogName] THEN Len(data[i]) ELSE gone[i]]
      /\ UNCHANGED <<conf, kinds, life, now, g, th, data, mutex, owner, leaked>>
      /\ left.removals > 0 /\ left' = [left EXCEPT !.removals = @ - 1]
  BY DEF RemoveLog, World, LockVars
<1>u. UNCHANGED <<conf, kinds, life, now, g, th, data, mutex, owner, leaked>>
  BY <1>1
<1>t. TimesOK'
  <2>1. now' = now /\ left.removals > 0 /\ left' = [left EXCEPT !.removals = @ - 1]
    BY <1>1
  <2> QED
    BY <2>1, LeftDown DEF TypeInv, TimesOK
<1>2. ConfOK' /\ ThreadsOK' /\ HandlesOK' /\ TimesOK' /\ LocksOK' /\ Alive'
  BY <1>t, <1>u DEF TypeInv, ConfOK, ThreadsOK, HandlesOK, HandleOK, LocksOK, Alive
<1>3. BuffersOK'
  BY <1>1 DEF TypeInv, BuffersOK, Buf, Which, InOrder
<1>4. FilesOK'
  <2>1. LogName \in Int /\ names[LogName] \in 1 .. Len(data)
    BY <1>1, NamesSame DEF LogName, Exists
  <2>2. /\ DOMAIN names' \subseteq Int /\ names' = [n \in DOMAIN names' |-> names'[n]]
        /\ \A n \in DOMAIN names' : names'[n] \in 1 .. Len(data)
    BY <1>1, <2>1, NamesMoved
  <2>3. data \in Seq(Seq(Entry)) /\ DOMAIN gone \subseteq 1 .. Len(data) /\ \A i \in DOMAIN gone : gone[i] \in Nat
    BY DEF TypeInv, FilesOK
  <2>4. \A i \in 1 .. Len(data) : Len(data[i]) \in Nat
    BY <2>3, ElementOfSeq, LenProperties
  <2>5. DOMAIN gone' \subseteq 1 .. Len(data) /\ gone' = [i \in DOMAIN gone' |-> gone'[i]]
        /\ \A i \in DOMAIN gone' : gone'[i] \in Nat
    BY <1>1, <2>1, <2>3, <2>4
  <2> QED
    BY <1>1, <2>2, <2>3, <2>5 DEF TypeInv, FilesOK
<1> QED
  BY <1>2, <1>3, <1>4 DEF TypeInv

(* Tick keeps the types. *)
LEMMA TickType ==
  ASSUME TypeInv, Alive, Tick
  PROVE  TypeInv' /\ Alive'
<1>1. /\ now' = now + 1 /\ left.days > 0 /\ left' = [left EXCEPT !.days = @ - 1]
      /\ UNCHANGED <<conf, kinds, life, g, th, names, data, gone, mutex, owner, leaked>>
  BY DEF Tick, FileVars, LockVars
<1>u. UNCHANGED <<conf, kinds, life, g, th, names, data, gone, mutex, owner, leaked>>
  BY <1>1
<1>t. TimesOK'
  <2>1. now' = now + 1 /\ left.days > 0 /\ left' = [left EXCEPT !.days = @ - 1]
    BY <1>1
  <2> QED
    BY <2>1, LeftDown DEF TypeInv, TimesOK
<1>2. ConfOK' /\ ThreadsOK' /\ HandlesOK' /\ TimesOK' /\ LocksOK' /\ Alive' /\ FilesOK'
  BY <1>t, <1>u DEF TypeInv, ConfOK, ThreadsOK, HandlesOK, HandleOK, LocksOK, Alive, FilesOK
<1>3. BuffersOK'
  BY <1>1 DEF TypeInv, BuffersOK, Buf, Which, InOrder
<1> QED
  BY <1>2, <1>3 DEF TypeInv

-----------------------------------------------------------------------------
(* What a step does, as far as the other invariants go. *)
SameFile(p) == g'[p].open = g[p].open /\ g'[p].fd = g[p].fd /\ g'[p].test = g[p].test
SameTime(p) == g'[p].cache1 = g[p].cache1 /\ g'[p].rday = g[p].rday
Stands(p, t, pc) == life[p] = "runs" /\ th[p][t].pc = pc
Goto(p, t, pc) == th'[p][t].pc = pc /\ th'[p][t].why = th[p][t].why /\ th'[p][t].new = th[p][t].new
                  /\ th'[p][t].msg = th[p][t].msg

(* The parts of what a step does to the thread and to the handle. *)
LEMMA GotoIs ==
  ASSUME TypeInv, NEW p \in Procs, NEW t \in Threads, NEW pc, th' = [th EXCEPT ![p][t].pc = pc]
  PROVE  Goto(p, t, pc) /\ Only(p, t)
<1>1. th \in [Procs -> [Threads -> Thread]]
  BY DEF TypeInv, ThreadsOK
<1>2. PICK r \in Thread : r = th[p][t]
  BY <1>1
<1>3. PICK s : s = [r EXCEPT !.pc = pc]
  OBVIOUS
<1>4. th' = [th EXCEPT ![p][t] = s]
  BY <1>1, <1>2, <1>3
<1>5. s.pc = pc /\ s.why = r.why /\ s.new = r.new /\ s.msg = r.msg
  BY <1>3 DEF Thread
<1>6. th'[p][t] = s /\ Only(p, t)
  BY <1>1, <1>4 DEF Only
<1> QED
  BY <1>2, <1>5, <1>6 DEF Goto

(* Handles that stay have the same file and times. *)
LEMMA SameHandles ==
  ASSUME TypeInv, NEW p \in Procs, g' = g
  PROVE  SameFile(p) /\ SameTime(p) /\ \A q \in Procs \ {p} : g'[q] = g[q]
BY DEF SameFile, SameTime

(* A step that changes one thread only leaves the others where they are. *)
LEMMA OnlyFrames ==
  ASSUME NEW p \in Procs, NEW t \in Threads, Only(p, t), life[p] = "runs", conf' = conf,
         \A q \in Procs \ {p} : g'[q] = g[q]
  PROVE  Framed(p, t)
BY DEF Only, Framed

(* Fill: the thread goes on with pieces, to the file, or to let the buffer grow. *)
LEMMA FillDoes ==
  ASSUME TypeInv, NEW p \in Procs, NEW t \in Threads, Fill(p, t)
  PROVE  /\ Framed(p, t) /\ Only(p, t) /\ Stands(p, t, "fill") /\ SameFile(p)
         /\ g'[p].rday = g[p].rday /\ g'[p].cache1 \in {Date(p), g[p].cache1}
         /\ th'[p][t].msg = th[p][t].msg
         /\ \/ th'[p][t].pc \in {"fill", "write"}
            \/ th'[p][t].pc = "open" /\ Opens /\ ~g[p].open
            \/ th'[p][t].pc = "lock" /\ th'[p][t].why = "grow"
         /\ UNCHANGED <<now, life, FileVars, LockVars>>
<1>1. PICK len, stop, buf, h, s : FillStep(p, t, len, stop, buf, h, s)
  BY FillEffect
<1>2. Stands(p, t, "fill") /\ conf' = conf /\ UNCHANGED <<now, life, FileVars, LockVars>>
  BY DEF Fill, At, Stands, World
<1>3. /\ h.open = g[p].open /\ h.fd = g[p].fd /\ h.test = g[p].test /\ h.rday = g[p].rday
      /\ h.cache1 \in {Date(p), g[p].cache1} /\ s.msg = th[p][t].msg
      /\ th' = [th EXCEPT ![p][t] = s] /\ g' = [g EXCEPT ![p] = h]
      /\ \/ s.pc \in {"fill", AfterFill(p)}
         \/ s.pc = "lock" /\ s.why = "grow"
  BY <1>1 DEF FillStep
<1>4. Framed(p, t) /\ th'[p][t] = s /\ g'[p] = h /\ Only(p, t)
  <2>1. Pokes(p, t, s, h)
    BY <1>3 DEF Pokes
  <2> QED
    BY <1>2, <2>1, FrameOf DEF Stands
<1>5. AfterFill(p) = "write" \/ (AfterFill(p) = "open" /\ Opens /\ ~g[p].open)
  BY DEF AfterFill
<1> QED
  BY <1>2, <1>3, <1>4, <1>5 DEF SameFile

(* Open: the handle has the file of the name of the log. *)
LEMMA OpenDoes ==
  ASSUME TypeInv, NEW p \in Procs, NEW t \in Threads, Open(p, t)
  PROVE  /\ Framed(p, t) /\ Only(p, t) /\ Stands(p, t, "open") /\ Goto(p, t, "write") /\ SameTime(p)
         /\ g'[p].open /\ g'[p].fd = names'[LogName] /\ g'[p].test = g[p].test
         /\ UNCHANGED <<now, life, gone, dropped, LockVars>>
<1>1. Stands(p, t, "open") /\ UNCHANGED <<conf, now, life, gone, dropped, LockVars>>
  BY DEF Open, At, Stands, World
<1>2. Goto(p, t, "write") /\ Only(p, t)
  BY GotoIs DEF Open, GoTo
<1>3. /\ g'[p].open /\ g'[p].fd = names'[LogName] /\ g'[p].test = g[p].test /\ SameTime(p)
      /\ \A q \in Procs \ {p} : g'[q] = g[q]
  <2>1. g' = [g EXCEPT ![p].open = TRUE, ![p].fd = names'[LogName]]
    BY DEF Open
  <2>2. PICK f : f = names'[LogName]
    OBVIOUS
  <2>3. g = [q \in Procs |-> g[q]] /\ HandleOK(g[p])
    BY DEF TypeInv, HandlesOK
  <2>4. PICK m : m = [g[p] EXCEPT !.open = TRUE]
    OBVIOUS
  <2>5. PICK k : k = [m EXCEPT !.fd = f]
    OBVIOUS
  <2>6. g' = [[g EXCEPT ![p].open = TRUE] EXCEPT ![p].fd = f]
    BY <2>1, <2>2
  <2>7. [g EXCEPT ![p].open = TRUE] = [g EXCEPT ![p] = m]
    BY <2>4
  <2>8. [[g EXCEPT ![p] = m] EXCEPT ![p].fd = f] = [g EXCEPT ![p] = k]
    BY <2>3, <2>5
  <2>9. g' = [g EXCEPT ![p] = k]
    BY <2>6, <2>7, <2>8
  <2>10. HandleOK(m) /\ m.open /\ m.test = g[p].test /\ m.cache1 = g[p].cache1 /\ m.rday = g[p].rday
    BY <2>3, <2>4 DEF HandleOK
  <2>11. k.open /\ k.fd = f /\ k.test = g[p].test /\ k.cache1 = g[p].cache1 /\ k.rday = g[p].rday
    BY <2>5, <2>10 DEF HandleOK
  <2>12. g'[p] = k /\ \A q \in Procs \ {p} : g'[q] = g[q]
    BY <2>3, <2>9
  <2> QED
    BY <2>2, <2>11, <2>12 DEF SameTime
<1> QED
  BY <1>1, <1>2, <1>3, OnlyFrames DEF Stands

(* Write: the thread goes to its test, and no handle changes. *)
LEMMA WriteDoes ==
  ASSUME TypeInv, NEW p \in Procs, NEW t \in Threads, Write(p, t)
  PROVE  /\ Framed(p, t) /\ Only(p, t) /\ Stands(p, t, "write") /\ Goto(p, t, "test") /\ g' = g /\ g[p].open
         /\ SameFile(p) /\ SameTime(p)
         /\ UNCHANGED <<now, life, names, gone, dropped, LockVars>>
<1>1. Stands(p, t, "write") /\ g[p].open /\ UNCHANGED <<conf, now, life, g, names, gone, dropped, LockVars>>
  BY DEF Write, At, Stands, World
<1>2. Goto(p, t, "test") /\ Only(p, t)
  BY GotoIs DEF Write, GoTo
<1> QED
  BY <1>1, <1>2, OnlyFrames DEF Stands, SameFile, SameTime

(* ReturnEarly: the call ends and the handle stays. *)
LEMMA ReturnEarlyDoes ==
  ASSUME TypeInv, NEW p \in Procs, NEW t \in Threads, ReturnEarly(p, t)
  PROVE  /\ Framed(p, t) /\ Only(p, t) /\ (Stands(p, t, "open") \/ Stands(p, t, "write"))
         /\ th'[p][t].pc = "idle" /\ SameFile(p) /\ SameTime(p)
         /\ UNCHANGED <<now, life, FileVars, LockVars>>
<1>1. /\ Stands(p, t, "open") \/ Stands(p, t, "write")
      /\ UNCHANGED <<conf, now, life, g, FileVars, LockVars>>
  BY DEF ReturnEarly, At, Stands, World
<1>2. th' = [th EXCEPT ![p][t] = IdleThread] /\ IdleThread.pc = "idle"
  BY DEF ReturnEarly, IdleThread
<1>3. th \in [Procs -> [Threads -> Thread]]
  BY DEF TypeInv, ThreadsOK
<1>4. th'[p][t].pc = "idle" /\ Only(p, t)
  BY <1>2, <1>3 DEF Only
<1> QED
  BY <1>1, <1>4, OnlyFrames DEF Stands, SameFile, SameTime

(* Begin: threads that are both in a call are mixed. *)
LEMMA BeginDoes ==
  ASSUME TypeInv, NEW p \in Procs, NEW t \in Threads, NEW buffer \in {"hex", "line"}, Begin(p, t, buffer)
  PROVE  /\ Framed(p, t) /\ Stands(p, t, "idle") /\ th'[p][t].pc = "fill"
         /\ SameFile(p) /\ SameTime(p)
         /\ th'[p][t].msg.mixed = (th[p][Sibling(t)].pc # "idle")
         /\ th'[p][Sibling(t)].msg.mixed = (th[p][Sibling(t)].msg.mixed \/ th[p][Sibling(t)].pc # "idle")
         /\ UNCHANGED <<now, life, FileVars, LockVars>>
<1>1. PICK s, v, h : BeginStep(p, t, buffer, s, v, h)
  BY BeginEffect
<1>2. Stands(p, t, "idle") /\ conf' = conf /\ UNCHANGED <<now, life, FileVars, LockVars>>
  BY DEF Begin, At, Stands, World
<1>3. PICK u : u = Sibling(t) /\ u \in Threads /\ u # t /\ \A w \in Threads : w = t \/ w = u
  BY ThreadFacts
<1>4. th'[p][t] = s /\ th'[p][u] = v /\ g'[p] = h /\ \A q \in Procs \ {p} : th'[q] = th[q] /\ g'[q] = g[q]
  BY <1>1, <1>3, BeginType
<1>5. /\ s.pc = "fill" /\ s.msg.mixed = (th[p][u].pc # "idle")
      /\ v.pc = th[p][u].pc /\ v.why = th[p][u].why /\ v.new = th[p][u].new
      /\ v.msg = [th[p][u].msg EXCEPT !.mixed = @ \/ (th[p][u].pc # "idle")]
      /\ h = SetBuffer(g[p], buffer, Emptied(g[p][buffer]))
  BY <1>1, <1>3 DEF BeginStep
<1>6. Framed(p, t)
  BY <1>2, <1>3, <1>4, <1>5 DEF Framed, Stands
<1>7. SameFile(p) /\ SameTime(p)
  <2>1. HandleOK(g[p])
    BY DEF TypeInv, HandlesOK
  <2>2. g[p][buffer] \in BufType
    BY <2>1 DEF HandleOK
  <2>3. Emptied(g[p][buffer]) \in BufType
    BY <2>2, EmptiedType
  <2>4. h.open = g[p].open /\ h.fd = g[p].fd /\ h.test = g[p].test
        /\ h.cache1 = g[p].cache1 /\ h.rday = g[p].rday
    BY <1>5, <2>1, <2>3, HandleBuffer
  <2> QED
    BY <1>4, <2>4 DEF SameFile, SameTime
<1>8. v.msg.mixed = (th[p][u].msg.mixed \/ th[p][u].pc # "idle")
  <2>1. PICK m \in Msg : m = th[p][u].msg
    BY <1>3, ThreadFacts
  <2>2. PICK e \in BOOLEAN : e = (m.mixed \/ (th[p][u].pc # "idle"))
    OBVIOUS
  <2>3. v.msg = [m EXCEPT !.mixed = e]
    BY <1>5, <2>1, <2>2
  <2>4. v.msg.mixed = e
    BY <2>3 DEF Msg
  <2> QED
    BY <2>1, <2>2, <2>4
<1> QED
  BY <1>2, <1>3, <1>4, <1>5, <1>6, <1>7, <1>8

\* The handle after the test for a changed file, as far as the file goes.
TestedFile(p, h) ==
  /\ h.fd = g[p].fd
  /\ h.open => g[p].open
  /\ Detects /\ g[p].open =>
       \/ g[p].test > 1 /\ h.test = g[p].test - 1
       \/ /\ g[p].test <= 1 /\ h.test = TestInterval
          /\ h.open => Exists(LogName) /\ ~(Size(names[LogName]) < g[p].stsize)
  /\ ~(Detects /\ g[p].open) => h.test = g[p].test

(* ChangeTest_interval: counts down, or looks whether the file is still there. *)
LEMMA TestedTests ==
  ASSUME TypeInv, NEW p \in Procs
  PROVE  TestedFile(p, Counted(Tested(g[p])))
<1> PICK o : o = g[p]
  OBVIOUS
<1>1. HandleOK(o)
  BY DEF TypeInv, HandlesOK
<1> PICK k : k = Tested(o)
  OBVIOUS
<1> DEFINE changed == ~Exists(LogName) \/ Size(names[LogName]) < o.stsize
           tests == conf.options = "CHANGE_TEST" /\ conf.how = "first"
           closes == conf.options = "OPEN_AND_CLOSE" /\ conf.how = "each"
<1>2. PICK c \in BOOLEAN : c = ~changed
  OBVIOUS
<1>3. k = CASE o.open /\ tests -> IF o.test > 1 THEN [o EXCEPT !.test = @ - 1]
                                  ELSE [o EXCEPT !.test = TestInterval, !.open = c]
            [] o.open /\ closes -> [o EXCEPT !.open = FALSE]
            [] OTHER -> o
  BY <1>2, Zenon DEF Tested
<1>4. closes => ~tests
  OBVIOUS
<1>t. Detects => tests
  BY DEF Detects
<1>u. tests => Detects
  <2>1. conf.how = "console" <=> conf.output # "FILE"
    BY ConfFacts DEF TypeInv
  <2> QED
    BY <2>1 DEF Detects
<1>5. c => Exists(LogName) /\ ~(Size(names[LogName]) < o.stsize)
  BY <1>2
<1> HIDE DEF changed, tests, closes
<1>6. \/ ~(o.open /\ tests) /\ k = o
      \/ o.open /\ tests /\ o.test > 1 /\ k = [o EXCEPT !.test = @ - 1]
      \/ o.open /\ tests /\ ~(o.test > 1) /\ k = [o EXCEPT !.test = TestInterval, !.open = c]
      \/ ~(o.open /\ tests) /\ k = [o EXCEPT !.open = FALSE]
  BY <1>3, <1>4, Zenon
<1>7. TestInterval \in Nat \ {0} /\ o.test \in Nat
  BY <1>1, LogAssumption DEF HandleOK
<1>8. TestedFile(p, k) /\ HandleOK(k)
  <2>1. CASE ~(o.open /\ tests) /\ k = o
    BY <1>1, <1>t, <2>1 DEF TestedFile
  <2>2. CASE o.open /\ tests /\ o.test > 1 /\ k = [o EXCEPT !.test = @ - 1]
    <3>0. PICK n \in 1 .. TestInterval : n = o.test - 1
      BY <1>1, <1>7, <2>2 DEF HandleOK
    <3>1. HandleOK(k) /\ k.test = n /\ k.fd = o.fd /\ k.open = o.open
      <4>1. k = [o EXCEPT !.test = n]
        BY <2>2, <3>0
      <4> QED
        BY <1>1, <4>1 DEF HandleOK
    <3> QED
      BY <1>u, <2>2, <3>0, <3>1 DEF TestedFile
  <2>3. CASE o.open /\ tests /\ ~(o.test > 1) /\ k = [o EXCEPT !.test = TestInterval, !.open = c]
    <3>1. PICK m : m = [o EXCEPT !.test = TestInterval]
      OBVIOUS
    <3>2. k = [m EXCEPT !.open = c]
      BY <2>3, <3>1
    <3>3. HandleOK(m) /\ m.fd = o.fd /\ m.test = TestInterval
      BY <1>1, <1>7, <3>1 DEF HandleOK
    <3>4. HandleOK(k) /\ k.fd = o.fd /\ k.test = TestInterval /\ k.open = c
      BY <3>2, <3>3 DEF HandleOK
    <3>5. o.test <= 1
      BY <1>7, <2>3
    <3> QED
      BY <1>5, <1>u, <2>3, <3>4, <3>5 DEF TestedFile
  <2>4. CASE ~(o.open /\ tests) /\ k = [o EXCEPT !.open = FALSE]
    <3>1. HandleOK(k) /\ k.fd = o.fd /\ k.test = o.test /\ ~k.open
      BY <1>1, <2>4 DEF HandleOK
    <3> QED
      BY <1>t, <2>4, <3>1 DEF TestedFile
  <2> QED
    BY <1>6, <2>1, <2>2, <2>3, <2>4
<1> PICK h : h = Counted(k)
  OBVIOUS
<1>9. h = k \/ h = [k EXCEPT !.skip = @ - 1]
  BY DEF Counted
<1>10. h.fd = k.fd /\ h.open = k.open /\ h.test = k.test
  BY <1>8, <1>9 DEF HandleOK
<1> QED
  BY <1>8, <1>10 DEF TestedFile

(* Test: the call ends or the thread goes to rotate. *)
LEMMA TestDoes ==
  ASSUME TypeInv, NEW p \in Procs, NEW t \in Threads, Test(p, t)
  PROVE  /\ Framed(p, t) /\ Only(p, t) /\ Stands(p, t, "test")
         /\ TestedFile(p, g'[p])
         /\ g'[p].rday = g[p].rday /\ g'[p].cache1 \in {0, g[p].cache1}
         /\ \/ th'[p][t].pc = "idle"
            \/ /\ th'[p][t].pc = "lock" /\ th'[p][t].why = conf.rotate /\ conf.output = "FILE"
               /\ th'[p][t].msg = th[p][t].msg
               /\ conf.rotate \in {"SIZE", "PER_DAY", "PER_HOUR"}
         /\ UNCHANGED <<now, life, FileVars, LockVars>>
<1>1. /\ Stands(p, t, "test") /\ life[p] = "runs" /\ conf' = conf
      /\ UNCHANGED <<kinds, now, life, FileVars, LockVars>>
  BY DEF Test, At, Stands, World
<1>2. PICK h : h = Counted(Tested(g[p]))
  OBVIOUS
<1>3. HandleOK(h) /\ h.cache1 = g[p].cache1 /\ h.rday = g[p].rday /\ TestedFile(p, h)
  BY <1>2, TestedType, TestedTests
<1>4. CASE RotationDue(h)
  <2>1. th' = [th EXCEPT ![p][t].pc = "lock", ![p][t].why = conf.rotate]
        /\ g' = [g EXCEPT ![p] = [h EXCEPT !.open = @ /\ conf.how # "first"]]
    BY <1>2, <1>4 DEF Test
  <2>2. conf.rotate \in {"SIZE", "PER_DAY", "PER_HOUR"} /\ conf.output = "FILE"
    BY <1>4 DEF RotationDue
  <2>3. "lock" \in Pcs /\ conf.rotate \in Whys /\ th[p][t].new \in Nat /\ ThreadsOK
    BY <2>2 DEF Pcs, Whys, TypeInv, ThreadsOK, Thread
  <2>4. PICK s : Moves(p, t, s, "lock", conf.rotate, th[p][t].new)
    BY <2>1, <2>3, MovesTo
  <2>5. PICK c : c = (h.open /\ conf.how # "first")
    OBVIOUS
  <2>6. PICK k : k = [h EXCEPT !.open = c]
    OBVIOUS
  <2>7. g' = [g EXCEPT ![p] = k]
    BY <2>1, <2>5, <2>6
  <2>8. k.fd = h.fd /\ k.test = h.test /\ k.open = c /\ k.cache1 = h.cache1 /\ k.rday = h.rday
    BY <1>3, <2>6 DEF HandleOK
  <2>9. th' = [th EXCEPT ![p][t] = s] /\ s.pc = "lock" /\ s.why = conf.rotate /\ s.msg = th[p][t].msg
    BY <2>4 DEF Moves
  <2>10. Framed(p, t) /\ Only(p, t) /\ th'[p][t] = s /\ g'[p] = k
    <3>1. Pokes(p, t, s, k)
      BY <2>7, <2>9 DEF Pokes
    <3>2. life[p] = "runs" /\ conf' = conf
      BY <1>1
    <3> QED
      BY <3>1, <3>2, FrameOf
  <2>11. TestedFile(p, g'[p])
    <3>1. c => h.open
      BY <2>5
    <3>2. g'[p].fd = h.fd /\ g'[p].test = h.test /\ (g'[p].open => h.open)
      BY <2>8, <2>10, <3>1
    <3> QED
      BY <1>3, <3>2 DEF TestedFile
  <2> QED
    BY <1>1, <1>3, <2>2, <2>8, <2>9, <2>10, <2>11
<1>5. CASE ~RotationDue(h)
  <2>1. th' = [th EXCEPT ![p][t] = IdleThread] /\ g' = [g EXCEPT ![p] = [h EXCEPT !.cache1 = 0]]
    BY <1>2, <1>5 DEF Test
  <2>2. PICK k : k = [h EXCEPT !.cache1 = 0]
    OBVIOUS
  <2>3. k.fd = h.fd /\ k.test = h.test /\ k.open = h.open /\ k.cache1 = 0 /\ k.rday = h.rday
    BY <1>3, <2>2 DEF HandleOK
  <2>4. g' = [g EXCEPT ![p] = k]
    BY <2>1, <2>2
  <2>5. Framed(p, t) /\ Only(p, t) /\ th'[p][t] = IdleThread /\ g'[p] = k
    <3>1. Pokes(p, t, IdleThread, k)
      BY <2>1, <2>4 DEF Pokes
    <3>2. life[p] = "runs" /\ conf' = conf
      BY <1>1
    <3> QED
      BY <3>1, <3>2, FrameOf
  <2>6. IdleThread.pc = "idle"
    BY DEF IdleThread
  <2>7. TestedFile(p, g'[p])
    BY <1>3, <2>3, <2>5 DEF TestedFile
  <2> QED
    BY <1>1, <1>3, <2>3, <2>5, <2>6, <2>7
<1> QED
  BY <1>4, <1>5

(* LockFile: the process has the lock of the file. *)
LEMMA LockFileDoes ==
  ASSUME TypeInv, NEW p \in Procs, NEW t \in Threads, LockFile(p, t)
  PROVE  /\ Framed(p, t) /\ Only(p, t) /\ Stands(p, t, "lock") /\ Goto(p, t, "mutex")
         /\ SameFile(p) /\ SameTime(p) /\ owner \in {0, p} /\ owner' = p
         /\ UNCHANGED <<now, life, FileVars, mutex, leaked>>
<1>1. /\ Stands(p, t, "lock") /\ owner \in {0, p} /\ owner' = p
      /\ UNCHANGED <<conf, now, life, g, FileVars, mutex, leaked>>
  BY DEF LockFile, At, Stands, World
<1>2. Goto(p, t, "mutex") /\ Only(p, t)
  BY GotoIs DEF LockFile, GoTo
<1> QED
  BY <1>1, <1>2, OnlyFrames DEF Stands, SameFile, SameTime

(* LockMutex: the thread has the mutex. *)
LEMMA LockMutexDoes ==
  ASSUME TypeInv, NEW p \in Procs, NEW t \in Threads, LockMutex(p, t)
  PROVE  /\ Framed(p, t) /\ Only(p, t) /\ Stands(p, t, "mutex") /\ Goto(p, t, "section")
         /\ SameFile(p) /\ SameTime(p) /\ mutex[p] = "none" /\ mutex' = [mutex EXCEPT ![p] = t]
         /\ UNCHANGED <<now, life, FileVars, owner, leaked>>
<1>1. /\ Stands(p, t, "mutex") /\ mutex[p] = "none" /\ mutex' = [mutex EXCEPT ![p] = t]
      /\ UNCHANGED <<conf, now, life, g, FileVars, owner, leaked>>
  BY DEF LockMutex, At, Stands, World
<1>2. Goto(p, t, "section") /\ Only(p, t)
  BY GotoIs DEF LockMutex, GoTo
<1> QED
  BY <1>1, <1>2, OnlyFrames DEF Stands, SameFile, SameTime

(* Release: the lock of the file goes, under the other thread too. *)
LEMMA ReleaseDoes ==
  ASSUME TypeInv, NEW p \in Procs, NEW t \in Threads, Release(p, t)
  PROVE  /\ Framed(p, t) /\ Only(p, t) /\ Stands(p, t, "release") /\ th'[p][t].pc \in {"fill", "idle"}
         /\ th'[p][t].pc = "fill" => th'[p][t].msg = th[p][t].msg
         /\ SameFile(p) /\ g'[p].rday = g[p].rday /\ g'[p].cache1 \in {0, g[p].cache1}
         /\ owner' = (IF owner = p THEN 0 ELSE owner)
         /\ leaked' = (leaked \/ th[p][Sibling(t)].pc \in Inside)
         /\ UNCHANGED <<now, life, FileVars, mutex>>
<1>1. /\ Stands(p, t, "release") /\ life[p] = "runs" /\ conf' = conf
      /\ UNCHANGED <<now, life, FileVars, mutex>>
      /\ owner' = (IF owner = p THEN 0 ELSE owner)
      /\ leaked' = (leaked \/ th[p][Sibling(t)].pc \in Inside)
  BY DEF Release, At, Stands, World
<1>2. CASE th[p][t].why = "grow"
  <2>1. Goto(p, t, "fill") /\ Only(p, t) /\ g' = g
    BY <1>2, GotoIs DEF Release, GoTo
  <2> QED
    BY <1>1, <2>1, OnlyFrames DEF Stands, SameFile, SameTime, Goto
<1>3. CASE th[p][t].why # "grow"
  <2>1. th' = [th EXCEPT ![p][t] = IdleThread] /\ g' = [g EXCEPT ![p].cache1 = 0]
    BY <1>3 DEF Release
  <2>2. PICK o : o = g[p]
    OBVIOUS
  <2>3. PICK k : k = [o EXCEPT !.cache1 = 0]
    OBVIOUS
  <2>4. HandleOK(o)
    BY <2>2 DEF TypeInv, HandlesOK
  <2>5. k.open = o.open /\ k.fd = o.fd /\ k.test = o.test /\ k.cache1 = 0 /\ k.rday = o.rday
    BY <2>3, <2>4 DEF HandleOK
  <2>6. g' = [g EXCEPT ![p] = k]
    BY <2>1, <2>2, <2>3
  <2>7. Framed(p, t) /\ Only(p, t) /\ th'[p][t] = IdleThread /\ g'[p] = k
    <3>1. Pokes(p, t, IdleThread, k)
      BY <2>1, <2>6 DEF Pokes
    <3>2. life[p] = "runs" /\ conf' = conf
      BY <1>1
    <3> QED
      BY <3>1, <3>2, FrameOf
  <2>8. IdleThread.pc = "idle"
    BY DEF IdleThread
  <2> QED
    BY <1>1, <2>2, <2>5, <2>7, <2>8 DEF SameFile
<1> QED
  BY <1>2, <1>3

(* Realloc: the mutex is given back and the file stays. *)
LEMMA ReallocDoes ==
  ASSUME TypeInv, NEW p \in Procs, NEW t \in Threads, Realloc(p, t)
  PROVE  /\ Framed(p, t) /\ Only(p, t) /\ Stands(p, t, "section")
         /\ th'[p][t].pc = "release" /\ th'[p][t].why = th[p][t].why
         /\ th'[p][t].msg.mixed = th[p][t].msg.mixed
         /\ SameFile(p) /\ SameTime(p) /\ mutex' = [mutex EXCEPT ![p] = "none"]
         /\ UNCHANGED <<now, life, FileVars, owner, leaked>>
<1>1. /\ Stands(p, t, "section") /\ life[p] = "runs" /\ conf' = conf
      /\ UNCHANGED <<now, life, FileVars, owner, leaked>>
  BY DEF Realloc, At, Stands, World
<1>2. mutex' = [mutex EXCEPT ![p] = "none"]
  BY DEF Realloc
<1>3. PICK s, h :
        /\ Sets(p, t, s, h)
        /\ h = SetBuffer(g[p], Which(p, t), Grown(Buf(p, t), th[p][t].new))
        /\ s.i = th[p][t].i /\ s.pc = "release" /\ s.why = th[p][t].why /\ s.new = th[p][t].new
        /\ s.msg = [th[p][t].msg EXCEPT !.redone = @ \/ AtMessage(p, t)]
  BY ReallocType
<1>4. Framed(p, t) /\ Only(p, t) /\ th'[p][t] = s /\ g'[p] = h
  <2>1. Pokes(p, t, s, h)
    BY <1>3 DEF Sets, Pokes
  <2> QED
    BY <1>1, <2>1, FrameOf
<1>5. SameFile(p) /\ SameTime(p)
  <2>1. HandleOK(g[p]) /\ Buf(p, t) \in BufType /\ InOrder(Buf(p, t)) /\ Which(p, t) \in {"hex", "line"}
        /\ th[p][t] \in Thread
    BY <1>1, ThreadFacts DEF Stands
  <2>2. th[p][t].new \in Nat
    BY <2>1 DEF Thread
  <2>3. Grown(Buf(p, t), th[p][t].new) \in BufType
    BY <2>1, <2>2, GrownType
  <2>b. PICK b \in BufType : b = Grown(Buf(p, t), th[p][t].new)
    BY <2>3
  <2>w. PICK w \in {"hex", "line"} : w = Which(p, t)
    BY <2>1
  <2>o. PICK o : o = g[p]
    OBVIOUS
  <2>4. HandleOK(o) /\ h = SetBuffer(o, w, b)
    BY <1>3, <2>1, <2>b, <2>o, <2>w
  <2>5. h.open = g[p].open /\ h.fd = g[p].fd /\ h.test = g[p].test
        /\ h.cache1 = g[p].cache1 /\ h.rday = g[p].rday
    <3>1. h.open = o.open /\ h.fd = o.fd /\ h.test = o.test /\ h.cache1 = o.cache1 /\ h.rday = o.rday
      BY <2>4, HandleBuffer
    <3> QED
      BY <2>o, <3>1
  <2> QED
    BY <1>4, <2>5 DEF SameFile, SameTime
<1>6. s.msg.mixed = th[p][t].msg.mixed
  <2>1. PICK m \in Msg : m = th[p][t].msg
    BY ThreadFacts
  <2>2. PICK c \in BOOLEAN : c = (m.redone \/ AtMessage(p, t))
    OBVIOUS
  <2>3. s.msg = [m EXCEPT !.redone = c]
    BY <1>3, <2>1, <2>2
  <2> QED
    BY <2>1, <2>3 DEF Msg
<1>7. s.pc = "release" /\ s.why = th[p][t].why
  BY <1>3
<1> QED
  BY <1>1, <1>2, <1>4, <1>5, <1>6, <1>7

(* StatLog: the thread leaves or has chosen a number. *)
LEMMA StatLogDoes ==
  ASSUME TypeInv, NEW p \in Procs, NEW t \in Threads, StatLog(p, t)
  PROVE  /\ Framed(p, t) /\ Only(p, t) /\ Stands(p, t, "section") /\ th[p][t].why = "SIZE"
         /\ th'[p][t].msg = th[p][t].msg /\ th'[p][t].why = th[p][t].why
         /\ SameFile(p) /\ SameTime(p)
         /\ \/ th'[p][t].pc = "release" /\ mutex' = [mutex EXCEPT ![p] = "none"]
            \/ th'[p][t].pc = "rename" /\ th'[p][t].new = Number /\ mutex' = mutex
         /\ UNCHANGED <<now, life, FileVars, owner, leaked>>
<1>1. /\ Stands(p, t, "section") /\ life[p] = "runs" /\ conf' = conf /\ th[p][t].why = "SIZE"
      /\ UNCHANGED <<kinds, now, life, FileVars, owner, leaked>>
  BY DEF StatLog, At, Stands, World
<1>2. \/ th' = [th EXCEPT ![p][t].pc = "release"] /\ mutex' = [mutex EXCEPT ![p] = "none"]
      \/ th' = [th EXCEPT ![p][t].pc = "rename", ![p][t].new = Number] /\ mutex' = mutex
  BY DEF StatLog, Leave, GoTo
<1>3. ThreadsOK /\ {"release", "rename"} \subseteq Pcs /\ th[p][t].why \in Whys /\ th[p][t].new \in Nat
      /\ Number \in Nat
  BY NumberFirst DEF Pcs, TypeInv, ThreadsOK, Thread
<1>4. PICK s : /\ th' = [th EXCEPT ![p][t] = s] /\ s.msg = th[p][t].msg /\ s.why = th[p][t].why
               /\ \/ s.pc = "release" /\ mutex' = [mutex EXCEPT ![p] = "none"]
                  \/ s.pc = "rename" /\ s.new = Number /\ mutex' = mutex
  <2>1. CASE th' = [th EXCEPT ![p][t].pc = "release"] /\ mutex' = [mutex EXCEPT ![p] = "none"]
    <3>1. PICK s : Moves(p, t, s, "release", th[p][t].why, th[p][t].new)
      BY <1>3, <2>1, MovesTo
    <3> QED
      BY <2>1, <3>1 DEF Moves
  <2>2. CASE th' = [th EXCEPT ![p][t].pc = "rename", ![p][t].new = Number] /\ mutex' = mutex
    <3>1. PICK n \in Nat : n = Number
      BY <1>3
    <3>2. th' = [th EXCEPT ![p][t].pc = "rename", ![p][t].new = n]
      BY <2>2, <3>1
    <3>3. PICK s : Moves(p, t, s, "rename", th[p][t].why, n)
      BY <1>3, <3>2, MovesTo
    <3> QED
      BY <2>2, <3>1, <3>3 DEF Moves
  <2> QED
    BY <1>2, <2>1, <2>2
<1>5. th \in [Procs -> [Threads -> Thread]] /\ g = [q \in Procs |-> g[q]] /\ HandleOK(g[p])
  BY DEF TypeInv, ThreadsOK, HandlesOK
<1>6. Only(p, t) /\ th'[p][t] = s
  BY <1>4, <1>5 DEF Only
<1>7. SameFile(p) /\ SameTime(p) /\ \A q \in Procs \ {p} : g'[q] = g[q]
  <2>1. \E st, skip : g' \in {g, [g EXCEPT ![p].stsize = st, ![p].skip = skip], [g EXCEPT ![p].stsize = st]}
    BY DEF StatLog
  <2>2. PICK st, skip : g' \in {g, [g EXCEPT ![p].stsize = st, ![p].skip = skip], [g EXCEPT ![p].stsize = st]}
    BY <2>1
  <2>3. CASE g' = g
    BY <2>3, SameHandles
  <2>4. CASE g' = [g EXCEPT ![p].stsize = st]
    <3>1. PICK k : k = [g[p] EXCEPT !.stsize = st]
      OBVIOUS
    <3>2. k.open = g[p].open /\ k.fd = g[p].fd /\ k.test = g[p].test
          /\ k.cache1 = g[p].cache1 /\ k.rday = g[p].rday
      BY <1>5, <3>1 DEF HandleOK
    <3>3. g'[p] = k /\ \A q \in Procs \ {p} : g'[q] = g[q]
      BY <1>5, <2>4, <3>1
    <3> QED
      BY <3>2, <3>3 DEF SameFile, SameTime
  <2>5. CASE g' = [g EXCEPT ![p].stsize = st, ![p].skip = skip]
    <3>1. PICK m : m = [g[p] EXCEPT !.stsize = st]
      OBVIOUS
    <3>2. PICK k : k = [m EXCEPT !.skip = skip]
      OBVIOUS
    <3>3. HandleOK(m) /\ m.open = g[p].open /\ m.fd = g[p].fd /\ m.test = g[p].test
          /\ m.cache1 = g[p].cache1 /\ m.rday = g[p].rday
      BY <1>5, <3>1 DEF HandleOK
    <3>4. k.open = m.open /\ k.fd = m.fd /\ k.test = m.test /\ k.cache1 = m.cache1 /\ k.rday = m.rday
      BY <3>2, <3>3 DEF HandleOK
    <3>5. g'[p] = k /\ \A q \in Procs \ {p} : g'[q] = g[q]
      <4>1. g' = [[g EXCEPT ![p].stsize = st] EXCEPT ![p].skip = skip]
        BY <2>5
      <4>2. [g EXCEPT ![p].stsize = st] = [g EXCEPT ![p] = m]
        BY <3>1
      <4>3. [[g EXCEPT ![p] = m] EXCEPT ![p].skip = skip] = [g EXCEPT ![p] = k]
        BY <1>5, <3>2
      <4>4. g' = [g EXCEPT ![p] = k]
        BY <4>1, <4>2, <4>3
      <4> QED
        BY <1>5, <4>4
    <3> QED
      BY <3>3, <3>4, <3>5 DEF SameFile, SameTime
  <2> QED
    BY <2>2, <2>3, <2>4, <2>5
<1>8. Framed(p, t)
  BY <1>1, <1>6, <1>7, OnlyFrames
<1> QED
  BY <1>1, <1>4, <1>6, <1>7, <1>8

(* Rename: the thread leaves, and no contents change. *)
LEMMA RenameDoes ==
  ASSUME TypeInv, NEW p \in Procs, NEW t \in Threads, Rename(p, t)
  PROVE  /\ Framed(p, t) /\ Only(p, t) /\ Stands(p, t, "rename") /\ Goto(p, t, "release")
         /\ SameFile(p) /\ SameTime(p) /\ mutex' = [mutex EXCEPT ![p] = "none"]
         /\ UNCHANGED <<now, life, data, gone, owner, leaked>>
<1>1. /\ Stands(p, t, "rename") /\ UNCHANGED <<conf, now, life, data, gone, owner, leaked>>
      /\ mutex' = [mutex EXCEPT ![p] = "none"] /\ g' = [g EXCEPT ![p].skip = 1]
  BY DEF Rename, At, Stands, World, Leave
<1>2. Goto(p, t, "release") /\ Only(p, t)
  BY GotoIs DEF Rename, Leave, GoTo
<1>3. SameFile(p) /\ SameTime(p) /\ \A q \in Procs \ {p} : g'[q] = g[q]
  <2>1. PICK k : k = [g[p] EXCEPT !.skip = 1]
    OBVIOUS
  <2>2. HandleOK(g[p]) /\ g = [q \in Procs |-> g[q]]
    BY DEF TypeInv, HandlesOK
  <2>3. k.open = g[p].open /\ k.fd = g[p].fd /\ k.test = g[p].test
        /\ k.cache1 = g[p].cache1 /\ k.rday = g[p].rday
    BY <2>1, <2>2 DEF HandleOK
  <2>4. g'[p] = k /\ \A q \in Procs \ {p} : g'[q] = g[q]
    BY <1>1, <2>1, <2>2
  <2> QED
    BY <2>3, <2>4 DEF SameFile, SameTime
<1> QED
  BY <1>1, <1>2, <1>3, OnlyFrames DEF Stands

(* RotateByDate: the thread leaves with the day of the call. *)
LEMMA RotateByDateDoes ==
  ASSUME TypeInv, NEW p \in Procs, NEW t \in Threads, NEW mode, RotateByDate(p, t, mode)
  PROVE  /\ Framed(p, t) /\ Only(p, t) /\ Stands(p, t, "section") /\ Goto(p, t, "release")
         /\ th[p][t].why = mode
         /\ SameFile(p) /\ g'[p].cache1 = Date(p) /\ g'[p].rday = Date(p)
         /\ mutex' = [mutex EXCEPT ![p] = "none"]
         /\ names' = (IF g[p].rday \notin {0, Date(p)} /\ Exists(LogName)
                        THEN Moved(DayName(g[p].rday)) ELSE names)
         /\ UNCHANGED <<now, life, data, gone, dropped, owner, leaked>>
<1>1. /\ Stands(p, t, "section") /\ UNCHANGED <<conf, now, life, data, gone, dropped, owner, leaked>>
      /\ mutex' = [mutex EXCEPT ![p] = "none"] /\ th[p][t].why = mode
      /\ names' = (IF g[p].rday \notin {0, Date(p)} /\ Exists(LogName)
                     THEN Moved(DayName(g[p].rday)) ELSE names)
      /\ g' = [g EXCEPT ![p].cache1 = Date(p), ![p].rday = Date(p)]
  BY DEF RotateByDate, At, Stands, World, Leave
<1>2. Goto(p, t, "release") /\ Only(p, t)
  BY GotoIs DEF RotateByDate, Leave, GoTo
<1>3. SameFile(p) /\ g'[p].cache1 = Date(p) /\ g'[p].rday = Date(p) /\ \A q \in Procs \ {p} : g'[q] = g[q]
  <2>1. PICK d \in Nat : d = Date(p)
    BY ThreadFacts
  <2>2. HandleOK(g[p]) /\ g = [q \in Procs |-> g[q]]
    BY DEF TypeInv, HandlesOK
  <2>3. PICK m : m = [g[p] EXCEPT !.cache1 = d]
    OBVIOUS
  <2>4. PICK k : k = [m EXCEPT !.rday = d]
    OBVIOUS
  <2>5. HandleOK(m) /\ m.cache1 = d /\ m.open = g[p].open /\ m.fd = g[p].fd /\ m.test = g[p].test
    BY <2>2, <2>3 DEF HandleOK
  <2>6. k.rday = d /\ k.cache1 = d /\ k.open = g[p].open /\ k.fd = g[p].fd /\ k.test = g[p].test
    BY <2>4, <2>5 DEF HandleOK
  <2>7. g' = [g EXCEPT ![p] = k]
    <3>1. g' = [[g EXCEPT ![p].cache1 = d] EXCEPT ![p].rday = d]
      BY <1>1, <2>1
    <3>2. [g EXCEPT ![p].cache1 = d] = [g EXCEPT ![p] = m]
      BY <2>3
    <3>3. [[g EXCEPT ![p] = m] EXCEPT ![p].rday = d] = [g EXCEPT ![p] = k]
      BY <2>2, <2>4
    <3> QED
      BY <3>1, <3>2, <3>3
  <2>8. g'[p] = k /\ \A q \in Procs \ {p} : g'[q] = g[q]
    BY <2>2, <2>7
  <2> QED
    BY <2>1, <2>6, <2>8 DEF SameFile
<1> QED
  BY <1>1, <1>2, <1>3, OnlyFrames DEF Stands

-----------------------------------------------------------------------------
(* Types are kept. *)
(* Steps of threads begin no process. *)
LEMMA AliveStep ==
  ASSUME TypeInv, Alive, NEW p \in Procs, NEW t \in Threads, Framed(p, t), life' = life
  PROVE  Alive'
BY DEF Alive, Framed

(* Every step keeps the types. *)
LEMMA NextType ==
  ASSUME TypeInv, Alive, Next
  PROVE  TypeInv' /\ Alive'
<1>1. ASSUME NEW p \in Procs, NEW t \in Threads, NEW buffer \in {"hex", "line"}, Begin(p, t, buffer)
      PROVE  TypeInv' /\ Alive'
  <2>1. PICK s, v, h : BeginStep(p, t, buffer, s, v, h)
    BY <1>1, BeginEffect
  <2>2. TypeInv'
    BY <2>1, BeginType
  <2>3. Framed(p, t) /\ life' = life
    BY <1>1, BeginDoes
  <2> QED
    BY <2>2, <2>3, AliveStep
<1>2. ASSUME NEW p \in Procs, NEW t \in Threads, Step(p, t) PROVE TypeInv' /\ Alive'
  <2>1. CASE Fill(p, t)
    <3>1. TypeInv' /\ Framed(p, t) /\ life' = life
      BY <2>1, FillType, FillDoes
    <3> QED
      BY <3>1, AliveStep
  <2>2. CASE Fail(p, t)
    BY <2>2, FailType
  <2>3. CASE Open(p, t)
    <3>1. TypeInv' /\ Framed(p, t) /\ life' = life
      BY <2>3, OpenType, OpenDoes
    <3> QED
      BY <3>1, AliveStep
  <2>4. CASE Write(p, t)
    <3>1. TypeInv' /\ Framed(p, t) /\ life' = life
      BY <2>4, WriteType, WriteDoes
    <3> QED
      BY <3>1, AliveStep
  <2>5. CASE ReturnEarly(p, t)
    <3>1. TypeInv' /\ Framed(p, t) /\ life' = life
      BY <2>5, ReturnEarlyType, ReturnEarlyDoes
    <3> QED
      BY <3>1, AliveStep
  <2>6. CASE Test(p, t)
    <3>1. TypeInv' /\ Framed(p, t) /\ life' = life
      BY <2>6, TestType, TestDoes
    <3> QED
      BY <3>1, AliveStep
  <2>7. CASE LockFile(p, t)
    <3>1. TypeInv' /\ Framed(p, t) /\ life' = life
      BY <2>7, LockFileType, LockFileDoes
    <3> QED
      BY <3>1, AliveStep
  <2>8. CASE LockMutex(p, t)
    <3>1. TypeInv' /\ Framed(p, t) /\ life' = life
      BY <2>8, LockMutexType, LockMutexDoes
    <3> QED
      BY <3>1, AliveStep
  <2>9. CASE Release(p, t)
    <3>1. TypeInv' /\ Framed(p, t) /\ life' = life
      BY <2>9, ReleaseType, ReleaseDoes
    <3> QED
      BY <3>1, AliveStep
  <2>10. CASE Realloc(p, t)
    <3>1. TypeInv' /\ Framed(p, t) /\ life' = life
      BY <2>10, ReallocType, ReallocDoes
    <3> QED
      BY <3>1, AliveStep
  <2>11. CASE StatLog(p, t)
    <3>1. TypeInv' /\ Framed(p, t) /\ life' = life
      BY <2>11, StatLogType, StatLogDoes
    <3> QED
      BY <3>1, AliveStep
  <2>12. CASE Rename(p, t)
    <3>1. TypeInv' /\ Framed(p, t) /\ life' = life
      BY <2>12, RenameType, RenameDoes
    <3> QED
      BY <3>1, AliveStep
  <2>13. ASSUME NEW mode, RotateByDate(p, t, mode) PROVE TypeInv' /\ Alive'
    <3>1. TypeInv' /\ Framed(p, t) /\ life' = life
      BY <2>13, RotateByDateType, RotateByDateDoes
    <3> QED
      BY <3>1, AliveStep
  <2>14. CASE RotateLogFilePerDate(p, t)
    BY <2>13, <2>14 DEF RotateLogFilePerDate
  <2>15. CASE RotateLogFilePerHour(p, t)
    BY <2>13, <2>15 DEF RotateLogFilePerHour
  <2> QED
    BY <1>2, <2>1, <2>2, <2>3, <2>4, <2>5, <2>6, <2>7, <2>8, <2>9, <2>10, <2>11, <2>12, <2>14, <2>15 DEF Step
<1>3. ASSUME NEW p \in Procs, NEW q \in Procs, Fork(p, q) PROVE TypeInv' /\ Alive'
  BY <1>3, ForkType
<1>4. ASSUME NEW p \in Procs, Exit(p) PROVE TypeInv' /\ Alive'
  BY <1>4, ExitType
<1>5. CASE RemoveLog
  BY <1>5, RemoveLogType
<1>6. CASE Tick
  BY <1>6, TickType
<1> QED
  BY <1>1, <1>2, <1>3, <1>4, <1>5, <1>6 DEF Next, Call, CallHex

(* A step that changes nothing keeps the types. *)
LEMMA StutterType ==
  ASSUME TypeInv, Alive, UNCHANGED vars
  PROVE  TypeInv' /\ Alive'
<1>1. UNCHANGED <<conf, kinds, g, mutex, owner, th, life, names, data, now, left, leaked, gone>>
  BY DEF vars
<1>2. BuffersOK'
  BY <1>1 DEF TypeInv, BuffersOK, Buf, Which, InOrder
<1>3. ConfOK' /\ ThreadsOK' /\ HandlesOK' /\ LocksOK' /\ FilesOK' /\ TimesOK' /\ Alive'
  BY <1>1, SMTT(30) DEF TypeInv, ConfOK, ThreadsOK, HandlesOK, HandleOK, LocksOK, FilesOK, TimesOK, Alive
<1> QED
  BY <1>2, <1>3 DEF TypeInv

(* The variables have their types in every state: descriptors are files, names are of files, and the buffer of a call is filled exactly as far as its counters say (log.c:1048-1110). *)
THEOREM TypeCorrect == Spec => [](TypeInv /\ Alive)
<1>1. Init => TypeInv /\ Alive
  BY InitType
<1>2. TypeInv /\ Alive /\ [Next]_vars => TypeInv' /\ Alive'
  BY NextType, StutterType
<1> QED
  BY <1>1, <1>2, PTL DEF Spec

-----------------------------------------------------------------------------
(* The locks, and what a thread in a section is there for. *)
(* What a thread between lock and release is there for. *)
Reasons ==
  \A p \in Procs, t \in Threads :
    /\ th[p][t].pc \in {"lock", "mutex", "section", "rename", "release"} /\ th[p][t].why # "grow" =>
         th[p][t].why = conf.rotate
    /\ th[p][t].pc = "rename" => th[p][t].why = "SIZE"

(* Who is inside has the lock of the file, as long as no sibling gave it back, and the mutex. *)
LockHeld ==
  ~leaked => \A p \in Procs, t \in Threads :
               life[p] = "runs" /\ th[p][t].pc \in Inside => owner = p
MutexHeld ==
  \A p \in Procs, t \in Threads :
    life[p] = "runs" /\ th[p][t].pc \in {"section", "rename"} => mutex[p] = t

LockInv == Reasons /\ LockHeld /\ MutexHeld

(* The number that was chosen is still the one to choose. *)
NumberChosen ==
  ~leaked => \A p \in Procs, t \in Threads :
               life[p] = "runs" /\ th[p][t].pc = "rename" => th[p][t].new = Number

(* A rotation by date never goes back. *)

(* The locks hold at first. *)
LEMMA InitLock ==
  ASSUME Init
  PROVE  LockInv
<1>1. \A p \in Procs, t \in Threads : th[p][t] = IdleThread
  BY DEF Init
<1>2. IdleThread.pc = "idle"
  BY DEF IdleThread
<1>3. \A p \in Procs, t \in Threads : th[p][t].pc = "idle"
  BY <1>1, <1>2
<1> QED
  BY <1>3 DEF LockInv, Reasons, LockHeld, MutexHeld, Inside

(* A child begins without locks. *)
LEMMA ForkLock ==
  ASSUME TypeInv, Alive, LockInv, NEW p \in Procs, NEW q \in Procs, Fork(p, q)
  PROVE  LockInv'
<1>1. /\ q # 1 /\ q # p /\ life[q] = "unborn"
      /\ \A r \in Procs \ {q} : life'[r] = life[r] /\ mutex'[r] = mutex[r]
  BY ForkType
<1>2. UNCHANGED <<conf, th, owner, leaked>>
  BY DEF Fork
<1>3. \A t \in Threads : th[q][t].pc = "idle"
  BY <1>1 DEF Alive
<1>4. Reasons'
  BY <1>2 DEF LockInv, Reasons
<1>5. LockHeld'
  BY <1>1, <1>2, <1>3 DEF LockInv, LockHeld, Inside
<1>6. MutexHeld'
  BY <1>1, <1>2, <1>3 DEF LockInv, MutexHeld
<1> QED
  BY <1>4, <1>5, <1>6 DEF LockInv

(* The end of a process takes its locks along. *)
LEMMA EndLock ==
  ASSUME TypeInv, LockInv, NEW p \in Procs, life' = [life EXCEPT ![p] = "ended"],
         owner' = (IF owner = p THEN 0 ELSE owner), UNCHANGED <<conf, th, mutex, leaked>>
  PROVE  LockInv'
<1>1. life'[p] = "ended" /\ \A r \in Procs \ {p} : life'[r] = life[r]
  BY DEF TypeInv, LocksOK
<1>2. Reasons'
  BY DEF LockInv, Reasons
<1>3. LockHeld'
  BY <1>1 DEF LockInv, LockHeld
<1>4. MutexHeld'
  BY <1>1 DEF LockInv, MutexHeld
<1> QED
  BY <1>2, <1>3, <1>4 DEF LockInv

(* A step that leaves locks and processes alone. *)
LEMMA OutsideLock ==
  ASSUME LockInv, NEW p \in Procs, NEW t \in Threads, Framed(p, t), UNCHANGED <<life, LockVars>>,
         \/ th'[p][t].pc \in {"idle", "fill", "open", "write", "test"}
         \/ th'[p][t].pc = "lock" /\ (th'[p][t].why # "grow" => th'[p][t].why = conf.rotate)
  PROVE  LockInv'
<1>1. UNCHANGED <<mutex, owner, leaked>>
  BY DEF LockVars
<1>2. Reasons'
  BY DEF LockInv, Reasons, Framed
<1>3. LockHeld'
  BY <1>1 DEF LockInv, LockHeld, Framed, Inside
<1>4. MutexHeld'
  BY <1>1 DEF LockInv, MutexHeld, Framed
<1> QED
  BY <1>2, <1>3, <1>4 DEF LockInv

(* Realloc and the rotations leave the section. *)
LEMMA LeaveLock ==
  ASSUME TypeInv, LockInv, NEW p \in Procs, NEW t \in Threads, Framed(p, t), UNCHANGED <<life, owner, leaked>>,
         th[p][t].pc \in {"section", "rename"}, mutex' = [mutex EXCEPT ![p] = "none"],
         th'[p][t].pc = "release", th'[p][t].why = th[p][t].why
  PROVE  LockInv'
<1>1. \A q \in Procs \ {p} : mutex'[q] = mutex[q]
  BY DEF TypeInv, LocksOK
<1>2. life[p] = "runs" /\ mutex[p] = t
  BY DEF LockInv, MutexHeld, Framed
<1>3. Reasons'
  BY DEF LockInv, Reasons, Framed
<1>4. LockHeld'
  BY DEF LockInv, LockHeld, Framed, Inside
<1>5. MutexHeld'
  BY <1>1, <1>2 DEF LockInv, MutexHeld, Framed
<1> QED
  BY <1>3, <1>4, <1>5 DEF LockInv

(* Every step of a thread keeps the locks. *)
LEMMA StepLock ==
  ASSUME TypeInv, Alive, LockInv, NEW p \in Procs, NEW t \in Threads, Step(p, t)
  PROVE  LockInv'
<1>1. CASE Fill(p, t)
  <2>1. /\ Framed(p, t) /\ UNCHANGED <<life, LockVars>>
        /\ \/ th'[p][t].pc \in {"fill", "write", "open"}
           \/ th'[p][t].pc = "lock" /\ th'[p][t].why = "grow"
    BY <1>1, FillDoes
  <2> QED
    BY <2>1, OutsideLock
<1>2. CASE Fail(p, t)
  BY <1>2, EndLock DEF Fail
<1>3. CASE Open(p, t)
  BY <1>3, OpenDoes, OutsideLock DEF Goto
<1>4. CASE Write(p, t)
  BY <1>4, WriteDoes, OutsideLock DEF Goto
<1>5. CASE ReturnEarly(p, t)
  BY <1>5, ReturnEarlyDoes, OutsideLock
<1>6. CASE Test(p, t)
  BY <1>6, TestDoes, OutsideLock
<1>7. CASE LockFile(p, t)
  <2>1. /\ Framed(p, t) /\ th[p][t].pc = "lock" /\ th'[p][t].pc = "mutex" /\ th'[p][t].why = th[p][t].why
        /\ owner \in {0, p} /\ owner' = p /\ UNCHANGED <<life, mutex, leaked>>
    BY <1>7, LockFileDoes DEF Goto, Stands
  <2>2. Reasons'
    BY <2>1 DEF LockInv, Reasons, Framed
  <2>3. LockHeld'
    BY <2>1, ProcsAreNats DEF LockInv, LockHeld, Framed
  <2>4. MutexHeld'
    BY <2>1 DEF LockInv, MutexHeld, Framed
  <2> QED
    BY <2>2, <2>3, <2>4 DEF LockInv
<1>8. CASE LockMutex(p, t)
  <2>1. /\ Framed(p, t) /\ th[p][t].pc = "mutex" /\ th'[p][t].pc = "section" /\ th'[p][t].why = th[p][t].why
        /\ mutex[p] = "none" /\ mutex' = [mutex EXCEPT ![p] = t] /\ UNCHANGED <<life, owner, leaked>>
    BY <1>8, LockMutexDoes DEF Goto, Stands
  <2>2. mutex'[p] = t /\ \A q \in Procs \ {p} : mutex'[q] = mutex[q]
    BY <2>1 DEF TypeInv, LocksOK
  <2>3. Reasons'
    BY <2>1 DEF LockInv, Reasons, Framed
  <2>4. LockHeld'
    BY <2>1 DEF LockInv, LockHeld, Framed, Inside
  <2>5. MutexHeld'
    <3>1. t # "none" /\ \A u \in Threads : u # "none"
      BY DEF Threads
    <3> QED
      BY <2>1, <2>2, <3>1 DEF LockInv, MutexHeld, Framed
  <2> QED
    BY <2>3, <2>4, <2>5 DEF LockInv
<1>9. CASE Release(p, t)
  <2>1. /\ Framed(p, t) /\ th'[p][t].pc \in {"fill", "idle"}
        /\ owner' = (IF owner = p THEN 0 ELSE owner)
        /\ leaked' = (leaked \/ th[p][Sibling(t)].pc \in Inside) /\ UNCHANGED <<life, mutex>>
    BY <1>9, ReleaseDoes
  <2>2. Reasons'
    BY <2>1 DEF LockInv, Reasons, Framed
  <2>3. LockHeld'
    <3>1. \A u \in Threads : u = t \/ u = Sibling(t)
      BY ThreadFacts
    <3>2. ~leaked' => ~leaked /\ \A u \in Threads \ {t} : th[p][u].pc \notin Inside
      BY <2>1, <3>1
    <3>3. "fill" \notin Inside /\ "idle" \notin Inside
      BY DEF Inside
    <3> QED
      BY <2>1, <3>2, <3>3 DEF LockInv, LockHeld, Framed
  <2>4. MutexHeld'
    BY <2>1 DEF LockInv, MutexHeld, Framed
  <2> QED
    BY <2>2, <2>3, <2>4 DEF LockInv
<1>10. CASE Realloc(p, t)
  BY <1>10, ReallocDoes, LeaveLock DEF Stands
<1>11. CASE StatLog(p, t)
  <2>1. /\ Framed(p, t) /\ th[p][t].pc = "section" /\ th[p][t].why = "SIZE" /\ th'[p][t].why = th[p][t].why
        /\ UNCHANGED <<life, owner, leaked>>
    BY <1>11, StatLogDoes DEF Stands
  <2>2. CASE th'[p][t].pc = "release" /\ mutex' = [mutex EXCEPT ![p] = "none"]
    BY <2>1, <2>2, LeaveLock
  <2>3. CASE th'[p][t].pc = "rename" /\ mutex' = mutex
    <3>1. Reasons'
      BY <2>1, <2>3 DEF LockInv, Reasons, Framed
    <3>2. LockHeld'
      BY <2>1, <2>3 DEF LockInv, LockHeld, Framed, Inside
    <3>3. MutexHeld'
      BY <2>1, <2>3 DEF LockInv, MutexHeld, Framed
    <3> QED
      BY <3>1, <3>2, <3>3 DEF LockInv
  <2> QED
    BY <1>11, <2>2, <2>3, StatLogDoes
<1>12. CASE Rename(p, t)
  BY <1>12, RenameDoes, LeaveLock DEF Stands, Goto
<1>13. ASSUME NEW mode, RotateByDate(p, t, mode) PROVE LockInv'
  BY <1>13, RotateByDateDoes, LeaveLock DEF Stands, Goto
<1>14. CASE RotateLogFilePerDate(p, t) \/ RotateLogFilePerHour(p, t)
  BY <1>13, <1>14 DEF RotateLogFilePerDate, RotateLogFilePerHour
<1> QED
  BY <1>1, <1>2, <1>3, <1>4, <1>5, <1>6, <1>7, <1>8, <1>9, <1>10, <1>11, <1>12, <1>14 DEF Step

(* Every step keeps the locks. *)
LEMMA NextLock ==
  ASSUME TypeInv, Alive, LockInv, Next
  PROVE  LockInv'
<1>1. ASSUME NEW p \in Procs, NEW t \in Threads, NEW buffer \in {"hex", "line"}, Begin(p, t, buffer)
      PROVE  LockInv'
  BY <1>1, BeginDoes, OutsideLock
<1>2. ASSUME NEW p \in Procs, NEW q \in Procs, Fork(p, q) PROVE LockInv'
  BY <1>2, ForkLock
<1>3. ASSUME NEW p \in Procs, Exit(p) PROVE LockInv'
  BY <1>3, EndLock DEF Exit
<1>4. CASE RemoveLog
  BY <1>4 DEF RemoveLog, World, LockVars, LockInv, Reasons, LockHeld, MutexHeld
<1>5. CASE Tick
  BY <1>5 DEF Tick, LockVars, LockInv, Reasons, LockHeld, MutexHeld
<1> QED
  BY <1>1, <1>2, <1>3, <1>4, <1>5, StepLock DEF Next, Call, CallHex

-----------------------------------------------------------------------------
(* Files are kept through rotations. *)
ByDate == conf.rotate \in {"PER_DAY", "PER_HOUR"}
Clock ==
  \A p \in Procs :
    /\ g[p].rday <= now /\ g[p].cache1 <= now
    /\ g[p].cache1 # 0 => g[p].rday <= g[p].cache1
DaysPast == ~Forked /\ ByDate => \A n \in DOMAIN names : n < DayName(g[1].rday)

(* The second file is the log file of a handle that opens it at once; of another *)
(* handle it is none.                                                            *)
FirstSpared ==
  /\ Len(data) >= 2
  /\ conf.how # "first" => /\ data[2] = <<>> /\ \A n \in DOMAIN names : names[n] # 2
                           /\ \A p \in Procs : g[p].open => g[p].fd # 2

Named(i) == \E n \in DOMAIN names : names[n] = i
Kept ==
  \A i \in 1 .. Len(data) :
    \/ Named(i) \/ i \in dropped \/ i \in DOMAIN gone \/ leaked
    \/ Forked /\ ByDate
    \/ i = 2 /\ conf.how # "first"

RotationInv == LockInv /\ NumberChosen /\ Clock /\ DaysPast /\ FirstSpared /\ Kept

(* Once there was a second process, there was one. *)
LEMMA ForkedStays ==
  ASSUME \A q \in Procs : life[q] # "unborn" => life'[q] # "unborn"
  PROVE  Forked => Forked'
BY DEF Forked

(* The number that is chosen depends on the numbers that are taken. *)
LEMMA NumberSame ==
  ASSUME \A n \in 1 .. RotateCount : n \in DOMAIN names' <=> n \in DOMAIN names
  PROVE  Number' = Number /\ (FreeNumbers' = FreeNumbers)
<1>1. FreeNumbers' = FreeNumbers
  BY DEF FreeNumbers, Exists
<1> QED
  BY <1>1 DEF Number

(* A number that was chosen stays the one to choose. *)
LEMMA NumberKept ==
  ASSUME NumberChosen, leaked => leaked',
         \A n \in 1 .. RotateCount : n \in DOMAIN names' <=> n \in DOMAIN names,
         \A q \in Procs, u \in Threads : life'[q] = "runs" /\ th'[q][u].pc = "rename" =>
           \/ life[q] = "runs" /\ th[q][u].pc = "rename" /\ th'[q][u].new = th[q][u].new
           \/ th'[q][u].new = Number
  PROVE  NumberChosen'
<1>1. Number' = Number
  BY NumberSame
<1> QED
  BY <1>1 DEF NumberChosen

(* A step that leaves the files alone. *)
LEMMA QuietFiles ==
  ASSUME TypeInv, DaysPast, FirstSpared, Kept,
         UNCHANGED <<names, data, gone, dropped>>, conf' = conf, leaked => leaked', Forked => Forked',
         \A p \in Procs : g'[p].open => \E q \in Procs : g[q].open /\ g'[p].fd = g[q].fd,
         ~Forked' => g[1].rday <= g'[1].rday /\ g'[1].rday \in Nat
  PROVE  DaysPast' /\ FirstSpared' /\ Kept'
<1>1. DaysPast'
  <2>1. g[1].rday \in Nat /\ RotateCount \in Nat
    BY ProcsAreNats, LogAssumption DEF TypeInv, HandlesOK, HandleOK
  <2>2. \A n \in DOMAIN names : n \in Int
    BY DEF TypeInv, FilesOK
  <2> QED
    BY <2>1, <2>2 DEF DaysPast, ByDate, DayName
<1>2. FirstSpared'
  BY DEF FirstSpared
<1>3. Kept'
  BY DEF Kept, Named, ByDate
<1> QED
  BY <1>1, <1>2, <1>3

(* The time that a call took once is not before that of the last rotation. *)
LEMMA ClockStep ==
  ASSUME TypeInv, Clock, NEW p \in Procs, now' = now,
         \A q \in Procs \ {p} : g'[q] = g[q],
         \/ g'[p].rday = g[p].rday /\ g'[p].cache1 \in {0, g[p].cache1, Date(p)}
         \/ g'[p].rday = Date(p) /\ g'[p].cache1 = Date(p)
  PROVE  Clock' /\ g'[p].rday >= g[p].rday
<1>1. now \in Nat /\ g[p].rday \in Nat /\ g[p].cache1 \in Nat
  BY DEF TypeInv, TimesOK, HandlesOK, HandleOK
<1>2. /\ g[p].rday <= now /\ g[p].cache1 <= now
      /\ g[p].cache1 # 0 => g[p].rday <= g[p].cache1
  BY DEF Clock
<1>3. g[p].rday <= Date(p) /\ Date(p) <= now /\ Date(p) \in Nat
  BY <1>1, <1>2 DEF Date
<1>4. /\ g'[p].rday <= now /\ g'[p].cache1 <= now /\ g'[p].rday >= g[p].rday
      /\ g'[p].cache1 # 0 => g'[p].rday <= g'[p].cache1
  BY <1>1, <1>2, <1>3
<1> QED
  BY <1>4 DEF Clock

(* The invariant of the rotations holds at first. *)
LEMMA InitRotation ==
  ASSUME Init
  PROVE  NumberChosen /\ Clock /\ DaysPast /\ FirstSpared /\ Kept
<1>1. TypeInv
  BY InitType
<1>2. /\ g = [p \in Procs |-> NewHandle(conf)]
      /\ \A p \in Procs, t \in Threads : th[p][t] = IdleThread
      /\ now = 1 /\ gone = <<>> /\ dropped = {} /\ data = <<<<>>, <<>>>>
      /\ names = [f \in {Console} \cup {n \in {LogName} : conf.how = "first"} |-> IF f = Console THEN 1 ELSE 2]
  BY DEF Init
<1>3. \A p \in Procs : /\ g[p].rday = 0 /\ g[p].cache1 = 0 /\ (g[p].open => conf.how # "each")
                       /\ g[p].fd = (IF conf.how = "console" THEN 1 ELSE 2)
  BY <1>2 DEF NewHandle
<1>4. NumberChosen
  BY <1>2 DEF NumberChosen, IdleThread
<1>5. Clock
  BY <1>2, <1>3 DEF Clock
<1>6. DaysPast
  <2>1. g[1].rday = 0 /\ RotateCount \in Nat \ {0}
    BY <1>3, ProcsAreNats, LogAssumption
  <2>2. DOMAIN names \subseteq {-1, 0}
    BY <1>2 DEF Console, LogName
  <2> QED
    BY <2>1, <2>2 DEF DaysPast, DayName
<1>7. FirstSpared
  <2>1. conf.how \in {"first", "each", "console"}
    BY <1>1, ConfFacts DEF TypeInv
  <2>2. Len(data) = 2 /\ data[2] = <<>>
    BY <1>2
  <2>3. conf.how # "first" => \A n \in DOMAIN names : names[n] # 2
    BY <1>2 DEF Console, LogName
  <2>4. conf.how # "first" => \A p \in Procs : g[p].open => g[p].fd # 2
    BY <1>3, <2>1
  <2> QED
    BY <2>2, <2>3, <2>4 DEF FirstSpared
<1>8. Kept
  <2>1. Len(data) = 2
    BY <1>2
  <2>2. Console \in DOMAIN names /\ names[Console] = 1
    BY <1>2 DEF Console
  <2>3. conf.how = "first" => LogName \in DOMAIN names /\ names[LogName] = 2
    BY <1>2 DEF Console, LogName
  <2> QED
    BY <2>1, <2>2, <2>3 DEF Kept, Named
<1> QED
  BY <1>4, <1>5, <1>6, <1>7, <1>8

(* A step of a thread that leaves the files alone keeps the invariant. *)
LEMMA QuietStep ==
  ASSUME TypeInv, Alive, RotationInv, LockInv', NEW p \in Procs, NEW t \in Threads, Framed(p, t),
         UNCHANGED <<life, now>>, UNCHANGED FileVars, leaked => leaked',
         g'[p].open => g[p].open /\ g'[p].fd = g[p].fd,
         g'[p].rday = g[p].rday, g'[p].cache1 \in {0, g[p].cache1, Date(p)},
         th'[p][t].pc = "rename" => th'[p][t].new = Number
  PROVE  RotationInv'
<1>1. conf' = conf /\ UNCHANGED <<names, data, gone, dropped>>
      /\ NumberChosen /\ Clock /\ DaysPast /\ FirstSpared /\ Kept /\ \A q \in Procs \ {p} : g'[q] = g[q]
  BY DEF Framed, RotationInv, FileVars
<1>2. Forked' = Forked
  BY DEF Forked
<1>3. Clock' /\ g'[p].rday >= g[p].rday
  BY <1>1, ClockStep
<1>4. NumberChosen'
  <2>1. \A q \in Procs, u \in Threads : life'[q] = "runs" /\ th'[q][u].pc = "rename" =>
           \/ life[q] = "runs" /\ th[q][u].pc = "rename" /\ th'[q][u].new = th[q][u].new
           \/ th'[q][u].new = Number
    BY DEF Framed
  <2> QED
    BY <1>1, <2>1, NumberKept
<1>5. g'[1].rday = g[1].rday /\ g[1].rday \in Nat
  BY <1>1, ProcsAreNats DEF TypeInv, HandlesOK, HandleOK
<1>6. \A r \in Procs : g'[r].open => \E q \in Procs : g[q].open /\ g'[r].fd = g[q].fd
  BY <1>1
<1>7. DaysPast' /\ FirstSpared' /\ Kept'
  BY <1>1, <1>2, <1>5, <1>6, QuietFiles
<1> QED
  BY <1>3, <1>4, <1>7 DEF RotationInv

(* Open keeps it: a new file is the log file. *)
LEMMA OpenKeeps ==
  ASSUME TypeInv, Alive, RotationInv, NEW p \in Procs, NEW t \in Threads, Open(p, t)
  PROVE  RotationInv'
<1>1. LockInv'
  BY StepLock DEF Step, RotationInv
<1>2. /\ Framed(p, t) /\ Goto(p, t, "write") /\ SameTime(p) /\ g'[p].fd = names'[LogName]
      /\ UNCHANGED <<now, life, gone, dropped, leaked>>
  BY OpenDoes DEF LockVars
<1>3. conf' = conf /\ th'[p][t].pc = "write" /\ g'[p].rday = g[p].rday /\ g'[p].cache1 = g[p].cache1
      /\ (\A q \in Procs \ {p} : g'[q] = g[q]) /\ Forked' = Forked
  BY <1>2 DEF Framed, Goto, SameTime, Forked
<1>4. NumberChosen /\ Clock /\ DaysPast /\ FirstSpared /\ Kept
  BY DEF RotationInv
<1>5. data \in Seq(Seq(Entry)) /\ Len(data) \in Nat
  BY LenProperties DEF TypeInv, FilesOK
<1>6. \/ Exists(LogName) /\ names' = names /\ data' = data
      \/ /\ ~Exists(LogName) /\ data' = Append(data, <<>>)
         /\ names' = [f \in {LogName} \cup DOMAIN names |-> IF f = LogName THEN Len(data) + 1 ELSE names[f]]
  BY DEF Open
<1>7. /\ DOMAIN names' = DOMAIN names \cup {LogName}
      /\ \A n \in DOMAIN names : names'[n] = names[n]
      /\ names'[LogName] = Len(data) + 1 \/ (LogName \in DOMAIN names /\ names'[LogName] = names[LogName])
  BY <1>6 DEF Exists
<1>8. /\ \A i \in 1 .. Len(data) : data'[i] = data[i]
      /\ Len(data') = Len(data) \/ (Len(data') = Len(data) + 1 /\ names'[LogName] = Len(data) + 1)
  <2>1. CASE Exists(LogName) /\ data' = data
    BY <2>1
  <2>2. CASE data' = Append(data, <<>>) /\ names'[LogName] = Len(data) + 1
    <3>1. << >> \in Seq(Entry)
      BY EmptySeq
    <3> QED
      BY <1>5, <2>2, <3>1, AppendProperties
  <2> QED
    BY <1>6, <2>1, <2>2
<1>9. Clock'
  BY <1>2, <1>3, <1>4, ClockStep
<1>10. NumberChosen'
  <2>1. \A q \in Procs, u \in Threads : life'[q] = "runs" /\ th'[q][u].pc = "rename" =>
           \/ life[q] = "runs" /\ th[q][u].pc = "rename" /\ th'[q][u].new = th[q][u].new
           \/ th'[q][u].new = Number
    BY <1>2, <1>3 DEF Framed
  <2>2. \A n \in 1 .. RotateCount : n \in DOMAIN names' <=> n \in DOMAIN names
    BY <1>7, LogAssumption DEF LogName
  <2> QED
    BY <1>2, <1>4, <2>1, <2>2, NumberKept
<1>11. DaysPast'
  <2>1. g'[1].rday = g[1].rday /\ g[1].rday \in Nat /\ RotateCount \in Nat \ {0}
    BY <1>3, ProcsAreNats, LogAssumption DEF TypeInv, HandlesOK, HandleOK
  <2>2. LogName < DayName(g[1].rday)
    BY <2>1 DEF LogName, DayName
  <2> QED
    BY <1>3, <1>4, <1>7, <2>1, <2>2 DEF DaysPast, ByDate, DayName
<1>12. FirstSpared'
  <2>1. Len(data) >= 2 /\ Len(data') >= 2
    BY <1>4, <1>5, <1>8 DEF FirstSpared
  <2>2. ASSUME conf.how # "first"
        PROVE  /\ data'[2] = <<>> /\ \A n \in DOMAIN names' : names'[n] # 2
               /\ \A q \in Procs : g'[q].open => g'[q].fd # 2
    <3>1. /\ data[2] = <<>> /\ \A n \in DOMAIN names : names[n] # 2
          /\ \A q \in Procs : g[q].open => g[q].fd # 2
      BY <1>4, <2>2 DEF FirstSpared
    <3>2. data'[2] = <<>>
      BY <1>5, <1>8, <2>1, <3>1
    <3>3. \A n \in DOMAIN names' : names'[n] # 2
      BY <1>5, <1>7, <2>1, <3>1
    <3>4. LogName \in DOMAIN names'
      BY <1>7
    <3> QED
      BY <1>2, <1>3, <3>1, <3>2, <3>3, <3>4
  <2> QED
    BY <1>3, <2>1, <2>2 DEF FirstSpared
<1>13. Kept'
  <2> SUFFICES ASSUME NEW i \in 1 .. Len(data')
               PROVE  \/ Named(i)' \/ i \in dropped \/ i \in DOMAIN gone \/ leaked
                      \/ (Forked /\ ByDate) \/ (i = 2 /\ conf.how # "first")
    BY <1>2, <1>3 DEF Kept, ByDate
  <2>1. CASE i \in 1 .. Len(data)
    <3>1. Named(i) => Named(i)'
      BY <1>7 DEF Named
    <3>2. \/ Named(i) \/ i \in dropped \/ i \in DOMAIN gone \/ leaked
          \/ (Forked /\ ByDate) \/ (i = 2 /\ conf.how # "first")
      BY <1>4, <2>1 DEF Kept
    <3> QED
      BY <3>1, <3>2
  <2>2. CASE i \notin 1 .. Len(data)
    <3>1. i = Len(data) + 1 /\ names'[LogName] = i
      BY <1>5, <1>8, <2>2
    <3>2. Named(i)'
      BY <1>7, <3>1 DEF Named
    <3> QED
      BY <3>2
  <2> QED
    BY <2>1, <2>2
<1> QED
  BY <1>1, <1>9, <1>10, <1>11, <1>12, <1>13 DEF RotationInv

(* Write keeps it: it writes to no file that is none. *)
LEMMA WriteKeeps ==
  ASSUME TypeInv, Alive, RotationInv, NEW p \in Procs, NEW t \in Threads, Write(p, t)
  PROVE  RotationInv'
<1>1. LockInv'
  BY StepLock DEF Step, RotationInv
<1>2. /\ Framed(p, t) /\ Goto(p, t, "test") /\ g' = g /\ g[p].open
      /\ UNCHANGED <<now, life, names, gone, dropped, leaked>>
  BY WriteDoes DEF LockVars
<1>3. conf' = conf /\ th'[p][t].pc = "test" /\ Forked' = Forked
  BY <1>2 DEF Framed, Goto, Forked
<1>4. NumberChosen /\ Clock /\ DaysPast /\ FirstSpared /\ Kept
  BY DEF RotationInv
<1>5. Clock'
  BY <1>2, <1>4 DEF Clock
<1>6. NumberChosen'
  <2>1. \A q \in Procs, u \in Threads : life'[q] = "runs" /\ th'[q][u].pc = "rename" =>
           \/ life[q] = "runs" /\ th[q][u].pc = "rename" /\ th'[q][u].new = th[q][u].new
           \/ th'[q][u].new = Number
    BY <1>2, <1>3 DEF Framed
  <2> QED
    BY <1>2, <1>4, <2>1, NumberKept
<1>7. DaysPast'
  BY <1>2, <1>3, <1>4 DEF DaysPast, ByDate, DayName
<1>8. Len(data') = Len(data)
  BY WriteType
<1>9. \A i \in 1 .. Len(data) : i # g[p].fd => data'[i] = data[i]
  <2>1. data \in Seq(Seq(Entry))
    BY DEF TypeInv, FilesOK
  <2>2. PICK f : data' = [data EXCEPT ![g[p].fd] = f]
    BY DEF Write
  <2> QED
    BY <2>1, <2>2
<1>10. FirstSpared'
  <2>1. ASSUME conf.how # "first" PROVE data'[2] = <<>>
    <3>1. data[2] = <<>> /\ g[p].fd # 2 /\ Len(data) >= 2 /\ Len(data) \in Nat
      BY <1>2, <1>4, <2>1, LenProperties DEF FirstSpared, TypeInv, FilesOK
    <3> QED
      BY <1>9, <3>1
  <2> QED
    BY <1>2, <1>3, <1>4, <1>8, <2>1 DEF FirstSpared
<1>11. Kept'
  BY <1>2, <1>3, <1>4, <1>8 DEF Kept, Named, ByDate
<1> QED
  BY <1>1, <1>5, <1>6, <1>7, <1>10, <1>11 DEF RotationInv

(* What a rename leaves: the file of the old name has the new one, all others theirs. *)
LEMMA MovedNames ==
  ASSUME NEW m, Exists(LogName)
  PROVE  /\ DOMAIN Moved(m) = {m} \cup (DOMAIN names \ {LogName})
         /\ Moved(m)[m] = names[LogName]
         /\ \A n \in DOMAIN names \ {LogName, m} : Moved(m)[n] = names[n]
         /\ \A n \in DOMAIN Moved(m) : \E k \in DOMAIN names : Moved(m)[n] = names[k]
         /\ \A i : Named(i) => (\E n \in DOMAIN Moved(m) : Moved(m)[n] = i)
                               \/ (m \in DOMAIN names /\ i = names[m])
<1>1. /\ DOMAIN Moved(m) = {m} \cup (DOMAIN names \ {LogName})
      /\ Moved(m)[m] = names[LogName]
      /\ \A n \in DOMAIN names \ {LogName, m} : Moved(m)[n] = names[n]
  BY DEF Moved
<1>2. \A n \in DOMAIN Moved(m) : \E k \in DOMAIN names : Moved(m)[n] = names[k]
  BY <1>1 DEF Exists
<1>3. ASSUME NEW i, Named(i)
      PROVE  (\E n \in DOMAIN Moved(m) : Moved(m)[n] = i) \/ (m \in DOMAIN names /\ i = names[m])
  <2>1. PICK n \in DOMAIN names : names[n] = i
    BY <1>3 DEF Named
  <2>2. CASE n = m
    BY <2>1, <2>2
  <2>3. CASE n = LogName
    BY <1>1, <2>1, <2>3
  <2>4. CASE n # m /\ n # LogName
    BY <1>1, <2>1, <2>4
  <2> QED
    BY <2>2, <2>3, <2>4
<1> QED
  BY <1>1, <1>2, <1>3

(* Rename keeps it: the number is free or the last one is given away. *)
LEMMA RenameKeeps ==
  ASSUME TypeInv, Alive, RotationInv, NEW p \in Procs, NEW t \in Threads, Rename(p, t)
  PROVE  RotationInv'
<1>1. LockInv'
  BY StepLock DEF Step, RotationInv
<1>2. /\ Framed(p, t) /\ Stands(p, t, "rename") /\ Goto(p, t, "release") /\ SameFile(p) /\ SameTime(p)
      /\ UNCHANGED <<now, life, data, gone, owner, leaked>>
  BY RenameDoes
<1>3. /\ conf' = conf /\ th'[p][t].pc = "release" /\ Forked' = Forked
      /\ g'[p].rday = g[p].rday /\ g'[p].cache1 = g[p].cache1 /\ g'[p].open = g[p].open /\ g'[p].fd = g[p].fd
      /\ th[p][t].pc = "rename" /\ life[p] = "runs"
      /\ \A q \in Procs \ {p} : g'[q] = g[q]
  BY <1>2 DEF Framed, Goto, Forked, SameFile, SameTime, Stands
<1>4. LockInv /\ NumberChosen /\ Clock /\ DaysPast /\ FirstSpared /\ Kept
  BY DEF RotationInv
<1>5. PICK m : m = th[p][t].new
  OBVIOUS
<1>6. /\ names' = (IF Exists(LogName) THEN Moved(m) ELSE Without(names, m))
      /\ dropped' = (IF FreeNumbers = {} THEN dropped \cup {names[RotateCount]} ELSE dropped)
  BY <1>5 DEF Rename
<1>7. ~leaked => m = Number
  BY <1>3, <1>4, <1>5 DEF NumberChosen
<1>8. conf.rotate = "SIZE"
  BY <1>3, <1>4 DEF LockInv, Reasons
<1>9. Clock'
  BY <1>2, <1>3, <1>4, ClockStep
<1>10. NumberChosen'
  <2>1. ASSUME ~leaked, NEW q \in Procs, NEW u \in Threads, life'[q] = "runs", th'[q][u].pc = "rename"
        PROVE  FALSE
    <3>1. q # p \/ u # t
      BY <1>3, <2>1
    <3>2. life[q] = "runs" /\ th[q][u].pc = "rename"
      BY <1>2, <2>1, <3>1 DEF Framed
    <3>3. owner = q /\ owner = p
      BY <1>3, <1>4, <2>1, <3>2 DEF LockInv, LockHeld, Inside
    <3>4. mutex[p] = t /\ mutex[q] = u
      BY <1>3, <1>4, <3>2 DEF LockInv, MutexHeld
    <3> QED
      BY <3>1, <3>3, <3>4
  <2> QED
    BY <1>2, <2>1 DEF NumberChosen
<1>11. DaysPast'
  BY <1>3, <1>8 DEF DaysPast, ByDate
<1>12. \A n \in DOMAIN names' : \E k \in DOMAIN names : names'[n] = names[k]
  <2>1. CASE Exists(LogName)
    <3>1. names' = Moved(m)
      BY <1>6, <2>1
    <3>2. \A n \in DOMAIN Moved(m) : \E k \in DOMAIN names : Moved(m)[n] = names[k]
      BY <2>1, MovedNames
    <3> QED
      BY <3>1, <3>2
  <2>2. CASE ~Exists(LogName)
    BY <1>6, <2>2 DEF Without
  <2> QED
    BY <2>1, <2>2
<1>13. FirstSpared'
  BY <1>2, <1>3, <1>4, <1>12 DEF FirstSpared
<1>14. Kept'
  <2> SUFFICES ASSUME NEW i \in 1 .. Len(data), ~leaked, Named(i), ~(Named(i)') PROVE i \in dropped'
    BY <1>2, <1>3, <1>4, <1>6 DEF Kept, ByDate
  <2>1. m \in DOMAIN names /\ i = names[m]
    <3>1. CASE Exists(LogName)
      <4>1. \A n \in DOMAIN Moved(m) : Moved(m)[n] # i
        BY <1>6, <3>1 DEF Named
      <4> QED
        BY <3>1, <4>1, MovedNames, ZenonT(30)
    <3>2. CASE ~Exists(LogName)
      <4>1. names' = [n \in DOMAIN names \ {m} |-> names[n]]
        BY <1>6, <3>2 DEF Without
      <4>2. PICK n \in DOMAIN names : names[n] = i
        BY DEF Named
      <4>3. n \notin DOMAIN names'
        BY <4>1, <4>2 DEF Named
      <4> QED
        BY <4>1, <4>2, <4>3
    <3> QED
      BY <3>1, <3>2
  <2>2. m = Number
    BY <1>7
  <2>3. FreeNumbers = {} /\ m = RotateCount
    <3>1. FreeNumbers # {} => Number \in FreeNumbers
      BY NumberFirst
    <3>2. FreeNumbers = {} => Number = RotateCount
      BY NumberFirst
    <3>3. Number \notin FreeNumbers
      BY <2>1, <2>2 DEF FreeNumbers, Exists
    <3> QED
      BY <2>2, <3>1, <3>2, <3>3
  <2> QED
    BY <1>6, <2>1, <2>3
<1> QED
  BY <1>1, <1>9, <1>10, <1>11, <1>13, <1>14 DEF RotationInv

(* The rotation by date keeps it: the day that is past has no file yet. *)
LEMMA RotateByDateKeeps ==
  ASSUME TypeInv, Alive, RotationInv, NEW p \in Procs, NEW t \in Threads, NEW mode \in {"PER_DAY", "PER_HOUR"},
         RotateByDate(p, t, mode), LockInv'
  PROVE  RotationInv'
<1>1. /\ Framed(p, t) /\ Stands(p, t, "section") /\ Goto(p, t, "release") /\ th[p][t].why = mode
      /\ SameFile(p) /\ g'[p].cache1 = Date(p) /\ g'[p].rday = Date(p)
      /\ UNCHANGED <<now, life, data, gone, dropped, owner, leaked>>
  BY RotateByDateDoes
<1>2. /\ conf' = conf /\ th'[p][t].pc = "release" /\ Forked' = Forked
      /\ g'[p].open = g[p].open /\ g'[p].fd = g[p].fd
      /\ th[p][t].pc = "section" /\ life[p] = "runs"
      /\ \A q \in Procs \ {p} : g'[q] = g[q]
  BY <1>1 DEF Framed, Goto, Forked, SameFile, Stands
<1>3. LockInv /\ NumberChosen /\ Clock /\ DaysPast /\ FirstSpared /\ Kept
  BY DEF RotationInv
<1>4. conf.rotate = mode /\ ByDate
  BY <1>1, <1>2, <1>3 DEF LockInv, Reasons, ByDate
<1>5. PICK m : m = DayName(g[p].rday)
  OBVIOUS
<1>6. names' = (IF g[p].rday \notin {0, Date(p)} /\ Exists(LogName) THEN Moved(m) ELSE names)
  BY <1>5, RotateByDateDoes
<1>7. Clock' /\ g'[p].rday >= g[p].rday
  BY <1>1, <1>2, <1>3, ClockStep
<1>8. NumberChosen'
  <2>1. ASSUME NEW q \in Procs, NEW u \in Threads, th'[q][u].pc = "rename" PROVE FALSE
    <3>1. th[q][u].pc = "rename"
      BY <1>1, <1>2, <2>1 DEF Framed
    <3> QED
      BY <1>3, <1>4, <3>1 DEF LockInv, Reasons
  <2> QED
    BY <2>1 DEF NumberChosen
<1>9. g[p].rday \in Nat /\ Date(p) \in Nat /\ RotateCount \in Nat \ {0}
  BY ThreadFacts, LogAssumption DEF HandleOK
<1>10. ASSUME ~Forked PROVE p = 1
  BY <1>2, <1>10 DEF Forked
<1>11. DaysPast'
  <2> SUFFICES ASSUME ~Forked, NEW n \in DOMAIN names' PROVE n < DayName(g'[p].rday)
    BY <1>2, <1>10 DEF DaysPast
  <2>1. \A k \in DOMAIN names : k < DayName(g[p].rday) /\ k \in Int
    BY <1>3, <1>4, <1>10 DEF DaysPast, TypeInv, FilesOK
  <2>2. DayName(g[p].rday) <= DayName(g'[p].rday) /\ DayName(g[p].rday) \in Int /\ DayName(g'[p].rday) \in Int
    BY <1>1, <1>7, <1>9 DEF DayName
  <2>3. CASE n \in DOMAIN names
    BY <2>1, <2>2, <2>3
  <2>4. CASE n \notin DOMAIN names
    <3>1. n = m /\ g[p].rday # Date(p)
      <4>1. g[p].rday # Date(p) /\ Exists(LogName) /\ names' = Moved(m)
        BY <1>6, <2>4
      <4>2. DOMAIN Moved(m) = {m} \cup (DOMAIN names \ {LogName})
        BY <4>1, MovedNames
      <4> QED
        BY <2>4, <4>1, <4>2
    <3> QED
      BY <1>1, <1>5, <1>7, <1>9, <3>1 DEF DayName
  <2> QED
    BY <2>3, <2>4
<1>12. \A n \in DOMAIN names' : \E k \in DOMAIN names : names'[n] = names[k]
  <2>1. CASE Exists(LogName) /\ names' = Moved(m)
    <3>1. \A n \in DOMAIN Moved(m) : \E k \in DOMAIN names : Moved(m)[n] = names[k]
      BY <2>1, MovedNames
    <3> QED
      BY <2>1, <3>1
  <2>2. CASE names' = names
    BY <2>2
  <2> QED
    BY <1>6, <2>1, <2>2
<1>13. FirstSpared'
  BY <1>1, <1>2, <1>3, <1>12 DEF FirstSpared
<1>14. Kept'
  <2> SUFFICES ASSUME NEW i \in 1 .. Len(data), ~Forked, Named(i), ~(Named(i)') PROVE FALSE
    BY <1>1, <1>2, <1>3, <1>4 DEF Kept, ByDate
  <2>1. Exists(LogName) /\ names' = Moved(m)
    BY <1>6 DEF Named
  <2>2. \A n \in DOMAIN Moved(m) : Moved(m)[n] # i
    BY <2>1 DEF Named
  <2>3. m \in DOMAIN names
    BY <2>1, <2>2, MovedNames
  <2>4. m < DayName(g[p].rday) /\ m \in Int
    BY <1>3, <1>4, <1>10, <2>3 DEF DaysPast, TypeInv, FilesOK
  <2> QED
    BY <1>5, <2>4
<1> QED
  BY <1>7, <1>8, <1>11, <1>13, <1>14 DEF RotationInv

(* RemoveLog keeps it: only the log file goes. *)
LEMMA RemoveKeeps ==
  ASSUME TypeInv, Alive, RotationInv, RemoveLog, LockInv'
  PROVE  RotationInv'
<1>1. /\ Exists(LogName) /\ names' = [n \in DOMAIN names \ {LogName} |-> names[n]]
      /\ gone' = [i \in {names[LogName]} \cup DOMAIN gone |-> IF i = names[LogName] THEN Len(data[i]) ELSE gone[i]]
      /\ UNCHANGED <<conf, life, now, g, th, data, dropped, mutex, owner, leaked>>
  BY DEF RemoveLog, World, LockVars, Without
<1>2. NumberChosen /\ Clock /\ DaysPast /\ FirstSpared /\ Kept /\ Forked' = Forked
  BY <1>1 DEF RotationInv, Forked
<1>3. DOMAIN names' = DOMAIN names \ {LogName} /\ (\A n \in DOMAIN names' : names'[n] = names[n])
      /\ DOMAIN gone' = DOMAIN gone \cup {names[LogName]}
  BY <1>1
<1>4. UNCHANGED <<conf, life, now, g, th, data, dropped, mutex, owner, leaked>>
  BY <1>1
<1>5. NumberChosen'
  <2>1. \A n \in 1 .. RotateCount : n \in DOMAIN names' <=> n \in DOMAIN names
    BY <1>3, LogAssumption DEF LogName
  <2> QED
    BY <1>2, <1>4, <2>1, NumberKept
<1>6. Clock' /\ DaysPast' /\ FirstSpared'
  BY <1>2, <1>3, <1>4 DEF Clock, DaysPast, ByDate, DayName, FirstSpared
<1>7. Kept'
  <2> SUFFICES ASSUME NEW i \in 1 .. Len(data), Named(i), ~(Named(i)') PROVE i \in DOMAIN gone'
    BY <1>2, <1>3, <1>4 DEF Kept, ByDate
  <2>1. PICK n \in DOMAIN names : names[n] = i
    BY DEF Named
  <2>2. n = LogName
    BY <1>3, <2>1 DEF Named
  <2> QED
    BY <1>3, <2>1, <2>2
<1> QED
  BY <1>5, <1>6, <1>7 DEF RotationInv

(* Fork keeps it: by date, nothing is said of several processes. *)
LEMMA ForkKeeps ==
  ASSUME TypeInv, Alive, RotationInv, NEW p \in Procs, NEW q \in Procs, Fork(p, q), LockInv'
  PROVE  RotationInv'
<1>1. /\ q # 1 /\ q # p /\ life[q] = "unborn" /\ life'[q] = "runs" /\ g'[q] = g[p]
      /\ \A r \in Procs \ {q} : g'[r] = g[r] /\ life'[r] = life[r]
  BY ForkType
<1>2. UNCHANGED <<conf, now, th, owner, leaked>> /\ UNCHANGED <<names, data, gone, dropped>>
  BY DEF Fork, FileVars
<1>3. NumberChosen /\ Clock /\ DaysPast /\ FirstSpared /\ Kept
  BY DEF RotationInv
<1>4. Forked'
  BY <1>1 DEF Forked
<1>5. NumberChosen'
  <2>1. \A u \in Threads : th[q][u].pc = "idle"
    BY <1>1 DEF Alive
  <2> QED
    BY <1>1, <1>2, <1>3, <2>1, NumberKept
<1>6. Clock'
  BY <1>1, <1>2, <1>3 DEF Clock
<1>7. \A r \in Procs : g'[r].open => \E o \in Procs : g[o].open /\ g'[r].fd = g[o].fd
  BY <1>1
<1>8. DaysPast' /\ FirstSpared' /\ Kept'
  BY <1>2, <1>3, <1>4, <1>7, QuietFiles
<1> QED
  BY <1>5, <1>6, <1>8 DEF RotationInv

(* The end of a process, a new day and a step that changes nothing. *)
LEMMA AroundKeeps ==
  ASSUME TypeInv, Alive, RotationInv, LockInv', UNCHANGED <<conf, g, th, leaked>>,
         UNCHANGED <<names, data, gone, dropped>>, now' \in {now, now + 1},
         \A q \in Procs : life'[q] = life[q] \/ (life'[q] = "ended" /\ life[q] # "unborn")
  PROVE  RotationInv'
<1>1. NumberChosen /\ Clock /\ DaysPast /\ FirstSpared /\ Kept
  BY DEF RotationInv
<1>2. Forked => Forked'
  BY DEF Forked
<1>3. NumberChosen'
  BY <1>1, NumberKept
<1>4. Clock'
  <2>1. now \in Nat /\ \A q \in Procs : g[q].rday \in Nat /\ g[q].cache1 \in Nat
    BY DEF TypeInv, TimesOK, HandlesOK, HandleOK
  <2>2. now' >= now /\ now' \in Nat
    BY <2>1
  <2> QED
    BY <1>1, <2>1, <2>2 DEF Clock
<1>5. g[1].rday \in Nat
  BY ProcsAreNats DEF TypeInv, HandlesOK, HandleOK
<1>6. DaysPast' /\ FirstSpared' /\ Kept'
  BY <1>1, <1>2, <1>5, QuietFiles
<1> QED
  BY <1>3, <1>4, <1>6 DEF RotationInv

(* Every step keeps the invariant of the rotations. *)
LEMMA NextRotation ==
  ASSUME TypeInv, Alive, RotationInv, Next
  PROVE  RotationInv'
<1>0. LockInv'
  BY NextLock DEF RotationInv
<1>1. ASSUME NEW p \in Procs, NEW t \in Threads, NEW buffer \in {"hex", "line"}, Begin(p, t, buffer)
      PROVE  RotationInv'
  <2>1. /\ Framed(p, t) /\ th'[p][t].pc = "fill" /\ SameFile(p) /\ SameTime(p)
        /\ UNCHANGED <<now, life>> /\ UNCHANGED FileVars /\ UNCHANGED leaked
    BY <1>1, BeginDoes DEF LockVars
  <2> QED
    BY <1>0, <2>1, QuietStep DEF SameFile, SameTime
<1>2. ASSUME NEW p \in Procs, NEW t \in Threads, Step(p, t) PROVE RotationInv'
  <2>1. CASE Fill(p, t)
    <3>1. /\ Framed(p, t) /\ th'[p][t].pc # "rename" /\ SameFile(p)
          /\ g'[p].rday = g[p].rday /\ g'[p].cache1 \in {Date(p), g[p].cache1}
          /\ UNCHANGED <<now, life>> /\ UNCHANGED FileVars /\ UNCHANGED leaked
      BY <2>1, FillDoes DEF LockVars
    <3> QED
      BY <1>0, <3>1, QuietStep DEF SameFile
  <2>2. CASE Fail(p, t)
    <3>1. life' = [life EXCEPT ![p] = "ended"] /\ life[p] = "runs" /\ life \in [Procs -> {"unborn", "runs", "ended"}]
          /\ UNCHANGED <<conf, g, th, leaked>> /\ UNCHANGED <<names, data, gone, dropped>> /\ now' = now
      BY <2>2 DEF Fail, At, FileVars, TypeInv, LocksOK
    <3> QED
      BY <1>0, <3>1, AroundKeeps
  <2>3. CASE Open(p, t)
    BY <2>3, OpenKeeps
  <2>4. CASE Write(p, t)
    BY <2>4, WriteKeeps
  <2>5. CASE ReturnEarly(p, t)
    <3>1. /\ Framed(p, t) /\ th'[p][t].pc = "idle" /\ SameFile(p) /\ SameTime(p)
          /\ UNCHANGED <<now, life>> /\ UNCHANGED FileVars /\ UNCHANGED leaked
      BY <2>5, ReturnEarlyDoes DEF LockVars
    <3> QED
      BY <1>0, <3>1, QuietStep DEF SameFile, SameTime
  <2>6. CASE Test(p, t)
    <3>1. /\ Framed(p, t) /\ th'[p][t].pc # "rename" /\ TestedFile(p, g'[p])
          /\ g'[p].rday = g[p].rday /\ g'[p].cache1 \in {0, g[p].cache1}
          /\ UNCHANGED <<now, life>> /\ UNCHANGED FileVars /\ UNCHANGED leaked
      BY <2>6, TestDoes DEF LockVars
    <3> QED
      BY <1>0, <3>1, QuietStep DEF TestedFile
  <2>7. CASE LockFile(p, t)
    <3>1. /\ Framed(p, t) /\ Goto(p, t, "mutex") /\ SameFile(p) /\ SameTime(p)
          /\ UNCHANGED <<now, life>> /\ UNCHANGED FileVars /\ UNCHANGED leaked
      BY <2>7, LockFileDoes
    <3> QED
      BY <1>0, <3>1, QuietStep DEF SameFile, SameTime, Goto
  <2>8. CASE LockMutex(p, t)
    <3>1. /\ Framed(p, t) /\ Goto(p, t, "section") /\ SameFile(p) /\ SameTime(p)
          /\ UNCHANGED <<now, life>> /\ UNCHANGED FileVars /\ UNCHANGED leaked
      BY <2>8, LockMutexDoes
    <3> QED
      BY <1>0, <3>1, QuietStep DEF SameFile, SameTime, Goto
  <2>9. CASE Release(p, t)
    <3>1. /\ Framed(p, t) /\ th'[p][t].pc # "rename" /\ SameFile(p)
          /\ g'[p].rday = g[p].rday /\ g'[p].cache1 \in {0, g[p].cache1}
          /\ UNCHANGED <<now, life>> /\ UNCHANGED FileVars /\ (leaked => leaked')
      BY <2>9, ReleaseDoes
    <3> QED
      BY <1>0, <3>1, QuietStep DEF SameFile
  <2>10. CASE Realloc(p, t)
    <3>1. /\ Framed(p, t) /\ th'[p][t].pc = "release" /\ SameFile(p) /\ SameTime(p)
          /\ UNCHANGED <<now, life>> /\ UNCHANGED FileVars /\ UNCHANGED leaked
      BY <2>10, ReallocDoes
    <3> QED
      BY <1>0, <3>1, QuietStep DEF SameFile, SameTime
  <2>11. CASE StatLog(p, t)
    <3>1. /\ Framed(p, t) /\ SameFile(p) /\ SameTime(p) /\ (th'[p][t].pc = "rename" => th'[p][t].new = Number)
          /\ UNCHANGED <<now, life>> /\ UNCHANGED FileVars /\ UNCHANGED leaked
      BY <2>11, StatLogDoes
    <3> QED
      BY <1>0, <3>1, QuietStep DEF SameFile, SameTime
  <2>12. CASE Rename(p, t)
    BY <2>12, RenameKeeps
  <2>13. CASE RotateLogFilePerDate(p, t) \/ RotateLogFilePerHour(p, t)
    BY <1>0, <2>13, RotateByDateKeeps DEF RotateLogFilePerDate, RotateLogFilePerHour
  <2> QED
    BY <1>2, <2>1, <2>2, <2>3, <2>4, <2>5, <2>6, <2>7, <2>8, <2>9, <2>10, <2>11, <2>12, <2>13 DEF Step
<1>3. ASSUME NEW p \in Procs, NEW q \in Procs, Fork(p, q) PROVE RotationInv'
  BY <1>0, <1>3, ForkKeeps
<1>4. ASSUME NEW p \in Procs, Exit(p) PROVE RotationInv'
  <2>1. life' = [life EXCEPT ![p] = "ended"] /\ life[p] = "runs" /\ life \in [Procs -> {"unborn", "runs", "ended"}]
        /\ UNCHANGED <<conf, g, th, leaked>> /\ UNCHANGED <<names, data, gone, dropped>> /\ now' = now
    BY <1>4 DEF Exit, At, FileVars, TypeInv, LocksOK
  <2> QED
    BY <1>0, <2>1, AroundKeeps
<1>5. CASE RemoveLog
  BY <1>0, <1>5, RemoveKeeps
<1>6. CASE Tick
  <2>1. UNCHANGED <<conf, g, th, leaked>> /\ UNCHANGED <<names, data, gone, dropped>> /\ life' = life /\ now' = now + 1
    BY <1>6 DEF Tick, FileVars, LockVars
  <2> QED
    BY <1>0, <2>1, AroundKeeps
<1> QED
  BY <1>1, <1>2, <1>3, <1>4, <1>5, <1>6 DEF Next, Call, CallHex

(* Every step keeps the invariant of the rotations. *)
LEMMA RotationKept ==
  ASSUME TypeInv, Alive, RotationInv, [Next]_vars
  PROVE  RotationInv'
<1>1. ASSUME UNCHANGED vars PROVE RotationInv'
  <2>1. UNCHANGED <<conf, g, th, leaked>> /\ UNCHANGED <<names, data, gone, dropped>> /\ life' = life /\ now' = now
        /\ UNCHANGED <<mutex, owner>>
    BY <1>1 DEF vars
  <2>2. LockInv'
    BY <1>1, <2>1 DEF RotationInv, LockInv, Reasons, LockHeld, MutexHeld
  <2> QED
    BY <2>1, <2>2, AroundKeeps
<1> QED
  BY <1>1, NextRotation

(* A file keeps a name through all rotations: by size unless a thread lost the lock to its sibling, by date as long as there is one process (log.c:845-917, :919-980). *)
THEOREM RotationCorrect == Spec => []RotationKeepsFiles
<1>1. Init => TypeInv /\ Alive /\ RotationInv
  BY InitType, InitLock, InitRotation DEF RotationInv
<1>2. TypeInv /\ Alive /\ RotationInv /\ [Next]_vars => RotationInv'
  BY RotationKept
<1>3. TypeInv /\ RotationInv => RotationKeepsFiles
  <2> SUFFICES ASSUME TypeInv, Kept, FirstSpared, NEW i \in DOMAIN data
               PROVE  \/ \E name \in DOMAIN names : names[name] = i
                      \/ i \in dropped \/ i \in DOMAIN gone
                      \/ leaked
                      \/ (Forked /\ conf.rotate \in {"PER_DAY", "PER_HOUR"})
                      \/ data[i] = <<>>
    BY DEF RotationKeepsFiles, RotationInv
  <2>1. DOMAIN data = 1 .. Len(data)
    <3>1. data \in Seq(Seq(Entry))
      BY DEF TypeInv, FilesOK
    <3> QED
      BY <3>1, LenProperties
  <2>2. i = 2 /\ conf.how # "first" => data[i] = <<>>
    BY DEF FirstSpared
  <2>3. \/ Named(i) \/ i \in dropped \/ i \in DOMAIN gone \/ leaked
        \/ (Forked /\ ByDate) \/ (i = 2 /\ conf.how # "first")
    BY <2>1 DEF Kept
  <2> QED
    BY <2>2, <2>3 DEF Named, ByDate
<1> QED
  BY <1>1, <1>2, <1>3, TypeCorrect, PTL DEF Spec

-----------------------------------------------------------------------------
(* Files that were removed get few lines. *)
(* The log file is the youngest one, and nobody removed it. *)
LogIsLast == Exists(LogName) => names[LogName] = Len(data) /\ Len(data) \notin DOMAIN gone

(* As long as there is one process it has the youngest file open. *)
OwnFile == Detects /\ ~Forked /\ g[1].open => g[1].fd = Len(data)

(* A call that met no other one is alone. *)
Alone ==
  \A p \in Procs, t \in Threads :
    th[p][t].pc # "idle" /\ ~th[p][t].msg.mixed => th[p][Sibling(t)].pc = "idle"

(* Only processes that were begun have written. *)
Writers == \A i \in 1 .. Len(data) : \A k \in 1 .. Len(data[i]) : life[data[i][k].proc] # "unborn"

(* The calls until the next test and the lines that were written late are no more *)
(* than the interval; a line that was written is counted down by the test behind. *)
Pending(p) == IF \E t \in Threads : th[p][t].pc = "test" THEN 1 ELSE 0
Budget(p, i) ==
  IF g[p].open /\ g[p].fd = i
  THEN Cardinality(Late(p, i)) + g[p].test - Pending(p) <= TestInterval
  ELSE Cardinality(Late(p, i)) <= TestInterval
WithinInterval ==
  Detects => \A i \in DOMAIN gone, p \in Procs : Budget(p, i) \/ (Forked /\ i < Len(data))

RemovalInv == LogIsLast /\ OwnFile /\ Alone /\ Writers /\ WithinInterval

(* The numbers in a budget; lines that are late are those of one file. *)
LEMMA BudgetFacts ==
  ASSUME TypeInv, NEW p \in Procs, NEW i \in DOMAIN gone
  PROVE  /\ IsFiniteSet(Late(p, i)) /\ Cardinality(Late(p, i)) \in Nat
         /\ g[p].test \in 1 .. TestInterval /\ TestInterval \in Nat \ {0} /\ Pending(p) \in {0, 1}
         /\ Budget(p, i) => Cardinality(Late(p, i)) <= TestInterval
<1>1. data \in Seq(Seq(Entry)) /\ i \in 1 .. Len(data) /\ gone[i] \in Nat
  BY DEF TypeInv, FilesOK
<1>2. Len(data[i]) \in Nat
  BY <1>1, ElementOfSeq, LenProperties
<1>3. PICK a \in Int, b \in Int : a = gone[i] + 1 /\ b = Len(data[i])
  BY <1>1, <1>2
<1>4. IsFiniteSet(a .. b)
  BY FS_Interval, Zenon
<1>5. Late(p, i) \subseteq a .. b
  BY <1>3 DEF Late
<1>6. IsFiniteSet(Late(p, i)) /\ Cardinality(Late(p, i)) \in Nat
  BY <1>4, <1>5, FS_Subset, FS_CardinalityType
<1>7. g[p].test \in 1 .. TestInterval
  BY DEF TypeInv, HandlesOK, HandleOK
<1>8. TestInterval \in Nat \ {0} /\ Pending(p) \in {0, 1}
  BY LogAssumption DEF Pending
<1> QED
  BY <1>6, <1>7, <1>8 DEF Budget

(* The budgets bound the late lines. *)
LEMMA RemovalShows ==
  ASSUME TypeInv, RemovalInv
  PROVE  RemovedFilesAreLeft
BY BudgetFacts DEF RemovalInv, WithinInterval, RemovedFilesAreLeft

(* A step within a call lets a call that met no other one be alone. *)
LEMMA AloneKept ==
  ASSUME TypeInv, Alone, NEW p \in Procs, NEW t \in Threads, Only(p, t), th[p][t].pc # "idle",
         th'[p][t].pc = "idle" \/ th'[p][t].msg.mixed = th[p][t].msg.mixed
  PROVE  Alone'
<1> SUFFICES ASSUME NEW q \in Procs, NEW u \in Threads, th'[q][u].pc # "idle", ~th'[q][u].msg.mixed
             PROVE  th'[q][Sibling(u)].pc = "idle"
  BY DEF Alone
<1>1. Sibling(u) \in Threads /\ Sibling(u) # u /\ (\A w \in Threads : w = u \/ w = Sibling(u))
  BY ThreadFacts
<1>2. CASE q = p /\ u = t
  <2>1. th[p][Sibling(t)].pc = "idle"
    BY <1>2 DEF Alone
  <2> QED
    BY <1>1, <1>2, <2>1 DEF Only
<1>3. CASE q = p /\ u # t
  <2>1. Sibling(u) = t /\ th'[p][u] = th[p][u]
    BY <1>1, <1>3 DEF Only
  <2> QED
    BY <1>3, <2>1 DEF Alone
<1>4. CASE q # p
  BY <1>1, <1>4 DEF Alone, Only
<1> QED
  BY <1>2, <1>3, <1>4

(* Late lines are those of the files. *)
LEMMA LateSame ==
  ASSUME UNCHANGED <<data, gone>>
  PROVE  \A p, i : Late(p, i)' = Late(p, i)
BY DEF Late

(* A step that leaves the files and what is open alone. *)
LEMMA QuietRemoval ==
  ASSUME TypeInv, RemovalInv, UNCHANGED <<data, gone>>, conf' = conf, Alone',
         LogName \in DOMAIN names' => LogName \in DOMAIN names /\ names'[LogName] = names[LogName],
         \A q \in Procs : life'[q] = life[q] \/ (life'[q] = "ended" /\ life[q] # "unborn"),
         \A q \in Procs : SameFile(q) /\ Pending(q)' = Pending(q)
  PROVE  RemovalInv'
<1>1. LogIsLast /\ OwnFile /\ Writers /\ WithinInterval /\ 1 \in Procs
  BY ProcsAreNats DEF RemovalInv
<1>2. Forked' = Forked /\ Detects' = Detects
  BY DEF Forked, Detects
<1>3. LogIsLast'
  BY <1>1 DEF LogIsLast, Exists
<1>4. OwnFile'
  BY <1>1, <1>2 DEF OwnFile, SameFile
<1>5. Writers'
  <2>1. ASSUME NEW i \in 1 .. Len(data), NEW k \in 1 .. Len(data[i]) PROVE life'[data[i][k].proc] # "unborn"
    <3>1. data[i][k].proc \in Procs
      <4>1. data[i] \in Seq(Entry)
        BY ElementOfSeq DEF TypeInv, FilesOK
      <4>2. data[i][k] \in Entry
        BY <4>1, ElementOfSeq
      <4> QED
        BY <4>2 DEF Entry
    <3>2. life[data[i][k].proc] # "unborn"
      BY <1>1 DEF Writers
    <3> QED
      BY <3>1, <3>2
  <2> QED
    BY <2>1 DEF Writers
<1>6. WithinInterval'
  <2>1. ASSUME NEW i \in DOMAIN gone, NEW q \in Procs, Budget(q, i) PROVE Budget(q, i)'
    BY <2>1, LateSame DEF Budget, SameFile
  <2> QED
    BY <1>1, <1>2, <2>1 DEF WithinInterval
<1> QED
  BY <1>3, <1>4, <1>5, <1>6 DEF RemovalInv

(* ... of a thread that is at no test. *)
LEMMA QuietThread ==
  ASSUME TypeInv, RemovalInv, NEW p \in Procs, NEW t \in Threads, Framed(p, t), SameFile(p), life' = life,
         UNCHANGED <<data, gone>>, Alone',
         LogName \in DOMAIN names' => LogName \in DOMAIN names /\ names'[LogName] = names[LogName],
         th[p][t].pc # "test", th'[p][t].pc # "test"
  PROVE  RemovalInv'
<1>1. \A q \in Procs : SameFile(q)
  BY DEF Framed, SameFile
<1>2. \A q \in Procs, u \in Threads : th'[q][u].pc = "test" <=> th[q][u].pc = "test"
  BY DEF Framed
<1>3. \A q \in Procs : Pending(q)' = Pending(q)
  BY <1>2 DEF Pending
<1> QED
  BY <1>1, <1>3, QuietRemoval DEF Framed

(* Begin keeps the budgets: calls that meet are mixed. *)
LEMMA BeginRemoval ==
  ASSUME TypeInv, RemovalInv, NEW p \in Procs, NEW t \in Threads, NEW buffer \in {"hex", "line"},
         Begin(p, t, buffer)
  PROVE  RemovalInv'
<1>1. /\ Framed(p, t) /\ Stands(p, t, "idle") /\ th'[p][t].pc = "fill" /\ SameFile(p)
      /\ th'[p][t].msg.mixed = (th[p][Sibling(t)].pc # "idle")
      /\ th'[p][Sibling(t)].msg.mixed = (th[p][Sibling(t)].msg.mixed \/ th[p][Sibling(t)].pc # "idle")
      /\ life' = life /\ UNCHANGED FileVars
  BY BeginDoes
<1>2. \A q \in Procs \ {p} : th'[q] = th[q]
  <2>1. PICK s, v, h : BeginStep(p, t, buffer, s, v, h)
    BY BeginEffect
  <2> QED
    BY <2>1, BeginType
<1>3. PICK u \in Threads : u = Sibling(t) /\ u # t /\ \A w \in Threads : w = t \/ w = u
  BY ThreadFacts
<1>4. th'[p][u].pc = th[p][u].pc
  BY <1>1, <1>3 DEF Framed
<1>5. Alone'
  <2> SUFFICES ASSUME NEW q \in Procs, NEW w \in Threads, th'[q][w].pc # "idle", ~th'[q][w].msg.mixed
               PROVE  th'[q][Sibling(w)].pc = "idle"
    BY DEF Alone
  <2>1. CASE q = p
    BY <1>1, <1>3, <1>4, <2>1
  <2>2. CASE q # p
    BY <1>2, <2>2 DEF RemovalInv, Alone
  <2> QED
    BY <2>1, <2>2
<1>6. th[p][t].pc # "test" /\ th'[p][t].pc # "test"
  BY <1>1 DEF Stands
<1> QED
  BY <1>1, <1>5, <1>6, QuietThread DEF FileVars

(* Open keeps them: the handle gets the log file, which nobody removed. *)
LEMMA OpenRemoval ==
  ASSUME TypeInv, RemovalInv, NEW p \in Procs, NEW t \in Threads, Open(p, t)
  PROVE  RemovalInv'
<1>1. /\ Framed(p, t) /\ Only(p, t) /\ Stands(p, t, "open") /\ Goto(p, t, "write")
      /\ g'[p].open /\ g'[p].fd = names'[LogName] /\ g'[p].test = g[p].test
      /\ life' = life /\ gone' = gone
  BY OpenDoes
<1>2. /\ LogIsLast /\ OwnFile /\ Alone /\ Writers /\ WithinInterval
      /\ Forked' = Forked /\ Detects' = Detects /\ conf' = conf /\ life[p] = "runs"
      /\ \A q \in Procs \ {p} : g'[q] = g[q]
  BY <1>1 DEF RemovalInv, Forked, Detects, Framed
<1>3. Alone'
  BY <1>1, <1>2, AloneKept DEF Stands, Goto
<1>4. data \in Seq(Seq(Entry)) /\ Len(data) \in Nat /\ DOMAIN gone \subseteq 1 .. Len(data)
  BY LenProperties DEF TypeInv, FilesOK
<1>5. \/ Exists(LogName) /\ names' = names /\ data' = data
      \/ /\ ~Exists(LogName) /\ data' = Append(data, <<>>)
         /\ names' = [f \in {LogName} \cup DOMAIN names |-> IF f = LogName THEN Len(data) + 1 ELSE names[f]]
  BY DEF Open
<1>6. /\ names'[LogName] = Len(data') /\ Len(data') \notin DOMAIN gone
      /\ Len(data') \in {Len(data), Len(data) + 1}
      /\ \A i \in 1 .. Len(data) : data'[i] = data[i]
      /\ Len(data') = Len(data) \/ data'[Len(data')] = <<>>
  <2>1. CASE Exists(LogName) /\ names' = names /\ data' = data
    BY <1>2, <2>1 DEF LogIsLast
  <2>2. CASE data' = Append(data, <<>>) /\ names'[LogName] = Len(data) + 1
    <3>1. << >> \in Seq(Entry)
      BY EmptySeq
    <3>2. Len(data') = Len(data) + 1 /\ (\A i \in 1 .. Len(data) : data'[i] = data[i])
          /\ data'[Len(data) + 1] = <<>>
      BY <1>4, <2>2, <3>1, AppendProperties
    <3> QED
      BY <1>4, <2>2, <3>2
  <2> QED
    BY <1>5, <2>1, <2>2
<1>7. LogIsLast'
  BY <1>1, <1>6 DEF LogIsLast
<1>8. OwnFile'
  <2>1. ASSUME ~Forked PROVE p = 1
    BY <1>2, <2>1 DEF Forked
  <2> QED
    BY <1>1, <1>2, <1>6, <2>1 DEF OwnFile
<1>9. Writers'
  <2> SUFFICES ASSUME NEW i \in 1 .. Len(data'), NEW k \in 1 .. Len(data'[i]) PROVE life[data'[i][k].proc] # "unborn"
    BY <1>1 DEF Writers
  <2>1. CASE i \in 1 .. Len(data)
    BY <1>2, <1>6, <2>1 DEF Writers
  <2>2. CASE i \notin 1 .. Len(data)
    <3>1. i = Len(data') /\ Len(data') # Len(data)
      BY <1>4, <1>6, <2>2
    <3>2. data'[i] = <<>>
      BY <1>6, <3>1
    <3> QED
      BY <3>2
  <2> QED
    BY <2>1, <2>2
<1>10. WithinInterval'
  <2> SUFFICES ASSUME NEW i \in DOMAIN gone, NEW q \in Procs, Budget(q, i)
               PROVE  Budget(q, i)'
    <3>1. \A i \in DOMAIN gone : i < Len(data) => i < Len(data')
      BY <1>4, <1>6
    <3> QED
      BY <1>1, <1>2, <3>1 DEF WithinInterval
  <2>1. Late(q, i)' = Late(q, i)
    BY <1>1, <1>4, <1>6 DEF Late
  <2>2. Pending(q)' = Pending(q)
    <3>1. \A w \in Threads : th'[q][w].pc = "test" <=> th[q][w].pc = "test"
      BY <1>1 DEF Framed, Stands, Goto
    <3> QED
      BY <3>1 DEF Pending
  <2>3. CASE q # p
    BY <1>2, <2>1, <2>2, <2>3 DEF Budget
  <2>4. CASE q = p
    <3>1. g'[p].fd # i /\ Cardinality(Late(p, i)) <= TestInterval
      BY <1>1, <1>6, <2>4, BudgetFacts
    <3> QED
      BY <2>1, <2>4, <3>1 DEF Budget
  <2> QED
    BY <2>3, <2>4
<1> QED
  BY <1>3, <1>7, <1>8, <1>9, <1>10 DEF RemovalInv

(* Write keeps them: a late line is counted, and its test is to come. *)
LEMMA WriteRemoval ==
  ASSUME TypeInv, RemovalInv, NEW p \in Procs, NEW t \in Threads, Write(p, t)
  PROVE  RemovalInv'
<1>1. /\ Framed(p, t) /\ Only(p, t) /\ Stands(p, t, "write") /\ Goto(p, t, "test")
      /\ g' = g /\ g[p].open /\ life' = life /\ names' = names /\ gone' = gone
  BY WriteDoes
<1>2. /\ LogIsLast /\ OwnFile /\ Alone /\ Writers /\ WithinInterval
      /\ Forked' = Forked /\ Detects' = Detects /\ life[p] = "runs" /\ th[p][t].pc = "write"
  BY <1>1 DEF RemovalInv, Forked, Detects, Framed, Stands
<1>3. Alone'
  BY <1>1, <1>2, AloneKept DEF Goto
<1>4. Len(data') = Len(data) /\ TypeInv'
  BY WriteType
<1>5. PICK entry : /\ entry = [proc |-> p, msg |-> th[p][t].msg, text |-> Text(Buf(p, t)), until |-> now]
                   /\ data' = [data EXCEPT ![g[p].fd] = Append(data[g[p].fd], entry)]
  BY DEF Write
<1>6. PICK f : f = g[p].fd
  OBVIOUS
<1>7. data \in Seq(Seq(Entry)) /\ f \in 1 .. Len(data) /\ data[f] \in Seq(Entry) /\ Len(data[f]) \in Nat
  BY <1>6, ElementOfSeq, LenProperties DEF TypeInv, FilesOK
<1>8. entry.proc = p /\ entry.msg = th[p][t].msg
  BY <1>5
<1>9. /\ \A i \in 1 .. Len(data) : i # f => data'[i] = data[i]
      /\ data'[f] = Append(data[f], entry)
  BY <1>5, <1>6, <1>7
<1>10. /\ Len(data'[f]) = Len(data[f]) + 1 /\ data'[f][Len(data[f]) + 1] = entry
       /\ \A k \in 1 .. Len(data[f]) : data'[f][k] = data[f][k]
  BY <1>7, <1>9
<1>11. LogIsLast' /\ OwnFile'
  BY <1>1, <1>2, <1>4 DEF LogIsLast, OwnFile, Exists
<1>12. Writers'
  <2> SUFFICES ASSUME NEW i \in 1 .. Len(data), NEW k \in 1 .. Len(data'[i]) PROVE life[data'[i][k].proc] # "unborn"
    BY <1>1, <1>4 DEF Writers
  <2>1. CASE i # f
    BY <1>2, <1>9, <2>1 DEF Writers
  <2>2. CASE i = f
    <3>1. k \in 1 .. Len(data[f]) \/ k = Len(data[f]) + 1
      BY <1>7, <1>10, <2>2
    <3>2. life[entry.proc] # "unborn"
      BY <1>2, <1>8
    <3> QED
      BY <1>2, <1>7, <1>10, <2>2, <3>1, <3>2 DEF Writers
  <2> QED
    BY <2>1, <2>2
<1>13. \A q \in Procs : q # p => Pending(q)' = Pending(q)
  <2>1. \A q \in Procs, w \in Threads : q # p => th'[q][w] = th[q][w]
    BY <1>1 DEF Only
  <2> QED
    BY <2>1 DEF Pending
<1>14. Pending(p)' = 1
  BY <1>1 DEF Pending, Goto
<1>15. ~th[p][t].msg.mixed => Pending(p) = 0
  <2> SUFFICES ASSUME ~th[p][t].msg.mixed PROVE Pending(p) = 0
    OBVIOUS
  <2>1. th[p][Sibling(t)].pc = "idle"
    BY <1>2 DEF Alone
  <2>2. \A w \in Threads : th[p][w].pc # "test"
    BY <1>2, <2>1, ThreadFacts
  <2> QED
    BY <2>2 DEF Pending
<1>16. ASSUME NEW q \in Procs, f \in DOMAIN gone, q # p \/ th[p][t].msg.mixed
       PROVE  Late(q, f)' = Late(q, f)
  <2>1. PICK a \in Nat, b \in Nat : a = gone[f] /\ b = Len(data[f])
    BY <1>7, <1>16 DEF TypeInv, FilesOK
  <2>2. Late(q, f) = {k \in a + 1 .. b : data[f][k].proc = q /\ ~data[f][k].msg.mixed}
    BY <2>1 DEF Late
  <2>3. Late(q, f)' = {k \in a + 1 .. b + 1 : data'[f][k].proc = q /\ ~data'[f][k].msg.mixed}
    BY <1>1, <1>10, <2>1 DEF Late
  <2>4. \A k \in a + 1 .. b : data'[f][k] = data[f][k]
    BY <1>10, <2>1
  <2>5. ~(data'[f][b + 1].proc = q /\ ~data'[f][b + 1].msg.mixed)
    BY <1>8, <1>10, <1>16, <2>1
  <2>6. \A k \in a + 1 .. b + 1 : k \in a + 1 .. b \/ k = b + 1
    BY <2>1
  <2>7. a + 1 .. b \subseteq a + 1 .. b + 1
    BY <2>1
  <2> QED
    BY <2>2, <2>3, <2>4, <2>5, <2>6, <2>7, Zenon
<1>17. WithinInterval'
  <2> SUFFICES ASSUME NEW i \in DOMAIN gone, NEW q \in Procs, Budget(q, i) PROVE Budget(q, i)'
    BY <1>1, <1>2, <1>4 DEF WithinInterval
  <2>1. i \in 1 .. Len(data) /\ gone[i] \in Nat
    BY DEF TypeInv, FilesOK
  <2>2. CASE i # f
    <3>1. Late(q, i)' = Late(q, i)
      BY <1>1, <1>9, <2>1, <2>2 DEF Late
    <3>2. g[q].fd = i => q # p
      BY <1>6, <2>2
    <3> QED
      BY <1>1, <1>13, <2>2, <3>1, <3>2 DEF Budget
  <2>3. CASE i = f /\ q # p
    <3>1. Late(q, f)' = Late(q, f)
      BY <1>16, <2>3
    <3> QED
      BY <1>1, <1>13, <2>3, <3>1 DEF Budget
  <2>4. CASE i = f /\ q = p
    <3> PICK c : c = Cardinality(Late(p, f))
      OBVIOUS
    <3>1. /\ IsFiniteSet(Late(p, f)) /\ c \in Nat
          /\ g[p].test \in 1 .. TestInterval /\ TestInterval \in Nat \ {0} /\ Pending(p) \in {0, 1}
      BY <2>4, BudgetFacts
    <3>2. c + g[p].test - Pending(p) <= TestInterval
      BY <1>1, <1>6, <2>4 DEF Budget
    <3>3. Cardinality(Late(p, f)') <= (IF th[p][t].msg.mixed THEN c ELSE c + 1) /\ Cardinality(Late(p, f)') \in Nat
      <4>1. CASE th[p][t].msg.mixed
        <5>1. Late(p, f)' = Late(p, f)
          BY <1>16, <2>4, <4>1
        <5> QED
          BY <3>1, <4>1, <5>1
      <4>2. CASE ~th[p][t].msg.mixed
        <5>1. Late(p, f)' \subseteq Late(p, f) \cup {Len(data[f]) + 1}
          BY <1>1, <1>7, <1>10, <2>1, <2>4, SMTT(30) DEF Late
        <5>2. PICK more : more = Late(p, f) \cup {Len(data[f]) + 1}
          OBVIOUS
        <5>3. IsFiniteSet(more) /\ (Cardinality(more) = c \/ Cardinality(more) = c + 1)
          BY <3>1, <5>2, FS_AddElement
        <5>4. Late(p, f)' \subseteq more
          BY <5>1, <5>2
        <5>5. Cardinality(Late(p, f)') <= Cardinality(more) /\ IsFiniteSet(Late(p, f)')
          BY <5>3, <5>4, FS_Subset
        <5>6. Cardinality(Late(p, f)') \in Nat
          BY <5>5, FS_CardinalityType
        <5> QED
          BY <3>1, <4>2, <5>3, <5>5, <5>6
      <4> QED
        BY <4>1, <4>2
    <3>4. Cardinality(Late(p, f)') + g[p].test - 1 <= TestInterval
      BY <1>15, <3>1, <3>2, <3>3
    <3> QED
      BY <1>1, <1>6, <1>14, <2>4, <3>4 DEF Budget
  <2> QED
    BY <2>2, <2>3, <2>4
<1> QED
  BY <1>3, <1>11, <1>12, <1>17 DEF RemovalInv

(* Test keeps them: it counts down, or it finds the file gone - unless another process made it anew. *)
LEMMA TestRemoval ==
  ASSUME TypeInv, RemovalInv, NEW p \in Procs, NEW t \in Threads, Test(p, t)
  PROVE  RemovalInv'
<1>1. /\ Framed(p, t) /\ Only(p, t) /\ Stands(p, t, "test") /\ TestedFile(p, g'[p])
      /\ th'[p][t].pc = "idle" \/ th'[p][t].msg = th[p][t].msg
      /\ life' = life /\ UNCHANGED FileVars
  BY TestDoes
<1>2. /\ LogIsLast /\ OwnFile /\ Alone /\ Writers /\ WithinInterval
      /\ Forked' = Forked /\ Detects' = Detects /\ conf' = conf /\ life[p] = "runs"
      /\ UNCHANGED <<names, data, gone>>
      /\ \A q \in Procs \ {p} : g'[q] = g[q]
  BY <1>1 DEF RemovalInv, Forked, Detects, Framed, FileVars
<1>3. Alone'
  BY <1>1, <1>2, AloneKept DEF Stands
<1>4. TypeInv'
  BY TestType
<1>5. ASSUME ~Forked PROVE p = 1
  BY <1>2, <1>5 DEF Forked
<1>6. g'[p].fd = g[p].fd /\ (g'[p].open => g[p].open)
  BY <1>1 DEF TestedFile
<1>7. LogIsLast' /\ OwnFile' /\ Writers'
  BY <1>1, <1>2, <1>5, <1>6 DEF LogIsLast, OwnFile, Writers, Exists
<1>8. WithinInterval'
  <2> SUFFICES ASSUME Detects, NEW i \in DOMAIN gone, NEW q \in Procs, Budget(q, i)
               PROVE  Budget(q, i)' \/ (Forked /\ i < Len(data))
    BY <1>2 DEF WithinInterval
  <2>1. Late(q, i)' = Late(q, i)
    BY <1>2, LateSame
  <2>2. CASE q # p
    <3>1. \A w \in Threads : th'[q][w] = th[q][w]
      BY <1>1, <2>2 DEF Only
    <3>2. Pending(q)' = Pending(q)
      BY <3>1 DEF Pending
    <3> QED
      BY <1>2, <2>1, <2>2, <3>2 DEF Budget
  <2>3. CASE q = p /\ ~(g'[p].open /\ g'[p].fd = i)
    <3>1. Cardinality(Late(p, i)) <= TestInterval
      BY <2>3, BudgetFacts
    <3> QED
      BY <2>1, <2>3, <3>1 DEF Budget
  <2>4. CASE q = p /\ g'[p].open /\ g'[p].fd = i
    <3>1. PICK c : c = Cardinality(Late(p, i))
      OBVIOUS
    <3>2. c \in Nat /\ g[p].test \in 1 .. TestInterval /\ Pending(p) \in {0, 1} /\ TestInterval \in Nat \ {0}
      BY <3>1, BudgetFacts
    <3>3. Pending(p)' \in {0, 1}
      BY DEF Pending
    <3>4. g[p].open /\ g[p].fd = i /\ c + g[p].test - Pending(p) <= TestInterval
      BY <1>6, <2>4, <3>1 DEF Budget
    <3>5. CASE g[p].test > 1 /\ g'[p].test = g[p].test - 1
      <4>1. c + g'[p].test - Pending(p)' <= TestInterval
        BY <3>2, <3>3, <3>4, <3>5
      <4> QED
        BY <2>1, <2>4, <3>1, <4>1 DEF Budget
    <3>6. CASE g[p].test <= 1 /\ Exists(LogName)
      <4>1. i # Len(data) /\ i \in 1 .. Len(data) /\ Len(data) \in Nat
        BY <1>2, <3>6, LenProperties DEF LogIsLast, TypeInv, FilesOK
      <4>2. Forked
        BY <1>2, <1>5, <3>4, <4>1 DEF OwnFile
      <4> QED
        BY <4>1, <4>2
    <3> QED
      BY <1>1, <2>4, <3>4, <3>5, <3>6 DEF TestedFile
  <2> QED
    BY <2>2, <2>3, <2>4
<1> QED
  BY <1>3, <1>7, <1>8 DEF RemovalInv

(* Fork keeps them: a child has written nothing. *)
LEMMA ForkRemoval ==
  ASSUME TypeInv, Alive, RemovalInv, NEW p \in Procs, NEW q \in Procs, Fork(p, q)
  PROVE  RemovalInv'
<1>1. /\ q # 1 /\ q # p /\ life[q] = "unborn" /\ life'[q] = "runs" /\ g'[q] = g[p]
      /\ \A r \in Procs \ {q} : g'[r] = g[r] /\ life'[r] = life[r]
  BY ForkType
<1>2. UNCHANGED <<conf, th>> /\ UNCHANGED <<names, data, gone>>
  BY DEF Fork, FileVars
<1>3. /\ LogIsLast /\ OwnFile /\ Alone /\ Writers /\ WithinInterval
      /\ Forked' /\ Detects' = Detects
  BY <1>1, <1>2 DEF RemovalInv, Forked, Detects
<1>4. LogIsLast' /\ OwnFile' /\ Alone'
  BY <1>2, <1>3 DEF LogIsLast, OwnFile, Alone, Exists
<1>5. \A i \in 1 .. Len(data) : \A k \in 1 .. Len(data[i]) :
        data[i][k].proc \in Procs \ {q} /\ life[data[i][k].proc] # "unborn"
  <2> SUFFICES ASSUME NEW i \in 1 .. Len(data), NEW k \in 1 .. Len(data[i])
               PROVE  data[i][k].proc \in Procs \ {q} /\ life[data[i][k].proc] # "unborn"
    OBVIOUS
  <2>1. data[i] \in Seq(Entry)
    BY ElementOfSeq DEF TypeInv, FilesOK
  <2>2. data[i][k] \in Entry
    BY <2>1, ElementOfSeq
  <2>3. data[i][k].proc \in Procs
    BY <2>2 DEF Entry
  <2>4. life[data[i][k].proc] # "unborn"
    BY <1>3 DEF Writers
  <2> QED
    BY <1>1, <2>3, <2>4
<1>6. Writers'
  BY <1>1, <1>2, <1>5 DEF Writers
<1>7. WithinInterval'
  <2> SUFFICES ASSUME Detects, NEW i \in DOMAIN gone, NEW r \in Procs
               PROVE  Budget(r, i)' \/ (Forked /\ i < Len(data))'
    BY <1>2, <1>3 DEF WithinInterval
  <2>1. Late(r, i)' = Late(r, i) /\ Pending(r)' = Pending(r)
    BY <1>2, LateSame DEF Pending
  <2>2. CASE r # q
    <3>1. Budget(r, i) => Budget(r, i)'
      BY <1>1, <2>1, <2>2 DEF Budget
    <3> QED
      BY <1>2, <1>3, <3>1 DEF WithinInterval
  <2>3. CASE r = q
    <3>1. i \in 1 .. Len(data) /\ gone[i] \in Nat /\ data \in Seq(Seq(Entry))
      BY DEF TypeInv, FilesOK
    <3>2. Len(data[i]) \in Nat
      BY <3>1, ElementOfSeq, LenProperties
    <3>3. Late(q, i) = {}
      BY <1>5, <3>1, <3>2 DEF Late
    <3>4. Cardinality(Late(q, i)') = 0
      BY <2>1, <2>3, <3>3, FS_EmptySet
    <3>5. /\ g[p].test \in 1 .. TestInterval /\ TestInterval \in Nat \ {0}
          /\ Pending(q)' \in {0, 1} /\ g'[q].test = g[p].test
      BY <1>1, BudgetFacts DEF Pending
    <3> QED
      BY <2>3, <3>4, <3>5 DEF Budget
  <2> QED
    BY <2>2, <2>3
<1> QED
  BY <1>4, <1>6, <1>7 DEF RemovalInv

(* RemoveLog keeps them: no line is late yet. *)
LEMMA RemoveRemoval ==
  ASSUME TypeInv, RemovalInv, RemoveLog
  PROVE  RemovalInv'
<1>1. /\ Exists(LogName) /\ names' = [n \in DOMAIN names \ {LogName} |-> names[n]]
      /\ gone' = [i \in {names[LogName]} \cup DOMAIN gone |-> IF i = names[LogName] THEN Len(data[i]) ELSE gone[i]]
      /\ UNCHANGED <<conf, life, g, th, data>>
  BY DEF RemoveLog, World, LockVars, Without
<1>2. /\ LogIsLast /\ OwnFile /\ Alone /\ Writers /\ WithinInterval
      /\ Forked' = Forked /\ Detects' = Detects
  BY <1>1 DEF RemovalInv, Forked, Detects
<1>3. ~Exists(LogName)' /\ DOMAIN gone' = DOMAIN gone \cup {names[LogName]}
      /\ gone'[names[LogName]] = Len(data[names[LogName]])
      /\ \A i \in DOMAIN gone : i # names[LogName] => gone'[i] = gone[i]
  BY <1>1 DEF Exists
<1>4. LogIsLast' /\ OwnFile' /\ Alone' /\ Writers'
  BY <1>1, <1>2, <1>3 DEF LogIsLast, OwnFile, Alone, Writers
<1>5. WithinInterval'
  <2> SUFFICES ASSUME Detects, NEW i \in DOMAIN gone', NEW q \in Procs
               PROVE  Budget(q, i)' \/ (Forked /\ i < Len(data))
    BY <1>1, <1>2 DEF WithinInterval
  <2>1. Pending(q)' = Pending(q) /\ Pending(q) \in {0, 1}
    BY <1>1 DEF Pending
  <2>2. CASE i = names[LogName]
    <3>1. i \in 1 .. Len(data) /\ data \in Seq(Seq(Entry))
      BY <1>1, <2>2 DEF TypeInv, FilesOK, Exists
    <3>2. Len(data[i]) \in Nat
      BY <3>1, ElementOfSeq, LenProperties
    <3>3. Late(q, i)' = {}
      BY <1>1, <1>3, <2>2, <3>2 DEF Late
    <3>4. Cardinality(Late(q, i)') = 0
      BY <3>3, FS_EmptySet
    <3>5. g'[q].test \in 1 .. TestInterval /\ TestInterval \in Nat \ {0}
      BY <1>1, LogAssumption DEF TypeInv, HandlesOK, HandleOK
    <3> QED
      BY <2>1, <3>4, <3>5 DEF Budget
  <2>3. CASE i # names[LogName]
    <3>1. i \in DOMAIN gone /\ Late(q, i)' = Late(q, i)
      BY <1>1, <1>3, <2>3 DEF Late
    <3>2. Budget(q, i) => Budget(q, i)'
      BY <1>1, <2>1, <3>1 DEF Budget
    <3> QED
      BY <1>2, <3>1, <3>2 DEF WithinInterval
  <2> QED
    BY <2>2, <2>3
<1> QED
  BY <1>4, <1>5 DEF RemovalInv

(* The invariant of removed files holds at first. *)
LEMMA InitRemoval ==
  ASSUME Init
  PROVE  RemovalInv
<1>1. /\ g = [p \in Procs |-> NewHandle(conf)]
      /\ \A p \in Procs, t \in Threads : th[p][t] = IdleThread
      /\ gone = <<>> /\ data = <<<<>>, <<>>>> /\ 1 \in Procs
      /\ names = [f \in {Console} \cup {n \in {LogName} : conf.how = "first"} |-> IF f = Console THEN 1 ELSE 2]
  BY ProcsAreNats DEF Init
<1>2. DOMAIN gone = {} /\ Len(data) = 2 /\ data[1] = <<>> /\ data[2] = <<>>
  BY <1>1
<1>3. LogIsLast
  BY <1>1, <1>2 DEF LogIsLast, Exists, LogName, Console
<1>4. OwnFile
  BY <1>1, <1>2 DEF OwnFile, Detects, NewHandle
<1>5. Alone
  BY <1>1 DEF Alone, IdleThread
<1>6. Writers
  BY <1>2 DEF Writers
<1>7. WithinInterval
  BY <1>2 DEF WithinInterval
<1> QED
  BY <1>3, <1>4, <1>5, <1>6, <1>7 DEF RemovalInv

(* The end of a process, a new day and a step that changes nothing. *)
LEMMA AroundRemoval ==
  ASSUME TypeInv, RemovalInv, UNCHANGED <<conf, g, th>>, UNCHANGED <<names, data, gone>>,
         \A q \in Procs : life'[q] = life[q] \/ (life'[q] = "ended" /\ life[q] # "unborn")
  PROVE  RemovalInv'
<1>1. Alone' /\ \A q \in Procs : SameFile(q) /\ Pending(q)' = Pending(q)
  BY DEF RemovalInv, Alone, SameFile, Pending
<1> QED
  BY <1>1, QuietRemoval

(* Every step of a thread keeps the budgets. *)
LEMMA StepRemoval ==
  ASSUME TypeInv, Alive, RemovalInv, NEW p \in Procs, NEW t \in Threads, Step(p, t)
  PROVE  RemovalInv'
<1>0. Alone
  BY DEF RemovalInv
<1>1. ASSUME Framed(p, t), Only(p, t), SameFile(p), life' = life, UNCHANGED <<data, gone>>,
             LogName \in DOMAIN names' => LogName \in DOMAIN names /\ names'[LogName] = names[LogName],
             th[p][t].pc \notin {"idle", "test"}, th'[p][t].pc # "test",
             th'[p][t].pc = "idle" \/ th'[p][t].msg.mixed = th[p][t].msg.mixed
      PROVE  RemovalInv'
  <2>1. Alone'
    BY <1>0, <1>1, AloneKept
  <2> QED
    BY <1>1, <2>1, QuietThread
<1>2. CASE Fill(p, t)
  <2>1. /\ Framed(p, t) /\ Only(p, t) /\ SameFile(p) /\ life' = life /\ UNCHANGED FileVars
        /\ th[p][t].pc = "fill" /\ th'[p][t].pc # "test" /\ th'[p][t].msg = th[p][t].msg
    BY <1>2, FillDoes DEF Stands
  <2> QED
    BY <1>1, <2>1 DEF FileVars
<1>3. CASE Fail(p, t)
  <2>1. life' = [life EXCEPT ![p] = "ended"] /\ life[p] = "runs" /\ life \in [Procs -> {"unborn", "runs", "ended"}]
        /\ UNCHANGED <<conf, g, th>> /\ UNCHANGED <<names, data, gone>>
    BY <1>3 DEF Fail, At, FileVars, TypeInv, LocksOK
  <2> QED
    BY <2>1, AroundRemoval
<1>4. CASE Open(p, t)
  BY <1>4, OpenRemoval
<1>5. CASE Write(p, t)
  BY <1>5, WriteRemoval
<1>6. CASE ReturnEarly(p, t)
  <2>1. /\ Framed(p, t) /\ Only(p, t) /\ SameFile(p) /\ life' = life /\ UNCHANGED FileVars
        /\ th[p][t].pc \in {"open", "write"} /\ th'[p][t].pc = "idle"
    BY <1>6, ReturnEarlyDoes DEF Stands
  <2> QED
    BY <1>1, <2>1 DEF FileVars
<1>7. CASE Test(p, t)
  BY <1>7, TestRemoval
<1>8. CASE LockFile(p, t)
  <2>1. /\ Framed(p, t) /\ Only(p, t) /\ SameFile(p) /\ life' = life /\ UNCHANGED FileVars
        /\ th[p][t].pc = "lock" /\ th'[p][t].pc = "mutex" /\ th'[p][t].msg = th[p][t].msg
    BY <1>8, LockFileDoes DEF Stands, Goto
  <2> QED
    BY <1>1, <2>1 DEF FileVars
<1>9. CASE LockMutex(p, t)
  <2>1. /\ Framed(p, t) /\ Only(p, t) /\ SameFile(p) /\ life' = life /\ UNCHANGED FileVars
        /\ th[p][t].pc = "mutex" /\ th'[p][t].pc = "section" /\ th'[p][t].msg = th[p][t].msg
    BY <1>9, LockMutexDoes DEF Stands, Goto
  <2> QED
    BY <1>1, <2>1 DEF FileVars
<1>10. CASE Release(p, t)
  <2>1. /\ Framed(p, t) /\ Only(p, t) /\ SameFile(p) /\ life' = life /\ UNCHANGED FileVars
        /\ th[p][t].pc = "release" /\ th'[p][t].pc \in {"fill", "idle"}
        /\ th'[p][t].pc = "fill" => th'[p][t].msg = th[p][t].msg
    BY <1>10, ReleaseDoes DEF Stands
  <2> QED
    BY <1>1, <2>1 DEF FileVars
<1>11. CASE Realloc(p, t)
  <2>1. /\ Framed(p, t) /\ Only(p, t) /\ SameFile(p) /\ life' = life /\ UNCHANGED FileVars
        /\ th[p][t].pc = "section" /\ th'[p][t].pc = "release" /\ th'[p][t].msg.mixed = th[p][t].msg.mixed
    BY <1>11, ReallocDoes DEF Stands
  <2> QED
    BY <1>1, <2>1 DEF FileVars
<1>12. CASE StatLog(p, t)
  <2>1. /\ Framed(p, t) /\ Only(p, t) /\ SameFile(p) /\ life' = life /\ UNCHANGED FileVars
        /\ th[p][t].pc = "section" /\ th'[p][t].pc \in {"release", "rename"} /\ th'[p][t].msg = th[p][t].msg
    BY <1>12, StatLogDoes DEF Stands
  <2> QED
    BY <1>1, <2>1 DEF FileVars
<1>13. ASSUME NEW m, Exists(LogName), names' = Moved(m)
       PROVE  LogName \in DOMAIN names' => LogName \in DOMAIN names /\ names'[LogName] = names[LogName]
  <2>1. DOMAIN Moved(m) = {m} \cup (DOMAIN names \ {LogName}) /\ Moved(m)[m] = names[LogName]
    BY <1>13, MovedNames
  <2> QED
    BY <1>13, <2>1 DEF Exists
<1>14. CASE Rename(p, t)
  <2>1. /\ Framed(p, t) /\ Only(p, t) /\ SameFile(p) /\ life' = life /\ UNCHANGED <<data, gone>>
        /\ th[p][t].pc = "rename" /\ th'[p][t].pc = "release" /\ th'[p][t].msg = th[p][t].msg
    BY <1>14, RenameDoes DEF Stands, Goto
  <2>2. PICK m : names' = (IF Exists(LogName) THEN Moved(m) ELSE Without(names, m))
    BY <1>14 DEF Rename
  <2>3. CASE Exists(LogName)
    BY <1>1, <1>13, <2>1, <2>2, <2>3
  <2>4. CASE ~Exists(LogName)
    <3>1. LogName \notin DOMAIN names'
      BY <2>2, <2>4 DEF Exists, Without
    <3> QED
      BY <1>1, <2>1, <3>1
  <2> QED
    BY <2>3, <2>4
<1>15. ASSUME NEW mode, RotateByDate(p, t, mode) PROVE RemovalInv'
  <2>1. /\ Framed(p, t) /\ Only(p, t) /\ SameFile(p) /\ life' = life /\ UNCHANGED <<data, gone>>
        /\ th[p][t].pc = "section" /\ th'[p][t].pc = "release" /\ th'[p][t].msg = th[p][t].msg
    BY <1>15, RotateByDateDoes DEF Stands, Goto
  <2>2. PICK m : m = DayName(g[p].rday)
    OBVIOUS
  <2>3. (Exists(LogName) /\ names' = Moved(m)) \/ names' = names
    BY <1>15, <2>2 DEF RotateByDate
  <2>4. LogName \in DOMAIN names' => LogName \in DOMAIN names /\ names'[LogName] = names[LogName]
    BY <1>13, <2>3
  <2> QED
    BY <1>1, <2>1, <2>4
<1>16. CASE RotateLogFilePerDate(p, t) \/ RotateLogFilePerHour(p, t)
  BY <1>15, <1>16 DEF RotateLogFilePerDate, RotateLogFilePerHour
<1> QED
  BY <1>2, <1>3, <1>4, <1>5, <1>6, <1>7, <1>8, <1>9, <1>10, <1>11, <1>12, <1>14, <1>16 DEF Step

(* Every step keeps the budgets. *)
LEMMA NextRemoval ==
  ASSUME TypeInv, Alive, RemovalInv, [Next]_vars
  PROVE  RemovalInv'
<1>1. ASSUME NEW p \in Procs, Exit(p) PROVE RemovalInv'
  <2>1. life' = [life EXCEPT ![p] = "ended"] /\ life[p] = "runs" /\ life \in [Procs -> {"unborn", "runs", "ended"}]
        /\ UNCHANGED <<conf, g, th>> /\ UNCHANGED <<names, data, gone>>
    BY <1>1 DEF Exit, At, FileVars, TypeInv, LocksOK
  <2> QED
    BY <2>1, AroundRemoval
<1>2. CASE Tick
  <2>1. UNCHANGED <<conf, g, th>> /\ UNCHANGED <<names, data, gone>> /\ life' = life
    BY <1>2 DEF Tick, FileVars
  <2> QED
    BY <2>1, AroundRemoval
<1>3. CASE UNCHANGED vars
  <2>1. UNCHANGED <<conf, g, th>> /\ UNCHANGED <<names, data, gone>> /\ life' = life
    BY <1>3 DEF vars
  <2> QED
    BY <2>1, AroundRemoval
<1>4. CASE Next
  BY <1>1, <1>2, <1>4, BeginRemoval, StepRemoval, ForkRemoval, RemoveRemoval DEF Next, Call, CallHex
<1> QED
  BY <1>3, <1>4

(* A file that someone removed gets no more lines of a process than the interval of its tests, unless another process made the log file anew (log.c:326-345). *)
THEOREM RemovalCorrect == Spec => []RemovedFilesAreLeft
<1>1. Init => TypeInv /\ Alive /\ RemovalInv
  BY InitType, InitRemoval
<1>2. TypeInv /\ Alive /\ RemovalInv /\ [Next]_vars => RemovalInv'
  BY NextRemoval
<1>3. TypeInv /\ RemovalInv => RemovedFilesAreLeft
  BY RemovalShows
<1> QED
  BY <1>1, <1>2, <1>3, TypeCorrect, PTL DEF Spec

-----------------------------------------------------------------------------
(* Lines are whole. *)
(* Where FORMAT is among the style functions, and what else is there. *)
FormatAt(f) ==
  /\ f \in 1 .. Len(conf.funcs) /\ conf.funcs[f] = "format"
  /\ \A k \in 1 .. Len(conf.funcs) : k # f => conf.funcs[k] # "format"
  /\ \A k \in 1 .. f - 1 : conf.funcs[k] # "newline"
  /\ f = Len(conf.funcs) \/ (f + 1 = Len(conf.funcs) /\ conf.funcs[f + 1] = "newline")

(* How much of the message a line is to have. *)
Room(msg) ==
  LET before == Cardinality({k \in DOMAIN conf.funcs : conf.funcs[k] \notin {"format", "newline"}})
  IN IF msg.dump THEN 1 ELSE IF before + msg.len < conf.max - 2 THEN msg.len ELSE 0

(* FORMAT is there once, and as many pieces without it and the newline are before it. *)
LEMMA StyleFacts ==
  ASSUME ConfOK
  PROVE  \E f : /\ FormatAt(f)
                /\ Cardinality({k \in DOMAIN conf.funcs : conf.funcs[k] \notin {"format", "newline"}}) = f - 1
<1>1. IsLineStyle(conf.funcs) /\ Len(conf.funcs) \in Nat \ {0} /\ DOMAIN conf.funcs = 1 .. Len(conf.funcs)
  <2>1. IsLineStyle(conf.funcs) /\ conf.funcs \in Seq(STRING) /\ Len(conf.funcs) \in Nat \ {0}
    BY ConfFacts
  <2> QED
    BY <2>1, LenProperties
<1>2. PICK f \in 1 .. Len(conf.funcs) :
        /\ conf.funcs[f] = "format"
        /\ \A j \in 1 .. f - 1 : conf.funcs[j] \notin {"format", "newline"}
        /\ f = Len(conf.funcs) \/ (f + 1 = Len(conf.funcs) /\ conf.funcs[f + 1] = "newline")
  BY <1>1 DEF IsLineStyle
<1>3. FormatAt(f)
  <2>1. ASSUME NEW k \in 1 .. Len(conf.funcs), k # f PROVE conf.funcs[k] # "format"
    <3>1. k \in 1 .. f - 1 \/ (k = f + 1 /\ f + 1 = Len(conf.funcs))
      BY <1>1, <1>2, <2>1
    <3> QED
      BY <1>2, <3>1
  <2> QED
    BY <1>2, <2>1 DEF FormatAt
<1>4. {k \in DOMAIN conf.funcs : conf.funcs[k] \notin {"format", "newline"}} = 1 .. f - 1
  <2>1. ASSUME NEW k \in 1 .. Len(conf.funcs), conf.funcs[k] \notin {"format", "newline"} PROVE k \in 1 .. f - 1
    <3>1. k \in 1 .. f - 1 \/ k = f \/ (k = f + 1 /\ f + 1 = Len(conf.funcs))
      BY <1>1, <1>2
    <3> QED
      BY <1>2, <2>1, <3>1
  <2>2. 1 .. f - 1 \subseteq 1 .. Len(conf.funcs)
    BY <1>1, <1>2
  <2> QED
    BY <1>1, <1>2, <2>1, <2>2
<1>5. Cardinality(1 .. f - 1) = f - 1
  <2>1. PICK a \in Int, b \in Int : a = 1 /\ b = f - 1
    BY <1>1, <1>2
  <2>2. Cardinality(a .. b) = IF a > b THEN 0 ELSE b - a + 1
    BY FS_Interval, Zenon
  <2> QED
    BY <1>1, <1>2, <2>1, <2>2
<1> QED
  BY <1>3, <1>4, <1>5

\* How many characters the pieces from i to k have, FORMAT being at f.
Reach(i, k, f, len) == k - i + 1 + (IF i <= f /\ f <= k THEN len - 1 ELSE 0)

(* How long pieces are depends on where FORMAT is. *)
LEMMA LengthIs ==
  ASSUME ConfOK, NEW f \in Int, FormatAt(f), NEW i \in Int, 1 <= i, i <= Len(conf.funcs) + 1,
         NEW k \in Int, 0 <= k, k <= Len(conf.funcs), NEW len \in Int
  PROVE  LengthOf(i, k, len) = Reach(i, k, f, len)
<1>1. Len(conf.funcs) \in Nat
  BY ConfFacts
<1>2. (\E j \in i .. k : conf.funcs[j] = "format") <=> i <= f /\ f <= k
  <2>1. ASSUME NEW j \in i .. k, conf.funcs[j] = "format" PROVE i <= f /\ f <= k
    <3>1. j \in 1 .. Len(conf.funcs)
      BY <1>1, <2>1
    <3>2. j = f
      BY <2>1, <3>1 DEF FormatAt
    <3> QED
      BY <1>1, <3>2
  <2>2. ASSUME i <= f, f <= k PROVE \E j \in i .. k : conf.funcs[j] = "format"
    <3>1. f \in i .. k /\ conf.funcs[f] = "format"
      BY <1>1, <2>2 DEF FormatAt
    <3> QED
      BY <3>1
  <2> QED
    BY <2>1, <2>2
<1> QED
  BY <1>2 DEF LengthOf, Reach

(* The room there is for the message, in numbers. *)
RoomNumbers(n, f, i, stop, len, room, size, max, ptr, remain) ==
  /\ n \in Nat /\ f \in Int /\ 1 <= f /\ (f = n \/ f + 1 = n)
  /\ i \in Int /\ 1 <= i /\ stop \in Int /\ i <= stop /\ stop <= n + 1
  /\ len \in Nat /\ room \in Nat /\ size \in Nat /\ max \in Nat /\ ptr \in Nat /\ remain \in Int
  /\ remain = size - 2 - ptr /\ size <= max /\ n + 2 <= max
  /\ (f <= i - 1 => ptr = i - 1 + (room - 1)) /\ (~(f <= i - 1) => ptr = i - 1)
  /\ \/ len = 1 /\ room = 1 /\ n + 3 <= max
     \/ f - 1 + len < max - 2 /\ room = len
     \/ ~(f - 1 + len < max - 2) /\ room = 0
  /\ i <= f /\ f < stop => f - i + 1 + (len - 1) < remain
  /\ stop <= n /\ i <= f /\ f <= stop => stop - i + 1 + (len - 1) >= remain
  /\ stop <= n /\ ~(i <= f /\ f <= stop) => stop - i + 1 >= remain
  /\ stop = f + 1 /\ stop <= n /\ i <= f => stop - i + 1 + (len - 1) > remain
  /\ stop = f + 1 /\ stop <= n /\ ~(i <= f) => stop - i + 1 > remain

RoomEnough(n, f, i, stop, len, room, size, max) ==
  /\ i <= f /\ f < stop => room = len
  /\ stop <= n /\ size = max => stop = f /\ room = 0 /\ ~(f - 1 + len < max - 2)

(* A message is put as long as a line is to have it, and one that does not fit into the largest buffer is left out of both. *)
LEMMA RoomIsThere ==
  ASSUME NEW n, NEW f, NEW i, NEW stop, NEW len, NEW room, NEW size, NEW max, NEW ptr, NEW remain,
         RoomNumbers(n, f, i, stop, len, room, size, max, ptr, remain)
  PROVE  RoomEnough(n, f, i, stop, len, room, size, max)
<1> USE DEF RoomNumbers
<1>1. ASSUME i <= f, f < stop PROVE room = len
  BY <1>1
<1>2. ASSUME stop <= n, size = max PROVE stop = f /\ room = 0 /\ ~(f - 1 + len < max - 2)
  <2>1. CASE stop < f
    BY <1>2, <2>1
  <2>2. CASE stop = f
    BY <1>2, <2>2
  <2>3. CASE stop > f
    BY <1>2, <2>3
  <2> QED
    BY <2>1, <2>2, <2>3
<1> QED
  BY <1>1, <1>2 DEF RoomEnough

(* Where the style functions may stop, by the room there is for the message. *)
LEMMA RoomFits ==
  ASSUME ConfOK, NEW b \in BufType, InOrder(b), NEW msg \in Msg,
         NEW i \in Int, 1 <= i, i <= Len(conf.funcs) + 1, b.ptr = LengthOf(1, i - 1, Room(msg)),
         b.size <= (IF msg.dump THEN MaxSize ELSE conf.max),
         NEW len, len = (IF msg.dump THEN 1 ELSE msg.len),
         NEW f \in Int, FormatAt(f)
  PROVE  /\ i <= f /\ f < Stop(b, i, len) => Room(msg) = len
         /\ Stop(b, i, len) <= Len(conf.funcs) /\ b.size = (IF msg.dump THEN MaxSize ELSE conf.max) =>
              Stop(b, i, len) = f /\ ~msg.dump /\ Room(msg) = 0
         /\ Room(msg) \in Nat
<1> PICK max : max = IF msg.dump THEN MaxSize ELSE conf.max
  OBVIOUS
<1>1. /\ Len(conf.funcs) \in Nat /\ 1 <= f /\ f <= Len(conf.funcs) /\ (f = Len(conf.funcs) \/ f + 1 = Len(conf.funcs))
      /\ conf.max \in Nat /\ MaxSize \in Nat /\ Len(conf.funcs) + 2 <= conf.max /\ Len(conf.funcs) + 3 <= MaxSize
      /\ conf.funcs \in Seq(STRING)
  BY ConfFacts, LogAssumption DEF FormatAt
<1>2. msg.len \in Nat /\ msg.dump \in BOOLEAN /\ len \in Nat
  BY DEF Msg
<1>3. Room(msg) = IF msg.dump THEN 1 ELSE IF f - 1 + msg.len < conf.max - 2 THEN msg.len ELSE 0
  <2>1. Cardinality({k \in DOMAIN conf.funcs : conf.funcs[k] \notin {"format", "newline"}}) = f - 1
    <3>1. PICK e : /\ FormatAt(e)
                   /\ Cardinality({k \in DOMAIN conf.funcs : conf.funcs[k] \notin {"format", "newline"}}) = e - 1
      BY StyleFacts
    <3>2. e = f
      BY <3>1 DEF FormatAt
    <3> QED
      BY <3>1, <3>2
  <2> QED
    BY <2>1 DEF Room
<1> PICK room \in Nat : room = Room(msg)
  BY <1>2, <1>3
<1>4. /\ Stop(b, i, len) \in i .. Len(conf.funcs) + 1
      /\ \A k \in i .. Stop(b, i, len) - 1 : Fits(b, conf.funcs[k], LengthOf(i, k, len))
      /\ Stop(b, i, len) <= Len(conf.funcs) =>
           ~Fits(b, conf.funcs[Stop(b, i, len)], LengthOf(i, Stop(b, i, len), len))
  BY <1>1, StopFirst
<1> PICK stop \in Int : stop = Stop(b, i, len) /\ i <= stop /\ stop <= Len(conf.funcs) + 1
  BY <1>1, <1>4
<1>6. /\ f <= i - 1 => b.ptr = i - 1 + (room - 1)
      /\ ~(f <= i - 1) => b.ptr = i - 1
  <2> PICK k \in Int : k = i - 1 /\ 0 <= k /\ k <= Len(conf.funcs)
    BY <1>1
  <2>1. LengthOf(1, k, room) = k - 1 + 1 + (IF 1 <= f /\ f <= k THEN room - 1 ELSE 0)
    <3>1. 1 \in Int /\ 1 <= 1 /\ 1 <= Len(conf.funcs) + 1 /\ room \in Int
      BY <1>1
    <3>2. 0 <= k
      BY <1>1
    <3>3. LengthOf(1, k, room) = Reach(1, k, f, room)
      BY <3>1, <3>2, LengthIs
    <3> QED
      BY <3>3 DEF Reach
  <2>2. b.ptr = k - 1 + 1 + (IF 1 <= f /\ f <= k THEN room - 1 ELSE 0)
    BY <2>1
  <2> QED
    BY <1>1, <2>2
<1>7. b.remain = b.size - 2 - b.ptr /\ b.size \in Nat /\ b.ptr \in Nat /\ b.remain \in Int
  BY DEF InOrder, BufType
<1>8. conf.funcs[f] \notin Copied
  BY DEF FormatAt, Copied
<1>9. i <= f /\ f < stop => f - i + 1 + (len - 1) < b.remain
  <2> SUFFICES ASSUME i <= f, f < stop PROVE f - i + 1 + (len - 1) < b.remain
    OBVIOUS
  <2>1. f \in i .. Stop(b, i, len) - 1
    OBVIOUS
  <2>2. LengthOf(i, f, len) < b.remain
    BY <1>4, <1>8, <2>1 DEF Fits
  <2>3. LengthOf(i, f, len) = f - i + 1 + (len - 1)
    <3>1. LengthOf(i, f, len) = f - i + 1 + (IF i <= f /\ f <= f THEN len - 1 ELSE 0)
      <4>1. 0 <= f /\ f <= Len(conf.funcs) /\ len \in Int
        BY <1>1, <1>2
      <4>2. LengthOf(i, f, len) = Reach(i, f, f, len)
        BY <4>1, LengthIs
      <4> QED
        BY <4>2 DEF Reach
    <3> QED
      BY <3>1
  <2> QED
    BY <2>2, <2>3
<1>10. ASSUME stop <= Len(conf.funcs)
       PROVE  /\ LengthOf(i, stop, len) >= b.remain
              /\ conf.funcs[stop] \in Copied => LengthOf(i, stop, len) > b.remain
              /\ LengthOf(i, stop, len) = stop - i + 1 + (IF i <= f /\ f <= stop THEN len - 1 ELSE 0)
  <2>1. LengthOf(i, stop, len) = stop - i + 1 + (IF i <= f /\ f <= stop THEN len - 1 ELSE 0)
    <3>1. 0 <= stop /\ stop <= Len(conf.funcs) /\ len \in Int
      BY <1>2, <1>10
    <3>2. LengthOf(i, stop, len) = Reach(i, stop, f, len)
      BY <3>1, LengthIs
    <3> QED
      BY <3>2 DEF Reach
  <2> PICK x \in Int : x = LengthOf(i, stop, len)
    BY <1>2, <2>1
  <2>2. ~Fits(b, conf.funcs[stop], x)
    BY <1>4, <1>10
  <2>3. x >= b.remain /\ (conf.funcs[stop] \in Copied => x > b.remain)
    BY <1>7, <2>2 DEF Fits
  <2> QED
    BY <2>1, <2>3
<1>11. /\ stop <= Len(conf.funcs) /\ i <= f /\ f <= stop => stop - i + 1 + (len - 1) >= b.remain
       /\ stop <= Len(conf.funcs) /\ ~(i <= f /\ f <= stop) => stop - i + 1 >= b.remain
  <2>1. CASE i <= f /\ f <= stop
    BY <1>10, <2>1
  <2>2. CASE ~(i <= f /\ f <= stop)
    <3>1. stop - i + 1 + 0 = stop - i + 1
      OBVIOUS
    <3> QED
      BY <1>10, <2>2, <3>1
  <2> QED
    BY <2>1, <2>2
<1>12. /\ stop = f + 1 /\ stop <= Len(conf.funcs) /\ i <= f => stop - i + 1 + (len - 1) > b.remain
       /\ stop = f + 1 /\ stop <= Len(conf.funcs) /\ ~(i <= f) => stop - i + 1 > b.remain
  <2> SUFFICES ASSUME stop = f + 1, stop <= Len(conf.funcs)
               PROVE  /\ i <= f => stop - i + 1 + (len - 1) > b.remain
                      /\ ~(i <= f) => stop - i + 1 > b.remain
    OBVIOUS
  <2>1. conf.funcs[stop] \in Copied
    BY <1>1 DEF FormatAt, Copied
  <2>2. LengthOf(i, stop, len) > b.remain
    BY <1>10, <2>1
  <2>3. CASE i <= f
    <3>1. f <= stop
      BY <1>1
    <3> QED
      BY <1>10, <2>2, <2>3, <3>1
  <2>4. CASE ~(i <= f)
    <3>1. stop - i + 1 + 0 = stop - i + 1
      OBVIOUS
    <3> QED
      BY <1>10, <2>2, <2>4, <3>1
  <2> QED
    BY <2>3, <2>4
<1>13. \/ len = 1 /\ room = 1 /\ Len(conf.funcs) + 3 <= max
       \/ f - 1 + len < max - 2 /\ room = len
       \/ ~(f - 1 + len < max - 2) /\ room = 0
  BY <1>1, <1>2, <1>3
<1>14. /\ i <= f /\ f < stop => room = len
       /\ stop <= Len(conf.funcs) /\ b.size = max => stop = f /\ room = 0
  <2> PICK n \in Nat : n = Len(conf.funcs)
    BY <1>1
  <2> PICK size \in Nat : size = b.size
    BY <1>7
  <2> PICK ptr \in Nat : ptr = b.ptr
    BY <1>7
  <2> PICK remain \in Int : remain = b.remain
    BY <1>7
  <2> PICK m \in Nat : m = max
    BY <1>1
  <2>0. len \in Nat
    BY <1>2
  <2>1. remain = size - 2 - ptr
    BY <1>7
  <2>2. size <= m
    OBVIOUS
  <2>3. n + 2 <= m
    BY <1>1
  <2>4. 1 <= f /\ (f = n \/ f + 1 = n) /\ stop <= n + 1
    BY <1>1
  <2>5. (f <= i - 1 => ptr = i - 1 + (room - 1)) /\ (~(f <= i - 1) => ptr = i - 1)
    BY <1>6
  <2>6. i <= f /\ f < stop => f - i + 1 + (len - 1) < remain
    BY <1>9
  <2>7. /\ stop <= n /\ i <= f /\ f <= stop => stop - i + 1 + (len - 1) >= remain
        /\ stop <= n /\ ~(i <= f /\ f <= stop) => stop - i + 1 >= remain
    BY <1>11
  <2>8. /\ stop = f + 1 /\ stop <= n /\ i <= f => stop - i + 1 + (len - 1) > remain
        /\ stop = f + 1 /\ stop <= n /\ ~(i <= f) => stop - i + 1 > remain
    BY <1>12
  <2>9. \/ len = 1 /\ room = 1 /\ n + 3 <= m
        \/ f - 1 + len < m - 2 /\ room = len
        \/ ~(f - 1 + len < m - 2) /\ room = 0
    BY <1>13
  <2>11. RoomNumbers(n, f, i, stop, len, room, size, m, ptr, remain)
    <3>1. n \in Nat /\ f \in Int /\ i \in Int /\ 1 <= i /\ stop \in Int /\ i <= stop /\ room \in Nat
          /\ size \in Nat /\ ptr \in Nat /\ remain \in Int /\ m \in Nat
      OBVIOUS
    <3> QED
      BY <2>0, <2>1, <2>2, <2>3, <2>4, <2>5, <2>6, <2>7, <2>8, <2>9, <3>1, Zenon DEF RoomNumbers
  <2>10. RoomEnough(n, f, i, stop, len, room, size, m)
    BY <2>11, RoomIsThere, Zenon
  <2> QED
    BY <2>10 DEF RoomEnough
<1> QED
  BY <1>3, <1>14

(* The line of a call, put together from its pieces. *)
Whole(p, msg, d) == FlattenSeq(Pieces(p, msg.id, 1, Len(conf.funcs) + 1, Room(msg), d))
Cut(line, text) == SubSeq(text, Len(line) + 1, Len(text))
WholeText(p, msg, line, text) ==
  IF ~msg.dump \/ Cut(line, text) = <<>> THEN text = line
  ELSE /\ SubSeq(text, 1, Len(line)) = line
       /\ Cut(line, text) = Append(Chars(p, msg.id, "dump", Len(Cut(line, text)) - 1, 0), <<msg.id, "newline", 0>>)
       /\ Len(Cut(line, text)) = msg.len \/ Len(text) >= BufSize - 2

(* The line that a call should have written is its pieces, all of them. *)
LEMMA LineIs ==
  ASSUME ConfOK, NEW entry, NEW d
  PROVE  Line(entry, d) = Whole(entry.proc, entry.msg, d)
<1> DEFINE len == Room(entry.msg)
           n == Len(conf.funcs)
           f == [k \in DOMAIN conf.funcs |->
                  Chars(entry.proc, entry.msg.id, conf.funcs[k], IF conf.funcs[k] = "format" THEN len ELSE 1, d)]
           h == [k \in 1 .. n + 1 - 1 |-> Piece(entry.proc, entry.msg.id, 1 + k - 1, len, d)]
<1>1. DOMAIN conf.funcs = 1 .. n /\ n \in Nat /\ n + 1 - 1 = n
  BY ConfFacts, LenProperties
<1>2. ASSUME NEW k \in 1 .. n PROVE f[k] = h[k]
  <2>1. 1 + k - 1 = k /\ k \in DOMAIN conf.funcs /\ k \in 1 .. n + 1 - 1
    BY <1>1
  <2>2. h[k] = Piece(entry.proc, entry.msg.id, k, len, d)
    BY <2>1, Zenon
  <2> QED
    BY <2>1, <2>2, Zenon DEF Piece
<1>3. f = h
  <2>1. f = [k \in 1 .. n |-> f[k]] /\ h = [k \in 1 .. n |-> h[k]]
    BY <1>1, Zenon
  <2> HIDE DEF f, h
  <2>2. [k \in 1 .. n |-> f[k]] = [k \in 1 .. n |-> h[k]]
    BY <1>2, Zenon
  <2> QED
    BY <2>1, <2>2
<1>4. Line(entry, d) = FlattenSeq(f)
  <2>1. len = IF entry.msg.dump THEN 1
              ELSE IF Cardinality({k \in DOMAIN conf.funcs : conf.funcs[k] \notin {"format", "newline"}}) + entry.msg.len
                        < (IF entry.msg.dump THEN MaxSize ELSE conf.max) - 2
                   THEN entry.msg.len ELSE 0
    BY DEF Room
  <2> HIDE DEF len
  <2> QED
    BY <2>1, Zenon DEF Line
<1>5. h = Pieces(entry.proc, entry.msg.id, 1, n + 1, len, d)
  BY DEF Pieces
<1> QED
  BY <1>3, <1>4, <1>5 DEF Whole

(* An entry is whole if its text is. *)
LEMMA WholeIs ==
  ASSUME ConfOK, NEW entry, NEW d, entry.msg.dump \in BOOLEAN
  PROVE  IsWhole(entry, d) <=> WholeText(entry.proc, entry.msg, Whole(entry.proc, entry.msg, d), entry.text)
<1>1. Line(entry, d) = Whole(entry.proc, entry.msg, d)
  BY LineIs
<1> QED
  BY <1>1 DEF IsWhole, WholeText, Cut

(* How long a sequence is shows in its domain. *)
LEMMA LengthFromDomain ==
  ASSUME NEW S, NEW s \in Seq(S), NEW n \in Nat, DOMAIN s = 1 .. n
  PROVE  Len(s) = n
BY LenProperties

\* Pieces, so many of them; and a piece.
Lined(s, n) == s \in Seq(Seq(Char)) /\ Len(s) = n
Spelled(s, n) == s \in Seq(Char) /\ Len(s) = n

(* The pieces from one to another are as many as there are functions. *)
LEMMA PiecesShape ==
  ASSUME ConfOK, NEW p \in Nat, NEW id \in Nat, NEW from \in Int, NEW to \in Int,
         1 <= from, from <= to, to <= Len(conf.funcs) + 1, NEW len \in Nat, NEW d \in Nat
  PROVE  Lined(Pieces(p, id, from, to, len, d), to - from)
<1>1. from \in Nat \ {0} /\ to \in from .. Len(conf.funcs) + 1
  BY ConfFacts
<1>2. Pieces(p, id, from, to, len, d) \in Seq(Seq(Char))
  BY <1>1, PiecesType, Zenon
<1> PICK n \in Nat : n = to - from
  BY ConfFacts
<1>3. DOMAIN Pieces(p, id, from, to, len, d) = 1 .. n
  BY DEF Pieces
<1>4. Len(Pieces(p, id, from, to, len, d)) = n
  BY <1>2, <1>3, LengthFromDomain, Zenon
<1> QED
  BY <1>2, <1>4 DEF Lined

(* A text of n characters has n characters. *)
LEMMA CharsShape ==
  ASSUME NEW p \in Nat, NEW id \in Nat, NEW piece \in Parts, NEW n \in Nat, NEW date \in Nat
  PROVE  Spelled(Chars(p, id, piece, n, date), n)
BY CharsType DEF Spelled

(* FORMAT is as long as the message, other pieces are one character. *)
LEMMA PieceShape ==
  ASSUME ConfOK, NEW p \in Nat, NEW id \in Nat, NEW k \in Int, 1 <= k, k <= Len(conf.funcs), NEW len \in Nat, NEW d \in Nat,
         NEW n \in Nat, conf.funcs[k] = "format" => n = len, conf.funcs[k] # "format" => n = 1
  PROVE  Spelled(Piece(p, id, k, len, d), n)
<1>1. k \in 1 .. Len(conf.funcs)
  BY ConfFacts
<1> PICK piece \in Parts : piece = conf.funcs[k]
  BY <1>1, ConfFacts
<1>2. Chars(p, id, piece, n, d) \in Seq(Char) /\ Len(Chars(p, id, piece, n, d)) = n
  BY CharsType
<1>3. (IF piece = "format" THEN len ELSE 1) = n
  OBVIOUS
<1>4. Piece(p, id, k, len, d) = Chars(p, id, piece, n, d)
  BY <1>3 DEF Piece
<1> QED
  BY <1>2, <1>4 DEF Spelled

(* Pieces do not depend on what none of them has. *)
LEMMA PiecesSame ==
  ASSUME ConfOK, NEW p, NEW id, NEW from \in Int, NEW to \in Int,
         1 <= from, from <= to, to <= Len(conf.funcs) + 1, NEW f \in Int, FormatAt(f), NEW len, NEW room, from <= f /\ f < to => len = room,
         NEW d, NEW e, "date" \in ToSet(conf.funcs) => d = e
  PROVE  Pieces(p, id, from, to, len, d) = Pieces(p, id, from, to, room, e)
<1>1. Len(conf.funcs) \in Nat /\ DOMAIN conf.funcs = 1 .. Len(conf.funcs)
  BY ConfFacts, LenProperties
<1>2. ASSUME NEW k \in 1 .. to - from
      PROVE  Piece(p, id, from + k - 1, len, d) = Piece(p, id, from + k - 1, room, e)
  <2> PICK j : j = from + k - 1
    OBVIOUS
  <2>1. j \in 1 .. Len(conf.funcs) /\ j \in from .. to - 1
    BY <1>1, <1>2
  <2>2. conf.funcs[j] = "date" => d = e
    <3>1. conf.funcs[j] \in ToSet(conf.funcs)
      BY <1>1, <2>1 DEF ToSet
    <3> QED
      BY <3>1
  <2>3. conf.funcs[j] = "format" => len = room
    <3>1. conf.funcs[j] = "format" => j = f
      BY <2>1 DEF FormatAt
    <3> QED
      BY <1>1, <2>1, <3>1
  <2>4. Piece(p, id, j, len, d) = Piece(p, id, j, room, e)
    <3> PICK piece : piece = conf.funcs[j]
      OBVIOUS
    <3> PICK n : n = (IF piece = "format" THEN len ELSE 1)
      OBVIOUS
    <3>1. n = (IF piece = "format" THEN room ELSE 1)
      BY <2>3
    <3>2. Chars(p, id, piece, n, d) = Chars(p, id, piece, n, e)
      BY <2>2 DEF Chars
    <3>3. Piece(p, id, j, len, d) = Chars(p, id, piece, n, d) /\ Piece(p, id, j, room, e) = Chars(p, id, piece, n, e)
      BY <3>1 DEF Piece
    <3> QED
      BY <3>2, <3>3
  <2> QED
    BY <2>4
<1> QED
  BY <1>2, Zenon DEF Pieces

\* One piece more.
OneMore(r, s, m) == r = Append(s, m)

(* One function more puts one piece more. *)
LEMMA PiecesAppend ==
  ASSUME ConfOK, NEW p \in Nat, NEW id \in Nat, NEW from \in Int, NEW to \in Int,
         1 <= from, from <= to, to <= Len(conf.funcs), NEW len \in Nat, NEW d \in Nat
  PROVE  OneMore(Pieces(p, id, from, to + 1, len, d), Pieces(p, id, from, to, len, d), Piece(p, id, to, len, d))
<1>1. Len(conf.funcs) \in Nat /\ to \in 1 .. Len(conf.funcs) /\ from \in Nat \ {0}
  BY ConfFacts
<1>2. PICK s \in Seq(Seq(Char)) : s = Pieces(p, id, from, to, len, d) /\ Len(s) = to - from
  <2>1. to <= Len(conf.funcs) + 1
    BY <1>1
  <2>2. Lined(Pieces(p, id, from, to, len, d), to - from)
    BY <2>1, PiecesShape
  <2> QED
    BY <2>2 DEF Lined
<1>3. PICK r \in Seq(Seq(Char)) : r = Pieces(p, id, from, to + 1, len, d) /\ Len(r) = to + 1 - from
  <2> PICK next \in Int : next = to + 1
    OBVIOUS
  <2>1. from <= next /\ next <= Len(conf.funcs) + 1
    BY <1>1
  <2>2. Lined(Pieces(p, id, from, next, len, d), next - from)
    BY <2>1, PiecesShape
  <2> QED
    BY <2>2 DEF Lined
<1>4. PICK m \in Seq(Char) : m = Piece(p, id, to, len, d)
  BY <1>1, PieceType
<1>5. PICK w \in Seq(Seq(Char)) :
        /\ w = Append(s, m) /\ Len(w) = Len(s) + 1 /\ w[Len(s) + 1] = m
        /\ \A k \in 1 .. Len(s) : w[k] = s[k]
  <2>1. /\ Append(s, m) \in Seq(Seq(Char)) /\ Len(Append(s, m)) = Len(s) + 1 /\ Append(s, m)[Len(s) + 1] = m
        /\ \A k \in 1 .. Len(s) : Append(s, m)[k] = s[k]
    BY AppendProperties
  <2> QED
    BY <2>1
<1>6. ASSUME NEW k \in 1 .. Len(r) PROVE r[k] = w[k]
  <2>1. k \in Int /\ 1 <= k /\ k <= to + 1 - from
    BY <1>3
  <2>2. k \in 1 .. to + 1 - from
    BY <2>1
  <2>3. r[k] = Piece(p, id, from + k - 1, len, d)
    BY <1>3, <2>2 DEF Pieces
  <2>4. CASE k <= to - from
    <3>1. k \in 1 .. to - from
      BY <2>1, <2>4
    <3>2. s[k] = Piece(p, id, from + k - 1, len, d)
      BY <1>2, <3>1 DEF Pieces
    <3>3. w[k] = s[k]
      BY <1>2, <1>5, <3>1
    <3> QED
      BY <2>3, <3>2, <3>3
  <2>5. CASE ~(k <= to - from)
    <3>1. k = to - from + 1
      BY <2>1, <2>5
    <3>2. from + k - 1 = to
      BY <3>1
    <3>3. w[k] = m
      BY <1>2, <1>5, <3>1
    <3> QED
      BY <1>4, <2>3, <3>2, <3>3
  <2> QED
    BY <2>4, <2>5
<1>7. Len(w) = Len(r)
  BY <1>2, <1>3, <1>5
<1>8. r = w
  BY <1>6, <1>7, SeqEqual
<1> QED
  BY <1>2, <1>3, <1>4, <1>5, <1>8 DEF OneMore

\* One sequence behind another.
Joined(r, s, m) == r = s \o m

(* Pieces up to i and those from i on are all of them. *)
LEMMA PiecesConcat ==
  ASSUME ConfOK, NEW p \in Nat, NEW id \in Nat, NEW i \in Int, 1 <= i, NEW stop \in Int, i <= stop,
         stop <= Len(conf.funcs) + 1, NEW len \in Nat, NEW d \in Nat
  PROVE  Joined(Pieces(p, id, 1, stop, len, d), Pieces(p, id, 1, i, len, d), Pieces(p, id, i, stop, len, d))
<1>1. Len(conf.funcs) \in Nat
  BY ConfFacts
<1>2. PICK s \in Seq(Seq(Char)) : s = Pieces(p, id, 1, i, len, d) /\ Len(s) = i - 1
  <2>1. 1 \in Int /\ 1 <= 1 /\ i <= Len(conf.funcs) + 1
    BY <1>1
  <2>2. Lined(Pieces(p, id, 1, i, len, d), i - 1)
    BY <2>1, PiecesShape
  <2> QED
    BY <2>2 DEF Lined
<1>3. PICK m \in Seq(Seq(Char)) : m = Pieces(p, id, i, stop, len, d) /\ Len(m) = stop - i
  <2>1. Lined(Pieces(p, id, i, stop, len, d), stop - i)
    BY PiecesShape
  <2> QED
    BY <2>1 DEF Lined
<1>4. PICK r \in Seq(Seq(Char)) : r = Pieces(p, id, 1, stop, len, d) /\ Len(r) = stop - 1
  <2>1. 1 \in Int /\ 1 <= 1 /\ 1 <= stop
    BY <1>1
  <2>2. Lined(Pieces(p, id, 1, stop, len, d), stop - 1)
    BY <2>1, PiecesShape
  <2> QED
    BY <2>2 DEF Lined
<1>5. PICK w \in Seq(Seq(Char)) :
        /\ w = s \o m /\ Len(w) = Len(s) + Len(m)
        /\ \A k \in 1 .. Len(s) + Len(m) : w[k] = IF k <= Len(s) THEN s[k] ELSE m[k - Len(s)]
  <2>1. /\ s \o m \in Seq(Seq(Char)) /\ Len(s \o m) = Len(s) + Len(m)
        /\ \A k \in 1 .. Len(s) + Len(m) : (s \o m)[k] = IF k <= Len(s) THEN s[k] ELSE m[k - Len(s)]
    BY ConcatProperties
  <2> QED
    BY <2>1
<1>6. ASSUME NEW k \in 1 .. Len(r) PROVE r[k] = w[k]
  <2>1. k \in Int /\ 1 <= k /\ k <= stop - 1
    BY <1>4
  <2>2. k \in 1 .. stop - 1
    BY <2>1
  <2>3. r[k] = Piece(p, id, 1 + k - 1, len, d)
    BY <1>4, <2>2 DEF Pieces
  <2>4. w[k] = IF k <= i - 1 THEN s[k] ELSE m[k - (i - 1)]
    <3>1. k \in 1 .. (i - 1) + (stop - i)
      BY <2>1
    <3> QED
      BY <1>2, <1>3, <1>5, <3>1
  <2>5. CASE k <= i - 1
    <3>1. k \in 1 .. i - 1
      BY <2>1, <2>5
    <3>2. s[k] = Piece(p, id, 1 + k - 1, len, d)
      BY <1>2, <3>1 DEF Pieces
    <3> QED
      BY <2>3, <2>4, <2>5, <3>2
  <2>6. CASE ~(k <= i - 1)
    <3> PICK j \in Int : j = k - (i - 1)
      BY <2>1
    <3>1. j \in 1 .. stop - i
      BY <2>1, <2>6
    <3>2. m[j] = Piece(p, id, i + j - 1, len, d)
      BY <1>3, <3>1 DEF Pieces
    <3>3. i + j - 1 = 1 + k - 1
      BY <2>1
    <3> QED
      BY <2>3, <2>4, <2>6, <3>2, <3>3
  <2> QED
    BY <2>5, <2>6
<1>7. Len(w) = Len(r)
  BY <1>2, <1>3, <1>4, <1>5
<1>8. r = w
  BY <1>6, <1>7, SeqEqual
<1> QED
  BY <1>2, <1>3, <1>4, <1>5, <1>8 DEF Joined

(* From a function up to itself there are none. *)
LEMMA NoPieces ==
  ASSUME ConfOK, NEW p \in Nat, NEW id \in Nat, NEW i \in Int, 1 <= i, i <= Len(conf.funcs) + 1,
         NEW len \in Nat, NEW d \in Nat
  PROVE  Pieces(p, id, i, i, len, d) = <<>> /\ FlattenSeq(Pieces(p, id, i, i, len, d)) = <<>>
<1>1. PICK s \in Seq(Seq(Char)) : s = Pieces(p, id, i, i, len, d) /\ Len(s) = i - i
  <2>1. i <= i
    OBVIOUS
  <2>2. Lined(Pieces(p, id, i, i, len, d), i - i)
    BY <2>1, PiecesShape
  <2> QED
    BY <2>2 DEF Lined
<1>2. Len(s) = 0
  BY <1>1
<1>3. s = <<>>
  BY <1>2, EmptySeq
<1>4. FlattenSeq(s) = <<>>
  BY <1>2, <1>3 DEF FlattenSeq
<1> QED
  BY <1>1, <1>3, <1>4

(* The pieces put together are as long as the counters say. *)
LEMMA PiecesLength ==
  ASSUME ConfOK, NEW p \in Nat, NEW id \in Nat, NEW from \in Int, 1 <= from, NEW f \in Int, FormatAt(f),
         NEW len \in Nat, NEW d \in Nat, NEW to \in Int, from <= to, to <= Len(conf.funcs) + 1
  PROVE  Spelled(FlattenSeq(Pieces(p, id, from, to, len, d)), Reach(from, to - 1, f, len))
<1> DEFINE Flat(j) == FlattenSeq(Pieces(p, id, from, j, len, d))
           T == {j \in from .. Len(conf.funcs) + 1 : Len(Flat(j)) # Reach(from, j - 1, f, len)}
<1>1. Len(conf.funcs) \in Nat /\ 1 <= f /\ f <= Len(conf.funcs)
  BY ConfFacts DEF FormatAt
<1>2. ASSUME NEW j \in Int, from <= j, j <= Len(conf.funcs) + 1 PROVE Flat(j) \in Seq(Char)
  <2>1. Lined(Pieces(p, id, from, j, len, d), j - from)
    BY <1>2, PiecesShape
  <2>2. Pieces(p, id, from, j, len, d) \in Seq(Seq(Char))
    BY <2>1 DEF Lined
  <2> QED
    BY <2>2, FlattenIsSeq
<1>3. ASSUME T # {} PROVE FALSE
  <2>1. T \subseteq Nat
    BY <1>1
  <2>2. PICK j \in T : \A k \in T : j <= k
    <3> HIDE DEF T
    <3> QED
      BY <1>3, <2>1, LeastNat
  <2>3. j \in Int /\ from <= j /\ j <= Len(conf.funcs) + 1 /\ Len(Flat(j)) # Reach(from, j - 1, f, len)
    BY <1>1
  <2>4. CASE j = from
    <3>1. Flat(from) = <<>>
      <4>1. from <= Len(conf.funcs) + 1
        BY <2>3, <2>4
      <4> QED
        BY <4>1, NoPieces
    <3>2. Len(Flat(from)) = 0
      BY <3>1
    <3>3. Reach(from, from - 1, f, len) = 0
      BY DEF Reach
    <3> QED
      BY <2>3, <2>4, <3>2, <3>3
  <2>5. CASE j # from
    <3> PICK k \in Int : k = j - 1
      BY <2>3
    <3>1. from <= k /\ k <= Len(conf.funcs) /\ j = k + 1 /\ k \in from .. Len(conf.funcs) + 1
      BY <1>1, <2>3, <2>5
    <3>2. Len(Flat(k)) = Reach(from, k - 1, f, len)
      <4>1. k \notin T
        BY <2>2, <2>3, <3>1
      <4> QED
        BY <3>1, <4>1
    <3>0. k \in 1 .. Len(conf.funcs) /\ k <= Len(conf.funcs) + 1
      BY <1>1, <3>1
    <3>3. Pieces(p, id, from, k + 1, len, d) = Append(Pieces(p, id, from, k, len, d), Piece(p, id, k, len, d))
      <4>1. OneMore(Pieces(p, id, from, k + 1, len, d), Pieces(p, id, from, k, len, d), Piece(p, id, k, len, d))
        BY <3>1, PiecesAppend
      <4> QED
        BY <4>1 DEF OneMore
    <3> PICK s \in Seq(Seq(Char)) : s = Pieces(p, id, from, k, len, d)
      <4>1. Pieces(p, id, from, k, len, d) \in Seq(Seq(Char))
        <5>1. Lined(Pieces(p, id, from, k, len, d), k - from)
          BY <3>0, <3>1, PiecesShape
        <5> QED
          BY <5>1 DEF Lined
      <4> QED
        BY <4>1
    <3>4. PICK m \in Seq(Char) : m = Piece(p, id, k, len, d) /\ Len(m) = IF conf.funcs[k] = "format" THEN len ELSE 1
      <4> PICK n \in Nat : n = IF conf.funcs[k] = "format" THEN len ELSE 1
        OBVIOUS
      <4>0. 1 <= k /\ k <= Len(conf.funcs) /\ (conf.funcs[k] = "format" => n = len) /\ (conf.funcs[k] # "format" => n = 1)
        BY <1>1, <3>1
      <4>1. Spelled(Piece(p, id, k, len, d), n)
        BY <4>0, PieceShape
      <4> QED
        BY <4>1 DEF Spelled
    <3>5. Flat(k + 1) = Flat(k) \o m
      BY <3>3, <3>4, FlattenAppend
    <3> PICK u \in Seq(Char) : u = Flat(k)
      BY <1>1, <1>2, <3>1
    <3>6. Len(u \o m) = Len(u) + Len(m)
      BY ConcatProperties
    <3>7. Len(Flat(j)) = Reach(from, k - 1, f, len) + (IF conf.funcs[k] = "format" THEN len ELSE 1)
      BY <3>1, <3>2, <3>4, <3>5, <3>6
    <3>8. conf.funcs[k] = "format" <=> k = f
      BY <3>0 DEF FormatAt
    <3>9. Reach(from, k - 1, f, len) + (IF k = f THEN len ELSE 1) = Reach(from, k, f, len)
      BY <1>1, <3>1, SMTT(30) DEF Reach
    <3> QED
      BY <2>3, <3>7, <3>8, <3>9
  <2> QED
    BY <2>4, <2>5
<1>4. to \in from .. Len(conf.funcs) + 1
  BY <1>1
<1>5. Len(Flat(to)) = Reach(from, to - 1, f, len)
  BY <1>3, <1>4
<1> QED
  BY <1>2, <1>5 DEF Spelled

\* A buffer has the pieces before i in it.
HasPieces(b, p, id, i, room, d) == SubSeq(b.text, 1, b.ptr) = FlattenSeq(Pieces(p, id, 1, i, room, d))

(* So are their lengths. *)
LEMMA LengthsAdd ==
  ASSUME ConfOK, NEW f \in Int, FormatAt(f), NEW i \in Int, 1 <= i, NEW stop \in Int, i <= stop,
         stop <= Len(conf.funcs) + 1, NEW room \in Nat
  PROVE  LengthOf(1, stop - 1, room) = LengthOf(1, i - 1, room) + Reach(i, stop - 1, f, room)
<1>1. Len(conf.funcs) \in Nat /\ 1 <= f
  BY ConfFacts DEF FormatAt
<1>2. ASSUME NEW k \in Int, 0 <= k, k <= Len(conf.funcs) PROVE LengthOf(1, k, room) = Reach(1, k, f, room)
  <2>1. 1 \in Int /\ 1 <= 1 /\ 1 <= Len(conf.funcs) + 1 /\ room \in Int
    BY <1>1
  <2> QED
    BY <1>2, <2>1, LengthIs
<1> PICK k \in Int : k = stop - 1
  OBVIOUS
<1> PICK j \in Int : j = i - 1
  OBVIOUS
<1>3. 0 <= k /\ k <= Len(conf.funcs) /\ 0 <= j /\ j <= Len(conf.funcs)
  BY <1>1
<1>4. LengthOf(1, k, room) = Reach(1, k, f, room) /\ LengthOf(1, j, room) = Reach(1, j, f, room)
  BY <1>2, <1>3
<1>5. Reach(1, k, f, room) = Reach(1, j, f, room) + Reach(i, k, f, room)
  BY <1>1 DEF Reach
<1> QED
  BY <1>4, <1>5

\* A buffer that has more of a line than b: so far up to stop.
Longer(b, c, f, i, stop, room) ==
  /\ c \in BufType /\ InOrder(c) /\ c.size = b.size
  /\ c.ptr = b.ptr + Reach(i, stop - 1, f, room) /\ c.remain = b.remain - Reach(i, stop - 1, f, room)

(* The pieces from i to stop go behind those that are there. *)
LEMMA StyledHas ==
  ASSUME ConfOK, NEW p \in Nat, NEW id \in Nat, NEW b \in BufType, InOrder(b), NEW f \in Int, FormatAt(f),
         NEW i \in Int, 1 <= i, NEW stop \in Int, i <= stop, stop <= Len(conf.funcs) + 1,
         NEW len \in Nat, NEW room \in Nat, i <= f /\ f < stop => len = room,
         NEW date \in Nat, NEW d \in Nat, "date" \in ToSet(conf.funcs) => date = d,
         HasPieces(b, p, id, i, room, d),
         NEW c, c = Put(b, FlattenSeq(Pieces(p, id, i, stop, len, date)))
  PROVE  HasPieces(c, p, id, stop, room, d) /\ Longer(b, c, f, i, stop, room)
<1>1. Len(conf.funcs) \in Nat
  BY ConfFacts
<1>2. Pieces(p, id, i, stop, len, date) = Pieces(p, id, i, stop, room, d)
  BY PiecesSame
<1>3. PICK m \in Seq(Seq(Char)) : m = Pieces(p, id, i, stop, room, d)
  <2>1. Lined(Pieces(p, id, i, stop, room, d), stop - i)
    BY PiecesShape
  <2> QED
    BY <2>1 DEF Lined
<1>4. PICK s \in Seq(Seq(Char)) : s = Pieces(p, id, 1, i, room, d)
  <2>1. 1 \in Int /\ 1 <= 1 /\ i <= Len(conf.funcs) + 1
    BY <1>1
  <2>2. Lined(Pieces(p, id, 1, i, room, d), i - 1)
    BY <2>1, PiecesShape
  <2> QED
    BY <2>2 DEF Lined
<1>5. PICK x \in Seq(Char) : x = FlattenSeq(m) /\ Len(x) = Reach(i, stop - 1, f, room)
  <2>1. Spelled(FlattenSeq(Pieces(p, id, i, stop, room, d)), Reach(i, stop - 1, f, room))
    BY PiecesLength
  <2> QED
    BY <1>3, <2>1 DEF Spelled
<1>6. c = Put(b, x)
  BY <1>2, <1>3, <1>5
<1>7. /\ c \in BufType /\ InOrder(c) /\ c.size = b.size /\ c.ptr = b.ptr + Len(x) /\ c.remain = b.remain - Len(x)
      /\ SubSeq(c.text, 1, c.ptr) = SubSeq(b.text, 1, b.ptr) \o x
  <2>1. LET e == Put(b, x)
        IN /\ e \in BufType /\ InOrder(e)
           /\ e.size = b.size /\ e.ptr = b.ptr + Len(x) /\ e.remain = b.remain - Len(x)
           /\ SubSeq(e.text, 1, e.ptr) = SubSeq(b.text, 1, b.ptr) \o x
    BY PutCorrect
  <2> QED
    BY <1>6, <2>1
<1>8. SubSeq(c.text, 1, c.ptr) = FlattenSeq(s \o m)
  <2>1. FlattenSeq(s \o m) = FlattenSeq(s) \o FlattenSeq(m)
    BY FlattenConcat
  <2>2. SubSeq(b.text, 1, b.ptr) = FlattenSeq(s)
    BY <1>4 DEF HasPieces
  <2> QED
    BY <1>5, <1>7, <2>1, <2>2
<1>9. Pieces(p, id, 1, stop, room, d) = s \o m
  <2>1. Joined(Pieces(p, id, 1, stop, room, d), Pieces(p, id, 1, i, room, d), Pieces(p, id, i, stop, room, d))
    BY PiecesConcat
  <2> QED
    BY <1>3, <1>4, <2>1 DEF Joined
<1> QED
  BY <1>5, <1>7, <1>8, <1>9 DEF HasPieces, Longer

\* A line ends with the newline of its message.
EndsLine(line, id) == line \in Seq(Char) /\ Len(line) > 0 /\ line[Len(line)] = <<id, "newline", 0>>

(* A line that has a newline ends with it. *)
LEMMA LineEnds ==
  ASSUME ConfOK, NEW p \in Nat, NEW id \in Nat, NEW f \in Int, FormatAt(f), f + 1 = Len(conf.funcs),
         NEW room \in Nat, NEW d \in Nat, NEW x, x = FlattenSeq(Pieces(p, id, 1, Len(conf.funcs) + 1, room, d))
  PROVE  EndsLine(x, id)
<1> PICK n \in Int : n = Len(conf.funcs)
  BY ConfFacts
<1>1. 1 <= n /\ conf.funcs[n] = "newline"
  BY ConfFacts DEF FormatAt
<1>2. PICK s \in Seq(Seq(Char)) : s = Pieces(p, id, 1, n, room, d)
  <2>1. 1 \in Int /\ 1 <= 1 /\ n <= Len(conf.funcs) + 1
    BY <1>1
  <2>2. Lined(Pieces(p, id, 1, n, room, d), n - 1)
    BY <1>1, <2>1, PiecesShape
  <2> QED
    BY <2>2 DEF Lined
<1>3. PICK m \in Seq(Char) : m = Piece(p, id, n, room, d) /\ Len(m) = 1
  <2> PICK one \in Nat : one = 1
    OBVIOUS
  <2>1. Spelled(Piece(p, id, n, room, d), one)
    <3>1. n <= Len(conf.funcs) /\ conf.funcs[n] # "format" /\ (conf.funcs[n] = "format" => one = room)
      BY <1>1
    <3> QED
      BY <1>1, <3>1, PieceShape
  <2> QED
    BY <2>1 DEF Spelled
<1>4. m[1] = <<id, "newline", 0>>
  <2>1. m = Chars(p, id, "newline", 1, d)
    BY <1>1, <1>3 DEF Piece
  <2> QED
    BY <2>1 DEF Chars
<1>5. FlattenSeq(Pieces(p, id, 1, n + 1, room, d)) = FlattenSeq(s) \o m
  <2>1. OneMore(Pieces(p, id, 1, n + 1, room, d), Pieces(p, id, 1, n, room, d), Piece(p, id, n, room, d))
    <3>1. 1 \in Int /\ 1 <= 1 /\ n <= Len(conf.funcs)
      OBVIOUS
    <3> QED
      BY <1>1, <3>1, PiecesAppend
  <2>2. FlattenSeq(Append(s, m)) = FlattenSeq(s) \o m
    BY FlattenAppend
  <2> QED
    BY <1>2, <1>3, <2>1, <2>2 DEF OneMore
<1> PICK u \in Seq(Char) : u = FlattenSeq(s)
  BY FlattenIsSeq
<1>6. x = u \o m
  BY <1>5
<1>7. /\ u \o m \in Seq(Char) /\ Len(u \o m) = Len(u) + Len(m) /\ Len(u) \in Nat
      /\ \A k \in 1 .. Len(u) + Len(m) : (u \o m)[k] = IF k <= Len(u) THEN u[k] ELSE m[k - Len(u)]
  BY ConcatProperties, LenProperties
<1>8. (u \o m)[Len(u) + 1] = m[1]
  <2>1. Len(u) + 1 \in 1 .. Len(u) + Len(m) /\ ~(Len(u) + 1 <= Len(u)) /\ Len(u) + 1 - Len(u) = 1
    BY <1>3, <1>7
  <2> QED
    BY <1>7, <2>1
<1>9. Len(x) = Len(u) + 1 /\ x[Len(u) + 1] = <<id, "newline", 0>>
  BY <1>3, <1>4, <1>6, <1>7, <1>8
<1>10. x \in Seq(Char)
  BY <1>6, <1>7
<1>11. Len(x) > 0
  <2> PICK a \in Nat : a = Len(u)
    BY <1>7
  <2>1. Len(x) = a + 1
    BY <1>9
  <2> QED
    BY <2>1
<1> QED
  BY <1>9, <1>10, <1>11 DEF EndsLine

\* So much is behind a line: dc over and over, and nl at the end.
Behind(line, x, z, n, nl, dc) ==
  /\ n = 0 => x = line /\ Cut(line, x) = <<>>
  /\ n # 0 => /\ SubSeq(x, 1, z) = line /\ Cut(line, x) \in Seq(Char) /\ Len(Cut(line, x)) = n
              /\ Cut(line, x) # <<>>
              /\ \A s \in Seq(Char) : Len(s) = n - 1 /\ (\A k \in 1 .. n - 1 : s[k] = dc) =>
                   Cut(line, x) = Append(s, nl)
Covered(line, x, z, n, nl, dc) ==
  \A k \in 1 .. z + n : x[k] = IF k = z + n THEN nl ELSE IF k <= z THEN line[k] ELSE dc

(* What is behind a line when a sequence is longer than it. *)
LEMMA CutIs ==
  ASSUME NEW line \in Seq(Char), NEW x \in Seq(Char), NEW n \in Int, 0 <= n, NEW z \in Int, 0 <= z,
         z = Len(line), Len(x) = z + n, NEW nl \in Char, NEW dc \in Char,
         Covered(line, x, z, n, nl, dc),
         n = 0 => z > 0 /\ line[z] = nl
  PROVE  Behind(line, x, z, n, nl, dc)
<1>0. \A k \in 1 .. z + n : x[k] = IF k = z + n THEN nl ELSE IF k <= z THEN line[k] ELSE dc
  BY DEF Covered
<1> PICK from \in Int : from = z + 1
  OBVIOUS
<1> PICK to \in Int : to = z + n
  OBVIOUS
<1>1. PICK cut \in Seq(Char) : cut = Cut(line, x) /\ Len(cut) = n /\ \A k \in 1 .. n : cut[k] = x[z + k]
  <2>1. from \in 1 .. Len(x) + 1 /\ to \in from - 1 .. Len(x)
    OBVIOUS
  <2>2. /\ SubSeq(x, from, to) \in Seq(Char)
        /\ Len(SubSeq(x, from, to)) = to - from + 1
        /\ \A k \in 1 .. to - from + 1 : SubSeq(x, from, to)[k] = x[from + k - 1]
    BY <2>1, SubSeqProperties
  <2>3. to - from + 1 = n
    OBVIOUS
  <2>5. Cut(line, x) = SubSeq(x, from, to)
    BY DEF Cut
  <2> PICK e \in Seq(Char) : e = SubSeq(x, from, to)
    BY <2>2
  <2>4. ASSUME NEW k \in 1 .. n PROVE e[k] = x[z + k]
    <3>1. k \in 1 .. to - from + 1
      BY <2>3, <2>4
    <3>2. e[k] = x[from + k - 1]
      BY <2>2, <3>1
    <3>3. from + k - 1 = z + k
      OBVIOUS
    <3> QED
      BY <3>2, <3>3
  <2>6. Len(e) = n
    BY <2>2, <2>3
  <2> QED
    BY <2>4, <2>5, <2>6
<1>2. ASSUME n = 0 PROVE x = line /\ Cut(line, x) = <<>>
  <2>1. ASSUME NEW k \in 1 .. Len(x) PROVE x[k] = line[k]
    <3>1. k \in 1 .. z + n /\ k \in Int /\ k <= z
      BY <1>2
    <3>2. x[k] = IF k = z THEN nl ELSE IF k <= z THEN line[k] ELSE dc
      BY <1>0, <1>2, <3>1
    <3> QED
      BY <1>2, <3>1, <3>2
  <2>2. Len(x) = Len(line)
    BY <1>2
  <2>3. x = line
    BY <2>1, <2>2, SeqEqual
  <2>4. cut = <<>>
    BY <1>1, <1>2, EmptySeq
  <2> QED
    BY <1>1, <2>3, <2>4
<1>3. ASSUME n # 0 PROVE SubSeq(x, 1, z) = line
  <2>1. SubSeq(x, 1, z) \in Seq(Char) /\ Len(SubSeq(x, 1, z)) = z /\ \A k \in 1 .. z : SubSeq(x, 1, z)[k] = x[k]
    <3>1. 1 \in 1 .. Len(x) + 1 /\ z \in 1 - 1 .. Len(x)
      OBVIOUS
    <3>2. /\ SubSeq(x, 1, z) \in Seq(Char) /\ Len(SubSeq(x, 1, z)) = z - 1 + 1
          /\ \A k \in 1 .. z - 1 + 1 : SubSeq(x, 1, z)[k] = x[1 + k - 1]
      BY <3>1, SubSeqProperties
    <3>3. z - 1 + 1 = z /\ \A k \in 1 .. z : 1 + k - 1 = k
      OBVIOUS
    <3> QED
      BY <3>2, <3>3
  <2>2. ASSUME NEW k \in 1 .. z PROVE SubSeq(x, 1, z)[k] = line[k]
    <3>1. k \in 1 .. z + n /\ k <= z /\ k # z + n
      BY <1>3
    <3>2. x[k] = line[k]
      BY <1>0, <3>1
    <3> QED
      BY <2>1, <3>2
  <2> QED
    BY <2>1, <2>2, SeqEqual
<1>4. ASSUME n # 0, NEW s \in Seq(Char), Len(s) = n - 1, \A k \in 1 .. n - 1 : s[k] = dc
      PROVE  cut = Append(s, nl)
  <2>1. PICK a \in Seq(Char) : a = Append(s, nl) /\ Len(a) = n /\ a[n] = nl /\ \A k \in 1 .. n - 1 : a[k] = dc
    <3>1. /\ Append(s, nl) \in Seq(Char) /\ Len(Append(s, nl)) = Len(s) + 1
          /\ Append(s, nl)[Len(s) + 1] = nl /\ \A k \in 1 .. Len(s) : Append(s, nl)[k] = s[k]
      BY AppendProperties
    <3>2. Len(s) + 1 = n
      BY <1>4
    <3> QED
      BY <1>4, <3>1, <3>2
  <2>2. ASSUME NEW k \in 1 .. Len(cut) PROVE cut[k] = a[k]
    <3>1. k \in 1 .. n
      BY <1>1
    <3> PICK l \in Int : l = z + k
      BY <3>1
    <3>2. cut[k] = x[l]
      BY <1>1, <3>1
    <3>3. l \in 1 .. z + n /\ ~(l <= z) /\ (l = z + n <=> k = n)
      BY <3>1
    <3>4. x[l] = IF k = n THEN nl ELSE dc
      BY <1>0, <3>3
    <3>5. k # n => k \in 1 .. n - 1
      BY <3>1
    <3> QED
      BY <2>1, <3>2, <3>4, <3>5
  <2>3. Len(cut) = Len(a)
    BY <1>1, <2>1
  <2>4. cut = a
    BY <2>2, <2>3, SeqEqual
  <2> QED
    BY <2>1, <2>4
<1>5. n # 0 => cut # <<>>
  BY <1>1, EmptySeq
<1> QED
  BY <1>1, <1>2, <1>3, <1>4, <1>5 DEF Behind

\* So long is a buffer with a dump.
DumpSize(b, p, msg) ==
  /\ Dumped(b, p, msg).ptr = b.ptr + Len(Shown(b, p, msg))
  /\ Len(Dumped(b, p, msg).text) = Len(Put(b, Shown(b, p, msg)).text)

(* A dump makes the text longer by what is shown of it. *)
LEMMA DumpedGrows ==
  ASSUME NEW b \in BufType, InOrder(b), NEW p \in Nat, NEW msg \in Msg
  PROVE  DumpSize(b, p, msg)
BY DumpedType, Zenon DEF DumpSize

(* A dump behind a line. *)
LEMMA DumpedWhole ==
  ASSUME ConfOK, NEW p \in Nat, NEW msg \in Msg, msg.dump, msg.len > 0, NEW b \in BufType, InOrder(b), BufSize <= b.size,
         NEW line \in Seq(Char), SubSeq(b.text, 1, b.ptr) = line, 0 <= b.remain,
         b.remain = 0 => Len(line) > 0 /\ line[Len(line)] = <<msg.id, "newline", 0>>
  PROVE  WholeText(p, msg, line, Text(Dumped(b, p, msg)))
<1> PICK n \in Nat : n = (IF msg.len < b.remain THEN msg.len ELSE b.remain) /\ (n = msg.len \/ n = b.remain)
                     /\ (n = 0 => b.remain = 0)
  BY DEF Msg, BufType
<1> PICK nl : nl = <<msg.id, "newline", 0>>
  OBVIOUS
<1>1. PICK sh \in Seq(Char) : sh = Shown(b, p, msg) /\ Len(sh) = n /\ \A k \in 1 .. n : sh[k] = <<msg.id, "dump", 0>>
  <2> PICK id \in Nat : id = msg.id
    BY DEF Msg
  <2> PICK piece \in Parts : piece = "dump"
    BY DEF Parts
  <2>1. Chars(p, id, piece, n, 0) \in Seq(Char) /\ Len(Chars(p, id, piece, n, 0)) = n
    <3> PICK zero \in Nat : zero = 0
      OBVIOUS
    <3>1. Spelled(Chars(p, id, piece, n, zero), n)
      BY CharsShape
    <3> QED
      BY <3>1 DEF Spelled
  <2>2. \A k \in 1 .. n : Chars(p, id, piece, n, 0)[k] = <<id, "dump", 0>>
    BY DEF Chars
  <2>3. Shown(b, p, msg) = Chars(p, id, piece, n, 0)
    BY DEF Shown
  <2> QED
    BY <2>1, <2>2, <2>3
<1>2. PICK full : full = Put(b, sh)
  OBVIOUS
<1>3. /\ full \in BufType /\ InOrder(full) /\ full.ptr = b.ptr + n
      /\ SubSeq(full.text, 1, full.ptr) = line \o sh
  <2>1. LET e == Put(b, sh)
        IN /\ e \in BufType /\ InOrder(e)
           /\ e.size = b.size /\ e.ptr = b.ptr + Len(sh) /\ e.remain = b.remain - Len(sh)
           /\ SubSeq(e.text, 1, e.ptr) = SubSeq(b.text, 1, b.ptr) \o sh
    BY PutCorrect
  <2> QED
    BY <1>1, <1>2, <2>1
<1>4. PICK c \in BufType : /\ c = Dumped(b, p, msg) /\ InOrder(c) /\ c.ptr = b.ptr + n /\ Len(c.text) = Len(full.text)
                           /\ \A k \in 1 .. Len(full.text) : c.text[k] = IF k = c.ptr THEN nl ELSE full.text[k]
  <2> PICK e : e = Dumped(b, p, msg)
    OBVIOUS
  <2>1. e \in BufType /\ InOrder(e) /\ e.ptr = b.ptr + Len(sh) /\ Len(e.text) = Len(full.text)
    <3>1. Dumped(b, p, msg) \in BufType /\ InOrder(Dumped(b, p, msg))
      BY DumpedKeeps
    <3>2. DumpSize(b, p, msg)
      BY DumpedGrows
    <3>3. /\ Dumped(b, p, msg).ptr = b.ptr + Len(Shown(b, p, msg))
          /\ Len(Dumped(b, p, msg).text) = Len(Put(b, Shown(b, p, msg)).text)
      BY <3>2 DEF DumpSize
    <3> QED
      BY <1>1, <1>2, <3>1, <3>2, <3>3
  <2>2. \A k \in 1 .. Len(e.text) : e.text[k] = IF k = e.ptr THEN nl ELSE full.text[k]
    <3>1. \A k \in 1 .. Len(Dumped(b, p, msg).text) :
             Dumped(b, p, msg).text[k] =
               IF k = Dumped(b, p, msg).ptr THEN <<msg.id, "newline", 0>> ELSE Put(b, Shown(b, p, msg)).text[k]
      BY DumpedType, ZenonT(30)
    <3> QED
      BY <1>1, <1>2, <3>1
  <2>3. e.ptr = b.ptr + n
    BY <1>1, <2>1
  <2>4. e \in BufType /\ InOrder(e) /\ Len(e.text) = Len(full.text)
    BY <2>1
  <2>5. \A k \in 1 .. Len(full.text) : e.text[k] = IF k = e.ptr THEN nl ELSE full.text[k]
    BY <2>2, <2>4
  <2> QED
    BY <2>3, <2>4, <2>5
<1>5. b.text \in Seq(Char) /\ b.ptr \in Nat /\ b.ptr <= Len(b.text) /\ Len(line) = b.ptr /\ b.ptr = b.size - 2 - b.remain
      /\ b.size \in Nat /\ b.remain \in Int
  <2>1. b.text \in Seq(Char) /\ b.ptr \in Nat /\ b.ptr <= Len(b.text) /\ b.ptr = b.size - 2 - b.remain
        /\ b.size \in Nat /\ b.remain \in Int /\ Len(b.text) \in Nat
    BY LenProperties DEF BufType, InOrder
  <2>2. Len(SubSeq(b.text, 1, b.ptr)) = b.ptr
    <3>1. Text(b) = SubSeq(b.text, 1, b.ptr) /\ Len(Text(b)) = b.ptr
      BY TextType
    <3> QED
      BY <3>1
  <2> QED
    BY <2>1, <2>2
<1> PICK z \in Nat : z = Len(line)
  BY <1>5
<1>6. PICK x \in Seq(Char) : x = Text(c) /\ x = SubSeq(c.text, 1, c.ptr) /\ Len(x) = z + n
  <2>1. Text(c) \in Seq(Char) /\ Text(c) = SubSeq(c.text, 1, c.ptr) /\ Len(Text(c)) = c.ptr
    BY <1>4, TextType
  <2> QED
    BY <1>4, <1>5, <2>1
<1>7. ASSUME NEW k \in Int, 1 <= k, k <= z + n
      PROVE  x[k] = IF k = z + n THEN nl ELSE IF k <= z THEN line[k] ELSE <<msg.id, "dump", 0>>
  <2>1. c.text \in Seq(Char) /\ full.text \in Seq(Char) /\ Len(c.text) \in Nat /\ z + n <= Len(c.text) /\ c.ptr = z + n
        /\ full.ptr = z + n /\ Len(full.text) = Len(c.text)
    BY <1>3, <1>4, <1>5, LenProperties DEF BufType, InOrder
  <2>2. x[k] = c.text[k] /\ SubSeq(full.text, 1, full.ptr)[k] = full.text[k]
    <3>1. k \in 1 .. z + n
      BY <1>7
    <3> QED
      BY <1>6, <2>1, <3>1, SubSeqProperties, SMTT(30)
  <2>3. k \in 1 .. Len(full.text)
    BY <1>7, <2>1
  <2>4. c.text[k] = IF k = z + n THEN nl ELSE full.text[k]
    BY <1>4, <2>1, <2>3
  <2>5. full.text[k] = IF k <= z THEN line[k] ELSE sh[k - z]
    <3>1. k \in 1 .. Len(line) + Len(sh)
      BY <1>1, <1>7
    <3>2. (line \o sh)[k] = IF k <= Len(line) THEN line[k] ELSE sh[k - Len(line)]
      BY <3>1, ConcatProperties
    <3> QED
      BY <1>3, <2>2, <3>2
  <2>6. ~(k <= z) => sh[k - z] = <<msg.id, "dump", 0>>
    <3>1. ~(k <= z) => k - z \in 1 .. n
      BY <1>7
    <3> QED
      BY <1>1, <3>1
  <2> QED
    BY <2>2, <2>4, <2>5, <2>6
<1>8. nl \in Char /\ <<msg.id, "dump", 0>> \in Char
  <2> PICK id \in Nat : id = msg.id
    BY DEF Msg
  <2>1. <<id, "newline", 0>> \in Nat \X Parts \X Nat /\ <<id, "dump", 0>> \in Nat \X Parts \X Nat
    BY DEF Parts
  <2> QED
    BY <2>1 DEF Char
<1>9. PICK dc \in Char : dc = <<msg.id, "dump", 0>>
  BY <1>8
<1>10. Covered(line, x, z, n, nl, dc)
  <2> SUFFICES ASSUME NEW k \in 1 .. z + n
               PROVE  x[k] = IF k = z + n THEN nl ELSE IF k <= z THEN line[k] ELSE dc
    BY DEF Covered
  <2>1. k \in Int /\ 1 <= k /\ k <= z + n
    OBVIOUS
  <2> QED
    BY <1>7, <1>9, <2>1
<1>14. Behind(line, x, z, n, nl, dc)
  <2>1. n = 0 => z > 0 /\ line[z] = nl
    OBVIOUS
  <2>2. z \in Int /\ 0 <= z /\ n \in Int /\ 0 <= n /\ z = Len(line) /\ nl \in Char
    BY <1>8
  <2>3. Len(x) = z + n
    BY <1>6
  <2> QED
    BY <1>10, <2>1, <2>2, <2>3, CutIs
<1>11. /\ n = 0 => x = line /\ Cut(line, x) = <<>>
       /\ n # 0 => /\ SubSeq(x, 1, z) = line /\ Cut(line, x) \in Seq(Char) /\ Len(Cut(line, x)) = n
                   /\ Cut(line, x) # <<>>
                   /\ \A s \in Seq(Char) : Len(s) = n - 1 /\ (\A k \in 1 .. n - 1 : s[k] = dc) =>
                        Cut(line, x) = Append(s, nl)
  BY <1>14, Zenon DEF Behind
<1>12. CASE n = 0
  BY <1>4, <1>6, <1>11, <1>12 DEF WholeText
<1>13. CASE n # 0
  <2>1. Cut(line, x) = Append(Chars(p, msg.id, "dump", n - 1, 0), nl)
    <3> PICK id \in Nat : id = msg.id
      BY DEF Msg
    <3> PICK piece \in Parts : piece = "dump"
      BY DEF Parts
    <3> PICK j \in Nat : j = n - 1
      BY <1>13
    <3> PICK zero \in Nat : zero = 0
      OBVIOUS
    <3>1. Spelled(Chars(p, id, piece, j, zero), j)
      BY CharsShape
    <3>2. \A k \in 1 .. j : Chars(p, id, piece, j, zero)[k] = dc
      BY <1>9 DEF Chars
    <3> PICK s \in Seq(Char) : s = Chars(p, id, piece, j, zero) /\ Len(s) = j /\ \A k \in 1 .. j : s[k] = dc
      BY <3>1, <3>2 DEF Spelled
    <3>3. Cut(line, x) = Append(s, nl)
      BY <1>11, <1>13
    <3> QED
      BY <3>3
  <2>2. n = msg.len \/ Len(x) >= BufSize - 2
    <3>1. ASSUME n = b.remain PROVE Len(x) >= BufSize - 2
      <4>1. BufSize \in Nat
        BY LogAssumption
      <4>2. Len(x) = b.size - 2
        BY <1>5, <1>6, <3>1, SMTT(30)
      <4> QED
        BY <1>5, <4>1, <4>2
    <3> QED
      BY <3>1
  <2>3. WholeText(p, msg, line, x)
    BY <1>11, <1>13, <2>1, <2>2 DEF WholeText
  <2> QED
    BY <1>4, <1>6, <2>3
<1> QED
  BY <1>12, <1>13

\* How large the buffer of a call may get.
MaxFor(msg) == IF msg.dump THEN MaxSize ELSE conf.max

(* The pieces before i are in the buffer, with d for a date. *)
SoFar(p, msg, i, b, d) ==
  /\ b.ptr = LengthOf(1, i - 1, Room(msg))
  /\ msg.dump => msg.len > 0 /\ i <= Len(conf.funcs)
  /\ HasPieces(b, p, msg.id, i, Room(msg), d)

(* The pieces that a step puts are those that come next in the line. *)
LEMMA StyledOn ==
  ASSUME ConfOK, NEW p \in Nat, NEW msg \in Msg, NEW b \in BufType, InOrder(b), NEW f \in Int, FormatAt(f),
         NEW i \in Int, 1 <= i, NEW stop \in Int, i <= stop, stop <= Len(conf.funcs) + 1,
         NEW len \in Nat, Room(msg) \in Nat, i <= f /\ f < stop => len = Room(msg),
         NEW date \in Nat, NEW d \in Nat, "date" \in ToSet(conf.funcs) => date = d, SoFar(p, msg, i, b, d),
         NEW c, c = Put(b, FlattenSeq(Pieces(p, msg.id, i, stop, len, date)))
  PROVE  /\ Longer(b, c, f, i, stop, Room(msg))
         /\ HasPieces(c, p, msg.id, stop, Room(msg), d)
         /\ c.ptr = LengthOf(1, stop - 1, Room(msg))
<1> PICK room \in Nat : room = Room(msg)
  OBVIOUS
<1> PICK id \in Nat : id = msg.id
  BY DEF Msg
<1>1. HasPieces(b, p, id, i, room, d) /\ b.ptr = LengthOf(1, i - 1, room)
  BY DEF SoFar
<1>2. i <= f /\ f < stop => len = room
  OBVIOUS
<1>3. c = Put(b, FlattenSeq(Pieces(p, id, i, stop, len, date)))
  OBVIOUS
<1>4. HasPieces(c, p, id, stop, room, d) /\ Longer(b, c, f, i, stop, room)
  BY <1>1, <1>2, <1>3, StyledHas
<1>5. LengthOf(1, stop - 1, room) = LengthOf(1, i - 1, room) + Reach(i, stop - 1, f, room)
  BY LengthsAdd
<1> QED
  BY <1>1, <1>4, <1>5 DEF Longer

(* A piece of no characters changes nothing. *)
LEMMA NothingMore ==
  ASSUME ConfOK, NEW p \in Nat, NEW id \in Nat, NEW f \in Int, FormatAt(f), NEW room \in Nat, room = 0,
         NEW d \in Nat, NEW c, HasPieces(c, p, id, f, room, d), c.ptr = LengthOf(1, f - 1, room)
  PROVE  HasPieces(c, p, id, f + 1, room, d) /\ c.ptr = LengthOf(1, f, room)
<1>1. Len(conf.funcs) \in Nat /\ 1 <= f /\ f <= Len(conf.funcs) /\ conf.funcs[f] = "format"
  BY ConfFacts DEF FormatAt
<1>2. PICK s \in Seq(Seq(Char)) : s = Pieces(p, id, 1, f, room, d)
  <2>1. 1 \in Int /\ 1 <= 1 /\ f <= Len(conf.funcs) + 1
    BY <1>1
  <2>2. Lined(Pieces(p, id, 1, f, room, d), f - 1)
    BY <1>1, <2>1, PiecesShape
  <2> QED
    BY <2>2 DEF Lined
<1>3. PICK m \in Seq(Char) : m = Piece(p, id, f, room, d) /\ Len(m) = 0
  <2> PICK n \in Nat : n = 0
    OBVIOUS
  <2>1. conf.funcs[f] = "format" => n = room
    OBVIOUS
  <2>2. conf.funcs[f] # "format" => n = 1
    BY <1>1
  <2>3. Spelled(Piece(p, id, f, room, d), n)
    BY <1>1, <2>1, <2>2, PieceShape
  <2> QED
    BY <2>3 DEF Spelled
<1>4. OneMore(Pieces(p, id, 1, f + 1, room, d), Pieces(p, id, 1, f, room, d), Piece(p, id, f, room, d))
  <2>1. 1 \in Int /\ 1 <= 1
    OBVIOUS
  <2> QED
    BY <1>1, <2>1, PiecesAppend
<1>5. FlattenSeq(Append(s, m)) = FlattenSeq(s) \o m
  BY FlattenAppend
<1> PICK u \in Seq(Char) : u = FlattenSeq(s)
  BY FlattenIsSeq
<1>6. u \o m = u
  <2>1. m = <<>>
    BY <1>3, EmptySeq
  <2> QED
    BY <2>1
<1>7. HasPieces(c, p, id, f + 1, room, d)
  <2>1. FlattenSeq(Pieces(p, id, 1, f + 1, room, d)) = u
    BY <1>2, <1>3, <1>4, <1>5, <1>6 DEF OneMore
  <2>2. SubSeq(c.text, 1, c.ptr) = u
    BY <1>2 DEF HasPieces
  <2> QED
    BY <2>1, <2>2 DEF HasPieces
<1>8. LengthOf(1, f, room) = LengthOf(1, f - 1, room)
  <2>1. ASSUME NEW k \in Int, 0 <= k, k <= Len(conf.funcs) PROVE LengthOf(1, k, room) = Reach(1, k, f, room)
    <3>1. 1 \in Int /\ 1 <= 1 /\ 1 <= Len(conf.funcs) + 1 /\ room \in Int
      BY <1>1
    <3> QED
      BY <2>1, <3>1, LengthIs
  <2> PICK j \in Int : j = f - 1
    OBVIOUS
  <2>2. 0 <= j /\ j <= Len(conf.funcs) /\ 0 <= f
    BY <1>1
  <2>3. LengthOf(1, j, room) = Reach(1, j, f, room) /\ LengthOf(1, f, room) = Reach(1, f, f, room)
    BY <1>1, <2>1, <2>2
  <2>4. Reach(1, f, f, room) = Reach(1, j, f, room)
    BY <1>1 DEF Reach
  <2> QED
    BY <2>3, <2>4
<1> QED
  BY <1>7, <1>8

(* A length is a number. *)
LEMMA ReachType ==
  ASSUME NEW i \in Int, NEW k \in Int, NEW f \in Int, NEW len \in Int
  PROVE  Reach(i, k, f, len) \in Int
BY DEF Reach

\* The pieces from i to stop are put behind what a buffer has of a line.
Extends(p, msg, b, f, i, stop, len, date, d, c) ==
  /\ p \in Nat /\ msg \in Msg /\ b \in BufType /\ InOrder(b) /\ f \in Int /\ FormatAt(f)
  /\ i \in Int /\ 1 <= i /\ stop \in Int /\ i <= stop /\ stop <= Len(conf.funcs) + 1
  /\ len \in Nat /\ Room(msg) \in Nat /\ (i <= f /\ f < stop => len = Room(msg))
  /\ date \in Nat /\ d \in Nat /\ ("date" \in ToSet(conf.funcs) => date = d) /\ SoFar(p, msg, i, b, d)
  /\ c = Put(b, FlattenSeq(Pieces(p, msg.id, i, stop, len, date)))

(* Pieces behind those of a line are more of the line. *)
LEMMA ExtendsBy ==
  ASSUME ConfOK, NEW p, NEW msg, NEW b, NEW f, NEW i, NEW stop, NEW len, NEW date, NEW d, NEW c,
         Extends(p, msg, b, f, i, stop, len, date, d, c)
  PROVE  /\ Longer(b, c, f, i, stop, Room(msg))
         /\ HasPieces(c, p, msg.id, stop, Room(msg), d)
         /\ c.ptr = LengthOf(1, stop - 1, Room(msg))
<1> USE DEF Extends
<1>1. p \in Nat /\ msg \in Msg /\ b \in BufType /\ InOrder(b) /\ f \in Int /\ FormatAt(f)
      /\ i \in Int /\ 1 <= i /\ stop \in Int /\ i <= stop /\ stop <= Len(conf.funcs) + 1
      /\ len \in Nat /\ Room(msg) \in Nat /\ (i <= f /\ f < stop => len = Room(msg))
  OBVIOUS
<1>2. date \in Nat /\ d \in Nat /\ ("date" \in ToSet(conf.funcs) => date = d) /\ SoFar(p, msg, i, b, d)
      /\ c = Put(b, FlattenSeq(Pieces(p, msg.id, i, stop, len, date)))
  OBVIOUS
<1> HIDE DEF Extends
<1> QED
  BY <1>1, <1>2, StyledOn

(* A line with a newline behind FORMAT ends with it. *)
LEMMA WholeEnds ==
  ASSUME ConfOK, NEW p \in Nat, NEW msg \in Msg, NEW f \in Int, FormatAt(f), f + 1 = Len(conf.funcs),
         Room(msg) \in Nat, NEW d \in Nat
  PROVE  EndsLine(Whole(p, msg, d), msg.id)
<1> PICK id \in Nat : id = msg.id
  BY DEF Msg
<1> PICK room \in Nat : room = Room(msg)
  OBVIOUS
<1> PICK x : x = Whole(p, msg, d)
  OBVIOUS
<1>1. x = FlattenSeq(Pieces(p, id, 1, Len(conf.funcs) + 1, room, d))
  BY DEF Whole
<1>2. EndsLine(x, id)
  BY <1>1, LineEnds
<1> QED
  BY <1>2

(* The last piece fits, so that a buffer it fills ends with a newline. *)
LEMMA LastFits ==
  ASSUME ConfOK, NEW msg \in Msg, NEW b \in BufType, InOrder(b), NEW f \in Int, FormatAt(f),
         NEW i \in Int, 1 <= i, i <= Len(conf.funcs), NEW len \in Nat, Stop(b, i, len) = Len(conf.funcs) + 1,
         NEW room \in Nat, i <= f => len = room
  PROVE  /\ 0 <= b.remain - Reach(i, Len(conf.funcs), f, room)
         /\ b.remain - Reach(i, Len(conf.funcs), f, room) = 0 => f + 1 = Len(conf.funcs)
<1> PICK n \in Nat : n = Len(conf.funcs)
  BY ConfFacts
<1>1. 1 <= f /\ f <= n /\ (f = n \/ f + 1 = n) /\ conf.funcs[f] = "format" /\ conf.funcs \in Seq(STRING)
  BY ConfFacts DEF FormatAt
<1>2. Fits(b, conf.funcs[n], LengthOf(i, n, len))
  <2>1. \A k \in i .. Stop(b, i, len) - 1 : Fits(b, conf.funcs[k], LengthOf(i, k, len))
    <3>1. i \in Nat \ {0} /\ i <= Len(conf.funcs) + 1
      OBVIOUS
    <3> QED
      BY <1>1, <3>1, StopFirst
  <2>2. n \in i .. Stop(b, i, len) - 1
    OBVIOUS
  <2> QED
    BY <2>1, <2>2
<1>3. LengthOf(i, n, len) = Reach(i, n, f, room)
  <2>1. i <= Len(conf.funcs) + 1 /\ 0 <= n /\ n <= Len(conf.funcs) /\ len \in Int
    OBVIOUS
  <2>2. LengthOf(i, n, len) = Reach(i, n, f, len)
    BY <2>1, LengthIs
  <2>3. Reach(i, n, f, len) = Reach(i, n, f, room)
    BY DEF Reach
  <2> QED
    BY <2>2, <2>3
<1> PICK x \in Int : x = Reach(i, n, f, room)
  <2>1. n \in Int /\ room \in Int
    OBVIOUS
  <2>2. Reach(i, n, f, room) \in Int
    BY <2>1, ReachType
  <2> QED
    BY <2>2
<1> PICK r \in Int : r = b.remain
  BY DEF BufType
<1>4. x <= r /\ (conf.funcs[n] \notin Copied => x < r)
  BY <1>2, <1>3 DEF Fits
<1>5. f = n => conf.funcs[n] \notin Copied
  BY <1>1 DEF Copied
<1>6. x = r => f + 1 = n
  BY <1>1, <1>4, <1>5
<1> QED
  BY <1>4, <1>6

(* When the last piece is in the buffer, the line is whole. *)
LEMMA LineAtEnd ==
  ASSUME ConfOK, NEW p \in Nat, NEW msg \in Msg, NEW b \in BufType, InOrder(b), b.size <= MaxFor(msg),
         msg.dump => BufSize <= b.size, NEW i \in Int, 1 <= i, i <= Len(conf.funcs) + 1,
         NEW len \in Nat, len = (IF msg.dump THEN 1 ELSE msg.len), Stop(b, i, len) = Len(conf.funcs) + 1,
         NEW date \in Nat, NEW d \in Nat, "date" \in ToSet(conf.funcs) => date = d, SoFar(p, msg, i, b, d),
         NEW c, c = Put(b, FlattenSeq(Pieces(p, msg.id, i, Len(conf.funcs) + 1, len, date)))
  PROVE  WholeText(p, msg, Whole(p, msg, d), Text(IF msg.dump THEN Dumped(c, p, msg) ELSE c))
<1> PICK n \in Nat : n = Len(conf.funcs) /\ n # 0
  BY ConfFacts
<1>1. PICK f \in Int : FormatAt(f) /\ 1 <= f /\ f <= n
  <2>1. PICK e : FormatAt(e)
    BY StyleFacts
  <2>2. e \in Int /\ 1 <= e /\ e <= n
    BY <2>1 DEF FormatAt
  <2> QED
    BY <2>1, <2>2
<1>2. b.ptr = LengthOf(1, i - 1, Room(msg))
  BY DEF SoFar
<1>3. (i <= f => Room(msg) = len) /\ Room(msg) \in Nat
  <2>1. b.size <= (IF msg.dump THEN MaxSize ELSE conf.max)
    BY DEF MaxFor
  <2>2. /\ i <= f /\ f < Stop(b, i, len) => Room(msg) = len
        /\ Room(msg) \in Nat
    BY <1>1, <1>2, <2>1, RoomFits
  <2> QED
    BY <1>1, <2>2
<1> PICK stop \in Int : stop = n + 1
  OBVIOUS
<1>4. /\ Longer(b, c, f, i, stop, Room(msg))
      /\ HasPieces(c, p, msg.id, stop, Room(msg), d)
      /\ c.ptr = LengthOf(1, stop - 1, Room(msg))
  <2>1. i <= stop /\ stop <= Len(conf.funcs) + 1
    OBVIOUS
  <2>2. i <= f /\ f < stop => len = Room(msg)
    BY <1>3
  <2>3. c = Put(b, FlattenSeq(Pieces(p, msg.id, i, stop, len, date)))
    OBVIOUS
  <2>4. Extends(p, msg, b, f, i, stop, len, date, d, c)
    <3>1. stop \in Int /\ f \in Int /\ i \in Int
      OBVIOUS
    <3> QED
      BY <1>1, <1>3, <2>1, <2>2, <2>3, <3>1, Zenon DEF Extends
  <2> QED
    BY <2>4, ExtendsBy
<1>5. c \in BufType /\ InOrder(c) /\ c.size = b.size /\ c.remain = b.remain - Reach(i, stop - 1, f, Room(msg))
  BY <1>4 DEF Longer
<1>6. SubSeq(c.text, 1, c.ptr) = Whole(p, msg, d)
  BY <1>4 DEF HasPieces, Whole
<1>7. CASE ~msg.dump
  <2>1. Text(c) = SubSeq(c.text, 1, c.ptr)
    BY <1>5, TextType
  <2> QED
    BY <1>6, <1>7, <2>1 DEF WholeText
<1>8. CASE msg.dump
  <2>1. msg.len > 0 /\ i <= n
    BY <1>8 DEF SoFar
  <2> PICK id \in Nat : id = msg.id
    BY DEF Msg
  <2> PICK room \in Nat : room = Room(msg)
    BY <1>3
  <2> PICK line \in Seq(Char) : line = Whole(p, msg, d)
    <3>1. Lined(Pieces(p, id, 1, stop, room, d), stop - 1)
      <4>1. 1 \in Int /\ 1 <= 1 /\ 1 <= stop /\ stop <= Len(conf.funcs) + 1
        OBVIOUS
      <4> QED
        BY <4>1, PiecesShape
    <3>2. Pieces(p, id, 1, stop, room, d) \in Seq(Seq(Char))
      BY <3>1 DEF Lined
    <3>3. FlattenSeq(Pieces(p, id, 1, stop, room, d)) \in Seq(Char)
      BY <3>2, FlattenIsSeq
    <3> QED
      BY <3>3 DEF Whole
  <2>2. 0 <= c.remain /\ (c.remain = 0 => f + 1 = n)
    <3>1. /\ 0 <= b.remain - Reach(i, Len(conf.funcs), f, room)
          /\ b.remain - Reach(i, Len(conf.funcs), f, room) = 0 => f + 1 = Len(conf.funcs)
      <4>1. i <= f => len = room
        BY <1>3
      <4>2. i <= Len(conf.funcs)
        BY <2>1
      <4> QED
        BY <1>1, <4>1, <4>2, LastFits
    <3>2. c.remain = b.remain - Reach(i, Len(conf.funcs), f, room)
      BY <1>5
    <3> QED
      BY <3>1, <3>2
  <2>3. c.remain = 0 => Len(line) > 0 /\ line[Len(line)] = <<msg.id, "newline", 0>>
    <3> SUFFICES ASSUME c.remain = 0 PROVE Len(line) > 0 /\ line[Len(line)] = <<id, "newline", 0>>
      OBVIOUS
    <3>1. f + 1 = Len(conf.funcs)
      BY <2>2
    <3>2. EndsLine(Whole(p, msg, d), msg.id)
      BY <1>1, <1>3, <3>1, WholeEnds
    <3> QED
      BY <3>2 DEF EndsLine
  <2>4. BufSize <= c.size
    BY <1>5, <1>8
  <2>5. SubSeq(c.text, 1, c.ptr) = line
    BY <1>6
  <2>6. WholeText(p, msg, line, Text(Dumped(c, p, msg)))
    BY <1>5, <1>8, <2>1, <2>2, <2>3, <2>4, <2>5, DumpedWhole
  <2> QED
    BY <1>8, <2>6
<1> QED
  BY <1>7, <1>8

(* When a piece does not fit, what is before it is in the buffer, and a piece that is left out is the message. *)
LEMMA LineGoesOn ==
  ASSUME ConfOK, NEW p \in Nat, NEW msg \in Msg, NEW b \in BufType, InOrder(b), b.size <= MaxFor(msg),
         NEW i \in Int, 1 <= i, i <= Len(conf.funcs) + 1,
         NEW len \in Nat, len = (IF msg.dump THEN 1 ELSE msg.len),
         NEW stop \in Int, stop = Stop(b, i, len), i <= stop, stop <= Len(conf.funcs),
         NEW date \in Nat, NEW d \in Nat, "date" \in ToSet(conf.funcs) => date = d, SoFar(p, msg, i, b, d),
         NEW c, c = Put(b, FlattenSeq(Pieces(p, msg.id, i, stop, len, date)))
  PROVE  /\ SoFar(p, msg, stop, c, d)
         /\ b.size = MaxFor(msg) => SoFar(p, msg, stop + 1, c, d)
<1> PICK n \in Nat : n = Len(conf.funcs) /\ n # 0
  BY ConfFacts
<1>1. PICK f \in Int : FormatAt(f) /\ 1 <= f /\ f <= n
  <2>1. PICK e : FormatAt(e)
    BY StyleFacts
  <2>2. e \in Int /\ 1 <= e /\ e <= n
    BY <2>1 DEF FormatAt
  <2> QED
    BY <2>1, <2>2
<1>2. b.ptr = LengthOf(1, i - 1, Room(msg))
  BY DEF SoFar
<1>3. /\ i <= f /\ f < stop => Room(msg) = len
      /\ stop <= Len(conf.funcs) /\ b.size = MaxFor(msg) => stop = f /\ ~msg.dump /\ Room(msg) = 0
      /\ Room(msg) \in Nat
  <2>1. b.size <= (IF msg.dump THEN MaxSize ELSE conf.max)
    BY DEF MaxFor
  <2>2. /\ i <= f /\ f < Stop(b, i, len) => Room(msg) = len
        /\ Stop(b, i, len) <= Len(conf.funcs) /\ b.size = (IF msg.dump THEN MaxSize ELSE conf.max) =>
             Stop(b, i, len) = f /\ ~msg.dump /\ Room(msg) = 0
        /\ Room(msg) \in Nat
    BY <1>1, <1>2, <2>1, RoomFits
  <2> QED
    BY <2>2 DEF MaxFor
<1>4. /\ Longer(b, c, f, i, stop, Room(msg))
      /\ HasPieces(c, p, msg.id, stop, Room(msg), d)
      /\ c.ptr = LengthOf(1, stop - 1, Room(msg))
  <2>1. stop <= Len(conf.funcs) + 1
    OBVIOUS
  <2>2. i <= f /\ f < stop => len = Room(msg)
    BY <1>3
  <2>3. c = Put(b, FlattenSeq(Pieces(p, msg.id, i, stop, len, date)))
    OBVIOUS
  <2>4. Extends(p, msg, b, f, i, stop, len, date, d, c)
    BY <1>1, <1>3, <2>1, <2>2, <2>3, Zenon DEF Extends
  <2> QED
    BY <2>4, ExtendsBy
<1>5. SoFar(p, msg, stop, c, d)
  BY <1>4 DEF SoFar
<1>6. ASSUME b.size = MaxFor(msg) PROVE SoFar(p, msg, stop + 1, c, d)
  <2>1. stop = f /\ ~msg.dump /\ Room(msg) = 0
    BY <1>3, <1>6
  <2> PICK room \in Nat : room = Room(msg)
    BY <1>3
  <2> PICK id \in Nat : id = msg.id
    BY DEF Msg
  <2>2. HasPieces(c, p, id, f, room, d) /\ c.ptr = LengthOf(1, f - 1, room)
    BY <1>4, <2>1
  <2>3. HasPieces(c, p, id, f + 1, room, d) /\ c.ptr = LengthOf(1, f, room)
    <3>1. room = 0
      BY <2>1
    <3> QED
      BY <1>1, <2>2, <3>1, NothingMore
  <2>4. stop + 1 - 1 = f
    BY <2>1
  <2> QED
    BY <2>1, <2>3, <2>4 DEF SoFar
<1> QED
  BY <1>5, <1>6

\* What the two lemmas about the end of a step of the style functions need.
Styles(p, msg, b, i, len, stop, date, d, c) ==
  /\ p \in Nat /\ msg \in Msg /\ b \in BufType /\ InOrder(b) /\ b.size <= MaxFor(msg)
  /\ msg.dump => BufSize <= b.size
  /\ i \in Int /\ 1 <= i /\ i <= Len(conf.funcs) + 1
  /\ len \in Nat /\ len = (IF msg.dump THEN 1 ELSE msg.len)
  /\ stop \in Int /\ stop = Stop(b, i, len) /\ i <= stop
  /\ date \in Nat /\ d \in Nat /\ ("date" \in ToSet(conf.funcs) => date = d) /\ SoFar(p, msg, i, b, d)
  /\ c = Put(b, FlattenSeq(Pieces(p, msg.id, i, stop, len, date)))

(* The same, from one fact. *)
LEMMA StylesEnd ==
  ASSUME ConfOK, NEW p, NEW msg, NEW b, NEW i, NEW len, NEW stop, NEW date, NEW d, NEW c,
         Styles(p, msg, b, i, len, stop, date, d, c), stop = Len(conf.funcs) + 1
  PROVE  WholeText(p, msg, Whole(p, msg, d), Text(IF msg.dump THEN Dumped(c, p, msg) ELSE c))
BY LineAtEnd, Zenon DEF Styles

(* And where a piece does not fit. *)
LEMMA StylesGoOn ==
  ASSUME ConfOK, NEW p, NEW msg, NEW b, NEW i, NEW len, NEW stop, NEW date, NEW d, NEW c,
         Styles(p, msg, b, i, len, stop, date, d, c), stop <= Len(conf.funcs)
  PROVE  /\ SoFar(p, msg, stop, c, d)
         /\ b.size = MaxFor(msg) => SoFar(p, msg, stop + 1, c, d)
BY LineGoesOn, Zenon DEF Styles

(* Where a call stands when it puts its line together, or has it in its buffer. *)
Composing(s) ==
  \/ s.pc \in {"fill", "open", "write"}
  \/ s.pc \in {"lock", "mutex", "section", "release"} /\ s.why = "grow"
Clear(msg) == ~msg.mixed /\ ~(msg.redone /\ msg.args)

(* The dates that a line may have: without a style for it, any. *)
Dates(h) == IF "date" \in ToSet(conf.funcs) THEN {h.cache1} ELSE Nat
Low(msg) == IF msg.stale THEN 1 ELSE msg.day
Timely(s, h) ==
  /\ 1 <= s.msg.day /\ s.msg.day <= now /\ h.cache1 <= now
  /\ h.cache1 # 0 => Low(s.msg) <= h.cache1
  /\ "date" \in ToSet(conf.funcs) /\ s.i > 1 => h.cache1 # 0

(* The line in the buffer of a call is its own: so far, and then all of it. *)
Written(p, s, h) ==
  /\ s.i > 1
  /\ \A d \in Dates(h) : WholeText(p, s.msg, Whole(p, s.msg, d), Text(h[Goes(s.msg)]))
Going(p, s, h) == \A d \in Dates(h) : SoFar(p, s.msg, s.i, h[Goes(s.msg)], d)
CallOf(p, s, h) ==
  Composing(s) /\ Clear(s.msg) =>
    Timely(s, h) /\ (IF s.pc \in {"open", "write"} THEN Written(p, s, h) ELSE Going(p, s, h))

(* Buffers are no larger than they may get. *)
Sizes(h) == h.line.size <= conf.max /\ BufSize <= h.hex.size /\ h.hex.size <= MaxSize
Growing(s) ==
  s.pc \in {"lock", "mutex", "section"} /\ s.why = "grow" =>
    s.new <= MaxFor(s.msg) /\ (s.msg.dump => BufSize <= s.new)

(* A line in a file is whole, as far as its call promises. *)
EntryWhole(entry) ==
  ~entry.msg.mixed /\ ~(entry.msg.redone /\ entry.msg.args) =>
    \E date \in (IF entry.msg.stale THEN 1 ELSE entry.msg.day) .. entry.until : IsWhole(entry, date)
EntriesWhole == \A i \in DOMAIN data : \A k \in DOMAIN data[i] : \A e \in {data[i][k]} : EntryWhole(e)

LinesInv ==
  /\ \A p \in Procs : \A h \in {g[p]} : Sizes(h)
  /\ \A p \in Procs, t \in Threads : \A s \in {th[p][t]} : Growing(s)
  /\ \A p \in Procs, t \in Threads : \A s \in {th[p][t]}, h \in {g[p]} : CallOf(p, s, h)
  /\ EntriesWhole

(* The invariant shows the property. *)
LEMMA LinesShow ==
  ASSUME LinesInv
  PROVE  LinesAreWhole
BY DEF LinesInv, EntriesWhole, EntryWhole, LinesAreWhole

(* None of this depends on more than the handle and the day. *)
LEMMA SameConf ==
  ASSUME conf' = conf
  PROVE  /\ \A p, id, from, to, len, d : Pieces(p, id, from, to, len, d)' = Pieces(p, id, from, to, len, d)
         /\ \A msg : Room(msg)' = Room(msg) /\ MaxFor(msg)' = MaxFor(msg)
         /\ \A i, k, len : LengthOf(i, k, len)' = LengthOf(i, k, len)
         /\ \A h : Dates(h)' = Dates(h)
<1>1. \A p, id, from, to, len, d : Pieces(p, id, from, to, len, d)' = Pieces(p, id, from, to, len, d)
  BY DEF Pieces, Piece
<1>2. \A msg : Room(msg)' = Room(msg) /\ MaxFor(msg)' = MaxFor(msg)
  BY DEF Room, MaxFor
<1>3. \A i, k, len : LengthOf(i, k, len)' = LengthOf(i, k, len)
  BY DEF LengthOf
<1>4. \A h : Dates(h)' = Dates(h)
  BY DEF Dates
<1> QED
  BY <1>1, <1>2, <1>3, <1>4

(* A line depends on the configuration only. *)
LEMMA SameWhole ==
  ASSUME conf' = conf
  PROVE  /\ \A p, msg, d : Whole(p, msg, d)' = Whole(p, msg, d)
         /\ \A p, msg, i, b, d : SoFar(p, msg, i, b, d)' = SoFar(p, msg, i, b, d)
<1>1. \A p, msg, d : Whole(p, msg, d)' = Whole(p, msg, d)
  <2> TAKE p, msg, d
  <2> PICK n : n = Len(conf.funcs) + 1
    OBVIOUS
  <2> PICK room : room = Room(msg)
    OBVIOUS
  <2>1. Room(msg)' = room /\ Len(conf'.funcs) + 1 = n
    BY SameConf
  <2>2. Pieces(p, msg.id, 1, n, room, d)' = Pieces(p, msg.id, 1, n, room, d)
    BY SameConf
  <2> QED
    BY <2>1, <2>2 DEF Whole
<1>2. \A p, msg, i, b, d : SoFar(p, msg, i, b, d)' = SoFar(p, msg, i, b, d)
  BY SameConf DEF SoFar, HasPieces
<1> QED
  BY <1>1, <1>2

(* So does what is said of a thread and its handle. *)
LEMMA SameThread ==
  ASSUME conf' = conf
  PROVE  /\ \A s : Growing(s)' = Growing(s)
         /\ \A h : Sizes(h)' = Sizes(h)
         /\ \A p, s, h : Going(p, s, h)' = Going(p, s, h)
         /\ \A p, s, h : Written(p, s, h)' = Written(p, s, h)
<1>1. \A s : Growing(s)' = Growing(s)
  BY SameConf DEF Growing
<1>2. \A h : Sizes(h)' = Sizes(h)
  BY DEF Sizes
<1>3. \A p, s, h : Going(p, s, h)' = Going(p, s, h)
  BY SameConf, SameWhole DEF Going
<1>4. \A p, s, h : Written(p, s, h)' = Written(p, s, h)
  <2>1. \A p, msg, line, text : WholeText(p, msg, line, text)' = WholeText(p, msg, line, text)
    BY DEF WholeText
  <2> QED
    BY <2>1, SameConf, SameWhole DEF Written
<1> QED
  BY <1>1, <1>2, <1>3, <1>4

(* Days go by. *)
LEMMA SameCall ==
  ASSUME conf' = conf, now \in Nat, now' = now \/ now' = now + 1,
         NEW p, NEW s, NEW h, s.msg.day \in Nat, h.cache1 \in Nat, CallOf(p, s, h)
  PROVE  CallOf(p, s, h)'
<1> SUFFICES ASSUME Composing(s), Clear(s.msg)
             PROVE  Timely(s, h)' /\ (IF s.pc \in {"open", "write"} THEN Written(p, s, h)' ELSE Going(p, s, h)')
  BY DEF CallOf
<1>1. Timely(s, h) /\ (IF s.pc \in {"open", "write"} THEN Written(p, s, h) ELSE Going(p, s, h))
  BY DEF CallOf
<1>2. Timely(s, h)'
  BY <1>1 DEF Timely
<1> QED
  BY <1>1, <1>2, SameThread

(* So does what is said of an entry. *)
LEMMA SameEntry ==
  ASSUME conf' = conf
  PROVE  \A entry : EntryWhole(entry)' = EntryWhole(entry)
<1>1. \A entry, date : Line(entry, date)' = Line(entry, date)
  BY DEF Line
<1>2. \A entry, date : IsWhole(entry, date)' = IsWhole(entry, date)
  <2> TAKE entry, date
  <2> PICK line : line = Line(entry, date)
    OBVIOUS
  <2>1. Line(entry, date)' = line
    BY <1>1
  <2> QED
    BY <2>1, Zenon DEF IsWhole
<1> QED
  BY <1>2 DEF EntryWhole

\* Every line is an old one or, in the file i, the new one.
Gains(i, entry) ==
  \A j \in DOMAIN data' : \A k \in DOMAIN data'[j] :
    \/ j \in DOMAIN data /\ k \in DOMAIN data[j] /\ data'[j][k] = data[j][k]
    \/ j = i /\ data'[j][k] = entry

(* A whole line in a file leaves all of them whole. *)
LEMMA LinesGain ==
  ASSUME conf' = conf, EntriesWhole, NEW i, NEW entry, Gains(i, entry), EntryWhole(entry)
  PROVE  EntriesWhole'
<1>1. ASSUME NEW j \in DOMAIN data', NEW k \in DOMAIN data'[j], NEW e, e = data'[j][k] PROVE EntryWhole(e)
  <2>1. CASE j \in DOMAIN data /\ k \in DOMAIN data[j] /\ data'[j][k] = data[j][k]
    BY <1>1, <2>1 DEF EntriesWhole
  <2>2. CASE j = i /\ data'[j][k] = entry
    BY <1>1, <2>2
  <2> QED
    BY <1>1, <2>1, <2>2 DEF Gains
<1>2. \A e : EntryWhole(e)' = EntryWhole(e)
  BY SameEntry
<1> QED
  BY <1>1, <1>2 DEF EntriesWhole

(* So does a new file. *)
LEMMA LinesSame ==
  ASSUME conf' = conf, EntriesWhole, data \in Seq(Seq(Entry)), data' = data \/ data' = Append(data, <<>>)
  PROVE  EntriesWhole'
<1>1. ASSUME NEW j \in DOMAIN data', NEW k \in DOMAIN data'[j], NEW e, e = data'[j][k] PROVE EntryWhole(e)
  <2>1. j \in DOMAIN data /\ data'[j] = data[j]
    <3>1. CASE data' = data
      BY <1>1, <3>1
    <3>2. CASE data' = Append(data, <<>>)
      <4>1. <<>> \in Seq(Entry) /\ DOMAIN <<>> = {}
        OBVIOUS
      <4>2. /\ data' \in Seq(Seq(Entry)) /\ Len(data') = Len(data) + 1
            /\ data'[Len(data) + 1] = <<>> /\ \A n \in 1 .. Len(data) : data'[n] = data[n]
        BY <3>2, <4>1, AppendProperties
      <4>3. DOMAIN data' = 1 .. Len(data) + 1 /\ DOMAIN data = 1 .. Len(data) /\ Len(data) \in Nat
        BY <4>2, LenProperties
      <4>4. j # Len(data) + 1
        BY <1>1, <4>1, <4>2
      <4> QED
        BY <1>1, <4>2, <4>3, <4>4
    <3> QED
      BY <3>1, <3>2
  <2> QED
    BY <1>1, <2>1 DEF EntriesWhole
<1>2. \A e : EntryWhole(e)' = EntryWhole(e)
  BY SameEntry
<1> QED
  BY <1>1, <1>2 DEF EntriesWhole

(* What holds of the threads and handles behind a step holds there still: a day may have gone by. *)
LEMMA LinesFrom ==
  ASSUME TypeInv, TypeInv', conf' = conf, now' = now \/ now' = now + 1,
         \A q \in Procs : \A k \in {g'[q]} : Sizes(k),
         \A q \in Procs, u \in Threads : \A r \in {th'[q][u]} : Growing(r),
         \A q \in Procs, u \in Threads : \A r \in {th'[q][u]}, k \in {g'[q]} : CallOf(q, r, k),
         EntriesWhole'
  PROVE  LinesInv'
<1>0. now \in Nat
  BY DEF TypeInv, TimesOK
<1>1. ASSUME NEW q \in Procs, NEW k, k = g'[q] PROVE Sizes(k)'
  BY <1>1, SameThread
<1>2. ASSUME NEW q \in Procs, NEW u \in Threads, NEW r, r = th'[q][u] PROVE Growing(r)'
  BY <1>2, SameThread
<1>3. ASSUME NEW q \in Procs, NEW u \in Threads, NEW r, r = th'[q][u], NEW k, k = g'[q] PROVE CallOf(q, r, k)'
  <2>1. r.msg.day \in Nat /\ k.cache1 \in Nat
    <3>1. r \in Thread /\ HandleOK(k)
      <4>1. th' \in [Procs -> [Threads -> Thread]]
        BY DEF TypeInv, ThreadsOK
      <4>2. HandleOK(k)
        BY <1>3 DEF TypeInv, HandlesOK, HandleOK
      <4> QED
        BY <1>3, <4>1, <4>2
    <3>2. r.msg \in Msg
      BY <3>1 DEF Thread
    <3> QED
      BY <3>1, <3>2 DEF Msg, HandleOK
  <2>2. CallOf(q, r, k)
    BY <1>3
  <2> QED
    BY <1>0, <2>1, <2>2, SameCall
<1> QED
  BY <1>1, <1>2, <1>3 DEF LinesInv

(* A step of a thread; the other one of the process is in no call of its own, or one of mixed text. *)
LEMMA LinesStep ==
  ASSUME TypeInv, TypeInv', Alone, LinesInv, NEW p \in Procs, NEW t \in Threads, Framed(p, t), Only(p, t),
         th[p][t].pc # "idle", now' = now,
         NEW s, s = th'[p][t], NEW h, h = g'[p], Sizes(h), Growing(s), CallOf(p, s, h), EntriesWhole'
  PROVE  LinesInv'
<1>0. conf' = conf /\ \A q \in Procs \ {p} : g'[q] = g[q]
  BY DEF Framed
<1>1. ASSUME NEW q \in Procs, NEW k, k = g'[q] PROVE Sizes(k)
  BY <1>0, <1>1 DEF LinesInv
<1>2. ASSUME NEW q \in Procs, NEW u \in Threads, NEW r, r = th'[q][u] PROVE Growing(r)
  BY <1>2 DEF LinesInv, Only
<1>3. ASSUME NEW q \in Procs, NEW u \in Threads, NEW r, r = th'[q][u], NEW k, k = g'[q] PROVE CallOf(q, r, k)
  <2>1. CASE q = p /\ u = t
    BY <1>3, <2>1
  <2>2. CASE q # p
    BY <1>0, <1>3, <2>2 DEF LinesInv, Only
  <2>3. CASE q = p /\ u # t
    <3>1. r = th[p][u]
      BY <1>3, <2>3 DEF Only
    <3>2. t = Sibling(u)
      BY <2>3, ThreadFacts
    <3>3. Composing(r) /\ Clear(r.msg) => th[p][u].pc # "idle" /\ ~th[p][u].msg.mixed
      BY <3>1 DEF Composing, Clear
    <3> QED
      BY <2>3, <3>2, <3>3 DEF CallOf, Alone
  <2> QED
    BY <2>1, <2>2, <2>3
<1> QED
  BY <1>0, <1>1, <1>2, <1>3, LinesFrom

\* A step that leaves the line as it is.
SameLine(s, h, r, k) ==
  /\ k.line = h.line /\ k.hex = h.hex /\ k.cache1 = h.cache1
  /\ r.msg = s.msg /\ r.i = s.i /\ r.new = s.new /\ r.why = s.why

(* Sizes are those of the buffers. *)
LEMMA SizesKept ==
  ASSUME NEW h, NEW k, Sizes(h), k.line = h.line, k.hex = h.hex
  PROVE  Sizes(k)
BY DEF Sizes

(* A call that moves on with the same line keeps what holds of it. *)
LEMMA CallKept ==
  ASSUME NEW p, NEW s, NEW h, NEW r, NEW k, SameLine(s, h, r, k), CallOf(p, s, h), Growing(s),
         Composing(r) => Composing(s) /\ (r.pc \in {"open", "write"} <=> s.pc \in {"open", "write"}),
         r.pc \in {"lock", "mutex", "section"} => s.pc \in {"lock", "mutex", "section"}
  PROVE  CallOf(p, r, k) /\ Growing(r)
<1>1. k[Goes(r.msg)] = h[Goes(s.msg)] /\ Dates(k) = Dates(h)
  BY DEF SameLine, Goes, Dates
<1>2. CallOf(p, r, k)
  <2> SUFFICES ASSUME Composing(r), Clear(r.msg)
               PROVE  Timely(r, k) /\ (IF r.pc \in {"open", "write"} THEN Written(p, r, k) ELSE Going(p, r, k))
    BY DEF CallOf
  <2>1. Timely(s, h) /\ (IF r.pc \in {"open", "write"} THEN Written(p, s, h) ELSE Going(p, s, h))
    BY DEF CallOf, SameLine
  <2>2. Timely(r, k)
    BY <2>1 DEF Timely, SameLine
  <2>3. Written(p, s, h) => Written(p, r, k)
    BY <1>1 DEF Written, SameLine
  <2>4. Going(p, s, h) => Going(p, r, k)
    BY <1>1 DEF Going, SameLine
  <2> QED
    BY <2>1, <2>2, <2>3, <2>4
<1>3. Growing(r)
  BY DEF Growing, SameLine
<1> QED
  BY <1>2, <1>3

\* A thread that has no line in the making.
LEMMA CallOver ==
  ASSUME NEW p, NEW r, NEW k, r.pc \in {"idle", "test", "rename"} \/ (r.pc \in {"lock", "release"} /\ r.why # "grow")
  PROVE  CallOf(p, r, k) /\ Growing(r)
BY DEF CallOf, Composing, Growing

SameBuffers(p) == g'[p].line = g[p].line /\ g'[p].hex = g[p].hex

(* A step that leaves the buffers leaves their sizes. *)
LEMMA SizesStay ==
  ASSUME LinesInv, NEW p \in Procs, SameBuffers(p), NEW h, h = g'[p]
  PROVE  Sizes(h)
<1> PICK o : o = g[p]
  OBVIOUS
<1>1. Sizes(o)
  BY DEF LinesInv
<1>2. h.line = o.line /\ h.hex = o.hex
  BY DEF SameBuffers
<1> QED
  BY <1>1, <1>2, SizesKept

(* A step of a thread that has no line in the making afterwards. *)
LEMMA OverStep ==
  ASSUME TypeInv, TypeInv', Alone, LinesInv, NEW p \in Procs, NEW t \in Threads, Framed(p, t), Only(p, t),
         th[p][t].pc # "idle", now' = now, SameBuffers(p), EntriesWhole',
         \/ th'[p][t].pc \in {"idle", "test", "rename"}
         \/ th'[p][t].pc \in {"lock", "release"} /\ th'[p][t].why # "grow"
  PROVE  LinesInv'
<1> PICK s : s = th'[p][t]
  OBVIOUS
<1> PICK h : h = g'[p]
  OBVIOUS
<1>1. Sizes(h)
  BY SizesStay
<1>2. CallOf(p, s, h) /\ Growing(s)
  <2>1. s.pc \in {"idle", "test", "rename"} \/ (s.pc \in {"lock", "release"} /\ s.why # "grow")
    OBVIOUS
  <2> QED
    BY <2>1, CallOver
<1> QED
  BY <1>1, <1>2, LinesStep

(* A step of a thread that leaves its line as it is. *)
LEMMA KeptStep ==
  ASSUME TypeInv, TypeInv', Alone, LinesInv, NEW p \in Procs, NEW t \in Threads, Framed(p, t), Only(p, t),
         th[p][t].pc # "idle", now' = now, EntriesWhole',
         SameLine(th[p][t], g[p], th'[p][t], g'[p]),
         NEW a, a = th[p][t].pc, NEW z, z = th'[p][t].pc,
         \/ a = "open" /\ z = "write"
         \/ a = "lock" /\ z = "mutex"
         \/ a = "mutex" /\ z = "section"
         \/ a = "release" /\ z = "fill" /\ th[p][t].why = "grow"
  PROVE  LinesInv'
<1> PICK r : r = th[p][t]
  OBVIOUS
<1> PICK o : o = g[p]
  OBVIOUS
<1> PICK s : s = th'[p][t]
  OBVIOUS
<1> PICK h : h = g'[p]
  OBVIOUS
<1>1. CallOf(p, r, o) /\ Growing(r) /\ Sizes(o)
  BY DEF LinesInv
<1>2. SameLine(r, o, s, h)
  OBVIOUS
<1>3. Composing(s) => Composing(r) /\ (s.pc \in {"open", "write"} <=> r.pc \in {"open", "write"})
  BY <1>2 DEF SameLine, Composing
<1>4. s.pc \in {"lock", "mutex", "section"} => r.pc \in {"lock", "mutex", "section"}
  OBVIOUS
<1>5. CallOf(p, s, h) /\ Growing(s)
  BY <1>1, <1>2, <1>3, <1>4, CallKept
<1>6. Sizes(h)
  BY <1>1, <1>2, SizesKept DEF SameLine
<1> QED
  BY <1>5, <1>6, LinesStep

(* A step of the control only leaves the line. *)
LEMMA GotoLine ==
  ASSUME TypeInv, NEW p \in Procs, NEW t \in Threads, NEW pc, th' = [th EXCEPT ![p][t].pc = pc],
         SameBuffers(p), g'[p].cache1 = g[p].cache1
  PROVE  SameLine(th[p][t], g[p], th'[p][t], g'[p]) /\ th'[p][t].pc = pc
<1>1. th \in [Procs -> [Threads -> Thread]]
  BY DEF TypeInv, ThreadsOK
<1> PICK s : s = th[p][t]
  OBVIOUS
<1>2. s \in Thread /\ th'[p][t] = [s EXCEPT !.pc = pc]
  BY <1>1
<1> PICK r : r = th'[p][t]
  OBVIOUS
<1>3. r.msg = s.msg /\ r.i = s.i /\ r.new = s.new /\ r.why = s.why /\ r.pc = pc
  BY <1>2 DEF Thread
<1> QED
  BY <1>3 DEF SameLine, SameBuffers

(* No line is written: all are whole still. *)
LEMMA EntriesStay ==
  ASSUME TypeInv, LinesInv, conf' = conf, UNCHANGED FileVars
  PROVE  EntriesWhole'
<1>1. data \in Seq(Seq(Entry)) /\ EntriesWhole /\ data' = data
  BY DEF TypeInv, FilesOK, LinesInv, FileVars
<1> QED
  BY <1>1, LinesSame

(* Open leaves the line in the buffer as it is. *)
LEMMA OpenLine ==
  ASSUME TypeInv, TypeInv', Alone, LinesInv, NEW p \in Procs, NEW t \in Threads, Open(p, t)
  PROVE  LinesInv'
<1>1. Framed(p, t) /\ Only(p, t) /\ th[p][t].pc = "open" /\ now' = now /\ g'[p].cache1 = g[p].cache1 /\ conf' = conf
  BY OpenDoes DEF Stands, SameTime, Framed
<1>2. SameBuffers(p)
  <2>1. g' = [g EXCEPT ![p].open = TRUE, ![p].fd = names'[LogName]]
    BY DEF Open
  <2>2. PICK f : f = names'[LogName]
    OBVIOUS
  <2>3. g = [q \in Procs |-> g[q]] /\ HandleOK(g[p])
    BY DEF TypeInv, HandlesOK
  <2>4. PICK m : m = [g[p] EXCEPT !.open = TRUE]
    OBVIOUS
  <2>5. PICK k : k = [m EXCEPT !.fd = f]
    OBVIOUS
  <2>6. g' = [[g EXCEPT ![p].open = TRUE] EXCEPT ![p].fd = f]
    BY <2>1, <2>2
  <2>7. [g EXCEPT ![p].open = TRUE] = [g EXCEPT ![p] = m]
    BY <2>4
  <2>8. [[g EXCEPT ![p] = m] EXCEPT ![p].fd = f] = [g EXCEPT ![p] = k]
    BY <2>3, <2>5
  <2>9. g' = [g EXCEPT ![p] = k]
    BY <2>6, <2>7, <2>8
  <2>10. HandleOK(m) /\ m.line = g[p].line /\ m.hex = g[p].hex
    BY <2>3, <2>4 DEF HandleOK
  <2>11. k.line = g[p].line /\ k.hex = g[p].hex
    BY <2>5, <2>10 DEF HandleOK
  <2>12. g'[p] = k
    BY <2>3, <2>9
  <2> QED
    BY <2>11, <2>12 DEF SameBuffers
<1>3. SameLine(th[p][t], g[p], th'[p][t], g'[p]) /\ th'[p][t].pc = "write"
  <2>1. th' = [th EXCEPT ![p][t].pc = "write"]
    BY DEF Open, GoTo
  <2> QED
    BY <1>1, <1>2, <2>1, GotoLine
<1>4. EntriesWhole'
  <2>1. data \in Seq(Seq(Entry)) /\ EntriesWhole
    BY DEF TypeInv, FilesOK, LinesInv
  <2>2. data' = data \/ data' = Append(data, <<>>)
    BY DEF Open
  <2> QED
    BY <1>1, <2>1, <2>2, LinesSame
<1> QED
  BY <1>1, <1>3, <1>4, KeptStep

(* So do the steps to the lock and to the mutex. *)
LEMMA LockLine ==
  ASSUME TypeInv, TypeInv', Alone, LinesInv, NEW p \in Procs, NEW t \in Threads, LockFile(p, t) \/ LockMutex(p, t)
  PROVE  LinesInv'
<1>1. Framed(p, t) /\ Only(p, t) /\ now' = now /\ conf' = conf /\ UNCHANGED FileVars
  BY LockFileDoes, LockMutexDoes DEF Framed
<1>2. g' = g /\ SameBuffers(p)
  BY DEF LockFile, LockMutex, SameBuffers
<1>3. EntriesWhole'
  BY <1>1, EntriesStay
<1>4. CASE LockFile(p, t)
  <2>1. th' = [th EXCEPT ![p][t].pc = "mutex"] /\ th[p][t].pc = "lock"
    BY <1>4 DEF LockFile, GoTo, At
  <2>2. SameLine(th[p][t], g[p], th'[p][t], g'[p]) /\ th'[p][t].pc = "mutex"
    BY <1>2, <2>1, GotoLine
  <2> QED
    BY <1>1, <1>3, <2>1, <2>2, KeptStep
<1>5. CASE LockMutex(p, t)
  <2>1. th' = [th EXCEPT ![p][t].pc = "section"] /\ th[p][t].pc = "mutex"
    BY <1>5 DEF LockMutex, GoTo, At
  <2>2. SameLine(th[p][t], g[p], th'[p][t], g'[p]) /\ th'[p][t].pc = "section"
    BY <1>2, <2>1, GotoLine
  <2> QED
    BY <1>1, <1>3, <2>1, <2>2, KeptStep
<1> QED
  BY <1>4, <1>5

(* A call that has more room goes on with its line; another one is over. *)
LEMMA ReleaseLine ==
  ASSUME TypeInv, TypeInv', Alone, LinesInv, NEW p \in Procs, NEW t \in Threads, Release(p, t)
  PROVE  LinesInv'
<1>1. Framed(p, t) /\ Only(p, t) /\ now' = now /\ conf' = conf /\ UNCHANGED FileVars /\ th[p][t].pc = "release"
  BY ReleaseDoes DEF Framed, Stands
<1>2. EntriesWhole'
  BY <1>1, EntriesStay
<1>3. CASE th[p][t].why = "grow"
  <2>1. th' = [th EXCEPT ![p][t].pc = "fill"] /\ g' = g
    BY <1>3 DEF Release, GoTo
  <2>2. SameBuffers(p) /\ g'[p].cache1 = g[p].cache1
    BY <2>1 DEF SameBuffers
  <2>3. SameLine(th[p][t], g[p], th'[p][t], g'[p]) /\ th'[p][t].pc = "fill"
    BY <2>1, <2>2, GotoLine
  <2> QED
    BY <1>1, <1>2, <1>3, <2>3, KeptStep
<1>4. CASE th[p][t].why # "grow"
  <2>1. th' = [th EXCEPT ![p][t] = IdleThread] /\ g' = [g EXCEPT ![p].cache1 = 0]
    BY <1>4 DEF Release
  <2>2. SameBuffers(p)
    <3>1. g = [q \in Procs |-> g[q]] /\ HandleOK(g[p])
      BY DEF TypeInv, HandlesOK
    <3>2. g'[p] = [g[p] EXCEPT !.cache1 = 0]
      BY <2>1, <3>1
    <3> QED
      BY <3>1, <3>2 DEF SameBuffers, HandleOK
  <2>3. th'[p][t].pc = "idle"
    <3>1. th \in [Procs -> [Threads -> Thread]] /\ IdleThread.pc = "idle"
      BY DEF TypeInv, ThreadsOK, IdleThread
    <3> QED
      BY <2>1, <3>1
  <2> QED
    BY <1>1, <1>2, <2>2, <2>3, OverStep
<1> QED
  BY <1>3, <1>4

(* A call that fails is over. *)
LEMMA ReturnLine ==
  ASSUME TypeInv, TypeInv', Alone, LinesInv, NEW p \in Procs, NEW t \in Threads, ReturnEarly(p, t)
  PROVE  LinesInv'
<1>1. /\ Framed(p, t) /\ Only(p, t) /\ now' = now /\ conf' = conf /\ UNCHANGED FileVars
      /\ th[p][t].pc # "idle" /\ th'[p][t].pc = "idle"
  BY ReturnEarlyDoes DEF Framed, Stands
<1>2. EntriesWhole'
  BY <1>1, EntriesStay
<1>3. SameBuffers(p)
  BY DEF ReturnEarly, SameBuffers
<1> QED
  BY <1>1, <1>2, <1>3, OverStep

(* Behind write() no line is in the making: the test leaves the buffers. *)
LEMMA TestLine ==
  ASSUME TypeInv, TypeInv', Alone, LinesInv, NEW p \in Procs, NEW t \in Threads, Test(p, t)
  PROVE  LinesInv'
<1>1. /\ Framed(p, t) /\ Only(p, t) /\ now' = now /\ conf' = conf /\ UNCHANGED FileVars
      /\ th[p][t].pc = "test"
      /\ \/ th'[p][t].pc = "idle"
         \/ th'[p][t].pc = "lock" /\ th'[p][t].why # "grow"
  BY TestDoes DEF Framed, Stands
<1>2. EntriesWhole'
  BY <1>1, EntriesStay
<1>3. SameBuffers(p)
  <2>1. PICK h : h = Counted(Tested(g[p]))
    OBVIOUS
  <2>2. HandleOK(h) /\ h.line = g[p].line /\ h.hex = g[p].hex
    BY <2>1, TestedType
  <2>3. g = [q \in Procs |-> g[q]]
    BY DEF TypeInv, HandlesOK
  <2>4. CASE RotationDue(h)
    <3>1. g' = [g EXCEPT ![p] = [h EXCEPT !.open = @ /\ conf.how # "first"]]
      BY <2>1, <2>4 DEF Test
    <3>2. PICK b : b = (h.open /\ conf.how # "first")
      OBVIOUS
    <3>3. PICK k : k = [h EXCEPT !.open = b]
      OBVIOUS
    <3>4. g'[p] = k
      BY <2>3, <3>1, <3>2, <3>3
    <3>5. k.line = h.line /\ k.hex = h.hex
      BY <2>2, <3>3 DEF HandleOK
    <3> QED
      BY <2>2, <3>4, <3>5 DEF SameBuffers
  <2>5. CASE ~RotationDue(h)
    <3>1. g' = [g EXCEPT ![p] = [h EXCEPT !.cache1 = 0]]
      BY <2>1, <2>5 DEF Test
    <3>2. PICK k : k = [h EXCEPT !.cache1 = 0]
      OBVIOUS
    <3>3. g'[p] = k
      BY <2>3, <3>1, <3>2
    <3>4. k.line = h.line /\ k.hex = h.hex
      BY <2>2, <3>2 DEF HandleOK
    <3> QED
      BY <2>2, <3>3, <3>4 DEF SameBuffers
  <2> QED
    BY <2>4, <2>5
<1> QED
  BY <1>1, <1>2, <1>3, OverStep

(* So does the test of the size. *)
LEMMA StatLogLine ==
  ASSUME TypeInv, TypeInv', Alone, LinesInv, NEW p \in Procs, NEW t \in Threads, StatLog(p, t)
  PROVE  LinesInv'
<1>1. /\ Framed(p, t) /\ Only(p, t) /\ now' = now /\ conf' = conf /\ UNCHANGED FileVars
      /\ th[p][t].pc = "section" /\ th'[p][t].why = "SIZE" /\ th'[p][t].pc \in {"release", "rename"}
  BY StatLogDoes DEF Framed, Stands
<1>2. EntriesWhole'
  BY <1>1, EntriesStay
<1>3. SameBuffers(p)
  <2>1. g = [q \in Procs |-> g[q]]
    BY DEF TypeInv, HandlesOK
  <2>2. PICK o : o = g[p]
    OBVIOUS
  <2>3. HandleOK(o)
    BY <2>2 DEF TypeInv, HandlesOK
  <2>4. PICK st : st = Size(names[LogName])
    OBVIOUS
  <2>5. PICK n : \/ g' = g
                 \/ g' = [g EXCEPT ![p].stsize = st, ![p].skip = n]
                 \/ g' = [g EXCEPT ![p].stsize = st]
    BY <2>4 DEF StatLog
  <2>6. PICK m : m = [o EXCEPT !.stsize = st]
    OBVIOUS
  <2>7. PICK k : k = [m EXCEPT !.skip = n]
    OBVIOUS
  <2>8. HandleOK(m) /\ m.line = o.line /\ m.hex = o.hex
    BY <2>3, <2>6 DEF HandleOK
  <2>9. k.line = o.line /\ k.hex = o.hex
    BY <2>7, <2>8 DEF HandleOK
  <2>10. [g EXCEPT ![p].stsize = st] = [g EXCEPT ![p] = m]
    BY <2>2, <2>6
  <2>11. [[g EXCEPT ![p].stsize = st] EXCEPT ![p].skip = n] = [g EXCEPT ![p] = k]
    BY <2>1, <2>7, <2>10
  <2>12. g'[p] \in {o, m, k}
    <3>1. CASE g' = [g EXCEPT ![p].stsize = st, ![p].skip = n]
      <4>1. g' = [[g EXCEPT ![p].stsize = st] EXCEPT ![p].skip = n]
        BY <3>1
      <4>2. g' = [g EXCEPT ![p] = k]
        BY <2>11, <4>1
      <4> QED
        BY <2>1, <4>2
    <3>2. CASE g' = [g EXCEPT ![p].stsize = st]
      BY <2>1, <2>10, <3>2
    <3> QED
      BY <2>2, <2>5, <3>1, <3>2
  <2> QED
    BY <2>2, <2>8, <2>9, <2>12 DEF SameBuffers
<1> QED
  BY <1>1, <1>2, <1>3, OverStep

(* So does rename(). *)
LEMMA RenameLine ==
  ASSUME TypeInv, TypeInv', Alone, LockInv, LinesInv, NEW p \in Procs, NEW t \in Threads, Rename(p, t)
  PROVE  LinesInv'
<1>1. /\ Framed(p, t) /\ Only(p, t) /\ now' = now /\ conf' = conf /\ data' = data
      /\ th[p][t].pc = "rename" /\ th'[p][t].pc = "release" /\ th'[p][t].why = th[p][t].why
  BY RenameDoes DEF Framed, Stands, Goto
<1>2. EntriesWhole'
  BY <1>1, LinesSame DEF TypeInv, FilesOK, LinesInv
<1>3. SameBuffers(p)
  <2>1. g = [q \in Procs |-> g[q]] /\ HandleOK(g[p])
    BY DEF TypeInv, HandlesOK
  <2>2. g' = [g EXCEPT ![p].skip = 1]
    BY DEF Rename
  <2>3. g'[p] = [g[p] EXCEPT !.skip = 1]
    BY <2>1, <2>2
  <2> QED
    BY <2>1, <2>3 DEF SameBuffers, HandleOK
<1>4. th[p][t].why # "grow"
  BY <1>1 DEF LockInv, Reasons
<1> QED
  BY <1>1, <1>2, <1>3, <1>4, OverStep

(* So does the rotation by date. *)
LEMMA RotateByDateLine ==
  ASSUME TypeInv, TypeInv', Alone, LinesInv, NEW p \in Procs, NEW t \in Threads,
         NEW mode \in {"PER_DAY", "PER_HOUR"}, RotateByDate(p, t, mode)
  PROVE  LinesInv'
<1>1. /\ Framed(p, t) /\ Only(p, t) /\ now' = now /\ conf' = conf /\ data' = data
      /\ th[p][t].pc = "section" /\ th'[p][t].pc = "release" /\ th'[p][t].why = mode
  BY RotateByDateDoes DEF Framed, Stands, Goto
<1>2. EntriesWhole'
  BY <1>1, LinesSame DEF TypeInv, FilesOK, LinesInv
<1>3. SameBuffers(p)
  <2>1. PICK day : day = Date(p)
    OBVIOUS
  <2>2. g' = [g EXCEPT ![p].cache1 = day, ![p].rday = day]
    BY <2>1 DEF RotateByDate
  <2>3. g = [q \in Procs |-> g[q]] /\ HandleOK(g[p]) /\ day \in Nat
    BY <2>1, ThreadFacts DEF TypeInv, HandlesOK
  <2>4. PICK m : m = [g[p] EXCEPT !.cache1 = day]
    OBVIOUS
  <2>5. PICK k : k = [m EXCEPT !.rday = day]
    OBVIOUS
  <2>6. g' = [[g EXCEPT ![p].cache1 = day] EXCEPT ![p].rday = day]
    BY <2>2
  <2>7. [g EXCEPT ![p].cache1 = day] = [g EXCEPT ![p] = m]
    BY <2>4
  <2>8. [[g EXCEPT ![p] = m] EXCEPT ![p].rday = day] = [g EXCEPT ![p] = k]
    BY <2>3, <2>5
  <2>9. g' = [g EXCEPT ![p] = k]
    BY <2>6, <2>7, <2>8
  <2>10. HandleOK(m) /\ m.line = g[p].line /\ m.hex = g[p].hex
    BY <2>3, <2>4 DEF HandleOK
  <2>11. k.line = g[p].line /\ k.hex = g[p].hex
    BY <2>5, <2>10 DEF HandleOK
  <2>12. g'[p] = k
    BY <2>3, <2>9
  <2> QED
    BY <2>11, <2>12 DEF SameBuffers
<1> QED
  BY <1>1, <1>2, <1>3, OverStep

(* realloc leaves the text, and the buffer is no larger than it may get. *)
LEMMA ReallocLine ==
  ASSUME TypeInv, TypeInv', Alone, LinesInv, NEW p \in Procs, NEW t \in Threads, Realloc(p, t)
  PROVE  LinesInv'
<1>1. /\ Framed(p, t) /\ Only(p, t) /\ now' = now /\ conf' = conf /\ UNCHANGED FileVars
      /\ th[p][t].pc = "section"
  BY ReallocDoes DEF Framed, Stands
<1>2. EntriesWhole'
  BY <1>1, EntriesStay
<1>3. PICK s, h : /\ Sets(p, t, s, h)
                  /\ h = SetBuffer(g[p], Which(p, t), Grown(Buf(p, t), th[p][t].new))
                  /\ s.i = th[p][t].i /\ s.pc = "release" /\ s.why = th[p][t].why /\ s.new = th[p][t].new
                  /\ s.msg = [th[p][t].msg EXCEPT !.redone = @ \/ AtMessage(p, t)]
  BY ReallocType
<1> PICK r : r = th[p][t]
  OBVIOUS
<1> PICK o : o = g[p]
  OBVIOUS
<1> PICK b \in BufType : b = Buf(p, t) /\ InOrder(b)
  BY <1>1, ThreadFacts
<1> PICK w \in {"hex", "line"} : w = Which(p, t)
  BY ThreadFacts
<1>4. r \in Thread /\ r.msg \in Msg /\ HandleOK(o) /\ b = o[w] /\ w = Goes(r.msg) /\ r.new \in Nat
  <2>1. r \in Thread /\ r.msg \in Msg /\ HandleOK(o)
    BY ThreadFacts
  <2> QED
    BY <2>1 DEF Buf, Which, Goes, Thread
<1> PICK c : c = Grown(b, r.new)
  OBVIOUS
<1>5. c \in BufType /\ c.size = r.new /\ c.ptr = b.ptr /\ c.text = b.text
  BY <1>4, GrownType
<1>6. h[w] = c /\ h.cache1 = o.cache1 /\ \A v \in {"hex", "line"} \ {w} : h[v] = o[v]
  <2>1. h = SetBuffer(o, w, c)
    BY <1>3
  <2>2. HandleOK(o) /\ c \in BufType
    BY <1>4, <1>5
  <2>3. h[w] = c
    BY <2>1, <2>2 DEF SetBuffer, HandleOK
  <2>4. h.cache1 = o.cache1
    BY <2>1, <2>2 DEF SetBuffer, HandleOK
  <2>5. \A v \in {"hex", "line"} \ {w} : h[v] = o[v]
    BY <2>1, <2>2 DEF SetBuffer, HandleOK
  <2> QED
    BY <2>3, <2>4, <2>5
<1>7. th[p][t].why = "grow"
  BY DEF Realloc
<1>8. CallOf(p, r, o) /\ Growing(r) /\ Sizes(o)
  BY DEF LinesInv
<1>9. r.new <= MaxFor(r.msg) /\ (r.msg.dump => BufSize <= r.new)
  BY <1>1, <1>7, <1>8 DEF Growing
<1>10. Sizes(h)
  <2>1. CASE r.msg.dump
    <3>1. h.hex = c /\ h.line = o.line
      BY <1>4, <1>6, <2>1 DEF Goes
    <3> QED
      BY <1>5, <1>8, <1>9, <2>1, <3>1 DEF Sizes, MaxFor
  <2>2. CASE ~r.msg.dump
    <3>1. h.line = c /\ h.hex = o.hex
      BY <1>4, <1>6, <2>2 DEF Goes
    <3> QED
      BY <1>5, <1>8, <1>9, <2>2, <3>1 DEF Sizes, MaxFor
  <2> QED
    BY <2>1, <2>2
<1>11. /\ s.msg.id = r.msg.id /\ s.msg.len = r.msg.len /\ s.msg.dump = r.msg.dump /\ s.msg.args = r.msg.args
       /\ s.msg.day = r.msg.day /\ s.msg.stale = r.msg.stale /\ s.msg.mixed = r.msg.mixed
       /\ r.msg.redone => s.msg.redone
  BY <1>3, <1>4 DEF Msg
<1>12. CallOf(p, s, h)
  <2> SUFFICES ASSUME Clear(s.msg) PROVE Timely(s, h) /\ Going(p, s, h)
    BY <1>3 DEF CallOf
  <2>1. Timely(r, o) /\ Going(p, r, o)
    <3>1. Composing(r) /\ Clear(r.msg) /\ r.pc \notin {"open", "write"}
      BY <1>1, <1>7, <1>11 DEF Composing, Clear
    <3> QED
      BY <1>8, <3>1 DEF CallOf
  <2>2. Timely(s, h)
    BY <1>3, <1>6, <1>11, <2>1 DEF Timely, Low
  <2>3. ASSUME NEW d \in Dates(h) PROVE SoFar(p, s.msg, s.i, h[Goes(s.msg)], d)
    <3>1. d \in Dates(o) /\ h[Goes(s.msg)] = c /\ o[Goes(r.msg)] = b
      BY <1>4, <1>6, <1>11 DEF Dates, Goes
    <3>2. SoFar(p, r.msg, r.i, b, d)
      BY <2>1, <3>1 DEF Going
    <3>3. Room(s.msg) = Room(r.msg)
      BY <1>11 DEF Room
    <3>4. c.ptr = LengthOf(1, s.i - 1, Room(s.msg))
      <4>1. b.ptr = LengthOf(1, r.i - 1, Room(r.msg))
        BY <3>2 DEF SoFar
      <4> QED
        BY <1>3, <1>5, <3>3, <4>1
    <3>5. s.msg.dump => s.msg.len > 0 /\ s.i <= Len(conf.funcs)
      <4>1. r.msg.dump => r.msg.len > 0 /\ r.i <= Len(conf.funcs)
        BY <3>2 DEF SoFar
      <4> QED
        BY <1>3, <1>11, <4>1
    <3>6. HasPieces(c, p, s.msg.id, s.i, Room(s.msg), d)
      <4>1. HasPieces(b, p, r.msg.id, r.i, Room(r.msg), d)
        BY <3>2 DEF SoFar
      <4> QED
        BY <1>3, <1>5, <1>11, <3>3, <4>1 DEF HasPieces
    <3>7. SoFar(p, s.msg, s.i, c, d)
      BY <3>4, <3>5, <3>6 DEF SoFar
    <3> QED
      BY <3>1, <3>7
  <2> QED
    BY <2>2, <2>3 DEF Going
<1>13. Growing(s)
  BY <1>3 DEF Growing
<1>14. s = th'[p][t] /\ h = g'[p]
  <2>1. th \in [Procs -> [Threads -> Thread]] /\ g = [q \in Procs |-> g[q]]
    BY DEF TypeInv, ThreadsOK, HandlesOK
  <2> QED
    BY <1>3, <2>1 DEF Sets
<1> QED
  BY <1>1, <1>2, <1>10, <1>12, <1>13, <1>14, LinesStep

(* What is written is the line that the buffer has. *)
LEMMA WriteLine ==
  ASSUME TypeInv, TypeInv', Alone, LinesInv, NEW p \in Procs, NEW t \in Threads, Write(p, t)
  PROVE  LinesInv'
<1>1. /\ Framed(p, t) /\ Only(p, t) /\ now' = now /\ conf' = conf
      /\ th[p][t].pc = "write" /\ th'[p][t].pc = "test" /\ g' = g
  BY WriteDoes DEF Framed, Stands, Goto
<1>2. SameBuffers(p)
  BY <1>1 DEF SameBuffers
<1> PICK r : r = th[p][t]
  OBVIOUS
<1> PICK o : o = g[p]
  OBVIOUS
<1>3. r.msg \in Msg /\ Buf(p, t) = o[Goes(r.msg)] /\ HandleOK(o) /\ o.cache1 \in Nat /\ now \in Nat \ {0} /\ ConfOK
      /\ data \in Seq(Seq(Entry)) /\ EntriesWhole /\ CallOf(p, r, o)
  BY ThreadFacts DEF Buf, Which, Goes, TypeInv, TimesOK, FilesOK, LinesInv, HandleOK
<1>4. PICK i, entry : /\ entry = [proc |-> p, msg |-> r.msg, text |-> Text(Buf(p, t)), until |-> now]
                      /\ data' = [data EXCEPT ![i] = Append(@, entry)] /\ i = g[p].fd
  BY DEF Write
<1>5. i \in 1 .. Len(data) /\ entry \in Entry
  <2>1. Text(Buf(p, t)) \in Seq(Char)
    BY <1>1, ThreadFacts, TextType
  <2> QED
    BY <1>3, <1>4, <2>1 DEF TypeInv, FilesOK, Entry
<1>6. Gains(i, entry)
  <2>1. DOMAIN data' = DOMAIN data /\ \A j \in DOMAIN data : j # i => data'[j] = data[j]
    BY <1>4
  <2>2. i \in DOMAIN data /\ data'[i] = Append(data[i], entry) /\ data[i] \in Seq(Entry)
    <3>1. DOMAIN data = 1 .. Len(data)
      BY <1>3, LenProperties
    <3>2. data[i] \in Seq(Entry)
      BY <1>3, <1>5, ElementOfSeq
    <3> QED
      BY <1>4, <1>5, <3>1, <3>2
  <2>3. ASSUME NEW k \in DOMAIN data'[i]
        PROVE  (k \in DOMAIN data[i] /\ data'[i][k] = data[i][k]) \/ data'[i][k] = entry
    <3> PICK u \in Seq(Entry) : u = data[i]
      BY <2>2
    <3> PICK v : v = Append(u, entry)
      OBVIOUS
    <3>1. /\ v \in Seq(Entry) /\ Len(v) = Len(u) + 1 /\ v[Len(u) + 1] = entry /\ \A n \in 1 .. Len(u) : v[n] = u[n]
      BY <1>5, AppendProperties
    <3>2. DOMAIN v = 1 .. Len(u) + 1 /\ DOMAIN u = 1 .. Len(u) /\ Len(u) \in Nat
      BY <3>1, LenProperties
    <3>3. k \in DOMAIN v /\ data'[i] = v
      BY <2>2, <2>3
    <3> QED
      BY <3>1, <3>2, <3>3
  <2> QED
    BY <2>1, <2>2, <2>3 DEF Gains
<1>7. EntryWhole(entry)
  <2>2. entry.proc = p /\ entry.msg = r.msg /\ entry.text = Text(o[Goes(r.msg)]) /\ entry.until = now
    BY <1>3, <1>4
  <2> SUFFICES ASSUME Clear(r.msg) PROVE \E d \in Low(r.msg) .. now : IsWhole(entry, d)
    BY <2>2 DEF EntryWhole, Clear, Low
  <2>3. Timely(r, o) /\ Written(p, r, o)
    BY <1>1, <1>3 DEF CallOf, Composing
  <2>4. PICK d \in Nat : d \in Dates(o) /\ Low(r.msg) <= d /\ d <= now
    <3>1. CASE "date" \in ToSet(conf.funcs)
      <4>1. o.cache1 # 0
        BY <2>3, <3>1 DEF Timely, Written
      <4> QED
        BY <1>3, <2>3, <3>1, <4>1 DEF Timely, Dates
    <3>2. CASE "date" \notin ToSet(conf.funcs)
      <4>1. Low(r.msg) <= now
        BY <1>3, <2>3 DEF Timely, Low, Msg
      <4> QED
        BY <1>3, <3>2, <4>1 DEF Dates
    <3> QED
      BY <3>1, <3>2
  <2>5. WholeText(p, r.msg, Whole(p, r.msg, d), Text(o[Goes(r.msg)]))
    BY <2>3, <2>4 DEF Written
  <2>6. IsWhole(entry, d)
    <3>1. entry.msg.dump \in BOOLEAN
      BY <1>3, <2>2 DEF Msg
    <3>2. IsWhole(entry, d) <=> WholeText(entry.proc, entry.msg, Whole(entry.proc, entry.msg, d), entry.text)
      BY <1>3, <3>1, WholeIs
    <3> QED
      BY <2>2, <2>5, <3>2
  <2>7. Low(r.msg) \in Nat
    BY <1>3 DEF Low, Msg
  <2> QED
    BY <2>4, <2>6, <2>7
<1>8. EntriesWhole'
  BY <1>1, <1>3, <1>6, <1>7, LinesGain
<1> QED
  BY <1>1, <1>2, <1>8, OverStep

(* Before the first piece there is nothing. *)
LEMMA NothingYet ==
  ASSUME ConfOK, NEW p \in Nat, NEW msg \in Msg, Room(msg) \in Nat, NEW b \in BufType, NEW i \in Int, i = 1, NEW d \in Nat
  PROVE  SoFar(p, msg, i, b, d) <=> b.ptr = 0 /\ (msg.dump => msg.len > 0)
<1> PICK room \in Nat : room = Room(msg)
  OBVIOUS
<1> PICK id \in Nat : id = msg.id
  BY DEF Msg
<1>1. LengthOf(1, i - 1, room) = 0
  <2>1. 1 .. i - 1 = {}
    OBVIOUS
  <2> QED
    BY <2>1 DEF LengthOf
<1>2. Len(conf.funcs) \in Nat /\ 1 <= Len(conf.funcs)
  BY ConfFacts
<1>3. b.ptr = 0 => HasPieces(b, p, id, i, room, d)
  <2>1. i <= Len(conf.funcs) + 1 /\ 1 <= i
    BY <1>2
  <2>2. FlattenSeq(Pieces(p, id, i, i, room, d)) = <<>>
    BY <2>1, NoPieces
  <2>3. Pieces(p, id, i, i, room, d) = Pieces(p, id, 1, i, room, d)
    OBVIOUS
  <2>4. ASSUME b.ptr = 0 PROVE SubSeq(b.text, 1, b.ptr) = <<>>
    <3> PICK text \in Seq(Char) : text = b.text
      BY DEF BufType
    <3>1. SubSeq(text, 1, 0) = <<>>
      BY SubSeqEmpty
    <3> QED
      BY <2>4, <3>1
  <2> QED
    BY <2>2, <2>3, <2>4 DEF HasPieces
<1> QED
  BY <1>1, <1>2, <1>3 DEF SoFar

(* The date of a call is taken when its first pieces are put. *)
LEMMA DateTaken ==
  ASSUME ConfOK, NEW p \in Nat, NEW r, NEW o, HandleOK(o), r.msg \in Msg, r.i \in Int, Room(r.msg) \in Nat,
         NEW date \in Nat, o.cache1 # 0 => date = o.cache1,
         Timely(r, o), Going(p, r, o), r.i >= 1,
         NEW h, h.cache1 = (IF "date" \in ToSet(conf.funcs) THEN date ELSE o.cache1),
         NEW b \in BufType, b = o[Goes(r.msg)], NEW d \in Dates(h)
  PROVE  d \in Nat /\ ("date" \in ToSet(conf.funcs) => date = d) /\ SoFar(p, r.msg, r.i, b, d)
<1>1. CASE "date" \notin ToSet(conf.funcs)
  <2>1. d \in Nat /\ d \in Dates(o)
    BY <1>1 DEF Dates
  <2> QED
    BY <1>1, <2>1 DEF Going
<1>2. CASE "date" \in ToSet(conf.funcs)
  <2>1. d = date
    BY <1>2 DEF Dates
  <2>2. CASE o.cache1 # 0
    <3>1. d \in Dates(o)
      BY <1>2, <2>1, <2>2 DEF Dates
    <3> QED
      BY <1>2, <2>1, <3>1 DEF Going
  <2>3. CASE o.cache1 = 0
    <3> PICK i \in Int : i = r.i
      OBVIOUS
    <3>1. i = 1
      BY <1>2, <2>3 DEF Timely
    <3> PICK zero \in Nat : zero = 0
      OBVIOUS
    <3>2. zero \in Dates(o)
      BY <1>2, <2>3 DEF Dates
    <3>3. SoFar(p, r.msg, i, b, zero)
      BY <3>2 DEF Going
    <3> PICK msg \in Msg : msg = r.msg
      OBVIOUS
    <3>4. b.ptr = 0 /\ (msg.dump => msg.len > 0)
      BY <3>1, <3>3, NothingYet
    <3>5. SoFar(p, msg, i, b, d)
      BY <2>1, <3>1, <3>4, NothingYet
    <3> QED
      BY <1>2, <2>1, <3>5
  <2> QED
    BY <2>2, <2>3
<1> QED
  BY <1>1, <1>2

(* The length of a message in its line is a number. *)
LEMMA RoomIsNat ==
  ASSUME ConfOK, NEW msg \in Msg
  PROVE  Room(msg) \in Nat
<1>1. msg.len \in Nat
  BY DEF Msg
<1>2. 1 \in Nat /\ 0 \in Nat
  OBVIOUS
<1> QED
  BY <1>1, <1>2 DEF Room

\* What a step of the style functions leaves of a line that is its own.
Filling(p, t, r, o, b, len, stop, c, h, s) ==
  /\ r = th[p][t] /\ o = g[p] /\ b = Buf(p, t)
  /\ len = (IF r.msg.dump THEN 1 ELSE r.msg.len)
  /\ stop = Stop(b, r.i, len) /\ stop \in r.i .. Len(conf.funcs) + 1
  /\ c = Styled(p, t, len, stop)
  /\ s.msg = r.msg
  /\ h[Goes(r.msg)] = (IF r.msg.dump /\ stop > Len(conf.funcs) THEN Dumped(c, p, r.msg) ELSE c)
  /\ h.cache1 = (IF "date" \in ToSet(conf.funcs) THEN Date(p) ELSE o.cache1)

(* The style functions go on with the line, end it, or leave out what never fits. *)
LEMMA FillGoes ==
  ASSUME TypeInv, NEW p \in Procs, NEW t \in Threads, NEW r, NEW o, NEW b, NEW len, NEW stop, NEW c, NEW h, NEW s,
         Filling(p, t, r, o, b, len, stop, c, h, s), InOrder(b), Sizes(o), Timely(r, o), Going(p, r, o)
  PROVE  /\ Timely(s, h)
         /\ stop > Len(conf.funcs) => \A d \in Dates(h) : WholeText(p, r.msg, Whole(p, r.msg, d), Text(h[Goes(r.msg)]))
         /\ stop <= Len(conf.funcs) => \A d \in Dates(h) : SoFar(p, r.msg, stop, h[Goes(r.msg)], d)
         /\ stop <= Len(conf.funcs) /\ b.size = MaxFor(r.msg) =>
              \A d \in Dates(h) : SoFar(p, r.msg, stop + 1, h[Goes(r.msg)], d)
<1>1. /\ r \in Thread /\ r.msg \in Msg /\ r.i \in 1 .. Len(conf.funcs) + 1 /\ HandleOK(o) /\ b \in BufType
      /\ p \in Nat /\ ConfOK /\ b = o[Goes(r.msg)] /\ now \in Nat \ {0} /\ Len(conf.funcs) \in Nat
  <2>1. r = th[p][t] /\ o = g[p] /\ b = Buf(p, t)
    BY DEF Filling
  <2>2. b = o[Goes(r.msg)]
    BY <2>1 DEF Buf, Which, Goes
  <2>3. /\ th[p][t] \in Thread /\ th[p][t].msg \in Msg /\ th[p][t].i \in 1 .. Len(conf.funcs) + 1
        /\ HandleOK(g[p]) /\ Buf(p, t) \in BufType /\ p \in Nat
    BY ThreadFacts
  <2>4. ConfOK /\ now \in Nat \ {0}
    BY DEF TypeInv, TimesOK
  <2>5. Len(conf.funcs) \in Nat
    BY <2>4, ConfFacts
  <2> QED
    BY <2>1, <2>2, <2>3, <2>4, <2>5
<1> PICK msg \in Msg : msg = r.msg
  BY <1>1
<1> PICK i \in Int : i = r.i /\ 1 <= i /\ i <= Len(conf.funcs) + 1
  BY <1>1
<1> PICK date \in Nat : date = Date(p)
  BY ThreadFacts
<1>2. /\ o.cache1 \in Nat
      /\ o.cache1 # 0 => date = o.cache1
      /\ o.cache1 = 0 => date = now
  BY <1>1 DEF Filling, Date, HandleOK
<1>3. len \in Nat /\ len = (IF msg.dump THEN 1 ELSE msg.len)
  <2>1. len = (IF msg.dump THEN 1 ELSE msg.len)
    BY DEF Filling
  <2>2. msg.len \in Nat
    BY DEF Msg
  <2> QED
    BY <2>1, <2>2
<1>4. stop \in Int /\ stop = Stop(b, i, len) /\ i <= stop /\ stop <= Len(conf.funcs) + 1
  <2>1. stop = Stop(b, i, len) /\ stop \in i .. Len(conf.funcs) + 1
    BY DEF Filling
  <2> QED
    BY <1>1, <2>1
<1>5. c = Put(b, FlattenSeq(Pieces(p, msg.id, i, stop, len, date)))
  BY DEF Filling, Styled
<1>6. h.cache1 = (IF "date" \in ToSet(conf.funcs) THEN date ELSE o.cache1)
  BY DEF Filling
<1>7. Timely(s, h)
  <2>1. s.msg = msg
    BY DEF Filling
  <2>2. 1 <= msg.day /\ msg.day <= now /\ o.cache1 <= now /\ (o.cache1 # 0 => Low(msg) <= o.cache1)
    BY DEF Timely
  <2>3. Low(msg) <= now
    BY <1>1, <2>2 DEF Low, Msg
  <2>4. CASE "date" \in ToSet(conf.funcs)
    <3>1. h.cache1 = date /\ date # 0 /\ date <= now /\ Low(msg) <= date
      <4>1. h.cache1 = date
        BY <1>6, <2>4
      <4>2. CASE o.cache1 = 0
        BY <1>1, <1>2, <2>3, <4>1, <4>2
      <4>3. CASE o.cache1 # 0
        BY <1>2, <2>2, <4>1, <4>3
      <4> QED
        BY <4>1, <4>2, <4>3
    <3> QED
      BY <2>1, <2>2, <3>1 DEF Timely
  <2>5. CASE "date" \notin ToSet(conf.funcs)
    BY <1>6, <2>1, <2>2, <2>5 DEF Timely
  <2> QED
    BY <2>4, <2>5
<1>8. b.size <= MaxFor(msg) /\ (msg.dump => BufSize <= b.size)
  BY <1>1 DEF Sizes, Goes, MaxFor
<1>9. ASSUME NEW d \in Dates(h)
      PROVE  d \in Nat /\ ("date" \in ToSet(conf.funcs) => date = d) /\ SoFar(p, msg, i, b, d)
  <2>1. Room(r.msg) \in Nat
    BY <1>1, RoomIsNat
  <2>2. d \in Nat /\ ("date" \in ToSet(conf.funcs) => date = d) /\ SoFar(p, r.msg, r.i, b, d)
    <3>1. r.msg \in Msg /\ r.i \in Int /\ r.i >= 1 /\ HandleOK(o) /\ b = o[Goes(r.msg)] /\ ConfOK
      BY <1>1
    <3>2. o.cache1 # 0 => date = o.cache1
      BY <1>2
    <3> QED
      BY <1>1, <1>6, <2>1, <3>1, <3>2, DateTaken
  <2> QED
    BY <2>2
<1>10. ASSUME NEW d \in Dates(h) PROVE Styles(p, msg, b, i, len, stop, date, d, c)
  BY <1>1, <1>3, <1>4, <1>5, <1>8, <1>9 DEF Styles
<1>11. ASSUME stop > Len(conf.funcs), NEW d \in Dates(h)
       PROVE  WholeText(p, msg, Whole(p, msg, d), Text(h[Goes(msg)]))
  <2>1. stop = Len(conf.funcs) + 1
    BY <1>1, <1>4, <1>11
  <2>2. WholeText(p, msg, Whole(p, msg, d), Text(IF msg.dump THEN Dumped(c, p, msg) ELSE c))
    BY <1>1, <1>10, <2>1, StylesEnd
  <2>3. h[Goes(msg)] = (IF msg.dump THEN Dumped(c, p, msg) ELSE c)
    BY <1>11 DEF Filling
  <2> QED
    BY <2>2, <2>3
<1>12. ASSUME stop <= Len(conf.funcs), NEW d \in Dates(h)
       PROVE  /\ SoFar(p, msg, stop, h[Goes(msg)], d)
              /\ b.size = MaxFor(msg) => SoFar(p, msg, stop + 1, h[Goes(msg)], d)
  <2>1. /\ SoFar(p, msg, stop, c, d)
        /\ b.size = MaxFor(msg) => SoFar(p, msg, stop + 1, c, d)
    BY <1>1, <1>12, <1>10, StylesGoOn
  <2>2. h[Goes(msg)] = c
    <3>1. ~(stop > Len(conf.funcs))
      BY <1>1, <1>4, <1>12
    <3> QED
      BY <3>1 DEF Filling
  <2> QED
    BY <2>1, <2>2
<1> QED
  BY <1>7, <1>11, <1>12

(* A step of the style functions, for a call that has its arguments. *)
LEMMA FillIs ==
  ASSUME TypeInv, NEW p \in Procs, NEW t \in Threads, NEW len, NEW stop, NEW buf, NEW h, NEW s,
         FillStep(p, t, len, stop, buf, h, s), NEW r, r = th[p][t], Clear(r.msg)
  PROVE  Filling(p, t, r, g[p], Buf(p, t), len, stop, Styled(p, t, len, stop), h, s)
<1>1. len = (IF r.msg.dump THEN 1 ELSE r.msg.len)
  <2>1. len \in Lengths(r.msg)
    BY DEF FillStep
  <2>2. r.msg.dump \in BOOLEAN /\ r.msg.redone \in BOOLEAN /\ r.msg.args \in BOOLEAN
    BY ThreadFacts DEF Msg
  <2> QED
    BY <2>1, <2>2 DEF Lengths, Clear
<1>2. stop = Stop(Buf(p, t), r.i, len) /\ stop \in r.i .. Len(conf.funcs) + 1
  BY DEF FillStep
<1>3. s.msg = r.msg /\ h.cache1 = (IF "date" \in ToSet(conf.funcs) THEN Date(p) ELSE g[p].cache1)
  BY DEF FillStep
<1>4. h[Goes(r.msg)] = (IF r.msg.dump /\ stop > Len(conf.funcs)
                        THEN Dumped(Styled(p, t, len, stop), p, r.msg) ELSE Styled(p, t, len, stop))
  <2>1. h[Which(p, t)] = Filled(p, t, len, stop)
    BY DEF FillStep
  <2> QED
    BY <2>1, FilledIs DEF Which, Goes
<1> QED
  BY <1>1, <1>2, <1>3, <1>4 DEF Filling

(* The style functions leave the sizes; a buffer grows no further than it may. *)
LEMMA FillSizes ==
  ASSUME TypeInv, NEW p \in Procs, NEW t \in Threads, NEW len, NEW stop, NEW buf, NEW h, NEW s,
         FillStep(p, t, len, stop, buf, h, s), NEW o, o = g[p], Sizes(o)
  PROVE  Sizes(h) /\ Growing(s)
<1> PICK r : r = th[p][t]
  OBVIOUS
<1> PICK b \in BufType : b = Buf(p, t)
  BY ThreadFacts
<1>1. /\ r.msg \in Msg /\ HandleOK(o) /\ b = o[Which(p, t)] /\ Which(p, t) = Goes(r.msg) /\ MaxOf(p, t) = MaxFor(r.msg)
      /\ b.size \in Nat
  BY ThreadFacts DEF Buf, Which, Goes, MaxOf, MaxFor, BufType
<1>2. /\ h[Goes(r.msg)] = buf /\ buf.size = b.size /\ s.msg = r.msg
      /\ \A w \in {"hex", "line"} \ {Goes(r.msg)} : h[w] = o[w]
  BY <1>1 DEF FillStep
<1>3. h.line.size = o.line.size /\ h.hex.size = o.hex.size
  <2>1. CASE r.msg.dump
    <3>1. h.hex = buf /\ h.line = o.line /\ b = o.hex
      BY <1>1, <1>2, <2>1 DEF Goes
    <3> QED
      BY <1>2, <3>1
  <2>2. CASE ~r.msg.dump
    <3>1. h.line = buf /\ h.hex = o.hex /\ b = o.line
      BY <1>1, <1>2, <2>2 DEF Goes
    <3> QED
      BY <1>2, <3>1
  <2> QED
    BY <2>1, <2>2
<1>4. Sizes(h)
  BY <1>3 DEF Sizes
<1>5. Growing(s)
  <2> SUFFICES ASSUME s.pc \in {"lock", "mutex", "section"}, s.why = "grow"
               PROVE  s.new <= MaxFor(s.msg) /\ (s.msg.dump => BufSize <= s.new)
    BY DEF Growing
  <2> PICK max \in Nat : max = MaxFor(r.msg)
    BY <1>1, ThreadFacts
  <2> PICK n \in Nat : n = b.size
    BY <1>1
  <2>1. s.new = (IF 2 * n > max THEN max ELSE 2 * n)
    <3>1. AfterFill(p) \in {"write", "open"}
      BY DEF AfterFill
    <3>2. s.new = (IF 2 * buf.size > MaxOf(p, t) THEN MaxOf(p, t) ELSE 2 * buf.size)
      BY <3>1 DEF FillStep
    <3> QED
      BY <1>1, <1>2, <3>2
  <2>2. r.msg.dump => BufSize <= n /\ BufSize <= max
    <3>1. r.msg.dump => BufSize <= b.size
      BY <1>1 DEF Sizes, Goes
    <3>2. r.msg.dump => BufSize <= MaxFor(r.msg)
      BY LogAssumption DEF MaxFor
    <3> QED
      BY <3>1, <3>2
  <2>3. BufSize \in Nat
    BY LogAssumption
  <2> QED
    BY <1>2, <2>1, <2>2, <2>3
<1> QED
  BY <1>4, <1>5

(* The styles put the pieces of the line, or all that is left of it. *)
LEMMA FillLine ==
  ASSUME TypeInv, TypeInv', Alone, LinesInv, NEW p \in Procs, NEW t \in Threads, Fill(p, t)
  PROVE  LinesInv'
<1>1. /\ Framed(p, t) /\ Only(p, t) /\ now' = now /\ conf' = conf /\ UNCHANGED FileVars
      /\ th[p][t].pc = "fill"
  BY FillDoes DEF Framed, Stands
<1>2. EntriesWhole'
  BY <1>1, EntriesStay
<1>3. PICK len, stop, buf, h, s : FillStep(p, t, len, stop, buf, h, s)
  BY FillEffect
<1> PICK r : r = th[p][t]
  OBVIOUS
<1> PICK o : o = g[p]
  OBVIOUS
<1>4. CallOf(p, r, o) /\ Sizes(o)
  BY DEF LinesInv
<1>5. Sizes(h) /\ Growing(s)
  BY <1>3, <1>4, FillSizes
<1>6. r.pc = "fill" /\ r.i \in Nat \ {0} /\ Len(conf.funcs) \in Nat \ {0} /\ s.msg = r.msg /\ stop \in r.i .. Len(conf.funcs) + 1
  BY <1>1, <1>3, ThreadFacts, ConfFacts DEF FillStep, TypeInv
<1>7. CallOf(p, s, h)
  <2> SUFFICES ASSUME Clear(r.msg)
               PROVE  Timely(s, h) /\ (IF s.pc \in {"open", "write"} THEN Written(p, s, h) ELSE Going(p, s, h))
    BY <1>6 DEF CallOf
  <2>1. Timely(r, o) /\ Going(p, r, o)
    BY <1>4, <1>6 DEF CallOf, Composing
  <2>2. Filling(p, t, r, o, Buf(p, t), len, stop, Styled(p, t, len, stop), h, s)
    BY <1>3, FillIs
  <2>3. InOrder(Buf(p, t))
    BY <1>6, ThreadFacts
  <2>4. /\ Timely(s, h)
        /\ stop > Len(conf.funcs) => \A d \in Dates(h) : WholeText(p, r.msg, Whole(p, r.msg, d), Text(h[Goes(r.msg)]))
        /\ stop <= Len(conf.funcs) => \A d \in Dates(h) : SoFar(p, r.msg, stop, h[Goes(r.msg)], d)
        /\ stop <= Len(conf.funcs) /\ Buf(p, t).size = MaxFor(r.msg) =>
             \A d \in Dates(h) : SoFar(p, r.msg, stop + 1, h[Goes(r.msg)], d)
    BY <1>4, <2>1, <2>2, <2>3, FillGoes
  <2>5. CASE stop > Len(conf.funcs)
    <3>1. s.i = stop /\ s.pc = AfterFill(p)
      BY <1>6, <2>5, <1>3 DEF FillStep
    <3>2. s.pc \in {"open", "write"}
      BY <3>1 DEF AfterFill
    <3>3. s.i > 1
      BY <1>6, <2>5, <3>1
    <3> QED
      BY <1>6, <2>4, <2>5, <3>2, <3>3 DEF Written
  <2>6. CASE stop <= Len(conf.funcs) /\ buf.size = MaxOf(p, t)
    <3>1. s.i = stop + 1 /\ s.pc = "fill" /\ buf.size = Buf(p, t).size
      BY <1>6, <2>6, <1>3 DEF FillStep
    <3>2. Buf(p, t).size = MaxFor(r.msg)
      BY <2>6, <3>1 DEF MaxOf, MaxFor
    <3> QED
      BY <1>6, <2>4, <2>6, <3>1, <3>2 DEF Going
  <2>7. CASE stop <= Len(conf.funcs) /\ buf.size # MaxOf(p, t)
    <3>1. s.i = stop /\ s.pc = "lock"
      BY <1>6, <2>7, <1>3 DEF FillStep
    <3> QED
      BY <1>6, <2>4, <2>7, <3>1 DEF Going
  <2> QED
    BY <1>6, <2>5, <2>6, <2>7
<1>8. s = th'[p][t] /\ h = g'[p]
  <2>1. th \in [Procs -> [Threads -> Thread]] /\ g = [q \in Procs |-> g[q]]
    BY DEF TypeInv, ThreadsOK, HandlesOK
  <2>2. g' = [g EXCEPT ![p] = h] /\ th' = [th EXCEPT ![p][t] = s]
    BY <1>3 DEF FillStep
  <2> QED
    BY <2>1, <2>2
<1> QED
  BY <1>1, <1>2, <1>5, <1>7, <1>8, LinesStep

(* A call that meets no other one begins its line; one that does has mixed text, and so has the other. *)
LEMMA BeginLine ==
  ASSUME TypeInv, TypeInv', Clock, LinesInv, NEW p \in Procs, NEW t \in Threads,
         NEW buffer \in {"hex", "line"}, Begin(p, t, buffer)
  PROVE  LinesInv'
<1>1. PICK s, v, h : BeginStep(p, t, buffer, s, v, h)
  BY BeginEffect
<1>2. PICK u \in Threads : u = Sibling(t) /\ u # t /\ \A w \in Threads : w = t \/ w = u
  BY ThreadFacts
<1>3. th'[p][t] = s /\ th'[p][u] = v /\ g'[p] = h /\ \A q \in Procs \ {p} : th'[q] = th[q] /\ g'[q] = g[q]
  BY <1>1, <1>2, BeginType
<1>4. conf' = conf /\ now' = now /\ UNCHANGED FileVars
  BY DEF Begin, World
<1>5. EntriesWhole'
  BY <1>4, EntriesStay
<1> PICK o : o = g[p]
  OBVIOUS
<1> PICK b \in BufType : b = o[buffer]
  BY ThreadFacts DEF HandleOK
<1> PICK c \in BufType : c = Emptied(b) /\ c.size = b.size /\ c.ptr = 0
  <2>1. Emptied(b) \in BufType
    BY EmptiedType
  <2>2. Emptied(b).size = b.size /\ Emptied(b).ptr = 0
    BY DEF Emptied, BufType
  <2> QED
    BY <2>1, <2>2
<1>6. HandleOK(o) /\ Sizes(o) /\ o.cache1 \in Nat /\ o.cache1 <= now /\ now \in Nat \ {0} /\ ConfOK /\ p \in Nat
  BY ThreadFacts DEF HandleOK, LinesInv, Clock, TypeInv, TimesOK
<1>7. h[buffer] = c /\ h.cache1 = o.cache1 /\ \A w \in {"hex", "line"} \ {buffer} : h[w] = o[w]
  <2>1. h = SetBuffer(o, buffer, c)
    BY <1>1 DEF BeginStep
  <2>2. HandleOK(o)
    BY <1>6
  <2>3. h[buffer] = c
    BY <2>1, <2>2 DEF SetBuffer, HandleOK
  <2>4. h.cache1 = o.cache1
    BY <2>1, <2>2 DEF SetBuffer, HandleOK
  <2>5. \A w \in {"hex", "line"} \ {buffer} : h[w] = o[w]
    BY <2>1, <2>2 DEF SetBuffer, HandleOK
  <2> QED
    BY <2>3, <2>4, <2>5
<1>8. Sizes(h)
  <2>1. CASE buffer = "hex"
    BY <1>6, <1>7, <2>1 DEF Sizes
  <2>2. CASE buffer = "line"
    BY <1>6, <1>7, <2>2 DEF Sizes
  <2> QED
    BY <2>1, <2>2
<1> PICK msg \in Msg : msg = s.msg
  BY <1>1 DEF BeginStep, Thread
<1>9. s.pc = "fill" /\ s.i = 1 /\ s.why = "none"
  BY <1>1 DEF BeginStep
<1>10. /\ msg.day = now /\ msg.stale = (o.cache1 # 0) /\ msg.dump = (buffer = "hex")
       /\ msg.dump => msg.len > 0
  <2>1. msg.day = now /\ msg.stale = (o.cache1 # 0) /\ msg.dump = (buffer = "hex")
    BY <1>1 DEF BeginStep
  <2>2. PICK m \in kinds : msg.len = m.len /\ msg.dump = m.dump
    BY <1>1 DEF BeginStep
  <2>3. m.dump => m.len > 0
    BY <1>6, ConfFacts
  <2> QED
    BY <2>1, <2>2, <2>3
<1>11. CallOf(p, s, h) /\ Growing(s)
  <2>1. Timely(s, h)
    <3> PICK n \in Nat : n = h.cache1 /\ n = o.cache1
      BY <1>6, <1>7
    <3>1. n <= now /\ now \in Nat /\ 1 <= now
      BY <1>6
    <3>2. n # 0 => Low(msg) <= n
      <4>1. n # 0 => msg.stale
        BY <1>10
      <4>2. msg.stale => Low(msg) = 1
        BY DEF Low
      <4> QED
        BY <4>1, <4>2
    <3>3. ~(s.i > 1) /\ s.msg = msg /\ msg.day = now
      BY <1>9, <1>10
    <3> QED
      BY <3>1, <3>2, <3>3 DEF Timely
  <2>2. Going(p, s, h)
    <3> SUFFICES ASSUME NEW d \in Dates(h) PROVE SoFar(p, msg, s.i, h[Goes(msg)], d)
      BY DEF Going
    <3>1. h[Goes(msg)] = c
      BY <1>7, <1>10 DEF Goes
    <3>2. d \in Nat
      BY <1>6, <1>7 DEF Dates
    <3>3. Room(msg) \in Nat
      BY <1>6, RoomIsNat
    <3> PICK i \in Int : i = 1
      OBVIOUS
    <3>4. SoFar(p, msg, i, c, d)
      BY <1>6, <1>10, <3>2, <3>3, NothingYet
    <3> QED
      BY <1>9, <3>1, <3>4
  <2> QED
    BY <1>9, <2>1, <2>2 DEF CallOf, Growing
<1>12. ASSUME NEW k PROVE CallOf(p, v, k) /\ Growing(v)
  <2> PICK r : r = th[p][u]
    OBVIOUS
  <2> PICK e \in BOOLEAN : e = (r.pc # "idle")
    OBVIOUS
  <2>1. v.pc = r.pc /\ v.why = r.why /\ v.new = r.new /\ v.msg = [r.msg EXCEPT !.mixed = @ \/ e]
    BY <1>1, <1>2 DEF BeginStep
  <2>2. r.msg \in Msg
    BY ThreadFacts
  <2>3. v.msg.dump = r.msg.dump /\ (e => v.msg.mixed)
    BY <2>1, <2>2 DEF Msg
  <2>4. Growing(r)
    BY DEF LinesInv
  <2>5. Growing(v)
    BY <2>1, <2>3, <2>4 DEF Growing, MaxFor
  <2>6. CallOf(p, v, k)
    BY <2>1, <2>3 DEF CallOf, Composing, Clear
  <2> QED
    BY <2>5, <2>6
<1>13. ASSUME NEW q \in Procs, NEW k, k = g'[q] PROVE Sizes(k)
  BY <1>3, <1>8, <1>13 DEF LinesInv
<1>14. ASSUME NEW q \in Procs, NEW w \in Threads, NEW r, r = th'[q][w], NEW k, k = g'[q]
       PROVE  Growing(r) /\ CallOf(q, r, k)
  <2>1. CASE q # p
    BY <1>3, <1>14, <2>1 DEF LinesInv
  <2>2. CASE q = p /\ w = t
    BY <1>3, <1>11, <1>14, <2>2
  <2>3. CASE q = p /\ w = u
    BY <1>3, <1>12, <1>14, <2>3
  <2> QED
    BY <1>2, <2>1, <2>2, <2>3
<1> QED
  BY <1>4, <1>5, <1>13, <1>14, LinesFrom

(* A child has the buffers of its parent and no line in the making. *)
LEMMA ForkLine ==
  ASSUME TypeInv, TypeInv', Alive, LinesInv, NEW p \in Procs, NEW q \in Procs, Fork(p, q)
  PROVE  LinesInv'
<1>1. /\ life[q] = "unborn" /\ g'[q] = g[p] /\ \A r \in Procs \ {q} : g'[r] = g[r]
  BY ForkType
<1>2. th' = th /\ conf' = conf /\ now' = now /\ UNCHANGED FileVars
  BY DEF Fork
<1>3. EntriesWhole'
  BY <1>2, EntriesStay
<1>4. ASSUME NEW r \in Procs, NEW k, k = g'[r] PROVE Sizes(k)
  BY <1>1, <1>4 DEF LinesInv
<1>5. ASSUME NEW r \in Procs, NEW u \in Threads, NEW s, s = th'[r][u], NEW k, k = g'[r]
      PROVE  Growing(s) /\ CallOf(r, s, k)
  <2>1. CASE r # q
    BY <1>1, <1>2, <1>5, <2>1 DEF LinesInv
  <2>2. CASE r = q
    <3>1. s.pc = "idle"
      BY <1>1, <1>2, <1>5, <2>2 DEF Alive
    <3> QED
      BY <3>1, CallOver
  <2> QED
    BY <2>1, <2>2
<1> QED
  BY <1>2, <1>3, <1>4, <1>5, LinesFrom

(* Lines are none of the business of what goes on around the calls. *)
LEMMA AroundLines ==
  ASSUME TypeInv, TypeInv', LinesInv, UNCHANGED <<conf, g, th, data>>, now' = now \/ now' = now + 1
  PROVE  LinesInv'
<1>1. EntriesWhole'
  <2>1. data \in Seq(Seq(Entry)) /\ EntriesWhole
    BY DEF TypeInv, FilesOK, LinesInv
  <2> QED
    BY <2>1, LinesSame
<1>2. ASSUME NEW r \in Procs, NEW k, k = g'[r] PROVE Sizes(k)
  BY <1>2 DEF LinesInv
<1>3. ASSUME NEW r \in Procs, NEW u \in Threads, NEW s, s = th'[r][u], NEW k, k = g'[r]
      PROVE  Growing(s) /\ CallOf(r, s, k)
  BY <1>3 DEF LinesInv
<1> QED
  BY <1>1, <1>2, <1>3, LinesFrom

(* The invariant of lines holds at first. *)
LEMMA InitLines ==
  ASSUME Init
  PROVE  LinesInv
<1>1. PICK s \in Scenarios : conf = s.conf /\ kinds = s.kinds /\ left = s.left
  BY DEF Init
<1>2. ConfOK
  BY <1>1 DEF ConfOK
<1>3. /\ \A p \in Procs : g[p] = NewHandle(conf)
      /\ \A p \in Procs, t \in Threads : th[p][t] = IdleThread
      /\ data = <<<<>>, <<>>>>
  BY DEF Init
<1>4. ASSUME NEW p \in Procs, NEW h, h = g[p] PROVE Sizes(h)
  <2>1. h.line.size = conf.bufsize /\ h.hex.size = BufSize
    BY <1>3, <1>4 DEF NewHandle, NewBuf
  <2>2. conf.bufsize <= conf.max /\ BufSize \in Nat /\ MaxSize \in Nat /\ BufSize <= MaxSize
    BY <1>2, ConfFacts, LogAssumption
  <2> QED
    BY <2>1, <2>2 DEF Sizes
<1>5. ASSUME NEW p \in Procs, NEW t \in Threads, NEW r, r = th[p][t], NEW h PROVE Growing(r) /\ CallOf(p, r, h)
  <2>1. r.pc = "idle"
    BY <1>3, <1>5 DEF IdleThread
  <2> QED
    BY <2>1, CallOver
<1>6. EntriesWhole
  <2>1. \A i \in DOMAIN data : DOMAIN data[i] = {}
    BY <1>3
  <2> QED
    BY <2>1 DEF EntriesWhole
<1> QED
  BY <1>4, <1>5, <1>6 DEF LinesInv

(* Every step of a thread keeps it. *)
LEMMA StepLines ==
  ASSUME TypeInv, TypeInv', Alone, LockInv, LinesInv, NEW p \in Procs, NEW t \in Threads, Step(p, t)
  PROVE  LinesInv'
<1>1. CASE Fill(p, t)
  BY <1>1, FillLine
<1>2. CASE Fail(p, t)
  <2>1. UNCHANGED <<conf, g, th, data>> /\ now' = now
    BY <1>2 DEF Fail, FileVars
  <2> QED
    BY <2>1, AroundLines
<1>3. CASE Open(p, t)
  BY <1>3, OpenLine
<1>4. CASE Write(p, t)
  BY <1>4, WriteLine
<1>5. CASE ReturnEarly(p, t)
  BY <1>5, ReturnLine
<1>6. CASE Test(p, t)
  BY <1>6, TestLine
<1>7. CASE LockFile(p, t) \/ LockMutex(p, t)
  BY <1>7, LockLine
<1>8. CASE Release(p, t)
  BY <1>8, ReleaseLine
<1>9. CASE Realloc(p, t)
  BY <1>9, ReallocLine
<1>10. CASE StatLog(p, t)
  BY <1>10, StatLogLine
<1>11. CASE Rename(p, t)
  BY <1>11, RenameLine
<1>12. CASE RotateLogFilePerDate(p, t) \/ RotateLogFilePerHour(p, t)
  BY <1>12, RotateByDateLine DEF RotateLogFilePerDate, RotateLogFilePerHour
<1> QED
  BY <1>1, <1>2, <1>3, <1>4, <1>5, <1>6, <1>7, <1>8, <1>9, <1>10, <1>11, <1>12 DEF Step

(* Every step keeps it. *)
LEMMA NextLines ==
  ASSUME TypeInv, TypeInv', Alive, Alone, LockInv, Clock, LinesInv, [Next]_vars
  PROVE  LinesInv'
<1>1. ASSUME NEW p \in Procs, Exit(p) PROVE LinesInv'
  <2>1. UNCHANGED <<conf, g, th, data>> /\ now' = now
    BY <1>1 DEF Exit, FileVars
  <2> QED
    BY <2>1, AroundLines
<1>2. CASE RemoveLog
  <2>1. UNCHANGED <<conf, g, th, data>> /\ now' = now
    BY <1>2 DEF RemoveLog, World
  <2> QED
    BY <2>1, AroundLines
<1>3. CASE Tick
  <2>1. UNCHANGED <<conf, g, th, data>> /\ now' = now + 1
    BY <1>3 DEF Tick, FileVars
  <2> QED
    BY <2>1, AroundLines
<1>4. CASE UNCHANGED vars
  <2>1. UNCHANGED <<conf, g, th, data>> /\ now' = now
    BY <1>4 DEF vars
  <2> QED
    BY <2>1, AroundLines
<1>5. CASE Next
  BY <1>1, <1>2, <1>3, <1>5, BeginLine, StepLines, ForkLine DEF Next, Call, CallHex
<1> QED
  BY <1>4, <1>5

(* A call that met no other one of its process writes its own line, all of it, with a date of the call, unless arguments were formatted twice or an earlier call left its time (log.c:1048-1110, :1874-1897, :1188-1190). *)
THEOREM LinesCorrect == Spec => []LinesAreWhole
<1>1. Init => TypeInv /\ Alive /\ RotationInv /\ RemovalInv /\ LinesInv
  BY InitType, InitLock, InitRotation, InitRemoval, InitLines DEF RotationInv
<1>2. ASSUME TypeInv, TypeInv', Alive, RotationInv, RemovalInv, LinesInv, [Next]_vars
      PROVE  RotationInv' /\ RemovalInv' /\ LinesInv'
  <2>1. RotationInv'
    BY <1>2, RotationKept
  <2>2. RemovalInv'
    BY <1>2, NextRemoval
  <2>3. LinesInv'
    BY <1>2, NextLines DEF RotationInv, RemovalInv
  <2> QED
    BY <2>1, <2>2, <2>3
<1>3. LinesInv => LinesAreWhole
  BY LinesShow
<1> QED
  BY <1>1, <1>2, <1>3, TypeCorrect, PTL DEF Spec

=============================================================================
