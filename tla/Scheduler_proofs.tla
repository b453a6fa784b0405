-------------------------- MODULE Scheduler_proofs --------------------------
(***************************************************************************)
(* Proofs about Scheduler, for every size of sched[], every set of         *)
(* sessions and media, whether or not a SETUP meets the pass.              *)
(***************************************************************************)
EXTENDS Scheduler, FiniteSetTheorems, TLAPS

\* A session is in one slot of the table at most.
OneSlot ==
  \A i, j \in Slots :
    (rtp_session[i] = rtp_session[j] /\ rtp_session[i] # NoSession) => i = j

\* A session that no SETUP has put into the table is not there, nor freed.
Unborn(s) == life[s] = "none" /\ ~(main.pc \in {"count", "wake"} /\ main.s = s)
UnbornIsNowhere ==
  \A s \in Sessions :
    Unborn(s) => s \notin freed /\ \A i \in Slots : rtp_session[i] # s

\* The slot of a session that was not set up is not set either.
UnsetIsNoSlot == \A s \in Sessions : life[s] = "none" => sched_id[s] = NoSlot

IInv ==
  /\ TypeOK
  /\ UnsetIsNoSlot
  /\ OwnSlot
  /\ CountIsExact
  /\ WaitsOnlyWhenIdle
  /\ OneSlot
  /\ UnbornIsNowhere
  /\ FreedLeavesTable

-----------------------------------------------------------------------------
(* The slots are finitely many, and so are the valid ones. *)
LEMMA ValidFinite ==
  ASSUME NEW v PROVE IsFiniteSet({i \in Slots : v[i]})
<1>1. IsFiniteSet(Slots)
  BY NAssumption, FS_Interval DEF Slots
<1> QED
  BY <1>1, FS_Subset, Zenon

(* Setting one slot that was not valid makes one more. *)
LEMMA OneMore ==
  ASSUME NEW v \in [Slots -> BOOLEAN], NEW k \in Slots, ~v[k]
  PROVE  Cardinality({i \in Slots : [v EXCEPT ![k] = TRUE][i]})
           = Cardinality({i \in Slots : v[i]}) + 1
<1> DEFINE V == {i \in Slots : v[i]}
<1>1. IsFiniteSet(V) /\ k \notin V
  BY ValidFinite, Zenon
<1>2. {i \in Slots : [v EXCEPT ![k] = TRUE][i]} = V \cup {k}
  OBVIOUS
<1> QED
  BY <1>1, <1>2, FS_AddElement, Zenon

(* Clearing one slot that was valid makes one less. *)
LEMMA OneLess ==
  ASSUME NEW v \in [Slots -> BOOLEAN], NEW k \in Slots, v[k]
  PROVE  Cardinality({i \in Slots : [v EXCEPT ![k] = FALSE][i]})
           = Cardinality({i \in Slots : v[i]}) - 1
<1> DEFINE V == {i \in Slots : v[i]}
<1>1. IsFiniteSet(V) /\ k \in V
  BY ValidFinite, Zenon
<1>2. {i \in Slots : [v EXCEPT ![k] = FALSE][i]} = V \ {k}
  OBVIOUS
<1> QED
  BY <1>1, <1>2, FS_RemoveElement, Zenon

(* No valid slot, no cardinal. *)
LEMMA SomeValid ==
  ASSUME NEW v \in [Slots -> BOOLEAN], NEW k \in Slots, v[k]
  PROVE  Cardinality({i \in Slots : v[i]}) \in Nat \ {0}
<1> DEFINE V == {i \in Slots : v[i]}
<1>1. IsFiniteSet(V) /\ k \in V
  BY ValidFinite, Zenon
<1>2. Cardinality(V) \in Nat /\ Cardinality(V) # 0
  BY <1>1, FS_CardinalityType, FS_EmptySet, Zenon
<1> QED
  BY <1>2

-----------------------------------------------------------------------------
LEMMA InitIInv == Init => IInv
<1> SUFFICES ASSUME Init PROVE IInv
  OBVIOUS
<1> USE DEF Init
<1>1. TypeOK
  <2>1. MainIdle \in [pc : MainPcs, s : SessionOrNone, i : Slots \cup {NoSlot}]
    BY DEF MainIdle, MainPcs, SessionOrNone
  <2>2. [pc |-> "test", i |-> 0] \in [pc : ThPcs, i : Slots]
    BY NAssumption DEF ThPcs, Slots
  <2>3. main \in [pc : MainPcs, s : SessionOrNone, i : Slots \cup {NoSlot}] /\ th \in [pc : ThPcs, i : Slots]
    BY <2>1, <2>2
  <2>4. valid \in [Slots -> BOOLEAN] /\ rtp_session \in [Slots -> SessionOrNone] /\ client_count \in Int
    BY DEF SessionOrNone
  <2>5. /\ life \in [Sessions -> {"none", "live", "removed"}] /\ freed \subseteq Sessions
        /\ sched_id \in [Sessions -> Slots \cup {NoSlot}]
        /\ pause \in [Sessions -> BOOLEAN] /\ started \in [Sessions -> BOOLEAN] /\ met \in BOOLEAN
    OBVIOUS
  <2>6. cons \in [Sessions -> Nat] /\ buffer \in [Media -> {"null", "open"}] /\ refs \in [Media -> Int]
    OBVIOUS
  <2>7. main.pc = "idle"
    BY DEF MainIdle
  <2> QED
    BY <2>3, <2>4, <2>5, <2>6, <2>7 DEF TypeOK
<1>2. OwnSlot
  BY DEF OwnSlot, HasSlot, MainIdle
<1>3. CountIsExact
  <2>1. {i \in Slots : valid[i]} = {}
    OBVIOUS
  <2>2. Cardinality({i \in Slots : valid[i]}) = 0
    BY ONLY <2>1, FS_EmptySet, Zenon
  <2>3. client_count = 0 /\ Adding = 0
    BY DEF Adding, MainIdle
  <2> QED
    BY <2>2, <2>3 DEF CountIsExact, Counted
<1>4. WaitsOnlyWhenIdle /\ OneSlot /\ UnsetIsNoSlot
  BY DEF WaitsOnlyWhenIdle, OneSlot, UnsetIsNoSlot
<1>5. UnbornIsNowhere /\ FreedLeavesTable
  BY NoSessionAssumption DEF UnbornIsNowhere, FreedLeavesTable
<1> QED
  BY <1>1, <1>2, <1>3, <1>4, <1>5 DEF IInv
-----------------------------------------------------------------------------
(* TypeOK, action by action. *)
LEMMA TypeKept ==
  ASSUME TypeOK, [Next]_vars PROVE TypeOK'
<1> USE DEF TypeOK, table, session, media
<1>1. ASSUME NEW s \in Sessions, SetupAdd(s) PROVE TypeOK'
  <2>1. PICK i \in Slots : /\ valid' = [valid EXCEPT ![i] = TRUE]
                           /\ main' = [pc |-> "add", s |-> s, i |-> i]
    BY <1>1 DEF SetupAdd
  <2>2. buffer' \in [Media -> {"null", "open"}] /\ refs' \in [Media -> Int]
    BY <1>1 DEF SetupAdd, OpenBuffer
  <2>3. main' \in [pc : MainPcs, s : SessionOrNone, i : Slots \cup {NoSlot}]
    BY <2>1 DEF MainPcs, SessionOrNone
  <2> QED
    BY <1>1, <2>1, <2>2, <2>3 DEF SetupAdd
<1>13. ASSUME NEW s \in Sessions, SetupNoSlot(s) PROVE TypeOK'
  BY <1>13 DEF SetupNoSlot, OpenBuffer
<1>2. ASSUME Add PROVE TypeOK'
  <2>1. CASE AddSession
    BY <2>1 DEF AddSession, MainPcs, SessionOrNone
  <2>2. CASE AddCount
    BY <2>2 DEF AddCount, MainPcs
  <2>3. CASE AddWake
    <3>1. main' \in [pc : MainPcs, s : SessionOrNone, i : Slots \cup {NoSlot}]
      BY <2>3 DEF AddWake, MainIdle, MainPcs, SessionOrNone
    <3>2. th' \in [pc : ThPcs, i : Slots]
      BY <2>3 DEF AddWake, ThPcs
    <3>3. sched_id' \in [Sessions -> Slots \cup {NoSlot}]
      BY <2>3 DEF AddWake
    <3>4. life' \in [Sessions -> {"none", "live", "removed"}]
      BY <2>3 DEF AddWake
    <3> QED
      BY <2>3, <3>1, <3>2, <3>3, <3>4 DEF AddWake, MainIdle
  <2> QED
    BY <1>2, <2>1, <2>2, <2>3 DEF Add
<1>3. ASSUME NEW s \in Sessions, PlayStart(s) PROVE TypeOK'
  <2>1. sched_id[s] \in Slots \cup {NoSlot}
    OBVIOUS
  <2>2. Scheduled(s) \in SessionOrNone
    BY DEF Scheduled, SessionOrNone
  <2>3. CASE Startable(s)
    <3>1. Scheduled(s) \in Sessions
      BY <2>2, <2>3 DEF Startable, Reachable, Dangling, SessionOrNone
    <3>2. MediaOf[Scheduled(s)] \in Media
      BY <3>1, MediaAssumption
    <3>3. cons' \in [Sessions -> Nat] /\ refs' \in [Media -> Int]
      BY <1>3, <2>3, <3>1, <3>2 DEF PlayStart, StartRef
    <3>4. main' = [pc |-> "start", s |-> Scheduled(s), i |-> sched_id[s]]
      BY <1>3, <2>3 DEF PlayStart
    <3>5. main' \in [pc : MainPcs, s : SessionOrNone, i : Slots \cup {NoSlot}]
      BY <2>1, <2>2, <3>4 DEF MainPcs
    <3> QED
      BY <1>3, <3>1, <3>3, <3>4, <3>5 DEF PlayStart
  <2>4. CASE ~Startable(s)
    BY <1>3, <2>4 DEF PlayStart, MainPcs
  <2> QED
    BY <2>3, <2>4
<1>4. ASSUME Play PROVE TypeOK'
  <2>1. CASE PlayUnpause
    BY <2>1 DEF PlayUnpause, MainPcs
  <2>2. CASE PlayStarted
    <3>1. main' \in [pc : MainPcs, s : SessionOrNone, i : Slots \cup {NoSlot}]
      BY <2>2 DEF PlayStarted, MainIdle, MainPcs, SessionOrNone
    <3> QED
      BY <2>2, <3>1 DEF PlayStarted, MainIdle
  <2> QED
    BY <1>4, <2>1, <2>2 DEF Play
<1>5. ASSUME NEW s \in Sessions, PlayResume(s) \/ Pause(s) PROVE TypeOK'
  BY <1>5 DEF PlayResume, Pause, MainPcs
<1>6. ASSUME NEW s \in Sessions, Remove(s) PROVE TypeOK'
  <2>1. valid' \in [Slots -> BOOLEAN]
    BY <1>6 DEF Remove
  <2>2. life' \in [Sessions -> {"none", "live", "removed"}]
    BY <1>6 DEF Remove
  <2>3. client_count' \in Int
    BY <1>6 DEF Remove
  <2> QED
    BY <1>6, <2>1, <2>2, <2>3 DEF Remove
<1>7. NextSlot => th' \in [pc : ThPcs, i : Slots]
  BY NAssumption DEF NextSlot, ThPcs, Slots
<1>8. Crash => th' \in [pc : ThPcs, i : Slots]
  BY DEF Crash, ThPcs
<1>9. ASSUME TestCount \/ TestValid \/ TestPause \/ PlayOk \/ TestSession PROVE TypeOK'
  <2>1. th' \in [pc : ThPcs, i : Slots]
    BY <1>7, <1>8, <1>9 DEF TestCount, TestValid, TestPause, PlayOk, TestSession, ThPcs
  <2> QED
    BY <1>9, <2>1 DEF TestCount, TestValid, TestPause, PlayOk, TestSession
<1>10. ASSUME PlayEof \/ StopStarted \/ ClearSlot PROVE TypeOK'
  <2>1. th' \in [pc : ThPcs, i : Slots]
    BY <1>7, <1>10 DEF PlayEof, StopStarted, ClearSlot, ThPcs
  <2> QED
    BY <1>10, <2>1 DEF PlayEof, StopStarted, ClearSlot, SessionOrNone
<1>11. ASSUME Destroy PROVE TypeOK'
  <2>1. th' \in [pc : ThPcs, i : Slots]
    BY <1>8, <1>11 DEF Destroy, ThPcs
  <2>2. CASE Dangling(Current) \/ buffer[MediaOf[Current]] = "null"
    BY <1>11, <2>1, <2>2 DEF Destroy
  <2>3. CASE ~(Dangling(Current) \/ buffer[MediaOf[Current]] = "null")
    <3>1. Current \in Sessions
      BY <2>3 DEF Dangling, Current, SessionOrNone
    <3>2. MediaOf[Current] \in Media
      BY <3>1, MediaAssumption
    <3>3. Unrefed(Current) \in Int
      BY <3>1, <3>2 DEF Unrefed
    <3>4. refs' \in [Media -> Int] /\ buffer' \in [Media -> {"null", "open"}]
      BY <1>11, <2>3, <3>2, <3>3 DEF Destroy
    <3> QED
      BY <1>11, <2>1, <2>3, <3>1, <3>4 DEF Destroy
  <2> QED
    BY <2>2, <2>3
<1>12. CASE UNCHANGED vars
  BY <1>12 DEF vars
<1> QED
  BY <1>1, <1>2, <1>3, <1>4, <1>5, <1>6, <1>9, <1>10, <1>11, <1>12, <1>13
  DEF Next, Request, Pass
-----------------------------------------------------------------------------
(* OwnSlot.  schedule_add takes a slot that is not valid, so it is no live
   session's; the slot stays valid until its own session is removed. *)
LEMMA OwnSlotKept ==
  ASSUME TypeOK, UnsetIsNoSlot, OwnSlot, [Next]_vars PROVE OwnSlot'
<1> USE DEF TypeOK, OwnSlot, HasSlot, table, session
<1>1. ASSUME NEW s \in Sessions, SetupAdd(s) PROVE OwnSlot'
  <2>1. PICK i \in Slots : /\ ~valid[i]
                           /\ valid' = [valid EXCEPT ![i] = TRUE]
                           /\ main' = [pc |-> "add", s |-> s, i |-> i]
    BY <1>1 DEF SetupAdd
  <2> QED
    BY <1>1, <2>1 DEF SetupAdd
<1>7. ASSUME NEW s \in Sessions, SetupNoSlot(s) PROVE OwnSlot'
  <2>1. sched_id[s] \notin Slots
    BY <1>7 DEF SetupNoSlot, UnsetIsNoSlot, NoSlot, Slots
  <2> QED
    BY <1>7, <2>1 DEF SetupNoSlot
<1>2. ASSUME Add PROVE OwnSlot'
  <2>1. CASE AddSession \/ AddCount
    BY <2>1 DEF AddSession, AddCount
  <2>2. CASE AddWake
    BY <2>2 DEF AddWake, MainIdle
  <2> QED
    BY <1>2, <2>1, <2>2 DEF Add
<1>3. ASSUME NEW s \in Sessions, Remove(s) PROVE OwnSlot'
  BY <1>3 DEF Remove
<1>4. ASSUME NEW s \in Sessions, PlayStart(s) \/ PlayResume(s) \/ Pause(s) PROVE OwnSlot'
  BY <1>4 DEF PlayStart, PlayResume, Pause
<1>5. ASSUME Play PROVE OwnSlot'
  BY <1>5 DEF Play, PlayUnpause, PlayStarted, MainIdle
<1>6. ASSUME TestCount \/ Pass \/ UNCHANGED vars PROVE OwnSlot'
  BY <1>6 DEF Pass, TestCount, TestValid, TestPause, PlayOk, PlayEof, StopStarted,
              TestSession, Destroy, ClearSlot, vars
<1> QED
  BY <1>1, <1>2, <1>3, <1>4, <1>5, <1>6, <1>7 DEF Next, Request

(* UnsetIsNoSlot. *)
LEMMA UnsetKept ==
  ASSUME TypeOK, UnsetIsNoSlot, [Next]_vars PROVE UnsetIsNoSlot'
<1> USE DEF TypeOK, UnsetIsNoSlot, session
<1>1. CASE \E s \in Sessions : Request(s)
  BY <1>1 DEF Request, SetupAdd, SetupNoSlot, PlayStart, PlayResume, Pause, Remove
<1>2. CASE Add \/ Play
  BY <1>2 DEF Add, AddSession, AddCount, AddWake, Play, PlayUnpause, PlayStarted
<1>3. CASE TestCount \/ Pass \/ UNCHANGED vars
  BY <1>3 DEF Pass, TestCount, TestValid, TestPause, PlayOk, PlayEof, StopStarted,
              TestSession, Destroy, ClearSlot, vars
<1> QED
  BY <1>1, <1>2, <1>3 DEF Next

(* A table that was too small once stays so: only AddWake gives a session its
   slot, and that session was not set up before. *)
LEMMA SufficedBefore ==
  ASSUME TypeOK, OwnSlot, [Next]_vars, TableSufficed'
  PROVE  TableSufficed /\ \A s \in Sessions : ~SetupNoSlot(s) \/ sched_id[s] \in Slots
<1> USE DEF TypeOK, TableSufficed, session
<1>1. CASE \E s \in Sessions : Request(s)
  <2>1. TableSufficed
    BY <1>1 DEF Request, SetupAdd, SetupNoSlot, PlayStart, PlayResume, Pause, Remove
  <2> QED
    BY <2>1 DEF SetupNoSlot
<1>2. CASE Add
  BY <1>2 DEF Add, AddSession, AddCount, AddWake, OwnSlot, SetupNoSlot
<1>3. CASE Play
  BY <1>3 DEF Play, PlayUnpause, PlayStarted, SetupNoSlot
<1>4. CASE TestCount \/ Pass \/ UNCHANGED vars
  BY <1>4 DEF Pass, TestCount, TestValid, TestPause, PlayOk, PlayEof, StopStarted,
              TestSession, Destroy, ClearSlot, vars, SetupNoSlot
<1> QED
  BY <1>1, <1>2, <1>3, <1>4 DEF Next

(* So a step after which the table has sufficed is none of SetupNoSlot. *)
LEMMA SufficedStep ==
  ASSUME TypeOK, OwnSlot, UnsetIsNoSlot, [Next]_vars, TableSufficed'
  PROVE  TableSufficed /\ \A s \in Sessions : ~SetupNoSlot(s)
BY SufficedBefore DEF SetupNoSlot, UnsetIsNoSlot, NoSlot, Slots

(* CountIsExact. *)
LEMMA CountKept ==
  ASSUME TypeOK, OwnSlot, UnsetIsNoSlot, CountIsExact, [Next]_vars PROVE CountIsExact'
<1> SUFFICES ASSUME TableSufficed' PROVE Counted'
  BY DEF CountIsExact
<1>0. TableSufficed /\ Counted /\ \A s \in Sessions : ~SetupNoSlot(s)
  BY SufficedStep DEF CountIsExact
<1> DEFINE Valid == Cardinality({i \in Slots : valid[i]})
<1> USE DEF TypeOK, table
<1>1. ASSUME NEW s \in Sessions, SetupAdd(s) PROVE Counted'
  <2>1. PICK i \in Slots : /\ ~valid[i]
                           /\ valid' = [valid EXCEPT ![i] = TRUE]
                           /\ main' = [pc |-> "add", s |-> s, i |-> i]
    BY <1>1 DEF SetupAdd
  <2>2. Cardinality({j \in Slots : valid'[j]}) = Valid + 1
    BY <2>1, OneMore
  <2>3. Adding = 0 /\ Adding' = 1 /\ client_count' = client_count
    BY <1>1, <2>1 DEF SetupAdd, Adding
  <2> QED
    BY <1>0, <2>2, <2>3 DEF Counted
<1>2. ASSUME NEW s \in Sessions, Remove(s) PROVE Counted'
  <2>1. sched_id[s] \in Slots /\ valid[sched_id[s]]
    BY <1>0, <1>2 DEF Remove, OwnSlot, HasSlot, TableSufficed
  <2>2. valid' = [valid EXCEPT ![sched_id[s]] = FALSE]
    BY <1>2 DEF Remove
  <2>3. Cardinality({j \in Slots : valid'[j]}) = Valid - 1
    BY <2>1, <2>2, OneLess
  <2>4. Adding = 0 /\ Adding' = 0 /\ client_count' = client_count - 1
    BY <1>2 DEF Remove, Adding
  <2> QED
    BY <1>0, <2>3, <2>4 DEF Counted
<1>3. ASSUME Add PROVE Counted'
  <2>1. client_count' + Adding' = client_count + Adding /\ valid' = valid
    BY <1>3 DEF Add, AddSession, AddCount, AddWake, Adding, MainIdle
  <2> QED
    BY <1>0, <2>1 DEF Counted
<1>4. ASSUME \/ Play \/ TestCount \/ Pass \/ UNCHANGED vars
             \/ \E s \in Sessions : PlayStart(s) \/ PlayResume(s) \/ Pause(s)
      PROVE  Counted'
  <2>1. client_count' = client_count /\ valid' = valid
    BY <1>4 DEF Play, PlayUnpause, PlayStarted, PlayStart, PlayResume, Pause, TestCount,
                Pass, TestValid, TestPause, PlayOk, PlayEof, StopStarted,
                TestSession, Destroy, ClearSlot, vars
  <2>2. Adding' = Adding
    BY <1>4 DEF Play, PlayUnpause, PlayStarted, PlayStart, PlayResume, Pause, TestCount,
                Pass, TestValid, TestPause, PlayOk, PlayEof, StopStarted,
                TestSession, Destroy, ClearSlot, vars, MainIdle, Adding
  <2> QED
    BY <1>0, <2>1, <2>2 DEF Counted
<1> QED
  BY <1>0, <1>1, <1>2, <1>3, <1>4 DEF Next, Request

(* WaitsOnlyWhenIdle.  A session is removed only while one is counted. *)
LEMMA WaitKept ==
  ASSUME TypeOK, OwnSlot, UnsetIsNoSlot, CountIsExact, WaitsOnlyWhenIdle, [Next]_vars
  PROVE  WaitsOnlyWhenIdle'
<1> SUFFICES ASSUME TableSufficed'
             PROVE  th'.pc = "wait" => client_count' = 0 \/ main'.pc = "wake"
  BY DEF WaitsOnlyWhenIdle
<1> DEFINE Waits == th.pc = "wait" => client_count = 0 \/ main.pc = "wake"
<1>0. TableSufficed /\ Counted /\ Waits /\ \A s \in Sessions : ~SetupNoSlot(s)
  BY SufficedStep DEF CountIsExact, WaitsOnlyWhenIdle
<1> USE <1>0 DEF TypeOK, table
<1>1. ASSUME NEW s \in Sessions, Remove(s) PROVE Waits'
  <2>1. sched_id[s] \in Slots /\ valid[sched_id[s]]
    BY <1>1 DEF Remove, OwnSlot, HasSlot, TableSufficed
  <2>2. Cardinality({i \in Slots : valid[i]}) \in Nat \ {0}
    BY <2>1, SomeValid
  <2>3. client_count # 0
    BY <1>1, <2>2 DEF Remove, Counted, Adding
  <2> QED
    BY <1>1, <2>3 DEF Remove
<1>2. ASSUME Add PROVE Waits'
  BY <1>2 DEF Add, AddSession, AddCount, AddWake, MainIdle
<1>3. ASSUME Play PROVE Waits'
  BY <1>3 DEF Play, PlayUnpause, PlayStarted, MainIdle
<1>4. ASSUME NEW s \in Sessions, SetupAdd(s) \/ PlayStart(s) \/ PlayResume(s) \/ Pause(s)
      PROVE  Waits'
  BY <1>4 DEF SetupAdd, PlayStart, PlayResume, Pause
<1>5. ASSUME TestCount PROVE Waits'
  BY <1>5 DEF TestCount
<1>6. ASSUME Pass PROVE Waits'
  BY <1>6 DEF Pass, TestValid, TestPause, PlayOk, PlayEof, StopStarted,
              TestSession, Destroy, ClearSlot, NextSlot, Crash
<1>7. CASE UNCHANGED vars
  BY <1>7 DEF vars
<1> QED
  BY <1>1, <1>2, <1>3, <1>4, <1>5, <1>6, <1>7 DEF Next, Request
-----------------------------------------------------------------------------
(* Where the table and the freed sessions may change. *)
LEMMA TableKept ==
  ASSUME \/ Play \/ TestCount \/ TestValid \/ TestPause \/ PlayOk \/ PlayEof
         \/ StopStarted \/ TestSession \/ UNCHANGED vars \/ AddCount \/ AddWake
         \/ \E s \in Sessions : Request(s)
  PROVE  rtp_session' = rtp_session /\ freed' = freed
BY DEF Play, PlayUnpause, PlayStarted, TestCount, TestValid, TestPause, PlayOk, PlayEof,
       StopStarted, TestSession, vars, table, session, AddCount, AddWake, Request, SetupAdd, SetupNoSlot,
       PlayStart, PlayResume, Pause, Remove

(* A session that was unborn before a step other than AddSession still is
   unborn if it is after the step. *)
LEMMA UnbornBefore ==
  ASSUME TypeOK, OwnSlot, [Next]_vars, NEW s \in Sessions, Unborn(s)'
  PROVE  Unborn(s)
<1> USE DEF TypeOK, Unborn, session
<1>1. CASE \E t \in Sessions : Request(t)
  BY <1>1 DEF Request, SetupAdd, SetupNoSlot, PlayStart, PlayResume, Pause, Remove
<1>2. CASE Add
  BY <1>2 DEF Add, AddSession, AddCount, AddWake, MainIdle
<1>3. CASE Play
  BY <1>3 DEF Play, PlayUnpause, PlayStarted, MainIdle
<1>4. CASE TestCount \/ Pass \/ UNCHANGED vars
  BY <1>4 DEF Pass, TestCount, TestValid, TestPause, PlayOk, PlayEof, StopStarted,
              TestSession, Destroy, ClearSlot, vars
<1> QED
  BY <1>1, <1>2, <1>3, <1>4 DEF Next

LEMMA UnbornKept ==
  ASSUME TypeOK, OwnSlot, UnbornIsNowhere, [Next]_vars PROVE UnbornIsNowhere'
<1> SUFFICES ASSUME NEW s \in Sessions, Unborn(s)'
             PROVE  s \notin freed' /\ \A i \in Slots : rtp_session'[i] # s
  BY DEF UnbornIsNowhere
<1>1. s \notin freed /\ \A i \in Slots : rtp_session[i] # s
  BY UnbornBefore DEF UnbornIsNowhere
<1>2. CASE AddSession
  <2>1. main.s # s
    BY <1>2 DEF AddSession, Unborn, TypeOK, session, OwnSlot
  <2> QED
    BY <1>1, <1>2, <2>1 DEF AddSession, TypeOK, session
<1>3. CASE Destroy
  <2>1. th.i \in Slots
    BY DEF TypeOK
  <2> QED
    BY <1>1, <1>3, <2>1 DEF Destroy, table, Current
<1>4. CASE ClearSlot
  BY <1>1, <1>4, NoSessionAssumption DEF ClearSlot, TypeOK, session
<1>5. CASE ~(AddSession \/ Destroy \/ ClearSlot)
  <2>1. rtp_session' = rtp_session /\ freed' = freed
    BY <1>5, TableKept DEF Next, Add, Pass
  <2> QED
    BY <1>1, <2>1
<1> QED
  BY <1>2, <1>3, <1>4, <1>5

LEMMA OneSlotKept ==
  ASSUME TypeOK, OwnSlot, UnbornIsNowhere, OneSlot, [Next]_vars PROVE OneSlot'
<1>1. CASE AddSession
  <2>1. main.s \in Sessions /\ main.i \in Slots /\ Unborn(main.s)
    BY <1>1 DEF AddSession, TypeOK, OwnSlot, Unborn
  <2>2. \A i \in Slots : rtp_session[i] # main.s
    BY <2>1 DEF UnbornIsNowhere
  <2> QED
    BY <1>1, <2>1, <2>2 DEF AddSession, OneSlot, TypeOK
<1>2. CASE ClearSlot
  BY <1>2 DEF ClearSlot, OneSlot, TypeOK
<1>3. CASE Destroy
  BY <1>3 DEF Destroy, OneSlot, table
<1>4. CASE ~(AddSession \/ Destroy \/ ClearSlot)
  <2>1. rtp_session' = rtp_session
    BY <1>4, TableKept DEF Next, Add, Pass
  <2> QED
    BY <2>1 DEF OneSlot
<1> QED
  BY <1>1, <1>2, <1>3, <1>4

(* FreedLeavesTable.  Destroy frees the session of the pass's slot, which is in
   no other slot; only ClearSlot moves the pass on, and it empties the slot. *)
LEMMA FreedKept ==
  ASSUME TypeOK, OwnSlot, UnbornIsNowhere, OneSlot, FreedLeavesTable, [Next]_vars
  PROVE  FreedLeavesTable'
<1> SUFFICES ASSUME NEW i \in Slots, rtp_session'[i] \in freed'
             PROVE  th'.pc \in {"clear", "crash"} /\ th'.i = i
  BY DEF FreedLeavesTable
<1>0. th \in [pc : ThPcs, i : Slots] /\ NoSession \notin freed
  BY NoSessionAssumption DEF TypeOK
<1>1. CASE AddSession
  <2>1. main.s \in Sessions /\ main.i \in Slots /\ Unborn(main.s)
    BY <1>1 DEF AddSession, TypeOK, OwnSlot, Unborn
  <2>2. i # main.i
    BY <1>1, <2>1 DEF AddSession, UnbornIsNowhere, session, TypeOK
  <2> QED
    BY <1>1, <2>1, <2>2 DEF AddSession, FreedLeavesTable, session, TypeOK
<1>2. CASE Destroy
  <2>1. CASE Dangling(Current) \/ buffer[MediaOf[Current]] = "null"
    <3>1. rtp_session[i] \in freed
      BY <1>2, <2>1 DEF Destroy, table
    <3> QED
      BY <1>2, <3>1 DEF Destroy, FreedLeavesTable
  <2>2. CASE ~(Dangling(Current) \/ buffer[MediaOf[Current]] = "null")
    <3>1. freed' = freed \cup {Current} /\ rtp_session' = rtp_session /\ th' = [th EXCEPT !.pc = "clear"]
      BY <1>2, <2>2 DEF Destroy, table
    <3>2. rtp_session[i] \notin freed
      BY <1>2 DEF Destroy, FreedLeavesTable
    <3>3. rtp_session[i] = rtp_session[th.i] /\ rtp_session[i] # NoSession
      BY <2>2, <3>1, <3>2 DEF Current, Dangling
    <3> QED
      BY <1>0, <3>1, <3>3 DEF OneSlot
  <2> QED
    BY <2>1, <2>2
<1>3. CASE ClearSlot
  BY <1>0, <1>3 DEF ClearSlot, FreedLeavesTable, session, TypeOK
<1>4. CASE ~(AddSession \/ Destroy \/ ClearSlot)
  <2>1. rtp_session[i] \in freed
    BY <1>4, TableKept DEF Next, Add, Pass
  <2>2. th.pc \in {"clear", "crash"} /\ th.i = i
    BY <2>1 DEF FreedLeavesTable
  <2>3. th' = th
    <3>1. CASE (\E s \in Sessions : Request(s)) \/ Add \/ Play \/ UNCHANGED vars
      BY <3>1, <2>2 DEF Request, SetupAdd, SetupNoSlot, PlayStart, PlayResume, Pause, Remove,
         Add, AddSession, AddCount, AddWake, Play, PlayUnpause, PlayStarted, vars
    <3>2. CASE TestCount \/ Pass
      BY <1>4, <2>2, <3>2 DEF Pass, TestCount, TestValid, TestPause, PlayOk, PlayEof,
         StopStarted, TestSession
    <3> QED
      BY <3>1, <3>2 DEF Next
  <2> QED
    BY <2>2, <2>3
<1> QED
  BY <1>1, <1>2, <1>3, <1>4

-----------------------------------------------------------------------------
LEMMA IInvInvariant == Spec => []IInv
<1>1. IInv /\ [Next]_vars => IInv'
  BY TypeKept, OwnSlotKept, UnsetKept, CountKept, WaitKept, OneSlotKept, UnbornKept, FreedKept DEF IInv
<1> QED
  BY InitIInv, <1>1, PTL DEF Spec

(* The types of the table, of the sessions and of the two program counters;
   every slot that is used lies inside sched[]. *)
THEOREM TypeCorrect == Spec => []TypeOK
<1>1. IInv => TypeOK
  BY DEF IInv
<1> QED
  BY IInvInvariant, <1>1, PTL

(* client_count is the number of valid slots, for any N and as long as every
   SETUP got a slot, although schedule_add
   and schedule_remove change the two at different steps and schedule_do reads
   them in between. *)
THEOREM CountCorrect == Spec => []CountIsExact
<1>1. IInv => CountIsExact
  BY DEF IInv
<1> QED
  BY IInvInvariant, <1>1, PTL

(* The slot number that RTSP keeps for a session is a valid slot that no other
   listed session has. *)
THEOREM SlotsAreOwned == Spec => []OwnSlot
<1>1. IInv => OwnSlot
  BY DEF IInv
<1> QED
  BY IInvInvariant, <1>1, PTL

(* No wake-up is lost between schedule_add and the scheduler thread, as long as
   every SETUP got a slot. *)
THEOREM NoLostWakeup == Spec => []WaitsOnlyWhenIdle
<1>1. IInv => WaitsOnlyWhenIdle
  BY DEF IInv
<1> QED
  BY IInvInvariant, <1>1, PTL

(* A freed RTP_session is in the table only while the pass is about to clear
   its slot, so it is not destroyed a second time. *)
THEOREM NoDoubleDestroy == Spec => []FreedLeavesTable
<1>1. IInv => FreedLeavesTable
  BY DEF IInv
<1> QED
  BY IInvInvariant, <1>1, PTL
-----------------------------------------------------------------------------
(* As long as no SETUP met a pass: the pointer of a listed session is in its
   slot, and a slot that the pass reaps stays invalid under it and holds a
   session that was removed. *)
ListedIsStored ==
  /\ \A s \in Sessions : HasSlot(s) => rtp_session[sched_id[s]] = s
  /\ main.pc \in {"count", "wake"} => rtp_session[main.i] = main.s
LeftIsRemoved ==
  \A i \in Slots : (~valid[i] /\ rtp_session[i] # NoSession) => life[rtp_session[i]] = "removed"
SerialInv ==
  ~met => /\ ListedIsStored
          /\ LeftIsRemoved
          /\ main.pc \in {"add", "count"} => BetweenPasses
          /\ th.pc \in {"reap", "destroy", "clear"} => ~valid[th.i]
          /\ OnlyRemovedIsDestroyed

LEMMA SerialInit == Init => SerialInv
BY DEF Init, SerialInv, ListedIsStored, LeftIsRemoved, OnlyRemovedIsDestroyed, HasSlot, MainIdle

LEMMA SerialKept ==
  ASSUME IInv, SerialInv, [Next]_vars PROVE SerialInv'
<1> SUFFICES ASSUME ~met' PROVE SerialInv'
  BY DEF SerialInv
<1>1. ~met
  BY DEF Next, Request, Add, Play, Pass, SetupAdd, SetupNoSlot, PlayStart, PlayResume, Pause, Remove,
         AddSession, AddCount, AddWake, PlayUnpause, PlayStarted, TestCount, TestValid, TestPause,
         PlayOk, PlayEof, StopStarted, TestSession, Destroy, ClearSlot, vars
<1>2. /\ TypeOK /\ OwnSlot /\ UnsetIsNoSlot
      /\ ListedIsStored /\ LeftIsRemoved /\ OnlyRemovedIsDestroyed
      /\ main.pc \in {"add", "count"} => BetweenPasses
      /\ th.pc \in {"reap", "destroy", "clear"} => ~valid[th.i]
  BY <1>1 DEF IInv, SerialInv
<1>3. ASSUME NEW s \in Sessions, SetupAdd(s) PROVE SerialInv'
  <2>1. PICK i \in Slots : /\ ~valid[i] /\ valid' = [valid EXCEPT ![i] = TRUE]
                           /\ main' = [pc |-> "add", s |-> s, i |-> i]
    BY <1>3 DEF SetupAdd
  <2>2. BetweenPasses /\ UNCHANGED <<rtp_session, session, th>>
    BY <1>1, <1>3 DEF SetupAdd
  <2> QED
    BY <1>2, <2>1, <2>2 DEF SerialInv, ListedIsStored, LeftIsRemoved, OnlyRemovedIsDestroyed, HasSlot,
       BetweenPasses, session, TypeOK
<1>4. ASSUME NEW s \in Sessions, SetupNoSlot(s) PROVE SerialInv'
  <2>1. /\ life[s] = "none" /\ life' = [life EXCEPT ![s] = "live"]
        /\ UNCHANGED <<table, freed, sched_id, main, th>>
    BY <1>4 DEF SetupNoSlot
  <2>2. sched_id[s] \notin Slots
    BY <1>2, <2>1 DEF UnsetIsNoSlot, NoSlot, Slots
  <2> QED
    BY <1>2, <2>1, <2>2 DEF SerialInv, ListedIsStored, LeftIsRemoved, OnlyRemovedIsDestroyed, HasSlot,
       BetweenPasses, table, TypeOK, SessionOrNone
<1>5. CASE AddSession
  <2>1. /\ main.s \in Sessions /\ main.i \in Slots /\ valid[main.i]
        /\ \A s \in Sessions : HasSlot(s) => sched_id[s] # main.i
    BY <1>2, <1>5 DEF AddSession, TypeOK, OwnSlot
  <2> QED
    BY <1>2, <1>5, <2>1 DEF AddSession, SerialInv, ListedIsStored, LeftIsRemoved, OnlyRemovedIsDestroyed,
       HasSlot, BetweenPasses, session, TypeOK
<1>6. CASE AddCount
  BY <1>2, <1>6 DEF AddCount, SerialInv, ListedIsStored, LeftIsRemoved, OnlyRemovedIsDestroyed,
     HasSlot, BetweenPasses, session, TypeOK
<1>7. CASE AddWake
  <2>1. /\ main.s \in Sessions /\ main.i \in Slots /\ life[main.s] = "none" /\ main.pc = "wake"
        /\ rtp_session[main.i] = main.s
    BY <1>2, <1>7 DEF AddWake, TypeOK, OwnSlot, ListedIsStored
  <2>2. /\ life' = [life EXCEPT ![main.s] = "live"] /\ sched_id' = [sched_id EXCEPT ![main.s] = main.i]
        /\ main'.pc = "idle" /\ UNCHANGED <<table, freed>>
    BY <1>7 DEF AddWake, MainIdle
  <2>3. th'.pc \in {"reap", "destroy", "clear"} => th' = th
    BY <1>2, <1>7 DEF AddWake, TypeOK
  <2>4. ListedIsStored'
    BY <1>2, <2>1, <2>2 DEF ListedIsStored, HasSlot, table, TypeOK
  <2>5. LeftIsRemoved' /\ OnlyRemovedIsDestroyed'
    BY <1>2, <2>1, <2>2 DEF LeftIsRemoved, OnlyRemovedIsDestroyed, table, TypeOK, SessionOrNone
  <2> QED
    BY <1>2, <2>2, <2>3, <2>4, <2>5 DEF SerialInv, table
<1>8. ASSUME NEW s \in Sessions, Remove(s) PROVE SerialInv'
  <2>1. /\ life[s] = "live" /\ life' = [life EXCEPT ![s] = "removed"]
        /\ valid' = [i \in Slots |-> valid[i] /\ i # sched_id[s]]
        /\ main.pc = "idle" /\ UNCHANGED <<rtp_session, freed, sched_id, main, th>>
    BY <1>8 DEF Remove
  <2>2. ListedIsStored'
    BY <1>2, <2>1 DEF ListedIsStored, HasSlot, TypeOK
  <2>3. LeftIsRemoved'
    BY <1>2, <2>1 DEF LeftIsRemoved, ListedIsStored, HasSlot, TypeOK, SessionOrNone
  <2>4. OnlyRemovedIsDestroyed'
    BY <1>2, <2>1 DEF OnlyRemovedIsDestroyed, TypeOK
  <2>5. th'.pc \in {"reap", "destroy", "clear"} => ~valid'[th'.i]
    BY <1>2, <2>1 DEF TypeOK
  <2> QED
    BY <2>1, <2>2, <2>3, <2>4, <2>5 DEF SerialInv
<1>9. CASE Destroy
  <2>1. th.pc = "destroy" /\ th.i \in Slots /\ UNCHANGED <<table, life, sched_id, main>>
    BY <1>2, <1>9 DEF Destroy, TypeOK
  <2>2. freed' = freed \/ (Current # NoSession /\ freed' = freed \cup {Current})
    BY <1>9 DEF Destroy, Dangling
  <2>3. OnlyRemovedIsDestroyed'
    BY <1>2, <2>1, <2>2 DEF OnlyRemovedIsDestroyed, LeftIsRemoved, Current
  <2>4. th'.pc \in {"reap", "destroy", "clear"} => th'.i = th.i
    BY <1>2, <1>9 DEF Destroy, Crash, TypeOK
  <2>5. main.pc \notin {"add", "count"}
    BY <1>2, <2>1 DEF BetweenPasses
  <2> QED
    BY <1>2, <2>1, <2>3, <2>4, <2>5 DEF SerialInv, ListedIsStored, LeftIsRemoved, HasSlot, table
<1>10. CASE ClearSlot
  <2>1. th.pc = "clear" /\ th.i \in Slots /\ ~valid[th.i] /\ UNCHANGED <<valid, session, main>>
    BY <1>2, <1>10 DEF ClearSlot, TypeOK
  <2>2. rtp_session' = [rtp_session EXCEPT ![th.i] = NoSession]
    BY <1>10 DEF ClearSlot
  <2>3. ListedIsStored'
    BY <1>2, <2>1, <2>2 DEF ListedIsStored, HasSlot, OwnSlot, session, TypeOK
  <2>4. LeftIsRemoved' /\ OnlyRemovedIsDestroyed'
    BY <1>2, <2>1, <2>2 DEF LeftIsRemoved, OnlyRemovedIsDestroyed, session, TypeOK
  <2>5. th'.pc \notin {"reap", "destroy", "clear"}
    BY <1>10 DEF ClearSlot, NextSlot
  <2>6. main'.pc \notin {"add", "count"}
    BY <1>2, <2>1 DEF BetweenPasses
  <2> QED
    BY <2>3, <2>4, <2>5, <2>6 DEF SerialInv
<1>11. ASSUME \/ TestCount \/ TestValid \/ TestPause \/ PlayOk \/ PlayEof \/ StopStarted \/ TestSession
       PROVE  SerialInv'
  <2>1. UNCHANGED <<table, life, freed, sched_id, main>>
    BY <1>11 DEF TestCount, TestValid, TestPause, PlayOk, PlayEof, StopStarted, TestSession, table, session
  <2>2. main.pc \notin {"add", "count"}
    BY <1>2, <1>11 DEF BetweenPasses, Locked, TestCount, TestValid, TestPause, PlayOk, PlayEof, StopStarted,
       TestSession
  <2>3. th'.pc \in {"reap", "destroy", "clear"} => ~valid[th'.i]
    BY <1>2, <1>11 DEF TestCount, TestValid, TestPause, PlayOk, PlayEof, StopStarted, TestSession,
       NextSlot, Crash, TypeOK
  <2> QED
    BY <1>2, <2>1, <2>2, <2>3 DEF SerialInv, ListedIsStored, LeftIsRemoved, OnlyRemovedIsDestroyed, HasSlot,
       table
<1>12. ASSUME \/ Play \/ UNCHANGED vars
              \/ \E s \in Sessions : PlayStart(s) \/ PlayResume(s) \/ Pause(s)
       PROVE  SerialInv'
  <2>1. UNCHANGED <<table, life, freed, sched_id, th>>
    BY <1>12 DEF Play, PlayUnpause, PlayStarted, PlayStart, PlayResume, Pause, vars, table, session
  <2>2. main'.pc \in {"add", "count", "wake"} => main' = main
    BY <1>2, <1>12 DEF Play, PlayUnpause, PlayStarted, PlayStart, PlayResume, Pause, vars, MainIdle, TypeOK
  <2> QED
    BY <1>2, <2>1, <2>2 DEF SerialInv, ListedIsStored, LeftIsRemoved, OnlyRemovedIsDestroyed, HasSlot,
       BetweenPasses, table
<1> QED
  BY <1>3, <1>4, <1>5, <1>6, <1>7, <1>8, <1>9, <1>10, <1>11, <1>12 DEF Next, Request, Add, Pass

(* Only removed sessions are destroyed, as long as no SETUP meets a pass,
   although TEARDOWN and PLAY meet it as they like (schedule_do.c:78-85). *)
THEOREM SerialPassCorrect == Spec => []SerialPassIsSafe
<1>1. IInv /\ SerialInv /\ [Next]_vars => SerialInv'
  BY SerialKept
<1>2. SerialInv => SerialPassIsSafe
  BY DEF SerialInv, SerialPassIsSafe
<1> QED
  BY IInvInvariant, SerialInit, <1>1, <1>2, PTL DEF Spec
-----------------------------------------------------------------------------
(* Without live sources, as long as no SETUP meets a pass and each gets a slot:
   a valid slot has its session once schedule_add has stored it, the pass has
   its session in hand, only sessions with a consumer are sent, and the buffer
   of a session is open until the session is freed. *)
ValidHasSession ==
  \A i \in Slots : valid[i] => rtp_session[i] \in Sessions \/ (main.pc = "add" /\ main.i = i)
PassHasSession ==
  /\ th.pc \in {"pause", "play", "stop", "destroy"} => rtp_session[th.i] \in Sessions
  /\ th.pc = "play" => cons[rtp_session[th.i]] > 0
PlayedHasConsumer ==
  /\ \A s \in Sessions : ~pause[s] \/ started[s] => cons[s] > 0
  /\ main.pc \in {"start", "started"} => cons[main.s] > 0
BufferIsOpen ==
  /\ \A s \in Sessions : life[s] # "none" /\ s \notin freed => buffer[MediaOf[s]] = "open"
  /\ main.pc \in {"add", "count", "wake"} => buffer[MediaOf[main.s]] = "open"
StaleInv ==
  Undisturbed => ~Crashed /\ ValidHasSession /\ PassHasSession /\ PlayedHasConsumer /\ BufferIsOpen

LEMMA StaleInit == Init => StaleInv
BY NoSessionAssumption DEF Init, StaleInv, Crashed, ValidHasSession, PassHasSession, PlayedHasConsumer,
   BufferIsOpen, MainIdle

(* A disturbance stays. *)
LEMMA UndisturbedBefore ==
  ASSUME TypeOK, OwnSlot, [Next]_vars, Undisturbed'
  PROVE  Undisturbed
<1>1. ~met
  BY DEF Undisturbed, Next, Request, Add, Play, Pass, SetupAdd, SetupNoSlot, PlayStart, PlayResume, Pause,
         Remove, AddSession, AddCount, AddWake, PlayUnpause, PlayStarted, TestCount, TestValid, TestPause,
         PlayOk, PlayEof, StopStarted, TestSession, Destroy, ClearSlot, vars
<1>2. ASSUME NEW s \in Sessions, life[s] # "none" PROVE sched_id[s] \in Slots
  <2>1. life'[s] # "none"
    BY <1>2 DEF Next, Request, Add, Play, Pass, SetupAdd, SetupNoSlot, PlayStart, PlayResume, Pause,
       Remove, AddSession, AddCount, AddWake, PlayUnpause, PlayStarted, TestCount, TestValid, TestPause,
       PlayOk, PlayEof, StopStarted, TestSession, Destroy, ClearSlot, vars, session, TypeOK
  <2>2. sched_id'[s] \in Slots
    BY <2>1 DEF Undisturbed, TableSufficed
  <2>3. CASE AddWake
    <3>1. sched_id' = [sched_id EXCEPT ![main.s] = main.i] /\ life' = [life EXCEPT ![main.s] = "live"]
      BY <2>3 DEF AddWake
    <3>2. life[main.s] = "none"
      BY <2>3 DEF AddWake, OwnSlot
    <3> QED
      BY <1>2, <2>2, <3>1, <3>2 DEF TypeOK
  <2>4. CASE ~AddWake
    <3>1. sched_id' = sched_id
      BY <2>4 DEF Next, Request, Add, Play, Pass, SetupAdd, SetupNoSlot, PlayStart, PlayResume, Pause,
         Remove, AddSession, AddCount, PlayUnpause, PlayStarted, TestCount, TestValid, TestPause,
         PlayOk, PlayEof, StopStarted, TestSession, Destroy, ClearSlot, vars, session
    <3> QED
      BY <2>2, <3>1
  <2> QED
    BY <2>3, <2>4
<1> QED
  BY <1>1, <1>2 DEF Undisturbed, TableSufficed

(* What a handler reaches through the slot of a listed session is the session. *)
LEMMA ListedIsReached ==
  ASSUME IInv, SerialInv, Undisturbed, NEW s \in Sessions, life[s] = "live"
  PROVE  Scheduled(s) = s /\ Reachable(s) /\ s \notin freed
<1>1. sched_id[s] \in Slots /\ rtp_session[sched_id[s]] = s
  BY DEF Undisturbed, TableSufficed, SerialInv, ListedIsStored, HasSlot
<1>2. s \notin freed /\ s # NoSession
  BY NoSessionAssumption DEF Undisturbed, SerialInv, OnlyRemovedIsDestroyed
<1> QED
  BY <1>1, <1>2 DEF Scheduled, Reachable, Dangling

(* The pass does not have a freed session in hand. *)
LEMMA PassIsFresh ==
  ASSUME IInv, StaleInv, Undisturbed, th.pc \in {"pause", "play", "destroy"}
  PROVE  Current \in Sessions /\ ~Dangling(Current)
<1>1. th.i \in Slots /\ Current \in Sessions
  BY DEF IInv, TypeOK, StaleInv, PassHasSession, Current
<1>2. Current \notin freed
  BY <1>1 DEF IInv, FreedLeavesTable, Current
<1> QED
  BY <1>1, <1>2, NoSessionAssumption DEF Dangling

LEMMA StaleKept ==
  ASSUME Live = {}, IInv, SerialInv, StaleInv, [Next]_vars PROVE StaleInv'
<1> SUFFICES ASSUME Undisturbed'
             PROVE  ~Crashed' /\ ValidHasSession' /\ PassHasSession' /\ PlayedHasConsumer' /\ BufferIsOpen'
  BY DEF StaleInv
<1> DEFINE Goal == ~Crashed' /\ ValidHasSession' /\ PassHasSession' /\ PlayedHasConsumer' /\ BufferIsOpen'
<1>1. /\ TypeOK /\ OwnSlot /\ UnbornIsNowhere /\ Undisturbed
      /\ ~Crashed /\ ValidHasSession /\ PassHasSession /\ PlayedHasConsumer /\ BufferIsOpen
  BY UndisturbedBefore DEF IInv, StaleInv
<1>2. /\ LeftIsRemoved /\ OnlyRemovedIsDestroyed
      /\ main.pc \in {"add", "count"} => BetweenPasses
      /\ th.pc \in {"reap", "destroy", "clear"} => ~valid[th.i]
  BY <1>1 DEF SerialInv, Undisturbed
<1>3. \A s, t \in Sessions : MediaOf[s] = MediaOf[t] => s = t
  BY StoredAssumption
<1>4. MediaOf \in [Sessions -> Media]
  BY MediaAssumption
<1>5. ASSUME NEW s \in Sessions, SetupAdd(s) PROVE Goal
  <2>1. PICK i \in Slots : /\ ~valid[i] /\ valid' = [valid EXCEPT ![i] = TRUE]
                           /\ main' = [pc |-> "add", s |-> s, i |-> i]
    BY <1>5 DEF SetupAdd
  <2>2. /\ UNCHANGED <<rtp_session, session, th>> /\ OpenBuffer(MediaOf[s]) /\ main.pc = "idle"
    BY <1>5 DEF SetupAdd
  <2>3. buffer'[MediaOf[s]] = "open" /\ \A m \in Media : buffer[m] = "open" => buffer'[m] = "open"
    BY <1>1, <1>4, <2>2 DEF OpenBuffer, media, TypeOK
  <2>4. ValidHasSession'
    BY <1>1, <2>1, <2>2 DEF ValidHasSession, TypeOK
  <2>5. PassHasSession' /\ PlayedHasConsumer' /\ ~Crashed'
    BY <1>1, <2>1, <2>2 DEF PassHasSession, PlayedHasConsumer, Crashed, session
  <2>6. BufferIsOpen'
    BY <1>1, <1>4, <2>1, <2>2, <2>3 DEF BufferIsOpen, session
  <2> QED
    BY <2>4, <2>5, <2>6
<1>6. ASSUME NEW s \in Sessions, SetupNoSlot(s) PROVE Goal
  <2>1. life'[s] = "live" /\ sched_id'[s] = sched_id[s] /\ life[s] = "none"
    BY <1>1, <1>6 DEF SetupNoSlot, TypeOK
  <2>2. sched_id'[s] \in Slots
    BY <2>1 DEF Undisturbed, TableSufficed
  <2>3. sched_id[s] \notin Slots
    BY <2>1 DEF IInv, UnsetIsNoSlot, NoSlot, Slots
  <2> QED
    BY <2>1, <2>2, <2>3
<1>7. CASE AddSession
  <2>1. main.s \in Sessions /\ main.i \in Slots /\ main.pc = "add" /\ BetweenPasses
    BY <1>1, <1>2, <1>7 DEF AddSession, TypeOK
  <2>2. /\ rtp_session' = [rtp_session EXCEPT ![main.i] = main.s] /\ main' = [main EXCEPT !.pc = "count"]
        /\ UNCHANGED <<valid, session, media, th>>
    BY <1>7 DEF AddSession
  <2>3. ValidHasSession'
    BY <1>1, <2>1, <2>2 DEF ValidHasSession, TypeOK
  <2>4. PassHasSession'
    BY <2>1, <2>2 DEF PassHasSession, BetweenPasses
  <2>5. PlayedHasConsumer' /\ BufferIsOpen' /\ ~Crashed'
    BY <1>1, <2>1, <2>2 DEF PlayedHasConsumer, BufferIsOpen, Crashed, session, media, TypeOK
  <2> QED
    BY <2>3, <2>4, <2>5
<1>8. CASE AddCount
  BY <1>1, <1>8 DEF AddCount, Crashed, ValidHasSession, PassHasSession, PlayedHasConsumer, BufferIsOpen,
     session, media, TypeOK
<1>9. CASE AddWake
  <2>1. /\ main.s \in Sessions /\ main.pc = "wake" /\ life' = [life EXCEPT ![main.s] = "live"]
        /\ main' = MainIdle /\ UNCHANGED <<table, freed, pause, started, cons, media>>
    BY <1>1, <1>9 DEF AddWake, TypeOK
  <2>2. th' = th \/ th'.pc = "test"
    BY <1>1, <1>9 DEF AddWake, TypeOK
  <2>3. ValidHasSession' /\ PlayedHasConsumer' /\ ~Crashed'
    BY <1>1, <2>1, <2>2 DEF ValidHasSession, PlayedHasConsumer, Crashed, MainIdle, table
  <2>4. PassHasSession'
    BY <1>1, <2>1, <2>2 DEF PassHasSession, table
  <2>5. BufferIsOpen'
    BY <1>1, <2>1 DEF BufferIsOpen, MainIdle, media, TypeOK
  <2> QED
    BY <2>3, <2>4, <2>5
<1>10. ASSUME NEW s \in Sessions, PlayStart(s) PROVE Goal
  <2>1. Scheduled(s) = s /\ Reachable(s) /\ s \notin freed /\ life[s] = "live"
    BY <1>1, <1>10, ListedIsReached DEF PlayStart
  <2>2. Startable(s)
    BY <1>1, <2>1 DEF Startable, BufferIsOpen
  <2>3. /\ cons' = [cons EXCEPT ![s] = @ + 1] /\ main' = [pc |-> "start", s |-> s, i |-> sched_id[s]]
        /\ UNCHANGED <<table, life, freed, pause, started, buffer, th>>
    BY <1>10, <2>1, <2>2 DEF PlayStart, StartRef
  <2>4. \A t \in Sessions : cons'[t] >= cons[t] /\ cons'[t] \in Nat /\ cons[t] \in Nat
    BY <1>1, <2>3 DEF TypeOK
  <2>5. cons'[s] > 0
    BY <1>1, <2>3 DEF TypeOK
  <2>6. ValidHasSession' /\ BufferIsOpen' /\ ~Crashed'
    BY <1>1, <1>10, <2>3 DEF PlayStart, ValidHasSession, BufferIsOpen, Crashed, table
  <2>7. PassHasSession'
    BY <1>1, <2>3, <2>4 DEF PassHasSession, table
  <2>8. PlayedHasConsumer'
    BY <1>1, <2>3, <2>4, <2>5 DEF PlayedHasConsumer
  <2> QED
    BY <2>6, <2>7, <2>8
<1>11. ASSUME NEW s \in Sessions, PlayResume(s) \/ Pause(s) \/ Remove(s) PROVE Goal
  <2>1. Scheduled(s) = s /\ Reachable(s) /\ ~Dangling(s) /\ life[s] = "live" /\ main.pc = "idle"
    BY <1>1, <1>11, ListedIsReached DEF PlayResume, Pause, Remove, Reachable
  <2>2. /\ UNCHANGED <<rtp_session, freed, started, cons, media, main, th>>
        /\ \A i \in Slots : valid'[i] => valid[i]
        /\ \A t \in Sessions : life'[t] # "none" => life[t] # "none"
    BY <1>1, <1>11, <2>1 DEF PlayResume, Pause, Remove, table, TypeOK
  <2>3. \A t \in Sessions : ~pause'[t] => ~pause[t] \/ started[t]
    BY <1>1, <1>11, <2>1 DEF PlayResume, Pause, Remove, TypeOK
  <2>4. ValidHasSession' /\ BufferIsOpen' /\ ~Crashed' /\ PassHasSession'
    BY <1>1, <2>2 DEF ValidHasSession, BufferIsOpen, Crashed, PassHasSession, media
  <2>5. PlayedHasConsumer'
    BY <1>1, <2>2, <2>3 DEF PlayedHasConsumer
  <2> QED
    BY <2>4, <2>5
<1>12. CASE Play
  <2>1. main.s \in Sessions /\ main.pc \in {"start", "started"} /\ cons[main.s] > 0
    BY <1>1, <1>12 DEF Play, PlayUnpause, PlayStarted, TypeOK, PlayedHasConsumer
  <2>2. /\ UNCHANGED <<table, life, freed, cons, media, th>>
        /\ \A t \in Sessions : t # main.s => pause'[t] = pause[t] /\ started'[t] = started[t]
        /\ main' = MainIdle \/ (main'.pc = "started" /\ main'.s = main.s)
    BY <1>1, <1>12 DEF Play, PlayUnpause, PlayStarted, TypeOK
  <2>3. ValidHasSession' /\ BufferIsOpen' /\ ~Crashed' /\ PassHasSession'
    BY <1>1, <2>1, <2>2 DEF ValidHasSession, BufferIsOpen, Crashed, PassHasSession, media, table, MainIdle
  <2>4. PlayedHasConsumer'
    BY <1>1, <2>1, <2>2 DEF PlayedHasConsumer, MainIdle
  <2> QED
    BY <2>3, <2>4
<1>13. ASSUME UNCHANGED <<table, session, media, main>>, ~Crashed', PassHasSession' PROVE Goal
  BY <1>1, <1>13 DEF ValidHasSession, PlayedHasConsumer, BufferIsOpen, table, session, media
<1>14. CASE TestCount \/ UNCHANGED vars
  <2>1. ~Crashed' /\ PassHasSession'
    BY <1>1, <1>14 DEF TestCount, Crashed, PassHasSession, TypeOK, table, session, media, vars
  <2> QED
    BY <1>13, <1>14, <2>1 DEF TestCount, vars
<1>15. CASE TestValid
  <2>1. th.i \in Slots /\ (valid[th.i] => rtp_session[th.i] \in Sessions)
    BY <1>1, <1>2, <1>15 DEF TestValid, BetweenPasses, ValidHasSession, TypeOK
  <2>2. ~Crashed' /\ PassHasSession'
    BY <1>1, <1>15, <2>1 DEF TestValid, Crashed, PassHasSession, TypeOK, table
  <2> QED
    BY <1>13, <1>15, <2>2 DEF TestValid
<1>16. CASE TestPause \/ PlayOk
  <2>1. Current \in Sessions /\ ~Dangling(Current) /\ (th.pc = "play" => cons[Current] > 0)
    BY <1>1, <1>16, PassIsFresh DEF TestPause, PlayOk, PassHasSession, Current
  <2>2. th'.pc \in {"valid", "test"} \/ (th' = [th EXCEPT !.pc = "play"] /\ ~pause[Current])
    BY <1>1, <1>16, <2>1 DEF TestPause, PlayOk, NextSlot, TypeOK
  <2>3. UNCHANGED <<table, session, media, main>>
    BY <1>16 DEF TestPause, PlayOk
  <2>4. ~Crashed' /\ PassHasSession'
    BY <1>1, <2>1, <2>2, <2>3 DEF Crashed, PassHasSession, PlayedHasConsumer, Current, TypeOK, table, session
  <2> QED
    BY <1>13, <2>3, <2>4
<1>17. CASE PlayEof \/ StopStarted
  <2>1. Current \in Sessions
    BY <1>1, <1>17 DEF PlayEof, StopStarted, PassHasSession, Current
  <2>2. th'.pc \in {"valid", "test"} \/ th' = [th EXCEPT !.pc = "stop"]
    BY <1>1, <1>17 DEF PlayEof, StopStarted, NextSlot, TypeOK
  <2>3. /\ UNCHANGED <<table, life, freed, cons, media, main>>
        /\ \A t \in Sessions : (~pause'[t] => ~pause[t]) /\ (started'[t] => started[t])
    BY <1>1, <1>17, <2>1 DEF PlayEof, StopStarted, TypeOK
  <2>4. ValidHasSession' /\ BufferIsOpen' /\ PlayedHasConsumer'
    BY <1>1, <2>3 DEF ValidHasSession, BufferIsOpen, PlayedHasConsumer, table, media
  <2>5. ~Crashed' /\ PassHasSession'
    BY <1>1, <2>1, <2>2, <2>3 DEF Crashed, PassHasSession, Current, TypeOK, table
  <2> QED
    BY <2>4, <2>5
<1>18. CASE TestSession
  <2>1. th.i \in Slots /\ rtp_session[th.i] \in Sessions \cup {NoSession}
    BY <1>1 DEF TypeOK, SessionOrNone
  <2>2. ~Crashed' /\ PassHasSession'
    BY <1>1, <1>18, <2>1 DEF TestSession, NextSlot, Crashed, PassHasSession, Current, TypeOK, table
  <2> QED
    BY <1>13, <1>18, <2>2 DEF TestSession
<1>19. CASE Destroy
  <2>1. Current \in Sessions /\ ~Dangling(Current) /\ th.i \in Slots /\ th.pc = "destroy"
    BY <1>1, <1>19, PassIsFresh DEF Destroy, TypeOK
  <2>2. life[Current] = "removed" /\ Current \notin freed
    BY <1>2, <2>1, NoSessionAssumption DEF LeftIsRemoved, Current, Dangling
  <2>3. buffer[MediaOf[Current]] = "open"
    BY <1>1, <2>1, <2>2 DEF BufferIsOpen
  <2>4. /\ freed' = freed \cup {Current} /\ th' = [th EXCEPT !.pc = "clear"]
        /\ buffer' = buffer \/ buffer' = [buffer EXCEPT ![MediaOf[Current]] = "null"]
        /\ UNCHANGED <<table, life, sched_id, pause, started, cons, main>>
    BY <1>19, <2>1, <2>3 DEF Destroy
  <2>5. ASSUME NEW t \in Sessions, t # Current PROVE buffer'[MediaOf[t]] = buffer[MediaOf[t]]
    BY <1>1, <1>3, <1>4, <2>1, <2>4, <2>5 DEF TypeOK
  <2>6. BufferIsOpen'
    <3>1. main.pc \in {"add", "count", "wake"} => main.s \in Sessions /\ main.s # Current
      BY <1>1, <2>2 DEF TypeOK, OwnSlot
    <3> QED
      BY <1>1, <2>4, <2>5, <3>1 DEF BufferIsOpen
  <2>7. ValidHasSession' /\ PlayedHasConsumer'
    BY <1>1, <2>4 DEF ValidHasSession, PlayedHasConsumer, table
  <2>8. ~Crashed' /\ PassHasSession'
    BY <1>1, <2>4 DEF Crashed, PassHasSession, TypeOK
  <2> QED
    BY <2>6, <2>7, <2>8
<1>20. CASE ClearSlot
  <2>1. th.i \in Slots /\ th.pc = "clear" /\ ~valid[th.i] /\ th'.pc \in {"valid", "test"}
    BY <1>1, <1>2, <1>20 DEF ClearSlot, NextSlot, TypeOK
  <2>2. /\ rtp_session' = [rtp_session EXCEPT ![th.i] = NoSession]
        /\ UNCHANGED <<valid, session, media, main>>
    BY <1>20 DEF ClearSlot
  <2>3. ValidHasSession'
    BY <1>1, <2>1, <2>2 DEF ValidHasSession, TypeOK
  <2>4. PassHasSession' /\ PlayedHasConsumer' /\ BufferIsOpen' /\ ~Crashed'
    BY <1>1, <2>1, <2>2 DEF PassHasSession, PlayedHasConsumer, BufferIsOpen, Crashed, session, media
  <2> QED
    BY <2>3, <2>4
<1> QED
  BY <1>5, <1>6, <1>7, <1>8, <1>9, <1>10, <1>11, <1>12, <1>14, <1>15, <1>16, <1>17, <1>18, <1>19, <1>20
     DEF Next, Request, Add, Pass

(* Without live sources neither thread follows a pointer that is null or freed,
   as long as no SETUP meets a pass and the table has room: the unlocked pass
   against PLAY, PAUSE and TEARDOWN (schedule_do.c:35-85, schedule_start.c). *)
THEOREM NothingIsStale == Live = {} => (Spec => []NoCrash)
<1> SUFFICES ASSUME Live = {} PROVE Spec => []NoCrash
  OBVIOUS
<1>1. IInv /\ SerialInv /\ StaleInv /\ [Next]_vars => StaleInv'
  BY StaleKept
<1>2. IInv /\ SerialInv /\ [Next]_vars => SerialInv'
  BY SerialKept
<1>3. StaleInv => NoCrash
  BY DEF StaleInv, NoCrash
<1> QED
  BY IInvInvariant, SerialInit, StaleInit, <1>1, <1>2, <1>3, PTL DEF Spec
=============================================================================
