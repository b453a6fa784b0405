----------------------------- MODULE Scheduler ------------------------------
(***************************************************************************)
(* The table sched[] and the scheduler thread (schedule/schedule_*.c),     *)
(* with what they do to the RTP sessions, their consumers and the buffers  *)
(* of their media (rtp/RTP_session_destroy.c, mediainfo/mediacpy.c).       *)
(*                                                                         *)
(* The main thread serves RTSP requests: it adds a session (SETUP), starts *)
(* or resumes it (PLAY), pauses it (PAUSE) and removes it (TEARDOWN, or    *)
(* the connection closes).  The scheduler thread takes sched_control.lock  *)
(* only to test client_count; its pass over sched[] is not protected, so   *)
(* every access of that pass to the shared table is a step of its own, and *)
(* so is every store of schedule_add that the pass can see.                *)
(***************************************************************************)
EXTENDS Integers, FiniteSets

CONSTANTS
  N,               \* ONE_FORK_MAX_CONNECTION, the slots of sched[]
  Sessions,        \* RTP sessions, one per successful SETUP of a stream
  Media,           \* media entries with a packet buffer
  NoSession,       \* the null RTP_session pointer
  MediaOf,         \* [Sessions -> Media]: live entries are shared, stored ones private
  Live,            \* media whose msource is live: the end of the data does not stop them
  MaxRefs          \* bound on the PLAYs of each session

ASSUME NAssumption == N \in Nat \ {0}
ASSUME MediaAssumption == MediaOf \in [Sessions -> Media] /\ Live \subseteq Media
ASSUME StoredAssumption ==
  \A s, t \in Sessions : MediaOf[s] = MediaOf[t] => s = t \/ MediaOf[s] \in Live
ASSUME NoSessionAssumption == NoSession \notin Sessions
ASSUME RefsAssumption == MaxRefs \in [Sessions -> Nat]

NoSlot == -1

VARIABLES
  valid,         \* sched[i].valid
  rtp_session,   \* sched[i].rtp_session
  client_count,  \* sched_control.client_count
  life,          \* "none", "live" (its connection lists it) or "removed"
  freed,         \* sessions whose RTP_session was freed
  sched_id,      \* the slot schedule_add returned
  pause, started,
  cons,          \* consumers attached through the session; only the last is reachable
  buffer,        \* pkt_buffer of a media entry: "null" or "open"
  refs,          \* control->refs of that buffer
  main,          \* main thread: pc, session and slot in hand
  th,            \* scheduler thread: pc, loop index
  met            \* history: a SETUP met a pass of the scheduler

table   == <<valid, rtp_session, client_count>>
session == <<life, freed, sched_id, pause, started, cons>>
media   == <<buffer, refs>>
vars    == <<table, session, media, main, th, met>>

Slots == 0 .. N - 1

MainIdle == [pc |-> "idle", s |-> NoSession, i |-> NoSlot]

Init ==
  /\ valid = [i \in Slots |-> FALSE]
  /\ rtp_session = [i \in Slots |-> NoSession]
  /\ client_count = 0
  /\ life = [s \in Sessions |-> "none"]
  /\ freed = {}
  /\ sched_id = [s \in Sessions |-> NoSlot]
  /\ pause = [s \in Sessions |-> TRUE]
  /\ started = [s \in Sessions |-> FALSE]
  /\ cons = [s \in Sessions |-> 0]
  /\ buffer = [m \in Media |-> "null"]
  /\ refs = [m \in Media |-> 0]
  /\ main = MainIdle
  /\ th = [pc |-> "test", i |-> 0]
  /\ met = FALSE

\* A thread that follows a null or freed pointer ends the process.
Crashed == main.pc = "crash" \/ th.pc = "crash"

\* The main thread holds sched_control.lock between two of its steps.
Locked == main.pc \in {"add", "count", "start", "started"}

\* The scheduler thread is between two passes over sched[].
BetweenPasses == th.pc \in {"test", "wait"}

-----------------------------------------------------------------------------
(* Main thread, SETUP: mediacpy, then schedule_add *)

\* mediacpy opens the buffer if the media entry has none (a live entry may have
\* one already).
OpenBuffer(m) ==
  IF buffer[m] = "null"
    THEN /\ buffer' = [buffer EXCEPT ![m] = "open"]
         /\ refs' = [refs EXCEPT ![m] = 0]
    ELSE UNCHANGED media

\* schedule_add locks and takes the first slot that is not valid.
SetupAdd(s) ==
  /\ ~Crashed
  /\ main.pc = "idle"
  /\ life[s] = "none"
  /\ OpenBuffer(MediaOf[s])
  /\ \E i \in Slots :
       /\ ~valid[i]
       /\ \A j \in 0 .. i - 1 : valid[j]
       /\ valid' = [valid EXCEPT ![i] = TRUE]
       /\ main' = [pc |-> "add", s |-> s, i |-> i]
  /\ met' = (met \/ ~BetweenPasses)
  /\ UNCHANGED <<rtp_session, client_count, session, th>>

\* All slots are valid: schedule_add returns ERR_GENERIC, and RTSP_setup stores
\* that -1 as the slot and answers 200.  A session over UDP finds no port pair
\* before it comes to this, one interleaved with RTSP does not.
SetupNoSlot(s) ==
  /\ ~Crashed
  /\ main.pc = "idle"
  /\ life[s] = "none"
  /\ \A i \in Slots : valid[i]
  /\ OpenBuffer(MediaOf[s])
  /\ life' = [life EXCEPT ![s] = "live"]
  /\ UNCHANGED <<table, freed, sched_id, pause, started, cons, main, th, met>>

\* The second store: the pass can already see valid.
AddSession ==
  /\ ~Crashed
  /\ main.pc = "add"
  /\ rtp_session' = [rtp_session EXCEPT ![main.i] = main.s]
  /\ main' = [main EXCEPT !.pc = "count"]
  /\ UNCHANGED <<valid, client_count, session, media, th, met>>

\* ++client_count and unlock.
AddCount ==
  /\ ~Crashed
  /\ main.pc = "count"
  /\ client_count' = client_count + 1
  /\ main' = [main EXCEPT !.pc = "wake"]
  /\ UNCHANGED <<valid, rtp_session, session, media, th, met>>

\* SCHEDULE_WAKE comes after the unlock; RTSP_setup stores sched_id.
AddWake ==
  /\ ~Crashed
  /\ main.pc = "wake"
  /\ life' = [life EXCEPT ![main.s] = "live"]
  /\ sched_id' = [sched_id EXCEPT ![main.s] = main.i]
  /\ th' = IF th.pc = "wait" THEN [th EXCEPT !.pc = "test"] ELSE th
  /\ main' = MainIdle
  /\ UNCHANGED <<table, freed, pause, started, cons, media, met>>

-----------------------------------------------------------------------------
(* Main thread, PLAY: what RTSP_play does with one stream *)

\* A null or freed RTP_session cannot be followed.
Dangling(s) == s = NoSession \/ s \in freed

\* The handler follows its own list and then sched[id].rtp_session; a start
\* follows the pkt_buffer of the media entry as well.  What lies at sched[-1] is
\* no session.
Scheduled(s) ==
  IF sched_id[s] \in Slots THEN rtp_session[sched_id[s]] ELSE NoSession
Reachable(s) == ~Dangling(s) /\ ~Dangling(Scheduled(s))
Startable(s) == Reachable(s) /\ buffer[MediaOf[Scheduled(s)]] = "open"

StartRef(t) ==
  /\ cons' = [cons EXCEPT ![t] = @ + 1]
  /\ refs' = [refs EXCEPT ![MediaOf[t]] = @ + 1]

\* PLAY of an aggregate starts a stream that is not started; PLAY of one
\* stream ("file.sd!file") starts it whatever its state, and the consumer of an
\* earlier start is forgotten.
PlayStart(s) ==
  /\ ~Crashed
  /\ main.pc = "idle"
  /\ life[s] = "live"
  /\ cons[s] < MaxRefs[s]
  /\ IF Startable(s)
       THEN /\ StartRef(Scheduled(s))
            /\ main' = [pc |-> "start", s |-> Scheduled(s), i |-> sched_id[s]]
       ELSE /\ main' = [main EXCEPT !.pc = "crash"]
            /\ UNCHANGED <<cons, refs>>
  /\ UNCHANGED <<table, life, freed, sched_id, pause, started, buffer, th, met>>

\* ... the stores that the scheduler's pass sees: pause = 0, started = 1.
PlayUnpause ==
  /\ ~Crashed
  /\ main.pc = "start"
  /\ pause' = [pause EXCEPT ![main.s] = FALSE]
  /\ main' = [main EXCEPT !.pc = "started"]
  /\ UNCHANGED <<table, life, freed, sched_id, started, cons, media, th, met>>

PlayStarted ==
  /\ ~Crashed
  /\ main.pc = "started"
  /\ started' = [started EXCEPT ![main.s] = TRUE]
  /\ main' = MainIdle
  /\ UNCHANGED <<table, life, freed, sched_id, pause, cons, media, th, met>>

\* PLAY of a stream that is started and paused: schedule_resume.
PlayResume(s) ==
  /\ ~Crashed
  /\ main.pc = "idle"
  /\ life[s] = "live"
  /\ started[s] /\ pause[s]
  /\ IF Reachable(s)
       THEN pause' = [pause EXCEPT ![Scheduled(s)] = FALSE] /\ UNCHANGED main
       ELSE main' = [main EXCEPT !.pc = "crash"] /\ UNCHANGED pause
  /\ UNCHANGED <<table, life, freed, sched_id, started, cons, media, th, met>>

\* RTSP_pause: r->pause = 1.
Pause(s) ==
  /\ ~Crashed
  /\ main.pc = "idle"
  /\ life[s] = "live"
  /\ IF Dangling(s)
       THEN main' = [main EXCEPT !.pc = "crash"] /\ UNCHANGED pause
       ELSE pause' = [pause EXCEPT ![s] = TRUE] /\ UNCHANGED main
  /\ UNCHANGED <<table, life, freed, sched_id, started, cons, media, th, met>>

\* Mutant: the session is not counted out.
RemoveUncounted(s) ==
  /\ ~Crashed
  /\ main.pc = "idle"
  /\ life[s] = "live"
  /\ valid' = [i \in Slots |-> valid[i] /\ i # sched_id[s]]
  /\ life' = [life EXCEPT ![s] = "removed"]
  /\ UNCHANGED <<rtp_session, client_count, freed, sched_id, pause, started, cons, media, main, th, met>>

\* TEARDOWN, or the connection closes: schedule_remove under the lock, and the
\* connection forgets the session.  Without a slot the store goes outside the
\* table, and the count goes down all the same.
Remove(s) ==
  /\ ~Crashed
  /\ main.pc = "idle"
  /\ life[s] = "live"
  /\ valid' = [i \in Slots |-> valid[i] /\ i # sched_id[s]]
  /\ client_count' = client_count - 1
  /\ life' = [life EXCEPT ![s] = "removed"]
  /\ UNCHANGED <<rtp_session, freed, sched_id, pause, started, cons, media, main, th, met>>

-----------------------------------------------------------------------------
(* Scheduler thread: schedule_do *)

NextSlot ==
  th' = IF th.i + 1 \in Slots
          THEN [pc |-> "valid", i |-> th.i + 1]
          ELSE [pc |-> "test", i |-> 0]

Crash == th' = [th EXCEPT !.pc = "crash"]

\* The pointer the pass reads from the table, again at every use.
Current == rtp_session[th.i]

\* Mutant: one session is not enough to go on.
TestCountOne ==
  /\ ~Crashed
  /\ th.pc = "test"
  /\ ~Locked
  /\ th' = IF client_count <= 1 THEN [th EXCEPT !.pc = "wait"] ELSE [th EXCEPT !.pc = "valid"]
  /\ UNCHANGED <<table, session, media, main, met>>

\* lock; while (client_count == 0) wait; unlock.
TestCount ==
  /\ ~Crashed
  /\ th.pc = "test"
  /\ ~Locked
  /\ th' = IF client_count = 0 THEN [th EXCEPT !.pc = "wait"] ELSE [th EXCEPT !.pc = "valid"]
  /\ UNCHANGED <<table, session, media, main, met>>

TestValid ==
  /\ ~Crashed
  /\ th.pc = "valid"
  /\ th' = [th EXCEPT !.pc = IF valid[th.i] THEN "pause" ELSE "reap"]
  /\ UNCHANGED <<table, session, media, main, met>>

\* if (!sched[i].rtp_session->pause); a session that is not due is skipped too.
TestPause ==
  /\ ~Crashed
  /\ th.pc = "pause"
  /\ \/ Dangling(Current) /\ Crash
     \/ ~Dangling(Current) /\ NextSlot
     \/ ~Dangling(Current) /\ ~pause[Current] /\ th' = [th EXCEPT !.pc = "play"]
  /\ UNCHANGED <<table, session, media, main, met>>

\* play_action: RTP_send_packet follows rtp_session->cons.
PlayOk ==
  /\ ~Crashed
  /\ th.pc = "play"
  /\ IF Dangling(Current) \/ cons[Current] = 0 THEN Crash ELSE NextSlot
  /\ UNCHANGED <<table, session, media, main, met>>

\* Mutant: the end of the file frees the slot as well.
PlayEofInvalidates ==
  /\ ~Crashed
  /\ th.pc = "play"
  /\ ~Dangling(Current) /\ cons[Current] > 0
  /\ MediaOf[Current] \notin Live
  /\ pause' = [pause EXCEPT ![Current] = TRUE]
  /\ valid' = [valid EXCEPT ![th.i] = FALSE]
  /\ th' = [th EXCEPT !.pc = "stop"]
  /\ UNCHANGED <<rtp_session, client_count, life, freed, sched_id, started, cons, media, main, met>>

\* ERR_EOF of a stored file: schedule_stop (ERR_ALLOC, which would stop a live
\* session too, needs the memory to run out and is left out).
PlayEof ==
  /\ ~Crashed
  /\ th.pc = "play"
  /\ ~Dangling(Current) /\ cons[Current] > 0
  /\ MediaOf[Current] \notin Live
  /\ pause' = [pause EXCEPT ![Current] = TRUE]
  /\ th' = [th EXCEPT !.pc = "stop"]
  /\ UNCHANGED <<table, life, freed, sched_id, started, cons, media, main, met>>

\* ... its second store goes through the table again.
StopStarted ==
  /\ ~Crashed
  /\ th.pc = "stop"
  /\ started' = [started EXCEPT ![Current] = FALSE]
  /\ NextSlot
  /\ UNCHANGED <<table, life, freed, sched_id, pause, cons, media, main, met>>

\* Mutant: the pointer is not tested.
TestNoSession ==
  /\ ~Crashed
  /\ th.pc = "reap"
  /\ th' = [th EXCEPT !.pc = "destroy"]
  /\ UNCHANGED <<table, session, media, main, met>>

\* else if (sched[i].rtp_session)
TestSession ==
  /\ ~Crashed
  /\ th.pc = "reap"
  /\ IF Current = NoSession THEN NextSlot ELSE th' = [th EXCEPT !.pc = "destroy"]
  /\ UNCHANGED <<table, session, media, main, met>>

\* RTP_session_destroy(sched[i].rtp_session): the pointer is read again.  The
\* consumer that is still reachable is detached, the buffer is freed when no
\* consumer is left, the session is freed.
Unrefed(s) == refs[MediaOf[s]] - (IF cons[s] > 0 THEN 1 ELSE 0)

Destroy ==
  /\ ~Crashed
  /\ th.pc = "destroy"
  /\ IF Dangling(Current) \/ buffer[MediaOf[Current]] = "null"
       THEN Crash /\ UNCHANGED <<freed, media>>
       ELSE LET m == MediaOf[Current]
            IN /\ refs' = [refs EXCEPT ![m] = Unrefed(Current)]
               /\ buffer' = IF Unrefed(Current) = 0 THEN [buffer EXCEPT ![m] = "null"] ELSE buffer
               /\ freed' = freed \cup {Current}
               /\ th' = [th EXCEPT !.pc = "clear"]
  /\ UNCHANGED <<table, life, sched_id, pause, started, cons, main, met>>

\* sched[i].rtp_session = NULL
ClearSlot ==
  /\ ~Crashed
  /\ th.pc = "clear"
  /\ rtp_session' = [rtp_session EXCEPT ![th.i] = NoSession]
  /\ NextSlot
  /\ UNCHANGED <<valid, client_count, session, media, main, met>>

-----------------------------------------------------------------------------
Add  == AddSession \/ AddCount \/ AddWake
Play == PlayUnpause \/ PlayStarted

Request(s) ==
  \/ SetupAdd(s) \/ SetupNoSlot(s)
  \/ PlayStart(s) \/ PlayResume(s) \/ Pause(s) \/ Remove(s)

Pass ==
  \/ TestValid \/ TestPause \/ PlayOk \/ PlayEof \/ StopStarted
  \/ TestSession \/ Destroy \/ ClearSlot

Next == (\E s \in Sessions : Request(s)) \/ Add \/ Play \/ TestCount \/ Pass

Spec == Init /\ [][Next]_vars

\* A handler that was entered returns, and the scheduler thread is run.
Fairness == WF_vars(Add \/ Play) /\ WF_vars(TestCount \/ Pass)

FairSpec == Spec /\ Fairness

-----------------------------------------------------------------------------
MainPcs == {"idle", "add", "count", "wake", "start", "started", "crash"}
ThPcs == {"test", "wait", "valid", "pause", "play", "stop", "reap", "destroy", "clear", "crash"}
SessionOrNone == Sessions \cup {NoSession}

\* Type correctness; every index that is used lies inside sched[].
TypeOK ==
  /\ valid \in [Slots -> BOOLEAN]
  /\ rtp_session \in [Slots -> SessionOrNone]
  /\ client_count \in Int
  /\ life \in [Sessions -> {"none", "live", "removed"}]
  /\ freed \subseteq Sessions
  /\ sched_id \in [Sessions -> Slots \cup {NoSlot}]
  /\ pause \in [Sessions -> BOOLEAN]
  /\ started \in [Sessions -> BOOLEAN]
  /\ cons \in [Sessions -> Nat]
  /\ buffer \in [Media -> {"null", "open"}]
  /\ refs \in [Media -> Int]
  /\ main \in [pc : MainPcs, s : SessionOrNone, i : Slots \cup {NoSlot}]
  /\ th \in [pc : ThPcs, i : Slots]
  /\ met \in BOOLEAN
  /\ main.pc \in {"add", "count", "wake"} => main.s \in Sessions /\ main.i \in Slots
  /\ main.pc \in {"start", "started"} => main.s \in Sessions

\* No SETUP found the table full.
TableSufficed == \A s \in Sessions : life[s] # "none" => sched_id[s] \in Slots

Adding == IF main.pc \in {"add", "count"} THEN 1 ELSE 0
Counted == client_count + Adding = Cardinality({i \in Slots : valid[i]})

(* client_count is the number of valid slots (the slot schedule_add is filling
   is counted when it unlocks): if it drifted, the scheduler would sleep while
   streams play, or spin when there is none.  It does drift once a SETUP got
   no slot. *)
CountIsExact == TableSufficed => Counted

(* A session that its connection lists and that got a slot has a valid slot of
   its own, so PLAY, PAUSE and TEARDOWN of one client never act on the slot of
   another. *)
HasSlot(s) == life[s] = "live" /\ sched_id[s] \in Slots
OwnSlot ==
  /\ \A s \in Sessions : HasSlot(s) => valid[sched_id[s]]
  /\ \A s, t \in Sessions :
       (HasSlot(s) /\ HasSlot(t) /\ sched_id[s] = sched_id[t]) => s = t
  /\ main.pc \in {"add", "count", "wake"} =>
       /\ life[main.s] = "none" /\ valid[main.i]
       /\ \A s \in Sessions : HasSlot(s) => sched_id[s] # main.i

(* The scheduler thread does not sleep while there is a session to serve,
   unless schedule_add is about to wake it: the signal, which is sent after the
   unlock, is not lost whatever the order of the two threads. *)
WaitsOnlyWhenIdle ==
  (TableSufficed /\ th.pc = "wait") => client_count = 0 \/ main.pc = "wake"

(* RTP_session_destroy is never called on a session that was destroyed: a freed
   session stays in the table only until the pass clears its slot. *)
FreedLeavesTable ==
  \A i \in Slots : rtp_session[i] \in freed => th.pc \in {"clear", "crash"} /\ th.i = i

(* "rtp session not valid, but still present" (schedule/schedule_do.c:80):
   only a session that was removed is destroyed. *)
OnlyRemovedIsDestroyed == \A s \in freed : life[s] = "removed"

(* ... and so it is as long as no SETUP meets a pass (schedule_do.c:78-85,
   schedule_add.c:14-17). *)
SerialPassIsSafe == ~met => OnlyRemovedIsDestroyed

Undisturbed == TableSufficed /\ ~met

(* Neither thread follows a pointer that is null or freed, as long as no SETUP
   meets a pass and the table has room. *)
NoCrash == Undisturbed => ~Crashed

(* While a session is listed by its connection, the scheduler's pass keeps
   coming to it, until a SETUP meets a pass or finds no slot. *)
EverySessionIsVisited ==
  \A s \in Sessions :
    (life[s] = "live" /\ Undisturbed)
      ~> (life[s] # "live" \/ ~Undisturbed \/ (th.pc = "pause" /\ Current = s))
=============================================================================
