----------------------------- MODULE Adaptation -----------------------------
(***************************************************************************)
(* The adaptation of a stream to its receiver (intnet/) and the RTCP       *)
(* packets around it (rtcp/): the main thread takes receiver reports and   *)
(* requests, the scheduler thread judges the reports, moves the session to *)
(* another entry of the presentation, and sends its own reports.  All      *)
(* entries are MPEG audio files (MPA) of one .sd file, without aggregate.  *)
(***************************************************************************)
EXTENDS Integers, Sequences, FiniteSets, SequencesExt

CONSTANTS
  Sessions,     \* RTP sessions, one stream each
  MeList,       \* the media list of the presentation: records [rate, priority], kbit/s
  Reports,      \* the receiver reports: records [loss, jitter]
  Interval,     \* packets between two reports of the server (20)
  OutMax,       \* sizeof(rtcp_outbuffer)
  NameLen,      \* strlen(prefs_get_hostname())
  Budgets       \* bounds on a behaviour: its requests, the reports that arrive, ends
                \* of a file, and reports of the server that select holds back

Entries == DOMAIN MeList
Rate(e) == MeList[e].rate
Priority(e) == MeList[e].priority

ASSUME ReportAssumption == Reports \subseteq [loss : 0 .. 255, jitter : Nat]
ASSUME ListAssumption == MeList \in Seq([rate : Nat, priority : Nat]) /\ MeList # << >>
Bounded == [requests : Nat, reports : Seq(Reports), ends : Nat, timeouts : Nat]
ASSUME BoundAssumption ==
  Interval \in Nat \ {0} /\ {OutMax, NameLen} \subseteq Nat
  /\ Budgets \subseteq Bounded

\* A presentation lists its entries by priority, 1 first, and each of them with
\* a lower rate than the one before: what priority_decrease takes for granted.
ASSUME OrderAssumption ==
  \A e \in Entries : /\ MeList[e].priority = e
                     /\ \A f \in 1 .. e - 1 : MeList[f].rate > MeList[e].rate

VARIABLES
  life,       \* none, live, removed (valid = 0)
  cur,        \* current_media: [entry, own], own until the first switch
  ownBuf,     \* pkt_buffer of the copy that SETUP made
  entryBuf,   \* pkt_buffer of the entries, 0 for NULL
  refs,       \* control->refs of the buffers made so far
  freed,      \* buffers that OMSbuff_free had
  cons,       \* the buffer of a session's consumer, 0 for none
  pause, started,
  adapt,      \* MinimumReached, MaximumReached, PreviousCount
  client,     \* rtcp_stats[i_client]: [rr, loss, jitter]
  pkts,       \* pkt_count, by what the handler sees of it: 0, or 1 .. Interval
  out,        \* rtcp_outbuffer: the packets in it, [type, size]
  main, th,   \* what the two threads are at
  credit,     \* judgements a session may still have: one for a report, two for a
              \* PLAY that finds reports
  owed,       \* ends of the stream, less the BYEs sent or lost
  crossed,    \* a session came to a buffer of another one
  budget      \* what is left of the bounds
hist == <<credit, owed>>
media == <<cur, ownBuf, entryBuf, refs, freed, cons, crossed>>
vars == <<life, media, pause, started, adapt, client, pkts, out, main, th, hist, budget>>

Buffers == DOMAIN refs
CurBuf(s) == IF cur[s].own THEN ownBuf[s] ELSE entryBuf[cur[s].entry]
Usable(b) == b \in Buffers \ freed
Undefined == main.pc = "undefined" \/ th.pc = "undefined"
Idle == [pc |-> "idle"]
Spend(kind) == budget[kind] > 0 /\ budget' = [budget EXCEPT ![kind] = @ - 1]

Init ==
  /\ life = [s \in Sessions |-> "none"]
  /\ cur = [s \in Sessions |-> [entry |-> 1, own |-> TRUE]]
  /\ ownBuf = [s \in Sessions |-> 0] /\ entryBuf = [e \in Entries |-> 0]
  /\ refs = << >> /\ freed = {} /\ cons = [s \in Sessions |-> 0] /\ crossed = FALSE
  /\ pause = [s \in Sessions |-> TRUE] /\ started = [s \in Sessions |-> FALSE]
  /\ adapt = [s \in Sessions |-> [min |-> FALSE, max |-> FALSE, prev |-> 0]]
  /\ client = [s \in Sessions |-> [rr |-> 0, loss |-> 0, jitter |-> 0]]
  /\ pkts = [s \in Sessions |-> 0] /\ out = [s \in Sessions |-> << >>]
  /\ main = Idle /\ th = Idle
  /\ credit = [s \in Sessions |-> 0] /\ owed = [s \in Sessions |-> 0]
  /\ budget \in Budgets

-----------------------------------------------------------------------------
\* The ladders of rates.

Ladder == {448, 416, 384, 352, 320, 288, 256, 224, 192, 176, 160, 144, 128,
           112, 96, 80, 64, 56, 48, 40, 32, 24, 16, 8}

\* search_media: the first entry of the list among those wanted, 0 for none.
search_media(wanted) == IF wanted = {} THEN 0 ELSE Min(wanted)

\* Rate by rate down from one of tops, or up, until an entry has the rate.
Rates == {Rate(e) : e \in Entries} \cap Ladder
Below(tops) ==
  {r \in Rates : \E top \in tops : r <= top /\ \A q \in Rates : q <= top => q <= r}
Above(bottoms) ==
  {r \in Rates : \E bottom \in bottoms : r >= bottom /\ \A q \in Rates : q >= bottom => q >= r}
Down(tops) == search_media({e \in Entries : Rate(e) \in Below(tops)})
Up(bottoms) == search_media({e \in Entries : Rate(e) \in Above(bottoms)})

\* Half of a rate, rounded up to one of the ladder: one or none.
Half(rate) ==
  {r \in Ladder : /\ rate \in Ladder /\ rate >= 16 /\ 2 * r >= rate
                  /\ \A q \in Ladder : 2 * q >= rate => r <= q}

downgrade_MP3(e) == Down({r - 1 : r \in {Rate(e)} \cap Ladder})
half_MP3(e) == Down(Half(Rate(e)))
upgrade_MP3(e) == Up({r + 1 : r \in {Rate(e)} \cap Ladder})

\* Mutant: the priority is counted the other way.
priority_decreaseSwapped(e) == search_media({f \in Entries : Priority(f) = Priority(e) - 1})

priority_decrease(e) == search_media({f \in Entries : Priority(f) = Priority(e) + 1})
priority_increase(e) ==
  IF Priority(e) = 1 THEN 0 ELSE search_media({f \in Entries : Priority(f) = Priority(e) - 1})

OrElse(e, f) == IF e # 0 THEN e ELSE f

\* change_check for a report that was not judged yet: half, down, up or stay.
change_check(c) ==
  IF 100 * c.loss > 3 * 256 THEN -2
  ELSE IF c.jitter > 10 THEN -1
  ELSE IF 100 * c.loss < 2 * 256 /\ c.jitter < 10 THEN 1
  ELSE 0

\* The entry that a verdict leads to, 0 for none: the ladder, then the priority.
Target(e, verdict) ==
  CASE verdict = -2 -> OrElse(half_MP3(e), priority_decrease(e))
    [] verdict = -1 -> OrElse(downgrade_MP3(e), priority_decrease(e))
    [] verdict = 1 -> OrElse(upgrade_MP3(e), priority_increase(e))
    [] OTHER -> 0

-----------------------------------------------------------------------------
\* rtcp_outbuffer.

\* sizeof of the structures; the name in SDES is padded by one byte at most.
Size(type) ==
  CASE type = "SR" -> 28 [] type = "RR" -> 8 [] type = "BYE" -> 12
    [] type = "SDES" -> 12 + NameLen + (IF (12 + NameLen) % 4 = 0 THEN 0 ELSE 1)

SizeOf(q) == FoldLeft(LAMBDA n, p : n + p.size, 0, q)

\* A packet for which there is no room is lost.
RTCP_send_packet(q, type) ==
  IF SizeOf(q) + Size(type) <= OutMax THEN Append(q, [type |-> type, size |-> Size(type)]) ELSE q

-----------------------------------------------------------------------------
\* The main thread: requests and reports.

Request == ~Undefined /\ main = Idle /\ Spend("requests")

\* SETUP of a file: mediacpy copies the entry, its buffer with it if there is one.
Setup(s, e) ==
  /\ Request
  /\ life[s] = "none"
  /\ life' = [life EXCEPT ![s] = "live"]
  /\ cur' = [cur EXCEPT ![s] = [entry |-> e, own |-> TRUE]]
  /\ IF entryBuf[e] = 0
       THEN /\ refs' = Append(refs, 0)
            /\ ownBuf' = [ownBuf EXCEPT ![s] = Len(refs')]
            /\ UNCHANGED crossed
       ELSE /\ ownBuf' = [ownBuf EXCEPT ![s] = entryBuf[e]]
            /\ crossed' = TRUE
            /\ UNCHANGED refs
  /\ cons' = [cons EXCEPT ![s] = 0]
  /\ pause' = [pause EXCEPT ![s] = TRUE] /\ started' = [started EXCEPT ![s] = FALSE]
  /\ adapt' = [adapt EXCEPT ![s] = [min |-> FALSE, max |-> FALSE, prev |-> 0]]
  /\ client' = [client EXCEPT ![s] = [rr |-> 0, loss |-> 0, jitter |-> 0]]
  /\ pkts' = [pkts EXCEPT ![s] = 0] /\ out' = [out EXCEPT ![s] = << >>]
  /\ credit' = [credit EXCEPT ![s] = 0] /\ owed' = [owed EXCEPT ![s] = 0]
  /\ UNCHANGED <<entryBuf, freed, main, th>>

\* schedule_start, as far as the scheduler's pass may begin with the session:
\* another consumer of the current buffer, then pause = 0.
Start(s) ==
  /\ IF Usable(CurBuf(s))
       THEN /\ refs' = [refs EXCEPT ![CurBuf(s)] = @ + 1]
            /\ cons' = [cons EXCEPT ![s] = CurBuf(s)]
            /\ pause' = [pause EXCEPT ![s] = FALSE]
            /\ main' = [pc |-> "started", s |-> s]
       ELSE /\ main' = [pc |-> "undefined"] /\ UNCHANGED <<refs, cons, pause>>
  /\ credit' = [credit EXCEPT ![s] = IF client[s].rr = 0 THEN @ ELSE @ + 2]
  /\ UNCHANGED <<life, cur, ownBuf, entryBuf, freed, crossed, started, adapt, client, pkts, out, th, owed>>

\* PLAY of the presentation: only a stream of priority 1 is started or resumed.
PlayAll(s) ==
  /\ Request
  /\ life[s] = "live"
  /\ \/ Priority(cur[s].entry) = 1 /\ ~started[s] /\ Start(s)
     \/ /\ Priority(cur[s].entry) = 1 /\ started[s] /\ pause[s]
        /\ pause' = [pause EXCEPT ![s] = FALSE]
        /\ UNCHANGED <<life, media, started, adapt, client, pkts, out, main, th, hist>>
     \/ /\ Priority(cur[s].entry) # 1 \/ (started[s] /\ ~pause[s])
        /\ UNCHANGED <<life, media, pause, started, adapt, client, pkts, out, main, th, hist>>

\* PLAY of the file that the session is at: started in any case.
PlayFile(s) ==
  /\ Request
  /\ life[s] = "live"
  /\ Start(s)

\* The rest of schedule_start: the flags, PreviousCount ...
StartFlags ==
  /\ ~Undefined /\ main.pc = "started"
  /\ started' = [started EXCEPT ![main.s] = TRUE]
  /\ adapt' = [adapt EXCEPT ![main.s] = [min |-> FALSE, max |-> FALSE, prev |-> 0]]
  /\ main' = [main EXCEPT !.pc = "flags"]
  /\ UNCHANGED <<life, media, pause, client, pkts, out, th, hist, budget>>

\* ... and RR_received.
StartCounts ==
  /\ ~Undefined /\ main.pc = "flags"
  /\ client' = [client EXCEPT ![main.s].rr = 0]
  /\ main' = Idle
  /\ UNCHANGED <<life, media, pause, started, adapt, pkts, out, th, hist, budget>>

\* PAUSE sets pause; started stays.
Pause(s) ==
  /\ Request
  /\ life[s] = "live"
  /\ pause' = [pause EXCEPT ![s] = TRUE]
  /\ UNCHANGED <<life, media, started, adapt, client, pkts, out, main, th, hist>>

\* TEARDOWN or the end of the connection: schedule_remove.
Teardown(s) ==
  /\ Request
  /\ life[s] = "live"
  /\ life' = [life EXCEPT ![s] = "removed"]
  /\ UNCHANGED <<media, pause, started, adapt, client, pkts, out, main, th, hist>>

\* RTCP_recv_packet: the count goes first, the loss and the jitter follow.
RTCP_recv_packet(s) ==
  /\ ~Undefined /\ main = Idle
  /\ life[s] = "live"
  /\ budget.reports # << >> /\ budget' = [budget EXCEPT !.reports = Tail(@)]
  /\ client' = [client EXCEPT ![s].rr = @ + 1]
  /\ credit' = [credit EXCEPT ![s] = @ + 1]
  /\ main' = [pc |-> "report", s |-> s, report |-> Head(budget.reports)]
  /\ UNCHANGED <<life, media, pause, started, adapt, pkts, out, th, owed>>

\* ntohl of the first byte of the jitter alone: the byte comes back as the
\* highest of four, the others are lost (little endian).
HighByte == 16777216
StoredJitter(j) == (j \div HighByte) * HighByte

RecvReport ==
  /\ ~Undefined /\ main.pc = "report"
  /\ client' = [client EXCEPT ![main.s].loss = main.report.loss,
                              ![main.s].jitter = StoredJitter(main.report.jitter)]
  /\ main' = Idle
  /\ UNCHANGED <<life, media, pause, started, adapt, pkts, out, th, hist, budget>>

-----------------------------------------------------------------------------
\* The scheduler thread, with one session at a time.  The time to send has come
\* whenever the thread takes the session up.

\* change_check reads the count of reports and compares it with the last one.
CheckCount(s) ==
  /\ ~Undefined /\ th = Idle
  /\ life[s] = "live" /\ ~pause[s]
  /\ th' = [pc |-> IF client[s].rr = adapt[s].prev THEN "rtcp" ELSE "judge", s |-> s, count |-> client[s].rr]
  /\ UNCHANGED <<life, media, pause, started, adapt, client, pkts, out, main, hist, budget>>

\* stream_switch: the file is closed, the buffer goes along.  Another session
\* that is at the entry changes its buffer too.
\* Mutant: the buffer stays behind.
stream_switchBare(s, e) ==
  /\ entryBuf' = entryBuf
  /\ cur' = [cur EXCEPT ![s] = [entry |-> e, own |-> FALSE]]
  /\ UNCHANGED crossed

stream_switch(s, e) ==
  /\ entryBuf' = [entryBuf EXCEPT ![e] = CurBuf(s)]
  /\ cur' = [cur EXCEPT ![s] = [entry |-> e, own |-> FALSE]]
  /\ crossed' = (crossed \/ \E t \in Sessions \ {s} : life[t] # "none" /\ cur[t] = [entry |-> e, own |-> FALSE])

\* stream_change: a bound that was reached stops the search until a verdict the
\* other way or the next PLAY.
Stopped(a, verdict) == (verdict < 0 /\ a.min) \/ (verdict > 0 /\ a.max) \/ verdict = 0

\* Mutant: the other bound stays.
AfterVerdictKept(a, e, verdict) ==
  IF Stopped(a, verdict) THEN a
  ELSE [a EXCEPT !.max = @ \/ (verdict > 0 /\ Target(e, verdict) = 0 /\ Priority(e) = 1),
                 !.min = @ \/ (verdict < 0 /\ Target(e, verdict) = 0)]

AfterVerdict(a, e, verdict) ==
  IF Stopped(a, verdict) THEN a
  ELSE [a EXCEPT !.max = verdict > 0 /\ Target(e, verdict) = 0 /\ Priority(e) = 1,
                 !.min = verdict < 0 /\ Target(e, verdict) = 0]

\* Mutant: the count is not kept, so that a report is judged with each packet.
JudgedForgets(a, count) == a

Judged(a, count) == [a EXCEPT !.prev = count]

\* The rest of change_check, and stream_change.  The loss and the jitter are
\* read together; what they say is the verdict either way.
Adapt ==
  /\ ~Undefined /\ th.pc = "judge"
  /\ LET s == th.s
         verdict == change_check(client[s])
         e == cur[s].entry
         target == IF Stopped(adapt[s], verdict) THEN 0 ELSE Target(e, verdict)
     IN /\ adapt' = [adapt EXCEPT ![s] = AfterVerdict(Judged(@, th.count), e, verdict)]
        /\ IF target = 0 THEN UNCHANGED <<cur, entryBuf, crossed>> ELSE stream_switch(s, target)
        /\ credit' = [credit EXCEPT ![s] = @ - 1]
  /\ th' = [th EXCEPT !.pc = "rtcp"]
  /\ UNCHANGED <<life, ownBuf, refs, freed, cons, pause, started, client, pkts, out, main, owed, budget>>

\* RTCP_handler: with every Interval-th packet a report and SDES go behind what
\* waits in rtcp_outbuffer ...
Composed(s) ==
  LET report == IF pkts[s] = 0 THEN "RR" ELSE "SR"
  IN RTCP_send_packet(RTCP_send_packet(out[s], report), "SDES")

NoReport ==
  /\ ~Undefined /\ th.pc = "rtcp" /\ pkts[th.s] % Interval # 0
  /\ th' = [th EXCEPT !.pc = "play"]
  /\ UNCHANGED <<life, media, pause, started, adapt, client, pkts, out, main, hist, budget>>

Reporting ==
  /\ ~Undefined /\ th.pc = "rtcp" /\ pkts[th.s] % Interval = 0
  /\ th' = [th EXCEPT !.pc = "play"]
  /\ UNCHANGED <<life, media, pause, started, adapt, client, pkts, main, credit>>

\* ... and all of it is sent when the socket is ready.
Byes(q) == Cardinality({i \in DOMAIN q : q[i].type = "BYE"})

\* Mutant: what was sent stays in the buffer.
SentKept(q) == q

Sent(q) == << >>

SendReports ==
  /\ Reporting
  /\ owed' = [owed EXCEPT ![th.s] = @ - Byes(Composed(th.s))]
  /\ out' = [out EXCEPT ![th.s] = Sent(Composed(th.s))]
  /\ UNCHANGED budget

\* select runs out of time: the packets wait for the next report.
SelectTimeout ==
  /\ Reporting
  /\ Spend("timeouts")
  /\ out' = [out EXCEPT ![th.s] = Composed(th.s)]
  /\ UNCHANGED owed

Readable(s) == Usable(CurBuf(s)) /\ Usable(cons[s])

\* play_action sends a packet, or none that counts.
PlayOk ==
  /\ ~Undefined /\ th.pc = "play" /\ Readable(th.s)
  /\ \/ pkts' = [pkts EXCEPT ![th.s] = (@ % Interval) + 1]
     \/ UNCHANGED pkts
  /\ th' = Idle
  /\ UNCHANGED <<life, media, pause, started, adapt, client, out, main, hist, budget>>

\* The end of the file: schedule_stop pauses the session and leaves SR and BYE.
schedule_stop ==
  /\ ~Undefined /\ th.pc = "play" /\ Readable(th.s)
  /\ Spend("ends")
  /\ pause' = [pause EXCEPT ![th.s] = TRUE] /\ started' = [started EXCEPT ![th.s] = FALSE]
  /\ LET queued == RTCP_send_packet(RTCP_send_packet(out[th.s], "SR"), "BYE")
     IN /\ out' = [out EXCEPT ![th.s] = queued]
        /\ owed' = [owed EXCEPT ![th.s] = IF Byes(queued) = Byes(out[th.s]) THEN @ ELSE @ + 1]
  /\ th' = Idle
  /\ UNCHANGED <<life, media, adapt, client, pkts, main, credit>>

\* A buffer that was freed, or none.
PlayUndefined ==
  /\ ~Undefined /\ th.pc = "play" /\ ~Readable(th.s)
  /\ th' = [pc |-> "undefined"]
  /\ UNCHANGED <<life, media, pause, started, adapt, client, pkts, out, main, hist, budget>>

\* RTP_session_destroy: the consumer goes, the buffer when it was the last one.
\* Of the entries only the current one forgets the buffer.
RTP_session_destroy(s) ==
  /\ ~Undefined /\ th = Idle
  /\ life[s] = "removed"
  /\ LET b == CurBuf(s)
         left == IF cons[s] = 0 THEN refs ELSE [refs EXCEPT ![cons[s]] = @ - 1]
     IN IF Usable(b) /\ (cons[s] = 0 \/ Usable(cons[s]))
          THEN /\ refs' = left
               /\ IF left[b] = 0
                    THEN /\ freed' = freed \cup {b}
                         /\ entryBuf' = IF cur[s].own THEN entryBuf ELSE [entryBuf EXCEPT ![cur[s].entry] = 0]
                    ELSE UNCHANGED <<freed, entryBuf>>
               /\ UNCHANGED th
          ELSE th' = [pc |-> "undefined"] /\ UNCHANGED <<refs, freed, entryBuf>>
  /\ life' = [life EXCEPT ![s] = "none"]
  /\ UNCHANGED <<cur, ownBuf, cons, crossed, pause, started, adapt, client, pkts, out, main, hist, budget>>

Main ==
  \/ \E s \in Sessions : \/ \E e \in Entries : Setup(s, e)
                         \/ PlayAll(s) \/ PlayFile(s) \/ Pause(s) \/ Teardown(s) \/ RTCP_recv_packet(s)
  \/ StartFlags \/ StartCounts \/ RecvReport

Scheduler ==
  \/ \E s \in Sessions : CheckCount(s) \/ RTP_session_destroy(s)
  \/ Adapt \/ NoReport \/ SendReports \/ SelectTimeout \/ PlayOk \/ schedule_stop \/ PlayUndefined

Next == Main \/ Scheduler

Spec == Init /\ [][Next]_vars

-----------------------------------------------------------------------------
\* What the code keeps of a session and of its reports.
RTCP_stats == [rr : Nat, loss : 0 .. 255, jitter : Nat]
Bounds == [min : BOOLEAN, max : BOOLEAN, prev : Nat]
Packet == [type : {"SR", "RR", "SDES", "BYE"}, size : Nat]
MainStates ==
  [pc : {"idle", "undefined"}] \cup [pc : {"started", "flags"}, s : Sessions]
  \cup [pc : {"report"}, s : Sessions, report : Reports]
ThreadStates ==
  [pc : {"idle", "undefined"}] \cup [pc : {"judge", "rtcp", "play"}, s : Sessions, count : Nat]

\* Type correctness.
TypeOK ==
  /\ life \in [Sessions -> {"none", "live", "removed"}]
  /\ cur \in [Sessions -> [entry : Entries, own : BOOLEAN]]
  /\ ownBuf \in [Sessions -> 0 .. Len(refs)] /\ entryBuf \in [Entries -> 0 .. Len(refs)]
  /\ refs \in Seq(Int) /\ freed \subseteq Buffers /\ cons \in [Sessions -> 0 .. Len(refs)]
  /\ pause \in [Sessions -> BOOLEAN] /\ started \in [Sessions -> BOOLEAN]
  /\ adapt \in [Sessions -> Bounds] /\ client \in [Sessions -> RTCP_stats]
  /\ pkts \in [Sessions -> 0 .. Interval] /\ out \in [Sessions -> Seq(Packet)]
  /\ main \in MainStates /\ th \in ThreadStates
  /\ credit \in [Sessions -> Int] /\ owed \in [Sessions -> Int] /\ crossed \in BOOLEAN
  /\ budget \in Bounded

\* A report of loss or jitter never moves a session to a higher rate, a good one
\* never to a lower rate, and nothing else moves it (stream_change.c:13-43, the
\* three ladders and the two priority searches behind them).
MovesWithVerdict ==
  [][\A s \in Sessions : life[s] = "live" /\ cur'[s].entry # cur[s].entry =>
       LET verdict == change_check(client[s])
           up == Rate(cur'[s].entry) > Rate(cur[s].entry)
       IN IF verdict > 0 THEN up ELSE verdict < 0 /\ ~up]_vars

\* A bound that stops the search is real: nothing lower, or nothing higher, is in
\* the list.  Both at once would stop a session for good
\* (stream_change.c:16-36, priority_decrease.c:25, priority_increase.c:28).
BoundsAreReal ==
  \A s \in Sessions : life[s] = "live" =>
    /\ ~(adapt[s].min /\ adapt[s].max)
    /\ adapt[s].min => \A e \in Entries : Rate(e) >= Rate(cur[s].entry)
    /\ adapt[s].max => \A e \in Entries : Rate(e) <= Rate(cur[s].entry)

\* There are no more judgements than reports, however many packets are sent in
\* between.  What is judged may be older than the report that is counted: a report
\* raises RR_received before its values are stored (RTCP_recv_packet.c:50-63).  And
\* a PLAY that finds reports may cost two more judgements: PreviousCount is reset before
\* RR_received, and the scheduler thread, which does not take the lock, may store
\* the old count in between (change_check.c:11-15, schedule_start.c:45-46).
EachReportOnce ==
  \A s \in Sessions : credit[s] >= 0

\* The buffer a session reads is the one its medium is read into, nobody else's,
\* and not freed, until the session comes to an entry that has a buffer of
\* another one (stream_switch.c:9, mediacpy.c:31-33, RTP_session_destroy.c:22-28).
ReadsWhatItWrites ==
  ~crossed => \A s \in Sessions : life[s] # "none" /\ cons[s] # 0 =>
    /\ cons[s] = CurBuf(s) /\ cons[s] \notin freed
    /\ \A t \in Sessions \ {s} : life[t] # "none" => CurBuf(t) # CurBuf(s)

\* Each end of a stream leaves one BYE: sent, waiting in rtcp_outbuffer, or lost
\* for want of room, also when select runs out of time (RTCP_handler.c:24-40,
\* schedule_stop.c:14-15, RTCP_send_packet.c:121-127).
ByesMatchEnds ==
  \A s \in Sessions : Byes(out[s]) = owed[s]
=============================================================================
