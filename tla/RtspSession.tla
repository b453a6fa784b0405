---------------------------- MODULE RtspSession -----------------------------
(***************************************************************************)
(* One RTSP connection (rtsp/RTSP_*.c, eventloop/*.c): the state machine,  *)
(* the list of the RTP sessions that were set up, and what the handlers do *)
(* to them.  The main thread alternates rtsp_set_fdsets, select and the    *)
(* requests that arrived, of which RTSP_handler may find several in the    *)
(* buffer; the scheduler thread stops a stream at the end of its file, at  *)
(* any time.                                                               *)
(*                                                                         *)
(* The streams are unicast over UDP or interleaved, of one presentation    *)
(* whose files all name its aggregate.                                     *)
(*                                                                         *)
(* A request that changes nothing of this (OPTIONS, DESCRIBE, a method     *)
(* that the state refuses, every request once session_list is NULL) is no  *)
(* action.  sched[] and its races are in Scheduler; here a slot is only    *)
(* valid or not.                                                           *)
(***************************************************************************)
EXTENDS Integers, FiniteSets

CONSTANTS
  Files,         \* the streams of the presentation, by file_name
  Priority1,     \* those whose priority is 1
  MaxStreams,    \* bound on the SETUPs of the connection
  MaxChannel     \* 255, the last interleaved channel

ASSUME FilesAssumption == Priority1 \subseteq Files
ASSUME StreamsAssumption == MaxStreams \in Nat
ASSUME ChannelAssumption == MaxChannel \in Nat

None == -1
NoFile == "no file"
ASSUME NoFileAssumption == NoFile \notin Files

\* RTP sessions, numbered in the order in which they were set up; the linked
\* list keeps that order.
Streams == 1 .. MaxStreams

VARIABLES
  cur_state,    \* of session_list: "init", "ready", "play", or "null" without one
  named,        \* session_id is no longer -1: a SETUP reply told it to the client
  made,         \* RTP sessions allocated so far
  list,         \* session_list->rtp_session
  file,         \* current_media->filename
  channel,      \* transport.u.tcp.interleaved.RTP; RTCP is the next one
  chosen,       \* the streams whose channel the server chose
  pause, started,
  sched,        \* streams whose slot of sched[] is valid
  silenced,     \* history: no PLAY was served since SETUP or the last PAUSE
  stopping,     \* scheduler thread: the stream between the stores of schedule_stop
  loop          \* "fdsets", "select" or "closed"

streams == <<made, file, channel, chosen>>
vars == <<cur_state, named, list, streams, pause, started, sched, silenced,
          stopping, loop>>

Init ==
  /\ cur_state = "init"
  /\ named = FALSE
  /\ made = 0
  /\ list = {}
  /\ file = [s \in Streams |-> NoFile]
  /\ channel = [s \in Streams |-> None]
  /\ chosen = {}
  /\ pause = [s \in Streams |-> TRUE]
  /\ started = [s \in Streams |-> FALSE]
  /\ sched = {}
  /\ silenced = TRUE
  /\ stopping = None
  /\ loop = "fdsets"

Serving(states) == loop = "select" /\ cur_state \in states

-----------------------------------------------------------------------------
(* SETUP, in the states INIT and READY.  In PLAY it is dropped.  Clients suggest
   consecutive channels. *)

\* Mutant: the RTP channels.
UsedRtp == {None} \cup {channel[s] : s \in {t \in list : channel[t] # None}}

\* The RTCP channels of the listed streams that are interleaved, and -1.
UsedChannels == {None} \cup {channel[s] + 1 : s \in {t \in list : channel[t] # None}}

\* max_interlvd + 1
IsNextChannel(c) == c - 1 \in UsedChannels /\ \A d \in UsedChannels : d < c

\* The transport of the new stream: UDP, interleaved on the channel the client
\* suggests, or on one the server chooses behind those in use.
Transport(c, auto) ==
  \/ c = None /\ ~auto
  \/ c \in 0 .. MaxChannel - 1 /\ ~auto
  \/ IsNextChannel(c) /\ c + 1 <= MaxChannel /\ auto

\* A new RTP_session at the end of the list; its pause is 1.
Link(f, c, auto) ==
  LET s == made + 1
  IN /\ made < MaxStreams
     /\ made' = s
     /\ list' = list \cup {s}
     /\ file' = [file EXCEPT ![s] = f]
     /\ channel' = [channel EXCEPT ![s] = c]
     /\ chosen' = IF auto THEN chosen \cup {s} ELSE chosen

SetupDone(f, c, auto) ==
  /\ Serving({"init", "ready"})
  /\ Transport(c, auto)
  /\ Link(f, c, auto)
  /\ sched' = sched \cup {made + 1}
  /\ named' = TRUE
  /\ cur_state' = "ready"
  /\ UNCHANGED <<pause, started, silenced, stopping, loop>>

\* Most errors are answered and RTSP_setup returns ERR_NOERROR.
SetupRefused ==
  /\ Serving({"init", "ready"})
  /\ cur_state' = "ready"
  /\ UNCHANGED <<named, list, streams, pause, started, sched, silenced,
                 stopping, loop>>

-----------------------------------------------------------------------------
(* PLAY, in the state READY *)

\* schedule_start for a stream that is not started, schedule_resume for one that
\* is started and paused.
Run(S) ==
  /\ pause' = [s \in Streams |-> pause[s] /\ s \notin S]
  /\ started' = [s \in Streams |-> started[s] \/ s \in S]

\* Streams that a PLAY of the presentation, of one stream, or of the aggregate
\* finds.
OfPresentation == {s \in list : file[s] \in Priority1}
OfStream(f) ==
  {s \in list : file[s] = f /\ \A t \in list : file[t] = f => s <= t}

Play(S) ==
  /\ Serving({"ready"})
  /\ named
  /\ Run(S)
  /\ cur_state' = "play"
  /\ silenced' = FALSE
  /\ UNCHANGED <<named, list, streams, sched, stopping, loop>>

PlayPresentation == Play(OfPresentation)
PlayStream(f)    == OfStream(f) # {} /\ Play(OfStream(f))
PlayAggregate    == Play(list)

\* An error is answered, RTSP_play returns ERR_NOERROR.
PlayRefused ==
  /\ Serving({"ready"})
  /\ cur_state' = "play"
  /\ UNCHANGED <<named, list, streams, pause, started, sched, silenced,
                 stopping, loop>>

-----------------------------------------------------------------------------
(* PAUSE, in the state PLAY *)

\* Mutant: only the first stream of the list is paused.
PauseFirst ==
  /\ Serving({"play"})
  /\ named
  /\ pause' = [s \in Streams |-> pause[s] \/ (s \in list /\ \A t \in list : s <= t)]
  /\ cur_state' = "ready"
  /\ silenced' = TRUE
  /\ UNCHANGED <<named, list, streams, started, sched, stopping, loop>>

Pause ==
  /\ Serving({"play"})
  /\ named
  /\ pause' = [s \in Streams |-> pause[s] \/ s \in list]
  /\ cur_state' = "ready"
  /\ silenced' = TRUE
  /\ UNCHANGED <<named, list, streams, started, sched, stopping, loop>>

PauseRefused ==
  /\ Serving({"play"})
  /\ cur_state' = "ready"
  /\ UNCHANGED <<named, list, streams, pause, started, sched, silenced,
                 stopping, loop>>

-----------------------------------------------------------------------------
(* TEARDOWN, in every state, and the end of the connection *)

\* What the connection knows of the streams of S goes with them; the thread of
\* the scheduler still has them, and destroys them.
Unlink(S) ==
  /\ list' = list \ S
  /\ file' = [s \in Streams |-> IF s \in S THEN NoFile ELSE file[s]]
  /\ channel' = [s \in Streams |-> IF s \in S THEN None ELSE channel[s]]
  /\ chosen' = chosen \ S
  /\ pause' = [s \in Streams |-> pause[s] \/ s \in S]
  /\ started' = [s \in Streams |-> started[s] /\ s \notin S]

\* Mutant: the slots of the streams stay valid.
ReleaseForgotten(S) ==
  /\ Unlink(S)
  /\ UNCHANGED sched

\* schedule_remove for each stream of S.
Release(S) ==
  /\ Unlink(S)
  /\ sched' = sched \ S

\* The matching streams are released; the session goes with the last one.
Teardown(S) ==
  /\ Serving({"init", "ready", "play"})
  /\ Release(S)
  /\ cur_state' = IF list \ S = {} THEN "null" ELSE cur_state
  /\ UNCHANGED <<named, made, silenced, stopping, loop>>

\* "file.sd!stream" and "file.sd!aggregate" name streams, "file.sd" names none.
TeardownStream(f)    == Teardown({s \in list : file[s] = f})
TeardownAggregate    == Teardown(list)
TeardownPresentation == Teardown({})

\* ERR_CONNECTION_CLOSE or ERR_GENERIC of rtsp_server.
Close ==
  /\ loop = "select"
  /\ Release(list)
  /\ cur_state' = "null"
  /\ loop' = "closed"
  /\ UNCHANGED <<named, made, silenced, stopping>>

-----------------------------------------------------------------------------
(* The event loop *)

\* rtsp_set_fdsets, before select.
SetFds ==
  /\ loop = "fdsets"
  /\ loop' = "select"
  /\ cur_state' = IF \E s \in list : ~started[s] THEN "ready" ELSE cur_state
  /\ UNCHANGED <<named, list, streams, pause, started, sched, silenced, stopping>>

\* schedule_connections is done; eventloop is called again.
Turn ==
  /\ loop = "select"
  /\ loop' = "fdsets"
  /\ UNCHANGED <<cur_state, named, list, streams, pause, started, sched, silenced,
                 stopping>>

-----------------------------------------------------------------------------
(* Scheduler thread: schedule_stop of a stream that is sent, its two stores *)

StopPause(s) ==
  /\ stopping = None
  /\ s \in sched
  /\ ~pause[s]
  /\ pause' = [pause EXCEPT ![s] = TRUE]
  /\ stopping' = s
  /\ UNCHANGED <<cur_state, named, list, streams, started, sched, silenced, loop>>

StopStarted ==
  /\ stopping # None
  /\ started' = [s \in Streams |-> started[s] /\ s # stopping]
  /\ stopping' = None
  /\ UNCHANGED <<cur_state, named, list, streams, pause, sched, silenced, loop>>

-----------------------------------------------------------------------------
Setup ==
  \/ \E f \in Files, c \in {None} \cup 0 .. MaxChannel, auto \in BOOLEAN : SetupDone(f, c, auto)
  \/ SetupRefused

PlayOrPause ==
  \/ PlayPresentation \/ PlayAggregate \/ PlayRefused
  \/ \E f \in Files : PlayStream(f)
  \/ Pause \/ PauseRefused

TeardownOrClose ==
  \/ \E f \in Files : TeardownStream(f)
  \/ TeardownAggregate \/ TeardownPresentation
  \/ Close

Next ==
  \/ Setup \/ PlayOrPause \/ TeardownOrClose
  \/ SetFds \/ Turn
  \/ \E s \in Streams : StopPause(s)
  \/ StopStarted

Spec == Init /\ [][Next]_vars

-----------------------------------------------------------------------------
\* Type correctness; a channel and the next one fit into a byte.
TypeOK ==
  /\ cur_state \in {"init", "ready", "play", "null"}
  /\ named \in BOOLEAN /\ silenced \in BOOLEAN
  /\ made \in 0 .. MaxStreams
  /\ list \subseteq 1 .. made
  /\ file \in [Streams -> Files \cup {NoFile}]
  /\ channel \in [Streams -> {None} \cup 0 .. MaxChannel - 1]
  /\ chosen \subseteq list
  /\ pause \in [Streams -> BOOLEAN] /\ started \in [Streams -> BOOLEAN]
  /\ sched \subseteq Streams
  /\ stopping \in Streams \cup {None}
  /\ loop \in {"fdsets", "select", "closed"}

(* The slots of sched[] that are valid for this connection are those of the
   streams it lists: no TEARDOWN, of a stream or of all, and no end of the
   connection leaves a stream in the scheduler that no request can reach any
   more, or takes one out that can still be played. *)
ScheduledAreListed == sched = list

(* The reply to PLAY follows session_list->rtp_session without a test
   (rtsp/send_play_reply.c): a session whose number was told to the client has a
   stream, for a TEARDOWN of the last one frees it. *)
SessionHasStream == (named /\ cur_state # "null") => list # {}

(* After PAUSE was answered with 200, and before a first PLAY, every listed
   stream is paused until a PLAY is served: no refused request, no end of a file
   and no turn of the event loop lets one go on. *)
PauseSticks == silenced => \A s \in list : pause[s]

(* The interleaved channels the server chooses belong to no other stream of the
   connection, whatever the clients suggested before and which streams were
   torn down: RTSP_handler gives a packet to the first stream with its channel. *)
Channels(s) == IF channel[s] = None THEN {} ELSE {channel[s], channel[s] + 1}
AutoChannelIsFree ==
  [][\A s \in list' \ list :
       s \in chosen' => \A t \in list : Channels(t) \cap Channels(s)' = {}]_vars

=============================================================================
