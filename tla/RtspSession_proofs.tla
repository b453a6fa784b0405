------------------------- MODULE RtspSession_proofs -------------------------
(***************************************************************************)
(* Proofs about RtspSession, for every presentation, every number of       *)
(* SETUPs and every last channel, and about RtspRequest, for whatever      *)
(* clients send.                                                           *)
(***************************************************************************)
EXTENDS RtspRequest, TLAPS

\* A stream that no request can reach is not played, and has no channel.
UnlistedIsIdle == \A s \in Streams : s \notin list => pause[s] /\ channel[s] = None

IInv ==
  /\ TypeOK
  /\ UnlistedIsIdle
  /\ ScheduledAreListed
  /\ SessionHasStream
  /\ PauseSticks

-----------------------------------------------------------------------------
(* Init establishes the invariant. *)
LEMMA InitIInv == Init => IInv
<1> SUFFICES ASSUME Init PROVE IInv
  OBVIOUS
<1>1. TypeOK
  <2>1. file \in [Streams -> Files \cup {NoFile}]
    BY Zenon DEF Init
  <2>2. channel \in [Streams -> {None} \cup 0 .. MaxChannel - 1]
    BY Zenon DEF Init
  <2>3. pause \in [Streams -> BOOLEAN] /\ started \in [Streams -> BOOLEAN]
    BY DEF Init
  <2>4. made \in 0 .. MaxStreams
    BY StreamsAssumption DEF Init
  <2>5. list = {} /\ chosen = {} /\ sched = {} /\ stopping = None
    BY DEF Init
  <2>6. /\ cur_state \in {"init", "ready", "play", "null"}
        /\ named \in BOOLEAN /\ silenced \in BOOLEAN
        /\ loop \in {"fdsets", "select", "closed"}
    BY DEF Init
  <2> QED
    BY <2>1, <2>2, <2>3, <2>4, <2>5, <2>6 DEF TypeOK
<1> QED
  BY <1>1 DEF Init, IInv, UnlistedIsIdle, ScheduledAreListed, SessionHasStream, PauseSticks

(* A SETUP that is answered with 200 keeps the invariant: the stream it lists
   was not listed, so it is paused. *)
LEMMA SetupStep ==
  ASSUME IInv, NEW f \in Files, NEW c \in {None} \cup 0 .. MaxChannel,
         NEW auto \in BOOLEAN, SetupDone(f, c, auto)
  PROVE  IInv'
<1> DEFINE s == made + 1
<1> USE StreamsAssumption, ChannelAssumption DEF IInv
<1>1. s \in Streams /\ s \notin list /\ list' = list \cup {s}
  BY DEF SetupDone, Link, TypeOK, Streams
<1>2. c \in {None} \cup 0 .. MaxChannel - 1
  BY DEF SetupDone, Transport, None
<1>3. TypeOK'
  BY <1>1, <1>2 DEF SetupDone, Link, TypeOK, Streams
<1>4. UnlistedIsIdle'
  BY <1>1 DEF SetupDone, Link, TypeOK, UnlistedIsIdle
<1>5. ScheduledAreListed'
  BY <1>1 DEF SetupDone, ScheduledAreListed
<1>6. SessionHasStream'
  BY <1>1 DEF SessionHasStream
<1>7. PauseSticks'
  BY <1>1 DEF SetupDone, PauseSticks, UnlistedIsIdle
<1> QED
  BY <1>3, <1>4, <1>5, <1>6, <1>7

(* Playing listed streams keeps the invariant. *)
LEMMA PlayStep ==
  ASSUME IInv, NEW S \in SUBSET list, Play(S)
  PROVE  IInv'
<1> USE DEF IInv, Play, Run
<1>1. TypeOK'
  BY DEF TypeOK, Serving, streams
<1>2. UnlistedIsIdle'
  BY DEF UnlistedIsIdle, streams
<1>3. ScheduledAreListed' /\ SessionHasStream' /\ PauseSticks'
  BY DEF ScheduledAreListed, SessionHasStream, PauseSticks, Serving
<1> QED
  BY <1>1, <1>2, <1>3

(* Unlinking streams keeps the types, and leaves nothing of them behind. *)
LEMMA UnlinkStep ==
  ASSUME TypeOK, UnlistedIsIdle, PauseSticks, NEW S \in SUBSET list, Unlink(S),
         silenced' = silenced
  PROVE  /\ list' = list \ S
         /\ file' \in [Streams -> Files \cup {NoFile}]
         /\ channel' \in [Streams -> {None} \cup 0 .. MaxChannel - 1]
         /\ pause' \in [Streams -> BOOLEAN]
         /\ started' \in [Streams -> BOOLEAN]
         /\ chosen' \subseteq list'
         /\ UnlistedIsIdle'
         /\ PauseSticks'
<1>1. list' = list \ S /\ chosen' \subseteq list'
  BY DEF Unlink, TypeOK
<1>2. file' \in [Streams -> Files \cup {NoFile}]
  BY DEF Unlink, TypeOK
<1>3. channel' \in [Streams -> {None} \cup 0 .. MaxChannel - 1]
  BY DEF Unlink, TypeOK
<1>4. pause' \in [Streams -> BOOLEAN] /\ started' \in [Streams -> BOOLEAN]
  BY DEF Unlink, TypeOK
<1>5. list \subseteq Streams
  BY StreamsAssumption DEF TypeOK, Streams
<1>6. UnlistedIsIdle'
  BY <1>1 DEF Unlink, UnlistedIsIdle, TypeOK
<1>7. PauseSticks'
  BY <1>1, <1>5 DEF Unlink, PauseSticks
<1> QED
  BY <1>1, <1>2, <1>3, <1>4, <1>6, <1>7

(* TEARDOWN of listed streams keeps the invariant: the last stream takes the
   session with it. *)
LEMMA TeardownStep ==
  ASSUME IInv, NEW S \in SUBSET list, Teardown(S)
  PROVE  IInv'
<1> USE DEF IInv, Teardown, Release
<1>1. Unlink(S) /\ silenced' = silenced
  OBVIOUS
<1>2. TypeOK'
  BY <1>1, UnlinkStep DEF TypeOK, Serving
<1>3. ScheduledAreListed'
  BY <1>1, UnlinkStep DEF ScheduledAreListed
<1>4. SessionHasStream'
  BY <1>1, UnlinkStep DEF SessionHasStream
<1> QED
  BY <1>1, <1>2, <1>3, <1>4, UnlinkStep

(* The end of the connection keeps the invariant. *)
LEMMA CloseStep ==
  ASSUME IInv, Close
  PROVE  IInv'
<1> USE DEF IInv, Close, Release
<1>1. Unlink(list) /\ silenced' = silenced
  OBVIOUS
<1>2. TypeOK'
  BY <1>1, UnlinkStep DEF TypeOK
<1>3. ScheduledAreListed'
  BY <1>1, UnlinkStep DEF ScheduledAreListed
<1>4. SessionHasStream'
  BY DEF SessionHasStream
<1> QED
  BY <1>1, <1>2, <1>3, <1>4, UnlinkStep

(* Every step keeps the invariant. *)
LEMMA NextIInv == IInv /\ [Next]_vars => IInv'
<1> SUFFICES ASSUME IInv, [Next]_vars
             PROVE  IInv'
  OBVIOUS
<1>1. CASE Setup
  <2>1. ASSUME NEW f \in Files, NEW c \in {None} \cup 0 .. MaxChannel,
               NEW auto \in BOOLEAN, SetupDone(f, c, auto)
        PROVE  IInv'
    BY <2>1, SetupStep
  <2>2. CASE SetupRefused
    BY <2>2 DEF SetupRefused, IInv, TypeOK, UnlistedIsIdle, ScheduledAreListed,
                SessionHasStream, PauseSticks, Serving, streams
  <2> QED
    BY <1>1, <2>1, <2>2 DEF Setup
<1>2. CASE PlayOrPause
  <2>1. CASE PlayPresentation
    BY <2>1, PlayStep DEF PlayPresentation, OfPresentation
  <2>2. CASE PlayAggregate
    BY <2>2, PlayStep DEF PlayAggregate
  <2>3. ASSUME NEW f \in Files, PlayStream(f)
        PROVE  IInv'
    BY <2>3, PlayStep DEF PlayStream, OfStream
  <2>4. CASE PlayRefused
    BY <2>4 DEF PlayRefused, IInv, TypeOK, UnlistedIsIdle, ScheduledAreListed,
                SessionHasStream, PauseSticks, Serving, streams
  <2>5. CASE Pause
    <3>1. TypeOK'
      BY <2>5 DEF Pause, IInv, TypeOK, Serving, streams
    <3>2. list \subseteq Streams
      BY StreamsAssumption DEF IInv, TypeOK, Streams
    <3> QED
      BY <2>5, <3>1, <3>2 DEF Pause, IInv, UnlistedIsIdle, ScheduledAreListed,
                              SessionHasStream, PauseSticks, Serving, streams
  <2>6. CASE PauseRefused
    BY <2>6 DEF PauseRefused, IInv, TypeOK, UnlistedIsIdle, ScheduledAreListed,
                SessionHasStream, PauseSticks, Serving, streams
  <2> QED
    BY <1>2, <2>1, <2>2, <2>3, <2>4, <2>5, <2>6 DEF PlayOrPause
<1>3. CASE TeardownOrClose
  BY <1>3, TeardownStep, CloseStep
  DEF TeardownOrClose, TeardownStream, TeardownAggregate, TeardownPresentation
<1>4. CASE SetFds
  BY <1>4 DEF SetFds, IInv, TypeOK, UnlistedIsIdle, ScheduledAreListed,
              SessionHasStream, PauseSticks, streams
<1>5. CASE Turn
  BY <1>5 DEF Turn, IInv, TypeOK, UnlistedIsIdle, ScheduledAreListed,
              SessionHasStream, PauseSticks, streams
<1>6. ASSUME NEW s \in Streams, StopPause(s)
      PROVE  IInv'
  <2>1. TypeOK'
    BY <1>6 DEF StopPause, IInv, TypeOK, streams
  <2>2. list \subseteq Streams
    BY StreamsAssumption DEF IInv, TypeOK, Streams
  <2> QED
    BY <1>6, <2>1, <2>2 DEF StopPause, IInv, TypeOK, UnlistedIsIdle, ScheduledAreListed,
                            SessionHasStream, PauseSticks, streams
<1>7. CASE StopStarted
  BY <1>7 DEF StopStarted, IInv, TypeOK, UnlistedIsIdle, ScheduledAreListed,
              SessionHasStream, PauseSticks, streams
<1>8. CASE UNCHANGED vars
  BY <1>8 DEF vars, streams, IInv, TypeOK, UnlistedIsIdle, ScheduledAreListed,
              SessionHasStream, PauseSticks
<1> QED
  BY <1>1, <1>2, <1>3, <1>4, <1>5, <1>6, <1>7, <1>8 DEF Next

(* The invariant holds throughout. *)
LEMMA Invariant == Spec => []IInv
BY InitIInv, NextIInv, PTL DEF Spec

-----------------------------------------------------------------------------
(* The state of a connection is well typed; a channel and the next one are not
   beyond the last channel (RTSP_setup). *)
THEOREM TypeCorrect == Spec => []TypeOK
<1>1. IInv => TypeOK
  BY DEF IInv
<1> QED
  BY <1>1, Invariant, PTL

(* The valid slots of a connection are those of its listed streams: SETUP adds
   both, TEARDOWN and the end of the connection take both away. *)
THEOREM ScheduledCorrect == Spec => []ScheduledAreListed
<1>1. IInv => ScheduledAreListed
  BY DEF IInv
<1> QED
  BY <1>1, Invariant, PTL

(* A session whose number the client knows has a stream, which send_play_reply
   follows without a test. *)
THEOREM PlayReplyHasStream == Spec => []SessionHasStream
<1>1. IInv => SessionHasStream
  BY DEF IInv
<1> QED
  BY <1>1, Invariant, PTL

(* What PAUSE stopped stays paused until a PLAY is served. *)
THEOREM PausedUntilPlay == Spec => []PauseSticks
<1>1. IInv => PauseSticks
  BY DEF IInv
<1> QED
  BY <1>1, Invariant, PTL

-----------------------------------------------------------------------------
(* A step that lists a stream is a SETUP, and lists the one stream it makes. *)
LEMMA OnlySetupLists ==
  ASSUME IInv, Next, NEW s \in list' \ list
  PROVE  \E f \in Files, c \in {None} \cup 0 .. MaxChannel, auto \in BOOLEAN :
           SetupDone(f, c, auto) /\ s = made + 1
<1>1. \/ \E f \in Files, c \in {None} \cup 0 .. MaxChannel, auto \in BOOLEAN :
           SetupDone(f, c, auto)
      \/ list' \subseteq list
  BY DEF Next, Setup, SetupRefused, PlayOrPause, PlayPresentation, PlayAggregate,
         PlayStream, Play, PlayRefused, Pause, PauseRefused, TeardownOrClose,
         TeardownStream, TeardownAggregate, TeardownPresentation, Teardown, Close,
         Release, Unlink, SetFds, Turn, StopPause, StopStarted
<1> QED
  BY <1>1 DEF SetupDone, Link

(* The channels the server chooses lie behind all that are in use
   (RTSP_setup's search for max_interlvd), so no listed stream has one of them. *)
THEOREM ChosenChannelIsFree == Spec => AutoChannelIsFree
<1> DEFINE Free(s) == s \in chosen' =>
             \A t \in list : Channels(t) \cap Channels(s)' = {}
<1>1. ASSUME IInv, Next, NEW s \in list' \ list
      PROVE  Free(s)
  <2>1. PICK f \in Files, c \in {None} \cup 0 .. MaxChannel, auto \in BOOLEAN :
          SetupDone(f, c, auto) /\ s = made + 1
    BY <1>1, OnlySetupLists
  <2>2. SUFFICES ASSUME s \in chosen', NEW t \in list
                 PROVE  Channels(t) \cap Channels(s)' = {}
    OBVIOUS
  <2>3. s \in Streams /\ t \in Streams /\ t # s /\ auto /\ channel'[s] = c
    BY <1>1, <2>1, <2>2, StreamsAssumption DEF SetupDone, Link, IInv, TypeOK, Streams
  <2>4. IsNextChannel(c)
    BY <2>1, <2>3 DEF SetupDone, Transport
  <2>5. channel[t] = None \/ channel[t] + 1 < c
    BY <2>4 DEF IsNextChannel, UsedChannels
  <2>6. channel[t] \in Int /\ c \in Int
    BY <1>1, <2>3, ChannelAssumption DEF IInv, TypeOK, None
  <2> QED
    BY <2>3, <2>5, <2>6 DEF Channels, None
<1>2. IInv /\ [Next]_vars => [\A s \in list' \ list : Free(s)]_vars
  BY <1>1
<1> QED
  BY <1>2, Invariant, PTL DEF Spec, AutoChannelIsFree

-----------------------------------------------------------------------------
(* RtspRequest *)

(* What a handler answers to r and leaves alone. *)
Truthful(r) ==
  /\ last'.asked = r.cseq
  /\ last'.readable = r.first
  /\ \/ /\ last'.replies = <<>> /\ UNCHANGED <<vars, session_id>>
        /\ last'.due => ~running'
     \/ \E good \in BOOLEAN, id \in {NoHeader, session_id, session_id'} :
          /\ last'.replies = << [good |-> good, cseq |-> rtsp_cseq', session |-> id] >>
          /\ session_id' = NoHeader \/ id \in {NoHeader, session_id'}
          /\ \/ good
             \/ UNCHANGED <<session_id, list, streams, sched, pause, started, silenced>>

(* A reply of status 200 may come with any step, if the number it names stays. *)
LEMMA GoodReply ==
  ASSUME NEW r, NEW id \in {NoHeader, session_id, session_id'}, Answer(r, 200, id),
         session_id' = NoHeader \/ id \in {NoHeader, session_id'}
  PROVE  Truthful(r)
<1>1. (200 < 400) = TRUE
  OBVIOUS
<1>2. /\ last'.asked = r.cseq
      /\ last'.readable = r.first
      /\ last'.replies = << [good |-> TRUE, cseq |-> rtsp_cseq', session |-> id] >>
  BY <1>1 DEF Answer
<1> QED
  BY <1>2, Zenon DEF Truthful

(* A reply that names no session may come with a step that changes nothing, whatever
   its status. *)
LEMMA AnyReply ==
  ASSUME NEW r, NEW status, Answer(r, status, NoHeader),
         UNCHANGED <<session_id, list, streams, sched, pause, started, silenced>>
  PROVE  Truthful(r)
<1> DEFINE good == status < 400
<1>1. /\ last'.asked = r.cseq
      /\ last'.readable = r.first
      /\ last'.replies = << [good |-> good, cseq |-> rtsp_cseq', session |-> NoHeader] >>
      /\ good \in BOOLEAN
  BY DEF Answer
<1> HIDE DEF good
<1> QED
  BY <1>1, Zenon DEF Truthful

(* Every request is a step of RtspSession or changes nothing of it, and the
   answer is truthful. *)
LEMMA HandlerStep ==
  ASSUME NEW r, NEW behind, RTSP_handler(r, behind)
  PROVE  [Next]_vars /\ Truthful(r)
<1>1. ASSUME NEW status, Refuse(r, status) PROVE UNCHANGED vars /\ Truthful(r)
  <2>1. Answer(r, status, NoHeader) /\ UNCHANGED <<vars, session_id>>
    BY <1>1 DEF Refuse, send_reply
  <2> QED
    BY <2>1, AnyReply DEF vars
<1>2. ASSUME NoReply(r), UNCHANGED <<vars, session_id>>, Due(r) => ~running'
      PROVE  UNCHANGED vars /\ Truthful(r)
  BY <1>2 DEF NoReply, Truthful
<1>3. CASE Response(r) \/ BadRequest(r)
  <2>1. IsResponse(r) => ~Due(r)
    BY DEF IsResponse, Due, Handled
  <2> QED
    BY <1>1, <1>2, <1>3, <2>1 DEF Response, BadRequest
<1>4. CASE NoNumber(r, behind) \/ NotInThisState(r) \/ Dropped(r)
  BY <1>1, <1>2, <1>4 DEF NoNumber, NotInThisState, Dropped, Due
<1>5. CASE RTSP_options(r) \/ RTSP_describe(r, behind)
  <2>1. PICK status : Answer(r, status, NoHeader) /\ UNCHANGED <<vars, session_id>>
    BY <1>5 DEF RTSP_options, RTSP_describe, send_options_reply, send_describe_reply,
         send_redirect_3xx, send_reply
  <2> QED
    BY <2>1, AnyReply DEF vars
<1>6. CASE SetupAnswersError(r, behind)
  <2>1. PICK status : Answer(r, status, NoHeader) /\ SetupRefused /\ UNCHANGED session_id
    BY <1>6 DEF SetupAnswersError, send_reply
  <2>2. Next
    BY <2>1 DEF Next, Setup
  <2> QED
    BY <2>1, <2>2, AnyReply DEF SetupRefused
<1>7. CASE SetupFails(r, behind)
  BY <1>1, <1>7 DEF SetupFails
<1>8. CASE RTSP_setup(r, behind)
  <2>1. Answer(r, 200, session_id')
    BY <1>8 DEF RTSP_setup, send_setup_reply
  <2> DEFINE t == Setting(TransportIn(r, behind).tokens)
             f == r.url.track
  <2>2. /\ f \in Files
        /\ \/ \E c \in 0 .. MaxChannel : SetupDone(f, c, TRUE)
           \/ SetupDone(f, t.channel, FALSE)
    <3> HIDE DEF SetupDone, Setting
    <3> QED
      BY <1>8, Zenon DEF RTSP_setup
  <2>3. ASSUME SetupDone(f, t.channel, FALSE)
        PROVE  t.channel \in {None} \cup 0 .. MaxChannel
    BY <2>3, ChannelAssumption DEF SetupDone, Transport
  <2>4. \E c \in {None} \cup 0 .. MaxChannel, auto \in BOOLEAN : SetupDone(f, c, auto)
    <3> HIDE DEF t, f
    <3> QED
      BY <2>2, <2>3
  <2>5. Setup
    BY <2>2, <2>4 DEF Setup
  <2> QED
    BY <2>1, <2>5, GoodReply DEF Next
<1>9. CASE PlayAnswersError(r, behind) \/ PauseAnswersError(r, behind)
  <2>1. PICK status : Answer(r, status, NoHeader) /\ (PlayRefused \/ PauseRefused) /\ UNCHANGED session_id
    BY <1>9 DEF PlayAnswersError, PauseAnswersError, send_reply
  <2>2. Next
    BY <2>1 DEF Next, PlayOrPause
  <2> QED
    BY <2>1, <2>2, AnyReply DEF PlayRefused, PauseRefused
<1>10. CASE RTSP_play(r, behind)
  <2>1. Answer(r, 200, session_id) /\ UNCHANGED session_id
    BY <1>10 DEF RTSP_play, send_play_reply
  <2>2. PlayPresentation \/ PlayAggregate \/ \E f \in Files : PlayStream(f)
    BY <1>10 DEF RTSP_play
  <2> QED
    BY <2>1, <2>2, GoodReply DEF Next, PlayOrPause
<1>11. CASE RTSP_pause(r, behind)
  <2>1. Answer(r, 200, session_id) /\ UNCHANGED session_id /\ (Pause \/ PauseRefused)
    BY <1>11 DEF RTSP_pause, send_pause_reply
  <2> QED
    BY <2>1, GoodReply DEF Next, PlayOrPause
<1>12. CASE TeardownAnswersError(r, behind)
  BY <1>1, <1>12 DEF TeardownAnswersError
<1>13. CASE RTSP_teardown(r, behind)
  <2>1. Answer(r, 200, session_id) /\ session_id' \in {NoHeader, session_id}
    BY <1>13 DEF RTSP_teardown, send_teardown_reply
  <2>2. TeardownAggregate \/ TeardownPresentation \/ \E f \in Files : TeardownStream(f)
    BY <1>13 DEF RTSP_teardown
  <2> QED
    BY <2>1, <2>2, GoodReply DEF Next, TeardownOrClose
<1>14. CASE FollowsNull(r, behind)
  BY <1>2, <1>14 DEF FollowsNull
<1> QED
  BY <1>3, <1>4, <1>5, <1>6, <1>7, <1>8, <1>9, <1>10, <1>11, <1>12, <1>13, <1>14
  DEF RTSP_handler, RTSP_state_machine

(* The other steps answer nothing. *)
LEMMA OtherStep ==
  ASSUME Return \/ Disconnect \/ Elsewhere
  PROVE  [Next]_vars /\ (last' = last \/ last'.asked = 0)
<1>1. CASE Return
  BY <1>1 DEF Return, AtRest, Next
<1>2. CASE Disconnect
  BY <1>2 DEF Disconnect, request, Next, TeardownOrClose
<1>3. CASE Elsewhere
  BY <1>3 DEF Elsewhere, request, Next
<1> QED
  BY <1>1, <1>2, <1>3

(* Whatever a client sends, the connection does what RtspSession says: all that is
   proved of RtspSession holds of a connection that reads its requests. *)
THEOREM RequestsImplementSession == RequestSpec => Spec
<1>1. RequestInit => Init
  BY DEF RequestInit
<1>2. [RequestNext]_<<vars, request>> => [Next]_vars
  BY HandlerStep, OtherStep DEF RequestNext, vars
<1> QED
  BY <1>1, <1>2, PTL DEF RequestSpec, Spec

(* Every request that the state of its connection handles is answered, or ends the
   process with a NULL that its handler followed; every answer of RTSP_handler names
   its request and a session that goes on, and a request that is refused or dropped
   has changed nothing but the state. *)
THEOREM AnswersCorrect == RequestSpec => AnswersAreTrue
<1> DEFINE Answered == last'.asked # 0 /\ last'.asked # last.asked
           Named    == last'.readable =>
                         \A i \in DOMAIN last'.replies : last'.replies[i].cseq = last'.asked
           Same     == (\A i \in DOMAIN last'.replies : ~last'.replies[i].good) =>
                         UNCHANGED <<session_id, list, streams, sched, pause, started, silenced>>
           Heard    == last'.due => (last'.replies # <<>> \/ ~running')
           Kept     == \A i \in DOMAIN last'.replies :
                         session_id' = NoHeader \/ last'.replies[i].session \in {NoHeader, session_id'}
           Claim    == Answered => Len(last'.replies) <= 1 /\ Named /\ Heard /\ Kept /\ Same
<1>1. ASSUME NEW r, NEW behind, RTSP_handler(r, behind) PROVE Claim
  <2>1. Truthful(r)
    BY <1>1, HandlerStep
  <2>2. rtsp_cseq' = CseqAfter(r)
    BY <1>1 DEF RTSP_handler
  <2>3. r.first => rtsp_cseq' = r.cseq
    BY <2>2 DEF CseqAfter, RTSP_validate_method
  <2>4. CASE /\ last'.replies = <<>> /\ UNCHANGED <<vars, session_id>>
             /\ last'.due => ~running'
    BY <2>4 DEF vars, streams
  <2>5. ASSUME NEW good \in BOOLEAN, NEW id \in {NoHeader, session_id, session_id'},
               last'.replies = << [good |-> good, cseq |-> rtsp_cseq', session |-> id] >>,
               session_id' = NoHeader \/ id \in {NoHeader, session_id'},
               good \/ UNCHANGED <<session_id, list, streams, sched, pause, started, silenced>>
        PROVE  Claim
    <3>1. DOMAIN last'.replies = {1} /\ Len(last'.replies) = 1 /\ 1 \in DOMAIN last'.replies
      BY <2>5
    <3>2. /\ last'.replies[1].good = good
          /\ last'.replies[1].cseq = rtsp_cseq'
          /\ last'.replies[1].session = id
      BY <2>5
    <3>3. Named
      BY <3>1, <3>2, <2>1, <2>3 DEF Truthful
    <3>4. Kept
      BY <3>1, <3>2, <2>5
    <3>5. Same
      BY <3>1, <3>2, <2>5
    <3>6. Heard
      BY <3>1
    <3> QED
      BY <3>1, <3>3, <3>4, <3>5, <3>6
  <2> QED
    BY <2>1, <2>4, <2>5 DEF Truthful
<1>2. ASSUME Return \/ Disconnect \/ Elsewhere PROVE Claim
  BY <1>2, OtherStep
<1>3. [RequestNext]_<<vars, request>> => [Claim]_<<vars, request>>
  BY <1>1, <1>2 DEF RequestNext
<1> QED
  BY <1>3, PTL DEF RequestSpec, AnswersAreTrue
=============================================================================
