---------------------------- MODULE RtspRequest -----------------------------
(***************************************************************************)
(* What a connection reads and answers (rtsp/RTSP_handler.c and what it    *)
(* calls): RTSP_validate_method, RTSP_state_machine, the headers and the   *)
(* URL that each handler looks at and in which order, the status and the   *)
(* CSeq of the reply, and which action of RtspSession a request is.        *)
(*                                                                         *)
(* A request is a record of what the code tells apart; all of them stand   *)
(* in in_buffer, and strstr does not stop at the end of the first: a       *)
(* header that a request lacks is found in the one behind it.  A handler   *)
(* that follows a pointer which strstr, strrchr or strtok left NULL ends   *)
(* the process.                                                            *)
(***************************************************************************)
EXTENDS RtspSession, Sequences, FiniteSetsExt

CONSTANTS
  Requests,   \* what clients send
  Pipelined,  \* those that may arrive together with the one before
  Ids         \* session numbers, of clients and of rand()

ASSUME IdsAssumption == Ids \subseteq Nat \ {0}
ASSUME PipelinedAssumption == Pipelined \subseteq Requests

NoHeader == -1
Garbled  == -2     \* Session without a number

\* In place of a status: here a handler follows NULL.
NullPointer == -1

VARIABLES
  session_id,   \* session_list->session_id
  rtsp_cseq,
  pending,      \* the request behind the one that is handled, if any
  last,         \* what was handled last: its CSeq, whether RTSP_validate_method
                \* could read it, whether the state then handles it, and the
                \* replies written
  running       \* the process has not ended

request == <<session_id, rtsp_cseq, pending, last, running>>
AtRest == [asked |-> 0, readable |-> TRUE, due |-> FALSE, replies |-> <<>>]

RequestInit ==
  /\ Init
  /\ session_id = NoHeader
  /\ rtsp_cseq = 0
  /\ pending = {}
  /\ last = AtRest
  /\ running = TRUE

-----------------------------------------------------------------------------
(* Reading *)

\* Status 0 is none: a check is a condition and the status it refuses with, and
\* a handler returns at the first that holds.
FirstRefusal(checks) ==
  LET held == {i \in DOMAIN checks : checks[i][1]}
  IN IF held = {} THEN 0 ELSE checks[Min(held)][2]

\* The request line and CSeq behind it: sscanf finds all five or none counts.
\* A word that is no method has its CSeq stored and -1 returned.
RTSP_validate_method(r) == r.first
Methods == {"DESCRIBE", "ANNOUNCE", "GET_PARAMETERS", "OPTIONS", "PAUSE", "PLAY",
            "RECORD", "REDIRECT", "SETUP", "SET_PARAMETER", "TEARDOWN"}

\* Mutant: the number is stored only for a method that is known.
CseqOfMethods(r) ==
  IF RTSP_validate_method(r) /\ r.method \in Methods THEN r.cseq ELSE rtsp_cseq

CseqAfter(r) == IF RTSP_validate_method(r) THEN r.cseq ELSE rtsp_cseq

\* strstr(in_buffer, header): of the request, or of the one behind it.
Header(r, behind, name, absent) ==
  IF r[name] = absent /\ behind # {} THEN (CHOOSE b \in behind : TRUE)[name] ELSE r[name]

NoTransport == [present |-> FALSE, tokens |-> <<>>]
SessionIn(r, behind)   == Header(r, behind, "session", NoHeader)
TransportIn(r, behind) == Header(r, behind, "transport", NoTransport)

-----------------------------------------------------------------------------
(* The URL *)

\* The form of the name before "!", and the track behind it.  A name may be empty
\* ("rtsp://server/"), have no point, an extension that is not supported, or one
\* that is, without the ".sd" of a presentation ("no sd").
\* 0 URL_OK, -1 URL_ERROR, 1 URL_BAD.
parse_url(url) ==
  CASE url.form = "no name"  -> 1
    [] url.form = "too long" -> -1
    [] OTHER -> 0

UrlChecks(url) ==
  << <<parse_url(url) = 1, 400>>, <<parse_url(url) = -1, 500>> >>

\* "../" and "./" in the name.
DotChecks(url) == << <<url.form = "dots", 403>> >>

\* What stands behind the last point: a stream has an extension of
\* is_supported_url; an aggregate without one leaves that of the name, with
\* "!aggregate" behind it.
Extension(url) ==
  CASE url.track \notin {"none", "plain aggregate"} -> "supported"
    [] url.form \in {"empty", "no point"} -> "none"
    [] url.form = "other extension" \/ url.track = "plain aggregate" -> "other"
    [] OTHER -> "supported"
is_supported_url(url) == Extension(url) = "supported"

ExtensionChecks(url) ==
  << <<Extension(url) = "none", 415>>, <<~is_supported_url(url), 415>> >>

\* PLAY takes a name behind "!" for a stream if it has such an extension, and for
\* an aggregate otherwise.
IsStream(url) == url.track # "none" /\ is_supported_url(url)

\* strtok cuts the name at "!" in PAUSE; of an empty one it leaves the track, if
\* there is one, or NULL.
Cut(url) == IF url.form = "empty" THEN url ELSE [url EXCEPT !.track = "none"]
NothingToCut(url) == url.form = "empty" /\ url.track = "none"

-----------------------------------------------------------------------------
(* Replies *)

Handled(state) ==
  CASE state = "init"  -> {"DESCRIBE", "SETUP", "TEARDOWN", "OPTIONS"}
    [] state = "ready" -> {"DESCRIBE", "SETUP", "TEARDOWN", "PLAY"}
    [] state = "play"  -> {"DESCRIBE", "TEARDOWN", "PAUSE"}
    [] OTHER -> {}

Due(r) == r.first /\ r.method \in Handled(cur_state)

\* What every reply has: a status and rtsp_cseq; some name a session.
Answer(r, status, id) ==
  last' = [asked |-> r.cseq, readable |-> r.first, due |-> Due(r),
           replies |-> << [good |-> status < 400, cseq |-> rtsp_cseq', session |-> id] >>]

send_reply(r, status)  == Answer(r, status, NoHeader)
send_options_reply(r)  == Answer(r, 200, NoHeader)
send_describe_reply(r) == Answer(r, 200, NoHeader)
send_setup_reply(r)    == Answer(r, 200, session_id')
send_play_reply(r)     == Answer(r, 200, session_id)
send_pause_reply(r)    == Answer(r, 200, session_id)
send_teardown_reply(r) == Answer(r, 200, session_id)

\* The description may be damaged by now, or have no twin to name.
send_redirect_3xx(r) ==
  \/ \E status \in {453, 500} : send_reply(r, status)
  \/ Answer(r, 302, NoHeader)

\* The request is taken from the buffer without a word.
NoReply(r) ==
  last' = [asked |-> r.cseq, readable |-> r.first, due |-> Due(r), replies |-> <<>>]

Refuse(r, status) == send_reply(r, status) /\ UNCHANGED <<vars, session_id>>

-----------------------------------------------------------------------------
(* RTSP_handler and RTSP_state_machine *)

\* The message of a client that answers: dropped, whether its CSeq fits or not.
IsResponse(r) == r.method = "RTCP/"
Response(r) ==
  /\ IsResponse(r)
  /\ NoReply(r)
  /\ UNCHANGED <<vars, session_id>>

IsRequest(r) == ~IsResponse(r) /\ r.first /\ r.method \in Methods
BadRequest(r) ==
  /\ ~IsResponse(r) /\ ~IsRequest(r)
  /\ Refuse(r, 400)

\* Before session_list is looked at.
NoNumber(r, behind) ==
  /\ SessionIn(r, behind) = Garbled
  /\ Refuse(r, 454)

\* 455 and 501 of INIT and READY, 551 for PLAY in PLAY.
NotInThisState(r) ==
  /\ r.method \notin Handled(cur_state)
  /\ \/ cur_state \in {"init", "ready"} /\ r.method # "OPTIONS"
     \/ cur_state = "play" /\ r.method = "PLAY"
  /\ Refuse(r, CASE cur_state = "play" -> 551
                 [] r.method \in {"PLAY", "PAUSE"} -> 455
                 [] OTHER -> 501)

\* OPTIONS outside INIT; in PLAY everything else that is not handled; every
\* request once the session is gone.
Dropped(r) ==
  /\ r.method \notin Handled(cur_state)
  /\ \/ cur_state = "null"
     \/ cur_state = "ready" /\ r.method = "OPTIONS"
     \/ cur_state = "play" /\ r.method # "PLAY"
  /\ NoReply(r)
  /\ UNCHANGED <<vars, session_id>>

Reaching(r, method) == r.method = method /\ method \in Handled(cur_state)

-----------------------------------------------------------------------------
(* The handlers *)

RTSP_options(r) ==
  /\ Reaching(r, "OPTIONS")
  /\ send_options_reply(r)
  /\ UNCHANGED <<vars, session_id>>

DescribeChecks(r, behind) ==
  UrlChecks(r.url) \o DotChecks(r.url) \o ExtensionChecks(r.url)
  \o << <<Header(r, behind, "require", FALSE), 551>>,
        <<Header(r, behind, "accept", "none") = "other", 551>> >>

\* The description may be missing or damaged; whether max_connection then sends
\* the client elsewhere depends on the other connections.
RTSP_describe(r, behind) ==
  /\ Reaching(r, "DESCRIBE")
  /\ IF FirstRefusal(DescribeChecks(r, behind)) # 0
     THEN send_reply(r, FirstRefusal(DescribeChecks(r, behind)))
     ELSE \/ \E status \in {404, 500} : send_reply(r, status)
          \/ send_redirect_3xx(r)
          \/ send_describe_reply(r)
  /\ UNCHANGED <<vars, session_id>>

\* The first setting that is RTP/AVP for unicast or RTP/AVP/TCP.
Usable(tokens) == {i \in DOMAIN tokens : tokens[i].kind # "other"}
Setting(tokens) == tokens[Min(Usable(tokens))]

\* The entries of the presentation with this filename.
get_media_entry(url) == {f \in Files : f = url.track}

\* The second search for ".sd" starts behind the first, found or not.
SetupNameChecks(url) ==
  UrlChecks(url) \o DotChecks(url) \o ExtensionChecks(url)
  \o << <<url.track = "none", 500>>, <<url.form # "ok", NullPointer>> >>

\* A client_port or interleaved is "cut" without its "=" or "-".
SetupChecks(r, behind) ==
  LET tokens == TransportIn(r, behind).tokens
  IN SetupNameChecks(r.url)
     \o << <<get_media_entry(r.url) = {}, 404>>,
           <<~TransportIn(r, behind).present, 406>>,
           <<tokens = <<>>, 400>>,
           <<Usable(tokens) = {}, 461>>,
           <<Usable(tokens) # {} /\ Setting(tokens).kind = "cut", NullPointer>> >>

\* A refusal that returns ERR_NOERROR, so that the state is READY afterwards;
\* once the name has passed, enum_media may fail (500).
SetupAnswersError(r, behind) ==
  /\ Reaching(r, "SETUP")
  /\ LET ofName  == FirstRefusal(SetupNameChecks(r.url))
         refusal == FirstRefusal(SetupChecks(r, behind))
     IN \E status \in (IF ofName = 0 THEN {500, refusal} ELSE {refusal}) \ {0, NullPointer} :
          send_reply(r, status)
  /\ SetupRefused
  /\ UNCHANGED session_id

SetupReaches(r, behind) ==
  /\ Reaching(r, "SETUP")
  /\ FirstRefusal(SetupChecks(r, behind)) = 0

\* No ports left, no local sockets, or a channel above 255: ERR_GENERIC.
SetupFails(r, behind) ==
  /\ SetupReaches(r, behind)
  /\ Refuse(r, IF Setting(TransportIn(r, behind).tokens).channel >= MaxChannel THEN 400 ELSE 500)

\* The session takes the number of a Session header, or of rand().
RTSP_setup(r, behind) ==
  /\ SetupReaches(r, behind)
  /\ r.url.track \in Files
  /\ LET t == Setting(TransportIn(r, behind).tokens)
     IN IF t.kind = "tcp" /\ t.channel = None
        THEN \E c \in 0 .. MaxChannel : SetupDone(r.url.track, c, TRUE)
        ELSE SetupDone(r.url.track, t.channel, FALSE)
  /\ session_id' \in IF SessionIn(r, behind) = NoHeader THEN Ids ELSE {SessionIn(r, behind)}
  /\ send_setup_reply(r)

\* A Range in npt has "=" and "-" ("broken" if not); one of no known unit needs its
\* ":" and a time its "=", somewhere in the buffer ("cut" if not).
PlayChecks(r, behind) ==
  << <<Header(r, behind, "range", "none") = "broken", 400>>,
     <<Header(r, behind, "range", "none") = "cut", NullPointer>>,
     <<SessionIn(r, behind) = NoHeader, 400>> >>
  \o UrlChecks(r.url) \o DotChecks(r.url)
  \o << <<Extension(r.url) = "none", 415>>, <<SessionIn(r, behind) # session_id, 454>>,
        <<IsStream(r.url) /\ OfStream(r.url.track) = {}, 454>> >>

PlayAnswersError(r, behind) ==
  /\ Reaching(r, "PLAY")
  /\ FirstRefusal(PlayChecks(r, behind)) \notin {0, NullPointer}
  /\ send_reply(r, FirstRefusal(PlayChecks(r, behind)))
  /\ PlayRefused
  /\ UNCHANGED session_id

RTSP_play(r, behind) ==
  /\ Reaching(r, "PLAY")
  /\ FirstRefusal(PlayChecks(r, behind)) = 0
  /\ CASE r.url.track = "none" -> PlayPresentation
       [] r.url.track \in Files -> PlayStream(r.url.track)
       [] OTHER -> PlayAggregate
  /\ send_play_reply(r)
  /\ UNCHANGED session_id

\* The only handler that compares the name of the server, and that looks for the
\* point in what strtok returns.
PauseChecks(r, behind) ==
  UrlChecks(r.url) \o << <<~r.url.ours, 404>> >> \o DotChecks(r.url)
  \o << <<NothingToCut(r.url), NullPointer>> >>
  \o ExtensionChecks(Cut(r.url)) \o << <<SessionIn(r, behind) # session_id, 454>> >>

PauseAnswersError(r, behind) ==
  /\ Reaching(r, "PAUSE")
  /\ FirstRefusal(PauseChecks(r, behind)) \notin {0, NullPointer}
  /\ send_reply(r, FirstRefusal(PauseChecks(r, behind)))
  /\ PauseRefused
  /\ UNCHANGED session_id

\* Without a stream there is nothing to pause, and no number to name.
RTSP_pause(r, behind) ==
  /\ Reaching(r, "PAUSE")
  /\ FirstRefusal(PauseChecks(r, behind)) = 0
  /\ IF named THEN Pause ELSE PauseRefused
  /\ send_pause_reply(r)
  /\ UNCHANGED session_id

TeardownChecks(r, behind) ==
  UrlChecks(r.url) \o DotChecks(r.url) \o ExtensionChecks(r.url)
  \o << <<SessionIn(r, behind) # session_id, 454>> >>

TeardownAnswersError(r, behind) ==
  /\ Reaching(r, "TEARDOWN")
  /\ FirstRefusal(TeardownChecks(r, behind)) # 0
  /\ Refuse(r, FirstRefusal(TeardownChecks(r, behind)))

\* The reply is written first; the number goes with session_list.
RTSP_teardown(r, behind) ==
  /\ Reaching(r, "TEARDOWN")
  /\ FirstRefusal(TeardownChecks(r, behind)) = 0
  /\ CASE r.url.track \in Files -> TeardownStream(r.url.track)
       [] r.url.track = "aggregate" -> TeardownAggregate
       [] OTHER -> TeardownPresentation
  /\ session_id' = IF cur_state' = "null" THEN NoHeader ELSE session_id
  /\ send_teardown_reply(r)

-----------------------------------------------------------------------------
RTSP_state_machine(r, behind) ==
  \/ NoNumber(r, behind)
  \/ /\ SessionIn(r, behind) # Garbled
     /\ \/ NotInThisState(r) \/ Dropped(r)
        \/ RTSP_options(r) \/ RTSP_describe(r, behind)
        \/ SetupAnswersError(r, behind) \/ SetupFails(r, behind) \/ RTSP_setup(r, behind)
        \/ PlayAnswersError(r, behind) \/ RTSP_play(r, behind)
        \/ PauseAnswersError(r, behind) \/ RTSP_pause(r, behind)
        \/ TeardownAnswersError(r, behind) \/ RTSP_teardown(r, behind)

\* A handler follows NULL: the process ends, with every connection it has, and
\* nothing is answered.
FollowsNull(r, behind) ==
  /\ SessionIn(r, behind) # Garbled
  /\ \/ Reaching(r, "SETUP") /\ FirstRefusal(SetupChecks(r, behind)) = NullPointer
     \/ Reaching(r, "PLAY")  /\ FirstRefusal(PlayChecks(r, behind)) = NullPointer
     \/ Reaching(r, "PAUSE") /\ FirstRefusal(PauseChecks(r, behind)) = NullPointer
  /\ running' = FALSE
  /\ NoReply(r)
  /\ UNCHANGED <<vars, session_id>>

\* Clients count their requests.
Arrives(r, behind) ==
  /\ running
  /\ loop = "select"
  /\ r.cseq # last.asked
  /\ pending \subseteq {r}
  /\ \A b \in behind : b.cseq # r.cseq

RTSP_handler(r, behind) ==
  /\ Arrives(r, behind)
  /\ rtsp_cseq' = CseqAfter(r)
  /\ pending' = behind
  /\ \/ /\ Response(r) \/ BadRequest(r) \/ (IsRequest(r) /\ RTSP_state_machine(r, behind))
        /\ UNCHANGED running
     \/ IsRequest(r) /\ FollowsNull(r, behind)

\* The buffer holds no whole message any more; the replies are sent.
Return ==
  /\ running /\ pending = {}
  /\ Turn
  /\ last' = AtRest
  /\ UNCHANGED <<session_id, rtsp_cseq, pending, running>>

Disconnect == running /\ pending = {} /\ Close /\ UNCHANGED request

Elsewhere ==
  /\ running
  /\ SetFds \/ StopStarted \/ \E s \in Streams : StopPause(s)
  /\ UNCHANGED request

RequestNext ==
  \/ \E r \in Requests, behind \in {{}} \cup {{q} : q \in Pipelined} : RTSP_handler(r, behind)
  \/ Return \/ Disconnect \/ Elsewhere

RequestSpec == RequestInit /\ [][RequestNext]_<<vars, request>>

-----------------------------------------------------------------------------
(* A client is answered, and can believe the answer.  A request gets one reply at
   most, with its own CSeq if RTSP_validate_method could read one; a request that
   the state of its connection handles gets one, unless its handler followed NULL
   and ended the process (RTSP_pause.c:70, RTSP_setup.c:124 and the searches for
   delimiters); the number a reply names is the one the session goes on with, if
   it goes on; and unless that reply is good, streams, scheduler and session are
   what they were before: a handler that refuses, after any of its checks, has not
   done a part of its work, and neither has a request that gets no answer. *)
AnswersAreTrue ==
  [][(last'.asked # 0 /\ last'.asked # last.asked) =>
       /\ Len(last'.replies) <= 1
       /\ last'.readable => \A i \in DOMAIN last'.replies : last'.replies[i].cseq = last'.asked
       /\ last'.due => (last'.replies # <<>> \/ ~running')
       /\ \A i \in DOMAIN last'.replies :
            session_id' = NoHeader \/ last'.replies[i].session \in {NoHeader, session_id'}
       /\ (\A i \in DOMAIN last'.replies : ~last'.replies[i].good) =>
             UNCHANGED <<session_id, list, streams, sched, pause, started, silenced>>]_<<vars, request>>

=============================================================================
