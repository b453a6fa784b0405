--------------------------- MODULE MCRtspRequest ----------------------------
(***************************************************************************)
(* Requests for RtspRequest: of each method the one that fits and those    *)
(* that differ from it in one respect, with either of two CSeqs.           *)
(***************************************************************************)
EXTENDS RtspRequest

Url(form, track, ours) == [form |-> form, track |-> track, ours |-> ours]
Good == Url("ok", "video", TRUE)
Stream(kind, c) == << [kind |-> kind, channel |-> c] >>
With(tokens) == [present |-> TRUE, tokens |-> tokens]

Plain(method, session) ==
  [method |-> method, first |-> TRUE, session |-> session, url |-> Good,
   require |-> FALSE, accept |-> "none", range |-> "none", transport |-> NoTransport]

\* Names of streams, aggregates and the presentation, and those that are refused.
Tracks == {Url("ok", t, TRUE) : t \in Files \cup {"none", "aggregate", "plain aggregate", "unknown"}}
BadUrls == {Url(f, "none", TRUE) : f \in {"no name", "too long", "dots", "empty", "no point", "other extension"}}

\* A stream behind a name that is no presentation's.
Unlikely == {Url(f, t, TRUE) : f \in {"empty", "no sd"}, t \in Files}

Transports ==
  {With(t) : t \in {<<>>, Stream("other", None), Stream("udp", None), Stream("tcp", None),
                    Stream("tcp", 1), Stream("tcp", MaxChannel),
                    Stream("cut", None), Stream("tcp", 1) \o Stream("cut", None),
                    Stream("other", None) \o Stream("tcp", None)}}

Shapes ==
  LET setup == [Plain("SETUP", NoHeader) EXCEPT !.transport = With(Stream("udp", None))]
      describe == Plain("DESCRIBE", NoHeader)
  IN {[setup EXCEPT !.url = u] : u \in Tracks \cup BadUrls \cup Unlikely}
     \cup {[setup EXCEPT !.transport = t] : t \in Transports \cup {NoTransport}}
     \cup {[setup EXCEPT !.session = i] : i \in Ids}
     \cup {[Plain(m, i) EXCEPT !.url = u] : m \in {"PLAY", "PAUSE", "TEARDOWN"}, i \in Ids, u \in Tracks}
     \cup {[Plain(m, 1) EXCEPT !.url = u] : m \in {"PLAY", "PAUSE", "TEARDOWN"},
             u \in BadUrls \cup Unlikely \cup {Url("ok", "video", FALSE)}}
     \cup {Plain(m, i) : m \in {"PLAY", "PAUSE", "TEARDOWN"}, i \in {NoHeader, Garbled}}
     \cup {[Plain("PLAY", i) EXCEPT !.range = x] : i \in Ids, x \in {"npt", "broken", "cut"}}
     \cup {[describe EXCEPT !.url = u] : u \in {Url("ok", "none", TRUE)} \cup BadUrls}
     \cup {[describe EXCEPT !.require = TRUE], [describe EXCEPT !.accept = "sdp"],
           [describe EXCEPT !.accept = "other"]}
     \cup {Plain(m, NoHeader) : m \in {"OPTIONS", "RECORD", "a word", "RTCP/"}}
     \cup {[Plain("OPTIONS", NoHeader) EXCEPT !.first = FALSE]}

Numbered(r) == {[f \in DOMAIN r \cup {"cseq"} |-> IF f = "cseq" THEN c ELSE r[f]] : c \in 1 .. 2}
MCRequests == UNION {Numbered(r) : r \in Shapes}

\* Behind another: a PLAY that names the second session.
MCPipelined == UNION {Numbered(Plain("PLAY", i)) : i \in {CHOOSE i \in Ids : \A j \in Ids : j <= i}}

=============================================================================
