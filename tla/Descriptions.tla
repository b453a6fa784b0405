---------------------------- MODULE Descriptions ----------------------------
(***************************************************************************)
(* The cache of descriptions (mediainfo/enum_media.c, parse_SD_file.c,     *)
(* validate_stream.c) and what SETUP and DESCRIBE make of it (sdp/).  The  *)
(* main thread looks presentations up for requests, the scheduler thread   *)
(* for the adaptation of a stream; neither takes a lock, so that every     *)
(* access to the list, to last_change and to the media list is a step.     *)
(* The .sd files may be changed and removed at any time.  Their time of    *)
(* change is in seconds, and they are read line by line.                   *)
(***************************************************************************)
EXTENDS Integers, Sequences

CONSTANTS
  Names,      \* .sd files
  Files,      \* file names of streams
  Sessions,   \* RTP sessions
  Contents,   \* what a .sd file may hold: [multicast, streams], its streams
              \* [file, priority, kind]
  MaxLookups, MaxEdits, \* bounds: calls of enum_media, changes of a file
  Missing     \* no file

\* validate_stream lets a stream pass, refuses it, or calls the load_media of an
\* encoding that has none.
Kinds == {"valid", "invalid", "unsupported"}
Streams == [file : Files, priority : Nat, kind : Kinds]

ASSUME ContentAssumption ==
  Contents \subseteq [multicast : BOOLEAN, streams : Seq(Streams)] /\ Missing \notin Contents
ASSUME BoundAssumption == MaxLookups \in Nat /\ MaxEdits \in Nat

Null == 0
NoName == "none"
NoReply == [streams |-> << >>, multicast |-> FALSE]

VARIABLES
  file,      \* the files: [ctime, content]
  head,      \* SD_global_list
  nodes,     \* the SD_descr made so far: [name, next, last_change, list, multicast, freed]
  lists,     \* the media lists made so far
  th,        \* the two threads in enum_media and its callers
  session,   \* sd_filename of the live sessions
  reply,     \* the answer to the last request, a description or NoReply
  lookups, edits,
  since,     \* history: the contents the file had since the request of th.main came
  failed,    \* history: presentations that left the cache
  tangled,   \* history: the list was changed under a thread that walks or changes it
  mixed,     \* history: a thread came to a description that the other is at
  blurred,   \* history: files changed within a second that a description already
             \* has for its last_change, and not since
  doubt      \* history: the request of th.main met such a file, or a file that was
             \* written while main read it

cache == <<head, nodes, lists>>
hist == <<since, failed, tangled, mixed, blurred, doubt>>
vars == <<file, cache, th, session, reply, lookups, edits, hist>>

Threads == {"main", "scheduler"}
Other(t) == CHOOSE u \in Threads : u # t
Idle == [pc |-> "idle", job |-> "none", name |-> NoName, what |-> NoName, s |-> NoName, curr |-> Null, last |-> Null,
         match |-> Null, ctime |-> 0, list |-> Null, todo |-> << >>, err |-> FALSE]

Init ==
  /\ file \in [Names -> [ctime : {1}, content : Contents]]
  /\ head = Null /\ nodes = << >> /\ lists = << >>
  /\ th = [t \in Threads |-> Idle]
  /\ session = [s \in Sessions |-> NoName]
  /\ reply = NoReply
  /\ lookups = 0 /\ edits = 0
  /\ since = {} /\ failed = {} /\ tangled = FALSE /\ mixed = FALSE
  /\ blurred = {} /\ doubt = FALSE

Undefined == \E t \in Threads : th[t].pc = "undefined"
Goto(t, pc) == th' = [th EXCEPT ![t].pc = pc]

\* The descriptions that the next access of a thread follows; the scheduler
\* thread does not look at the result of enum_media.
Followed(t) ==
  LET l == th[t]
  IN CASE l.pc = "walk" -> {l.curr}
       [] l.pc = "insert" /\ head # Null -> {l.last}
       [] l.pc = "fail" -> {l.match, IF l.last = Null THEN head ELSE l.last}
       [] l.pc \in {"compare", "open", "block", "validate"} -> {l.match}
       [] l.pc = "answer" /\ (l.job = "adapt" \/ ~l.err) -> {l.match}
       [] OTHER -> {}

Allocated(n) == n # Null /\ ~nodes[n].freed
At(t, pc) == ~Undefined /\ th[t].pc = pc /\ \A n \in Followed(t) : Allocated(n)

\* A thread follows a null pointer or freed memory.
FollowsFreed(t) ==
  /\ ~Undefined /\ \E n \in Followed(t) : ~Allocated(n)
  /\ Goto(t, "undefined")
  /\ UNCHANGED <<file, cache, session, reply, lookups, edits, hist>>

-----------------------------------------------------------------------------
\* The files.  st_ctime is in seconds: a change may leave it as it was.

\* A description has the time of the file for its last_change; one that is about
\* to be parsed will have what the file holds then.
Told(n) ==
  \E d \in DOMAIN nodes :
    /\ nodes[d].name = n /\ ~nodes[d].freed /\ nodes[d].last_change = file[n].ctime
    /\ \A t \in Threads : th[t].match = d => th[t].pc # "open"

Change(n, c) ==
  /\ ~Undefined /\ edits < MaxEdits
  /\ edits' = edits + 1
  /\ c # file[n].content
  /\ \/ /\ file' = [file EXCEPT ![n].content = c]
        /\ blurred' = IF Told(n) THEN blurred \cup {n} ELSE blurred
     \/ /\ file' = [file EXCEPT ![n] = [ctime |-> @.ctime + 1, content |-> c]]
        /\ blurred' = blurred \ {n}
  /\ since' = IF n = th["main"].name THEN since \cup {c} ELSE since
  /\ UNCHANGED <<cache, session, reply, lookups, failed, tangled, mixed>>

\* Another file takes its place or none does: who reads the old one keeps it.
Replace(n) ==
  /\ \E c \in Contents \cup {Missing} : Change(n, c)
  /\ doubt' = (doubt \/ (n = th["main"].name /\ n \in blurred'))
  /\ UNCHANGED th

\* The file is written in place: who reads it has some of the old streams in its
\* buffer yet and goes on with some of the new ones.
Reads(t, n) == th[t].name = n /\ th[t].pc \in {"block", "validate"}
Spliced(l, c, i, k) == SubSeq(l.todo, 1, i) \o SubSeq(c.streams, k, Len(c.streams))
Splices(l, c) ==
  {Spliced(l, c, i, k) : i \in (IF l.pc = "validate" THEN 1 ELSE 0) .. Len(l.todo),
                         k \in 1 .. Len(c.streams) + 1}

Overwrite(n) ==
  /\ file[n].content # Missing
  /\ \E c \in Contents :
       /\ Change(n, c)
       /\ \E todo \in [Threads -> UNION {Splices(th[t], c) : t \in Threads}] :
            /\ \A t \in Threads : todo[t] \in Splices(th[t], c)
            /\ th' = [t \in Threads |-> IF Reads(t, n) THEN [th[t] EXCEPT !.todo = todo[t]] ELSE th[t]]
  /\ doubt' = (doubt \/ (n = th["main"].name /\ (n \in blurred' \/ Reads("main", n))))

-----------------------------------------------------------------------------
\* enum_media.

Lookup(job, n, s, f) ==
  [Idle EXCEPT !.pc = IF head = Null THEN "insert" ELSE "walk",
               !.job = job, !.name = n, !.s = s, !.what = f, !.curr = head]

\* A description was found or made: is the other thread at it?
Inside == {"stat", "compare", "open", "block", "validate", "fail", "answer"}
Meets(t, n) == th[Other(t)].pc \in Inside /\ th[Other(t)].match = n

\* The loop over the list.
Walk(t) ==
  LET n == th[t].curr
  IN /\ At(t, "walk")
     /\ IF nodes[n].name = th[t].name
          THEN /\ th' = [th EXCEPT ![t].match = n, ![t].pc = "stat"]
               /\ mixed' = (mixed \/ Meets(t, n))
          ELSE /\ th' = [th EXCEPT ![t].last = n, ![t].curr = nodes[n].next,
                                   ![t].pc = IF nodes[n].next = Null THEN "insert" ELSE "walk"]
               /\ UNCHANGED mixed
     /\ UNCHANGED <<file, cache, session, reply, lookups, edits, since, failed, tangled, blurred, doubt>>

\* Not found: a new description at the end, or the first one.
New(n) == [name |-> n, next |-> Null, last_change |-> 0, list |-> Null, multicast |-> FALSE, freed |-> FALSE]

Insert(t) ==
  LET new == Len(nodes) + 1
      last == th[t].last
  IN /\ At(t, "insert")
     /\ nodes' = IF head = Null THEN Append(nodes, New(th[t].name))
                 ELSE Append([nodes EXCEPT ![last].next = new], New(th[t].name))
     /\ head' = IF head = Null THEN new ELSE head
     /\ th' = [th EXCEPT ![t].match = new, ![t].pc = "stat"]
     /\ failed' = failed \ {th[t].name}
     /\ tangled' = (tangled \/ th[Other(t)].pc = "insert")
     /\ UNCHANGED <<file, lists, session, reply, lookups, edits, since, mixed, blurred, doubt>>

\* An error: the description leaves the list.
\* Mutant: the first one takes the rest of the list with it.
UnlinkedAll(h, ns, last, n) == IF last = Null THEN [head |-> Null, nodes |-> ns]
                               ELSE [head |-> h, nodes |-> [ns EXCEPT ![last].next = ns[n].next]]
\* Mutant: the predecessor still points to it.
UnlinkedKept(h, ns, last, n) == [head |-> IF last = Null THEN ns[h].next ELSE h, nodes |-> ns]

Unlinked(h, ns, last, n) ==
  IF last = Null THEN [head |-> ns[h].next, nodes |-> ns]
  ELSE [head |-> h, nodes |-> [ns EXCEPT ![last].next = ns[n].next]]

Fail(t) ==
  LET n == th[t].match
      last == th[t].last
      new == Unlinked(head, nodes, last, n)
  IN /\ At(t, "fail")
     /\ head' = new.head
     /\ nodes' = [new.nodes EXCEPT ![n].freed = TRUE]
     /\ th' = [th EXCEPT ![t].err = TRUE, ![t].pc = "answer"]
     /\ failed' = failed \cup {th[t].name}
     /\ tangled' = (tangled \/ th[Other(t)].pc # "idle")
     /\ UNCHANGED <<file, lists, session, reply, lookups, edits, since, mixed, blurred, doubt>>

-----------------------------------------------------------------------------
\* parse_SD_file, called by enum_media.

Stat(t) ==
  /\ At(t, "stat")
  /\ th' = IF file[th[t].name].content = Missing THEN [th EXCEPT ![t].pc = "fail"]
           ELSE [th EXCEPT ![t].ctime = file[th[t].name].ctime, ![t].pc = "compare"]
  /\ UNCHANGED <<file, cache, session, reply, lookups, edits, hist>>

\* The file is the same yet, or is parsed anew.
Compare(t) ==
  LET n == th[t].match
  IN /\ At(t, "compare")
     /\ IF nodes[n].last_change = th[t].ctime
          THEN Goto(t, "answer") /\ UNCHANGED nodes
          ELSE /\ nodes' = [nodes EXCEPT ![n].last_change = th[t].ctime]
               /\ Goto(t, "open")
     /\ UNCHANGED <<file, head, lists, session, reply, lookups, edits, hist>>

\* fopen, and what stands before the first stream; the flags are only ever set.
Open(t) ==
  LET n == th[t].match
      content == file[th[t].name].content
  IN /\ At(t, "open")
     /\ IF content = Missing THEN Goto(t, "fail") /\ UNCHANGED nodes
        ELSE /\ nodes' = [nodes EXCEPT ![n].multicast = @ \/ content.multicast]
             /\ th' = [th EXCEPT ![t].list = Null, ![t].todo = content.streams, ![t].pc = "block"]
     /\ UNCHANGED <<file, head, lists, session, reply, lookups, edits, hist>>

\* A stream: the first one begins a new media list, the others go behind it.  The
\* list of an earlier parse stays in memory; without a stream it stays in use.
\* Mutant: each stream begins a list.
AppendedFirst(ls, list, stream) == Append(ls, <<stream>>)

Appended(ls, list, stream) ==
  IF list = Null THEN Append(ls, <<stream>>) ELSE [ls EXCEPT ![list] = Append(@, stream)]

Block(t) ==
  LET n == th[t].match
      new == Appended(lists, th[t].list, Head(th[t].todo))
      list == IF th[t].list = Null THEN Len(new) ELSE th[t].list
  IN /\ At(t, "block") /\ th[t].todo # << >>
     /\ lists' = new
     /\ nodes' = IF th[t].list = Null THEN [nodes EXCEPT ![n].list = list] ELSE nodes
     /\ th' = [th EXCEPT ![t].list = list, ![t].pc = "validate"]
     /\ UNCHANGED <<file, head, session, reply, lookups, edits, hist>>

EndOfFile(t) ==
  /\ At(t, "block") /\ th[t].todo = << >>
  /\ Goto(t, "answer")
  /\ UNCHANGED <<file, cache, session, reply, lookups, edits, hist>>

\* validate_stream, register_media and load_media.
Validate(t) ==
  /\ At(t, "validate")
  /\ th' = CASE Head(th[t].todo).kind = "valid" -> [th EXCEPT ![t].todo = Tail(@), ![t].pc = "block"]
             [] Head(th[t].todo).kind = "invalid" -> [th EXCEPT ![t].pc = "fail"]
             [] OTHER -> [th EXCEPT ![t].pc = "undefined"]
  /\ UNCHANGED <<file, cache, session, reply, lookups, edits, hist>>

-----------------------------------------------------------------------------
\* The callers.

Start(t, l) == th' = [th EXCEPT ![t] = l] /\ lookups' = lookups + 1

Request == At("main", "idle") /\ lookups < MaxLookups

\* RTSP_setup for a stream of a presentation.
Setup(s, n, f) ==
  /\ Request /\ session[s] = NoName
  /\ Start("main", Lookup("setup", n, s, f))
  /\ since' = {file[n].content} /\ doubt' = (n \in blurred) /\ reply' = NoReply
  /\ UNCHANGED <<file, cache, session, edits, failed, tangled, mixed, blurred>>

\* RTSP_describe.
Describe(n) ==
  /\ Request
  /\ Start("main", Lookup("describe", n, NoName, NoName))
  /\ since' = {file[n].content} /\ doubt' = (n \in blurred) /\ reply' = NoReply
  /\ UNCHANGED <<file, cache, session, edits, failed, tangled, mixed, blurred>>

\* TEARDOWN or the end of the connection.
Teardown(s) ==
  /\ At("main", "idle") /\ session[s] # NoName
  /\ session' = [session EXCEPT ![s] = NoName]
  /\ UNCHANGED <<file, cache, th, reply, lookups, edits, hist>>

\* The ladders and the priority searches of intnet/.
Adapt(s) ==
  /\ At("scheduler", "idle") /\ lookups < MaxLookups /\ session[s] # NoName
  /\ Start("scheduler", Lookup("adapt", session[s], s, NoName))
  /\ UNCHANGED <<file, cache, session, reply, edits, hist>>

\* The media list of a description, empty for a null pointer.
ListOf(n) == IF nodes[n].list = Null THEN << >> ELSE lists[nodes[n].list]

\* search_media for one property of a stream.
Has(list, property, value) == \E i \in DOMAIN list : list[i][property] = value

Answered(job) == At("main", "answer") /\ th["main"].job = job

\* SETUP: get_media_entry finds the stream by its file name, or not; 500 on an error.
SetupAnswer ==
  LET m == th["main"]
  IN /\ Answered("setup")
     /\ session' = IF ~m.err /\ Has(ListOf(m.match), "file", m.what)
                     THEN [session EXCEPT ![m.s] = m.name] ELSE session
     /\ th' = [th EXCEPT !["main"] = Idle]
     /\ UNCHANGED <<file, cache, reply, lookups, edits, hist>>

\* get_media_descr: no description without a media list; otherwise
\* get_SDP_descr looks the presentation up again ...
DescribeAgain ==
  LET m == th["main"]
  IN /\ Answered("describe")
     /\ th' = [th EXCEPT !["main"] =
                 IF ~m.err /\ ListOf(m.match) # << >> THEN Lookup("sdp", m.name, NoName, NoName) ELSE Idle]
     /\ UNCHANGED <<file, cache, session, reply, lookups, edits, hist>>

\* ... and describes every entry if one has priority 1.
Described(n) == [streams |-> ListOf(n), multicast |-> nodes[n].multicast]

DescribeAnswer ==
  LET m == th["main"]
  IN /\ Answered("sdp")
     /\ reply' = IF ~m.err /\ Has(ListOf(m.match), "priority", 1) THEN Described(m.match) ELSE NoReply
     /\ th' = [th EXCEPT !["main"] = Idle]
     /\ UNCHANGED <<file, cache, session, lookups, edits, hist>>

\* The scheduler thread does not look at the result.
AdaptAnswer ==
  /\ At("scheduler", "answer")
  /\ th' = [th EXCEPT !["scheduler"] = Idle]
  /\ UNCHANGED <<file, cache, session, reply, lookups, edits, hist>>

enum_media(t) ==
  \/ Walk(t) \/ Insert(t) \/ Fail(t)
  \/ Stat(t) \/ Compare(t) \/ Open(t) \/ Block(t) \/ EndOfFile(t) \/ Validate(t)

Next ==
  \/ \E n \in Names : Replace(n) \/ Overwrite(n) \/ Describe(n)
  \/ \E s \in Sessions, n \in Names, f \in Files : Setup(s, n, f)
  \/ \E s \in Sessions : Teardown(s) \/ Adapt(s)
  \/ \E t \in Threads : enum_media(t) \/ FollowsFreed(t)
  \/ SetupAnswer \/ DescribeAgain \/ DescribeAnswer \/ AdaptAnswer

Spec == Init /\ [][Next]_vars

-----------------------------------------------------------------------------
NodeIds == 1 .. Len(nodes)

\* What a thread keeps while it is in enum_media or a caller.
Pcs == {"idle", "walk", "insert", "stat", "compare", "open", "block", "validate", "fail", "answer", "undefined"}
Jobs == {"none", "setup", "describe", "sdp", "adapt"}
Thread ==
  [pc : Pcs, job : Jobs, name : Names \cup {NoName}, what : Files \cup {NoName},
   s : Sessions \cup {NoName}, curr : Nat, last : Nat, match : Nat, ctime : Nat, list : Nat,
   todo : Seq(Streams), err : BOOLEAN]
Description ==
  [name : Names, next : Nat, last_change : Nat, list : Nat, multicast : BOOLEAN, freed : BOOLEAN]

\* Type correctness; pointers are null or lead to something that was made.
TypeOK ==
  /\ file \in [Names -> [ctime : Nat, content : Contents \cup {Missing}]]
  /\ head \in 0 .. Len(nodes)
  /\ nodes \in Seq(Description) /\ lists \in Seq(Seq(Streams))
  /\ \A n \in NodeIds : nodes[n].next \in 0 .. Len(nodes) /\ nodes[n].list \in 0 .. Len(lists)
  /\ th \in [Threads -> Thread]
  /\ \A t \in Threads : /\ {th[t].curr, th[t].last, th[t].match} \subseteq 0 .. Len(nodes)
                        /\ th[t].list \in 0 .. Len(lists)
  /\ session \in [Sessions -> Names \cup {NoName}]
  /\ reply \in [streams : Seq(Streams), multicast : BOOLEAN]
  /\ lookups \in Nat /\ edits \in Nat
  /\ since \subseteq Contents \cup {Missing} /\ failed \subseteq Names \cup {NoName}
  /\ tangled \in BOOLEAN /\ mixed \in BOOLEAN
  /\ blurred \subseteq Names /\ doubt \in BOOLEAN

\* The descriptions that the list holds, by their place in it.
Place[i \in Nat] ==
  IF i <= 1 THEN head ELSE IF Place[i - 1] = Null THEN Null ELSE nodes[Place[i - 1]].next
Cached == {Place[i] : i \in NodeIds} \ {Null}

\* The list ends, holds no freed description and none twice for a name, until a
\* parse that fails meets the other thread (enum_media.c:14-45).
CacheIsAList ==
  ~tangled =>
    /\ Place[Len(nodes) + 1] = Null
    /\ \A n \in Cached : ~nodes[n].freed
    /\ \A m, n \in Cached : nodes[m].name = nodes[n].name => m = n

\* The presentation of a session stays in the list until its file does not
\* parse, whatever happens to other files, so that the scheduler thread never
\* adds to the list (enum_media.c:23-45, RTSP_setup.c:400, priority_decrease.c:16).
SessionsStayKnown ==
  ~tangled => \A s \in Sessions :
    session[s] # NoName => session[s] \in failed \cup {nodes[n].name : n \in Cached}

\* DESCRIBE answers with all streams of the file as it was at some time since the
\* request, although it looks the file up twice (get_media_descr.c:31-47,
\* get_SDP_descr.c:22-24) and parses it only when "the .SD file is the same yet"
\* does not hold (parse_SD_file.c:29-32), until both threads come to one
\* description.  It need not be so (doubt) for a file that was changed within the
\* second that a description has for its last_change, until the next change that
\* st_ctime shows, nor for one that is written while fgets reads it
\* (parse_SD_file.c:45, 71).  A file without streams leaves the old ones, a flag
\* stays set.
DescribesTheFile ==
  (reply # NoReply /\ ~(mixed \/ tangled \/ doubt) /\ th["main"] = Idle) =>
    \E c \in since : c # Missing /\ (c.streams = << >> \/
      (c.streams = reply.streams /\ (c.multicast => reply.multicast)))
=============================================================================
