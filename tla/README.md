# A verification model of Fenice 1.12

Fenice is a streaming server: clients talk RTSP to it over TCP, and it sends them
the streams of a presentation (`.sd` file) as RTP packets over UDP or interleaved
with RTSP. This directory holds TLA+ modules of its core, the TLC configurations
that check them, and TLAPS proofs of what matters most. Paths below are relative
to the root of the sources.

## 1. The system

A process has two threads. At `ONE_FORK_MAX_CONNECTION` connections it forks, and
the child goes on accepting.

* The **main thread** runs `eventloop` for ever: `rtsp_set_fdsets` collects the
  sockets, `select` waits, `schedule_connections` calls `rtsp_server` for every
  connection, which reads requests and lets `RTSP_handler`, `RTSP_state_machine`
  and the handlers (`RTSP_setup`, `RTSP_play`, ...) serve them.
* The **scheduler thread** (`schedule_do`) makes passes over the table `sched[]`,
  sends the packets that are due (`RTP_send_packet`) and destroys the sessions
  that were removed (`RTP_session_destroy`).

They share the table, the RTP sessions in it, the packet buffers, the pool of
ports and the cache of descriptions. One mutex protects *part* of the accesses to
the table, one per buffer protects the buffer, nothing protects the rest.

| Component | State | Operations | Talks to | What makes it correct |
|---|---|---|---|---|
| Port pool (`rtp/RTP_*port*`) | `port_pool[]`, unlocked | get (main), release (scheduler) | SETUP, `RTP_transport_close` | a pair is used once, none is lost, a refusal means empty |
| Packet buffer (`bufferpool/`) | ring of slots, control block, consumers | ref, unref, getslot, write, getreader, gotreader, nextts, addpage | `schedule_start`, `RTP_send_packet`, `get_frame`, `RTP_session_destroy` | every consumer gets every packet once and in order; exact reference counts; bounded growth |
| Scheduler (`schedule/`) | `sched[]`, `client_count`, mutex and condition | add, start, resume, stop, remove, the pass | SETUP, PLAY, PAUSE, TEARDOWN, RTP sessions | only removed sessions are destroyed, and all of them; no lost wake-up; the count is exact |
| RTSP session (`rtsp/RTSP_*.c`) | `cur_state`, `session_id`, list of streams, channels | SETUP, PLAY, PAUSE, TEARDOWN, end of connection | scheduler, port pool, event loop | the state says what the streams do; list and table agree; channels are not shared |
| RTSP requests (`rtsp/RTSP_handler.c`, `send_*`) | `session_id`, `rtsp_cseq` | validation, state machine, checks of each handler, replies | `in_buffer`, RTSP session | one answer with the number of its request; a refusal changes nothing |
| RTSP buffers (`rtsp/`, `rtsp_server`) | `in_buffer`, `out_buffer` and their sizes | framing, removal, `bwrite`, `RTSP_send` | `rtsp_server` | what was sent is parsed once, whole, and no reply is cut |
| Event loop (`eventloop/`) | list of connections, `conn_count`, fork | accept, serve, close | all of RTSP | the list stays a list; the limit holds; the scheduler stops with the last connection |
| Media sources (`mediainfo/`) | media entries, open files, clocks | `get_frame`, `mediacpy`, validation, selection | packet buffer, descriptions | a frame ends; a copy reads from a buffer of its own |
| Readers of H.264, MPEG video and audio (`mediainfo/read_*.c`) | file position, what was read ahead, fragment counters | one packet per call | `get_frame` | the packets put together are the stream; markers stand at the ends of units |
| Descriptions (`mediainfo/enum_media.c`, `sdp/`) | global list of parsed `.sd` files, unlocked | find or parse, describe | SETUP, DESCRIBE, intnet | the list stays a list; a description is the file's; the one of a session stays known |
| RTCP (`rtcp/`) | statistics, `rtcp_outbuffer` | compose, send, receive | scheduler, `rtsp_server` | no more judgements than reports; a BYE for each end of a stream |
| Adaptation (`intnet/`) | current media, two bounds | ladders of bitrates, priority up and down, switch of streams | RTCP, scheduler, descriptions, buffers | a verdict leads the right way; a bound that stops the search is real; the buffer goes along |
| Log (`log/`) | one handle for both threads: line buffer, descriptor, counters; lock file, log files | format, lock, rotate, open, write, test | everyone | lines are whole; rotation loses no file; a call returns |

The hard behaviours, listed line by line under `hazards` in `PROJECT.json`:
the pass of the scheduler reads the table without the lock while requests change
it; the buffer is shared by consumers that lag, come and go while pages are
inserted; ports come back in one thread while the other takes them; handlers
answer an error and report success; state that the end of a file changes is read
by the other thread; tables are full; sockets deliver half a message; a fork copies
the statics of the loop; readers go round a file or stop within a start code; a
description is freed or parsed anew while the other thread is at it; a buffer moves
with a stream to an entry that others share; a header is found in the request behind
the one it is looked for; log files are renamed by two threads and two processes.

## 2. Modules

| Module | Models | Uses |
|---|---|---|
| `PortPool` | the port pool and both threads, cell by cell | composed with `EventLoop` |
| `PacketLog` | what the packet buffer promises: a log with subscribers | |
| `BufferPool` | the packet buffer with the threads that use it | implements `PacketLog` |
| `Scheduler` | `sched[]`, the unlocked pass, life of RTP sessions, consumers and buffers | |
| `MCScheduler` | instances of `Scheduler` | `Scheduler` |
| `RtspSession` | one RTSP connection: state machine, streams, channels, event loop turns, ends of files | |
| `RtspRequest` | what is read and answered on that connection: headers, URLs, checks, status, CSeq | refines `RtspSession` |
| `MCRtspRequest` | requests of each method, right and wrong | `RtspRequest` |
| `RtspBuffer` | `in_buffer` and `out_buffer` of one connection: framing, removal, partial sends | |
| `MCRtspBuffer` | messages for `RtspBuffer` | `RtspBuffer` |
| `EventLoop` | the processes of the server, their lists of connections, accept and fork | |
| `H264`, `MpegVideo`, `MpegAudio` | the three readers as functions of file and state | |
| `Readers` | `get_frame` around a reader, from the first PLAY to the end and on | the three readers |
| `MCReaders` | the files | `Readers` |
| `Adaptation` | receiver reports, verdicts, switches of streams, the server's own reports | |
| `MCAdaptation` | a presentation of three rates, reports | `Adaptation` |
| `Descriptions` | the cache of `.sd` files with both threads | |
| `MCDescriptions` | contents of files | `Descriptions` |
| `Log` | the log handle of each process, locks, files, rotation | |
| `MCLog` | handles as `main.c` and configuration files make them, messages | `Log` |
| `*_proofs` | the theorems about each | the module and TLAPS |

Definitions carry the names of the code (`valid`, `client_count`, `last_read_pos`,
`write_pos`, `cur_state`, ...); `PROJECT.json` maps each to its lines. Definitions
marked as mutants in a comment are wrong variants that the project uses to see that
a property can fail; no specification uses them.

### PortPool

`port_pool` is the array; `get` and `rel` are the program counters of
`RTP_get_port_pair` (main thread) and `RTP_release_port_pair` (scheduler thread).
Every access to a cell is a step (`GetScan`, `GetTake`, `GetClear`, `RelScan`,
`RelFill`), since nothing is locked. `held` is what sessions own, `lost` what a
session owns for ever that got no slot of the scheduler: nobody destroys it. `CloseMulticast` is
`RTP_transport_close` of a multicast session, which gives back ports that never
came from the pool: from there on (`~Unpolluted`) the conservation properties are
not claimed. `MulticastPort` may be any number; the run has 0, which
`rtp_multicast_port` is since nothing but `rtsp/RTSP_setup.c:265` assigns it, so the cell
lies below `start_port` and `Half` divides as C does. Several sessions may then hold one
pair (`shared`). `hadFree` is a history variable. The module is the pool of one process;
`FirstPort` is the port at which it begins, the `start_port` of that process in
`EventLoop`, and its specification is called `PoolSpec` for that composition.

### BufferPool and PacketLog

`slots`, `control` and `cons` are the arrays and records of `bufferpool.h`. One
action is one critical section of `control->syn`; `OMSbuff_unref` unlocks in the
middle and is `Unref` followed by `Drain` steps. `Reader` is the selection that
getreader, gotreader and nextts share. `th` is the place of the scheduler thread in
`RTP_send_packet` and `get_frame`: `SendPacket`, `GetSlotNewPage` or `GetSlotReuse`,
`Commit` or `NoCommit`, `GotReader`, `NextTs`, and again. What `read_media` answers
is a choice over `Outcomes`: a last packet of a frame, one that asks to be called
again, no data, an error, end of file. Reference counters wrap at `MaxRefs`.
The comparison of the next time stamp in `NextTs` is of doubles and is left open.

`PacketLog` has a top, the packets kept, and a cursor per subscriber. The refinement
maps the top to the sequence number of `write_pos`, the packets kept to those in
slots, and a cursor to the next packet of the consumer (`Cursor`).

### Scheduler

The two stores of `schedule_add`, its count and its wake-up are separate steps, and
so is every access of the pass (`TestValid`, `TestPause`, `PlayOk`, `PlayEof`,
`StopStarted`, `TestSession`, `Destroy`, `ClearSlot`): the pass reads `rtp_session`
again at every use, so each action uses `Current`. Following a null or freed pointer
is the pc "crash". A SETUP may come at any time; the history `met` remembers that
one met a pass, which is where the guarantees of the design end and the races of the
code begin. `MediaOf` gives sessions their media: private ones for stored files, as
`mediacpy` copies. `MaxRefs` bounds the PLAYs of each session. `SetupNoSlot` is a
SETUP that finds the table full: the -1 is stored and the client gets 200. After it
the properties of the count are not claimed (`TableSufficed`), for
`schedule_remove(-1)` writes outside the table.

### RtspSession

`list` holds the streams of the session in the order of their SETUPs. Each request
that changes something is an action with the guard of `RTSP_state_machine`;
`SetupRefused`, `PlayRefused` and `PauseRefused` are the requests whose handlers
answer an error and return `ERR_NOERROR`, so that the state changes. `SetFds` and
`Turn` are the halves of a turn of the event loop; `StopPause` and `StopStarted` are
the two stores of `schedule_stop` in the other thread. `silenced` is a history
variable. Assumed of clients: they name the session they were told, suggest
consecutive channels and use one presentation. Streams are unicast.

### RtspRequest

A request is a record of what the code tells apart: whether the request line and
CSeq can be read, the method, the form of the URL, the Session, Transport, Range,
Require and Accept headers. The checks of a handler are a sequence of conditions
with the status each refuses with, and `FirstRefusal` returns at the first that holds,
in the order of the code. `RTSP_handler` takes a request and perhaps the one that
arrived with it (`pending`); `Header` is `strstr` over both, so that a header a
request lacks is found in the one behind. Every action contains one of `RtspSession`
and adds `session_id`, `rtsp_cseq` and the reply (`last`): its CSeq, the session it
names, and whether its status reports success. A check may have `NullPointer` in place of a
status: there the handler follows a pointer that `strstr`, `strchr` or `strtok` left NULL, and
the process ends (`FollowsNull`, `running`). This is so of PAUSE of an empty name
(`rtsp/RTSP_pause.c:70`), SETUP of a stream behind a name without ".sd"
(`rtsp/RTSP_setup.c:124`), a `client_port` or `interleaved` without its "=" or "-", and a
Range in a time or of no known unit that lacks its "=" or ":" up to the end of the buffer.

Assumed of clients: they number their requests one by one; session numbers are
positive. Left out: the wording of replies and their headers without meaning for the
session (Date, Server), a `getpeername` that fails (415), and the rest of an earlier, longer
message: `RTSP_remove_msg` clears nothing when the
buffer becomes empty (`rtsp/RTSP_remove_msg.c:9`), so `strstr` may find a header there; what
that does to a request is what the one pipelined behind it does. The name before "!" is not
the name of a stream's file. Facts of the code that the module does and no property forbids:

* OPTIONS is in the Public header, and a 455 names it, yet in READY and PLAY
  `RTSP_state_machine` drops it without a reply.
* The second argument of `send_reply` is never sent.
* `RTSP_valid_response_msg` looks for "RTCP/", so a client's "RTSP/1.0 200" is
  answered 400.
* TEARDOWN of an aggregate without an extension of its own is refused (415), although
  PLAY of it is accepted.
* A second SETUP without a Session header gives the session a new number.
* TEARDOWN in INIT with the number the session has (none and none match) frees the
  session; the connection gets no further answers.

### RtspBuffer

`in_buffer` is an array of bytes that keeps its old contents, as in the code; the
scan of `RTSP_full_msg_rcvd` is stated as what it finds: the first run of line ends
that ends a header (`EndsHeader`), the number of a Content-Length line, null
characters behind the body, or for a packet the length field. `pc` is the place in
`rtsp_server`: `SelectAndSend`, `Recv`, the loop of `RTSP_handler` (`HandleRequest`,
`HandlePacket`, `HandlerReturns`, `HandlerFails`), the loop over the local sockets
(`ForwardPacket`). A handler writes one reply or none. `out_buffer` holds the numbers
of the replies and packets its bytes belong to. `handled`, `owed` and `wire` are
histories. `Careful` restricts what the environment does to `Recv`. `Messages` is any
set of complete packets (`IsPacketMessage`: as long as the length field tells) and
complete requests (`IsRequestMessage`: a header that ends with its first empty line,
then a body of the length that the header tells, which begins with no line end).

### EventLoop

A process is a number; `pc` says whether it is born and whether it is in `select`,
in the walk of `schedule_connections` or before `accept`. The list is the one of the
code: `head`, `next`, and the two pointers `p` and `pp` of the walk, one connection
per step (`ServeIdle`, `ServeRequest`, `ServeClose`). `AddClient` appends,
`AcceptForks` copies the statics into the next process: child with `conn_count` 1, its
own `child_count`, `start_port` and list, parent with -1 and `main_fd` closed. `ForkFails`
is `fork` returning -1, which takes the parent's branch: `main_fd` is closed although
there is no child, and the new connection is in nobody's list (`leaked`).
`main_fd` is a number, so it may come to name another file ("reused",
`NumberFreed`); `SelectFails` is the EBADF that stops a process whose `main_fd` is
in `rset` and closed. The child inherits the sockets of the parent's clients; it
never looks at them, so `owner` names one process.

### H264, MpegVideo, MpegAudio and Readers

A file is a sequence of bytes in which 0, 1 and the ids of headers have their
meaning and every other byte is a number that occurs once. Each reader is a function
(for MPEG video a relation, since `buf_aux` may be read before it was written) from
the file and the reader's state to a packet, the next state, and whether `get_frame`
is to call again. `H264` starts with what `malloc` left (`InitStates`); `Cleared` is
the case in which that was harmless. `Readers` is the loop of `get_frame`, one call of
`read_media` per `ReadPacket`, the end that stops a session, and a PLAY afterwards.
What the stream should be (`Due`) is computed from the units alone, not from the
bytes, and not by the readers.

Left out: random access (`play_offset` other than 0), time stamps, units cut off by the end of
a file, an empty unit of
H.264 (two start codes in a row). A unit that is a header only is in: the reader takes it for
the end of the file, the session pauses, and a PLAY goes on behind it.

### Adaptation

The main thread takes requests and receiver reports, the scheduler thread has one
session in hand: `CheckCount` and `Adapt` are `change_check` and `stream_change`,
`NoReport`, `SendReports` and `SelectTimeout` are `RTCP_handler`, `PlayOk` and
`schedule_stop` the rest of the turn. `schedule_start` is three steps (`Start`,
`StartFlags`, `StartCounts`) and a report two, because the scheduler thread reads
what they store without a lock. `Target` is the ladder of MPEG audio (`Down`, `Up`,
`Half`) and behind it the search by priority; `stream_switch` takes the buffer along.
`cur`, `ownBuf` and `entryBuf` tell the session's copy of an entry from the shared entries of
the presentation, and `refs`, `freed` and `cons` follow the buffers. `credit` counts the judgements
that reports and PLAYs entitle to, `owed` the BYEs, `crossed` remembers that two
sessions came to one entry.

Simplified: one stream per session, no aggregates, MPEG audio only (the ladders of
GSM and L16 need readers that are not installed), time stamps not started anew at a
switch, the time check of the pass always true; `OutMax` is 80 instead of 1024 and
`Interval` 2 instead of 20, so that the buffer fills and reports come within the
bounds. A presentation lists its entries by priority with falling rates
(`OrderAssumption`); with another order the priority search may go up in rate.

### Descriptions

`enum_media` and `parse_SD_file`, access by access, in both threads: `Walk` and
`Insert` on the list, `Stat`, `Compare`, `Open`, `Block` and `Validate` for one
description, `Fail` for what is unlinked and freed. The callers are `Setup`,
`Describe` (which looks up twice) and `Adapt`, which does not look at the result.
`FollowsFreed` and an encoding without `load_media` end in "undefined". At any step a
file may be replaced or removed (`Replace`: who has it open keeps the old one) or be
written in place (`Overwrite`: who reads it, with `fgets`, goes on with some of the
streams that `stdio` still has in its buffer and some of the new ones, `Splices`).
`st_ctime` is in seconds, so a change may leave it as it was: if a description already has
that time (`Told`), `parse_SD_file.c:29` does not see the change until another one comes in a
later second. Four histories say where the properties end, while the behaviours go
on: `tangled`, one thread changed the list while the other was in it; `mixed`, both were at
one description; `blurred`, the files of which a description may be out of date for good;
and `doubt`, the request in hand met such a file, or one that was written while it
was read. There DESCRIBE does answer with what the file is no more, or never was.

Simplified: what stands before the first stream is read at `fopen`, each stream in one
step; the new
description gets its name in the step that inserts it, and unlinking and freeing are
one step; media files
do not change. As in the code, a file without streams leaves the old ones in use and
a multicast flag is never cleared.

### Log

One handle serves both threads of a process, since the `__thread` of `tls_g` is
commented out (`log/log.c:20`, although `log/log.h` speaks of thread local storage). A
thread's `pc` is its place in `WriteLogBase`: `Fill` for each style function, `LockFile`
and `LockMutex` for `EnterMutexSection`, then `Realloc`, `StatLog`, `Rename`
or one of the two rotations by date, `Release`, `Open`, `Write`, `ReturnEarly`,
`Test`. A character of the buffer is its message, its piece and its day, so lines of
two threads that mix can be told (`mixed`). `SetLog*` and `ReadLine` are functions of
the handle; `MCLog` makes the handles with them, the server's as `init_log` does. `Fork`
copies handle and mutex, `RemoveLog`, `Tick`, `Fail` and `Exit` are what goes on
around it. `leaked`, `inherited`, `gone`, `dropped` are histories. `LockFile` and `Release` fill
`g->lock` and call `fcntl` in one step, although both threads share the structure: one that
passes the request of its sibling takes the lock for it or gives the lock away, as the two
calls do in the other order (`leaked`).

Facts of the code that the module does, and where the properties end:

* A line whose buffer has to grow is formatted a second time with the `va_list` of the
  first (`log/log.c:1878`); `redone` marks it.
* An early return leaves the time cached in the handle, and the next line may bear it
  (`stale`).
* `LeaveMutexSection` gives back the mutex and then the lock of the file. That lock belongs to
  the process, so the sibling that entered in between loses it with the thread that leaves. Two
  processes may then rotate at once, and a file is lost (`leaked`).
* A child that is forked while the scheduler thread has the mutex waits for ever
  (`inherited`).
* Two processes that rotate on one day write over one another's file.
* The test for a changed file looks at the name and the size only. When the log file was
  removed and another process has made it anew, a process goes on writing to the file that
  was removed; one process alone notices within the interval of its tests.
* The rotation mode NONE is converted and then refused by its setter.

The assumptions describe a handle that can log: it has an output, FORMAT is among its
styles (`IsLineStyle`; `StylesAreLines` in `MCLog` evaluates that `StyleFuncs` makes
such a line of every set of styles with FORMAT), and its buffers may get as large as the
other pieces of a line need. A hexadecimal dump shows at least one byte.

Left out: environment variables in file names (`ExpandPathFilename`), callbacks and
filters of the user, hours as different from days, setters that nobody calls.

## 3. Runs

| Run | Question | Bounds |
|---|---|---|
| `port_pool` | Is the unlocked pool safe with one taker and one giver, and does every release end? | 3 cells, 2 multicast sessions with port 0: the pool is empty, full and in between, with the scans at every distance |
| `buffer_shared` | Does the ring implement the log with two consumers, and are the counts exact? | 2 slots, pages of 1, 5 packets: several pages are inserted, consumers lag by a whole ring |
| `buffer_three` | (violated) Are packets read in order with three consumers? | 7 packets |
| `scheduler` | What holds of the table whatever the race, and what until a SETUP meets a pass? | 3 sessions on 2 slots, so slots are used again and the table is full; 2, 1 and 0 PLAYs |
| `rtsp_session` | Do list, table and channels agree after any requests, and does PAUSE hold? | 2 streams, 3 SETUPs, channels up to 3 |
| `rtsp_requests` | Does every request get the answer that is true of it, and does a refused one change nothing? | each method right and wrong in one respect, with either of two CSeqs and two session numbers, alone or with a PLAY behind it; 2 SETUPs of 1 stream, channels up to 3 |
| `rtsp_buffer` | Is every message handled once, whole and in order, and does the output stay whole, if reads and sends cut both? | 3 messages of 4 kinds, a buffer of 12 bytes that two of them fill, frames of 2 in an output of 5 |
| `event_loop` | Do lists, counts, the listening socket and the pools stay right, and is everyone accepted and served? | 3 clients, 2 connections per process, 1 fork, which may fail: any position of the list closes, before and after the fork |
| `readers` | Are the packets of a file the file, with markers at the ends, and does `get_frame` return? | more than 1,500 files: units of every length around one, two and three packets; pictures whose slices end at every place of a packet; 6 calls of `get_frame`, 100 bytes |
| `adaptation` | Does a verdict lead the right way, are there no more judgements than reports, does the buffer go along, is there a BYE for each end? | 2 sessions, 3 rates; any three reports with 3 requests, or 5 requests and two sessions that meet, or 2 ends of a file and a send that waits |
| `descriptions` | Does the cache stay a list, do sessions stay known, is what DESCRIBE answers the file? | 2 presentations of 5 kinds of content, 3 look-ups, 1 change (of either kind, within the second or later), 1 session: enough for each thread to fail while the other is at any step, and for a description that stays out of date |
| `log` | Are lines whole, does rotation keep files, does a call return? | 2 processes of 2 threads; 12 handles with 2 or 3 calls, 1 fault, removal, fork, exit or day; a buffer of 8 that may grow to 14, 2 rotated files |

What they show:

* **Ports.** With one thread on each side the missing lock does no harm: a pair is
  used once, none vanishes, and a SETUP is refused only if the pool was empty when
  the search began. A multicast close breaks it, but for the last: a refusal means an
  empty pool even then.
* **Buffer.** With two consumers the ring is a faithful log. `FailsOnNewPage` is
  FALSE there: a read that fails just after a page was inserted leaves a slot that was
  never written in the ring, and a consumer that lags is led into it. With three
  consumers `OMSbuff_getreader` can step over packets (`buffer_three`).
* **Scheduler.** The count, the ownership of slots and the wake-up survive every
  interleaving, and until a SETUP meets a pass no pointer is stale and every session
  that is listed is visited. The identity of what is destroyed does not survive: a
  pass that saw a removed session destroys the one that SETUP stored meanwhile, which
  is why `SerialPassIsSafe` ends where a SETUP meets a pass. Known besides: the last session to
  leave is not
  released before another one comes, since the pass does not run, and if that one
  takes its slot it never is.
* **RTSP.** List and table agree, PAUSE holds, chosen channels are free. Known
  besides: `rtsp_set_fdsets` takes the state from PLAY to READY as soon as *one* stream is
  not started, so that a session playing one stream of two cannot be paused.
* **Requests.** Whatever check refuses a request, nothing of its work was done; a reply
  bears the number of its own request and the session that goes on, even when a header
  was taken from the request behind. A request that its state handles is answered, unless
  its handler follows NULL, which ends the process with all its connections.
* **Buffers of a connection.** Requests and packets come out as they were sent, even
  pipelined, as long as clients and network are `Careful`: no read ends inside an
  interleaved packet (it is handled before it has arrived), or just before the last
  character of CR LF CR LF (the LF that is left blocks the connection), and no
  message is followed in the buffer by more bytes than it has (`RTSP_remove_msg`
  clears them). With `Careful` FALSE `HandledAsSent` fails in all three ways. The
  output needs no such care.
* **Event loop.** The walk unlinks with the right predecessor whatever closes, lists
  are disjoint, one process accepts, the pools of ports are apart. If `fork` fails nobody
  accepts any more, and who is not in a list by then waits for good; the others are served
  as before. After a fork the
  parent's `conn_count` leaves -1 with the first connection that closes: the process
  then takes itself for the acceptor, `select` fails as long as the
  number of the closed socket is free, and its other clients are not served.
  `ServedUnlessStarved` says that nothing else keeps a request waiting.
* **Readers.** Fragments and headers come out in order whatever the lengths, and
  markers stand where they should, with three exceptions in the code that the
  properties name: headers that fill a packet of MPEG video (`HeadersFit`), a packet
  that ends within a start code (`Straddled`), and an ID3 tag. At the end of a video
  file the packet being composed is lost, and a second PLAY of a finished MPEG file
  sends nothing. `get_frame` never returns for an H.264 file without a unit of one
  packet.
* **Adaptation.** The two bounds cannot freeze a session, and a switch takes the
  buffer along. A PLAY that finds reports may cost two judgements of old ones, and a report
  that is counted may be judged by the values of the one before, for the count is raised
  first. The
  jitter is stored from its first byte, so that all below 2^24 count as none. Where
  two sessions come to one entry they share or exchange buffers, an entry that was left may
  keep a freed one, and the run follows this to a thread that reads it.
* **Descriptions.** With one thread at a time the cache is sound, also when files
  change between the look-ups of one request, as long as a change comes in a later second than
  the last parse and replaces the file. A change within that second stays unseen, a file
  that is written while it is read gives a mixture: both are in the behaviours and outside
  of `DescribesTheFile`. That the next change which `st_ctime` shows heals the description
  takes two changes and is covered by the proof only. With two threads, an insertion is lost,
  or one thread follows
  a description the other freed.
* **Log.** A call that overlaps no other of its process writes its line whole, however
  often the buffer grew. Rotation by size keeps every file with two processes and
  with two threads, except for the lock that a sibling takes along; by date it does not with
  two processes. A file
  that was removed gets no more lines of a process than the interval of its tests, unless another process
  has made the log file anew. Calls return,
  except behind a fork that copied the mutex.

Every bound is a constant of the cfg. The bounds on counters (`MaxSeq`, `MaxRefs`
of `Scheduler`, `MaxStreams`, `MaxFrames`, `Budgets`, `MaxLookups`, ...) limit how
often something happens and appear in guards; a behaviour that needs more pages,
sessions or SETUPs than those is covered only by the proofs. Most runs say
`CHECK_DEADLOCK FALSE`: a model whose packets, sessions, reports or look-ups are used
up stops, as does one after a crash. Sessions of `adaptation` and names of
`descriptions` are alike, which symmetry uses; those runs have no liveness property.

### Fairness

* `BufferPool`: the scheduler thread takes its next step (`WF` of `Send` and
  `Drain`), and its loop over `sched[]` comes back to each playing session (`SF` of
  `SendPacket`, which is disabled while the thread serves another session; the
  `for` loop visits all slots in turn).
* `Scheduler`: the handler that runs returns, the scheduler thread is run (`WF`).
  Requests are not fair: clients may stop. Paused and due sessions: no fairness is
  given to sending.
* `RtspBuffer`: `main` calls `eventloop` for ever (`WF` of `Turn`). A readable socket
  is read in the turn that saw it; that it becomes writable is not assumed.
* `EventLoop`: every process turns while it can (`WF` of each `Turn`); clients need
  not send, leave or connect.
* `Log`: a thread that is in a call takes its next step (`WF` of each `Step`); new calls
  are not assumed.
* `PortPool`, `RtspSession`, `RtspRequest`, `Readers`, `Adaptation` and `Descriptions` have
  safety properties only;
  `FrameReturns` bounds the turns of the loop instead of assuming they end.

## 4. Proofs

`tlapm` checks all theorems for every value of the constants that satisfies the
named assumptions (table sizes are positive, consumers and clients are finitely many, stored media are
private, presentations are in order of priority, session numbers are positive, clients
send complete requests and packets, the handles of the log have an output, formats and room in
their buffer, and messages are not empty). A
theorem with a hypothesis of its own states it: the four about the content of the
packet buffer, `NothingIsStale`, `HandledCorrect` and `PortsOfOneProcess` (where N and Max
are equal, for both are `ONE_FORK_MAX_CONNECTION`).

What is true of a list, a ring or a queue of any length is proved by least
counterexample (`LeastNat`, `NatsAll`: a set of numbers with a hole has a first one),
and functions over the numbers that are defined by recursion or by stepping along a
list, or by putting messages together into a stream, are shown to exist first (`Iterate`,
`JoinsExists`). The library's induction theorems are not
used for this: they take an operator as a parameter.

* `BufferPool_proofs`. `IInv`: the types, injective links, the slot in hand is
  behind `write_pos`, the thread works for an attached consumer, the exact count.
  Inserting a page keeps the links injective because the new slots are outside the
  old positions and the last one takes over the successor of `prev`. `RInv` is what
  the content of the ring needs: sequence numbers are distinct, go up by one along
  the links from the oldest packet to `write_pos`, and slots not yet filled are one run behind
  `write_pos` (`Ring`); the counter of a slot is the number of consumers whose next
  packet (`Due`) is this one or an earlier one (`RefsAre`); each consumer has read nothing, has read
  everything, finds its next packet at `read_pos`, or finds it behind
  `last_read_pos`, and then it is the one the thread works for, so that it reads before a slot
  of the old ring is filled (`Fresh`, `CaughtUp`, `InPlace`, `Jumps`); and what the
  thread has in hand is what these say (`Phase`). It gives
  `ReferencesExact`, `SlotsSentWereWritten`, `ReadsInOrder` and, since `RInv`
  determines the image of the ring, `BufferImplementsLog`: `Ref` is a step
  `Subscribe` of `PacketLog`, `Commit` is `Publish`, `GotReader` is `Read`, the end
  of the drain is `Unsubscribe`, and everything else leaves the log as it is.
  These four have two hypotheses. At most two sessions are attached at a time
  (`AtMostTwo`, of all the sessions there are): with a third, the two that are in front of
  a page may clear all references between the slow one and its packet, and
  `buffer_three` refutes `ReadInOrder`. And no read fails for a slot of a new
  page (`FailsOnNewPage` is FALSE): otherwise the slot stays empty in the ring and
  `SendsWrittenSlots` is violated. Both are limits of the code; within them the
  numbers of slots, pages and packets are arbitrary.
* `Scheduler_proofs`. `IInv` adds to the checked properties that a session is in
  one slot at most and that one that was not set up is nowhere. The count needs
  three lemmas on cardinalities, for setting and clearing one slot. `SerialInv`
  (until a SETUP met a pass, what the pass has tested is still so) gives
  `SerialPassCorrect`. `StaleInv` adds that a valid slot has its session, that a pass
  has its session in hand and that buffers of sessions not freed are open, which
  gives `NothingIsStale`: without live sources `NoCrash` holds.
* `RtspSession_proofs`. `IInv` adds that a stream that is not listed is paused and
  has no channel. `ChosenChannelIsFree` is an action property: a step that lists a
  stream is a SETUP, and a chosen channel lies behind every RTCP channel in use.
  `RequestsImplementSession` is the refinement: for any set of requests and numbers,
  a step of `RtspRequest` is a step of `RtspSession` or a stutter, so that what is proved
  of the session holds under real requests. `AnswersCorrect` goes through the handlers: a
  handler's step is a refusal (`Refuse`, nothing else changes) or writes one true
  reply (`GoodReply`), or follows NULL and changes nothing of the session, and the invariant
  says that `rtsp_cseq` is the number of the
  last request that could be read.
* `RtspBuffer_proofs`. `OutInv` adds the types of the output and that `out_sent` is 0
  when `out_buffer` is empty, which is why a packet may be read into it from its
  first byte. It holds for every input; `TakenStep` and `RestOfConcat` are the facts
  about sequences it rests on. For the input, `Framing` says where each message stands in
  the stream, and `Buffered` that `in_buffer` holds what was read and not yet
  handled, that its first bytes are a beginning of the next message, and that the
  last read was careful. A message at the front of the buffer is then found with its
  own length: nothing in a header ends it before its empty line does
  (`NoneEndsBefore`, `RequestFound`), and the length field of a packet has arrived
  whenever it counts (`PacketFound`). `HandledCorrect` has the hypothesis `Careful`:
  without it the property is false (section 3).
* `EventLoop_proofs`. The invariant speaks of neighbours: no two buffers have one successor, the
  head has no predecessor and every other buffer has one, a list ends in a buffer it
  owns, a rank forbids circles, and
  the walk's `pp` is the predecessor of `p`. With it the count is a cardinality of
  owners (`CountCorrect`), and the walk from the head meets each owner once and then
  ends (`WalkVisitsAll`, `ListCorrect`). `AcceptorUnique` follows the one process that may fork
  next, up to a fork that fails,
  `PoolsDisjoint` the numbers of the children: a later child has a later pool.
  It also has the port pool (`PortPool`), since the pools of two processes meet here. `ScanInv`
  adds to the types what each pc knows of the cell it
  stands on; it is inductive with any multicast sessions and port as well and gives
  `PoolTypeCorrect` and `RefusedOnlyWhenEmpty`. `PoolInv` adds that only pairs of the
  pool go around and that the N pairs are partitioned over cells, sessions and
  scans. `EmptyCell` is the step that needs the pigeonhole principle: with a pair
  outside, N cells cannot be full, so a release finds one. "`PoolInv` until a
  multicast session closes" gives `PairsUsedOnce`, `NoPairLost` and `ReleaseSucceeds`.
  Both specifications together, with as many cells in a pool as there are connections
  per process, give `PortsOfOneProcess`: a process whose pool begins at its
  `start_port` has no port of another process in any cell, session or scan.
* `Adaptation_proofs`. From `OrderAssumption`: an entry found by a ladder or by
  priority lies on the right side of the one that was left, and none is found only at
  the ends (`MovesCorrect`; `RealBounds` for `BoundsCorrect`). `CreditCovers` says
  that credit is left for the judgement in hand and for the one to come (`ToCome`), which takes
  into account where each thread is between its stores (`ReportsJudgedOnce`).
  `OwnBuffers` says that buffers of live sessions are open, pairwise different and
  the ones the consumers are attached to (`BuffersKept`); `ByesCorrect` is inductive
  as it stands.
* `Descriptions_proofs`. For any number of names, files, changes and sessions, and with
  both threads at any step of `enum_media`: what a thread that parses has read and
  what is to come make up the file it opened (`ParsingAt`); a description that bears
  the file's time and that no thread is at has the file's contents, unless the file is
  `blurred` (`RestSound`); a request for a blurred file is in `doubt` (`KnownSince`); no
  two descriptions share a list (`ListsApart`) and no two threads are at one (`Apart`); what
  the main thread found is the file
  as it was at some time since the request, unless in `doubt` (`MainSound`). That a change
  blurs whatever it leaves out of date is `ToldBlurs`. All of it as long as no
  thread changed what the other was at, which is where `DescribesTheFile` ends too.
  `ListInv` is about the list: it holds the live descriptions in the order in which
  they were made (`ListSorted`), each name once (`NamesOnce`); a thread that walks it
  has passed every description behind it without finding its name, and knows its
  predecessor (`Searching`); and the presentation of a session is live or failed
  (`SessionsLive`). It gives `CacheStaysAList` and `SessionsKnown`.
* `Log_proofs`. For any number of processes, any handles and messages that the assumptions
  allow, and forks, failures and removals at any time. `TypeInv` says that a buffer is filled as far
  as its counters say. `LockInv` follows the lock of the file and the mutex, unless the
  process lost the lock (`leaked`): then a number that was chosen for a rename is still the
  one to choose (`NumberChosen`), days only go on (`Clock`), and every file has a name or
  was given away (`Kept`), which is `RotationCorrect`. For `RemovalCorrect` each process has a
  budget: the lines it wrote late and the calls until its next test are no more
  than the interval (`Budget`), and the log file, where there is one, is the youngest
  of the files (`LogIsLast`). `LinesCorrect` is about text. The buffer of a call that overlaps no other
  has the pieces of the styles before the one it is at, as long as
  the line is to have them (`SoFar`), through every realloc; a step of the style functions
  adds the pieces that come next (`StylesGoOn`) or ends the line (`StylesEnd`), behind which
  a dump is cut where the buffer ends (`DumpedWhole`). That a message which does not fit into
  a buffer of the largest size is left out exactly when it has no room in any is `RoomIsThere`; that
  all pieces have one date, although an earlier call may have left its time, is `DateTaken`.
  How pieces are strung together is proved of the fold that defines it (`FlattenConcat`).

Proved and not the property of a run: the type invariants, `LinksAreInjective`,
`CommitsItsSlot`, `ControlRefsExact`, `OwnSlot`, `SessionHasStream`,
`ReleaseFindsCell`.

Only model-checked: the readers (their
operators are defined over whole files), all liveness properties (out of
the prover's reach, like ENABLED), and what the violated run refutes.

## 5. What is not modelled

* Vendored code that the server does not call or that keeps no state of its own:
  `libev-4.20/`, `md5/`. With licence headers and declarations it is about two fifths
  of the lines. Of `log/` (iLOG3) what `Log` leaves out is named there; no streaming
  state depends on it.
* Readers that `register_media` does not install: GSM, H26L, L16, MPEG-4, program
  and transport streams, and the shared-memory buffers of `RTP_SHM`. Their code is
  behind `#if 0` or never called, so there is no behaviour of the program to model;
  with them go the ladders of GSM and L16 in `intnet/`.
* The wording of replies, SDP and status lines; sockets as system
  calls; command line, preferences and utilities (`command_environment/`,
  `src/prefs.c` and its neighbours: read once at the start, or without state); the RTP
  header, sequence numbers and time stamps.
* Memory that runs out (`ERR_ALLOC` and what `schedule_stop` does then).
* Multicast sessions that share one sender (`is_multicast_dad` 0), except their
  ports. Two things are known of them: the port of a stream is set only when
  `SD_FL_MULTICAST_PORT` is, with the last stream, so that several dads are possible
  (`rtsp/RTSP_setup.c:37` against `:244`); and `RTP_transport_close.c:11` reads the
  `sd_descr` of the session, which a failed parse may have freed.
* A live source whose entry two connections share. `RTP_session_destroy.c:20` tests
  `refs` outside the mutex, and a SETUP without PLAY shares the buffer without a
  reference.
* In a forked process, when the list's last buffer closes while others are open,
  `stop_schedule` is set and the scheduler thread of that process ends
  (`eventloop/schedule_connections.c:72`). `EventLoop` does it, and states only that
  it never happens to the acceptor.
* A PLAY of the whole presentation resumes streams of priority 1 only
  (`rtsp/RTSP_play.c:182`): after a switch to another entry it does nothing.
  `Adaptation` does it, no property is about it.
* Channels above 127 where `char` is signed (`rtsp/RTSP_handler.c:39`), a reply that
  fills `out_buffer` exactly (`rtsp/bwrite.c:17`), and a file name with two dots,
  whose description DESCRIBE uses uninitialised (`sdp/get_media_descr.c:28`).

One comment is off by a factor and is not about behaviour a run could show:
`src/main.c:92-93` says the pool holds ports up to 5004 + MAX_SESSION, while N pairs
take 2 N ports.

## 6. What could follow

1. `RtspSession` composed with `Scheduler` for two connections, and a live source
   they share: the buffer's lifetime across SETUP, PLAY and TEARDOWN.
2. The multicast sender that several sessions share.
3. Sequence numbers and time stamps: what PLAY announces in RTP-Info against the
   first packet sent.
