-------------------------------- MODULE Log --------------------------------
(* The log of the server (log/log.c, log/logconf.c; configured by init_log in   *)
(* src/main.c:30-41). Both threads of a process write through one handle, tls_g *)
(* (the __thread in front of it is commented out, log.c:20-21), so one line     *)
(* buffer, one descriptor and one set of counters. A fork copies the handle and *)
(* the mutex; the files and the lock on /tmp/iLOG3.lock are shared.             *)
(*                                                                              *)
(* A thread that logs goes through the pcs                                      *)
(*   fill     the style functions put their pieces into the buffer              *)
(*   lock     EnterMutexSection is to get the lock of the file                  *)
(*   mutex    ... and then the mutex of the process                             *)
(*   section  inside: realloc, or stat of the log file, or rotation by date     *)
(*   rename   inside: the log file is large enough to be renamed                *)
(*   release  LeaveMutexSection is to give back the lock of the file            *)
(*   open, write, test   the rest of WriteLogBase                               *)
(* Text is a sequence of characters <<message, part, day or pid>>.              *)
EXTENDS Integers, Sequences, FiniteSets, SequencesExt

CONSTANTS
  Procs,          \* the processes 1..n: the first one and what it may fork
  Scenarios,      \* configured handles with the messages they get, and bounds
  LastDay,        \* bound: the days that have names
  BufSize,        \* LOG_BUFSIZE_DEFAULT and LOG_HEXLOG_BUFSIZE_DEFAULT
  MaxSize,        \* LOG_BUFSIZE_MAX
  TestInterval,   \* LOG_FILECHANGETEST_INTERVAL_ON_OPEN_ONCE_DEFAULT
  RotateCount     \* rotate_file_count

ASSUME LogAssumption ==
  /\ Procs = 1 .. Cardinality(Procs) /\ IsFiniteSet(Procs) /\ 1 \in Procs
  /\ \A s \in Scenarios :
       s.left \in [{"calls", "faults", "removals", "forks", "exits", "days"} -> Nat]
  /\ \A s \in Scenarios : s.left.days < LastDay
  /\ {LastDay, TestInterval, RotateCount} \subseteq Nat \ {0}
  /\ BufSize \in Nat /\ MaxSize \in Nat /\ 2 < BufSize /\ BufSize <= MaxSize

(* The pieces of a line: the message, others before it, a newline behind it.     *)
IsLineStyle(funcs) ==
  /\ funcs \in Seq(STRING)
  /\ \E k \in 1 .. Len(funcs) :
       /\ funcs[k] = "format"
       /\ \A j \in 1 .. k - 1 : funcs[j] \notin {"format", "newline"}
       /\ k = Len(funcs) \/ (k + 1 = Len(funcs) /\ funcs[k + 1] = "newline")

(* A handle with an output, with FORMAT among its styles and with buffers that   *)
(* can get as large as the other pieces of a line need.                          *)
ASSUME HandlesAssumption ==
  \A s \in Scenarios :
    LET c == s.conf
    IN /\ c.how \in {"first", "each", "console"}
       /\ c.how = "console" <=> c.output # "FILE"
       /\ IsLineStyle(c.funcs)
       /\ c.bufsize \in Nat /\ c.max \in Nat /\ 2 < c.bufsize /\ c.bufsize <= c.max
       /\ Len(c.funcs) + 2 <= c.max /\ Len(c.funcs) + 3 <= MaxSize

(* A dump has something to show.                                                *)
ASSUME MessagesAssumption ==
  \A s \in Scenarios : \A m \in s.kinds :
    /\ m.len \in Nat /\ m.args \in BOOLEAN /\ m.dump \in BOOLEAN
    /\ m.dump => m.len > 0

VARIABLES
  conf,       \* what the setters left in the handle
  kinds,      \* kinds of messages: length, has it arguments, is it a dump
  g,          \* the rest of the handle, per process
  mutex,      \* g_pthread_mutex of a process: who has it
  owner,      \* the process that has the lock of the file, 0 if none has
  th,         \* what a thread does
  life,       \* which processes run
  names,      \* names of files to files
  data,       \* what is in each file: one entry per write()
  now,        \* the day
  left,       \* bounds: calls, faults, removals, forks, exits and days to come
  leaked,     \* history: the lock of the file went while another thread relied on it
  inherited,  \* history: processes forked while the other thread had the mutex
  gone,       \* history: files someone removed and how much was in them by then
  dropped     \* history: files that lost the last number to a later one

vars == <<conf, kinds, g, mutex, owner, th, life, names, data, now, left, leaked,
          inherited, gone, dropped>>

Threads == {"main", "sched"}

(* The log file has the name 0, the rotated ones 1 .. RotateCount, or one per   *)
(* day; what goes to stdout, stderr or syslog is the file with the name -1.     *)
LogName == 0
Console == -1
DayName(d) == RotateCount + d

----------------------------------------------------------------------------
(* The configuration of a handle.                                               *)

(* The functions that SetLogStyles puts into pfuncLogStyles, in their order.    *)
StyleFuncs(styles) ==
  LET Some(cond, pieces) == IF cond THEN pieces ELSE <<>>
      labels == {"CUSTLABEL1", "CUSTLABEL2"} \cap styles
      source == {"PID", "SOURCE"} \cap styles
  IN Some({"DATE", "DATETIME"} \cap styles # {}, <<"date", "sep">>)
     \o Some("LOGLEVEL" \in styles, <<"level", "sep">>)
     \o Some("CUSTLABEL1" \in styles, <<"label", "space">>)
     \o Some("CUSTLABEL2" \in styles, <<"label", "space">>)
     \o Some(labels # {}, <<"sep">>)
     \o Some("PID" \in source, <<"pid">>) \o Some("SOURCE" \in source, <<"source">>)
     \o Some(source # {}, <<"sep">>)
     \o Some("FORMAT" \in styles, <<"format">>)
     \o Some("NEWLINE" \in styles, <<"newline">>)

(* CreateLogHandle: no output yet, nothing is logged, the default options.       *)
CreateLogHandle ==
  [output |-> "none", how |-> "none", options |-> "CHANGE_TEST", level |-> 5,
   funcs |-> StyleFuncs({}), rotate |-> "NONE", rotate_size |-> 0, pressure |-> 0,
   bufsize |-> BufSize, max |-> MaxSize]

(* SetLogOutput: which functions open, test and close depends on the options at *)
(* the time of the call; without one of the three there is a default.            *)
SetLogOutput(c, output) ==
  LET options == IF c.options \in {"OPEN_ONCE", "CHANGE_TEST", "OPEN_AND_CLOSE"}
                   THEN c.options ELSE "CHANGE_TEST"
  IN IF output = "FILE"
       THEN [c EXCEPT !.output = output, !.options = options,
                      !.how = IF options = "OPEN_AND_CLOSE" THEN "each" ELSE "first"]
       ELSE [c EXCEPT !.output = output, !.how = "console", !.options = "OPEN_ONCE"]

(* The other setters; {} is a value that is refused.                            *)
SetLogLevel(c, level) == [c EXCEPT !.level = level]
SetLogOptions(c, options) == [c EXCEPT !.options = options]
SetLogStyles(c, styles) == [c EXCEPT !.funcs = StyleFuncs(styles)]
SetLogBufferSize(c, size, max) == [c EXCEPT !.bufsize = size, !.max = max]
If(ok, c) == IF ok THEN {c} ELSE {}
SetLogRotateMode(c, mode) ==
  If(mode \in {"SIZE", "PER_DAY", "PER_HOUR"}, [c EXCEPT !.rotate = mode])
SetLogRotateSize(c, size) == If(size > 0, [c EXCEPT !.rotate_size = size])
SetLogRotatePressureFactor(c, factor) == If(factor >= 0, [c EXCEPT !.pressure = factor])

(* The names that the conversions know.                                         *)
ConvertLogOutput == {"STDOUT", "STDERR", "SYSLOG", "FILE"}
ConvertLogLevel == [DEBUG |-> 0, INFO |-> 1, WARN |-> 2, ERROR |-> 3, FATAL |-> 4, NOLOG |-> 5]
ConvertLogStyle == {"DATE", "DATETIME", "LOGLEVEL", "PID", "SOURCE", "FORMAT", "NEWLINE",
                    "CUSTLABEL1", "CUSTLABEL2"}
ConvertLogOption == {"OPEN_AND_CLOSE", "CHANGE_TEST", "OPEN_ONCE", "FILENAME_APPEND_DOT_LOG"}
ConvertLogRotateMode == {"NONE", "SIZE", "PER_DAY", "PER_HOUR"}

(* One line of a configuration file, with the handle so far or, behind ERR, none. *)
(* The rotation mode NONE is known and refused by the setter.                   *)
ReadLine(handles, line) ==
  LET v == line.value
      Of(c) ==
        CASE line.key = "options" -> If(v \in ConvertLogOption, SetLogOptions(c, v))
          [] line.key = "output" -> If(v \in ConvertLogOutput, SetLogOutput(c, v))
          [] line.key = "level" ->
               UNION {If(TRUE, SetLogLevel(c, ConvertLogLevel[n])) : n \in {v} \cap DOMAIN ConvertLogLevel}
          [] line.key = "styles" -> If(v \subseteq ConvertLogStyle, SetLogStyles(c, v))
          [] line.key = "rotate_mode" ->
               IF v \in ConvertLogRotateMode THEN SetLogRotateMode(c, v) ELSE {}
          [] line.key = "rotate_size" -> IF v = 0 THEN {} ELSE SetLogRotateSize(c, v)
          [] line.key = "rotate_pressure_factor" -> SetLogRotatePressureFactor(c, v)
          [] line.key = "log_bufsize" -> If(0 \notin {v, line.max}, SetLogBufferSize(c, v, line.max))
          [] OTHER -> {c}
  IN UNION {Of(c) : c \in handles}

ReadLogHandleFromConfig(lines) == FoldLeft(ReadLine, {CreateLogHandle}, lines)

----------------------------------------------------------------------------
(* Buffers.                                                                     *)

NewBuf(size) == [size |-> size, ptr |-> 0, remain |-> 0, text |-> <<>>]

Emptied(b) == [b EXCEPT !.remain = b.size - 2, !.ptr = 0]

(* MemcatLogBuffer copies fixed texts; FormatLogBuffer and FormatLogBufferV     *)
(* need room for a zero as well.                                                *)
Copied == {"sep", "space", "newline"}
Fits(b, piece, len) == IF piece \in Copied THEN len <= b.remain ELSE len < b.remain

(* What is put at bufptr overwrites what was there.                             *)
Put(b, chars) ==
  [b EXCEPT !.text = SubSeq(@, 1, b.ptr) \o chars
                     \o SubSeq(@, b.ptr + Len(chars) + 1, Len(@)),
            !.ptr = @ + Len(chars),
            !.remain = @ - Len(chars)]

(* SetBufferSize of a buffer that exists.                                       *)
GrownAsEmpty(b, size) == [b EXCEPT !.remain = size - 2, !.size = size]
Grown(b, size) == [b EXCEPT !.remain = @ + (size - b.size), !.size = size]

(* What is written: from bufbase on, as much as buf_remain_len says.            *)
Text(b) == SubSeq(b.text, 1, b.size - 2 - b.remain)

----------------------------------------------------------------------------
(* Handles, threads and files.                                                  *)

NoMessage == [id |-> 0, len |-> 0, args |-> FALSE, dump |-> FALSE, day |-> 0,
              stale |-> FALSE, redone |-> FALSE, mixed |-> FALSE]
IdleThread == [pc |-> "idle", i |-> 1, msg |-> NoMessage, why |-> "none", new |-> 0]

(* What SetLogOutput leaves: with "first" the log file is open.                 *)
NewHandle(c) ==
  [line |-> NewBuf(c.bufsize), hex |-> NewBuf(BufSize), open |-> c.how # "each",
   fd |-> IF c.how = "console" THEN 1 ELSE 2, test |-> TestInterval, stsize |-> 0, skip |-> 0,
   cache1 |-> 0, rday |-> 0]

Size(inode) == FoldLeft(LAMBDA n, w : n + Len(w.text), 0, data[inode])
Exists(name) == name \in DOMAIN names

Sibling(t) == CHOOSE u \in Threads : u # t
At(p, t, pc) == life[p] = "runs" /\ th[p][t].pc = pc
GoTo(p, t, pc) == th' = [th EXCEPT ![p][t].pc = pc]
Forked == \E p \in Procs \ {1} : life[p] # "unborn"

(* The buffer of a call: dumps have one of their own.                           *)
Which(p, t) == IF th[p][t].msg.dump THEN "hex" ELSE "line"
Buf(p, t) == g[p][Which(p, t)]
MaxOf(p, t) == IF th[p][t].msg.dump THEN MaxSize ELSE conf.max

AtMessage(p, t) ==
  th[p][t].i <= Len(conf.funcs) /\ conf.funcs[th[p][t].i] = "format"

(* The text of a piece of n characters; the cached pid is compared with the     *)
(* process's own before it is used, so that a child formats it anew.            *)
Chars(p, id, piece, n, date) ==
  [k \in 1 .. n |-> <<id, piece, IF piece = "date" THEN date ELSE IF piece = "pid" THEN p ELSE 0>>]

Init ==
  /\ \E s \in Scenarios : conf = s.conf /\ kinds = s.kinds /\ left = s.left
  /\ g = [p \in Procs |-> NewHandle(conf)]
  /\ mutex = [p \in Procs |-> "none"]
  /\ owner = 0
  /\ th = [p \in Procs |-> [t \in Threads |-> IdleThread]]
  /\ life = [p \in Procs |-> IF p = 1 THEN "runs" ELSE "unborn"]
  /\ names = [f \in {Console} \cup {n \in {LogName} : conf.how = "first"} |->
               IF f = Console THEN 1 ELSE 2]
  /\ data = <<<<>>, <<>>>>
  /\ now = 1
  /\ leaked = FALSE /\ inherited = {} /\ gone = <<>> /\ dropped = {}

----------------------------------------------------------------------------
(* WriteLogBase and WriteHexLogBase.                                            *)

FileVars == <<names, data, gone, dropped>>
LockVars == <<mutex, owner, leaked, inherited>>
World == <<conf, kinds, life, now>>

(* The two stores that empty the buffer. A thread that finds the other one in a *)
(* call empties the buffer under it; what either of them writes then is open.   *)
Begin(p, t, buffer) ==
  LET busy == th[p][Sibling(t)].pc # "idle"
  IN /\ At(p, t, "idle")
     /\ left.calls > 0
     /\ \E m \in kinds :
          LET msg == [id |-> left.calls, len |-> m.len, args |-> m.args, dump |-> m.dump,
                      day |-> now, stale |-> g[p].cache1 # 0, redone |-> FALSE, mixed |-> busy]
          IN /\ m.level >= conf.level
             /\ m.dump <=> buffer = "hex"
             /\ th' = [th EXCEPT ![p][t] = [IdleThread EXCEPT !.pc = "fill", !.msg = msg],
                                ![p][Sibling(t)].msg.mixed = @ \/ busy]
             /\ g' = [g EXCEPT ![p][buffer] = Emptied(@)]
     /\ left' = [left EXCEPT !.calls = @ - 1]
     /\ UNCHANGED <<World, FileVars, LockVars>>

Call(p, t) == Begin(p, t, "line")
CallHex(p, t) == Begin(p, t, "hex")

(* How long the message is. FormatLogBufferV passes the same valist again when  *)
(* it formats a second time: the arguments are used up and the text is anything. *)
Lengths(msg) ==
  CASE msg.dump -> {1}
    [] ~msg.dump /\ msg.redone /\ msg.args -> {m.len : m \in kinds}
    [] OTHER -> {msg.len}

(* LogStyle_DATE and the rotation by date take the time of the call once.       *)
Date(p) == IF g[p].cache1 = 0 THEN now ELSE g[p].cache1

(* LogStyle_FuncArray: the style functions from i to k put len characters for   *)
(* the message and one each for the others. It stops at the first that does not *)
(* fit.                                                                         *)
LengthOf(i, k, len) ==
  k - i + 1 + (IF \E j \in i .. k : conf.funcs[j] = "format" THEN len - 1 ELSE 0)
Stop(b, i, len) ==
  LET stuck == {k \in i .. Len(conf.funcs) : ~Fits(b, conf.funcs[k], LengthOf(i, k, len))}
  IN CHOOSE k \in stuck \cup {Len(conf.funcs) + 1} : \A j \in stuck : k <= j

(* A dump, behind the last piece, is cut where the buffer ends; its last         *)
(* character becomes the newline.                                               *)
Dumped(b, p, msg) ==
  LET n == IF msg.len < b.remain THEN msg.len ELSE b.remain
      full == Put(b, Chars(p, msg.id, "dump", n, 0))
  IN [full EXCEPT !.text[full.ptr] = <<msg.id, "newline", 0>>]

(* The pieces before stop in the buffer.                                         *)
Filled(p, t, len, stop) ==
  LET s == th[p][t]
      buf == Put(Buf(p, t), FlattenSeq([k \in 1 .. stop - s.i |->
               LET piece == conf.funcs[s.i + k - 1]
               IN Chars(p, s.msg.id, piece, IF piece = "format" THEN len ELSE 1, Date(p))]))
  IN IF s.msg.dump /\ stop > Len(conf.funcs) THEN Dumped(buf, p, s.msg) ELSE buf

(* Which function opens depends on the options now, which there is on the       *)
(* options when the output was set.                                             *)
Opens == conf.how = IF conf.options = "OPEN_AND_CLOSE" THEN "each" ELSE "first"

AfterFill(p) == IF g[p].open \/ ~Opens THEN "write" ELSE "open"

(* All pieces fit; or one does not, the buffer is as large as it may get, and   *)
(* the piece is left out; or the buffer is to grow.                             *)
Fill(p, t) ==
  /\ At(p, t, "fill")
  /\ \E len \in Lengths(th[p][t].msg) :
     \E stop \in {Stop(Buf(p, t), th[p][t].i, len)} :
     \E buf \in {Filled(p, t, len, stop)} :
       LET double == IF 2 * buf.size > MaxOf(p, t) THEN MaxOf(p, t) ELSE 2 * buf.size
       IN /\ g' = [g EXCEPT ![p][Which(p, t)] = buf,
                           ![p].cache1 = IF "date" \in ToSet(conf.funcs) THEN Date(p) ELSE @]
          /\ th' = [th EXCEPT ![p][t] =
               CASE stop > Len(conf.funcs) -> [@ EXCEPT !.i = stop, !.pc = AfterFill(p)]
                 [] stop <= Len(conf.funcs) /\ buf.size = MaxOf(p, t) -> [@ EXCEPT !.i = stop + 1]
                 [] OTHER -> [@ EXCEPT !.i = stop, !.pc = "lock", !.why = "grow", !.new = double]]
  /\ UNCHANGED <<World, left, FileVars, LockVars>>

(* The arguments that are not there are read: the process may fail.             *)
Fail(p, t) ==
  /\ At(p, t, "fill")
  /\ AtMessage(p, t) /\ th[p][t].msg.redone /\ th[p][t].msg.args
  /\ life' = [life EXCEPT ![p] = "ended"]
  /\ owner' = IF owner = p THEN 0 ELSE owner
  /\ UNCHANGED <<conf, kinds, now, g, th, left, FileVars, mutex, leaked, inherited>>

(* O_CREAT: the file is made if its name is not there.                          *)
Open(p, t) ==
  /\ At(p, t, "open")
  /\ GoTo(p, t, "write")
  /\ names' = IF Exists(LogName) THEN names
              ELSE [f \in {LogName} \cup DOMAIN names |->
                    IF f = LogName THEN Len(data) + 1 ELSE names[f]]
  /\ data' = IF Exists(LogName) THEN data ELSE Append(data, <<>>)
  /\ g' = [g EXCEPT ![p].open = TRUE, ![p].fd = names'[LogName]]
  /\ UNCHANGED <<World, left, gone, dropped, LockVars>>

(* One write() at the end of the file.                                          *)
Write(p, t) ==
  LET msg == th[p][t].msg
      entry == [proc |-> p, msg |-> msg, text |-> Text(Buf(p, t)), until |-> now]
  IN /\ At(p, t, "write") /\ g[p].open
     /\ data' = [data EXCEPT ![g[p].fd] = Append(@, entry)]
     /\ GoTo(p, t, "test")
     /\ UNCHANGED <<World, g, left, names, gone, dropped, LockVars>>

(* The file is not open, or open() or write() fails: the call returns, and      *)
(* cache1_tv stays.                                                             *)
ReturnEarly(p, t) ==
  /\ \/ /\ At(p, t, "open") /\ left.faults > 0
        /\ left' = [left EXCEPT !.faults = @ - 1]
     \/ /\ At(p, t, "write") /\ g[p].open /\ left.faults > 0
        /\ left' = [left EXCEPT !.faults = @ - 1]
     \/ /\ At(p, t, "write") /\ ~g[p].open
        /\ left' = left
  /\ th' = [th EXCEPT ![p][t] = IdleThread]
  /\ UNCHANGED <<World, g, FileVars, LockVars>>

(* ChangeTest_interval and CloseLog_close. The size that is compared is the one *)
(* of the last rotation test, 0 in a handle that does not rotate by size.       *)
TestedSmallerOnly(h) ==
  LET changed == Exists(LogName) /\ Size(names[LogName]) < h.stsize
  IN IF conf.options = "CHANGE_TEST" /\ conf.how = "first" /\ h.open /\ h.test <= 1
       THEN [h EXCEPT !.test = TestInterval, !.open = ~changed]
       ELSE [h EXCEPT !.test = @ - 1]

Tested(h) ==
  LET changed == ~Exists(LogName) \/ Size(names[LogName]) < h.stsize
  IN CASE h.open /\ conf.options = "CHANGE_TEST" /\ conf.how = "first" ->
            IF h.test > 1 THEN [h EXCEPT !.test = @ - 1]
            ELSE [h EXCEPT !.test = TestInterval, !.open = ~changed]
       [] h.open /\ conf.options = "OPEN_AND_CLOSE" /\ conf.how = "each" -> [h EXCEPT !.open = FALSE]
       [] OTHER -> h

Counted(h) ==
  IF conf.output = "FILE" /\ conf.rotate = "SIZE" /\ conf.rotate_size > 0
  THEN [h EXCEPT !.skip = @ - 1] ELSE h

RotationDue(h) ==
  /\ conf.output = "FILE"
  /\ \/ conf.rotate = "SIZE" /\ conf.rotate_size > 0 /\ h.skip < 1
     \/ conf.rotate \in {"PER_DAY", "PER_HOUR"}

(* The test for a changed file, then the one for a rotation, which begins by    *)
(* closing the file; without a rotation the call returns.                       *)
Test(p, t) ==
  LET h == Counted(Tested(g[p]))
  IN /\ At(p, t, "test")
     /\ IF RotationDue(h)
          THEN /\ th' = [th EXCEPT ![p][t].pc = "lock", ![p][t].why = conf.rotate]
               /\ g' = [g EXCEPT ![p] = [h EXCEPT !.open = @ /\ conf.how # "first"]]
          ELSE /\ th' = [th EXCEPT ![p][t] = IdleThread]
               /\ g' = [g EXCEPT ![p] = [h EXCEPT !.cache1 = 0]]
     /\ UNCHANGED <<World, left, FileVars, LockVars>>

----------------------------------------------------------------------------
(* EnterMutexSection and LeaveMutexSection, and what is done in between.        *)

(* fcntl(F_SETLKW) waits for other processes only.                              *)
LockFileNoWait(p, t) ==
  /\ At(p, t, "lock")
  /\ owner' = IF owner = 0 THEN p ELSE owner
  /\ GoTo(p, t, "mutex")
  /\ UNCHANGED <<World, g, left, FileVars, mutex, leaked, inherited>>

LockFile(p, t) ==
  /\ At(p, t, "lock")
  /\ owner \in {0, p}
  /\ owner' = p
  /\ GoTo(p, t, "mutex")
  /\ UNCHANGED <<World, g, left, FileVars, mutex, leaked, inherited>>

LockMutex(p, t) ==
  /\ At(p, t, "mutex")
  /\ mutex[p] = "none"
  /\ mutex' = [mutex EXCEPT ![p] = t]
  /\ GoTo(p, t, "section")
  /\ UNCHANGED <<World, g, left, FileVars, owner, leaked, inherited>>

(* The mutex is given back, the lock of the file is next.                       *)
Leave(p, t) ==
  /\ mutex' = [mutex EXCEPT ![p] = "none"]
  /\ GoTo(p, t, "release")

(* fcntl(F_UNLCK) takes the lock from the process, also if the other thread     *)
(* went past LockFile meanwhile.                                                *)
Inside == {"mutex", "section", "rename"}
Release(p, t) ==
  /\ At(p, t, "release")
  /\ owner' = IF owner = p THEN 0 ELSE owner
  /\ leaked' = (leaked \/ th[p][Sibling(t)].pc \in Inside)
  /\ IF th[p][t].why = "grow"
       THEN GoTo(p, t, "fill") /\ g' = g
       ELSE th' = [th EXCEPT ![p][t] = IdleThread] /\ g' = [g EXCEPT ![p].cache1 = 0]
  /\ UNCHANGED <<World, left, FileVars, mutex, inherited>>

(* realloc in SetBufferSize; _REDO formats the piece again.                     *)
ReallocKeepsMutex(p, t) ==
  /\ At(p, t, "section") /\ th[p][t].why = "grow"
  /\ g' = [g EXCEPT ![p][Which(p, t)] = Grown(@, th[p][t].new)]
  /\ th' = [th EXCEPT ![p][t].pc = "release", ![p][t].msg.redone = @ \/ AtMessage(p, t)]
  /\ UNCHANGED <<World, left, FileVars, mutex, owner, leaked, inherited>>

Realloc(p, t) ==
  /\ At(p, t, "section") /\ th[p][t].why = "grow"
  /\ g' = [g EXCEPT ![p][Which(p, t)] = Grown(@, th[p][t].new)]
  /\ th' = [th EXCEPT ![p][t].pc = "release", ![p][t].msg.redone = @ \/ AtMessage(p, t)]
  /\ mutex' = [mutex EXCEPT ![p] = "none"]
  /\ UNCHANGED <<World, left, FileVars, owner, leaked, inherited>>

(* The first number that is free, or the last one.                              *)
FreeNumbers == {n \in 1 .. RotateCount : ~Exists(n)}
Number == IF FreeNumbers = {} THEN RotateCount
          ELSE CHOOSE n \in FreeNumbers : \A m \in FreeNumbers : n <= m

(* RotateLogFileSize up to the choice of a number: without a file it gives up; a *)
(* file that is small enough lets the next calls pass without a test.           *)
Skips(st, step) ==
  IF conf.pressure = 0 THEN 1 ELSE ((conf.rotate_size - st) \div step) \div conf.pressure + 1

StatLog(p, t) ==
  LET st == Size(names[LogName])
      step == IF Text(Buf(p, t)) = <<>> THEN 1 ELSE Len(Text(Buf(p, t)))
  IN /\ At(p, t, "section") /\ th[p][t].why = "SIZE"
     /\ \/ /\ ~Exists(LogName)
           /\ Leave(p, t) /\ g' = g
        \/ /\ Exists(LogName) /\ st < conf.rotate_size
           /\ Leave(p, t) /\ g' = [g EXCEPT ![p].stsize = st, ![p].skip = Skips(st, step)]
        \/ /\ Exists(LogName) /\ st >= conf.rotate_size
           /\ th' = [th EXCEPT ![p][t].pc = "rename", ![p][t].new = Number]
           /\ g' = [g EXCEPT ![p].stsize = st]
           /\ mutex' = mutex
     /\ UNCHANGED <<World, left, FileVars, owner, leaked, inherited>>

Without(f, name) == [n \in DOMAIN f \ {name} |-> f[n]]
Moved(name) == [n \in {name} \cup (DOMAIN names \ {LogName}) |->
                IF n = name THEN names[LogName] ELSE names[n]]

(* The file of that number is replaced; when rename() fails, because the log     *)
(* file went, it is unlinked. The last number is given away on purpose.         *)
Rename(p, t) ==
  LET number == th[p][t].new
  IN /\ At(p, t, "rename")
     /\ names' = IF Exists(LogName) THEN Moved(number) ELSE Without(names, number)
     /\ dropped' = IF FreeNumbers = {} THEN dropped \cup {names[RotateCount]} ELSE dropped
     /\ g' = [g EXCEPT ![p].skip = 1]
     /\ Leave(p, t)
     /\ UNCHANGED <<World, left, data, gone, owner, leaked, inherited>>

(* The first call of a day, or of an hour where now counts hours, names the file *)
(* after the day of the last call.                                              *)
RotateByDate(p, t, mode) ==
  LET day == Date(p)
      last == g[p].rday
  IN /\ At(p, t, "section") /\ th[p][t].why = mode
     /\ names' = IF last \notin {0, day} /\ Exists(LogName) THEN Moved(DayName(last)) ELSE names
     /\ g' = [g EXCEPT ![p].cache1 = day, ![p].rday = day]
     /\ Leave(p, t)
     /\ UNCHANGED <<World, left, data, gone, dropped, owner, leaked, inherited>>

RotateLogFilePerDate(p, t) == RotateByDate(p, t, "PER_DAY")
RotateLogFilePerHour(p, t) == RotateByDate(p, t, "PER_HOUR")

----------------------------------------------------------------------------
(* The process, and what goes on around it.                                     *)

(* fork() in eventloop, by the main thread: memory as it is, with a mutex that  *)
(* the other thread may have; the child starts a scheduler thread of its own    *)
(* (eventloop.c:66-80). Locks on files are not inherited.                       *)
Fork(p, q) ==
  /\ At(p, "main", "idle")
  /\ left.forks > 0 /\ left' = [left EXCEPT !.forks = @ - 1]
  /\ life[q] = "unborn" /\ \A r \in 1 .. q - 1 : life[r] # "unborn"
  /\ life' = [life EXCEPT ![q] = "runs"]
  /\ g' = [g EXCEPT ![q] = g[p]]
  /\ mutex' = [mutex EXCEPT ![q] = IF mutex[p] = "none" THEN "none" ELSE "nobody"]
  /\ inherited' = IF mutex[p] = "none" THEN inherited ELSE inherited \cup {q}
  /\ UNCHANGED <<conf, kinds, now, th, FileVars, owner, leaked>>

(* The end of main: the handle is freed and the process exits, wherever the     *)
(* scheduler thread is; the lock goes with the process.                         *)
Exit(p) ==
  /\ At(p, "main", "idle")
  /\ left.exits > 0 /\ left' = [left EXCEPT !.exits = @ - 1]
  /\ life' = [life EXCEPT ![p] = "ended"]
  /\ owner' = IF owner = p THEN 0 ELSE owner
  /\ UNCHANGED <<conf, kinds, now, g, th, FileVars, mutex, leaked, inherited>>

RemoveLog ==
  /\ left.removals > 0 /\ Exists(LogName)
  /\ left' = [left EXCEPT !.removals = @ - 1]
  /\ gone' = [i \in {names[LogName]} \cup DOMAIN gone |->
                IF i = names[LogName] THEN Len(data[i]) ELSE gone[i]]
  /\ names' = Without(names, LogName)
  /\ UNCHANGED <<World, g, th, data, dropped, LockVars>>

Tick ==
  /\ left.days > 0 /\ left' = [left EXCEPT !.days = @ - 1]
  /\ now' = now + 1
  /\ UNCHANGED <<conf, kinds, life, g, th, FileVars, LockVars>>

Step(p, t) ==
  \/ Fill(p, t) \/ Fail(p, t)
  \/ Open(p, t) \/ Write(p, t) \/ ReturnEarly(p, t) \/ Test(p, t)
  \/ LockFile(p, t) \/ LockMutex(p, t) \/ Release(p, t)
  \/ Realloc(p, t) \/ StatLog(p, t) \/ Rename(p, t)
  \/ RotateLogFilePerDate(p, t) \/ RotateLogFilePerHour(p, t)

Next ==
  \/ \E p \in Procs, t \in Threads : Call(p, t) \/ CallHex(p, t) \/ Step(p, t)
  \/ \E p, q \in Procs : Fork(p, q)
  \/ \E p \in Procs : Exit(p)
  \/ RemoveLog
  \/ Tick

(* Threads are scheduled; nothing is assumed about new calls.                   *)
Fairness == \A p \in Procs, t \in Threads : WF_vars(Step(p, t))

Spec == Init /\ [][Next]_vars /\ Fairness

----------------------------------------------------------------------------
(* Properties.                                                                  *)

(* What a call should have written: its pieces in the order of the styles, the   *)
(* message only if the largest buffer has room for it. The text of a dump is    *)
(* cut where the buffer ends, behind the last piece.                            *)
Line(entry, date) ==
  LET msg == entry.msg
      funcs == conf.funcs
      before == Cardinality({k \in DOMAIN funcs : funcs[k] \notin {"format", "newline"}})
      max == IF msg.dump THEN MaxSize ELSE conf.max
      length == IF msg.dump THEN 1 ELSE IF before + msg.len < max - 2 THEN msg.len ELSE 0
  IN FlattenSeq([k \in DOMAIN funcs |->
       Chars(entry.proc, msg.id, funcs[k], IF funcs[k] = "format" THEN length ELSE 1, date)])

IsWhole(entry, date) ==
  LET line == Line(entry, date)
      cut == SubSeq(entry.text, Len(line) + 1, Len(entry.text))
  IN IF ~entry.msg.dump THEN entry.text = line
     ELSE IF cut = <<>> THEN entry.text = line
     ELSE /\ SubSeq(entry.text, 1, Len(line)) = line
          /\ cut = Append(Chars(entry.proc, entry.msg.id, "dump", Len(cut) - 1, 0),
                          <<entry.msg.id, "newline", 0>>)
          /\ Len(cut) = entry.msg.len \/ Len(entry.text) >= BufSize - 2

(* A call that met no other one of its process writes its own line, all of it,   *)
(* with the date of the call, however often the buffer grew and whatever earlier *)
(* calls left in it - unless arguments were formatted twice, or an earlier call  *)
(* returned early and left its time (log.c:1048-1110, :1874-1897, :1188-1190).   *)
LinesAreWhole ==
  \A i \in DOMAIN data : \A k \in DOMAIN data[i] :
    LET entry == data[i][k]
    IN ~entry.msg.mixed /\ ~(entry.msg.redone /\ entry.msg.args) =>
         \E date \in (IF entry.msg.stale THEN 1 ELSE entry.msg.day) .. entry.until :
           IsWhole(entry, date)

(* A file keeps a name through all rotations: by size as long as no thread lost  *)
(* the lock to its sibling, by date as long as there is one process; only the    *)
(* last number is given away (log.c:845-917, :919-980).                          *)
RotationKeepsFiles ==
  \A i \in DOMAIN data :
    \/ \E name \in DOMAIN names : names[name] = i
    \/ i \in dropped \/ i \in DOMAIN gone
    \/ leaked
    \/ Forked /\ conf.rotate \in {"PER_DAY", "PER_HOUR"}
    \/ data[i] = <<>>

(* The lines that a process wrote to a file after someone removed it.           *)
Late(p, i) ==
  {k \in gone[i] + 1 .. Len(data[i]) : data[i][k].proc = p /\ ~data[i][k].msg.mixed}

Detects == conf.output = "FILE" /\ conf.how = "first" /\ conf.options = "CHANGE_TEST"

(* A file that someone removed gets no more lines of a process than the interval *)
(* of its tests - unless another process has made the log file anew since, which *)
(* the test takes for the file that it has open (log.c:326-345).                 *)
RemovedFilesAreLeft ==
  Detects =>
    \A i \in DOMAIN gone : \A p \in Procs :
      \/ Cardinality(Late(p, i)) <= TestInterval
      \/ Forked /\ i < Len(data)

(* A call returns, unless the process is a child that was forked while the       *)
(* scheduler thread had the mutex, or such a child has the lock of the file      *)
(* (log.c:48-79, eventloop.c:68).                                                *)
CallsReturn ==
  \A p \in Procs, t \in Threads :
    th[p][t].pc # "idle" ~> \/ th[p][t].pc = "idle"
                          \/ life[p] = "ended"
                          \/ inherited # {}

=============================================================================
