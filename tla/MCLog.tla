------------------------------- MODULE MCLog -------------------------------
(* Handles and messages for Log: the one of the server, and handles as          *)
(* configuration files of the library describe them.                            *)
EXTENDS Log

(* init_log in main.c: SetLogOutputG, SetLogLevelG, SetLogStylesG.              *)
Server == SetLogStyles(SetLogLevel(SetLogOutput(CreateLogHandle, "FILE"), 0),
                       {"LOGLEVEL", "SOURCE", "FORMAT", "NEWLINE"})

L(key, value) == [key |-> key, value |-> value]

Plain == L("styles", {"FORMAT", "NEWLINE"})
BySize == <<L("level", "INFO"), Plain, L("output", "FILE"), L("rotate_mode", "SIZE"), L("rotate_size", 4)>>
Seldom == Append(BySize, L("rotate_pressure_factor", 1))
Dated == <<L("level", "INFO"), L("styles", {"DATE", "PID", "FORMAT", "NEWLINE"})>>
ByDay == Dated \o <<L("options", "CHANGE_TEST"), L("output", "FILE"), L("rotate_mode", "PER_DAY")>>
ByHour == Dated \o <<L("output", "FILE"), L("rotate_mode", "PER_HOUR")>>
EachTime == Dated \o <<L("options", "OPEN_AND_CLOSE"), L("output", "FILE")>>
OnScreen == <<L("level", "INFO"), L("output", "STDOUT"), L("styles", {"CUSTLABEL1", "FORMAT", "NEWLINE"}),
              [key |-> "log_bufsize", value |-> 8, max |-> 10]>>
Refused == <<L("level", "INFO"), L("output", "FILE"), L("rotate_mode", "NONE")>>

Short == [len |-> 1, args |-> FALSE, dump |-> FALSE, level |-> 1]
Middle == [len |-> 5, args |-> FALSE, dump |-> FALSE, level |-> 1]
WithArgs == [len |-> 5, args |-> TRUE, dump |-> FALSE, level |-> 1]
Long == [len |-> 20, args |-> FALSE, dump |-> FALSE, level |-> 1]
Dump == [len |-> 6, args |-> FALSE, dump |-> TRUE, level |-> 1]

Bounds(calls, faults, removals, forks, exits, days) ==
  [calls |-> calls, faults |-> faults, removals |-> removals, forks |-> forks,
   exits |-> exits, days |-> days]

With(confs, messages, bounds) ==
  {[conf |-> c, kinds |-> messages, left |-> bounds] : c \in confs}
From(file) == ReadLogHandleFromConfig(file)

(* Buffers that grow and overlapping calls; a fork; a file that is removed;     *)
(* rotation by two threads, by two processes and with calls that pass; days;    *)
(* the other ways to open.                                                      *)
MCScenarios ==
  With({Server}, {Short, WithArgs, Long, Dump}, Bounds(2, 0, 0, 0, 0, 0))
  \cup With({Server}, {Middle}, Bounds(2, 0, 0, 1, 1, 0))
  \cup With({Server}, {Short}, Bounds(3, 1, 1, 0, 0, 0))
  \cup With({Server}, {Short}, Bounds(2, 0, 1, 1, 0, 0))
  \cup With(From(BySize), {Middle}, Bounds(3, 0, 0, 0, 0, 0))
  \cup With(From(BySize), {Middle}, Bounds(2, 0, 0, 1, 0, 0))
  \cup With(From(Seldom), {Short}, Bounds(3, 0, 0, 0, 0, 0))
  \cup With(From(ByDay) \cup From(ByHour), {Short}, Bounds(2, 0, 0, 0, 0, 1))
  \cup With(From(EachTime) \cup From(OnScreen) \cup From(Refused), {Middle}, Bounds(2, 1, 0, 0, 0, 1))
MCProcs == {1, 2}

(* What SetLogStyles makes of styles with FORMAT is a line.                     *)
ASSUME StylesAreLines ==
  \A styles \in SUBSET ConvertLogStyle :
    "FORMAT" \in styles => IsLineStyle(StyleFuncs(styles))
=============================================================================
