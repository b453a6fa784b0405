------------------------------ MODULE PortPool ------------------------------
(***************************************************************************)
(* The pool of server port pairs (rtp/RTP_port_pool_init.c,                *)
(* RTP_get_port_pair.c, RTP_release_port_pair.c).  The array port_pool is  *)
(* shared by two threads and protected by no lock:                         *)
(*   - the main thread takes a pair while it serves SETUP,                 *)
(*   - the scheduler thread gives a pair back when it destroys a session.  *)
(* Every access to an array cell is a step of its own, so the two scans    *)
(* interleave cell by cell.                                                *)
(***************************************************************************)
EXTENDS Integers, FiniteSets

CONSTANTS
  N,              \* ONE_FORK_MAX_CONNECTION, the number of cells
  FirstPort,      \* start_port, as RTP_port_pool_init set it for the process
  Multicast,      \* the multicast sessions being served
  MulticastPort   \* their ser_ports.RTP: rtp_multicast_port, which is 0 as long as
                  \* nothing but RTSP_setup.c:265 assigns it

ASSUME NAssumption == N \in Nat \ {0}
ASSUME FirstPortAssumption == FirstPort \in Nat \ {0}
ASSUME MulticastAssumption == MulticastPort \in Nat

VARIABLES
  port_pool,      \* the shared array; 0 is a free cell
  get,            \* RTP_get_port_pair: the main thread's pc, index and result
  rel,            \* RTP_release_port_pair: the scheduler thread's pc, index and argument
  held,           \* ser_ports.RTP of the unicast sessions that are set up
  shared,         \* those of them that more than one session has
  lost,           \* pairs of sessions that got no slot of the scheduler
  multi,          \* multicast sessions that are not closed
  hadFree         \* history: the pool held a pair when the current get began

pool_vars == <<port_pool, get, rel, held, shared, lost, multi, hadFree>>

Index == 0 .. N - 1
Cells == FirstPort .. FirstPort + N - 1

\* The arithmetic between a cell's value and the RTP port of a pair.
PairOf(cell) == (cell - FirstPort) * 2 + FirstPort
\* Mutant: the pair is not halved.
CellOfWhole(port) == port

\* Division by two as C does it, towards zero: a multicast port may lie below
\* start_port.
Half(d) == IF d >= 0 THEN d \div 2 ELSE -((-d) \div 2)

CellOf(port) == Half(port - FirstPort) + FirstPort

Idle == [pc |-> "idle", i |-> 0, port |-> 0]

PoolInit ==
  /\ port_pool = [i \in Index |-> i + FirstPort]
  /\ get = Idle
  /\ rel = Idle
  /\ held = {}
  /\ shared = {}
  /\ lost = {}
  /\ multi = Multicast
  /\ hadFree = FALSE

-----------------------------------------------------------------------------
(* RTP_get_port_pair, main thread *)

\* Mutant: the scan begins behind the first cell.
GetCallFromOne ==
  /\ get.pc = "idle"
  /\ get' = [Idle EXCEPT !.pc = "scan", !.i = 1]
  /\ hadFree' = \E i \in Index : port_pool[i] # 0
  /\ UNCHANGED <<port_pool, rel, held, shared, lost, multi>>

GetCall ==
  /\ get.pc = "idle"
  /\ get' = [Idle EXCEPT !.pc = "scan"]
  /\ hadFree' = \E i \in Index : port_pool[i] # 0
  /\ UNCHANGED <<port_pool, rel, held, shared, lost, multi>>

\* for (i = 0; ...) if (port_pool[i] != 0)
GetScan ==
  /\ get.pc = "scan"
  /\ get.i < N
  /\ get' = IF port_pool[get.i] # 0
              THEN [get EXCEPT !.pc = "take"]
              ELSE [get EXCEPT !.i = @ + 1]
  /\ UNCHANGED <<port_pool, rel, held, shared, lost, multi, hadFree>>

\* The cell is read a second time to compute the ports.
GetTake ==
  /\ get.pc = "take"
  /\ get' = [get EXCEPT !.pc = "clear", !.port = PairOf(port_pool[get.i])]
  /\ UNCHANGED <<port_pool, rel, held, shared, lost, multi, hadFree>>

\* Mutant: the cell is not cleared.
GetClearForgotten ==
  /\ get.pc = "clear"
  /\ get' = [get EXCEPT !.pc = "setup"]
  /\ UNCHANGED <<port_pool, rel, held, shared, lost, multi, hadFree>>

GetClear ==
  /\ get.pc = "clear"
  /\ port_pool' = [port_pool EXCEPT ![get.i] = 0]
  /\ get' = [get EXCEPT !.pc = "setup"]
  /\ UNCHANGED <<rel, held, shared, lost, multi, hadFree>>

\* return ERR_GENERIC: SETUP answers 500 and has no session.
GetFail ==
  /\ get.pc = "scan"
  /\ get.i = N
  /\ get' = Idle
  /\ UNCHANGED <<port_pool, rel, held, shared, lost, multi, hadFree>>

-----------------------------------------------------------------------------
(* What the sessions do with a pair *)

\* RTSP_setup goes on to record the pair in the new RTP_session ...
SetupCompletes ==
  /\ get.pc = "setup"
  /\ held' = held \cup {get.port}
  /\ shared' = shared \cup (held \cap {get.port})
  /\ get' = Idle
  /\ UNCHANGED <<port_pool, rel, lost, multi, hadFree>>

\* ... but schedule_add finds the table full: the session is never in it, so that
\* RTP_session_destroy does not release its pair.
SetupAbandons ==
  /\ get.pc = "setup"
  /\ lost' = lost \cup {get.port}
  /\ get' = Idle
  /\ UNCHANGED <<port_pool, rel, held, shared, multi, hadFree>>

\* RTP_transport_close of a unicast UDP session, scheduler thread.
CloseUnicast ==
  /\ rel.pc = "idle"
  /\ \E port \in held :
       /\ \/ held' = held \ {port} /\ shared' = shared \ {port}
          \/ port \in shared /\ UNCHANGED <<held, shared>>
       /\ rel' = [pc |-> "scan", i |-> 0, port |-> port]
  /\ UNCHANGED <<port_pool, get, lost, multi, hadFree>>

\* RTP_transport_close of a multicast session releases ser_ports as well,
\* although SETUP filled them from rtp_multicast_port and not from the pool.
CloseMulticast ==
  /\ rel.pc = "idle"
  /\ \E session \in multi : multi' = multi \ {session}
  /\ rel' = [pc |-> "scan", i |-> 0, port |-> MulticastPort]
  /\ UNCHANGED <<port_pool, get, held, shared, lost, hadFree>>

-----------------------------------------------------------------------------
(* RTP_release_port_pair, scheduler thread *)

RelScan ==
  /\ rel.pc = "scan"
  /\ rel.i < N
  /\ rel' = IF port_pool[rel.i] = 0
              THEN [rel EXCEPT !.pc = "fill"]
              ELSE [rel EXCEPT !.i = @ + 1]
  /\ UNCHANGED <<port_pool, get, held, shared, lost, multi, hadFree>>

RelFill ==
  /\ rel.pc = "fill"
  /\ port_pool' = [port_pool EXCEPT ![rel.i] = CellOf(rel.port)]
  /\ rel' = Idle
  /\ UNCHANGED <<get, held, shared, lost, multi, hadFree>>

\* return ERR_GENERIC, which RTP_transport_close ignores.
RelFail ==
  /\ rel.pc = "scan"
  /\ rel.i = N
  /\ rel' = Idle
  /\ UNCHANGED <<port_pool, get, held, shared, lost, multi, hadFree>>

-----------------------------------------------------------------------------
MainThread ==
  \/ GetCall \/ GetScan \/ GetTake \/ GetClear \/ GetFail
  \/ SetupCompletes \/ SetupAbandons

Scheduler == CloseUnicast \/ CloseMulticast \/ RelScan \/ RelFill \/ RelFail

PoolNext == MainThread \/ Scheduler

PoolSpec == PoolInit /\ [][PoolNext]_pool_vars

-----------------------------------------------------------------------------
PcRecord(pcs) == [pc : pcs, i : 0 .. N, port : Nat]

\* Type correctness of the pool and of the two scans.
PoolTypeOK ==
  /\ port_pool \in [Index -> Nat]
  /\ get \in PcRecord({"idle", "scan", "take", "clear", "setup"})
  /\ rel \in PcRecord({"idle", "scan", "fill"})
  /\ held \subseteq Nat
  /\ shared \subseteq held
  /\ lost \subseteq Nat
  /\ multi \subseteq Multicast
  /\ hadFree \in BOOLEAN

\* Pairs that are out of the pool.
Releasing == IF rel.pc = "idle" THEN {} ELSE {rel.port}
Setup == IF get.pc = "setup" THEN {get.port} ELSE {}
Out == held \cup lost \cup Setup \cup Releasing

\* No multicast session was closed yet, so no foreign pair is in the pool.
Unpolluted == multi = Multicast

UsedOnce ==
  /\ \A i, j \in Index :
       (i # j /\ port_pool[i] # 0) => port_pool[i] # port_pool[j]
  /\ \A i \in Index : port_pool[i] # 0 => PairOf(port_pool[i]) \notin Out
  /\ Releasing \cap (held \cup lost \cup Setup) = {}
  /\ Setup \cap (held \cup lost) = {}
  /\ held \cap lost = {}

AllThere ==
  \A c \in Cells : \/ \E i \in Index : port_pool[i] = c
                   \/ PairOf(c) \in Out

CellAhead ==
  /\ rel.pc = "scan" => \E j \in rel.i .. N - 1 : port_pool[j] = 0
  /\ rel.pc = "fill" => rel.i < N /\ port_pool[rel.i] = 0

(* A pair is never in two places: no two cells hold the same pair, no cell
   holds a pair that some session owns, and the pair the scheduler thread is
   giving back belongs to nobody else.  It is what lets two SETUPs bind their
   sockets to different ports although port_pool is not locked.  The close of
   a multicast session ends it: RTP_transport_close releases a pair that
   RTP_get_port_pair never gave out. *)
NoDoubleUse == Unpolluted => UsedOnce

(* No pair disappears: each of the N pairs is in a cell, or a session, or a
   failed SETUP, or the release in progress has it. *)
NoPairVanishes == Unpolluted => AllThere

(* RTP_release_port_pair never gets to its final "return ERR_GENERIC", which
   RTP_transport_close would ignore: while a pair is being released, an empty
   cell lies ahead of the scan although the other thread changes the array. *)
ReleaseFindsCell == Unpolluted => CellAhead

(* RTP_get_port_pair answers "no port" (SETUP's 500) only if the pool was
   empty when the call began: a pair that was there cannot be missed by the
   scan while the other thread fills cells behind it.  Multicast or not. *)
GetFailsOnlyWhenEmpty ==
  (get.pc = "scan" /\ hadFree) => \E j \in get.i .. N - 1 : port_pool[j] # 0

=============================================================================
