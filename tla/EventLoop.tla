----------------------------- MODULE EventLoop ------------------------------
(***************************************************************************)
(* The event loop and its processes (src/main.c, eventloop/eventloop.c,    *)
(* schedule_connections.c, add_client.c).  A process turns select, the     *)
(* walk over its linked list of connections, and accept.  With Max         *)
(* connections it forks for the next one: the child goes on accepting,     *)
(* with a port pool of its own; the parent closes the listening socket and *)
(* marks itself with conn_count = -1.  A fork that fails takes the parent's *)
(* branch too: then nobody is left to accept.                              *)
(* The list is kept as the code keeps it, a head and next pointers, with   *)
(* the two pointers p and pp of the walk.                                  *)
(***************************************************************************)
EXTENDS Integers, FiniteSets, Sequences

CONSTANTS
  Clients,     \* a client opens one connection; it names its RTSP_buffer too
  Null,
  Max,         \* ONE_FORK_MAX_CONNECTION
  MaxForks,    \* bound on the number of forks
  RTP_DEFAULT_PORT

ASSUME MaxAssumption == Max \in Nat \ {0}
ASSUME ForksAssumption == MaxForks \in Nat
ASSUME PortAssumption == RTP_DEFAULT_PORT \in Nat
ASSUME ClientsAssumption == IsFiniteSet(Clients)

Procs == 0 .. MaxForks

ASSUME NullAssumption == Null \notin Clients /\ Null \notin Procs

VARIABLES
  backlog,     \* the connections that wait for accept, oldest first
  asked,       \* clients that have connected
  request,     \* clients with a request the server has not read
  gone,        \* clients that have shut their side
  leaked,      \* connections accepted whose descriptor was overwritten with -1
  owner,       \* the process with the client's RTSP_buffer; Null: none
  next,        \* RTSP_buffer.next
  head,        \* rtsp_list, per process
  conn_count, child_count, start_port, stop_schedule,
  main_fd,     \* "listen", "closed", or "reused": the number names another file
  pc, p, pp,   \* where the process is in its turn, and the walk's pointers
  rset, mainReady   \* what select reported

client == <<backlog, asked, request, gone>>
list == <<owner, next, head>>
fork == <<child_count, start_port, leaked>>
walk == <<p, pp, rset, mainReady>>
vars == <<client, list, conn_count, fork, stop_schedule, main_fd, pc, walk>>

Owned(q) == {c \in Clients : owner[c] = q}

Init ==
  /\ backlog = << >> /\ asked = {} /\ request = {} /\ gone = {}
  /\ leaked = {}
  /\ owner = [c \in Clients |-> Null]
  /\ next = [c \in Clients |-> Null]
  /\ head = [q \in Procs |-> Null]
  /\ conn_count = [q \in Procs |-> 0]
  /\ child_count = [q \in Procs |-> 0]
  /\ start_port = [q \in Procs |-> RTP_DEFAULT_PORT]
  /\ stop_schedule = [q \in Procs |-> FALSE]
  /\ main_fd = [q \in Procs |-> IF q = 0 THEN "listen" ELSE "closed"]
  /\ pc = [q \in Procs |-> IF q = 0 THEN "select" ELSE "unborn"]
  /\ p = [q \in Procs |-> Null]
  /\ pp = [q \in Procs |-> Null]
  /\ rset = [q \in Procs |-> {}]
  /\ mainReady = [q \in Procs |-> FALSE]

-----------------------------------------------------------------------------
(* The clients *)

Connect(c) ==
  /\ c \notin asked
  /\ asked' = asked \cup {c}
  /\ backlog' = Append(backlog, c)
  /\ UNCHANGED <<request, gone, list, conn_count, fork, stop_schedule, main_fd, pc, walk>>

Send(c) ==
  /\ c \in asked \ gone
  /\ request' = request \cup {c}
  /\ UNCHANGED <<backlog, asked, gone, list, conn_count, fork, stop_schedule, main_fd, pc, walk>>

Leave(c) ==
  /\ c \in asked \ gone
  /\ gone' = gone \cup {c}
  /\ UNCHANGED <<backlog, asked, request, list, conn_count, fork, stop_schedule, main_fd, pc, walk>>

-----------------------------------------------------------------------------
(* eventloop: select *)

\* The descriptors in rset that are readable: data or the end of the connection.
Readable(q) == Owned(q) \cap (request \cup gone)

\* Mutant: main_fd is watched only below the limit.
PendingBelowMax(q) == conn_count[q] \in 0 .. Max - 1 /\ main_fd[q] = "listen" /\ backlog # << >>

Pending(q) == conn_count[q] # -1 /\ main_fd[q] = "listen" /\ backlog # << >>

\* select fails with EBADF when main_fd is in rset and names no open file:
\* eventloop returns, main calls it again, nothing has changed.
\* Mutant: the parent of a fork goes on watching main_fd.
SelectFailsForked(q) == main_fd[q] = "closed"

SelectFails(q) == conn_count[q] # -1 /\ main_fd[q] = "closed"

Select(q) ==
  /\ pc[q] = "select"
  /\ ~SelectFails(q)
  /\ Readable(q) # {} \/ Pending(q)
  /\ rset' = [rset EXCEPT ![q] = Readable(q)]
  /\ mainReady' = [mainReady EXCEPT ![q] = Pending(q)]
  /\ p' = [p EXCEPT ![q] = head[q]]
  /\ pp' = [pp EXCEPT ![q] = Null]
  /\ pc' = [pc EXCEPT ![q] = "serve"]
  /\ UNCHANGED <<client, list, conn_count, fork, stop_schedule, main_fd>>

-----------------------------------------------------------------------------
(* schedule_connections: the walk *)

\* Mutant: pp stays behind.
ServeIdleOnly(q) ==
  /\ pc[q] = "serve" /\ p[q] # Null
  /\ p[q] \notin rset[q]
  /\ p' = [p EXCEPT ![q] = next[p[q]]]
  /\ UNCHANGED <<client, list, conn_count, fork, stop_schedule, main_fd, pc, pp, rset, mainReady>>

\* rtsp_server finds nothing to read.
ServeIdle(q) ==
  /\ pc[q] = "serve" /\ p[q] # Null
  /\ p[q] \notin rset[q]
  /\ pp' = [pp EXCEPT ![q] = p[q]]
  /\ p' = [p EXCEPT ![q] = next[p[q]]]
  /\ UNCHANGED <<client, list, conn_count, fork, stop_schedule, main_fd, pc, rset, mainReady>>

\* A request is read and handled.  It may open a socket or a file, which takes
\* the number of a closed main_fd.
ServeRequest(q) ==
  /\ pc[q] = "serve" /\ p[q] # Null
  /\ p[q] \in rset[q] \cap request
  /\ request' = request \ {p[q]}
  /\ \/ UNCHANGED main_fd
     \/ main_fd[q] = "closed" /\ main_fd' = [main_fd EXCEPT ![q] = "reused"]
  /\ pp' = [pp EXCEPT ![q] = p[q]]
  /\ p' = [p EXCEPT ![q] = next[p[q]]]
  /\ UNCHANGED <<backlog, asked, gone, list, conn_count, fork, stop_schedule, pc, rset, mainReady>>

\* The file with main_fd's number is closed (its session is destroyed).
NumberFreed(q) ==
  /\ main_fd[q] = "reused"
  /\ main_fd' = [main_fd EXCEPT ![q] = "closed"]
  /\ UNCHANGED <<client, list, conn_count, fork, stop_schedule, pc, walk>>

\* Why rtsp_server returns an error: the end of the connection
\* (ERR_CONNECTION_CLOSE), or a failed read or send or a full buffer (ERR_GENERIC).
Fails(q) ==
  /\ p[q] \in rset[q]
  /\ p[q] \in request \cup gone

\* The scheduler is told to stop when the walk ends with this connection and the
\* process does not accept.
\* Mutant: even if it does.
StopsAtEnd(q, c) == next[c] = Null

Stops(q, c) == next[c] = Null /\ conn_count[q] - 1 < 0

\* What the branch of the closed connection does besides unlinking it.
Release(q, c) ==
  /\ request' = request \ {c}
  /\ gone' = gone \cup {c}
  /\ owner' = [owner EXCEPT ![c] = Null]
  /\ conn_count' = [conn_count EXCEPT ![q] = @ - 1]
  /\ p' = [p EXCEPT ![q] = next[c]]
  /\ stop_schedule' = [stop_schedule EXCEPT ![q] = @ \/ Stops(q, c)]

Unlink(q, c) ==
  IF c = head[q]
    THEN head' = [head EXCEPT ![q] = next[c]] /\ UNCHANGED next
    ELSE next' = [next EXCEPT ![pp[q]] = next[c]] /\ UNCHANGED head

ServeClose(q) ==
  /\ pc[q] = "serve" /\ p[q] # Null
  /\ Fails(q)
  /\ Release(q, p[q])
  /\ Unlink(q, p[q])
  /\ UNCHANGED <<backlog, asked, fork, main_fd, pc, pp, rset, mainReady>>

\* The walk's variables are dead from here on.
ServeEnd(q) ==
  /\ pc[q] = "serve" /\ p[q] = Null
  /\ pc' = [pc EXCEPT ![q] = "accept"]
  /\ pp' = [pp EXCEPT ![q] = Null]
  /\ rset' = [rset EXCEPT ![q] = {}]
  /\ UNCHANGED <<client, list, conn_count, fork, stop_schedule, main_fd, p, mainReady>>

-----------------------------------------------------------------------------
(* eventloop: accept *)

NoAccept(q) ==
  /\ pc[q] = "accept"
  /\ conn_count[q] = -1 \/ ~mainReady[q]
  /\ pc' = [pc EXCEPT ![q] = "select"]
  /\ UNCHANGED <<client, list, conn_count, fork, stop_schedule, main_fd, walk>>

Accepting(q) ==
  /\ pc[q] = "accept"
  /\ conn_count[q] # -1 /\ mainReady[q]
  /\ backlog' = Tail(backlog)
  /\ UNCHANGED <<asked, request, gone>>

\* add_client: at the end of the list.
AddClient(q, c) ==
  /\ owner' = [owner EXCEPT ![c] = q]
  /\ \/ /\ head[q] = Null
        /\ head' = [head EXCEPT ![q] = c]
        /\ next' = [next EXCEPT ![c] = Null]
     \/ /\ head[q] # Null
        /\ \E last \in Owned(q) :
             /\ next[last] = Null
             /\ next' = [next EXCEPT ![last] = c, ![c] = Null]
        /\ UNCHANGED head

AcceptHere(q) ==
  /\ Accepting(q)
  /\ conn_count[q] < Max
  /\ conn_count' = [conn_count EXCEPT ![q] = @ + 1]
  /\ AddClient(q, Head(backlog))
  /\ pc' = [pc EXCEPT ![q] = "select"]
  /\ UNCHANGED <<fork, stop_schedule, main_fd, walk>>

\* The first port of the pool of a process with child_count n.
\* Mutant: as if a cell were one port.
PoolStartSingle(n) == Max * n + RTP_DEFAULT_PORT

PoolStart(n) == Max * n * 2 + RTP_DEFAULT_PORT

\* conn_count in the child.
ChildCount(q) == 1

\* fork: the statics of the child are copies of the parent's.  The child's list
\* begins with the new client.
AcceptForks(q) ==
  /\ Accepting(q)
  /\ conn_count[q] >= Max
  /\ \E k \in Procs :
       /\ pc[k] = "unborn"
       /\ \A j \in Procs : j < k => pc[j] # "unborn"
       /\ child_count' = [child_count EXCEPT ![k] = child_count[q] + 1]
       /\ start_port' = [start_port EXCEPT ![k] = PoolStart(child_count[q] + 1)]
       /\ conn_count' = [conn_count EXCEPT ![k] = ChildCount(q), ![q] = -1]
       /\ main_fd' = [main_fd EXCEPT ![k] = main_fd[q], ![q] = "closed"]
       /\ stop_schedule' = [stop_schedule EXCEPT ![k] = stop_schedule[q]]
       /\ owner' = [owner EXCEPT ![Head(backlog)] = k]
       /\ next' = [next EXCEPT ![Head(backlog)] = Null]
       /\ head' = [head EXCEPT ![k] = Head(backlog)]
       /\ pc' = [pc EXCEPT ![k] = "select", ![q] = "select"]
  /\ UNCHANGED <<walk, leaked>>

\* fork returns -1, which eventloop takes for the parent's branch: the listening
\* socket is closed although no child has it, and fd is forgotten, not closed.
ForkFails(q) ==
  /\ Accepting(q)
  /\ conn_count[q] >= Max
  /\ conn_count' = [conn_count EXCEPT ![q] = -1]
  /\ main_fd' = [main_fd EXCEPT ![q] = "closed"]
  /\ leaked' = leaked \cup {Head(backlog)}
  /\ pc' = [pc EXCEPT ![q] = "select"]
  /\ UNCHANGED <<list, child_count, start_port, stop_schedule, walk>>

-----------------------------------------------------------------------------
Turn(q) ==
  \/ Select(q) \/ ServeIdle(q) \/ ServeRequest(q) \/ ServeClose(q) \/ ServeEnd(q)
  \/ NoAccept(q) \/ AcceptHere(q) \/ AcceptForks(q) \/ ForkFails(q)

Next ==
  \/ \E c \in Clients : Connect(c) \/ Send(c) \/ Leave(c)
  \/ \E q \in Procs : Turn(q) \/ NumberFreed(q)

\* Every process turns as long as it can; nothing is assumed of the clients.
Fairness == \A q \in Procs : WF_vars(Turn(q))

Spec == Init /\ [][Next]_vars /\ Fairness

-----------------------------------------------------------------------------
(* Properties *)

\* The types of the state.
TypeOK ==
  /\ backlog \in Seq(Clients)
  /\ asked \subseteq Clients /\ request \subseteq Clients
  /\ gone \subseteq Clients /\ leaked \subseteq Clients
  /\ owner \in [Clients -> Procs \cup {Null}]
  /\ next \in [Clients -> Clients \cup {Null}]
  /\ head \in [Procs -> Clients \cup {Null}]
  /\ conn_count \in [Procs -> Int]
  /\ child_count \in [Procs -> Nat]
  /\ start_port \in [Procs -> Nat]
  /\ stop_schedule \in [Procs -> BOOLEAN]
  /\ main_fd \in [Procs -> {"listen", "closed", "reused"}]
  /\ pc \in [Procs -> {"unborn", "select", "serve", "accept"}]
  /\ p \in [Procs -> Clients \cup {Null}]
  /\ pp \in [Procs -> Clients \cup {Null}]
  /\ rset \in [Procs -> SUBSET Clients]
  /\ mainReady \in [Procs -> BOOLEAN]

\* The buffer reached from the head of q's list in n steps.
Nth(q) ==
  LET nth[n \in 0 .. Cardinality(Clients)] ==
        IF n = 0 THEN head[q]
        ELSE IF nth[n - 1] = Null THEN Null ELSE next[nth[n - 1]]
  IN nth

\* Each process's list holds each of its connections exactly once, and no freed
\* buffer and no other process's: schedule_connections unlinks with the right
\* predecessor whatever closes in whatever order.
ListHoldsOwned ==
  \A q \in Procs :
    LET size == Cardinality(Owned(q))
    IN /\ {Nth(q)[n] : n \in 0 .. size - 1} = Owned(q)
       /\ Nth(q)[size] = Null

\* conn_count is the length of the list until the process forks.  Afterwards it
\* counts down from -1, one for each of the Max connections that closes.
CountIsLength ==
  \A q \in Procs :
    Cardinality(Owned(q)) =
      IF conn_count[q] >= 0 THEN conn_count[q] ELSE Max + 1 + conn_count[q]

\* Whatever forks in whatever order, no two processes listen, and the one that
\* listens has a conn_count that lets it accept and a scheduler that was not told
\* to stop.  There is one as long as no fork has failed, that is, no connection has
\* been leaked: eventloop does not tell -1 from the number of a child, and after
\* that nobody listens any more.
OneAcceptor ==
  /\ \A q \in Procs : main_fd[q] = "listen" =>
       /\ conn_count[q] >= 0 /\ ~stop_schedule[q]
       /\ \A k \in Procs \ {q} : main_fd[k] # "listen"
  /\ leaked = {} <=> \E q \in Procs : main_fd[q] = "listen"

\* No two processes hand out the same RTP or RTCP port: each pool has Max pairs
\* from its start_port on.
PortsDisjoint ==
  \A q, k \in Procs :
    q # k /\ pc[q] # "unborn" /\ pc[k] # "unborn" =>
      \/ start_port[q] + 2 * Max <= start_port[k]
      \/ start_port[k] + 2 * Max <= start_port[q]

\* A client that connects is accepted, by the first process or by a child, unless
\* a fork fails: who waits then waits for good.
EveryoneIsAccepted ==
  \A c \in Clients :
    c \in asked ~> c \notin {backlog[i] : i \in DOMAIN backlog} \/ leaked # {}

\* A request is read, or its connection is closed, unless the client's process
\* has forked and has lost a connection since: then select fails for good as
\* long as main_fd's number is free, and the other clients are not served.  A
\* failed fork takes nothing from the clients that have an RTSP_buffer; those
\* that have none by then never get one.
ServedUnlessStarved ==
  \A c \in Clients :
    c \in request ~> \/ c \notin request
                     \/ leaked # {} /\ owner[c] = Null
                     \/ \E q \in Procs : owner[c] = q /\ conn_count[q] < -1
=============================================================================
