------------------------------ MODULE EchoServer ------------------------------
(***************************************************************************)
(* The asynchronous echo server (main.c of asyn_network) on the event loop *)
(* of ae.c: one listening socket, accepted connections that are read and   *)
(* answered in the loop, and clients that connect, send, close and reset   *)
(* at any time.  A callback is one step; between two callbacks, and between*)
(* the poll and the callbacks, anything may arrive.                        *)
(***************************************************************************)
EXTENDS EventLoop, Sequences

CONSTANTS
  Conns,     (* the connections clients will open             *)
  NoConn,    (* marks a descriptor that is no connection      *)
  MaxSend,   (* bound: units of data that each client sends   *)
  BufLen     (* REDIS_MAX_QUERYBUF_LEN, in units of data      *)

ASSUME ServerAssumption ==
  /\ NoConn \notin Conns
  /\ MaxSend \in [Conns -> Nat]
  /\ BufLen \in Nat \ {0}

ListenFd == 0
ClientFds == Fd \ {ListenFd}
Padding == 0      \* the bytes of the buffer that read did not fill

VARIABLES
  phase,     (* "poll", or "handle" while fired events are worked through     *)
  alive,     (* FALSE once a signal has killed the process                    *)
  backlog,   (* connections the kernel has completed and nobody accepted      *)
  sock,      (* the connection behind each open descriptor                    *)
  cst,       (* each connection: "new", "queued", "open" or "closed"          *)
  sent,      (* units of data the client has sent: 1, 2, ..., sent            *)
  rd,        (* units of data the server has read                             *)
  echo,      (* what the server has written to the connection                 *)
  fin,       (* the client has closed its end                                 *)
  rst        (* the connection was reset by the client's side                 *)

clientVars == <<sent, fin, rst>>
vars == <<loopVars, phase, alive, backlog, sock, cst, rd, echo, clientVars>>

\* main: the listening socket is registered before the loop is entered.
Init ==
  /\ LoopInit(ListenFd)
  /\ phase = "poll"
  /\ alive = TRUE
  /\ backlog = <<>>
  /\ sock = [fd \in Fd |-> NoConn]
  /\ cst = [c \in Conns |-> "new"]
  /\ sent = [c \in Conns |-> 0]
  /\ rd = [c \in Conns |-> 0]
  /\ echo = [c \in Conns |-> <<>>]
  /\ fin = [c \in Conns |-> FALSE]
  /\ rst = [c \in Conns |-> FALSE]

-------------------------------------------------------------------------------
(* The clients and the network.                                            *)

ClientConnect(c) ==
  /\ alive
  /\ cst[c] = "new"
  /\ cst' = [cst EXCEPT ![c] = "queued"]
  /\ backlog' = Append(backlog, c)
  /\ UNCHANGED <<loopVars, phase, alive, sock, rd, echo, clientVars>>

Connected(c) == cst[c] \in {"queued", "open"} /\ ~rst[c]

ClientSend(c) ==
  /\ Connected(c) /\ ~fin[c]
  /\ sent[c] < MaxSend[c]
  /\ sent' = [sent EXCEPT ![c] = @ + 1]
  /\ UNCHANGED <<loopVars, phase, alive, backlog, sock, cst, rd, echo, fin, rst>>

ClientClose(c) ==
  /\ Connected(c) /\ ~fin[c]
  /\ fin' = [fin EXCEPT ![c] = TRUE]
  /\ UNCHANGED <<loopVars, phase, alive, backlog, sock, cst, rd, echo, sent, rst>>

\* The client dies, or answers data that reach it after its close.
ClientReset(c) ==
  /\ Connected(c)
  /\ rst' = [rst EXCEPT ![c] = TRUE]
  /\ UNCHANGED <<loopVars, phase, alive, backlog, sock, cst, rd, echo, sent, fin>>

-------------------------------------------------------------------------------
(* What epoll reports of a descriptor: aeApiPoll turns EPOLLIN into        *)
(* READABLE and EPOLLERR and EPOLLHUP into WRITABLE, registered or not.    *)
Ready(fd) ==
  IF interest[fd] = {} THEN {}
  ELSE IF fd = ListenFd THEN IF backlog = <<>> THEN {} ELSE {READABLE}
  ELSE LET c == sock[fd] IN
       (IF rd[c] < sent[c] \/ fin[c] \/ rst[c] THEN {READABLE} ELSE {})
       \union (IF rst[c] THEN {WRITABLE} ELSE {})

Poll ==
  /\ alive
  /\ phase = "poll"
  /\ \E fd \in Fd : Ready(fd) # {}
  /\ fired' = [fd \in Fd |-> Ready(fd)]
  /\ phase' = "handle"
  /\ UNCHANGED <<events, interest, maxfd, alive, backlog, sock, cst, rd, echo, clientVars>>

\* Mutant: the loop does not go on to the next event.
TakeFiredAgain(fd) ==
  /\ alive
  /\ phase = "handle"
  /\ fd \in Slot
  /\ READABLE \in fired[fd] \intersect events[fd]
  /\ UNCHANGED <<fired, phase>>

\* aeProcessEvents takes up one fired event; after the last one the loop polls
\* again.  The callback runs only if the event is still registered: here it
\* always is (FiredInv and TableInv), so no event is ever skipped.
TakeFired(fd) ==
  /\ alive
  /\ phase = "handle"
  /\ fd \in Slot
  /\ READABLE \in fired[fd] \intersect events[fd]
  /\ fired' = [fired EXCEPT ![fd] = {}]
  /\ phase' = IF \A f \in Fd \ {fd} : fired[f] = {} THEN "poll" ELSE "handle"

\* close(2): nothing of the connection matters any more.
Closed(c) ==
  /\ cst' = [cst EXCEPT ![c] = "closed"]
  /\ sent' = [sent EXCEPT ![c] = 0]
  /\ rd' = [rd EXCEPT ![c] = 0]
  /\ echo' = [echo EXCEPT ![c] = <<>>]
  /\ fin' = [fin EXCEPT ![c] = FALSE]
  /\ rst' = [rst EXCEPT ![c] = FALSE]

-------------------------------------------------------------------------------
(* MainAcceptTcpHandler, one connection per call.                          *)

\* accept fails (descriptors or memory are used up): the connection stays queued.
AcceptFails ==
  /\ TakeFired(ListenFd)
  /\ UNCHANGED <<events, interest, maxfd, alive, backlog, sock, cst, rd, echo, clientVars>>

LowestFree(fd) ==
  /\ sock[fd] = NoConn
  /\ \A f \in ClientFds : f < fd => sock[f] # NoConn

\* Mutant: the new descriptor is not registered.
AcceptForgotten(fd) ==
  /\ TakeFired(ListenFd)
  /\ backlog # <<>>
  /\ LowestFree(fd)
  /\ sock' = [sock EXCEPT ![fd] = Head(backlog)]
  /\ cst' = [cst EXCEPT ![Head(backlog)] = "open"]
  /\ backlog' = Tail(backlog)
  /\ UNCHANGED <<events, interest, maxfd, alive, rd, echo, clientVars>>

Accept(fd) ==
  /\ TakeFired(ListenFd)
  /\ backlog # <<>>
  /\ LowestFree(fd)
  /\ aeCreateFileEvent(fd, {READABLE})
  /\ sock' = [sock EXCEPT ![fd] = Head(backlog)]
  /\ cst' = [cst EXCEPT ![Head(backlog)] = "open"]
  /\ backlog' = Tail(backlog)
  /\ UNCHANGED <<alive, rd, echo, clientVars>>

\* aeCreateFileEvent fails because the descriptor is outside the table, or the
\* slot and the kernel disagree, or the kernel has no memory: cfd is closed.
AcceptUnregistered(fd) ==
  /\ TakeFired(ListenFd)
  /\ backlog # <<>>
  /\ LowestFree(fd)
  /\ Closed(Head(backlog))
  /\ backlog' = Tail(backlog)
  /\ UNCHANGED <<events, interest, maxfd, alive, sock>>

-------------------------------------------------------------------------------
(* MainReadFromClient.                                                     *)

\* Mutant: the descriptor is closed without being taken off the event loop.
MainCloseFdOnly(fd) ==
  /\ interest' = [interest EXCEPT ![fd] = {}]
  /\ UNCHANGED <<events, maxfd>>
  /\ sock' = [sock EXCEPT ![fd] = NoConn]
  /\ Closed(sock[fd])

MainCloseFd(fd) ==
  /\ aeDeleteFileEventAndClose(fd, {READABLE})
  /\ sock' = [sock EXCEPT ![fd] = NoConn]
  /\ Closed(sock[fd])

Unread(c) == sent[c] - rd[c]
\* Mutant: as if every read filled the buffer.
ReadSizeFull(c) == BufLen
ReadSize(c) == IF Unread(c) < BufLen THEN Unread(c) ELSE BufLen

\* The buffer after the read: what came, and zeros up to its full length.
Buffer(c) == [i \in 1 .. BufLen |-> IF i <= ReadSize(c) THEN rd[c] + i ELSE Padding]

\* The whole buffer is written whatever was read; the kernel takes all or a part.
Echo(fd) ==
  LET c == sock[fd] IN
  /\ TakeFired(fd)
  /\ Unread(c) > 0
  /\ ~rst[c]
  /\ rd' = [rd EXCEPT ![c] = @ + ReadSize(c)]
  /\ \E n \in 1 .. BufLen : echo' = [echo EXCEPT ![c] = @ \o SubSeq(Buffer(c), 1, n)]
  /\ UNCHANGED <<events, interest, maxfd, alive, backlog, sock, cst, clientVars>>

\* The write fails: the socket's buffer is full (EAGAIN) or the peer has gone.
EchoFails(fd) ==
  LET c == sock[fd] IN
  /\ TakeFired(fd)
  /\ Unread(c) > 0
  /\ ~(rst[c] /\ fin[c])
  /\ MainCloseFd(fd)
  /\ UNCHANGED <<alive, backlog>>

\* The connection was reset after the client had closed it: the write raises
\* SIGPIPE, which main has not set to be ignored.
EchoSignalled(fd) ==
  LET c == sock[fd] IN
  /\ TakeFired(fd)
  /\ Unread(c) > 0
  /\ rst[c] /\ fin[c]
  /\ alive' = FALSE
  /\ rd' = [rd EXCEPT ![c] = @ + ReadSize(c)]
  /\ UNCHANGED <<events, interest, maxfd, backlog, sock, cst, echo, clientVars>>

\* Mutant: the end of the stream is taken for "try again".
ReadNothingIgnored(fd) ==
  /\ TakeFired(fd)
  /\ Unread(sock[fd]) = 0
  /\ UNCHANGED <<events, interest, maxfd, sock, cst, alive, backlog, rd, echo, clientVars>>

\* Nothing to read: the end of the stream or an error.  (read would return on
\* EAGAIN, but by FiredInv there always is something when it is called.)
ReadNothing(fd) ==
  LET c == sock[fd] IN
  /\ TakeFired(fd)
  /\ Unread(c) = 0
  /\ fin[c] \/ rst[c]
  /\ MainCloseFd(fd)
  /\ UNCHANGED <<alive, backlog>>

-------------------------------------------------------------------------------
MainAcceptTcpHandler ==
  \/ AcceptFails
  \/ \E fd \in ClientFds : Accept(fd) \/ AcceptUnregistered(fd)

MainReadFromClient(fd) ==
  \/ Echo(fd)
  \/ EchoFails(fd)
  \/ EchoSignalled(fd)
  \/ ReadNothing(fd)

Client(c) ==
  \/ ClientConnect(c)
  \/ ClientSend(c)
  \/ ClientClose(c)
  \/ ClientReset(c)

Next ==
  \/ \E c \in Conns : Client(c)
  \/ Poll
  \/ MainAcceptTcpHandler
  \/ \E fd \in ClientFds : MainReadFromClient(fd)

Spec == Init /\ [][Next]_vars

(* The loop never stops: it polls when something is ready and takes up     *)
(* every event it has polled.                                              *)
Fairness ==
  /\ WF_vars(Poll)
  /\ WF_vars(MainAcceptTcpHandler)
  /\ \A fd \in ClientFds : WF_vars(MainReadFromClient(fd))

FairSpec == Spec /\ Fairness

-------------------------------------------------------------------------------
TypeOK ==
  /\ LoopTypeOK
  /\ phase \in {"poll", "handle"}
  /\ alive \in BOOLEAN
  /\ backlog \in Seq(Conns)
  /\ sock \in [Fd -> Conns \union {NoConn}]
  /\ cst \in [Conns -> {"new", "queued", "open", "closed"}]
  /\ sent \in [Conns -> Nat] /\ rd \in [Conns -> Nat]
  /\ \A c \in Conns : rd[c] <= sent[c] /\ sent[c] <= MaxSend[c]
  /\ echo \in [Conns -> Seq(Nat)]
  /\ fin \in [Conns -> BOOLEAN]
  /\ rst \in [Conns -> BOOLEAN]

(* Exactly the descriptors of open connections and the listening socket    *)
(* are registered: a connection that stays open is always watched, and no  *)
(* slot of a closed descriptor is left behind to spoil its reuse.          *)
TableInv ==
  /\ AgreementInv
  /\ \A fd \in Fd : interest[fd] = IF fd = ListenFd \/ sock[fd] # NoConn THEN {READABLE} ELSE {}

(* The table of events, the kernel and the open connections agree, and     *)
(* maxfd is the highest descriptor in use.                                 *)
RegistrationInv == TableInv /\ MaxfdInv

(* A connection is open behind one descriptor only, and no other one is.   *)
SocketsInv ==
  /\ sock[ListenFd] = NoConn
  /\ \A c \in Conns : cst[c] = "open" <=> \E fd \in ClientFds : sock[fd] = c
  /\ \A f, g \in ClientFds : sock[f] = sock[g] /\ sock[f] # NoConn => f = g

(* The connections in the backlog are those that wait to be accepted, each *)
(* of them once.                                                           *)
BacklogInv ==
  /\ \A i \in DOMAIN backlog : cst[backlog[i]] = "queued"
  /\ \A i, j \in DOMAIN backlog : backlog[i] = backlog[j] => i = j

(* An event that was polled is still true when its turn comes: the         *)
(* descriptor has not been closed and reused, and its callback will not    *)
(* find nothing to do, although other callbacks ran in between.            *)
FiredInv ==
  \A fd \in Fd : fired[fd] # {} =>
    /\ phase = "handle"
    /\ fired[fd] \subseteq Ready(fd)
    /\ READABLE \in fired[fd]

(* What a client gets back, padding aside, are units that it sent, in the  *)
(* order in which it sent them, each at most once.                         *)
EchoInv ==
  \A c \in Conns :
    /\ \A i \in DOMAIN echo[c] : echo[c][i] <= sent[c]
    /\ \A i, j \in DOMAIN echo[c] :
         i < j /\ echo[c][i] # Padding /\ echo[c][j] # Padding => echo[c][i] < echo[c][j]

(* A connection its client has left is closed in the end, so that its      *)
(* descriptor can be used again.                                           *)
Reclaimed ==
  \A c \in Conns :
    cst[c] = "open" /\ (fin[c] \/ rst[c]) ~> cst[c] = "closed" \/ ~alive

(* What a client has sent on an accepted connection is read in the end.    *)
Answered ==
  \A c \in Conns :
    cst[c] = "open" /\ rd[c] < sent[c] ~> rd[c] = sent[c] \/ cst[c] = "closed" \/ ~alive

===============================================================================
