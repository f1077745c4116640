---------------------------- MODULE ClientLifecycle ----------------------------
(***************************************************************************)
(* The clients of the middleware server (networking.c) from accept to      *)
(* freeClient.  A client is freed in many places: by its own callbacks, by *)
(* the command of another client, and later, from a queue, when it may     *)
(* still be in use.  Meanwhile it is on the list of clients, registered    *)
(* with the event loop, perhaps in the queue of clients to close, in the   *)
(* queue of unblocked clients, or server.current_client.                   *)
(*                                                                         *)
(* Commands arrive whole (how they are parsed is in ClientInput) and       *)
(* replies are sent as a whole or not yet (ClientOutput).  Code that the   *)
(* repository does not have is described by what networking.c expects of   *)
(* it: processCommand runs a command and may block or unblock a client,    *)
(* the loop works off unblocked_clients before it sleeps, and serverCron   *)
(* calls freeClientsInAsyncFreeQueue and moves server.mstime on.           *)
(***************************************************************************)
EXTENDS EventLoop, SequencesExt

CONSTANTS
  Conns,       (* the connections peers will open                       *)
  None,        (* no client: NULL                                       *)
  MaxSend,     (* bound: commands that the peer of a connection sends   *)
  Leaves,      (* bound: how that peer may leave, "fin" or "rst"        *)
  MaxQuery,    (* server.client_max_querybuf_len, in commands           *)
  MaxClients   (* server.maxclients                                     *)

ASSUME ClientsAssumption ==
  /\ None \notin Conns
  /\ MaxSend \in [Conns -> Nat]
  /\ Leaves \in [Conns -> SUBSET {"fin", "rst"}]
  /\ MaxQuery \in Nat \ {0}
  /\ MaxClients \in Nat \ {0}

ListenFd == 0
ClientFds == Fd \ {ListenFd}
NoFd == -1

CLOSE_ASAP == "REDIS_CLOSE_ASAP"
CLOSE_AFTER_REPLY == "REDIS_CLOSE_AFTER_REPLY"
BLOCKED == "REDIS_BLOCKED"
UNBLOCKED == "REDIS_UNBLOCKED"

VARIABLES
  phase,      (* "before" the loop sleeps, "handle" for the fired events,      *)
              (* "accept" in acceptTcpHandler, "process" in processInputBuffer,*)
              (* "kill" in CLIENT KILL, "close" in the queue of clients to     *)
              (* close; "undefined" once the program used a client that is not *)
              (* there                                                         *)
  turn,       (* descriptor whose write callback is next, or NoFd              *)
  runs,       (* the client that processInputBuffer works for                  *)
  back,       (* the phase to return to from processInputBuffer                *)
  victim,     (* the client that CLIENT KILL is about to free                  *)
  clients,    (* server.clients                                                *)
  toClose,    (* server.clients_to_close                                       *)
  unblocked,  (* server.unblocked_clients                                      *)
  current,    (* server.current_client                                         *)
  pause,      (* "off", "on", or "over": clients_paused, its end in the past   *)
  resumed,    (* history: a pause has ended                                    *)
  fdOf,       (* fd of each client                                             *)
  flags,      (* flags                                                         *)
  query,      (* commands in querybuf                                          *)
  out,        (* there are replies to send                                     *)
  backlog,    (* connections the kernel has completed and nobody accepted      *)
  net,        (* each connection: "new", "queued", "open" or "closed"          *)
  sent,       (* commands the peer has sent                                    *)
  inbox,      (* commands in the socket that the server has not read           *)
  left        (* the peer: "no", "fin" after a close, "rst" after a reset      *)

control == <<phase, turn, runs, back, victim>>
queues == <<clients, toClose, unblocked>>
client == <<fdOf, flags, query, out>>
peer == <<sent, inbox, left>>
kernel == <<backlog, net, peer>>
pauseVars == <<pause, resumed>>
world == <<queues, current, pauseVars, client, kernel>>
table == <<events, interest, maxfd>>
vars == <<loopVars, control, queues, current, pauseVars, client, kernel>>

Live == Range(clients)

Init ==
  /\ LoopInit(ListenFd)
  /\ phase = "before" /\ turn = NoFd
  /\ runs = None /\ back = "before" /\ victim = None
  /\ clients = <<>> /\ toClose = <<>> /\ unblocked = <<>>
  /\ current = None
  /\ pause = "off" /\ resumed = FALSE
  /\ fdOf = [c \in Conns |-> NoFd]
  /\ flags = [c \in Conns |-> {}]
  /\ query = [c \in Conns |-> 0]
  /\ out = [c \in Conns |-> FALSE]
  /\ backlog = <<>>
  /\ net = [c \in Conns |-> "new"]
  /\ sent = [c \in Conns |-> 0]
  /\ inbox = [c \in Conns |-> 0]
  /\ left = [c \in Conns |-> "no"]

--------------------------------------------------------------------------------
(* The peers.                                                              *)

Running == phase # "undefined"

Connect(c) ==
  /\ Running
  /\ net[c] = "new"
  /\ net' = [net EXCEPT ![c] = "queued"]
  /\ backlog' = Append(backlog, c)
  /\ UNCHANGED <<loopVars, control, queues, current, pauseVars, client, peer>>

Connected(c) == Running /\ net[c] \in {"queued", "open"} /\ left[c] = "no"

Send(c) ==
  /\ Connected(c)
  /\ sent[c] < MaxSend[c]
  /\ sent' = [sent EXCEPT ![c] = @ + 1]
  /\ inbox' = [inbox EXCEPT ![c] = @ + 1]
  /\ UNCHANGED <<loopVars, control, queues, current, pauseVars, client, backlog, net, left>>

Leave(c) ==
  /\ Connected(c)
  /\ \E how \in Leaves[c] : left' = [left EXCEPT ![c] = how]
  /\ inbox' = IF left'[c] = "rst" THEN [inbox EXCEPT ![c] = 0] ELSE inbox
  /\ UNCHANGED <<loopVars, control, queues, current, pauseVars, client, backlog, net, sent>>

--------------------------------------------------------------------------------
(* freeClient.                                                             *)

\* Mutant: the queue of unblocked clients is not looked at.
UnblockedKept(c) == unblocked

\* unblockClient flags the client and puts it at the end of the queue; freeClient
\* takes a client that has the flag to be in there once.
Unblocking(c) == IF UNBLOCKED \in flags[c] THEN unblocked ELSE Append(unblocked, c)

\* A blocked client is unblocked first, and the entry of a flagged one removed.
UnblockedWithout(c) ==
  LET queue == IF BLOCKED \in flags[c] THEN Unblocking(c) ELSE unblocked IN
  IF flags[c] \intersect {BLOCKED, UNBLOCKED} # {} THEN RemoveFirst(queue, c) ELSE queue

\* cur is server.current_client when freeClient is called.
CurrentWithout(c, cur) == IF cur = c THEN None ELSE cur

\* Mutant: only the read event is taken off the event loop.
UnregisterRead(c) == aeDeleteFileEventAndClose(fdOf[c], {READABLE})

Unregister(c) == aeDeleteFileEventAndClose(fdOf[c], {READABLE, WRITABLE})

\* close(2): nothing of the connection matters any more.
Closed(c) ==
  /\ net' = [net EXCEPT ![c] = "closed"]
  /\ sent' = [sent EXCEPT ![c] = 0]
  /\ inbox' = [inbox EXCEPT ![c] = 0]
  /\ left' = [left EXCEPT ![c] = "no"]

\* All of freeClient but the last queue, which a caller may be working on.
Release(c, cur) ==
  /\ Unregister(c)
  /\ Closed(c)
  /\ clients' = RemoveFirst(clients, c)
  /\ unblocked' = UnblockedWithout(c)
  /\ current' = CurrentWithout(c, cur)
  /\ fdOf' = [fdOf EXCEPT ![c] = NoFd]
  /\ flags' = [flags EXCEPT ![c] = {}]
  /\ query' = [query EXCEPT ![c] = 0]
  /\ out' = [out EXCEPT ![c] = FALSE]
  /\ UNCHANGED <<pauseVars, backlog>>

\* Mutant: a client that is scheduled for closing stays in that queue.
ToCloseKept(c) == toClose

ToCloseWithout(c) == IF CLOSE_ASAP \in flags[c] THEN RemoveFirst(toClose, c) ELSE toClose

freeClient(c, cur) == Release(c, cur) /\ toClose' = ToCloseWithout(c)

--------------------------------------------------------------------------------
(* addReply: the first reply registers the write handler.  Any reply, the  *)
(* first one if it does not fit into the static buffer, may go to the list *)
(* and find the client over its limit, which schedules it for closing      *)
(* (freeClientAsync).  more are flags the caller sets as well.             *)

\* Mutant: a client may be scheduled again.
ScheduledAgain(c) == Append(toClose, c)

Scheduled(c) == IF CLOSE_ASAP \in flags[c] THEN toClose ELSE Append(toClose, c)

CanExceedLimit(c) == CLOSE_AFTER_REPLY \notin flags[c]

RegisterWrite(c) ==
  IF out[c] THEN UNCHANGED loopVars
  ELSE aeCreateFileEvent(fdOf[c], {WRITABLE}) /\ UNCHANGED fired

AddReply(c, more) ==
  /\ RegisterWrite(c)
  /\ out' = [out EXCEPT ![c] = TRUE]
  /\ \/ /\ flags' = [flags EXCEPT ![c] = @ \union more]
        /\ UNCHANGED toClose
     \/ /\ CanExceedLimit(c)
        /\ flags' = [flags EXCEPT ![c] = @ \union more \union {CLOSE_ASAP}]
        /\ toClose' = Scheduled(c)

--------------------------------------------------------------------------------
(* processInputBuffer, one command at a time.                              *)

\* Mutant: the clients are not queued when the pause is over.
ResumedNone == unblocked

Resumed == unblocked \o clients

\* clientsArePaused at the end of a pause: every client is queued, so that
\* what it has sent in the meantime is processed.
PauseOver ==
  /\ phase = "process"
  /\ query[runs] > 0
  /\ pause = "over"
  /\ pause' = "off" /\ resumed' = TRUE
  /\ unblocked' = Resumed
  /\ UNCHANGED <<loopVars, control, clients, toClose, current, client, kernel>>

MayExecute(c) ==
  /\ query[c] > 0
  /\ pause = "off"
  /\ flags[c] \intersect {BLOCKED, CLOSE_AFTER_REPLY} = {}

InputDone ==
  /\ phase = "process"
  /\ query[runs] = 0 \/ pause = "on" \/ (pause = "off" /\ ~MayExecute(runs))
  /\ phase' = back
  /\ runs' = None
  /\ current' = None
  /\ back' = "before"
  /\ UNCHANGED <<loopVars, turn, victim, queues, pauseVars, client, kernel>>

Execute ==
  /\ phase = "process"
  /\ MayExecute(runs)
  /\ query' = [query EXCEPT ![runs] = @ - 1]

\* A command replies to its own client, or to another one (a message that is
\* published, say).
CommandReplies ==
  /\ Execute
  /\ \E c \in Live : AddReply(c, {})
  /\ UNCHANGED <<control, clients, unblocked, current, pauseVars, fdOf, kernel>>

\* Mutant: the client that is to be killed is freed whoever asks for it.
KilledAtOnceAny == Live

KilledAtOnce == Live \ {runs}

\* CLIENT KILL of another client: reply, then free it.
ClientKill ==
  /\ Execute
  /\ AddReply(runs, {})
  /\ victim' \in KilledAtOnce
  /\ phase' = "kill"
  /\ UNCHANGED <<turn, runs, back, clients, unblocked, current, pauseVars, fdOf, kernel>>

Kill ==
  /\ phase = "kill"
  /\ freeClient(victim, current)
  /\ victim' = None
  /\ phase' = "process"
  /\ UNCHANGED <<fired, turn, runs, back>>

\* CLIENT KILL of the own client, or a protocol error (setProtocolError).
ReplyAndClose ==
  /\ Execute
  /\ AddReply(runs, {CLOSE_AFTER_REPLY})
  /\ UNCHANGED <<control, clients, unblocked, current, pauseVars, fdOf, kernel>>

\* CLIENT PAUSE and pauseClients.
ClientPause ==
  /\ Execute
  /\ AddReply(runs, {})
  /\ pause' = "on"
  /\ UNCHANGED <<resumed, control, clients, unblocked, current, fdOf, kernel>>

CommandBlocks ==
  /\ Execute
  /\ flags' = [flags EXCEPT ![runs] = @ \union {BLOCKED}]
  /\ UNCHANGED <<loopVars, control, queues, current, pauseVars, fdOf, out, kernel>>

\* unblockClient for the sake of a command of another client.
CommandUnblocks ==
  /\ Execute
  /\ \E c \in Live :
       /\ BLOCKED \in flags[c]
       /\ flags' = [flags EXCEPT ![c] = (@ \ {BLOCKED}) \union {UNBLOCKED}]
       /\ unblocked' = Unblocking(c)
  /\ UNCHANGED <<loopVars, control, clients, toClose, current, pauseVars, fdOf, out, kernel>>

StartProcessing(c, next) ==
  /\ phase' = "process"
  /\ runs' = c
  /\ current' = c
  /\ back' = next

--------------------------------------------------------------------------------
(* Before the loop sleeps: the clients that were unblocked go on with what *)
(* is in their query buffers.                                              *)

ProcessUnblocked ==
  LET c == Head(unblocked) IN
  /\ phase = "before"
  /\ unblocked # <<>>
  /\ c \in Live
  /\ unblocked' = Tail(unblocked)
  /\ flags' = [flags EXCEPT ![c] = @ \ {UNBLOCKED}]
  /\ IF query[c] > 0 THEN StartProcessing(c, "before")
                     ELSE UNCHANGED <<phase, runs, current, back>>
  /\ UNCHANGED <<loopVars, turn, victim, clients, toClose, pauseVars, fdOf, query, out, kernel>>

\* The queue holds a client that was freed: what is read there may be anything.
ProcessFreed ==
  /\ phase = "before"
  /\ unblocked # <<>>
  /\ Head(unblocked) \notin Live
  /\ phase' = "undefined"
  /\ UNCHANGED <<loopVars, turn, runs, back, victim, world>>

--------------------------------------------------------------------------------
(* The event loop.                                                         *)

\* What epoll reports; whether a socket has room shows in what write takes.
\* EPOLLERR and EPOLLHUP become WRITABLE, registered or not.
Ready(fd) ==
  IF interest[fd] = {} THEN {}
  ELSE IF fd = ListenFd THEN IF backlog = <<>> THEN {} ELSE {READABLE}
  ELSE LET c == CHOOSE k \in Live : fdOf[k] = fd IN
       (IF inbox[c] > 0 \/ left[c] # "no" THEN {READABLE} ELSE {})
       \union (IF left[c] = "rst" THEN {WRITABLE} ELSE interest[fd] \ {READABLE})

Poll ==
  /\ phase = "before"
  /\ unblocked = <<>>
  /\ fired' = [fd \in Fd |-> Ready(fd)]
  /\ phase' = "handle"
  /\ UNCHANGED <<table, turn, runs, back, victim, world>>

\* aeProcessEvents takes up a fired event: the read callback, then the write
\* callback of the same descriptor, then another descriptor.
Take(fd, kind) ==
  /\ phase = "handle"
  /\ turn \in {NoFd, fd}
  /\ kind \in fired[fd]
  /\ kind = WRITABLE => READABLE \notin fired[fd]
  /\ fired' = [fired EXCEPT ![fd] = @ \ {kind}]
  /\ turn' = IF fired'[fd] = {} THEN NoFd ELSE fd
  /\ UNCHANGED victim

\* The event is no longer registered: a callback of this round freed the client.
Skip(fd, kind) ==
  /\ Take(fd, kind)
  /\ kind \notin events[fd]
  /\ UNCHANGED <<phase, runs, back, table, world>>

Callback(c, kind) ==
  /\ fdOf[c] \in Slot
  /\ Take(fdOf[c], kind)
  /\ kind \in events[fdOf[c]]

LoopEnds ==
  /\ phase = "handle"
  /\ fired = [fd \in Fd |-> {}]

\* The time event of serverCron is not due.
NotDue ==
  /\ LoopEnds
  /\ phase' = "before"
  /\ UNCHANGED <<loopVars, turn, runs, back, victim, world>>

\* serverCron: the clock moves on, and the clients to close are freed.
Due ==
  /\ LoopEnds
  /\ phase' = "close"
  /\ pause' \in IF pause = "on" THEN {"on", "over"} ELSE {pause}
  /\ UNCHANGED <<resumed, loopVars, turn, runs, back, victim, queues, current, client, kernel>>

\* freeClientsInAsyncFreeQueue: the flag is cleared before freeClient, and the
\* entry deleted after it.
CloseNext ==
  /\ phase = "close"
  /\ toClose # <<>>
  /\ Release(Head(toClose), current)
  /\ toClose' = Tail(toClose)
  /\ UNCHANGED <<control, fired>>

CloseDone ==
  /\ phase = "close"
  /\ toClose = <<>>
  /\ phase' = "before"
  /\ UNCHANGED <<loopVars, turn, runs, back, victim, world>>

--------------------------------------------------------------------------------
(* acceptTcpHandler.                                                       *)

AcceptBegins ==
  /\ Take(ListenFd, READABLE)
  /\ phase' = "accept"
  /\ UNCHANGED <<runs, back, table, world>>

\* Nothing is left to accept, accept fails, or it has been called 1000 times.
AcceptEnds ==
  /\ phase = "accept"
  /\ phase' = "handle"
  /\ UNCHANGED <<loopVars, turn, runs, back, victim, world>>

LowestFree(fd) ==
  LET used == {fdOf[c] : c \in Live} IN
  /\ fd \in ClientFds \ used
  /\ \A f \in ClientFds : f < fd => f \in used

\* createClient
Accept(fd) ==
  LET c == Head(backlog) IN
  /\ phase = "accept"
  /\ backlog # <<>>
  /\ LowestFree(fd)
  /\ Len(clients) < MaxClients
  /\ aeCreateFileEvent(fd, {READABLE})
  /\ backlog' = Tail(backlog)
  /\ net' = [net EXCEPT ![c] = "open"]
  /\ fdOf' = [fdOf EXCEPT ![c] = fd]
  /\ clients' = Append(clients, c)
  /\ UNCHANGED <<fired, control, toClose, unblocked, current, pauseVars, flags, query, out, peer>>

\* The descriptor cannot be registered, or there are too many clients: the
\* connection is closed, and acceptTcpHandler goes on to read the client that
\* acceptCommonHandler did not return.
AcceptRefused(fd) ==
  LET c == Head(backlog) IN
  /\ phase = "accept"
  /\ backlog # <<>>
  /\ LowestFree(fd)
  /\ ~CanMonitor(fd) \/ Len(clients) >= MaxClients
  /\ Closed(c)
  /\ backlog' = Tail(backlog)
  /\ phase' = "undefined"
  /\ UNCHANGED <<loopVars, turn, runs, back, victim, queues, current, pauseVars, client>>

--------------------------------------------------------------------------------
(* readQueryFromClient, which makes c server.current_client first.         *)

\* Mutant: the end of the stream is taken for "try again".
EndedByReset(c) == left[c] = "rst"

\* What read finds when it has read everything: an end or an error, or EAGAIN.
Ended(c) == left[c] # "no"

Fits(c, n) == query[c] + n <= MaxQuery

\* The event is stale: the descriptor is another client's by now (EAGAIN).
ReadNothing(c) ==
  /\ Callback(c, READABLE)
  /\ inbox[c] = 0 /\ ~Ended(c)
  /\ current' = None
  /\ UNCHANGED <<phase, runs, back, table, queues, pauseVars, client, kernel>>

\* The end of the stream, or an error.
ReadEnd(c) ==
  /\ Callback(c, READABLE)
  /\ inbox[c] = 0 /\ Ended(c)
  /\ freeClient(c, c)
  /\ UNCHANGED <<phase, runs, back>>

\* More in the query buffer than a client may have.
ReadTooMuch(c) ==
  /\ Callback(c, READABLE)
  /\ \E n \in 1 .. inbox[c] : ~Fits(c, n)
  /\ freeClient(c, c)
  /\ UNCHANGED <<phase, runs, back>>

ReadQuery(c) ==
  /\ Callback(c, READABLE)
  /\ \E n \in 1 .. inbox[c] :
       /\ Fits(c, n)
       /\ query' = [query EXCEPT ![c] = @ + n]
       /\ inbox' = [inbox EXCEPT ![c] = @ - n]
  /\ StartProcessing(c, "handle")
  /\ UNCHANGED <<table, queues, pauseVars, fdOf, flags, out, backlog,
                 net, sent, left>>

--------------------------------------------------------------------------------
(* sendReplyToClient.                                                      *)

\* The socket takes a part, or nothing.
SendSome(c) ==
  /\ Callback(c, WRITABLE)
  /\ left[c] # "rst"
  /\ UNCHANGED <<phase, runs, back, table, world>>

SendAll(c) ==
  /\ Callback(c, WRITABLE)
  /\ left[c] # "rst"
  /\ CLOSE_AFTER_REPLY \notin flags[c]
  /\ aeDeleteFileEvent(fdOf[c], {WRITABLE})
  /\ out' = [out EXCEPT ![c] = FALSE]
  /\ UNCHANGED <<phase, runs, back, queues, current, pauseVars, fdOf, flags, query, kernel>>

\* The last reply is sent, and the client is to be closed after it.
SendLast(c) ==
  /\ Callback(c, WRITABLE)
  /\ left[c] # "rst"
  /\ CLOSE_AFTER_REPLY \in flags[c]
  /\ freeClient(c, current)
  /\ UNCHANGED <<phase, runs, back>>

\* write fails: the peer has gone.
SendFails(c) ==
  /\ Callback(c, WRITABLE)
  /\ left[c] # "no"
  /\ freeClient(c, current)
  /\ UNCHANGED <<phase, runs, back>>

--------------------------------------------------------------------------------
Peer(c) == Connect(c) \/ Send(c) \/ Leave(c)

processInputBuffer ==
  \/ PauseOver
  \/ InputDone
  \/ CommandReplies
  \/ ClientKill
  \/ Kill
  \/ ReplyAndClose
  \/ ClientPause
  \/ CommandBlocks
  \/ CommandUnblocks

acceptTcpHandler ==
  \/ AcceptBegins
  \/ AcceptEnds
  \/ \E fd \in ClientFds : Accept(fd) \/ AcceptRefused(fd)

readQueryFromClient(c) ==
  \/ ReadNothing(c)
  \/ ReadEnd(c)
  \/ ReadTooMuch(c)
  \/ ReadQuery(c)

sendReplyToClient(c) ==
  \/ SendSome(c)
  \/ SendAll(c)
  \/ SendLast(c)
  \/ SendFails(c)

Loop ==
  \/ ProcessUnblocked
  \/ ProcessFreed
  \/ Poll
  \/ \E fd \in ClientFds, kind \in {READABLE, WRITABLE} : Skip(fd, kind)
  \/ NotDue
  \/ Due
  \/ CloseNext
  \/ CloseDone

Server ==
  \/ Loop
  \/ acceptTcpHandler
  \/ processInputBuffer
  \/ \E c \in Live : readQueryFromClient(c) \/ sendReplyToClient(c)

Next == Server \/ \E c \in Conns : Peer(c)

Spec == Init /\ [][Next]_vars

(* The loop never stops, and the timer of serverCron is due again and      *)
(* again; nothing is assumed of the peers, or of what their sockets take.  *)
FairSpec == Spec /\ WF_vars(Server) /\ SF_vars(Due)

--------------------------------------------------------------------------------
TypeOK ==
  /\ LoopTypeOK
  /\ phase \in {"before", "handle", "accept", "process", "kill", "close", "undefined"}
  /\ turn \in ClientFds \union {NoFd}
  /\ {runs, victim, current} \subseteq Conns \union {None}
  /\ back \in {"before", "handle"}
  /\ \A q \in {clients, toClose, unblocked, backlog} : q \in Seq(Conns)
  /\ pause \in {"off", "on", "over"} /\ resumed \in BOOLEAN
  /\ fdOf \in [Conns -> ClientFds \union {NoFd}]
  /\ flags \in [Conns -> SUBSET {CLOSE_ASAP, CLOSE_AFTER_REPLY, BLOCKED, UNBLOCKED}]
  /\ query \in [Conns -> 0 .. MaxQuery]
  /\ out \in [Conns -> BOOLEAN]
  /\ net \in [Conns -> {"new", "queued", "open", "closed"}]
  /\ sent \in [Conns -> Nat] /\ inbox \in [Conns -> Nat]
  /\ left \in [Conns -> {"no", "fin", "rst"}]

(* The list of clients, their descriptors and the event loop agree: the    *)
(* clients are the open connections, each listed once with a descriptor of *)
(* its own, that is watched for reading, and for writing exactly when      *)
(* there are replies.  No registration outlives its client.  The client    *)
(* whose input is being processed is not freed before that is done, and    *)
(* only during that time it is server.current_client.                      *)
ClientsInv ==
  /\ TypeOK
  /\ AgreementInv
  /\ \A i, j \in DOMAIN clients : fdOf[clients[i]] = fdOf[clients[j]] => i = j
  /\ \A c \in Conns : c \in Live <=> net[c] = "open"
  /\ \A c \in Conns : c \in Live <=> fdOf[c] # NoFd
  /\ \A fd \in ClientFds :
       interest[fd] = UNION {{READABLE} \union (IF out[c] THEN {WRITABLE} ELSE {}) :
                               c \in {k \in Live : fdOf[k] = fd}}
  /\ current = runs
  /\ runs # None => runs \in Live /\ phase \in {"process", "kill"}

(* The queue of clients to close holds exactly the clients with            *)
(* CLOSE_ASAP, once each, and a client with UNBLOCKED is in the queue of   *)
(* unblocked clients: what the assertions of freeClient expect.  As long   *)
(* as no pause has ended that queue holds no other clients.                *)
QueuesInv ==
  /\ \A c \in Conns : c \in Range(toClose) <=> c \in Live /\ CLOSE_ASAP \in flags[c]
  /\ \A i, j \in DOMAIN toClose : toClose[i] = toClose[j] => i = j
  /\ \A c \in Live : UNBLOCKED \in flags[c] => c \in Range(unblocked)
  /\ ~resumed => \A c \in Range(unblocked) : c \in Live /\ UNBLOCKED \in flags[c]

(* No client is left with commands in its query buffer unless something    *)
(* will make the server look at them again: the end of a pause, the end of *)
(* its blocking, the queue of unblocked clients; or it is to be closed.    *)
StalledInv ==
  \A c \in Live :
    query[c] > 0 /\ pause = "off" /\ flags[c] \intersect {BLOCKED, CLOSE_AFTER_REPLY} = {}
      => c = runs \/ c \in Range(unblocked)

(* A client whose peer has left is freed, whether it is blocked, paused or *)
(* has replies that nobody reads; and so is one that was scheduled for     *)
(* closing.                                                                *)
HangupFreed ==
  \A c \in Conns :
    (c \in Live /\ left[c] # "no") \/ c \in Range(toClose)
      ~> c \notin Live \/ phase = "undefined"

--------------------------------------------------------------------------------
(* networking.c:1013 says that a client that was just unblocked is removed *)
(* from the list of unblocked clients when it is freed.                    *)
NoFreedUnblocked == Range(unblocked) \subseteq Live
================================================================================
