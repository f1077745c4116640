--------------------------------- MODULE Anet ---------------------------------
(***************************************************************************)
(* The socket layer (anet.c): functions that make several system calls,    *)
(* each of which may fail, and that give their caller a descriptor or an   *)
(* error.  One thread makes one call after another.  A step is one system  *)
(* call with its outcome; what the kernel does is external.                *)
(***************************************************************************)
EXTENDS Integers, Sequences, FiniteSets

CONSTANTS
  Fd,         (* the numbers of descriptors                                  *)
  ANET_ERR,   (* -1: no descriptor                                           *)
  MaxAddrs,   (* bound: addresses a name resolves to                         *)
  MaxCount,   (* bound: bytes a caller reads or writes                       *)
  MaxCalls    (* bound: calls                                                *)

ASSUME NetAssumption == ANET_ERR \notin Fd

VARIABLES
  kernel,   (* the state and options of each descriptor                      *)
  limit,    (* RLIMIT_NOFILE: how many may be open                           *)
  owned,    (* the descriptors the caller was given and has not closed       *)
  lists,    (* the lists of getaddrinfo that were not freed                  *)
  call,     (* the call under way: its function, where it stands, its
               variables; fn is "none" between calls                         *)
  result,   (* what the last call returned, and how it got there             *)
  failed,   (* history: the options that could not be set                    *)
  calls     (* the number of calls so far                                    *)
netVars == <<kernel, limit, owned, lists, call, result, failed, calls>>

Idle == [fn |-> "none", pc |-> "idle", s |-> ANET_ERR, left |-> 0, sources |-> 0,
         todo |-> <<>>, count |-> 0, moved |-> 0]
NoResult == [fn |-> "none", value |-> 0, left |-> 0, bound |-> TRUE, moved |-> 0]

TcpConnect == {"anetTcpConnect", "anetTcpNonBlockConnect", "anetTcpNonBlockBindConnect"}
UnixConnect == {"anetUnixConnect", "anetUnixNonBlockConnect"}
TcpServer == {"anetTcpServer", "anetTcp6Server"}
NonBlocking ==
  {"anetTcpNonBlockConnect", "anetTcpNonBlockBindConnect", "anetUnixNonBlockConnect"}

Shut == [state |-> "closed", opts |-> {}]
Open == {fd \in Fd : kernel[fd] # Shut}

NetInit ==
  /\ kernel = [fd \in Fd |-> Shut]
  /\ owned = {}
  /\ lists = {}
  /\ call = Idle
  /\ result = NoResult
  /\ failed = {}
  /\ calls = 0

\* A return, with or without a descriptor; the functions that have resolved a name free
\* the list first (the label end).
Return(value, bound) ==
  /\ call' = Idle
  /\ result' = [fn |-> call.fn, value |-> value, left |-> call.left, bound |-> bound,
                moved |-> call.moved]
  /\ lists' = lists \ {"servinfo"}
ReturnFd(fd, bound) == Return(fd, bound) /\ owned' = owned \union {fd}
ReturnError == Return(ANET_ERR, TRUE) /\ owned' = owned
Closed(fd) == [kernel EXCEPT ![fd] = Shut]
WithState(fd, st) == [kernel EXCEPT ![fd].state = st]

GoOn(frame) == call' = frame /\ UNCHANGED <<owned, lists, result>>

Begin(frame) ==
  /\ call.fn = "none"
  /\ calls < MaxCalls
  /\ calls' = calls + 1
  /\ call' = frame
  /\ UNCHANGED <<kernel, limit, owned, lists, result, failed>>

-------------------------------------------------------------------------------
\* The options the functions set on a new socket, in order, and whether the function
\* closes the socket when one cannot be set.
SocketOptions(fn) ==
  (IF fn = "anetTcp6Server" THEN <<"V6ONLY">> ELSE <<>>) \o <<"REUSEADDR">>
    \o (IF fn \in NonBlocking THEN <<"NONBLOCK">> ELSE <<>>)
ClosesWithout(fn, option) ==
  /\ ~(fn \in UnixConnect /\ option = "NONBLOCK")
  /\ ~(fn \in TcpServer /\ option = "REUSEADDR")
AfterOptions(fn) ==
  CASE fn = "anetTcpNonBlockBindConnect" -> "source"
    [] fn \in (TcpConnect \ {"anetTcpNonBlockBindConnect"}) \union UnixConnect -> "connect"
    [] fn \in TcpServer \union {"anetUnixServer"} -> "bind"

\* Those set on a descriptor of the caller's.  (The probe intervals are left out.)
CallerOptions == [
  anetNonBlock |-> <<"NONBLOCK">>, anetSetReuseAddr |-> <<"REUSEADDR">>,
  anetKeepAlive |-> <<"KEEPALIVE", "KEEPIDLE", "KEEPINTVL", "KEEPCNT">>,
  anetTcpKeepAlive |-> <<"KEEPALIVE">>, anetSetSendBuffer |-> <<"SNDBUF">>,
  anetEnableTcpNoDelay |-> <<"NODELAY">>, anetDisableTcpNoDelay |-> <<"NODELAY">>]

-------------------------------------------------------------------------------
(* The calls of the program. *)

StartTcp == \E fn \in TcpConnect \union TcpServer :
  Begin([Idle EXCEPT !.fn = fn, !.pc = "resolve"])
StartUnix == \E fn \in UnixConnect \union {"anetUnixServer"} :
  Begin([Idle EXCEPT !.fn = fn, !.pc = "socket", !.left = 1])
StartOption == \E fn \in DOMAIN CallerOptions, fd \in owned :
  Begin([Idle EXCEPT !.fn = fn, !.pc = "option", !.s = fd, !.todo = CallerOptions[fn]])
StartAccept == \E fn \in {"anetTcpAccept", "anetUnixAccept"}, fd \in owned :
  /\ kernel[fd].state = "listening"
  /\ Begin([Idle EXCEPT !.fn = fn, !.pc = "accept", !.s = fd])
StartTransfer == \E fn \in {"anetRead", "anetWrite"}, fd \in owned, n \in 1 .. MaxCount :
  /\ kernel[fd].state = "connected"
  /\ Begin([Idle EXCEPT !.fn = fn, !.pc = "transfer", !.s = fd, !.count = n])

\* The program closes what it owns.
CloseOwned == \E fd \in owned :
  /\ call.fn = "none"
  /\ kernel' = Closed(fd)
  /\ owned' = owned \ {fd}
  /\ result' = NoResult
  /\ UNCHANGED <<limit, lists, call, failed, calls>>

\* anetResolve and anetResolveIP resolve a name, copy the first address and free the
\* list; anetPeerToString and anetSockName ask for an address, or say "?".
Asked(fn) ==
  /\ call.fn = "none"
  /\ calls < MaxCalls
  /\ calls' = calls + 1
  /\ \E v \in {0, ANET_ERR} : result' = [NoResult EXCEPT !.fn = fn, !.value = v]
  /\ UNCHANGED <<kernel, limit, owned, lists, call, failed>>
AskAddress == Asked("anetResolve")
AskName == owned # {} /\ \E fn \in {"anetPeerToString", "anetSockName"} : Asked(fn)

-------------------------------------------------------------------------------
(* Their steps. *)

Resolve ==
  /\ call.pc = "resolve"
  /\ \/ ReturnError
     \/ \E n \in 1 .. MaxAddrs :
          /\ call' = [call EXCEPT !.pc = "socket", !.left = n]
          /\ lists' = lists \union {"servinfo"}
          /\ UNCHANGED <<owned, result>>
  /\ UNCHANGED <<kernel, limit, failed, calls>>

\* A socket for the next address; at the limit there is none.
Socket ==
  /\ call.pc = "socket"
  /\ call.left > 0
  /\ Cardinality(Open) < limit
  /\ \E fd \in Fd \ Open :
       /\ \A f \in Fd : f < fd => f \in Open
       /\ kernel' = [kernel EXCEPT ![fd] = [state |-> "new", opts |-> {}]]
       /\ GoOn([call EXCEPT !.pc = "option", !.s = fd, !.left = @ - 1,
                            !.todo = SocketOptions(call.fn)])
  /\ UNCHANGED <<limit, failed, calls>>
\* The loop of the TCP functions goes on with the next address.
SocketFails ==
  /\ call.pc = "socket"
  /\ call.left > 0
  /\ IF call.fn \in TcpConnect \union TcpServer THEN GoOn([call EXCEPT !.left = @ - 1])
     ELSE ReturnError
  /\ UNCHANGED <<kernel, limit, failed, calls>>
NoAddressLeft ==
  /\ call.pc = "socket"
  /\ call.left = 0
  /\ ReturnError
  /\ UNCHANGED <<kernel, limit, failed, calls>>

SetOption ==
  /\ call.pc = "option"
  /\ call.todo # <<>>
  /\ kernel' = [kernel EXCEPT ![call.s].opts =
                  IF call.fn = "anetDisableTcpNoDelay" THEN @ \ {"NODELAY"}
                  ELSE @ \union {Head(call.todo)}]
  /\ GoOn([call EXCEPT !.todo = Tail(@)])
  /\ UNCHANGED <<limit, failed, calls>>
OptionsSet ==
  /\ call.pc = "option"
  /\ call.todo = <<>>
  /\ IF call.fn \in DOMAIN CallerOptions THEN Return(0, TRUE) /\ UNCHANGED owned
     ELSE GoOn([call EXCEPT !.pc = AfterOptions(call.fn)])
  /\ UNCHANGED <<kernel, limit, failed, calls>>
OptionFails ==
  /\ call.pc = "option"
  /\ call.todo # <<>>
  /\ failed' = failed \union {<<call.fn, Head(call.todo)>>}
  /\ kernel' = IF call.fn \notin DOMAIN CallerOptions /\ ClosesWithout(call.fn, Head(call.todo))
               THEN Closed(call.s) ELSE kernel
  /\ ReturnError
  /\ UNCHANGED <<limit, calls>>

\* The source address is resolved for each socket, and its list never freed.
ResolveSource ==
  /\ call.pc = "source"
  /\ \E n \in 1 .. MaxAddrs : call' = [call EXCEPT !.pc = "bindsource", !.sources = n]
  /\ lists' = lists \union {"bservinfo"}
  /\ UNCHANGED <<owned, result, kernel, limit, failed, calls>>
BindSource ==
  /\ call.pc = "bindsource"
  /\ call.sources > 0
  /\ \/ /\ kernel' = WithState(call.s, "bound")
        /\ GoOn([call EXCEPT !.pc = "connect"])
     \/ GoOn([call EXCEPT !.sources = @ - 1]) /\ UNCHANGED kernel
  /\ UNCHANGED <<limit, failed, calls>>
\* Neither a name that does not resolve nor an address that cannot be bound counts as
\* an error: the label is end, and the socket is returned as it is.
SourceFails ==
  /\ \/ call.pc = "source"
     \/ call.pc = "bindsource" /\ call.sources = 0
  /\ ReturnFd(call.s, FALSE)
  /\ UNCHANGED <<kernel, limit, failed, calls>>

Connect ==
  /\ call.pc = "connect"
  /\ \/ kernel' = WithState(call.s, "connected")
     \/ call.fn \in NonBlocking /\ kernel' = WithState(call.s, "connecting")
  /\ ReturnFd(call.s, TRUE)
  /\ UNCHANGED <<limit, failed, calls>>

\* The socket is closed and the next address tried.  Mutant: no other is tried.
ConnectFailsAtOnce ==
  /\ call.pc = "connect"
  /\ kernel' = Closed(call.s)
  /\ ReturnError
  /\ UNCHANGED <<limit, failed, calls>>
ConnectFails ==
  /\ call.pc = "connect"
  /\ kernel' = Closed(call.s)
  /\ IF call.fn \in TcpConnect THEN GoOn([call EXCEPT !.pc = "socket", !.s = ANET_ERR])
     ELSE ReturnError
  /\ UNCHANGED <<limit, failed, calls>>

\* anetListen: bind, then listen; it closes the socket when one fails, and the server
\* functions give up then, whatever addresses are left.  Mutant: it does not close.
ListenFailsOpen ==
  /\ call.pc \in {"bind", "listen"}
  /\ ReturnError
  /\ UNCHANGED <<kernel, limit, failed, calls>>
ListenFails ==
  /\ call.pc \in {"bind", "listen"}
  /\ kernel' = Closed(call.s)
  /\ ReturnError
  /\ UNCHANGED <<limit, failed, calls>>
Bind ==
  /\ call.pc = "bind"
  /\ kernel' = WithState(call.s, "bound")
  /\ GoOn([call EXCEPT !.pc = "listen"])
  /\ UNCHANGED <<limit, failed, calls>>
\* anetUnixServer changes the mode of its path, and does not ask whether that worked.
Listen ==
  /\ call.pc = "listen"
  /\ kernel' = WithState(call.s, "listening")
  /\ ReturnFd(call.s, TRUE)
  /\ UNCHANGED <<limit, failed, calls>>

\* anetGenericAccept; an interrupted call is repeated.
Accept ==
  /\ call.pc = "accept"
  /\ \/ /\ Cardinality(Open) < limit
        /\ \E fd \in Fd \ Open :
             /\ \A f \in Fd : f < fd => f \in Open
             /\ kernel' = [kernel EXCEPT ![fd] = [state |-> "connected", opts |-> {}]]
             /\ ReturnFd(fd, TRUE)
     \/ ReturnError /\ UNCHANGED kernel
  /\ UNCHANGED <<limit, failed, calls>>

\* anetRead and anetWrite repeat short transfers; nothing at all ends the call.
Transfer ==
  /\ call.pc = "transfer"
  /\ \/ call.moved = call.count /\ Return(call.moved, TRUE) /\ UNCHANGED owned
     \/ \E n \in 1 .. call.count - call.moved : GoOn([call EXCEPT !.moved = @ + n])
     \/ call.moved # call.count /\ \E v \in {call.moved, ANET_ERR} : Return(v, TRUE) /\ UNCHANGED owned
  /\ UNCHANGED <<kernel, limit, failed, calls>>

Starts == StartTcp \/ StartUnix \/ StartOption \/ StartAccept \/ StartTransfer \/ CloseOwned
          \/ AskAddress \/ AskName
Steps ==
  \/ Resolve \/ Socket \/ SocketFails \/ NoAddressLeft \/ SetOption \/ OptionsSet \/ OptionFails
  \/ ResolveSource \/ BindSource \/ SourceFails \/ Connect \/ ConnectFails
  \/ ListenFails \/ Bind \/ Listen \/ Accept \/ Transfer

-------------------------------------------------------------------------------
(* Properties. *)

\* Connected, or on its way in a non-blocking call and then non-blocking; or listening
\* with the options asked for.
Usable(fn, fd) ==
  /\ fn \in TcpConnect \union UnixConnect =>
       /\ kernel[fd].state \in {"connected"} \union (IF fn \in NonBlocking THEN {"connecting"} ELSE {})
       /\ fn \in NonBlocking => "NONBLOCK" \in kernel[fd].opts
  /\ fn \in TcpServer \union {"anetUnixServer"} =>
       /\ kernel[fd].state = "listening"
       /\ "REUSEADDR" \in kernel[fd].opts
       /\ fn = "anetTcp6Server" => "V6ONLY" \in kernel[fd].opts

\* A descriptor that a function returned is what its callers take it for.  One thing they
\* must know (anet.c:296 and 306): a socket whose source address could not be bound is
\* returned unconnected, as a success.  anetRead and anetWrite say how much they moved; and
\* a connection fails only when every address has been tried (anet.c:283-285), or an
\* option could not be set.
ReturnInv ==
  /\ result.fn \in TcpConnect \union UnixConnect \union TcpServer \union {"anetUnixServer"}
       /\ result.value # ANET_ERR =>
         /\ result.value \in owned
         /\ ~result.bound \/ Usable(result.fn, result.value)
  /\ result.fn \in {"anetRead", "anetWrite"} => result.value \in {ANET_ERR, result.moved}
  /\ result.fn \in TcpConnect /\ result.value = ANET_ERR /\ result.left > 0 =>
       \E f \in failed : f[1] = result.fn

\* Between two calls every open descriptor belongs to the caller and every one of the
\* caller's is open, and no resolved name is kept, unless an option could not be set on a
\* socket that its function then forgets, new as it is (anet.c:368 and 484); the list of
\* a source address always stays (298).
LeakInv ==
  call.fn = "none" =>
    /\ owned \subseteq Open
    /\ Open = owned \/ \E f \in failed :
         \/ f[1] \in UnixConnect /\ f[2] = "NONBLOCK"
         \/ f[1] \in TcpServer /\ f[2] = "REUSEADDR"
    /\ \A fd \in Open \ owned : kernel[fd].state = "new"
    /\ lists \subseteq {"bservinfo"}
==============================================================================
