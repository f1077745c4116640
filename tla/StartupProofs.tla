----------------------------- MODULE StartupProofs -----------------------------
(***************************************************************************)
(* Proofs about the start of the middleware server and about the sockets   *)
(* it opens, for every number of descriptors, every limit and every bound. *)
(***************************************************************************)
EXTENDS Startup, QueueLemmas, TLAPS

-------------------------------------------------------------------------------
(* What the process may open. *)

\* Only adjustOpenFilesLimit (middleware_server.c:50-93) changes the limit.
LEMMA NetKeepsLimit ==
  ASSUME Starts \/ Steps
  PROVE  limit' = limit
<1> USE DEF Begin, Asked
<1>1. CASE Starts
  BY <1>1 DEF Starts, StartTcp, StartUnix, StartOption, StartAccept, StartTransfer,
              CloseOwned, AskAddress, AskName
<1>2. CASE Steps
  BY <1>2 DEF Steps, Resolve, Socket, SocketFails, NoAddressLeft, SetOption, OptionsSet,
              OptionFails, ResolveSource, BindSource, SourceFails, Connect, ConnectFails,
              ListenFails, Bind, Listen, Accept, Transfer
<1> QED BY <1>1, <1>2

Adjusting == {"limit", "raise", "adjust"}
NoLoop == Adjusting \union {"loop", "crashed", "exited"}

FilesType ==
  /\ limit \in Nat /\ requested \in Nat
  /\ maxclients \in Int /\ f \in Int /\ setsize \in Int

\* While the limit is being raised maxclients is what was asked for, the limit to be
\* tried only goes down from what that takes, and the loop ends at a limit that holds or
\* at one too small for a single client.
RaisingInv ==
  /\ boot \in Adjusting => maxclients = requested
  /\ boot \in {"raise", "adjust"} => limit <= maxfiles /\ f <= maxfiles
  /\ boot = "adjust" => f <= limit \/ f < DECR_STEP

SetSizeInv == boot \notin NoLoop => setsize = maxclients + REDIS_EVENTLOOP_FDSET_INCR

FilesIInv == FilesType /\ RaisingInv /\ SetSizeInv /\ FilesInv

LEMMA FilesInit == Init => FilesIInv
BY StartupAssumption, SMT
   DEF Init, FilesIInv, FilesType, RaisingInv, SetSizeInv, FilesInv, Adjusting, NoLoop

LEMMA FilesNext == FilesIInv /\ [Next]_vars => FilesIInv'
<1> SUFFICES ASSUME FilesIInv, [Next]_vars PROVE FilesIInv'
  OBVIOUS
<1> USE StartupAssumption
    DEF FilesIInv, FilesType, RaisingInv, SetSizeInv, FilesInv, Adjusting, NoLoop, maxfiles
<1>1. CASE GetLimit
  BY <1>1 DEF GetLimit, netVars
<1>2. CASE RaiseLimit
  BY <1>2 DEF RaiseLimit
<1>3. CASE RaiseFails
  BY <1>3 DEF RaiseFails, netVars
<1>4. CASE RaiseEnds
  BY <1>4 DEF RaiseEnds, netVars, bootVars
<1>5. CASE Adjust
  BY <1>5 DEF Adjust, netVars
<1>6. CASE CreateEventLoop
  BY <1>6 DEF CreateEventLoop
<1>7. CASE ListenToPort
  BY <1>7 DEF ListenToPort, Begin, bootVars
<1>8. CASE ListenReturns
  BY <1>8 DEF ListenReturns, netVars
<1>9. CASE Register
  BY <1>9 DEF Register, netVars
<1>10. CASE BioInit
  BY <1>10 DEF BioInit, netVars, bootVars
<1>11. CASE (Starts \/ Steps) /\ UNCHANGED <<boot, bootVars>>
  BY <1>11, NetKeepsLimit DEF bootVars
<1>12. CASE UNCHANGED vars
  BY <1>12 DEF vars, netVars, bootVars
<1> QED
  BY <1>1, <1>2, <1>3, <1>4, <1>5, <1>6, <1>7, <1>8, <1>9, <1>10, <1>11, <1>12
  DEF Next, Boots, Serves

\* Whatever limit the process finds and whatever it is asked for, the clients the server
\* accepts and the descriptors it reserves are within the limit it ends with and within
\* the table of its event loop.
THEOREM FilesKept == Spec => []FilesInv
<1>1. FilesIInv => FilesInv
  BY DEF FilesIInv
<1> QED BY FilesInit, FilesNext, <1>1, PTL DEF Spec
-------------------------------------------------------------------------------
(* Whose the open descriptors are. *)

SocketFns == TcpConnect \union UnixConnect \union TcpServer \union {"anetUnixServer"}

States == {"closed", "new", "bound", "connected", "connecting", "listening", "epoll"}
Options == {"V6ONLY", "REUSEADDR", "NONBLOCK", "KEEPALIVE", "KEEPIDLE", "KEEPINTVL", "KEEPCNT",
            "SNDBUF", "NODELAY"}
Descriptor == [state : States, opts : SUBSET Options]
CallFns == SocketFns \union DOMAIN CallerOptions
             \union {"none", "anetTcpAccept", "anetUnixAccept", "anetRead", "anetWrite"}
Holding == {"source", "bindsource", "connect", "bind", "listen"}
Places == {"idle", "resolve", "socket", "option", "accept", "transfer"} \union Holding

Frame == [fn : CallFns, pc : Places, s : Fd \union {ANET_ERR}, left : Int, sources : Int,
          todo : Seq(Options), count : Int, moved : Int]

NetType ==
  /\ kernel \in [Fd -> Descriptor]
  /\ owned \subseteq Fd
  /\ lists \subseteq {"servinfo", "bservinfo"}
  /\ call \in Frame

\* Where a call can stand: one that opens a socket, one that sets options of its caller's
\* descriptor, one that accepts or moves bytes; none has a name's list between calls.
CallInv ==
  /\ \/ call.fn = "none" /\ call.pc = "idle"
     \/ call.fn \in SocketFns /\ call.pc \in {"resolve", "socket", "option"} \union Holding
     \/ call.fn \in DOMAIN CallerOptions /\ call.pc = "option"
     \/ call.fn \in {"anetTcpAccept", "anetUnixAccept"} /\ call.pc = "accept"
     \/ call.fn \in {"anetRead", "anetWrite"} /\ call.pc = "transfer"
  /\ call.fn = "none" => lists \subseteq {"bservinfo"}

\* The socket the function under way has opened and not yet returned or closed.
Opened == call.fn \in SocketFns /\ call.pc \in {"option"} \union Holding
Held == IF Opened THEN {call.s} ELSE {}
HeldInv ==
  /\ Held \subseteq Open
  /\ Held \intersect owned = {}
  /\ Opened /\ call.pc = "option" => kernel[call.s].state = "new"
  /\ call.fn \in DOMAIN CallerOptions => call.s \in owned

\* What is neither the caller's nor the function's was forgotten when an option failed.
OpenInv == \A fd \in Fd : kernel[fd].state = "closed" => kernel[fd] = Shut
Forgotten == Open \ (owned \union Held)
ForgottenInv ==
  /\ owned \subseteq Open
  /\ \A fd \in Forgotten : kernel[fd].state = "new"
  /\ Forgotten = {} \/ \E p \in failed :
       \/ p[1] \in UnixConnect /\ p[2] = "NONBLOCK"
       \/ p[1] \in TcpServer /\ p[2] = "REUSEADDR"

NetIInv == NetType /\ CallInv /\ HeldInv /\ OpenInv /\ ForgottenInv

LEMMA NetInitial == NetInit => NetIInv
<1> SUFFICES ASSUME NetInit PROVE NetIInv
  OBVIOUS
<1>1. NetType /\ CallInv
  BY DEF NetInit, NetType, CallInv, Idle, Frame, Shut, Descriptor, States, CallFns, Places
<1>2. Open = {} /\ OpenInv
  BY DEF NetInit, Open, OpenInv
<1>3. ~Opened /\ Held = {}
  BY DEF NetInit, Idle, Held, Opened, SocketFns, TcpConnect, UnixConnect, TcpServer
<1>4. Forgotten = {} /\ owned = {}
  BY <1>2 DEF Forgotten, NetInit
<1>5. call.fn \notin DOMAIN CallerOptions
  BY DEF NetInit, Idle, CallerOptions
<1> QED BY <1>1, <1>2, <1>3, <1>4, <1>5 DEF NetIInv, HeldInv, ForgottenInv

LEMMA NetImplies == NetIInv => LeakInv
<1> SUFFICES ASSUME NetIInv, call.fn = "none" PROVE LeakInv
  BY DEF LeakInv
<1>1. Held = {}
  BY DEF Held, Opened, SocketFns, TcpConnect, UnixConnect, TcpServer
<1>2. Forgotten = Open \ owned /\ owned \subseteq Open
  BY <1>1 DEF Forgotten, NetIInv, ForgottenInv
<1>3. lists \subseteq {"bservinfo"}
  BY DEF NetIInv, CallInv
<1>4. (Open = owned) <=> (Forgotten = {})
  BY <1>2
<1> QED BY <1>2, <1>3, <1>4 DEF LeakInv, NetIInv, ForgottenInv

\* What a change of one descriptor makes of the open ones.
LEMMA OneOpen ==
  ASSUME NetType, OpenInv, NEW fd \in Fd, NEW r \in Descriptor,
         r.state # "closed", kernel' = [kernel EXCEPT ![fd] = r]
  PROVE  /\ Open' = Open \union {fd}
         /\ kernel' \in [Fd -> Descriptor]
         /\ OpenInv'
         /\ kernel'[fd] = r
         /\ \A g \in Fd : g # fd => kernel'[g] = kernel[g]
<1>1. r # Shut
  BY DEF Shut
<1> QED BY <1>1 DEF NetType, Open, OpenInv, Descriptor

LEMMA OneClosed ==
  ASSUME NetType, OpenInv, NEW fd \in Fd, kernel' = Closed(fd)
  PROVE  /\ Open' = Open \ {fd}
         /\ kernel' \in [Fd -> Descriptor]
         /\ OpenInv'
         /\ \A g \in Fd : g # fd => kernel'[g] = kernel[g]
<1>1. Shut \in Descriptor
  BY DEF Shut, Descriptor, States
<1> QED BY <1>1 DEF NetType, Open, OpenInv, Closed

\* No step but the failure of an option forgets a descriptor.
LEMMA NothingForgotten ==
  ASSUME ForgottenInv, owned' \subseteq Open', Forgotten' \subseteq Forgotten,
         \A fd \in Forgotten' : kernel'[fd] = kernel[fd], failed \subseteq failed'
  PROVE  ForgottenInv'
BY DEF ForgottenInv

\* A step of the call alone.
LEMMA CallStep ==
  ASSUME NetIInv, UNCHANGED <<kernel, owned>>, failed \subseteq failed', NetType', CallInv',
         Held' = Held, (Opened /\ call.pc = "option")' => Opened /\ call.pc = "option",
         Opened' => call'.s = call.s,
         call'.fn \in DOMAIN CallerOptions => call'.s \in owned
  PROVE  NetIInv'
<1>1. Open' = Open /\ OpenInv'
  BY DEF Open, OpenInv, NetIInv
<1>2. HeldInv'
  BY <1>1 DEF HeldInv, NetIInv
<1>3. Forgotten' = Forgotten
  BY <1>1 DEF Forgotten
<1>4. ForgottenInv'
  BY <1>1, <1>3, NothingForgotten DEF NetIInv, ForgottenInv
<1> QED BY <1>1, <1>2, <1>4 DEF NetIInv

\* The functions of the module, apart.
LEMMA Functions ==
  /\ "none" \notin SocketFns /\ "none" \notin DOMAIN CallerOptions
  /\ {"none", "anetTcpAccept", "anetUnixAccept", "anetRead", "anetWrite"} \intersect SocketFns = {}
  /\ DOMAIN CallerOptions \intersect SocketFns = {}
  /\ {"none", "anetTcpAccept", "anetUnixAccept", "anetRead", "anetWrite"}
       \intersect DOMAIN CallerOptions = {}
  /\ \A fn \in DOMAIN CallerOptions : CallerOptions[fn] \in Seq(Options)
  /\ \A fn \in SocketFns : SocketOptions(fn) \in Seq(Options) /\ AfterOptions(fn) \in Holding
<1>1. /\ \A fn \in DOMAIN CallerOptions : CallerOptions[fn] \in Seq(Options)
  <2>1. DOMAIN CallerOptions = {"anetNonBlock", "anetSetReuseAddr", "anetKeepAlive",
          "anetTcpKeepAlive", "anetSetSendBuffer", "anetEnableTcpNoDelay", "anetDisableTcpNoDelay"}
    BY DEF CallerOptions
  <2>2. \A o \in Options : <<o>> \in Seq(Options)
    OBVIOUS
  <2>3. <<"KEEPALIVE", "KEEPIDLE", "KEEPINTVL", "KEEPCNT">> \in Seq(Options)
    BY DEF Options
  <2>4. \A fn \in DOMAIN CallerOptions :
          CallerOptions[fn] = <<"KEEPALIVE", "KEEPIDLE", "KEEPINTVL", "KEEPCNT">>
            \/ \E o \in Options : CallerOptions[fn] = <<o>>
    BY <2>1 DEF CallerOptions, Options
  <2> QED BY <2>2, <2>3, <2>4
<1>2. \A fn \in SocketFns : AfterOptions(fn) \in Holding
  BY DEF SocketFns, TcpConnect, UnixConnect, TcpServer, AfterOptions, Holding
<1>3. \A fn \in SocketFns : SocketOptions(fn) \in Seq(Options)
  <2>1. \A a, b \in Seq(Options) : a \o b \in Seq(Options)
    OBVIOUS
  <2>2. <<>> \in Seq(Options) /\ \A o \in Options : <<o>> \in Seq(Options)
    OBVIOUS
  <2>3. {"V6ONLY", "REUSEADDR", "NONBLOCK"} \subseteq Options
    BY DEF Options
  <2> QED BY <2>1, <2>2, <2>3 DEF SocketOptions
<1> QED BY <1>1, <1>2, <1>3 DEF SocketFns, TcpConnect, UnixConnect, TcpServer, CallerOptions

LEMMA FrameTypes ==
  /\ Idle \in Frame
  /\ \A fn \in SocketFns :
       /\ [Idle EXCEPT !.fn = fn, !.pc = "resolve"] \in Frame
       /\ [Idle EXCEPT !.fn = fn, !.pc = "socket", !.left = 1] \in Frame
  /\ \A fn \in DOMAIN CallerOptions, fd \in Fd :
       [Idle EXCEPT !.fn = fn, !.pc = "option", !.s = fd, !.todo = CallerOptions[fn]] \in Frame
  /\ \A fn \in {"anetTcpAccept", "anetUnixAccept"}, fd \in Fd :
       [Idle EXCEPT !.fn = fn, !.pc = "accept", !.s = fd] \in Frame
  /\ \A fn \in {"anetRead", "anetWrite"}, fd \in Fd, n \in Int :
       [Idle EXCEPT !.fn = fn, !.pc = "transfer", !.s = fd, !.count = n] \in Frame
<1>1. Idle \in Frame
  BY DEF Idle, Frame, CallFns, Places
<1>2. \A fn \in SocketFns \union {"anetTcpAccept", "anetUnixAccept", "anetRead", "anetWrite"}
              \union DOMAIN CallerOptions : fn \in CallFns
  BY DEF CallFns
<1>3. {"resolve", "socket", "option", "accept", "transfer"} \subseteq Places /\ 1 \in Int
  BY DEF Places
<1> QED BY <1>1, <1>2, <1>3, Functions DEF Frame

\* A call starts with nothing held.
LEMMA BeginStep ==
  ASSUME NetIInv, NEW frame \in Frame, Begin(frame), frame.fn # "none",
         ~(frame.fn \in SocketFns /\ frame.pc \in {"option"} \union Holding),
         frame.fn \in DOMAIN CallerOptions => frame.s \in owned,
         \/ frame.fn \in SocketFns /\ frame.pc \in {"resolve", "socket"}
         \/ frame.fn \in DOMAIN CallerOptions /\ frame.pc = "option"
         \/ frame.fn \in {"anetTcpAccept", "anetUnixAccept"} /\ frame.pc = "accept"
         \/ frame.fn \in {"anetRead", "anetWrite"} /\ frame.pc = "transfer"
  PROVE  NetIInv'
<1>1. NetType'
  BY DEF Begin, NetIInv, NetType
<1>2. CallInv'
  BY DEF Begin, CallInv
<1>3. ~Opened
  BY Functions DEF Begin, Opened
<1>4. ~Opened'
  BY DEF Begin, Opened
<1> QED BY <1>1, <1>2, <1>3, <1>4, CallStep DEF Begin, Held

LEMMA NetStarts ==
  ASSUME NetIInv, Starts
  PROVE  NetIInv'
<1>1. CASE StartTcp
  <2>0. PICK fn \in TcpConnect \union TcpServer :
           Begin([Idle EXCEPT !.fn = fn, !.pc = "resolve"])
    BY <1>1 DEF StartTcp
  <2>1. fn \in SocketFns
    BY <2>0 DEF SocketFns
  <2> DEFINE frame == [Idle EXCEPT !.fn = fn, !.pc = "resolve"]
  <2>2. frame \in Frame /\ frame.fn = fn /\ frame.pc = "resolve"
    BY <2>1, FrameTypes DEF Idle
  <2>3. Begin(frame)
    BY <2>0
  <2>4. frame.fn # "none" /\ frame.pc \notin {"option"} \union Holding
    BY <2>1, <2>2, Functions DEF Holding
  <2>5. frame.fn \notin DOMAIN CallerOptions
    BY <2>1, <2>2, Functions
  <2> HIDE DEF frame
  <2> QED BY <2>1, <2>2, <2>3, <2>4, <2>5, BeginStep
<1>2. CASE StartUnix
  <2>0. PICK fn \in UnixConnect \union {"anetUnixServer"} :
           Begin([Idle EXCEPT !.fn = fn, !.pc = "socket", !.left = 1])
    BY <1>2 DEF StartUnix
  <2>1. fn \in SocketFns
    BY <2>0 DEF SocketFns
  <2> DEFINE frame == [Idle EXCEPT !.fn = fn, !.pc = "socket", !.left = 1]
  <2>2. frame \in Frame /\ frame.fn = fn /\ frame.pc = "socket"
    BY <2>1, FrameTypes DEF Idle
  <2>3. Begin(frame)
    BY <2>0
  <2>4. frame.fn # "none" /\ frame.pc \notin {"option"} \union Holding
    BY <2>1, <2>2, Functions DEF Holding
  <2>5. frame.fn \notin DOMAIN CallerOptions
    BY <2>1, <2>2, Functions
  <2> HIDE DEF frame
  <2> QED BY <2>1, <2>2, <2>3, <2>4, <2>5, BeginStep
<1>3. CASE StartOption
  <2>1. PICK fn \in DOMAIN CallerOptions, fd \in owned :
          Begin([Idle EXCEPT !.fn = fn, !.pc = "option", !.s = fd, !.todo = CallerOptions[fn]])
    BY <1>3 DEF StartOption
  <2> DEFINE frame == [Idle EXCEPT !.fn = fn, !.pc = "option", !.s = fd, !.todo = CallerOptions[fn]]
  <2>2. fd \in Fd
    BY DEF NetIInv, NetType
  <2>3. frame \in Frame /\ frame.fn = fn /\ frame.pc = "option" /\ frame.s = fd
    BY <2>2, FrameTypes DEF Idle
  <2> QED BY <2>1, <2>2, <2>3, BeginStep, Functions DEF Holding
<1>4. CASE StartAccept
  <2>1. PICK fn \in {"anetTcpAccept", "anetUnixAccept"}, fd \in owned :
          Begin([Idle EXCEPT !.fn = fn, !.pc = "accept", !.s = fd])
    BY <1>4 DEF StartAccept
  <2> DEFINE frame == [Idle EXCEPT !.fn = fn, !.pc = "accept", !.s = fd]
  <2>2. fd \in Fd
    BY DEF NetIInv, NetType
  <2>3. frame \in Frame /\ frame.fn = fn /\ frame.pc = "accept"
    BY <2>2, FrameTypes DEF Idle
  <2> QED BY <2>1, <2>3, BeginStep, Functions DEF Holding
<1>5. CASE StartTransfer
  <2>1. PICK fn \in {"anetRead", "anetWrite"}, fd \in owned, n \in 1 .. MaxCount :
          Begin([Idle EXCEPT !.fn = fn, !.pc = "transfer", !.s = fd, !.count = n])
    BY <1>5 DEF StartTransfer
  <2> DEFINE frame == [Idle EXCEPT !.fn = fn, !.pc = "transfer", !.s = fd, !.count = n]
  <2>2. fd \in Fd /\ n \in Int
    BY DEF NetIInv, NetType
  <2>3. frame \in Frame /\ frame.fn = fn /\ frame.pc = "transfer"
    BY <2>2, FrameTypes DEF Idle
  <2> QED BY <2>1, <2>3, BeginStep, Functions DEF Holding
<1>6. CASE CloseOwned
  <2>1. PICK fd \in owned : /\ call.fn = "none"
                            /\ kernel' = Closed(fd)
                            /\ owned' = owned \ {fd}
                            /\ UNCHANGED <<lists, call, failed>>
    BY <1>6 DEF CloseOwned
  <2>2. ~Opened /\ ~Opened' /\ Held = {} /\ Held' = {}
    BY <2>1, Functions DEF Opened, Held
  <2>3. /\ Open' = Open \ {fd}
        /\ kernel' \in [Fd -> Descriptor]
        /\ OpenInv'
        /\ \A g \in Fd : g # fd => kernel'[g] = kernel[g]
    BY <2>1, OneClosed DEF NetIInv, NetType
  <2>4. NetType' /\ CallInv'
    BY <2>1, <2>3 DEF NetIInv, NetType, CallInv
  <2>5. HeldInv'
    BY <2>1, <2>2, Functions DEF HeldInv
  <2>6. Forgotten' = Forgotten /\ fd \notin Forgotten' /\ owned' \subseteq Open'
    BY <2>1, <2>2, <2>3 DEF Forgotten, NetIInv, ForgottenInv
  <2>7. Forgotten' \subseteq Fd
    BY DEF Forgotten, Open
  <2>8. ForgottenInv'
    BY <2>1, <2>3, <2>6, <2>7, NothingForgotten DEF NetIInv
  <2> QED BY <2>3, <2>4, <2>5, <2>8 DEF NetIInv
<1>7. CASE AskAddress \/ AskName
  <2>1. /\ UNCHANGED <<kernel, owned, lists, call, failed>>
    BY <1>7 DEF AskAddress, AskName, Asked
  <2>2. NetType' /\ CallInv' /\ (Opened' <=> Opened) /\ Held' = Held
    BY <2>1 DEF NetIInv, NetType, CallInv, Opened, Held
  <2>3. call.fn \in DOMAIN CallerOptions => call.s \in owned
    BY DEF NetIInv, HeldInv
  <2> QED BY <2>1, <2>2, <2>3, CallStep
<1> QED BY <1>1, <1>2, <1>3, <1>4, <1>5, <1>6, <1>7 DEF Starts

\* A function that returns or goes on, when nothing is opened or closed.
LEMMA ReturnType ==
  ASSUME NetType, NEW v, NEW b, Return(v, b)
  PROVE  /\ call' = Idle /\ call'.fn = "none" /\ call'.pc = "idle" /\ call' \in Frame
         /\ lists' \subseteq {"bservinfo"}
         /\ CallInv'
         /\ ~Opened' /\ Held' = {}
         /\ call'.fn \notin DOMAIN CallerOptions
<1>1. call' = Idle /\ lists' \subseteq {"bservinfo"}
  BY DEF Return, NetType
<1>2. call'.fn = "none" /\ call'.pc = "idle" /\ call' \in Frame
  BY <1>1, FrameTypes DEF Idle
<1>3. ~Opened' /\ call'.fn \notin DOMAIN CallerOptions
  BY <1>2, Functions DEF Opened
<1> QED BY <1>1, <1>2, <1>3 DEF CallInv, Held

LEMMA ReturnStep ==
  ASSUME NetIInv, UNCHANGED <<kernel, owned>>, failed \subseteq failed', Held = {},
         NEW v, NEW b, Return(v, b)
  PROVE  NetIInv'
<1>1. NetType'
  BY ReturnType DEF NetIInv, NetType
<1> QED BY <1>1, ReturnType, CallStep DEF NetIInv

\* A function that goes on where it stood or further, with the same socket.
LEMMA GoOnStep ==
  ASSUME NetIInv, UNCHANGED <<kernel, owned, failed>>, call' \in Frame, call'.fn = call.fn,
         lists' \subseteq {"servinfo", "bservinfo"},
         call.fn # "none", CallInv', call'.s = call.s, Opened' <=> Opened,
         Opened' /\ call'.pc = "option" => call.pc = "option"
  PROVE  NetIInv'
<1>1. NetType' /\ Held' = Held
  BY DEF NetIInv, NetType, Held
<1>2. call'.fn \in DOMAIN CallerOptions => call'.s \in owned
  BY DEF NetIInv, HeldInv
<1> QED BY <1>1, <1>2, CallStep

\* The kernel after a step on one open descriptor.
Changed(fd) ==
  /\ kernel' \in [Fd -> Descriptor]
  /\ OpenInv'
  /\ \A g \in Fd : g # fd => kernel'[g] = kernel[g]

LEMMA StateStep ==
  ASSUME NetIInv, NEW fd \in Open, NEW st \in States, st # "closed", kernel' = WithState(fd, st)
  PROVE  Open' = Open /\ Changed(fd)
<1> DEFINE r == [kernel[fd] EXCEPT !.state = st]
<1>1. fd \in Fd /\ kernel[fd] \in Descriptor
  BY DEF Open, NetIInv, NetType
<1>2. r \in Descriptor /\ r.state = st
  BY <1>1 DEF Descriptor
<1>3. kernel' = [kernel EXCEPT ![fd] = r]
  BY DEF WithState
<1> HIDE DEF r
<1>4. Open \union {fd} = Open
  OBVIOUS
<1> QED BY <1>1, <1>2, <1>3, <1>4, OneOpen DEF NetIInv, Changed

\* A function that goes on with the socket it has opened.
LEMMA HeldStep ==
  ASSUME NetIInv, Opened, Open' = Open, Changed(call.s), UNCHANGED <<owned, lists, failed>>,
         call' \in Frame, call'.fn = call.fn, call'.s = call.s, CallInv', Opened',
         call'.pc = "option" => kernel'[call.s].state = "new"
  PROVE  NetIInv'
<1>1. NetType' /\ OpenInv'
  BY DEF NetIInv, NetType, Changed
<1>2. Held' = Held /\ Held = {call.s}
  BY DEF Held
<1>3. HeldInv'
  BY <1>2, Functions DEF NetIInv, HeldInv, Opened
<1>4. Forgotten' = Forgotten /\ Forgotten \subseteq Fd /\ call.s \notin Forgotten
  BY <1>2 DEF Forgotten, Open
<1>5. ForgottenInv'
  BY <1>4, NothingForgotten DEF NetIInv, ForgottenInv, Changed
<1> QED BY <1>1, <1>3, <1>5 DEF NetIInv

\* A function that gives its caller the socket it has opened.
LEMMA GivenStep ==
  ASSUME NetIInv, Opened, Open' = Open, Changed(call.s), failed' = failed,
         NEW b, ReturnFd(call.s, b)
  PROVE  NetIInv'
<1>1. Return(call.s, b) /\ owned' = owned \union {call.s}
  BY DEF ReturnFd
<1>2. Held = {call.s} /\ call.s \in Open
  BY DEF Held, NetIInv, HeldInv
<1>3. /\ call' \in Frame /\ CallInv' /\ lists' \subseteq {"bservinfo"} /\ ~Opened' /\ Held' = {}
      /\ call'.fn \notin DOMAIN CallerOptions
  BY <1>1, ReturnType DEF NetIInv
<1>4. NetType' /\ OpenInv'
  BY <1>1, <1>2, <1>3 DEF NetIInv, NetType, Changed, Open
<1>5. HeldInv'
  BY <1>3 DEF HeldInv
<1>6. /\ Forgotten' = Forgotten /\ Forgotten \subseteq Fd /\ call.s \notin Forgotten
      /\ owned' \subseteq Open'
  BY <1>1, <1>2, <1>3 DEF Forgotten, Open, NetIInv, ForgottenInv
<1>7. ForgottenInv'
  BY <1>6, NothingForgotten DEF NetIInv, Changed
<1> QED BY <1>3, <1>4, <1>5, <1>7 DEF NetIInv

\* A function that closes the socket it has opened.
LEMMA ClosedStep ==
  ASSUME NetIInv, Opened, kernel' = Closed(call.s), owned' = owned, failed \subseteq failed',
         call' \in Frame, lists' \subseteq {"servinfo", "bservinfo"}, CallInv', ~Opened',
         call'.fn \notin DOMAIN CallerOptions
  PROVE  NetIInv'
<1>1. Held = {call.s} /\ Held' = {} /\ call.s \in Open /\ call.s \notin owned /\ call.s \in Fd
  BY DEF Held, NetIInv, HeldInv, Open
<1>2. Open' = Open \ {call.s} /\ Changed(call.s)
  BY <1>1, OneClosed DEF NetIInv, Changed
<1>3. NetType' /\ OpenInv'
  BY <1>2 DEF NetIInv, NetType, Changed
<1>4. HeldInv'
  BY <1>1 DEF HeldInv
<1>5. /\ Forgotten' = Forgotten /\ Forgotten \subseteq Fd /\ call.s \notin Forgotten
      /\ owned' \subseteq Open'
  BY <1>1, <1>2 DEF Forgotten, Open, NetIInv, ForgottenInv
<1>6. ForgottenInv'
  BY <1>2, <1>5, NothingForgotten DEF NetIInv, Changed
<1> QED BY <1>3, <1>4, <1>6 DEF NetIInv

\* A new descriptor.
LEMMA NewStep ==
  ASSUME NetIInv, NEW fd \in Fd \ Open, NEW st \in States, st # "closed",
         kernel' = [kernel EXCEPT ![fd] = [state |-> st, opts |-> {}]]
  PROVE  Open' = Open \union {fd} /\ Changed(fd) /\ kernel'[fd].state = st
<1>1. [state |-> st, opts |-> {}] \in Descriptor /\ [state |-> st, opts |-> {}].state = st
  BY DEF Descriptor
<1> QED BY <1>1, OneOpen DEF NetIInv, Changed

LEMMA NetSteps ==
  ASSUME NetIInv, Steps
  PROVE  NetIInv'
<1>0. CallInv /\ NetType /\ HeldInv /\ call \in Frame
  BY DEF NetIInv, NetType
<1>1. CASE Resolve
  <2>1. call.fn \in SocketFns /\ call.pc = "resolve" /\ ~Opened /\ Held = {}
    BY <1>0, <1>1 DEF Resolve, CallInv, Opened, Held, Holding
  <2>2. CASE ReturnError
    BY <1>1, <2>1, <2>2, ReturnStep DEF Resolve, ReturnError
  <2>3. CASE \E n \in 1 .. MaxAddrs : /\ call' = [call EXCEPT !.pc = "socket", !.left = n]
                                      /\ lists' = lists \union {"servinfo"}
                                      /\ UNCHANGED <<owned, result>>
    <3>0. PICK n \in 1 .. MaxAddrs : call' = [call EXCEPT !.pc = "socket", !.left = n]
      BY <2>3
    <3>1. call' \in Frame /\ call'.fn = call.fn /\ call'.pc = "socket" /\ call'.s = call.s
      <4>1. n \in Int
        OBVIOUS
      <4> QED BY <1>0, <3>0, <4>1 DEF Frame, Places
    <3>2. CallInv' /\ ~Opened'
      BY <2>1, <3>1, Functions DEF CallInv, Opened, Holding
    <3>3. lists' \subseteq {"servinfo", "bservinfo"}
      BY <1>0, <2>3 DEF NetType
    <3> QED BY <1>1, <2>1, <2>3, <3>1, <3>2, <3>3, Functions, GoOnStep DEF Resolve
  <2> QED BY <1>1, <2>2, <2>3 DEF Resolve
<1>2. CASE SocketFails
  <2>1. call.fn \in SocketFns /\ call.pc = "socket" /\ ~Opened /\ Held = {}
    BY <1>0, <1>2 DEF SocketFails, CallInv, Opened, Held, Holding
  <2>2. CASE ReturnError
    BY <1>2, <2>1, <2>2, ReturnStep DEF SocketFails, ReturnError
  <2>3. CASE GoOn([call EXCEPT !.left = @ - 1])
    <3>1. /\ call' \in Frame /\ call'.fn = call.fn /\ call'.pc = "socket" /\ call'.s = call.s
          /\ UNCHANGED <<owned, lists>>
      BY <1>0, <2>1, <2>3 DEF Frame, GoOn
    <3>2. CallInv' /\ ~Opened'
      BY <2>1, <3>1, Functions DEF CallInv, Opened, Holding
    <3> QED BY <1>0, <1>2, <2>1, <3>1, <3>2, Functions, GoOnStep DEF SocketFails, NetType
  <2> QED BY <1>2, <2>2, <2>3 DEF SocketFails
<1>3. CASE NoAddressLeft
  <2>1. Held = {}
    BY <1>3 DEF NoAddressLeft, Opened, Held, Holding
  <2> QED BY <1>3, <2>1, ReturnStep DEF NoAddressLeft, ReturnError
<1>4. CASE OptionsSet
  <2>1. CASE call.fn \in DOMAIN CallerOptions
    <3>1. Held = {}
      BY <2>1, Functions DEF Opened, Held
    <3> QED BY <1>4, <2>1, <3>1, ReturnStep DEF OptionsSet
  <2>2. CASE call.fn \notin DOMAIN CallerOptions
    <3>1. call.fn \in SocketFns /\ call.pc = "option" /\ Opened
      BY <1>0, <1>4, <2>2 DEF OptionsSet, CallInv, Opened, Holding
    <3>2. /\ call' = [call EXCEPT !.pc = AfterOptions(call.fn)]
          /\ UNCHANGED <<kernel, owned, lists, failed>>
      BY <1>4, <2>2 DEF OptionsSet, GoOn
    <3>3. AfterOptions(call.fn) \in Holding
      BY <3>1, Functions
    <3>4. call' \in Frame /\ call'.fn = call.fn /\ call'.pc \in Holding /\ call'.s = call.s
      BY <1>0, <3>2, <3>3 DEF Frame, Places
    <3>5. CallInv' /\ Opened' /\ call'.pc # "option"
      BY <3>1, <3>4, Functions DEF CallInv, Opened, Holding
    <3> QED BY <1>0, <3>1, <3>2, <3>4, <3>5, Functions, GoOnStep DEF NetType
  <2> QED BY <2>1, <2>2
<1>5. CASE ResolveSource
  <2>1. call.fn \in SocketFns /\ call.pc = "source" /\ Opened
    BY <1>0, <1>5 DEF ResolveSource, CallInv, Opened, Holding
  <2>2. /\ call' \in Frame /\ call'.fn = call.fn /\ call'.pc = "bindsource" /\ call'.s = call.s
        /\ lists' \subseteq {"servinfo", "bservinfo"}
        /\ UNCHANGED <<kernel, owned, failed>>
    <3>1. PICK n \in 1 .. MaxAddrs : call' = [call EXCEPT !.pc = "bindsource", !.sources = n]
      BY <1>5 DEF ResolveSource
    <3>2. call' \in Frame /\ call'.fn = call.fn /\ call'.pc = "bindsource" /\ call'.s = call.s
      <4>1. n \in Int
        OBVIOUS
      <4> QED BY <1>0, <3>1, <4>1 DEF Frame, Places, Holding
    <3> QED BY <1>0, <1>5, <3>2 DEF ResolveSource, NetType
  <2>3. CallInv' /\ Opened'
    BY <2>1, <2>2, Functions DEF CallInv, Opened, Holding
  <2> QED BY <2>1, <2>2, <2>3, Functions, GoOnStep
<1>6. CASE Transfer
  <2>1. call.fn \in {"anetRead", "anetWrite"} /\ call.pc = "transfer" /\ ~Opened /\ Held = {}
    BY <1>0, <1>6, Functions DEF Transfer, CallInv, Opened, Held, Holding
  <2>2. CASE \E v : Return(v, TRUE) /\ UNCHANGED owned
    BY <1>6, <2>1, <2>2, ReturnStep DEF Transfer
  <2>3. CASE \E n \in 1 .. call.count - call.moved : GoOn([call EXCEPT !.moved = @ + n])
    <3>1. /\ call' \in Frame /\ call'.fn = call.fn /\ call'.pc = "transfer" /\ call'.s = call.s
          /\ UNCHANGED <<kernel, owned, lists, failed>>
      BY <1>0, <1>6, <2>1, <2>3 DEF Transfer, Frame, GoOn
    <3>2. CallInv' /\ ~Opened'
      BY <2>1, <3>1, Functions DEF CallInv, Opened, Holding
    <3> QED BY <1>0, <2>1, <3>1, <3>2, Functions, GoOnStep DEF NetType
  <2> QED BY <1>6, <2>2, <2>3 DEF Transfer
<1>7. CASE Socket
  <2>1. PICK fd \in Fd \ Open :
          /\ kernel' = [kernel EXCEPT ![fd] = [state |-> "new", opts |-> {}]]
          /\ GoOn([call EXCEPT !.pc = "option", !.s = fd, !.left = @ - 1,
                               !.todo = SocketOptions(call.fn)])
    BY <1>7 DEF Socket
  <2>2. call.fn \in SocketFns /\ call.pc = "socket" /\ ~Opened /\ Held = {} /\ failed' = failed
    BY <1>0, <1>7 DEF Socket, CallInv, Opened, Held, Holding
  <2>3. Open' = Open \union {fd} /\ Changed(fd) /\ kernel'[fd].state = "new"
    BY <2>1, NewStep DEF States
  <2>4. SocketOptions(call.fn) \in Seq(Options)
    BY <2>2, Functions
  <2>5. /\ call' \in Frame /\ call'.fn = call.fn /\ call'.pc = "option" /\ call'.s = fd
        /\ UNCHANGED <<owned, lists>>
    <3> DEFINE opts == SocketOptions(call.fn)
    <3>1. call' = [call EXCEPT !.pc = "option", !.s = fd, !.left = @ - 1, !.todo = opts]
      BY <2>1 DEF GoOn
    <3>2. /\ opts \in Seq(Options) /\ "option" \in Places
          /\ call.left - 1 \in Int /\ fd \in Fd \union {ANET_ERR}
      BY <1>0, <2>4 DEF Places, Frame
    <3> HIDE DEF opts
    <3>3. call' \in Frame /\ call'.fn = call.fn /\ call'.pc = "option" /\ call'.s = fd
      BY <1>0, <3>1, <3>2 DEF Frame
    <3> QED BY <2>1, <3>3 DEF GoOn
  <2>6. CallInv' /\ NetType' /\ Opened' /\ Held' = {fd}
    BY <1>0, <2>2, <2>3, <2>5, Functions DEF CallInv, NetType, Opened, Held, Holding, Changed
  <2>7. fd \notin owned
    BY DEF NetIInv, ForgottenInv
  <2>8. HeldInv'
    BY <2>2, <2>3, <2>5, <2>6, <2>7, Functions DEF HeldInv
  <2>9. /\ Forgotten' = Forgotten /\ Forgotten \subseteq Fd /\ fd \notin Forgotten
        /\ owned' \subseteq Open'
    BY <2>2, <2>3, <2>5, <2>6 DEF Forgotten, Open, NetIInv, ForgottenInv
  <2>10. ForgottenInv'
    BY <2>2, <2>3, <2>9, NothingForgotten DEF NetIInv, Changed
  <2> QED BY <2>3, <2>6, <2>8, <2>10 DEF NetIInv, Changed
<1>8. CASE SetOption
  <2> DEFINE opts == IF call.fn = "anetDisableTcpNoDelay" THEN kernel[call.s].opts \ {"NODELAY"}
                     ELSE kernel[call.s].opts \union {Head(call.todo)}
             r == [kernel[call.s] EXCEPT !.opts = opts]
  <2>1. \/ /\ call.fn \in SocketFns /\ Opened /\ Held = {call.s}
           /\ kernel[call.s].state = "new"
        \/ call.fn \in DOMAIN CallerOptions /\ ~Opened /\ Held = {} /\ call.s \in owned
    BY <1>0, <1>8, Functions DEF SetOption, CallInv, Holding, HeldInv, Held, Opened
  <2>2. call.s \in Open /\ call.s \in Fd /\ kernel[call.s] \in Descriptor
    BY <1>0, <2>1 DEF HeldInv, NetIInv, ForgottenInv, Open, NetType
  <2>3. Head(call.todo) \in Options /\ Tail(call.todo) \in Seq(Options)
    BY <1>0, <1>8 DEF SetOption, Frame
  <2>4. r \in Descriptor /\ r.state = kernel[call.s].state
    BY <2>2, <2>3 DEF Descriptor
  <2>5. kernel' = [kernel EXCEPT ![call.s] = r]
    BY <1>8 DEF SetOption
  <2>6. r.state # "closed"
    BY <2>2, <2>4 DEF Open, NetIInv, OpenInv
  <2> HIDE DEF r
  <2>7. Open' = Open /\ Changed(call.s) /\ kernel'[call.s] = r
    <3>1. Open \union {call.s} = Open
      BY <2>2
    <3> QED BY <2>2, <2>4, <2>5, <2>6, <3>1, OneOpen DEF NetIInv, Changed
  <2>8. /\ call' \in Frame /\ call'.fn = call.fn /\ call'.pc = call.pc /\ call'.s = call.s
        /\ UNCHANGED <<owned, lists, failed>>
    BY <1>0, <1>8, <2>3 DEF SetOption, GoOn, Frame
  <2>9. CallInv' /\ (Opened' <=> Opened) /\ Held' = Held /\ NetType'
    BY <1>0, <2>7, <2>8 DEF CallInv, Opened, Held, NetType, Changed
  <2>10. HeldInv'
    BY <1>0, <2>1, <2>4, <2>7, <2>8, <2>9, Functions DEF HeldInv
  <2>11. Forgotten' = Forgotten /\ call.s \notin Forgotten /\ Forgotten \subseteq Fd
    BY <2>1, <2>7, <2>8, <2>9 DEF Forgotten, Open
  <2>12. ForgottenInv'
    BY <2>7, <2>8, <2>11, NothingForgotten DEF NetIInv, ForgottenInv, Changed
  <2> QED BY <2>7, <2>9, <2>10, <2>12 DEF NetIInv, Changed
<1>9. CASE OptionFails
  <2>1. CASE call.fn \in DOMAIN CallerOptions
    <3>1. Held = {}
      BY <2>1, Functions DEF Opened, Held
    <3> QED BY <1>9, <2>1, <3>1, ReturnStep DEF OptionFails, ReturnError
  <2>2. CASE call.fn \notin DOMAIN CallerOptions
    <3>1. /\ call.fn \in SocketFns /\ Opened /\ Held = {call.s} /\ kernel[call.s].state = "new"
          /\ call.s \in Open
      BY <1>0, <1>9, <2>2 DEF OptionFails, CallInv, Opened, Holding, Held, HeldInv
    <3>2. CASE ClosesWithout(call.fn, Head(call.todo))
      BY <1>0, <1>9, <2>2, <3>1, <3>2, ReturnType, ClosedStep DEF OptionFails, ReturnError
    <3>3. CASE ~ClosesWithout(call.fn, Head(call.todo))
      <4>1. /\ UNCHANGED <<kernel, owned>>
            /\ failed' = failed \union {<<call.fn, Head(call.todo)>>}
            /\ Return(ANET_ERR, TRUE)
        BY <1>9, <2>2, <3>3 DEF OptionFails, ReturnError
      <4>2. /\ call' \in Frame /\ CallInv' /\ lists' \subseteq {"bservinfo"} /\ ~Opened'
            /\ Held' = {} /\ call'.fn \notin DOMAIN CallerOptions
        BY <1>0, <4>1, ReturnType
      <4>3. Open' = Open /\ OpenInv' /\ NetType' /\ HeldInv'
        BY <1>0, <4>1, <4>2 DEF NetIInv, NetType, HeldInv, Open, OpenInv
      <4>4. Forgotten' = Forgotten \union {call.s}
        BY <3>1, <4>1, <4>2, <4>3 DEF Forgotten, NetIInv, HeldInv
      <4>5. \E p \in failed' : \/ p[1] \in UnixConnect /\ p[2] = "NONBLOCK"
                               \/ p[1] \in TcpServer /\ p[2] = "REUSEADDR"
        <5> DEFINE p == <<call.fn, Head(call.todo)>>
        <5>1. p \in failed' /\ p[1] = call.fn /\ p[2] = Head(call.todo)
          BY <4>1
        <5>2. \/ call.fn \in UnixConnect /\ Head(call.todo) = "NONBLOCK"
              \/ call.fn \in TcpServer /\ Head(call.todo) = "REUSEADDR"
          BY <3>3 DEF ClosesWithout
        <5> QED BY <5>1, <5>2
      <4>6. ForgottenInv'
        BY <3>1, <4>1, <4>3, <4>4, <4>5 DEF ForgottenInv, NetIInv
      <4> QED BY <4>2, <4>3, <4>6 DEF NetIInv
    <3> QED BY <3>2, <3>3
  <2> QED BY <2>1, <2>2
<1>10. CASE BindSource
  <2>1. call.fn \in SocketFns /\ call.pc = "bindsource" /\ Opened /\ call.s \in Open
    BY <1>0, <1>10 DEF BindSource, CallInv, Opened, Holding, HeldInv, Held
  <2>2. CASE kernel' = WithState(call.s, "bound") /\ GoOn([call EXCEPT !.pc = "connect"])
    <3>1. Open' = Open /\ Changed(call.s)
      BY <2>1, <2>2, StateStep DEF States
    <3>2. /\ call' \in Frame /\ call'.fn = call.fn /\ call'.pc = "connect" /\ call'.s = call.s
          /\ UNCHANGED <<owned, lists, failed>>
      BY <1>0, <1>10, <2>2 DEF BindSource, Frame, Places, Holding, GoOn
    <3>3. CallInv' /\ Opened'
      BY <2>1, <3>2, Functions DEF CallInv, Opened, Holding
    <3> QED BY <2>1, <3>1, <3>2, <3>3, HeldStep
  <2>3. CASE GoOn([call EXCEPT !.sources = @ - 1]) /\ UNCHANGED kernel
    <3>1. /\ call' \in Frame /\ call'.fn = call.fn /\ call'.pc = "bindsource" /\ call'.s = call.s
          /\ UNCHANGED <<owned, lists, failed>>
      BY <1>0, <1>10, <2>1, <2>3 DEF BindSource, Frame, GoOn
    <3>2. CallInv' /\ Opened'
      BY <2>1, <3>1, Functions DEF CallInv, Opened, Holding
    <3> QED BY <1>0, <2>1, <2>3, <3>1, <3>2, Functions, GoOnStep DEF NetType
  <2> QED BY <1>10, <2>2, <2>3 DEF BindSource
<1>11. CASE SourceFails
  <2>1. Opened
    BY <1>0, <1>11 DEF SourceFails, CallInv, Opened, Holding
  <2>2. Open' = Open /\ Changed(call.s)
    BY <1>0, <1>11 DEF SourceFails, Open, Changed, NetIInv, NetType, OpenInv
  <2> QED BY <1>11, <2>1, <2>2, GivenStep DEF SourceFails
<1>12. CASE Connect \/ Listen
  <2>1. Opened /\ call.s \in Open
    BY <1>0, <1>12 DEF Connect, Listen, CallInv, Opened, Holding, HeldInv, Held
  <2>2. PICK st \in {"connected", "connecting", "listening"} : kernel' = WithState(call.s, st)
    BY <1>12 DEF Connect, Listen
  <2>3. Open' = Open /\ Changed(call.s)
    BY <2>1, <2>2, StateStep DEF States
  <2> QED BY <1>12, <2>1, <2>3, GivenStep DEF Connect, Listen
<1>13. CASE ConnectFails
  <2>1. call.fn \in SocketFns /\ Opened
    BY <1>0, <1>13 DEF ConnectFails, CallInv, Opened, Holding
  <2>2. CASE ReturnError
    BY <1>0, <1>13, <2>1, <2>2, ReturnType, ClosedStep DEF ConnectFails, ReturnError
  <2>3. CASE GoOn([call EXCEPT !.pc = "socket", !.s = ANET_ERR])
    <3>1. /\ call' \in Frame /\ call'.fn = call.fn /\ call'.pc = "socket"
          /\ UNCHANGED <<owned, lists>>
      BY <1>0, <2>3 DEF Frame, Places, GoOn
    <3>2. CallInv' /\ ~Opened'
      BY <2>1, <3>1, Functions DEF CallInv, Opened, Holding
    <3> QED BY <1>0, <1>13, <2>1, <3>1, <3>2, Functions, ClosedStep DEF ConnectFails, NetType
  <2> QED BY <1>13, <2>2, <2>3 DEF ConnectFails
<1>14. CASE ListenFails
  <2>1. call.fn \in SocketFns /\ Opened
    BY <1>0, <1>14 DEF ListenFails, CallInv, Opened, Holding
  <2> QED BY <1>0, <1>14, <2>1, ReturnType, ClosedStep DEF ListenFails, ReturnError
<1>15. CASE Bind
  <2>1. call.fn \in SocketFns /\ Opened /\ call.s \in Open
    BY <1>0, <1>15 DEF Bind, CallInv, Opened, Holding, HeldInv, Held
  <2>2. Open' = Open /\ Changed(call.s)
    BY <1>15, <2>1, StateStep DEF Bind, States
  <2>3. /\ call' \in Frame /\ call'.fn = call.fn /\ call'.pc = "listen" /\ call'.s = call.s
        /\ UNCHANGED <<owned, lists, failed>>
    BY <1>0, <1>15 DEF Bind, Frame, Places, Holding, GoOn
  <2>4. CallInv' /\ Opened'
    BY <2>1, <2>3, Functions DEF CallInv, Opened, Holding
  <2> QED BY <2>1, <2>2, <2>3, <2>4, HeldStep
<1>16. CASE Accept
  <2>1. /\ call.fn \in {"anetTcpAccept", "anetUnixAccept"} /\ ~Opened /\ Held = {}
        /\ failed' = failed
    BY <1>0, <1>16, Functions DEF Accept, CallInv, Opened, Held, Holding
  <2>2. CASE ReturnError /\ UNCHANGED kernel
    BY <1>16, <2>1, <2>2, ReturnStep DEF ReturnError
  <2>3. CASE \E fd \in Fd \ Open :
               /\ kernel' = [kernel EXCEPT ![fd] = [state |-> "connected", opts |-> {}]]
               /\ ReturnFd(fd, TRUE)
    <3>1. PICK fd \in Fd \ Open :
            /\ kernel' = [kernel EXCEPT ![fd] = [state |-> "connected", opts |-> {}]]
            /\ Return(fd, TRUE)
            /\ owned' = owned \union {fd}
      BY <2>3 DEF ReturnFd
    <3>2. /\ call' \in Frame /\ CallInv' /\ lists' \subseteq {"bservinfo"} /\ ~Opened'
          /\ Held' = {} /\ call'.fn \notin DOMAIN CallerOptions
      BY <1>0, <3>1, ReturnType
    <3>3. Open' = Open \union {fd} /\ Changed(fd)
      BY <3>1, NewStep DEF States
    <3>4. NetType' /\ HeldInv'
      BY <1>0, <3>1, <3>2, <3>3 DEF NetType, HeldInv, Changed
    <3>5. /\ Forgotten' = Forgotten /\ Forgotten \subseteq Fd /\ fd \notin Forgotten
          /\ owned' \subseteq Open'
      BY <2>1, <3>1, <3>2, <3>3 DEF Forgotten, Open, NetIInv, ForgottenInv
    <3>6. ForgottenInv'
      BY <2>1, <3>3, <3>5, NothingForgotten DEF NetIInv, Changed
    <3> QED BY <3>2, <3>3, <3>4, <3>6 DEF NetIInv, Changed
  <2> QED BY <1>16, <2>2, <2>3 DEF Accept
<1> QED
  BY <1>1, <1>2, <1>3, <1>4, <1>5, <1>6, <1>7, <1>8, <1>9, <1>10, <1>11, <1>12, <1>13, <1>14,
     <1>15, <1>16 DEF Steps

LEMMA NetNext == NetIInv /\ [Next]_vars => NetIInv'
<1> SUFFICES ASSUME NetIInv, [Next]_vars PROVE NetIInv'
  OBVIOUS
<1>1. CASE Starts \/ Steps
  BY <1>1, NetStarts, NetSteps
<1>2. CASE ListenToPort
  <2> DEFINE frame == [Idle EXCEPT !.fn = "anetTcpServer", !.pc = "resolve"]
  <2>1. "anetTcpServer" \in SocketFns
    BY DEF SocketFns, TcpServer
  <2>2. frame \in Frame /\ frame.fn = "anetTcpServer" /\ frame.pc = "resolve"
    BY <2>1, FrameTypes DEF Idle
  <2>3. Begin(frame)
    BY <1>2 DEF ListenToPort
  <2>4. frame.fn \notin DOMAIN CallerOptions /\ frame.pc \notin {"option"} \union Holding
    BY <2>1, <2>2, Functions DEF Holding
  <2> HIDE DEF frame
  <2> QED BY <2>1, <2>2, <2>3, <2>4, BeginStep
<1>3. CASE CreateEventLoop
  <2>1. CASE \E fd \in Fd \ Open :
               /\ kernel' = [kernel EXCEPT ![fd] = [state |-> "epoll", opts |-> {}]]
               /\ owned' = owned \union {fd}
    <3>1. PICK fd \in Fd \ Open :
            /\ kernel' = [kernel EXCEPT ![fd] = [state |-> "epoll", opts |-> {}]]
            /\ owned' = owned \union {fd}
      BY <2>1
    <3>2. Open' = Open \union {fd} /\ Changed(fd)
      BY <3>1, NewStep DEF States
    <3>3. UNCHANGED <<lists, call, failed>>
      BY <1>3 DEF CreateEventLoop
    <3>4. NetType' /\ CallInv' /\ Held' = Held /\ (Opened' <=> Opened)
      BY <3>1, <3>2, <3>3 DEF NetIInv, NetType, CallInv, Held, Opened, Changed
    <3>5. Held \subseteq Open /\ fd \notin Held
      BY DEF NetIInv, HeldInv
    <3>6. HeldInv'
      BY <3>1, <3>2, <3>3, <3>4, <3>5 DEF HeldInv, NetIInv, Changed, Held, Open
    <3>7. /\ Forgotten' = Forgotten /\ Forgotten \subseteq Fd /\ fd \notin Forgotten
          /\ owned' \subseteq Open'
      BY <3>1, <3>2, <3>4, <3>5 DEF Forgotten, Open, NetIInv, ForgottenInv
    <3>8. ForgottenInv'
      BY <3>2, <3>3, <3>7, NothingForgotten DEF NetIInv, Changed
    <3> QED BY <3>2, <3>4, <3>6, <3>8 DEF NetIInv, Changed
  <2>2. CASE UNCHANGED <<kernel, owned>>
    <3>1. UNCHANGED <<kernel, owned, lists, call, failed>>
      BY <1>3, <2>2 DEF CreateEventLoop
    <3> QED BY <3>1 DEF NetIInv, NetType, CallInv, HeldInv, OpenInv, ForgottenInv, Forgotten,
                        Held, Opened, Open
  <2> QED BY <1>3, <2>1, <2>2 DEF CreateEventLoop
<1>4. CASE UNCHANGED <<kernel, owned, lists, call, failed>>
  BY <1>4 DEF NetIInv, NetType, CallInv, HeldInv, OpenInv, ForgottenInv, Forgotten, Held,
              Opened, Open
<1> QED
  BY <1>1, <1>2, <1>3, <1>4
  DEF Next, Boots, Serves, vars, netVars, GetLimit, RaiseLimit, RaiseFails, RaiseEnds, Adjust,
      ListenReturns, Register, BioInit, unchangedButLimit

\* Between two calls nothing that is open is lost but what a function forgets when an option
\* cannot be set (anet.c:368 and 484), whatever fails, in every order of calls; and no list
\* of addresses is kept but that of a source address (298).
THEOREM NothingLost == Spec => []LeakInv
<1>1. Init => NetIInv
  BY NetInitial DEF Init
<1> QED BY <1>1, NetNext, NetImplies, PTL DEF Spec
-------------------------------------------------------------------------------
(* What a returned descriptor is good for. *)

\* The options a function asks for its socket.
Wanted(fn) == Elems(SocketOptions(fn))

LEMMA WantedFacts ==
  ASSUME NEW fn \in SocketFns
  PROVE  /\ "REUSEADDR" \in Wanted(fn)
         /\ fn \in NonBlocking => "NONBLOCK" \in Wanted(fn)
         /\ fn = "anetTcp6Server" => "V6ONLY" \in Wanted(fn)
<1> DEFINE v6 == IF fn = "anetTcp6Server" THEN <<"V6ONLY">> ELSE <<>>
           reuse == <<"REUSEADDR">>
           block == IF fn \in NonBlocking THEN <<"NONBLOCK">> ELSE <<>>
<1>1. {v6, reuse, block} \subseteq Seq(Options)
  <2>1. <<"V6ONLY">> \in Seq(Options) /\ reuse \in Seq(Options) /\ <<"NONBLOCK">> \in Seq(Options)
    BY DEF Options
  <2>2. <<>> \in Seq(Options)
    OBVIOUS
  <2> QED BY <2>1, <2>2
<1>2. /\ "REUSEADDR" \in Elems(reuse)
      /\ fn \in NonBlocking => "NONBLOCK" \in Elems(block)
      /\ fn = "anetTcp6Server" => "V6ONLY" \in Elems(v6)
  BY DEF Elems
<1>3. SocketOptions(fn) = (v6 \o reuse) \o block
  BY DEF SocketOptions
<1> HIDE DEF v6, reuse, block
<1>4. Elems(v6 \o reuse) = Elems(v6) \union Elems(reuse) /\ v6 \o reuse \in Seq(Options)
  BY <1>1, ConcatElems
<1>5. \A front \in Seq(Options) : Elems(front \o block) = Elems(front) \union Elems(block)
  BY <1>1, ConcatElems
<1> QED BY <1>2, <1>3, <1>4, <1>5 DEF Wanted

\* Which functions come to which places, and that a name is resolved before any address is
\* tried.
PlaceInv ==
  /\ call.pc = "resolve" => call.left = 0
  /\ call.pc \in {"source", "bindsource"} => call.fn \in TcpConnect
  /\ call.pc = "connect" => call.fn \in TcpConnect \union UnixConnect
  /\ call.pc \in {"bind", "listen"} => call.fn \in TcpServer \union {"anetUnixServer"}

\* An option that was asked for is set on the socket or still to be set; behind the options
\* all are set.
WantedInv ==
  call.fn \in SocketFns =>
    /\ call.pc = "option" => Wanted(call.fn) \subseteq kernel[call.s].opts \union Elems(call.todo)
    /\ call.pc \in Holding => Wanted(call.fn) \subseteq kernel[call.s].opts

UseInv == PlaceInv /\ WantedInv /\ ReturnInv

\* What was returned stays what it was as long as no state changes and no option is taken
\* back but the one that is never asked for (anetDisableTcpNoDelay).
LEMMA ResultKept ==
  ASSUME ReturnInv, result' = result, owned \subseteq owned', failed \subseteq failed',
         \A fd \in owned : /\ kernel'[fd].state = kernel[fd].state
                           /\ kernel[fd].opts \ {"NODELAY"} \subseteq kernel'[fd].opts
  PROVE  ReturnInv'
BY DEF ReturnInv, Usable

LEMMA OthersKept ==
  ASSUME NetIInv, ReturnInv, result' = result, owned \subseteq owned', failed \subseteq failed',
         NEW fd \in Fd \ owned, NEW r, kernel' = [kernel EXCEPT ![fd] = r]
  PROVE  ReturnInv'
<1>1. \A g \in owned : kernel'[g] = kernel[g]
  BY DEF NetIInv, NetType
<1> QED BY <1>1, ResultKept

\* A function that returns.
LEMMA Returned ==
  ASSUME NetType, NEW v, NEW b, Return(v, b)
  PROVE  /\ PlaceInv' /\ WantedInv'
         /\ result' = [fn |-> call.fn, value |-> v, left |-> call.left, bound |-> b,
                       moved |-> call.moved]
<1>1. call'.fn = "none" /\ call'.pc = "idle"
  BY ReturnType
<1> QED BY <1>1, Functions DEF PlaceInv, WantedInv, Return, Holding

\* A function that returns no descriptor.
LEMMA ErrorReturned ==
  ASSUME NetType, ReturnError, call.fn \in SocketFns,
         call.fn \in TcpConnect /\ call.left > 0 => \E p \in failed' : p[1] = call.fn
  PROVE  UseInv'
<1>1. /\ PlaceInv' /\ WantedInv'
      /\ result' = [fn |-> call.fn, value |-> ANET_ERR, left |-> call.left, bound |-> TRUE,
                    moved |-> call.moved]
  BY Returned DEF ReturnError
<1>2. result'.fn = call.fn /\ result'.value = ANET_ERR /\ result'.left = call.left
  BY <1>1
<1> QED BY <1>1, <1>2, Functions DEF UseInv, ReturnInv

\* A function that returns its socket.
LEMMA SocketReturned ==
  ASSUME NetIInv, Opened, NEW fn, NEW fd, fn = call.fn, fd = call.s,
         NEW b \in BOOLEAN, ReturnFd(fd, b), b => Usable(fn, fd)'
  PROVE  UseInv'
<1>1. /\ PlaceInv' /\ WantedInv'
      /\ result' = [fn |-> call.fn, value |-> call.s, left |-> call.left, bound |-> b,
                    moved |-> call.moved]
      /\ call.s \in owned'
  BY Returned DEF ReturnFd, NetIInv
<1>2. result'.fn = fn /\ result'.value = fd /\ result'.bound = b /\ fn \in SocketFns
  BY <1>1 DEF Opened
<1>3. fd # ANET_ERR
  BY NetAssumption DEF NetIInv, HeldInv, Held, Open
<1> QED BY <1>1, <1>2, <1>3, Functions DEF UseInv, ReturnInv

\* One that opens no socket.
LEMMA OtherReturned ==
  ASSUME NetType, NEW v, Return(v, TRUE), call.fn \notin SocketFns,
         call.fn \in {"anetRead", "anetWrite"} => v \in {ANET_ERR, call.moved}
  PROVE  UseInv'
<1>1. /\ PlaceInv' /\ WantedInv'
      /\ result' = [fn |-> call.fn, value |-> v, left |-> call.left, bound |-> TRUE,
                    moved |-> call.moved]
  BY Returned
<1>2. result'.fn = call.fn /\ result'.value = v /\ result'.moved = call.moved
  BY <1>1
<1> QED BY <1>1, <1>2 DEF UseInv, ReturnInv, SocketFns

\* A call begins with no socket of its own.
LEMMA Begun ==
  ASSUME NetIInv, UseInv, NEW frame \in Frame, Begin(frame), frame.pc \notin Holding,
         frame.pc = "resolve" => frame.left = 0,
         frame.fn \in SocketFns => frame.pc # "option"
  PROVE  UseInv'
<1>1. PlaceInv' /\ WantedInv'
  BY DEF Begin, PlaceInv, WantedInv, Holding
<1>2. ReturnInv'
  BY ResultKept DEF Begin, UseInv
<1> QED BY <1>1, <1>2 DEF UseInv

LEMMA UseStarts ==
  ASSUME NetIInv, UseInv, Starts
  PROVE  UseInv'
<1>1. CASE StartTcp
  <2>1. PICK fn \in TcpConnect \union TcpServer : Begin([Idle EXCEPT !.fn = fn, !.pc = "resolve"])
    BY <1>1 DEF StartTcp
  <2> DEFINE frame == [Idle EXCEPT !.fn = fn, !.pc = "resolve"]
  <2>2. frame \in Frame /\ frame.pc = "resolve" /\ frame.left = 0
    BY FrameTypes DEF Idle, SocketFns
  <2> QED BY <2>1, <2>2, Begun DEF Holding
<1>2. CASE StartUnix
  <2>1. PICK fn \in UnixConnect \union {"anetUnixServer"} :
          Begin([Idle EXCEPT !.fn = fn, !.pc = "socket", !.left = 1])
    BY <1>2 DEF StartUnix
  <2> DEFINE frame == [Idle EXCEPT !.fn = fn, !.pc = "socket", !.left = 1]
  <2>2. frame \in Frame /\ frame.pc = "socket"
    BY FrameTypes DEF Idle, SocketFns
  <2> QED BY <2>1, <2>2, Begun DEF Holding
<1>3. CASE StartOption
  <2>1. PICK fn \in DOMAIN CallerOptions, fd \in owned :
          Begin([Idle EXCEPT !.fn = fn, !.pc = "option", !.s = fd, !.todo = CallerOptions[fn]])
    BY <1>3 DEF StartOption
  <2> DEFINE frame == [Idle EXCEPT !.fn = fn, !.pc = "option", !.s = fd, !.todo = CallerOptions[fn]]
  <2>2. fd \in Fd
    BY DEF NetIInv, NetType
  <2>3. frame \in Frame /\ frame.fn = fn /\ frame.pc = "option"
    BY <2>2, FrameTypes DEF Idle
  <2> QED BY <2>1, <2>3, Begun, Functions DEF Holding
<1>4. CASE StartAccept
  <2>1. PICK fn \in {"anetTcpAccept", "anetUnixAccept"}, fd \in owned :
          Begin([Idle EXCEPT !.fn = fn, !.pc = "accept", !.s = fd])
    BY <1>4 DEF StartAccept
  <2> DEFINE frame == [Idle EXCEPT !.fn = fn, !.pc = "accept", !.s = fd]
  <2>2. fd \in Fd
    BY DEF NetIInv, NetType
  <2>3. frame \in Frame /\ frame.pc = "accept"
    BY <2>2, FrameTypes DEF Idle
  <2> QED BY <2>1, <2>3, Begun DEF Holding
<1>5. CASE StartTransfer
  <2>1. PICK fn \in {"anetRead", "anetWrite"}, fd \in owned, n \in 1 .. MaxCount :
          Begin([Idle EXCEPT !.fn = fn, !.pc = "transfer", !.s = fd, !.count = n])
    BY <1>5 DEF StartTransfer
  <2> DEFINE frame == [Idle EXCEPT !.fn = fn, !.pc = "transfer", !.s = fd, !.count = n]
  <2>2. fd \in Fd /\ n \in Int
    BY DEF NetIInv, NetType
  <2>3. frame \in Frame /\ frame.pc = "transfer"
    BY <2>2, FrameTypes DEF Idle
  <2> QED BY <2>1, <2>3, Begun DEF Holding
<1>6. CASE CloseOwned \/ AskAddress \/ AskName
  <2>1. call' = call /\ call.fn = "none" /\ call.pc = "idle"
    BY <1>6, Functions DEF CloseOwned, AskAddress, AskName, Asked, NetIInv, CallInv
  <2>2. PlaceInv' /\ WantedInv'
    BY <2>1, Functions DEF PlaceInv, WantedInv
  <2>3. result'.fn \in {"none", "anetResolve", "anetPeerToString", "anetSockName"}
    <3>1. \/ result' = NoResult
          \/ \E fn \in {"anetResolve", "anetPeerToString", "anetSockName"}, v \in {0, ANET_ERR} :
               result' = [NoResult EXCEPT !.fn = fn, !.value = v]
      BY <1>6 DEF CloseOwned, AskAddress, AskName, Asked
    <3>2. \A fn, v : [NoResult EXCEPT !.fn = fn, !.value = v].fn = fn
      BY DEF NoResult
    <3>3. NoResult.fn = "none"
      BY DEF NoResult
    <3>4. ASSUME NEW fn \in {"anetResolve", "anetPeerToString", "anetSockName"},
                 NEW v \in {0, ANET_ERR}, result' = [NoResult EXCEPT !.fn = fn, !.value = v]
          PROVE  result'.fn = fn
      BY <3>2, <3>4 DEF NoResult
    <3>5. CASE result' = NoResult
      BY <3>3, <3>5
    <3>6. CASE \E fn \in {"anetResolve", "anetPeerToString", "anetSockName"}, v \in {0, ANET_ERR} :
                 result' = [NoResult EXCEPT !.fn = fn, !.value = v]
      BY <3>4, <3>6
    <3> QED BY <3>1, <3>5, <3>6
  <2>4. ReturnInv'
    BY <2>3 DEF ReturnInv, TcpConnect, UnixConnect, TcpServer
  <2> QED BY <2>2, <2>4 DEF UseInv
<1> QED BY <1>1, <1>2, <1>3, <1>4, <1>5, <1>6 DEF Starts

\* A step of a function that opens a socket, on nothing but what is still to be done.
LEMMA WentOn ==
  ASSUME NetIInv, UseInv, UNCHANGED <<kernel, owned, result, failed>>, PlaceInv', WantedInv'
  PROVE  UseInv'
BY ResultKept DEF UseInv

\* A step on the socket of the function.
LEMMA WentOnWith ==
  ASSUME NetIInv, UseInv, Opened, NEW r, kernel' = [kernel EXCEPT ![call.s] = r],
         UNCHANGED <<owned, result, failed>>, PlaceInv', WantedInv'
  PROVE  UseInv'
<1>1. call.s \in Fd \ owned
  BY DEF NetIInv, HeldInv, Held, Open
<1> QED BY <1>1, OthersKept DEF UseInv

\* A step on the socket of the function that changes its state alone.
LEMMA StateOf ==
  ASSUME NetType, NEW fd \in Fd, NEW st, kernel' = WithState(fd, st)
  PROVE  kernel'[fd].state = st /\ kernel'[fd].opts = kernel[fd].opts
BY DEF WithState, NetType, Descriptor

LEMMA StateKept ==
  ASSUME NetIInv, UseInv, Opened, NEW st, kernel' = WithState(call.s, st),
         call.pc \in Holding, call'.fn = call.fn, call'.s = call.s, call'.pc \in Holding,
         UNCHANGED <<owned, result, failed>>, PlaceInv'
  PROVE  UseInv'
<1>1. call.s \in Fd
  BY DEF NetIInv, HeldInv, Held, Open
<1>2. kernel'[call.s].opts = kernel[call.s].opts
  BY <1>1, StateOf DEF NetIInv
<1>3. WantedInv'
  BY <1>2 DEF UseInv, WantedInv, Holding
<1>4. \E r : kernel' = [kernel EXCEPT ![call.s] = r]
  BY DEF WithState
<1> QED BY <1>3, <1>4, WentOnWith

LEMMA UseSteps ==
  ASSUME NetIInv, UseInv, Steps
  PROVE  UseInv'
<1>0. /\ CallInv /\ NetType /\ HeldInv /\ call \in Frame
      /\ PlaceInv /\ WantedInv /\ ReturnInv
  BY DEF NetIInv, NetType, UseInv
<1>1. CASE Resolve
  <2>1. call.fn \in SocketFns /\ call.pc = "resolve" /\ call.left = 0
    BY <1>0, <1>1 DEF Resolve, CallInv, PlaceInv, Holding
  <2>2. CASE ReturnError
    BY <1>0, <2>1, <2>2, ErrorReturned
  <2>3. CASE \E n \in 1 .. MaxAddrs : /\ call' = [call EXCEPT !.pc = "socket", !.left = n]
                                      /\ lists' = lists \union {"servinfo"}
                                      /\ UNCHANGED <<owned, result>>
    <3>1. call'.pc = "socket"
      BY <1>0, <2>3 DEF Frame
    <3> QED BY <1>1, <2>3, <3>1, WentOn DEF Resolve, PlaceInv, WantedInv, Holding
  <2> QED BY <1>1, <2>2, <2>3 DEF Resolve
<1>2. CASE SocketFails
  <2>1. call.fn \in SocketFns /\ call.pc = "socket"
    BY <1>0, <1>2 DEF SocketFails, CallInv, Holding
  <2>2. CASE call.fn \in TcpConnect \union TcpServer
    <3>1. call'.pc = "socket" /\ UNCHANGED <<kernel, owned, result, failed>>
      BY <1>0, <1>2, <2>1, <2>2 DEF SocketFails, GoOn, Frame
    <3> QED BY <3>1, WentOn DEF PlaceInv, WantedInv, Holding
  <2>3. CASE call.fn \notin TcpConnect \union TcpServer
    BY <1>0, <1>2, <2>1, <2>3, ErrorReturned DEF SocketFails
  <2> QED BY <2>2, <2>3
<1>3. CASE NoAddressLeft
  <2>1. call.fn \in SocketFns /\ call.left = 0
    BY <1>0, <1>3 DEF NoAddressLeft, CallInv, Holding
  <2> QED BY <1>0, <1>3, <2>1, ErrorReturned DEF NoAddressLeft
<1>4. CASE Socket
  <2>1. PICK fd \in Fd \ Open :
          /\ kernel' = [kernel EXCEPT ![fd] = [state |-> "new", opts |-> {}]]
          /\ GoOn([call EXCEPT !.pc = "option", !.s = fd, !.left = @ - 1,
                               !.todo = SocketOptions(call.fn)])
    BY <1>4 DEF Socket
  <2>2. /\ call'.pc = "option" /\ call'.fn = call.fn /\ call'.todo = SocketOptions(call.fn)
        /\ UNCHANGED <<owned, result, failed>>
    BY <1>0, <1>4, <2>1 DEF Socket, GoOn, Frame
  <2>3. PlaceInv' /\ WantedInv'
    BY <2>2 DEF PlaceInv, WantedInv, Wanted, Holding
  <2>4. fd \in Fd \ owned
    BY DEF NetIInv, ForgottenInv
  <2> QED BY <1>0, <2>1, <2>2, <2>3, <2>4, OthersKept DEF UseInv
<1>5. CASE SetOption
  <2> DEFINE opts == IF call.fn = "anetDisableTcpNoDelay" THEN kernel[call.s].opts \ {"NODELAY"}
                     ELSE kernel[call.s].opts \union {Head(call.todo)}
             r == [kernel[call.s] EXCEPT !.opts = opts]
  <2>1. /\ kernel' = [kernel EXCEPT ![call.s] = r]
        /\ call' = [call EXCEPT !.todo = Tail(@)]
        /\ call.pc = "option" /\ call.todo # <<>>
        /\ UNCHANGED <<owned, result, failed>>
    BY <1>5 DEF SetOption, GoOn
  <2>2. /\ call'.pc = "option" /\ call'.fn = call.fn /\ call'.s = call.s
        /\ call'.todo = Tail(call.todo)
    BY <1>0, <2>1 DEF Frame
  <2>3. call.s \in Fd
    BY <1>0, <2>1, Functions DEF CallInv, Holding, HeldInv, Held, Opened, Open, NetType
  <2>4. r.opts = opts /\ r.state = kernel[call.s].state
    BY <1>0, <2>3 DEF NetType, Descriptor
  <2>5. kernel'[call.s] = r /\ \A g \in Fd : g # call.s => kernel'[g] = kernel[g]
    BY <1>0, <2>1, <2>3 DEF NetType
  <2>6. kernel[call.s].opts \ {"NODELAY"} \subseteq opts
    OBVIOUS
  <2>7. call.fn \in SocketFns => kernel[call.s].opts \union {Head(call.todo)} \subseteq opts
    BY Functions DEF CallerOptions
  <2> HIDE DEF opts, r
  <2>8. ReturnInv'
    <3>1. \A fd \in owned : /\ kernel'[fd].state = kernel[fd].state
                            /\ kernel[fd].opts \ {"NODELAY"} \subseteq kernel'[fd].opts
      BY <1>0, <2>4, <2>5, <2>6 DEF NetType
    <3> QED BY <1>0, <2>1, <3>1, ResultKept
  <2>9. PlaceInv'
    BY <2>2 DEF PlaceInv
  <2>10. WantedInv'
    <3> SUFFICES ASSUME call.fn \in SocketFns PROVE WantedInv'
      BY <2>2 DEF WantedInv
    <3>1. Elems(call.todo) \ {Head(call.todo)} \subseteq Elems(Tail(call.todo))
      BY <1>0, <2>1, TailFacts DEF Frame
    <3>2. kernel'[call'.s].opts = opts
      BY <2>2, <2>4, <2>5
    <3>3. Wanted(call.fn) \subseteq kernel[call.s].opts \union Elems(call.todo)
      BY <1>0, <2>1 DEF WantedInv
    <3>4. Wanted(call.fn) \subseteq opts \union Elems(Tail(call.todo))
      BY <2>7, <3>1, <3>3
    <3> QED BY <2>2, <3>2, <3>4 DEF WantedInv, Wanted, Holding
  <2> QED BY <2>8, <2>9, <2>10 DEF UseInv
<1>6. CASE OptionsSet
  <2>1. CASE call.fn \in DOMAIN CallerOptions
    <3>1. call.fn \notin SocketFns /\ call.fn \notin {"anetRead", "anetWrite"}
      BY <2>1, Functions
    <3> QED BY <1>0, <1>6, <2>1, <3>1, OtherReturned DEF OptionsSet
  <2>2. CASE call.fn \notin DOMAIN CallerOptions
    <3>1. call.fn \in SocketFns /\ call.pc = "option" /\ call.todo = <<>>
      BY <1>0, <1>6, <2>2 DEF OptionsSet, CallInv, Holding
    <3>2. AfterOptions(call.fn) \in Holding
      BY <3>1, Functions
    <3>3. /\ call'.pc = AfterOptions(call.fn) /\ call'.fn = call.fn /\ call'.s = call.s
          /\ UNCHANGED <<kernel, owned, result, failed>>
      BY <1>0, <1>6, <2>2 DEF OptionsSet, GoOn, Frame
    <3>4. Elems(call.todo) = {}
      BY <3>1 DEF Elems
    <3>5. WantedInv'
      BY <1>0, <3>1, <3>2, <3>3, <3>4 DEF WantedInv, Wanted, Holding
    <3>6. PlaceInv'
      BY <3>1, <3>3 DEF PlaceInv, AfterOptions, SocketFns, TcpConnect, UnixConnect, TcpServer
    <3> QED BY <3>3, <3>5, <3>6, WentOn
  <2> QED BY <2>1, <2>2
<1>7. CASE OptionFails
  <2>1. CASE call.fn \in SocketFns
    <3> DEFINE p == <<call.fn, Head(call.todo)>>
    <3>1. p \in failed' /\ p[1] = call.fn
      BY <1>7 DEF OptionFails
    <3> HIDE DEF p
    <3> QED BY <1>0, <1>7, <2>1, <3>1, ErrorReturned DEF OptionFails
  <2>2. CASE call.fn \notin SocketFns
    <3>1. call.fn \notin {"anetRead", "anetWrite"}
      BY <1>0, <1>7, <2>2, Functions DEF OptionFails, CallInv
    <3> QED BY <1>0, <1>7, <2>2, <3>1, OtherReturned DEF OptionFails, ReturnError
  <2> QED BY <2>1, <2>2
<1>8. CASE ResolveSource
  <2>1. /\ call'.pc = "bindsource" /\ call'.fn = call.fn /\ call'.s = call.s
        /\ call.pc = "source"
        /\ UNCHANGED <<kernel, owned, result, failed>>
    BY <1>0, <1>8 DEF ResolveSource, Frame
  <2> QED BY <1>0, <2>1, WentOn DEF PlaceInv, WantedInv, Wanted, Holding
<1>9. CASE BindSource
  <2>1. call.fn \in SocketFns /\ call.pc = "bindsource" /\ Opened
    BY <1>0, <1>9 DEF BindSource, CallInv, Opened, Holding
  <2>2. CASE kernel' = WithState(call.s, "bound") /\ GoOn([call EXCEPT !.pc = "connect"])
    <3>1. /\ call'.pc = "connect" /\ call'.fn = call.fn /\ call'.s = call.s
          /\ UNCHANGED <<owned, result, failed>>
      BY <1>0, <1>9, <2>2 DEF BindSource, GoOn, Frame
    <3>2. PlaceInv'
      BY <1>0, <2>1, <3>1 DEF PlaceInv
    <3> QED BY <1>0, <2>1, <2>2, <3>1, <3>2, StateKept DEF Holding
  <2>3. CASE GoOn([call EXCEPT !.sources = @ - 1]) /\ UNCHANGED kernel
    <3>1. /\ call'.pc = call.pc /\ call'.fn = call.fn /\ call'.s = call.s
          /\ UNCHANGED <<kernel, owned, result, failed>>
      BY <1>0, <1>9, <2>3 DEF BindSource, GoOn, Frame
    <3> QED BY <1>0, <2>1, <3>1, WentOn DEF PlaceInv, WantedInv, Holding
  <2> QED BY <1>9, <2>2, <2>3 DEF BindSource
<1>10. CASE SourceFails
  <2>1. Opened
    BY <1>0, <1>10 DEF SourceFails, CallInv, Opened, Holding
  <2>2. PICK fn, fd : fn = call.fn /\ fd = call.s
    OBVIOUS
  <2> QED BY <1>10, <2>1, <2>2, SocketReturned DEF SourceFails
<1>11. CASE Connect
  <2>1. /\ call.fn \in SocketFns /\ Opened /\ call.pc = "connect" /\ call.s \in Fd
        /\ call.fn \in TcpConnect \union UnixConnect
    BY <1>0, <1>11 DEF Connect, CallInv, Opened, Holding, PlaceInv, HeldInv, Held, Open
  <2>2. PICK fn, fd : fn = call.fn /\ fd = call.s
    OBVIOUS
  <2>3. PICK st \in {"connected", "connecting"} :
          kernel' = WithState(call.s, st) /\ (st = "connecting" => call.fn \in NonBlocking)
    BY <1>11 DEF Connect
  <2>4. kernel'[fd].state = st /\ kernel'[fd].opts = kernel[fd].opts
    BY <1>0, <2>1, <2>2, <2>3, StateOf
  <2>5. fn \in NonBlocking => "NONBLOCK" \in kernel'[fd].opts
    BY <1>0, <2>1, <2>2, <2>4, WantedFacts DEF WantedInv, Holding
  <2>6. fn \notin TcpServer \union {"anetUnixServer"}
    BY <2>1, <2>2 DEF TcpConnect, UnixConnect, TcpServer
  <2>7. Usable(fn, fd)'
    BY <2>2, <2>3, <2>4, <2>5, <2>6 DEF Usable
  <2> QED BY <1>11, <2>1, <2>2, <2>7, SocketReturned DEF Connect
<1>12. CASE ConnectFails
  <2>1. call.fn \in SocketFns /\ Opened
    BY <1>0, <1>12 DEF ConnectFails, CallInv, Opened, Holding
  <2>2. CASE call.fn \notin TcpConnect
    BY <1>0, <1>12, <2>1, <2>2, ErrorReturned DEF ConnectFails
  <2>3. CASE call.fn \in TcpConnect
    <3>1. call'.pc = "socket" /\ UNCHANGED <<owned, result, failed>>
      BY <1>0, <1>12, <2>3 DEF ConnectFails, GoOn, Frame
    <3>2. kernel' = [kernel EXCEPT ![call.s] = Shut]
      BY <1>12 DEF ConnectFails, Closed
    <3>3. PlaceInv' /\ WantedInv'
      BY <3>1 DEF PlaceInv, WantedInv, Holding
    <3> QED BY <2>1, <3>1, <3>2, <3>3, WentOnWith
  <2> QED BY <2>2, <2>3
<1>13. CASE ListenFails
  <2>1. call.fn \in SocketFns /\ call.fn \notin TcpConnect
    BY <1>0, <1>13 DEF ListenFails, PlaceInv, SocketFns, TcpConnect, TcpServer
  <2> QED BY <1>0, <1>13, <2>1, ErrorReturned DEF ListenFails
<1>14. CASE Bind
  <2>1. call.fn \in SocketFns /\ call.pc = "bind" /\ Opened
    BY <1>0, <1>14 DEF Bind, CallInv, Opened, Holding
  <2>2. /\ call'.pc = "listen" /\ call'.fn = call.fn /\ call'.s = call.s
        /\ UNCHANGED <<owned, result, failed>>
    BY <1>0, <1>14 DEF Bind, GoOn, Frame
  <2>3. PlaceInv'
    BY <1>0, <2>1, <2>2 DEF PlaceInv
  <2> QED BY <1>0, <1>14, <2>1, <2>2, <2>3, StateKept DEF Bind, Holding
<1>15. CASE Listen
  <2>1. /\ call.fn \in SocketFns /\ Opened /\ call.pc = "listen" /\ call.s \in Fd
        /\ call.fn \in TcpServer \union {"anetUnixServer"}
    BY <1>0, <1>15 DEF Listen, CallInv, Opened, Holding, PlaceInv, HeldInv, Held, Open
  <2>2. PICK fn, fd : fn = call.fn /\ fd = call.s
    OBVIOUS
  <2>3. kernel' = WithState(call.s, "listening")
    BY <1>15 DEF Listen
  <2>4. kernel'[fd].state = "listening" /\ kernel'[fd].opts = kernel[fd].opts
    BY <1>0, <2>1, <2>2, <2>3, StateOf
  <2>5. "REUSEADDR" \in kernel'[fd].opts /\ (fn = "anetTcp6Server" => "V6ONLY" \in kernel'[fd].opts)
    BY <1>0, <2>1, <2>2, <2>4, WantedFacts DEF WantedInv, Holding
  <2>6. fn \notin TcpConnect \union UnixConnect
    BY <2>1, <2>2 DEF TcpConnect, UnixConnect, TcpServer
  <2>7. Usable(fn, fd)'
    BY <2>2, <2>4, <2>5, <2>6 DEF Usable
  <2> QED BY <1>15, <2>1, <2>2, <2>7, SocketReturned DEF Listen
<1>16. CASE Accept
  <2>1. call.fn \notin SocketFns /\ call.fn \notin {"anetRead", "anetWrite"}
    BY <1>0, <1>16, Functions DEF Accept, CallInv, Holding
  <2>2. \E v : Return(v, TRUE)
    BY <1>16 DEF Accept, ReturnFd, ReturnError
  <2> QED BY <1>0, <2>1, <2>2, OtherReturned
<1>17. CASE Transfer
  <2>1. call.fn \in {"anetRead", "anetWrite"} /\ call.fn \notin SocketFns
    BY <1>0, <1>17, Functions DEF Transfer, CallInv, Holding
  <2>2. CASE \E v \in {ANET_ERR, call.moved} : Return(v, TRUE)
    BY <1>0, <2>1, <2>2, OtherReturned
  <2>3. CASE \E n \in 1 .. call.count - call.moved : GoOn([call EXCEPT !.moved = @ + n])
    <3>1. /\ call'.fn = call.fn /\ call'.pc = "transfer"
          /\ UNCHANGED <<kernel, owned, result, failed>>
      BY <1>0, <1>17, <2>3 DEF Transfer, GoOn, Frame
    <3> QED BY <2>1, <3>1, WentOn DEF PlaceInv, WantedInv
  <2> QED BY <1>17, <2>2, <2>3 DEF Transfer
<1> QED
  BY <1>1, <1>2, <1>3, <1>4, <1>5, <1>6, <1>7, <1>8, <1>9, <1>10, <1>11, <1>12, <1>13, <1>14,
     <1>15, <1>16, <1>17 DEF Steps

LEMMA UseNext == NetIInv /\ UseInv /\ [Next]_vars => UseInv'
<1> SUFFICES ASSUME NetIInv, UseInv, [Next]_vars PROVE UseInv'
  OBVIOUS
<1>1. CASE Starts \/ Steps
  BY <1>1, UseStarts, UseSteps
<1>2. CASE ListenToPort
  <2> DEFINE frame == [Idle EXCEPT !.fn = "anetTcpServer", !.pc = "resolve"]
  <2>1. frame \in Frame /\ frame.pc = "resolve" /\ frame.left = 0
    BY FrameTypes DEF Idle, SocketFns, TcpServer
  <2> QED BY <1>2, <2>1, Begun DEF ListenToPort, Holding
<1>3. CASE CreateEventLoop
  <2>1. UNCHANGED <<call, result, failed>>
    BY <1>3 DEF CreateEventLoop
  <2>2. CASE UNCHANGED <<kernel, owned>>
    BY <2>1, <2>2 DEF UseInv, PlaceInv, WantedInv, ReturnInv, Usable
  <2>3. CASE \E fd \in Fd \ Open :
               /\ kernel' = [kernel EXCEPT ![fd] = [state |-> "epoll", opts |-> {}]]
               /\ owned' = owned \union {fd}
    <3>1. PICK fd \in Fd \ Open :
            /\ kernel' = [kernel EXCEPT ![fd] = [state |-> "epoll", opts |-> {}]]
            /\ owned' = owned \union {fd}
      BY <2>3
    <3>2. fd \in Fd \ owned
      BY DEF NetIInv, ForgottenInv
    <3>3. ReturnInv'
      BY <2>1, <3>1, <3>2, OthersKept DEF UseInv
    <3>4. Opened => kernel'[call.s] = kernel[call.s]
      BY <3>1 DEF NetIInv, NetType, HeldInv, Held, Open
    <3>5. PlaceInv' /\ WantedInv'
      BY <2>1, <3>4 DEF UseInv, PlaceInv, WantedInv, Opened
    <3> QED BY <3>3, <3>5 DEF UseInv
  <2> QED BY <1>3, <2>2, <2>3 DEF CreateEventLoop
<1>4. CASE UNCHANGED <<kernel, owned, call, result, failed>>
  BY <1>4 DEF UseInv, PlaceInv, WantedInv, ReturnInv, Usable
<1> QED
  BY <1>1, <1>2, <1>3, <1>4
  DEF Next, Boots, Serves, vars, netVars, GetLimit, RaiseLimit, RaiseFails, RaiseEnds, Adjust,
      ListenReturns, Register, BioInit, unchangedButLimit

\* Whatever system calls fail: a descriptor that a function returned as a success is the
\* caller's, connected or listening with the options that were asked for (unless its source
\* address could not be bound, anet.c:296 and 306), a connection is given up only when all
\* addresses were tried or an option failed, and a transfer says how much it moved.
THEOREM ResultUsable == Spec => []ReturnInv
<1>1. Init => NetIInv
  BY NetInitial DEF Init
<1>2. Init => UseInv
  <2> SUFFICES ASSUME NetInit PROVE UseInv
    BY DEF Init
  <2>1. call.fn = "none" /\ call.pc = "idle" /\ result.fn = "none"
    BY DEF NetInit, Idle, NoResult
  <2>2. PlaceInv /\ WantedInv
    BY <2>1, Functions DEF PlaceInv, WantedInv
  <2>3. ReturnInv
    BY <2>1 DEF ReturnInv, TcpConnect, UnixConnect, TcpServer
  <2> QED BY <2>2, <2>3 DEF UseInv
<1>3. UseInv => ReturnInv
  BY DEF UseInv
<1> QED BY <1>1, <1>2, <1>3, NetNext, UseNext, PTL DEF Spec
==============================================================================
