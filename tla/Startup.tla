-------------------------------- MODULE Startup --------------------------------
(***************************************************************************)
(* The start of the middleware server (initServerConfig and                *)
(* adjustOpenFilesLimit of middleware_server.c) on top of the socket       *)
(* layer, and what the server may call of that layer afterwards.  The      *)
(* repository has no listenToPort: here it opens one listening socket, as  *)
(* main does.                                                              *)
(***************************************************************************)
EXTENDS Anet

CONSTANTS
  REDIS_MIN_RESERVED_FDS,       (* 32                                              *)
  REDIS_EVENTLOOP_FDSET_INCR,   (* REDIS_MIN_RESERVED_FDS + 96                     *)
  DECR_STEP,                    (* 16                                              *)
  ASSUMED_LIMIT,                (* 1024                                            *)
  MaxClients,                   (* bound: the maxclients the server is asked for   *)
  MaxFiles                      (* bound: the limits it may find                   *)

ASSUME StartupAssumption ==
  /\ {REDIS_MIN_RESERVED_FDS, REDIS_EVENTLOOP_FDSET_INCR, DECR_STEP, ASSUMED_LIMIT,
      MaxClients, MaxFiles} \subseteq Nat
  /\ REDIS_MIN_RESERVED_FDS <= REDIS_EVENTLOOP_FDSET_INCR
  /\ 0 < DECR_STEP /\ DECR_STEP <= REDIS_MIN_RESERVED_FDS
  /\ REDIS_MIN_RESERVED_FDS < ASSUMED_LIMIT

VARIABLES
  boot,        (* where initServerConfig stands                               *)
  requested,   (* server.maxclients at the start: 0, as nothing sets it, and
                  whatever a configuration will say                           *)
  maxclients,  (* server.maxclients                                           *)
  f,           (* the limit to be tried next                                  *)
  assumed,     (* history: the limit could not be read                        *)
  setsize,     (* of server.el                                                *)
  ipfd,        (* the listening sockets                                       *)
  registered   (* the descriptors with a handler                              *)
bootVars == <<requested, maxclients, f, assumed, setsize, ipfd, registered>>
vars == <<netVars, boot, bootVars>>

maxfiles == requested + REDIS_MIN_RESERVED_FDS
unchangedButLimit == UNCHANGED <<kernel, owned, lists, call, result, failed, calls>>

Init ==
  /\ NetInit
  /\ boot = "limit"
  /\ requested \in 0 .. MaxClients
  /\ maxclients = requested
  /\ limit \in 0 .. MaxFiles
  /\ f = 0
  /\ assumed = FALSE
  /\ setsize = 0
  /\ ipfd = {}
  /\ registered = {}

-------------------------------------------------------------------------------
(* adjustOpenFilesLimit. *)

GetLimit ==
  /\ boot = "limit"
  /\ \/ /\ maxclients' = ASSUMED_LIMIT - REDIS_MIN_RESERVED_FDS
        /\ assumed' = TRUE
        /\ boot' = "loop"
        /\ UNCHANGED f
     \/ /\ boot' = IF limit < maxfiles THEN "raise" ELSE "loop"
        /\ f' = maxfiles
        /\ UNCHANGED <<maxclients, assumed>>
  /\ UNCHANGED <<netVars, requested, setsize, ipfd, registered>>

\* setrlimit sets the limit to f or fails, at any value: that depends on the hard limit,
\* the privileges of the process and the system's own limit.
RaiseLimit ==
  /\ boot = "raise"
  /\ f > limit
  /\ limit' = f
  /\ boot' = "adjust"
  /\ unchangedButLimit
  /\ UNCHANGED <<requested, maxclients, f, assumed, setsize, ipfd, registered>>
RaiseFails ==
  /\ boot = "raise"
  /\ f > limit
  /\ IF f < DECR_STEP THEN boot' = "adjust" /\ UNCHANGED f ELSE f' = f - DECR_STEP /\ UNCHANGED boot
  /\ UNCHANGED <<netVars, requested, maxclients, assumed, setsize, ipfd, registered>>
RaiseEnds ==
  /\ boot = "raise"
  /\ f <= limit
  /\ boot' = "adjust"
  /\ UNCHANGED <<netVars, bootVars>>

\* Mutant: maxclients is what it was, although the limit is not.
AdjustLimitOnly ==
  /\ boot = "adjust"
  /\ boot' = "loop"
  /\ UNCHANGED <<netVars, bootVars>>
Adjust ==
  /\ boot = "adjust"
  /\ LET reached == IF f < limit THEN limit ELSE f IN
     IF reached = maxfiles THEN boot' = "loop" /\ UNCHANGED maxclients
     ELSE /\ maxclients' = reached - REDIS_MIN_RESERVED_FDS
          /\ boot' = IF maxclients' < 1 THEN "exited" ELSE "loop"
  /\ UNCHANGED <<netVars, requested, f, assumed, setsize, ipfd, registered>>

-------------------------------------------------------------------------------
\* aeCreateEventLoop takes a descriptor for epoll.  Its result is not looked at: without
\* it the next call that uses server.el follows a null pointer.
CreateEventLoop ==
  /\ boot = "loop"
  /\ \/ /\ Cardinality(Open) < limit
        /\ \E fd \in Fd \ Open :
             /\ \A g \in Fd : g < fd => g \in Open
             /\ kernel' = [kernel EXCEPT ![fd] = [state |-> "epoll", opts |-> {}]]
             /\ owned' = owned \union {fd}
        /\ setsize' = maxclients + REDIS_EVENTLOOP_FDSET_INCR
        /\ boot' = "listen"
     \/ boot' = "crashed" /\ UNCHANGED <<kernel, owned, setsize>>
  /\ UNCHANGED <<limit, lists, call, result, failed, calls, requested, maxclients, f,
                 assumed, ipfd, registered>>

ListenToPort ==
  /\ boot = "listen"
  /\ Begin([Idle EXCEPT !.fn = "anetTcpServer", !.pc = "resolve"])
  /\ boot' = "listening"
  /\ UNCHANGED bootVars
ListenReturns ==
  /\ boot = "listening"
  /\ call.fn = "none"
  /\ IF result.value = ANET_ERR THEN boot' = "exited" /\ UNCHANGED ipfd
     ELSE boot' = "register" /\ ipfd' = {result.value}
  /\ UNCHANGED <<netVars, requested, maxclients, f, assumed, setsize, registered>>

\* The handler of each listening socket is registered (aeCreateFileEvent refuses a
\* descriptor beyond the table), after the time event; then bioInit starts its threads.
Register ==
  /\ boot = "register"
  /\ \E fd \in ipfd \ registered :
       \/ fd < setsize /\ registered' = registered \union {fd} /\ UNCHANGED boot
       \/ boot' = "exited" /\ UNCHANGED registered
  /\ UNCHANGED <<netVars, requested, maxclients, f, assumed, setsize, ipfd>>
BioInit ==
  /\ boot = "register"
  /\ ipfd \subseteq registered
  /\ boot' = "ready"
  /\ UNCHANGED <<netVars, bootVars>>

Boots ==
  \/ GetLimit \/ RaiseLimit \/ RaiseFails \/ RaiseEnds \/ Adjust \/ CreateEventLoop
  \/ ListenToPort \/ ListenReturns \/ Register \/ BioInit
Serves ==
  /\ boot = "ready"
  /\ Starts
  /\ UNCHANGED <<boot, bootVars>>
Next == Boots \/ Serves \/ (Steps /\ UNCHANGED <<boot, bootVars>>)

Spec == Init /\ [][Next]_vars

-------------------------------------------------------------------------------
\* middleware_server.c:28-35: once the limit was adjusted the clients the server accepts
\* and the descriptors it reserves are within what the process may open (unless the limit
\* could not be read) and within the table of the event loop, and there are never more
\* clients than asked for.
FilesInv ==
  boot \notin {"limit", "raise", "adjust", "exited"} /\ ~assumed =>
    /\ maxclients + REDIS_MIN_RESERVED_FDS <= limit
    /\ maxclients <= requested
    /\ boot \notin {"loop", "crashed"} => maxclients + REDIS_MIN_RESERVED_FDS <= setsize
==============================================================================
