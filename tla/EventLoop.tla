------------------------------ MODULE EventLoop ------------------------------
(***************************************************************************)
(* The file events of ae.c and ae_epoll.c: the table of registered events, *)
(* the interest list the kernel keeps for the epoll descriptor, and the    *)
(* array of fired events that aeProcessEvents works through.  The module   *)
(* gives the operations; a program built on the event loop composes its    *)
(* callbacks from them.                                                    *)
(***************************************************************************)
EXTENDS Integers, FiniteSets

CONSTANTS
  NumFds,   (* how many descriptors the process can have open      *)
  SetSize   (* eventLoop->setsize, the length of events and fired  *)

ASSUME LoopAssumption ==
  /\ NumFds \in Nat \ {0}
  /\ SetSize \in Nat \ {0}

Fd == 0 .. (NumFds - 1)
Slot == 0 .. (SetSize - 1)
READABLE == "AE_READABLE"
WRITABLE == "AE_WRITABLE"
Mask == SUBSET {READABLE, WRITABLE}     \* AE_NONE is the empty mask

VARIABLES
  events,    (* events[fd].mask of every slot                               *)
  interest,  (* what the kernel monitors on each descriptor                 *)
  maxfd,     (* eventLoop->maxfd                                            *)
  fired      (* what epoll_wait reported on each descriptor and the loop    *)
             (* has not come to yet; epoll gives no order                   *)

loopVars == <<events, interest, maxfd, fired>>

Registered == {fd \in Slot : events[fd] # {}}

(* aeCreateEventLoop followed by the registration of the descriptor that   *)
(* the program starts to listen on.                                        *)
LoopInit(listener) ==
  /\ events = [fd \in Slot |-> IF fd = listener THEN {READABLE} ELSE {}]
  /\ interest = [fd \in Fd |-> IF fd = listener THEN {READABLE} ELSE {}]
  /\ maxfd = listener
  /\ fired = [fd \in Fd |-> {}]

(* aeApiAddEvent asks for ADD if the slot is empty and for MOD otherwise;  *)
(* the kernel refuses to add a monitored descriptor and to modify one that *)
(* is not monitored.                                                       *)
CanMonitor(fd) ==
  /\ fd \in Slot
  /\ events[fd] = {} <=> interest[fd] = {}

aeCreateFileEvent(fd, mask) ==
  /\ CanMonitor(fd)
  /\ events' = [events EXCEPT ![fd] = @ \union mask]
  /\ interest' = [interest EXCEPT ![fd] = events[fd] \union mask]
  /\ maxfd' = IF fd > maxfd THEN fd ELSE maxfd

\* The search downwards for the highest slot still in use.
HighestBelow(fd) ==
  CHOOSE j \in -1 .. (fd - 1) :
    /\ j = -1 \/ events[j] # {}
    /\ \A k \in (j + 1) .. (fd - 1) : events[k] = {}

(* aeDeleteFileEvent and then close: whatever aeApiDelEvent leaves on the  *)
(* interest list, the kernel drops when the descriptor is closed.          *)
aeDeleteFileEventAndClose(fd, mask) ==
  /\ events' = [events EXCEPT ![fd] = @ \ mask]
  /\ maxfd' = IF fd = maxfd /\ events[fd] # {} /\ events'[fd] = {}
              THEN HighestBelow(fd) ELSE maxfd
  /\ interest' = [interest EXCEPT ![fd] = {}]

(* aeDeleteFileEvent alone: the kernel goes on with what is left.          *)
aeDeleteFileEvent(fd, mask) ==
  /\ events' = [events EXCEPT ![fd] = @ \ mask]
  /\ maxfd' = IF fd = maxfd /\ events[fd] # {} /\ events'[fd] = {}
              THEN HighestBelow(fd) ELSE maxfd
  /\ interest' = [interest EXCEPT ![fd] = events'[fd]]

-----------------------------------------------------------------------------
LoopTypeOK ==
  /\ events \in [Slot -> Mask]
  /\ interest \in [Fd -> Mask]
  /\ maxfd \in -1 .. (SetSize - 1)
  /\ fired \in [Fd -> Mask]

(* maxfd is the highest registered descriptor, -1 if there is none: it     *)
(* decides whether aeProcessEvents polls at all and whether the table may  *)
(* be shrunk.                                                              *)
MaxfdInv ==
  /\ \A fd \in Registered : fd <= maxfd
  /\ maxfd = -1 \/ maxfd \in Registered

(* The table and the kernel agree on what is monitored; if they did not,   *)
(* the next ADD or MOD on the descriptor would be refused.                 *)
AgreementInv ==
  \A fd \in Fd : interest[fd] = IF fd \in Slot THEN events[fd] ELSE {}
=============================================================================
