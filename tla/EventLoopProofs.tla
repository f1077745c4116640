---------------------------- MODULE EventLoopProofs ----------------------------
(***************************************************************************)
(* Proofs about the event loop.  File events: the echo server, for any     *)
(* number of connections, any number of descriptors, any size of the event *)
(* table and of the buffer.  Time events: any number of timers, any        *)
(* delays, any length of a second and any number of changes of the clock.  *)
(***************************************************************************)
EXTENDS EchoServer, Timers, QueueLemmas, FiniteSetTheorems, TLAPS

(* The sockets, the table of events, the kernel's interest and the events  *)
(* that were polled belong together.                                       *)
LoopInv ==
  /\ TypeOK
  /\ SocketsInv
  /\ BacklogInv
  /\ TableInv
  /\ MaxfdInv
  /\ FiredInv

LEMMA FdFacts ==
  /\ Fd \subseteq Nat /\ Slot \subseteq Nat
  /\ ListenFd \in Fd /\ ListenFd \in Slot
  /\ ClientFds \subseteq Fd
BY LoopAssumption DEF Fd, Slot, ListenFd, ClientFds

(* Reading takes at least nothing and at most what is there.               *)
LEMMA ReadSizeFacts ==
  ASSUME TypeOK, NEW c \in Conns
  PROVE  /\ Unread(c) \in Nat
         /\ ReadSize(c) \in 0 .. BufLen
         /\ rd[c] + ReadSize(c) \in Nat
         /\ rd[c] + ReadSize(c) <= sent[c]
<1>1. rd[c] \in Nat /\ sent[c] \in Nat /\ rd[c] <= sent[c]
  BY DEF TypeOK
<1>2. BufLen \in Nat
  BY ServerAssumption
<1>3. QED
  BY <1>1, <1>2 DEF Unread, ReadSize

(* What is written is a piece of the buffer, and the buffer holds units.   *)
LEMMA BufferFacts ==
  ASSUME TypeOK, NEW c \in Conns, NEW n \in 1 .. BufLen
  PROVE  /\ Buffer(c) \in Seq(Nat)
         /\ Len(Buffer(c)) = BufLen
         /\ SubSeq(Buffer(c), 1, n) \in Seq(Nat)
         /\ Len(SubSeq(Buffer(c), 1, n)) = n
         /\ \A i \in 1 .. n : SubSeq(Buffer(c), 1, n)[i] = Buffer(c)[i]
<1>1. BufLen \in Nat
  BY ServerAssumption
<1>2. rd[c] \in Nat
  BY DEF TypeOK
<1>3. ReadSize(c) \in Nat
  BY ReadSizeFacts, <1>1
<1>4. \A i \in 1 .. BufLen : (IF i <= ReadSize(c) THEN rd[c] + i ELSE Padding) \in Nat
  BY <1>1, <1>2, <1>3 DEF Padding
<1>5. Buffer(c) \in [1 .. BufLen -> Nat]
  BY <1>4 DEF Buffer
<1>6. Buffer(c) \in Seq(Nat) /\ Len(Buffer(c)) = BufLen
  BY <1>1, <1>5
<1>7. QED
  BY <1>1, <1>6

-------------------------------------------------------------------------------
LEMMA InitLoopInv == Init => LoopInv
<1> SUFFICES ASSUME Init PROVE LoopInv
  OBVIOUS
<1> USE FdFacts
<1>1. TypeOK
  <2>1. LoopTypeOK
    BY LoopAssumption DEF Init, LoopInit, LoopTypeOK, Mask, Fd, Slot, ListenFd
  <2>2. QED
    BY <2>1, ServerAssumption DEF Init, TypeOK
<1>2. SocketsInv
  BY ServerAssumption DEF Init, SocketsInv, ClientFds
<1>3. BacklogInv
  BY DEF Init, BacklogInv
<1>4. TableInv
  BY DEF Init, LoopInit, TableInv, AgreementInv
<1>5. MaxfdInv
  BY DEF Init, LoopInit, MaxfdInv, Registered, Slot
<1>6. FiredInv
  BY DEF Init, LoopInit, FiredInv
<1>7. QED
  BY <1>1, <1>2, <1>3, <1>4, <1>5, <1>6 DEF LoopInv

(* The descriptor that an event is taken up for is registered.             *)
LEMMA FiredFacts ==
  ASSUME LoopInv, NEW fd \in ClientFds, TakeFired(fd)
  PROVE  /\ sock[fd] \in Conns
         /\ fd \in Fd /\ fd \in Slot /\ fd # ListenFd
         /\ events[fd] = {READABLE}
         /\ interest[fd] = {READABLE}
         /\ cst[sock[fd]] = "open"
<1>1. fd \in Fd /\ fd \in Slot /\ fd # ListenFd /\ fired[fd] # {} /\ READABLE \in events[fd]
  BY FdFacts DEF TakeFired, ClientFds
<1>2. interest[fd] = events[fd]
  BY <1>1 DEF LoopInv, TableInv, AgreementInv
<1>3. sock[fd] # NoConn /\ interest[fd] = {READABLE}
  BY <1>1, <1>2 DEF LoopInv, TableInv
<1>4. sock[fd] \in Conns
  BY <1>1, <1>3 DEF LoopInv, TypeOK
<1>5. cst[sock[fd]] = "open"
  BY <1>4 DEF LoopInv, SocketsInv
<1>6. QED
  BY <1>1, <1>2, <1>3, <1>4, <1>5

(* The connection at the head of the backlog waits to be accepted.         *)
LEMMA BacklogFacts ==
  ASSUME LoopInv, backlog # <<>>
  PROVE  /\ Head(backlog) \in Conns
         /\ Tail(backlog) \in Seq(Conns)
         /\ cst[Head(backlog)] = "queued"
         /\ \A f \in ClientFds : sock[f] # Head(backlog)
         /\ \A i \in DOMAIN Tail(backlog) :
              /\ i + 1 \in DOMAIN backlog
              /\ Tail(backlog)[i] = backlog[i + 1]
              /\ Tail(backlog)[i] \in Conns
              /\ Tail(backlog)[i] # Head(backlog)
<1>1. backlog \in Seq(Conns) /\ Len(backlog) \in Nat /\ Len(backlog) > 0
  BY DEF LoopInv, TypeOK
<1>2. Head(backlog) = backlog[1] /\ 1 \in DOMAIN backlog
  BY <1>1
<1>3. Head(backlog) \in Conns /\ Tail(backlog) \in Seq(Conns)
  BY <1>1
<1>4. cst[Head(backlog)] = "queued"
  BY <1>2 DEF LoopInv, BacklogInv
<1>5. \A f \in ClientFds : sock[f] # Head(backlog)
  BY <1>3, <1>4 DEF LoopInv, SocketsInv
<1>6. ASSUME NEW i \in DOMAIN Tail(backlog)
      PROVE  /\ i + 1 \in DOMAIN backlog
             /\ Tail(backlog)[i] = backlog[i + 1]
             /\ Tail(backlog)[i] \in Conns
             /\ Tail(backlog)[i] # Head(backlog)
  <2>1. i \in Nat /\ i >= 1 /\ i + 1 \in DOMAIN backlog /\ Tail(backlog)[i] = backlog[i + 1]
    BY <1>1
  <2>2. backlog[i + 1] # backlog[1]
    BY <2>1, <1>2 DEF LoopInv, BacklogInv
  <2>3. backlog[i + 1] \in Conns
    BY <2>1, <1>1
  <2>4. QED
    BY <2>1, <2>2, <2>3, <1>2
<1>7. QED
  BY <1>3, <1>4, <1>5, <1>6

-------------------------------------------------------------------------------
(* The search for the highest slot in use below fd finds it.               *)
LEMMA HighestBelowFacts ==
  ASSUME events \in [Slot -> Mask], NEW fd \in Slot
  PROVE  /\ HighestBelow(fd) \in -1 .. (fd - 1)
         /\ HighestBelow(fd) = -1 \/ events[HighestBelow(fd)] # {}
         /\ \A k \in (HighestBelow(fd) + 1) .. (fd - 1) : events[k] = {}
<1> DEFINE Used == {j \in -1 .. (fd - 1) : j = -1 \/ events[j] # {}}
           P(j) == /\ j = -1 \/ events[j] # {}
                   /\ \A k \in (j + 1) .. (fd - 1) : events[k] = {}
<1>0. fd \in Nat
  BY FdFacts
<1>1. Used \subseteq -1 .. fd /\ -1 \in Used
  BY <1>0
<1>2. PICK m \in Used : \A j \in Used : j <= m
  BY <1>0, <1>1, Highest
<1>3. m \in -1 .. (fd - 1) /\ P(m)
  <2>1. ASSUME NEW k \in (m + 1) .. (fd - 1) PROVE events[k] = {}
    <3>1. k \in -1 .. (fd - 1) /\ k > m /\ m \in Int
      BY <1>0
    <3>2. k \notin Used
      BY <1>2, <3>1
    <3>3. QED
      BY <3>1, <3>2
  <2>2. QED
    BY <2>1
<1>4. HighestBelow(fd) \in -1 .. (fd - 1) /\ P(HighestBelow(fd))
  BY <1>3 DEF HighestBelow
<1>5. QED
  BY <1>4

-------------------------------------------------------------------------------
(* The steps of the server, with what each leaves alone and what it does   *)
(* to the table, given that the event it takes up was polled for an open   *)
(* connection.                                                             *)
LEMMA TakenFacts ==
  ASSUME LoopInv, NEW fd \in Fd, TakeFired(fd)
  PROVE  /\ fired' \in [Fd -> Mask]
         /\ fired'[fd] = {}
         /\ \A f \in Fd : f # fd => fired'[f] = fired[f]
         /\ phase' \in {"poll", "handle"}
         /\ \A f \in Fd : fired'[f] # {} => phase' = "handle"
<1>1. fired \in [Fd -> Mask] /\ fired' = [fired EXCEPT ![fd] = {}]
  BY DEF LoopInv, TypeOK, LoopTypeOK, TakeFired
<1>2. QED
  BY <1>1 DEF TakeFired, Mask

(* Registering a descriptor.                                               *)
LEMMA CreateFacts ==
  ASSUME LoopInv, NEW fd \in ClientFds, aeCreateFileEvent(fd, {READABLE}), sock[fd] = NoConn
  PROVE  /\ fd \in Slot
         /\ events' \in [Slot -> Mask] /\ interest' \in [Fd -> Mask]
         /\ maxfd' \in -1 .. (SetSize - 1)
         /\ events'[fd] = {READABLE} /\ interest'[fd] = {READABLE}
         /\ \A f \in Slot : f # fd => events'[f] = events[f]
         /\ \A f \in Fd : f # fd => interest'[f] = interest[f]
         /\ MaxfdInv'
<1>1. fd \in Slot /\ fd \in Fd /\ fd # ListenFd
  BY FdFacts DEF aeCreateFileEvent, CanMonitor, ClientFds
<1>2. events \in [Slot -> Mask] /\ interest \in [Fd -> Mask] /\ maxfd \in -1 .. (SetSize - 1)
  BY DEF LoopInv, TypeOK, LoopTypeOK
<1>3. interest[fd] = {} /\ events[fd] = {}
  BY <1>1 DEF LoopInv, TableInv, AgreementInv
<1>4. /\ events' = [events EXCEPT ![fd] = {READABLE}]
      /\ interest' = [interest EXCEPT ![fd] = {READABLE}]
  BY <1>2, <1>3 DEF aeCreateFileEvent
<1>5. {READABLE} \in Mask
  BY DEF Mask
<1>6. events' \in [Slot -> Mask] /\ interest' \in [Fd -> Mask]
  BY <1>2, <1>4, <1>5
<1>7. maxfd' \in -1 .. (SetSize - 1)
  BY <1>1, <1>2 DEF aeCreateFileEvent, Slot
<1>8. MaxfdInv'
  <2>1. Registered' = Registered \union {fd}
    BY <1>1, <1>2, <1>4 DEF Registered
  <2>2. Registered \subseteq Nat /\ fd \in Nat /\ maxfd \in Int
    <3>1. Registered \subseteq Slot
      BY DEF Registered
    <3>2. fd \in Nat /\ Slot \subseteq Nat
      BY <1>1, FdFacts
    <3>3. maxfd \in Int
      BY <1>2, LoopAssumption
    <3>4. QED
      BY <3>1, <3>2, <3>3
  <2>3. /\ \A f \in Registered : f <= maxfd
        /\ maxfd = -1 \/ maxfd \in Registered
    BY DEF LoopInv, MaxfdInv
  <2>4. maxfd' = IF fd > maxfd THEN fd ELSE maxfd
    BY DEF aeCreateFileEvent
  <2>5. QED
    BY <2>1, <2>2, <2>3, <2>4 DEF MaxfdInv
<1>9. QED
  BY <1>1, <1>2, <1>4, <1>6, <1>7, <1>8

(* Closing one.                                                            *)
LEMMA CloseFacts ==
  ASSUME LoopInv, NEW fd \in ClientFds, TakeFired(fd), MainCloseFd(fd)
  PROVE  /\ events' \in [Slot -> Mask] /\ interest' \in [Fd -> Mask]
         /\ maxfd' \in -1 .. (SetSize - 1)
         /\ events'[fd] = {} /\ interest'[fd] = {}
         /\ \A f \in Slot : f # fd => events'[f] = events[f]
         /\ \A f \in Fd : f # fd => interest'[f] = interest[f]
         /\ sock' = [sock EXCEPT ![fd] = NoConn]
         /\ MaxfdInv'
<1>1. fd \in Slot /\ fd \in Fd /\ events[fd] = {READABLE}
  BY FiredFacts
<1>2. events \in [Slot -> Mask] /\ interest \in [Fd -> Mask] /\ maxfd \in -1 .. (SetSize - 1)
  BY DEF LoopInv, TypeOK, LoopTypeOK
<1>3. /\ events' = [events EXCEPT ![fd] = {}]
      /\ interest' = [interest EXCEPT ![fd] = {}]
      /\ maxfd' = IF fd = maxfd THEN HighestBelow(fd) ELSE maxfd
  BY <1>1, <1>2 DEF MainCloseFd, aeDeleteFileEventAndClose
<1>4. {} \in Mask
  BY DEF Mask
<1>5. events' \in [Slot -> Mask] /\ interest' \in [Fd -> Mask]
  BY <1>2, <1>3, <1>4
<1>6. /\ HighestBelow(fd) \in -1 .. (fd - 1)
      /\ HighestBelow(fd) = -1 \/ events[HighestBelow(fd)] # {}
      /\ \A k \in (HighestBelow(fd) + 1) .. (fd - 1) : events[k] = {}
  BY <1>1, <1>2, HighestBelowFacts
<1>7. maxfd' \in -1 .. (SetSize - 1)
  BY <1>1, <1>2, <1>3, <1>6, LoopAssumption DEF Slot
<1>8. MaxfdInv'
  <2>1. Registered' = Registered \ {fd}
    BY <1>1, <1>2, <1>3 DEF Registered
  <2>2. Registered \subseteq Nat /\ fd \in Nat /\ maxfd \in Int
    <3>1. Registered \subseteq Slot
      BY DEF Registered
    <3>2. fd \in Nat /\ Slot \subseteq Nat
      BY <1>1, FdFacts
    <3>3. maxfd \in Int
      BY <1>2, LoopAssumption
    <3>4. QED
      BY <3>1, <3>2, <3>3
  <2>3. /\ \A f \in Registered : f <= maxfd
        /\ maxfd = -1 \/ maxfd \in Registered
    BY DEF LoopInv, MaxfdInv
  <2>4. CASE fd = maxfd
    <3>1. maxfd' = HighestBelow(fd) /\ maxfd' \in -1 .. (fd - 1)
      BY <2>4, <1>3, <1>6
    <3>2. maxfd' = -1 \/ maxfd' \in Registered'
      <4>1. HighestBelow(fd) = -1 \/ HighestBelow(fd) \in Slot
        BY <1>1, <1>6, LoopAssumption DEF Slot
      <4>2. HighestBelow(fd) # fd
        BY <1>6, <2>2
      <4>3. QED
        BY <3>1, <4>1, <4>2, <1>6, <2>1 DEF Registered
    <3>3. ASSUME NEW f \in Registered' PROVE f <= maxfd'
      <4>1. f \in Nat /\ f <= fd /\ f # fd /\ events[f] # {}
        BY <2>1, <2>2, <2>3, <2>4 DEF Registered
      <4>2. ~ (f \in (HighestBelow(fd) + 1) .. (fd - 1))
        BY <4>1, <1>6
      <4>3. QED
        BY <4>1, <4>2, <3>1, <2>2
    <3>4. QED
      BY <3>2, <3>3 DEF MaxfdInv
  <2>5. CASE fd # maxfd
    BY <2>1, <2>2, <2>3, <2>5, <1>3 DEF MaxfdInv
  <2>6. QED
    BY <2>4, <2>5
<1>9. sock' = [sock EXCEPT ![fd] = NoConn]
  BY DEF MainCloseFd
<1>10. QED
  BY <1>1, <1>2, <1>3, <1>5, <1>7, <1>8, <1>9

-------------------------------------------------------------------------------
(* The kernel still reports what it reported of a descriptor that nothing  *)
(* was done to.                                                            *)
LEMMA ReadyKept ==
  ASSUME LoopInv, NEW f \in ClientFds, fired[f] # {},
         interest'[f] = interest[f], sock'[f] = sock[f],
         \A c \in Conns : c = sock[f] =>
            /\ rd[c] < sent[c] => rd'[c] < sent'[c]
            /\ fin[c] => fin'[c]
            /\ rst[c] => rst'[c]
  PROVE  Ready(f) \subseteq Ready(f)'
<1>1. f \in Fd /\ f # ListenFd
  BY FdFacts DEF ClientFds
<1>2. interest[f] # {}
  <2>1. READABLE \in Ready(f)
    BY <1>1 DEF LoopInv, FiredInv
  <2>2. QED
    BY <2>1 DEF Ready
<1>3. sock[f] # NoConn
  BY <1>1, <1>2 DEF LoopInv, TableInv
<1>4. sock[f] \in Conns
  BY <1>1, <1>3 DEF LoopInv, TypeOK
<1>5. rd[sock[f]] < sent[sock[f]] => rd'[sock[f]] < sent'[sock[f]]
  BY <1>4
<1>6. QED
  BY <1>1, <1>2, <1>4, <1>5 DEF Ready

(* What is left of the fired events after one has been taken up.           *)
LEMMA FiredAfterTaking ==
  ASSUME LoopInv, NEW fd \in Fd, TakeFired(fd),
         \A f \in Fd : f # fd /\ fired[f] # {} => Ready(f) \subseteq Ready(f)'
  PROVE  FiredInv'
<1>1. SUFFICES ASSUME NEW f \in Fd, fired'[f] # {}
               PROVE  /\ phase' = "handle"
                      /\ fired'[f] \subseteq Ready(f)'
                      /\ READABLE \in fired'[f]
  BY DEF FiredInv
<1>2. f # fd /\ fired'[f] = fired[f] /\ phase' = "handle"
  BY <1>1, TakenFacts
<1>3. fired[f] \subseteq Ready(f) /\ READABLE \in fired[f]
  BY <1>1, <1>2 DEF LoopInv, FiredInv
<1>4. QED
  BY <1>1, <1>2, <1>3

(* A connection that is closed leaves nothing behind.                      *)
LEMMA ClosedFacts ==
  ASSUME TypeOK, NEW c \in Conns, Closed(c)
  PROVE  /\ cst' \in [Conns -> {"new", "queued", "open", "closed"}]
         /\ sent' \in [Conns -> Nat] /\ rd' \in [Conns -> Nat]
         /\ \A d \in Conns : rd'[d] <= sent'[d] /\ sent'[d] <= MaxSend[d]
         /\ echo' \in [Conns -> Seq(Nat)]
         /\ fin' \in [Conns -> BOOLEAN] /\ rst' \in [Conns -> BOOLEAN]
         /\ cst'[c] = "closed"
         /\ \A d \in Conns : d # c =>
               /\ cst'[d] = cst[d] /\ sent'[d] = sent[d] /\ rd'[d] = rd[d]
               /\ fin'[d] = fin[d] /\ rst'[d] = rst[d]
<1>1. /\ cst' = [cst EXCEPT ![c] = "closed"] /\ sent' = [sent EXCEPT ![c] = 0]
      /\ rd' = [rd EXCEPT ![c] = 0] /\ echo' = [echo EXCEPT ![c] = <<>>]
      /\ fin' = [fin EXCEPT ![c] = FALSE] /\ rst' = [rst EXCEPT ![c] = FALSE]
  BY DEF Closed
<1>2. /\ cst \in [Conns -> {"new", "queued", "open", "closed"}]
      /\ sent \in [Conns -> Nat] /\ rd \in [Conns -> Nat]
      /\ echo \in [Conns -> Seq(Nat)]
      /\ fin \in [Conns -> BOOLEAN] /\ rst \in [Conns -> BOOLEAN]
  BY DEF TypeOK
<1>3. echo' \in [Conns -> Seq(Nat)]
  BY <1>1, <1>2
<1>4. \A d \in Conns : rd'[d] <= sent'[d] /\ sent'[d] <= MaxSend[d]
  <2>1. \A d \in Conns : rd[d] <= sent[d] /\ sent[d] <= MaxSend[d] /\ MaxSend[d] \in Nat
    BY ServerAssumption DEF TypeOK
  <2>2. QED
    BY <1>1, <1>2, <2>1
<1>5. QED
  BY <1>1, <1>2, <1>3, <1>4
-------------------------------------------------------------------------------
(* The clients' steps.                                                     *)
LEMMA ClientTypeStep ==
  ASSUME TypeOK, NEW c \in Conns, Client(c)
  PROVE  TypeOK'
<1>1. /\ backlog \in Seq(Conns)
      /\ cst \in [Conns -> {"new", "queued", "open", "closed"}]
      /\ sent \in [Conns -> Nat] /\ rd \in [Conns -> Nat]
      /\ fin \in [Conns -> BOOLEAN] /\ rst \in [Conns -> BOOLEAN]
  BY DEF TypeOK
<1>2. LoopTypeOK'
  <2>1. UNCHANGED loopVars
    BY DEF Client, ClientConnect, ClientSend, ClientClose, ClientReset
  <2>2. QED
    BY <2>1 DEF TypeOK, LoopTypeOK, loopVars
<1>3. CASE ClientConnect(c)
  BY <1>1, <1>2, <1>3 DEF ClientConnect, TypeOK, clientVars
<1>4. CASE ClientSend(c)
  <2>1. sent' = [sent EXCEPT ![c] = sent[c] + 1] /\ sent[c] < MaxSend[c]
    BY <1>4 DEF ClientSend
  <2>2. \A d \in Conns : rd[d] <= sent[d] /\ sent[d] <= MaxSend[d] /\ MaxSend[d] \in Nat
    BY ServerAssumption DEF TypeOK
  <2>3. sent' \in [Conns -> Nat]
    BY <1>1, <2>1
  <2>4. \A d \in Conns : rd[d] <= sent'[d] /\ sent'[d] <= MaxSend[d]
    BY <1>1, <2>1, <2>2
  <2>5. QED
    BY <1>2, <1>4, <2>3, <2>4 DEF ClientSend, TypeOK
<1>5. CASE ClientClose(c)
  BY <1>1, <1>2, <1>5 DEF ClientClose, TypeOK
<1>6. CASE ClientReset(c)
  BY <1>1, <1>2, <1>6 DEF ClientReset, TypeOK
<1>7. QED
  BY <1>3, <1>4, <1>5, <1>6 DEF Client

LEMMA ClientStep ==
  ASSUME LoopInv, NEW c \in Conns, Client(c)
  PROVE  LoopInv'
<1> USE FdFacts
<1>1. TypeOK'
  BY ClientTypeStep DEF LoopInv
<1>2. UNCHANGED <<loopVars, phase, sock, rd>>
  BY DEF Client, ClientConnect, ClientSend, ClientClose, ClientReset
<1>3. /\ events' = events /\ interest' = interest /\ maxfd' = maxfd /\ fired' = fired
      /\ phase' = phase /\ sock' = sock /\ rd' = rd
  BY <1>2 DEF loopVars
<1>4. TableInv'
  BY <1>3 DEF LoopInv, TableInv, AgreementInv
<1>5. MaxfdInv'
  BY <1>3 DEF LoopInv, MaxfdInv, Registered
<1>6. SocketsInv' /\ BacklogInv' /\ (backlog # <<>> => backlog' # <<>>)
  <2>1. CASE ClientConnect(c)
    <3>1. /\ cst[c] = "new" /\ cst' = [cst EXCEPT ![c] = "queued"]
          /\ backlog' = Append(backlog, c)
      BY <2>1 DEF ClientConnect
    <3>2. cst \in [Conns -> {"new", "queued", "open", "closed"}] /\ backlog \in Seq(Conns)
      BY DEF LoopInv, TypeOK
    <3>3. \A d \in Conns : cst'[d] = "open" <=> cst[d] = "open"
      BY <3>1, <3>2
    <3>4. SocketsInv'
      BY <1>3, <3>3 DEF LoopInv, SocketsInv
    <3>5. \A i \in DOMAIN backlog : backlog[i] # c /\ backlog[i] \in Conns
                                    /\ cst[backlog[i]] = "queued"
      BY <3>1, <3>2 DEF LoopInv, BacklogInv
    <3>6. \A i \in DOMAIN backlog' : \/ i \in DOMAIN backlog /\ backlog'[i] = backlog[i]
                                     \/ i = Len(backlog) + 1 /\ backlog'[i] = c
      BY <3>1, <3>2
    <3>7. \A i \in DOMAIN backlog' : cst'[backlog'[i]] = "queued"
      BY <3>1, <3>2, <3>5, <3>6
    <3>8. \A i, j \in DOMAIN backlog' : backlog'[i] = backlog'[j] => i = j
      BY <3>5, <3>6 DEF LoopInv, BacklogInv
    <3>9. backlog' # <<>>
      BY <3>1, <3>2
    <3>10. QED
      BY <3>4, <3>7, <3>8, <3>9 DEF BacklogInv
  <2>2. CASE UNCHANGED <<backlog, cst>>
    BY <1>3, <2>2 DEF LoopInv, SocketsInv, BacklogInv
  <2>3. QED
    BY <2>1, <2>2 DEF Client, ClientSend, ClientClose, ClientReset
<1>7. FiredInv'
  <2>1. \A d \in Conns : /\ rd[d] < sent[d] => rd'[d] < sent'[d]
                         /\ fin[d] => fin'[d]
                         /\ rst[d] => rst'[d]
    <3>1. /\ sent \in [Conns -> Nat] /\ rd \in [Conns -> Nat]
          /\ fin \in [Conns -> BOOLEAN] /\ rst \in [Conns -> BOOLEAN]
      BY DEF LoopInv, TypeOK
    <3>2. CASE ClientConnect(c)
      BY <1>3, <3>2 DEF ClientConnect, clientVars
    <3>3. CASE ClientSend(c)
      BY <1>3, <3>1, <3>3 DEF ClientSend
    <3>4. CASE ClientClose(c)
      BY <1>3, <3>1, <3>4 DEF ClientClose
    <3>5. CASE ClientReset(c)
      BY <1>3, <3>1, <3>5 DEF ClientReset
    <3>6. QED
      BY <3>2, <3>3, <3>4, <3>5 DEF Client
  <2>2. ASSUME NEW f \in Fd, fired[f] # {} PROVE Ready(f) \subseteq Ready(f)'
    <3>1. CASE f = ListenFd
      BY <1>3, <1>6, <3>1 DEF Ready
    <3>2. CASE f # ListenFd
      <4>1. f \in ClientFds
        BY <3>2 DEF ClientFds
      <4>2. QED
        BY <1>3, <2>1, <2>2, <4>1, ReadyKept
    <3>3. QED
      BY <3>1, <3>2
  <2>3. QED
    BY <1>3, <2>2 DEF LoopInv, FiredInv
<1>8. QED
  BY <1>1, <1>4, <1>5, <1>6, <1>7 DEF LoopInv

-------------------------------------------------------------------------------
LEMMA PollStep ==
  ASSUME LoopInv, Poll
  PROVE  LoopInv'
<1>1. /\ fired' = [fd \in Fd |-> Ready(fd)] /\ phase' = "handle"
      /\ events' = events /\ interest' = interest /\ maxfd' = maxfd
      /\ UNCHANGED <<alive, backlog, sock, cst, rd, echo, sent, fin, rst>>
  BY DEF Poll, clientVars
<1>2. \A f \in Fd : Ready(f) \in Mask /\ (Ready(f) # {} => READABLE \in Ready(f))
  BY DEF Ready, Mask
<1>3. fired' \in [Fd -> Mask]
  BY <1>1, <1>2
<1>4. TypeOK'
  BY <1>1, <1>3 DEF LoopInv, TypeOK, LoopTypeOK
<1>5. SocketsInv' /\ BacklogInv'
  BY <1>1 DEF LoopInv, SocketsInv, BacklogInv
<1>6. TableInv' /\ MaxfdInv'
  BY <1>1 DEF LoopInv, TableInv, AgreementInv, MaxfdInv, Registered
<1>7. \A f \in Fd : Ready(f)' = Ready(f)
  BY <1>1 DEF Ready
<1>8. FiredInv'
  BY <1>1, <1>2, <1>7 DEF FiredInv
<1>9. QED
  BY <1>4, <1>5, <1>6, <1>8 DEF LoopInv
-------------------------------------------------------------------------------
(* The steps of the accept handler.                                        *)
LEMMA AcceptFailsStep ==
  ASSUME LoopInv, AcceptFails
  PROVE  LoopInv'
<1>1. /\ TakeFired(ListenFd) /\ ListenFd \in Fd
      /\ events' = events /\ interest' = interest /\ maxfd' = maxfd
      /\ UNCHANGED <<alive, backlog, sock, cst, rd, echo, sent, fin, rst>>
  BY FdFacts DEF AcceptFails, clientVars
<1>2. fired' \in [Fd -> Mask] /\ phase' \in {"poll", "handle"}
  BY <1>1, TakenFacts
<1>3. TypeOK'
  BY <1>1, <1>2 DEF LoopInv, TypeOK, LoopTypeOK
<1>4. SocketsInv' /\ BacklogInv'
  BY <1>1 DEF LoopInv, SocketsInv, BacklogInv
<1>5. TableInv' /\ MaxfdInv'
  BY <1>1 DEF LoopInv, TableInv, AgreementInv, MaxfdInv, Registered
<1>6. \A f \in Fd : Ready(f)' = Ready(f)
  BY <1>1 DEF Ready
<1>7. FiredInv'
  BY <1>1, <1>6, FiredAfterTaking
<1>8. QED
  BY <1>3, <1>4, <1>5, <1>7 DEF LoopInv

LEMMA AcceptStep ==
  ASSUME LoopInv, NEW fd \in ClientFds, Accept(fd)
  PROVE  LoopInv'
<1> DEFINE c == Head(backlog)
<1>1. /\ TakeFired(ListenFd) /\ backlog # <<>> /\ sock[fd] = NoConn
      /\ aeCreateFileEvent(fd, {READABLE})
      /\ sock' = [sock EXCEPT ![fd] = c] /\ cst' = [cst EXCEPT ![c] = "open"]
      /\ backlog' = Tail(backlog)
      /\ UNCHANGED <<alive, rd, echo, sent, fin, rst>>
  BY DEF Accept, LowestFree, clientVars
<1>2. fd \in Fd /\ fd # ListenFd /\ ListenFd \in Fd /\ ListenFd \in Slot
  BY FdFacts DEF ClientFds
<1>3. /\ c \in Conns /\ Tail(backlog) \in Seq(Conns) /\ cst[c] = "queued"
      /\ \A f \in ClientFds : sock[f] # c
      /\ \A i \in DOMAIN Tail(backlog) :
              /\ i + 1 \in DOMAIN backlog
              /\ Tail(backlog)[i] = backlog[i + 1]
              /\ Tail(backlog)[i] \in Conns
              /\ Tail(backlog)[i] # c
  BY <1>1, BacklogFacts
<1>4. /\ fd \in Slot
      /\ events' \in [Slot -> Mask] /\ interest' \in [Fd -> Mask]
      /\ maxfd' \in -1 .. (SetSize - 1)
      /\ events'[fd] = {READABLE} /\ interest'[fd] = {READABLE}
      /\ \A f \in Slot : f # fd => events'[f] = events[f]
      /\ \A f \in Fd : f # fd => interest'[f] = interest[f]
      /\ MaxfdInv'
  BY <1>1, CreateFacts
<1>5. /\ fired' \in [Fd -> Mask] /\ phase' \in {"poll", "handle"}
      /\ fired'[ListenFd] = {}
  BY <1>1, <1>2, TakenFacts
<1>6. /\ sock \in [Fd -> Conns \union {NoConn}]
      /\ cst \in [Conns -> {"new", "queued", "open", "closed"}]
      /\ NoConn \notin Conns
  BY ServerAssumption DEF LoopInv, TypeOK
<1>7. /\ sock' \in [Fd -> Conns \union {NoConn}]
      /\ cst' \in [Conns -> {"new", "queued", "open", "closed"}]
      /\ backlog' \in Seq(Conns)
  BY <1>1, <1>2, <1>3, <1>6
<1>8. LoopTypeOK'
  BY <1>4, <1>5 DEF LoopTypeOK
<1>9. TypeOK'
  BY <1>1, <1>5, <1>7, <1>8 DEF LoopInv, TypeOK
<1>10. SocketsInv'
  <2>1. sock'[fd] = c /\ (\A f \in Fd : f # fd => sock'[f] = sock[f])
    BY <1>1, <1>2, <1>6
  <2>2. cst'[c] = "open" /\ (\A d \in Conns : d # c => cst'[d] = cst[d])
    BY <1>1, <1>3, <1>6
  <2>3. sock'[ListenFd] = NoConn
    BY <1>2, <2>1 DEF LoopInv, SocketsInv
  <2>4. ASSUME NEW d \in Conns
        PROVE  cst'[d] = "open" <=> \E f \in ClientFds : sock'[f] = d
    <3>1. CASE d = c
      BY <2>1, <2>2, <3>1
    <3>2. CASE d # c
      <4>1. cst[d] = "open" <=> \E f \in ClientFds : sock[f] = d
        BY DEF LoopInv, SocketsInv
      <4>2. \A f \in ClientFds : sock'[f] = d <=> sock[f] = d
        BY <1>1, <1>6, <2>1, <3>2, FdFacts
      <4>3. QED
        BY <2>2, <3>2, <4>1, <4>2
    <3>3. QED
      BY <3>1, <3>2
  <2>5. ASSUME NEW f \in ClientFds, NEW g \in ClientFds, sock'[f] = sock'[g], sock'[f] # NoConn
        PROVE  f = g
    <3>1. f \in Fd /\ g \in Fd
      BY FdFacts
    <3>2. sock[f] # c /\ sock[g] # c
      BY <1>3
    <3>3. sock[f] = sock[g] /\ sock[f] # NoConn => f = g
      BY DEF LoopInv, SocketsInv
    <3>4. QED
      BY <2>1, <2>5, <3>1, <3>2, <3>3
  <2>6. QED
    BY <2>3, <2>4, <2>5 DEF SocketsInv
<1>11. BacklogInv'
  <2>1. ASSUME NEW i \in DOMAIN Tail(backlog) PROVE cst'[Tail(backlog)[i]] = "queued"
    <3>1. cst[backlog[i + 1]] = "queued"
      BY <1>3 DEF LoopInv, BacklogInv
    <3>2. QED
      BY <1>1, <1>3, <1>6, <3>1
  <2>2. ASSUME NEW i \in DOMAIN Tail(backlog), NEW j \in DOMAIN Tail(backlog),
               Tail(backlog)[i] = Tail(backlog)[j]
        PROVE  i = j
    <3>1. i + 1 = j + 1
      BY <1>3, <2>2 DEF LoopInv, BacklogInv
    <3>2. i \in Int /\ j \in Int
      BY <1>3
    <3>3. QED
      BY <3>1, <3>2
  <2>3. QED
    BY <1>1, <2>1, <2>2 DEF BacklogInv
<1>12. TableInv'
  <2>1. sock'[fd] = c /\ c # NoConn /\ (\A f \in Fd : f # fd => sock'[f] = sock[f])
    BY <1>1, <1>2, <1>3, <1>6
  <2>2. AgreementInv'
    BY <1>2, <1>4 DEF LoopInv, TableInv, AgreementInv
  <2>3. \A f \in Fd : interest'[f] = IF f = ListenFd \/ sock'[f] # NoConn THEN {READABLE} ELSE {}
    BY <1>2, <1>4, <2>1 DEF LoopInv, TableInv
  <2>4. QED
    BY <2>2, <2>3 DEF TableInv
<1>13. FiredInv'
  <2>1. ASSUME NEW f \in Fd, f # ListenFd, fired[f] # {}
        PROVE  Ready(f) \subseteq Ready(f)'
    <3>1. f \in ClientFds
      BY <2>1 DEF ClientFds
    <3>2. f # fd
      <4>1. READABLE \in Ready(f)
        BY <2>1 DEF LoopInv, FiredInv
      <4>2. interest[f] # {}
        BY <4>1 DEF Ready
      <4>3. sock[f] # NoConn
        BY <2>1, <4>2 DEF LoopInv, TableInv
      <4>4. QED
        BY <1>1, <4>3
    <3>3. interest'[f] = interest[f] /\ sock'[f] = sock[f]
      BY <1>1, <1>4, <1>6, <3>2
    <3>4. QED
      BY <1>1, <2>1, <3>1, <3>3, ReadyKept
  <2>2. QED
    BY <1>1, <1>2, <2>1, FiredAfterTaking
<1>14. QED
  BY <1>4, <1>9, <1>10, <1>11, <1>12, <1>13 DEF LoopInv
LEMMA AcceptUnregisteredStep ==
  ASSUME LoopInv, NEW fd \in ClientFds, AcceptUnregistered(fd)
  PROVE  LoopInv'
<1> DEFINE c == Head(backlog)
<1>1. /\ TakeFired(ListenFd) /\ backlog # <<>> /\ Closed(c) /\ backlog' = Tail(backlog)
      /\ UNCHANGED <<events, interest, maxfd, alive, sock>>
  BY DEF AcceptUnregistered
<1>2. /\ c \in Conns /\ Tail(backlog) \in Seq(Conns) /\ cst[c] = "queued"
      /\ \A f \in ClientFds : sock[f] # c
      /\ \A i \in DOMAIN Tail(backlog) :
              /\ i + 1 \in DOMAIN backlog
              /\ Tail(backlog)[i] = backlog[i + 1]
              /\ Tail(backlog)[i] \in Conns
              /\ Tail(backlog)[i] # c
  BY <1>1, BacklogFacts
<1>3. /\ cst' \in [Conns -> {"new", "queued", "open", "closed"}]
      /\ sent' \in [Conns -> Nat] /\ rd' \in [Conns -> Nat]
      /\ \A d \in Conns : rd'[d] <= sent'[d] /\ sent'[d] <= MaxSend[d]
      /\ echo' \in [Conns -> Seq(Nat)]
      /\ fin' \in [Conns -> BOOLEAN] /\ rst' \in [Conns -> BOOLEAN]
      /\ cst'[c] = "closed"
      /\ \A d \in Conns : d # c =>
            /\ cst'[d] = cst[d] /\ sent'[d] = sent[d] /\ rd'[d] = rd[d]
            /\ fin'[d] = fin[d] /\ rst'[d] = rst[d]
  BY <1>1, <1>2, ClosedFacts DEF LoopInv
<1>4. ListenFd \in Fd /\ fired' \in [Fd -> Mask] /\ phase' \in {"poll", "handle"}
  BY <1>1, FdFacts, TakenFacts
<1>5. TypeOK'
  <2>1. LoopTypeOK'
    BY <1>1, <1>4 DEF LoopInv, TypeOK, LoopTypeOK
  <2>2. backlog' \in Seq(Conns)
    BY <1>1, <1>2
  <2>3. QED
    BY <1>1, <1>3, <1>4, <2>1, <2>2 DEF LoopInv, TypeOK
<1>6. SocketsInv'
  <2>1. \A d \in Conns : cst'[d] = "open" <=> cst[d] = "open"
    BY <1>2, <1>3
  <2>2. QED
    BY <1>1, <2>1 DEF LoopInv, SocketsInv
<1>7. BacklogInv'
  <2>1. ASSUME NEW i \in DOMAIN Tail(backlog) PROVE cst'[Tail(backlog)[i]] = "queued"
    <3>1. cst[backlog[i + 1]] = "queued"
      BY <1>2 DEF LoopInv, BacklogInv
    <3>2. QED
      BY <1>2, <1>3, <3>1
  <2>2. ASSUME NEW i \in DOMAIN Tail(backlog), NEW j \in DOMAIN Tail(backlog),
               Tail(backlog)[i] = Tail(backlog)[j]
        PROVE  i = j
    <3>1. i + 1 = j + 1
      BY <1>2, <2>2 DEF LoopInv, BacklogInv
    <3>2. i \in Int /\ j \in Int
      BY <1>2
    <3>3. QED
      BY <3>1, <3>2
  <2>3. QED
    BY <1>1, <2>1, <2>2 DEF BacklogInv
<1>8. TableInv' /\ MaxfdInv'
  BY <1>1 DEF LoopInv, TableInv, AgreementInv, MaxfdInv, Registered
<1>9. FiredInv'
  <2>1. ASSUME NEW f \in Fd, f # ListenFd, fired[f] # {}
        PROVE  Ready(f) \subseteq Ready(f)'
    <3>1. f \in ClientFds /\ sock[f] # c
      BY <1>2, <2>1 DEF ClientFds
    <3>2. QED
      BY <1>1, <1>3, <2>1, <3>1, ReadyKept
  <2>2. QED
    BY <1>1, <1>4, <2>1, FiredAfterTaking
<1>10. QED
  BY <1>5, <1>6, <1>7, <1>8, <1>9 DEF LoopInv

-------------------------------------------------------------------------------
(* The steps of the read handler.                                          *)
LEMMA OtherReady ==
  ASSUME LoopInv, NEW fd \in ClientFds, TakeFired(fd), backlog' = backlog,
         interest'[ListenFd] = interest[ListenFd],
         \A f \in ClientFds : f # fd => interest'[f] = interest[f] /\ sock'[f] = sock[f],
         \A d \in Conns : d # sock[fd] =>
            /\ rd[d] < sent[d] => rd'[d] < sent'[d]
            /\ fin[d] => fin'[d]
            /\ rst[d] => rst'[d]
  PROVE  FiredInv'
<1>1. fd \in Fd /\ sock[fd] \in Conns
  BY FiredFacts
<1>2. ASSUME NEW f \in Fd, f # fd, fired[f] # {}
      PROVE  Ready(f) \subseteq Ready(f)'
  <2>1. CASE f = ListenFd
    BY <2>1 DEF Ready
  <2>2. CASE f # ListenFd
    <3>1. f \in ClientFds
      BY <2>2 DEF ClientFds
    <3>2. sock[f] # sock[fd]
      BY <1>1, <1>2, <3>1, ServerAssumption DEF LoopInv, SocketsInv
    <3>3. QED
      BY <1>2, <3>1, <3>2, ReadyKept
  <2>3. QED
    BY <2>1, <2>2
<1>3. QED
  BY <1>1, <1>2, FiredAfterTaking

LEMMA ClosingStep ==
  ASSUME LoopInv, NEW fd \in ClientFds, TakeFired(fd), MainCloseFd(fd),
         UNCHANGED <<alive, backlog>>
  PROVE  LoopInv'
<1> DEFINE c == sock[fd]
<1>1. c \in Conns /\ fd \in Fd /\ fd \in Slot /\ fd # ListenFd
  BY FiredFacts
<1>2. /\ events' \in [Slot -> Mask] /\ interest' \in [Fd -> Mask]
      /\ maxfd' \in -1 .. (SetSize - 1)
      /\ events'[fd] = {} /\ interest'[fd] = {}
      /\ \A f \in Slot : f # fd => events'[f] = events[f]
      /\ \A f \in Fd : f # fd => interest'[f] = interest[f]
      /\ sock' = [sock EXCEPT ![fd] = NoConn]
      /\ MaxfdInv'
  BY CloseFacts
<1>3. Closed(c) /\ TypeOK
  BY DEF MainCloseFd, LoopInv
<1>4. /\ cst' \in [Conns -> {"new", "queued", "open", "closed"}]
      /\ sent' \in [Conns -> Nat] /\ rd' \in [Conns -> Nat]
      /\ \A d \in Conns : rd'[d] <= sent'[d] /\ sent'[d] <= MaxSend[d]
      /\ echo' \in [Conns -> Seq(Nat)]
      /\ fin' \in [Conns -> BOOLEAN] /\ rst' \in [Conns -> BOOLEAN]
      /\ cst'[c] = "closed"
      /\ \A d \in Conns : d # c =>
            /\ cst'[d] = cst[d] /\ sent'[d] = sent[d] /\ rd'[d] = rd[d]
            /\ fin'[d] = fin[d] /\ rst'[d] = rst[d]
  BY <1>1, <1>3, ClosedFacts
<1>5. fired' \in [Fd -> Mask] /\ phase' \in {"poll", "handle"}
  BY <1>1, TakenFacts
<1>6. /\ sock \in [Fd -> Conns \union {NoConn}] /\ NoConn \notin Conns
      /\ sock' \in [Fd -> Conns \union {NoConn}]
      /\ sock'[fd] = NoConn /\ (\A f \in Fd : f # fd => sock'[f] = sock[f])
  BY <1>1, <1>2, ServerAssumption DEF LoopInv, TypeOK
<1>7. TypeOK'
  <2>1. LoopTypeOK'
    BY <1>2, <1>5 DEF LoopTypeOK
  <2>2. QED
    BY <1>4, <1>5, <1>6, <2>1 DEF LoopInv, TypeOK
<1>8. SocketsInv'
  <2>1. sock'[ListenFd] = NoConn
    BY <1>1, <1>6, FdFacts DEF LoopInv, SocketsInv
  <2>2. ASSUME NEW d \in Conns
        PROVE  cst'[d] = "open" <=> \E f \in ClientFds : sock'[f] = d
    <3>1. CASE d = c
      <4>1. \A f \in ClientFds : sock'[f] # c
        BY <1>1, <1>6, FdFacts DEF LoopInv, SocketsInv
      <4>2. QED
        BY <1>4, <3>1, <4>1
    <3>2. CASE d # c
      <4>1. cst[d] = "open" <=> \E f \in ClientFds : sock[f] = d
        BY DEF LoopInv, SocketsInv
      <4>2. \A f \in ClientFds : sock'[f] = d <=> sock[f] = d
        BY <1>6, <3>2, FdFacts
      <4>3. QED
        BY <1>4, <3>2, <4>1, <4>2
    <3>3. QED
      BY <3>1, <3>2
  <2>3. \A f, g \in ClientFds : sock'[f] = sock'[g] /\ sock'[f] # NoConn => f = g
    BY <1>6, FdFacts DEF LoopInv, SocketsInv
  <2>4. QED
    BY <2>1, <2>2, <2>3 DEF SocketsInv
<1>9. BacklogInv'
  <2>1. cst[c] = "open"
    BY FiredFacts
  <2>2. backlog \in Seq(Conns) /\ backlog' = backlog
    BY DEF LoopInv, TypeOK
  <2>3. \A i \in DOMAIN backlog : backlog[i] \in Conns /\ cst[backlog[i]] = "queued"
    BY <2>2 DEF LoopInv, BacklogInv
  <2>4. \A i \in DOMAIN backlog : cst'[backlog[i]] = "queued"
    BY <1>4, <2>1, <2>3
  <2>5. QED
    BY <2>2, <2>4 DEF LoopInv, BacklogInv
<1>10. TableInv'
  <2>1. AgreementInv'
    BY <1>1, <1>2 DEF LoopInv, TableInv, AgreementInv
  <2>2. \A f \in Fd : interest'[f] = IF f = ListenFd \/ sock'[f] # NoConn THEN {READABLE} ELSE {}
    BY <1>1, <1>2, <1>6 DEF LoopInv, TableInv
  <2>3. QED
    BY <2>1, <2>2 DEF TableInv
<1>11. FiredInv'
  <2>1. interest'[ListenFd] = interest[ListenFd]
    BY <1>1, <1>2, FdFacts
  <2>2. \A f \in ClientFds : f # fd => interest'[f] = interest[f] /\ sock'[f] = sock[f]
    BY <1>2, <1>6, FdFacts
  <2>3. QED
    BY <1>4, <2>1, <2>2, OtherReady
<1>12. QED
  BY <1>2, <1>7, <1>8, <1>9, <1>10, <1>11 DEF LoopInv

(* Reading, with or without an answer.                                     *)
LEMMA ReadingStep ==
  ASSUME LoopInv, NEW fd \in ClientFds, TakeFired(fd),
         rd' = [rd EXCEPT ![sock[fd]] = @ + ReadSize(sock[fd])],
         echo' \in [Conns -> Seq(Nat)], alive' \in BOOLEAN,
         UNCHANGED <<events, interest, maxfd, backlog, sock, cst, clientVars>>
  PROVE  LoopInv'
<1> DEFINE c == sock[fd]
<1>1. c \in Conns /\ fd \in Fd
  BY FiredFacts
<1>2. fired' \in [Fd -> Mask] /\ phase' \in {"poll", "handle"}
  BY <1>1, TakenFacts
<1>3. rd[c] + ReadSize(c) \in Nat /\ rd[c] + ReadSize(c) <= sent[c]
  BY <1>1, ReadSizeFacts DEF LoopInv
<1>4. sent' = sent /\ fin' = fin /\ rst' = rst
  BY DEF clientVars
<1>5. /\ rd \in [Conns -> Nat] /\ rd' \in [Conns -> Nat]
      /\ \A d \in Conns : rd'[d] <= sent[d] /\ sent[d] <= MaxSend[d]
      /\ \A d \in Conns : d # c => rd'[d] = rd[d]
  BY <1>1, <1>3 DEF LoopInv, TypeOK
<1>6. TypeOK'
  <2>1. LoopTypeOK'
    BY <1>2 DEF LoopInv, TypeOK, LoopTypeOK
  <2>2. QED
    BY <1>2, <1>4, <1>5, <2>1 DEF LoopInv, TypeOK
<1>7. SocketsInv' /\ BacklogInv'
  BY DEF LoopInv, SocketsInv, BacklogInv
<1>8. TableInv' /\ MaxfdInv'
  BY DEF LoopInv, TableInv, AgreementInv, MaxfdInv, Registered
<1>9. FiredInv'
  BY <1>4, <1>5, OtherReady
<1>10. QED
  BY <1>6, <1>7, <1>8, <1>9 DEF LoopInv

LEMMA EchoStep ==
  ASSUME LoopInv, NEW fd \in ClientFds, Echo(fd)
  PROVE  LoopInv'
<1> DEFINE c == sock[fd]
<1>1. TakeFired(fd)
  BY DEF Echo
<1>2. c \in Conns /\ TypeOK
  BY <1>1, FiredFacts DEF LoopInv
<1>3. PICK n \in 1 .. BufLen : echo' = [echo EXCEPT ![c] = @ \o SubSeq(Buffer(c), 1, n)]
  BY DEF Echo
<1>4. SubSeq(Buffer(c), 1, n) \in Seq(Nat) /\ echo \in [Conns -> Seq(Nat)]
  BY <1>2, BufferFacts DEF TypeOK
<1>5. echo[c] \o SubSeq(Buffer(c), 1, n) \in Seq(Nat)
  BY <1>2, <1>4
<1>6. echo' \in [Conns -> Seq(Nat)]
  BY <1>2, <1>3, <1>4, <1>5
<1>7. alive' \in BOOLEAN
  BY <1>2 DEF Echo, TypeOK
<1>8. QED
  BY <1>1, <1>6, <1>7, ReadingStep DEF Echo

LEMMA SignalledStep ==
  ASSUME LoopInv, NEW fd \in ClientFds, EchoSignalled(fd)
  PROVE  LoopInv'
<1>1. TakeFired(fd) /\ alive' \in BOOLEAN
  BY DEF EchoSignalled
<1>2. echo' \in [Conns -> Seq(Nat)]
  BY DEF EchoSignalled, LoopInv, TypeOK
<1>3. QED
  BY <1>1, <1>2, ReadingStep DEF EchoSignalled

-------------------------------------------------------------------------------
LEMMA LoopInvStep == LoopInv /\ [Next]_vars => LoopInv'
<1> SUFFICES ASSUME LoopInv, [Next]_vars PROVE LoopInv'
  OBVIOUS
<1>1. CASE \E c \in Conns : Client(c)
  BY <1>1, ClientStep
<1>2. CASE Poll
  BY <1>2, PollStep
<1>3. CASE MainAcceptTcpHandler
  BY <1>3, AcceptFailsStep, AcceptStep, AcceptUnregisteredStep DEF MainAcceptTcpHandler
<1>4. ASSUME NEW fd \in ClientFds, MainReadFromClient(fd) PROVE LoopInv'
  <2>1. CASE Echo(fd)
    BY <2>1, EchoStep
  <2>2. CASE EchoFails(fd)
    BY <2>2, ClosingStep DEF EchoFails
  <2>3. CASE EchoSignalled(fd)
    BY <2>3, SignalledStep
  <2>4. CASE ReadNothing(fd)
    BY <2>4, ClosingStep DEF ReadNothing
  <2>5. QED
    BY <1>4, <2>1, <2>2, <2>3, <2>4 DEF MainReadFromClient
<1>5. CASE UNCHANGED vars
  <2>1. UNCHANGED <<events, interest, maxfd, fired, phase, alive, backlog, sock, cst, rd, echo,
                    sent, fin, rst>>
    BY <1>5 DEF vars, loopVars, clientVars
  <2>2. TypeOK' /\ SocketsInv' /\ BacklogInv'
    BY <2>1 DEF LoopInv, TypeOK, LoopTypeOK, SocketsInv, BacklogInv
  <2>3. TableInv' /\ MaxfdInv'
    BY <2>1 DEF LoopInv, TableInv, AgreementInv, MaxfdInv, Registered
  <2>4. \A f \in Fd : Ready(f)' = Ready(f)
    BY <2>1 DEF Ready
  <2>5. FiredInv'
    BY <2>1, <2>4 DEF LoopInv, FiredInv
  <2>6. QED
    BY <2>2, <2>3, <2>5 DEF LoopInv
<1>6. QED
  BY <1>1, <1>2, <1>3, <1>4, <1>5 DEF Next

(* Every part of LoopInv holds in every state of the server.               *)
THEOREM LoopInvariant == Spec => []LoopInv
<1>1. QED
  BY InitLoopInv, LoopInvStep, PTL DEF Spec

(* The state of the loop and of the server always has its type; maxfd lies *)
(* in the table, and MainReadFromClient of main.c never reads more of a    *)
(* connection than its client has sent.                                    *)
THEOREM TypeCorrect == Spec => []TypeOK
<1>1. LoopInv => TypeOK
  BY DEF LoopInv
<1>2. QED
  BY <1>1, LoopInvariant, PTL

(* A connection is behind one descriptor at most, and is open exactly as   *)
(* long as it is behind one (the accept and close paths of main.c).        *)
THEOREM SocketsConsistent == Spec => []SocketsInv
<1>1. LoopInv => SocketsInv
  BY DEF LoopInv
<1>2. QED
  BY <1>1, LoopInvariant, PTL

(* The event table of ae.c and the interest list of the kernel agree,      *)
(* exactly the open descriptors are watched, and maxfd is the highest of   *)
(* them (aeCreateFileEvent, aeApiAddEvent, aeDeleteFileEvent with its      *)
(* downward search, aeApiDelEvent and close).                              *)
THEOREM RegistrationConsistent == Spec => []RegistrationInv
<1>1. LoopInv => RegistrationInv
  BY DEF LoopInv, RegistrationInv
<1>2. QED
  BY <1>1, LoopInvariant, PTL

(* No fired event is stale when aeProcessEvents comes to it, whatever the  *)
(* callbacks before it and the clients have done since the poll.           *)
THEOREM FiredCurrent == Spec => []FiredInv
<1>1. LoopInv => FiredInv
  BY DEF LoopInv
<1>2. QED
  BY <1>1, LoopInvariant, PTL
-------------------------------------------------------------------------------
(* What has been echoed.                                                   *)

(* Units below the padding apart, the list is in order and holds nothing   *)
(* above a limit.                                                          *)
Ordered(s) == \A i, j \in DOMAIN s : i < j /\ s[i] # Padding /\ s[j] # Padding => s[i] < s[j]
UpTo(s, n) == \A i \in DOMAIN s : s[i] <= n

(* The units that were echoed were read, not only sent: what is read next  *)
(* is above all of them.                                                   *)
EchoedInv == \A c \in Conns : UpTo(echo[c], rd[c]) /\ Ordered(echo[c])

LEMMA ConcatOrdered ==
  ASSUME NEW s \in Seq(Nat), NEW t \in Seq(Nat), NEW m \in Nat, NEW n \in Nat, m <= n,
         UpTo(s, m), Ordered(s), UpTo(t, n), Ordered(t),
         \A i \in DOMAIN t : t[i] = Padding \/ t[i] > m
  PROVE  UpTo(s \o t, n) /\ Ordered(s \o t)
<1> DEFINE u == s \o t
           k == Len(s)
<1>1. /\ k \in Nat /\ Len(t) \in Nat /\ DOMAIN s = 1 .. k /\ DOMAIN t = 1 .. Len(t)
      /\ u \in Seq(Nat) /\ DOMAIN u = 1 .. (k + Len(t))
      /\ \A i \in 1 .. k : u[i] = s[i]
      /\ \A i \in (k + 1) .. (k + Len(t)) : u[i] = t[i - k]
      /\ (\A i \in 1 .. k : s[i] \in Nat) /\ (\A i \in 1 .. Len(t) : t[i] \in Nat)
  OBVIOUS
<1> HIDE DEF u, k
<1>2. \A i \in DOMAIN u : \/ i \in 1 .. k
                          \/ i \in (k + 1) .. (k + Len(t)) /\ i - k \in 1 .. Len(t)
  BY <1>1
<1>3. ASSUME NEW i \in 1 .. k PROVE u[i] = s[i] /\ s[i] \in Nat /\ s[i] <= m
  BY <1>1 DEF UpTo
<1>4. ASSUME NEW i \in (k + 1) .. (k + Len(t)), i - k \in 1 .. Len(t)
      PROVE  /\ u[i] = t[i - k] /\ t[i - k] \in Nat /\ t[i - k] <= n
             /\ t[i - k] = Padding \/ t[i - k] > m
  BY <1>1, <1>4 DEF UpTo
<1>5. ASSUME NEW i \in DOMAIN u PROVE u[i] <= n
  <2>1. CASE i \in 1 .. k
    BY <1>3, <2>1
  <2>2. CASE i \in (k + 1) .. (k + Len(t)) /\ i - k \in 1 .. Len(t)
    BY <1>4, <2>2
  <2>3. QED
    BY <1>2, <2>1, <2>2
<1>6. ASSUME NEW i \in DOMAIN u, NEW j \in DOMAIN u, i < j, u[i] # Padding, u[j] # Padding
      PROVE  u[i] < u[j]
  <2>1. CASE i \in 1 .. k /\ j \in 1 .. k
    BY <1>1, <1>3, <1>6, <2>1 DEF Ordered
  <2>2. CASE i \in 1 .. k /\ j \in (k + 1) .. (k + Len(t)) /\ j - k \in 1 .. Len(t)
    BY <1>3, <1>4, <1>6, <2>2, SMTT(30)
  <2>3. CASE /\ i \in (k + 1) .. (k + Len(t)) /\ i - k \in 1 .. Len(t)
             /\ j \in (k + 1) .. (k + Len(t)) /\ j - k \in 1 .. Len(t)
    <3>1. i - k < j - k
      BY <1>1, <1>6, <2>3
    <3>2. u[i] = t[i - k] /\ u[j] = t[j - k]
      BY <1>4, <2>3
    <3>3. QED
      BY <1>1, <1>6, <2>3, <3>1, <3>2 DEF Ordered
  <2>4. ~ (i \in (k + 1) .. (k + Len(t)) /\ j \in 1 .. k)
    BY <1>1, <1>6
  <2>5. QED
    BY <1>2, <2>1, <2>2, <2>3, <2>4
<1>7. QED
  BY <1>5, <1>6 DEF UpTo, Ordered, u

(* A piece of the buffer holds what was read, in order, and padding.       *)
LEMMA BufferOrdered ==
  ASSUME TypeOK, NEW c \in Conns, NEW n \in 1 .. BufLen
  PROVE  LET b == SubSeq(Buffer(c), 1, n) IN
         /\ UpTo(b, rd[c] + ReadSize(c)) /\ Ordered(b)
         /\ \A i \in DOMAIN b : b[i] = Padding \/ b[i] > rd[c]
<1> DEFINE b == SubSeq(Buffer(c), 1, n)
<1>1. BufLen \in Nat /\ rd[c] \in Nat /\ ReadSize(c) \in Nat
  BY ServerAssumption, ReadSizeFacts DEF TypeOK
<1>2. b \in Seq(Nat) /\ Len(b) = n /\ \A i \in 1 .. n : b[i] = Buffer(c)[i]
  BY BufferFacts
<1> HIDE DEF b
<1>3. DOMAIN b = 1 .. n
  BY <1>2
<1>4. ASSUME NEW i \in 1 .. n
      PROVE  b[i] = IF i <= ReadSize(c) THEN rd[c] + i ELSE 0
  <2>1. i \in 1 .. BufLen
    BY <1>1
  <2>2. Buffer(c)[i] = IF i <= ReadSize(c) THEN rd[c] + i ELSE Padding
    BY <2>1 DEF Buffer
  <2>3. QED
    BY <1>2, <2>2 DEF Padding
<1>5. \A i \in 1 .. n : b[i] <= rd[c] + ReadSize(c) /\ (b[i] = 0 \/ b[i] > rd[c])
  BY <1>1, <1>4
<1>6. \A i, j \in 1 .. n : i < j /\ b[i] # 0 /\ b[j] # 0 => b[i] < b[j]
  BY <1>1, <1>4
<1>7. QED
  BY <1>3, <1>5, <1>6 DEF UpTo, Ordered, Padding, b

LEMMA EchoedStep ==
  ASSUME LoopInv, EchoedInv, [Next]_vars
  PROVE  EchoedInv'
<1>0. /\ TypeOK /\ rd \in [Conns -> Nat] /\ echo \in [Conns -> Seq(Nat)]
  BY DEF LoopInv, TypeOK
<1>1. ASSUME UNCHANGED <<rd, echo>> PROVE EchoedInv'
  BY <1>1 DEF EchoedInv
<1>2. ASSUME NEW c \in Conns, Closed(c) PROVE EchoedInv'
  <2>1. rd' = [rd EXCEPT ![c] = 0] /\ echo' = [echo EXCEPT ![c] = <<>>]
    BY <1>2 DEF Closed
  <2>2. UpTo(<<>>, 0) /\ Ordered(<<>>)
    BY DEF UpTo, Ordered
  <2>3. \A d \in Conns : /\ rd'[d] = IF d = c THEN 0 ELSE rd[d]
                         /\ echo'[d] = IF d = c THEN <<>> ELSE echo[d]
    BY <1>0, <2>1
  <2>4. QED
    BY <2>2, <2>3 DEF EchoedInv
<1>3. ASSUME NEW fd \in ClientFds, Echo(fd) PROVE EchoedInv'
  <2> DEFINE c == sock[fd]
             r == rd[c] + ReadSize(c)
  <2>1. TakeFired(fd) /\ rd' = [rd EXCEPT ![c] = r]
    BY <1>3 DEF Echo
  <2>2. c \in Conns
    BY <2>1, FiredFacts
  <2>3. PICK n \in 1 .. BufLen : echo' = [echo EXCEPT ![c] = @ \o SubSeq(Buffer(c), 1, n)]
    BY <1>3 DEF Echo
  <2> DEFINE b == SubSeq(Buffer(c), 1, n)
  <2>4. UpTo(b, r) /\ Ordered(b) /\ (\A i \in DOMAIN b : b[i] = Padding \/ b[i] > rd[c])
    BY <1>0, <2>2, BufferOrdered
  <2>5. b \in Seq(Nat)
    BY <1>0, <2>2, BufferFacts
  <2>6. rd[c] \in Nat /\ r \in Nat /\ rd[c] <= r /\ echo[c] \in Seq(Nat)
    <3>1. rd[c] \in Nat /\ ReadSize(c) \in 0 .. BufLen /\ BufLen \in Nat /\ echo[c] \in Seq(Nat)
      BY <1>0, <2>2, ReadSizeFacts, ServerAssumption
    <3>2. QED
      BY <3>1
  <2>7. UpTo(echo[c], rd[c]) /\ Ordered(echo[c])
    BY <2>2 DEF EchoedInv
  <2> HIDE DEF b, r
  <2>8. UpTo(echo[c] \o b, r) /\ Ordered(echo[c] \o b)
    BY <2>4, <2>5, <2>6, <2>7, ConcatOrdered
  <2>9. \A d \in Conns : /\ rd'[d] = IF d = c THEN r ELSE rd[d]
                         /\ echo'[d] = IF d = c THEN echo[c] \o b ELSE echo[d]
    BY <1>0, <2>1, <2>2, <2>3 DEF b
  <2> HIDE DEF c
  <2>10. QED
    BY <2>8, <2>9 DEF EchoedInv
<1>4. ASSUME NEW fd \in ClientFds, EchoSignalled(fd) PROVE EchoedInv'
  <2> DEFINE c == sock[fd]
  <2>1. TakeFired(fd) /\ rd' = [rd EXCEPT ![c] = @ + ReadSize(c)] /\ echo' = echo
    BY <1>4 DEF EchoSignalled
  <2>2. c \in Conns
    BY <2>1, FiredFacts
  <2>3. ReadSize(c) \in Nat
    BY <1>0, <2>2, ReadSizeFacts, ServerAssumption
  <2> HIDE DEF c
  <2>4. \A d \in Conns : rd[d] \in Nat /\ rd'[d] \in Nat /\ rd[d] <= rd'[d]
    BY <1>0, <2>1, <2>2, <2>3
  <2>5. ASSUME NEW d \in Conns, NEW i \in DOMAIN echo[d] PROVE echo[d][i] <= rd'[d]
    <3>1. echo[d] \in Seq(Nat)
      BY <1>0
    <3>2. echo[d][i] \in Nat /\ echo[d][i] <= rd[d]
      BY <3>1 DEF EchoedInv, UpTo
    <3>3. QED
      BY <2>4, <3>2
  <2>6. QED
    BY <2>1, <2>5 DEF EchoedInv, UpTo
<1>5. ASSUME NEW fd \in ClientFds, EchoFails(fd) \/ ReadNothing(fd) PROVE EchoedInv'
  <2>1. TakeFired(fd) /\ Closed(sock[fd])
    BY <1>5 DEF EchoFails, ReadNothing, MainCloseFd
  <2>2. QED
    BY <1>2, <2>1, FiredFacts
<1>6. ASSUME NEW fd \in ClientFds, AcceptUnregistered(fd) PROVE EchoedInv'
  BY <1>2, <1>6, BacklogFacts DEF AcceptUnregistered
<1>7. CASE \E c \in Conns : Client(c)
  BY <1>1, <1>7 DEF Client, ClientConnect, ClientSend, ClientClose, ClientReset
<1>8. CASE Poll \/ AcceptFails \/ \E fd \in ClientFds : Accept(fd)
  BY <1>1, <1>8 DEF Poll, AcceptFails, Accept
<1>9. CASE UNCHANGED vars
  BY <1>1, <1>9 DEF vars
<1>10. QED
  BY <1>3, <1>4, <1>5, <1>6, <1>7, <1>8, <1>9
     DEF Next, MainAcceptTcpHandler, MainReadFromClient

(* What a client gets back is what it sent, in order and once: whatever    *)
(* part of the buffer write takes, and wherever reads cut the stream.      *)
THEOREM EchoFaithful == Spec => []EchoInv
<1>1. Init => EchoedInv
  BY DEF Init, EchoedInv, UpTo, Ordered
<1>2. LoopInv /\ EchoedInv => EchoInv
  <2> SUFFICES ASSUME LoopInv, EchoedInv, NEW c \in Conns, NEW i \in DOMAIN echo[c]
               PROVE  echo[c][i] <= sent[c]
    BY DEF EchoInv, EchoedInv, Ordered
  <2>1. /\ rd[c] \in Nat /\ sent[c] \in Nat /\ rd[c] <= sent[c] /\ echo[c] \in Seq(Nat)
    BY DEF LoopInv, TypeOK
  <2>2. echo[c][i] \in Nat /\ echo[c][i] <= rd[c]
    BY <2>1 DEF EchoedInv, UpTo
  <2>3. QED
    BY <2>1, <2>2
<1>3. QED
  BY <1>1, <1>2, LoopInvariant, EchoedStep, PTL DEF Spec

--------------------------------------------------------------------------------
(* Time events.                                                            *)

\* A number of seconds in units of time.
Span(n) == n * Second

LEMMA Parts ==
  ASSUME NEW t \in Nat
  PROVE  /\ Sec(t) \in Nat
         /\ Ms(t) \in 0 .. (Second - 1)
         /\ t = Span(Sec(t)) + Ms(t)
<1>1. ASSUME NEW s \in Nat \ {0}
      PROVE  t \div s \in Nat /\ t % s \in 0 .. (s - 1)
  OBVIOUS
<1>2. ASSUME NEW s \in Nat \ {0} PROVE t = (t \div s) * s + (t % s)
  OBVIOUS
<1>3. Second \in Nat \ {0}
  BY TimersAssumption
<1>4. t \div Second \in Nat /\ t % Second \in 0 .. (Second - 1)
  BY <1>1, <1>3
<1>5. t = (t \div Second) * Second + (t % Second)
  BY <1>2, <1>3
<1>6. QED
  BY <1>4, <1>5 DEF Sec, Ms, Span

LEMMA SpanType ==
  ASSUME NEW a \in Int
  PROVE  Span(a) \in Int /\ (a \in Nat => Span(a) \in Nat)
<1>1. ASSUME NEW s \in Nat PROVE a * s \in Int /\ (a \in Nat => a * s \in Nat)
  OBVIOUS
<1>2. QED
  BY <1>1, TimersAssumption DEF Span

LEMMA SpanOrder ==
  ASSUME NEW a \in Int, NEW b \in Int, a < b
  PROVE  Span(a) + Second <= Span(b)
<1>1. ASSUME NEW s \in Nat PROVE a * s + s <= b * s
  OBVIOUS
<1>2. QED
  BY <1>1, TimersAssumption DEF Span

LEMMA SpanSum ==
  ASSUME NEW a \in Int, NEW b \in Int
  PROVE  Span(a + b) = Span(a) + Span(b) /\ Span(a - b) = Span(a) - Span(b)
<1>1. ASSUME NEW s \in Nat
      PROVE (a + b) * s = a * s + b * s /\ (a - b) * s = a * s - b * s
  OBVIOUS
<1>2. QED
  BY <1>1, TimersAssumption DEF Span

LEMMA SpanUnit == Span(0) = 0 /\ Span(1) = Second
<1>1. ASSUME NEW s \in Nat PROVE 0 * s = 0 /\ 1 * s = s
  OBVIOUS
<1>2. QED
  BY <1>1, TimersAssumption DEF Span

LEMMA InstantNat ==
  ASSUME NEW m \in Moment
  PROVE  /\ m.sec \in Nat /\ m.ms \in 0 .. (Second - 1)
         /\ Span(m.sec) \in Nat
         /\ Instant(m) = Span(m.sec) + m.ms
         /\ Instant(m) \in Nat
<1>1. m.sec \in Nat /\ m.ms \in 0 .. (Second - 1)
  BY DEF Moment
<1>2. Span(m.sec) \in Nat
  <2>1. m.sec \in Int
    BY <1>1
  <2>2. QED
    BY <1>1, <2>1, SpanType
<1>3. Instant(m) = Span(m.sec) + m.ms
  BY DEF Instant, Span
<1>4. QED
  BY <1>1, <1>2, <1>3, TimersAssumption

(* Time does not run backwards in seconds when it does not in smaller      *)
(* units.                                                                  *)
LEMMA SecMonotone ==
  ASSUME NEW t \in Nat, NEW u \in Nat, t <= u
  PROVE  Sec(t) <= Sec(u)
<1>1. /\ Sec(t) \in Nat /\ Ms(t) \in 0 .. (Second - 1) /\ t = Span(Sec(t)) + Ms(t)
      /\ Sec(u) \in Nat /\ Ms(u) \in 0 .. (Second - 1) /\ u = Span(Sec(u)) + Ms(u)
  <2>1. Sec(t) \in Nat /\ Ms(t) \in 0 .. (Second - 1) /\ t = Span(Sec(t)) + Ms(t)
    BY Parts
  <2>2. Sec(u) \in Nat /\ Ms(u) \in 0 .. (Second - 1) /\ u = Span(Sec(u)) + Ms(u)
    BY Parts
  <2>3. QED
    BY <2>1, <2>2
<1>s. Sec(t) \in Int /\ Sec(u) \in Int
  BY <1>1
<1>2. /\ Sec(u) < Sec(t) => Span(Sec(u)) + Second <= Span(Sec(t))
      /\ Span(Sec(t)) \in Nat /\ Span(Sec(u)) \in Nat
  <2>1. Span(Sec(t)) \in Nat /\ Span(Sec(u)) \in Nat
    BY <1>1, <1>s, SpanType
  <2>2. Sec(u) < Sec(t) => Span(Sec(u)) + Second <= Span(Sec(t))
    BY <1>s, SpanOrder
  <2>3. QED
    BY <2>1, <2>2
<1>3. QED
  BY <1>1, <1>2, TimersAssumption

(* The time computed by parts, with its carry, is the time asked for.      *)
LEMMA AddedTime ==
  ASSUME now \in Nat, NEW d \in Nat
  PROVE  /\ aeAddMillisecondsToNow(d) \in Moment
         /\ Instant(aeAddMillisecondsToNow(d)) = now + d
<1>1. /\ Sec(now) \in Nat /\ Ms(now) \in 0 .. (Second - 1) /\ now = Span(Sec(now)) + Ms(now)
      /\ Sec(d) \in Nat /\ Ms(d) \in 0 .. (Second - 1) /\ d = Span(Sec(d)) + Ms(d)
  BY Parts
<1>2. Second \in Nat
  BY TimersAssumption
<1> DEFINE s == Sec(now) + Sec(d)
           ms == Ms(now) + Ms(d)
<1>3. s \in Nat /\ s + 1 \in Nat
  BY <1>1
<1>4. /\ Span(Sec(now)) \in Nat /\ Span(Sec(d)) \in Nat
      /\ Span(s) = Span(Sec(now)) + Span(Sec(d))
      /\ Span(s + 1) = Span(s) + Second
  <2>1. Span(Sec(now)) \in Nat /\ Span(Sec(d)) \in Nat
    BY <1>1, SpanType
  <2>2. Span(s) = Span(Sec(now)) + Span(Sec(d))
    BY <1>1, SpanSum
  <2>3. Span(s + 1) = Span(s) + Span(1)
    BY <1>3, SpanSum
  <2>4. QED
    BY <2>1, <2>2, <2>3, SpanUnit
<1>5. aeAddMillisecondsToNow(d) =
        IF ms >= Second THEN [sec |-> s + 1, ms |-> ms - Second]
                        ELSE [sec |-> s + 0, ms |-> ms]
  BY DEF aeAddMillisecondsToNow, Sec, Ms
<1>6. CASE ms >= Second
  <2>1. aeAddMillisecondsToNow(d) = [sec |-> s + 1, ms |-> ms - Second]
    BY <1>5, <1>6
  <2>2. ms - Second \in 0 .. (Second - 1)
    BY <1>1, <1>2, <1>6
  <2>3. Instant(aeAddMillisecondsToNow(d)) = Span(s + 1) + (ms - Second)
    BY <2>1 DEF Instant, Span
  <2>4. QED
    BY <1>1, <1>2, <1>3, <1>4, <2>1, <2>2, <2>3 DEF Moment
<1>7. CASE ~ (ms >= Second)
  <2>0. s + 0 = s
    BY <1>3
  <2>1. aeAddMillisecondsToNow(d) = [sec |-> s, ms |-> ms]
    BY <1>5, <1>7, <2>0
  <2>2. ms \in 0 .. (Second - 1)
    BY <1>1, <1>2, <1>7
  <2>3. Instant(aeAddMillisecondsToNow(d)) = Span(s) + ms
    BY <2>1 DEF Instant, Span
  <2>4. QED
    BY <1>1, <1>2, <1>3, <1>4, <2>1, <2>2, <2>3 DEF Moment
<1>8. QED
  BY <1>6, <1>7

(* Comparing second and millisecond one after the other compares times.    *)
LEMMA DueMeans ==
  ASSUME now \in Nat, NEW i, when[i] \in Moment
  PROVE  Due(i) <=> now >= Instant(when[i])
<1> DEFINE m == when[i]
<1>1. Sec(now) \in Nat /\ Ms(now) \in 0 .. (Second - 1) /\ now = Span(Sec(now)) + Ms(now)
  BY Parts
<1>2. m.sec \in Nat /\ m.ms \in 0 .. (Second - 1) /\ Instant(m) = Span(m.sec) + m.ms
      /\ Span(m.sec) \in Nat
  BY InstantNat
<1>3. /\ Span(Sec(now)) \in Nat
      /\ Sec(now) < m.sec => Span(Sec(now)) + Second <= Span(m.sec)
      /\ m.sec < Sec(now) => Span(m.sec) + Second <= Span(Sec(now))
  BY <1>1, <1>2, SpanType, SpanOrder
<1>4. QED
  BY <1>1, <1>2, <1>3, TimersAssumption DEF Due

(* The sleeping time is the distance to a time that lies ahead, and less   *)
(* than a second for one that lies behind.                                 *)
LEMMA DistanceMeans ==
  ASSUME now \in Nat, NEW m \in Moment
  PROVE  /\ Distance(m) \in Nat
         /\ Instant(m) >= now => now + Distance(m) = Instant(m)
         /\ Instant(m) < now => Distance(m) < Second
<1>0. Second \in Nat \ {0}
  BY TimersAssumption
<1>1. Sec(now) \in Nat /\ Ms(now) \in 0 .. (Second - 1) /\ now = Span(Sec(now)) + Ms(now)
  BY Parts
<1>2. m.sec \in Nat /\ m.ms \in 0 .. (Second - 1) /\ Instant(m) = Span(m.sec) + m.ms
      /\ Span(m.sec) \in Nat
  BY InstantNat
<1> DEFINE b == IF m.ms < Ms(now) THEN 1 ELSE 0
           s == m.sec - Sec(now) - b
           ms == m.ms - Ms(now) + Span(b)
<1>3. b \in {0, 1} /\ s \in Int /\ m.sec - Sec(now) \in Int
  BY <1>1, <1>2
<1>4. /\ Span(Sec(now)) \in Nat /\ Span(s) \in Int
      /\ Span(0) = 0 /\ Span(1) = Second
      /\ s < 0 => Span(s) + Second <= Span(0)
      /\ s \in Nat => Span(s) \in Nat
      /\ Span(m.sec - Sec(now)) = Span(m.sec) - Span(Sec(now))
      /\ Span(s) = Span(m.sec - Sec(now)) - Span(b)
  <2>1. /\ Span(Sec(now)) \in Nat /\ Span(s) \in Int
        /\ s \in Nat => Span(s) \in Nat
    BY <1>1, <1>3, SpanType
  <2>2. s < 0 => Span(s) + Second <= Span(0)
    <3>1. s \in Int /\ 0 \in Int
      BY <1>3
    <3> HIDE DEF s
    <3>2. QED
      BY <3>1, SpanOrder
  <2>3. Span(m.sec - Sec(now)) = Span(m.sec) - Span(Sec(now))
    <3>1. m.sec \in Int /\ Sec(now) \in Int
      BY <1>1, <1>2
    <3>2. QED
      BY <3>1, SpanSum
  <2>4. Span(s) = Span(m.sec - Sec(now)) - Span(b)
    <3> DEFINE k == m.sec - Sec(now)
    <3>1. k \in Int /\ b \in Int /\ s = k - b
      BY <1>3
    <3> HIDE DEF s, k, b
    <3>2. Span(k - b) = Span(k) - Span(b)
      BY <3>1, SpanSum
    <3>3. QED
      BY <3>1, <3>2 DEF k
  <2>5. QED
    BY <2>1, <2>2, <2>3, <2>4, SpanUnit
<1>5. Span(b) = IF m.ms < Ms(now) THEN Second ELSE 0
  BY <1>4
<1>6. ms \in 0 .. (Second - 1)
  BY <1>0, <1>1, <1>2, <1>5
<1>7. Distance(m) = Span(IF s < 0 THEN 0 ELSE s) + ms
  BY <1>5 DEF Distance, Span
<1>8. Instant(m) = now + Span(s) + ms
  BY <1>0, <1>1, <1>2, <1>3, <1>4, <1>5
<1> HIDE DEF s, ms
<1>9. CASE s < 0
  <2>1. Distance(m) = ms
    BY <1>4, <1>6, <1>7, <1>9
  <2>2. QED
    BY <1>0, <1>3, <1>4, <1>6, <1>8, <1>9, <2>1
<1>10. CASE ~ (s < 0)
  <2>1. Distance(m) = Span(s) + ms /\ s \in Nat
    BY <1>3, <1>7, <1>10
  <2>2. QED
    BY <1>0, <1>1, <1>4, <1>6, <1>8, <2>1
<1>11. QED
  BY <1>9, <1>10

-------------------------------------------------------------------------------
LEMMA IdsFacts == Ids \subseteq Nat /\ 0 \in Ids /\ Nil \notin Ids
  BY TimersAssumption DEF Ids, Nil

LEMMA FirstFacts ==
  ASSUME NEW S \in SUBSET Ids
  PROVE  /\ First(S) \in S \union {Nil}
         /\ S # {} => First(S) \in S
<1>1. CASE S = {}
  BY <1>1 DEF First
<1>2. CASE S # {}
  <2>1. S \subseteq -1 .. MaxIds /\ MaxIds \in Nat
    BY TimersAssumption DEF Ids
  <2>2. \E m \in S : \A j \in S : j <= m
    BY <1>2, <2>1, Highest
  <2>3. QED
    BY <1>2, <2>2 DEF First
<1>3. QED
  BY <1>1, <1>2

(* aeSearchNearestTimer returns a timer of the list that is due first.     *)
LEMMA NearestFacts ==
  ASSUME TimersTypeOK, live # {}
  PROVE  /\ Nearest \in live
         /\ \A j \in live : Instant(when[Nearest]) <= Instant(when[j])
<1> DEFINE Times == {Instant(when[i]) : i \in live}
           S == {i \in live : \A j \in live : Instant(when[i]) <= Instant(when[j])}
<1>1. \A i \in live : when[i] \in Moment
  BY DEF TimersTypeOK
<1>2. Times \subseteq Nat /\ Times # {}
  BY <1>1, InstantNat
<1>3. PICK t \in Times : \A u \in Times : t <= u
  <2> HIDE DEF Times
  <2>1. QED
    BY <1>2, Lowest
<1>4. S # {} /\ S \in SUBSET Ids
  BY <1>3 DEF TimersTypeOK
<1>5. First(S) \in S
  <2> HIDE DEF S
  <2>1. QED
    BY <1>4, FirstFacts
<1>6. QED
  BY <1>5 DEF Nearest

-------------------------------------------------------------------------------
(* The walk stands at a timer of the list, or at the end of it; a timer    *)
(* that runs is one of those that the pass may run; the ids in use are     *)
(* those given out, and those given out since the pass began are younger   *)
(* than all that it may run.                                               *)
WalkInv ==
  /\ stage = "pass" => te \in live \union {Nil}
  /\ stage = "callback" => te \in Ids /\ te <= maxId
  /\ \A i \in born : i > maxId /\ i < nextId
  /\ maxId < nextId
  /\ \A i \in live : i < nextId

(* A timer of the list is due at the time it was asked for, or was made    *)
(* due with all others when the clock had been set back.                   *)
AskedInv == \A i \in live : asked[i] \in {0, Instant(when[i])}

(* As long as the clock is not set back, no timer is made due by that.     *)
ClockInv ==
  skews = 0 => /\ lastTime <= Sec(now)
               /\ \A i \in live : asked[i] = Instant(when[i])

TimersIInv == TimersTypeOK /\ WalkInv /\ AskedInv /\ ClockInv /\ NotOverslept

LEMMA TimersInitInv == TimersInit => TimersIInv
<1> SUFFICES ASSUME TimersInit PROVE TimersIInv
  OBVIOUS
<1>1. Second \in Nat \ {0} /\ MaxSkews \in Nat /\ MaxIds \in Nat \ {0}
  BY TimersAssumption
<1>2. now \in Nat /\ now = Second
  BY <1>1 DEF TimersInit
<1>3. /\ aeAddMillisecondsToNow(1) \in Moment
      /\ Instant(aeAddMillisecondsToNow(1)) = Second + 1
  BY <1>2, AddedTime
<1>4. live = {0} /\ when[0] = aeAddMillisecondsToNow(1) /\ asked[0] = Second + 1
  BY IdsFacts DEF TimersInit
<1>5. Unset \in Moment
  BY <1>1 DEF Unset, Moment
<1>6. TimersTypeOK
  BY <1>1, <1>2, <1>3, <1>5, IdsFacts DEF TimersInit, TimersTypeOK
<1>7. WalkInv
  BY <1>4 DEF TimersInit, WalkInv, Nil
<1>8. AskedInv
  BY <1>3, <1>4 DEF AskedInv
<1>9. Sec(now) = 1
  BY <1>1, <1>2 DEF Sec
<1>10. ClockInv
  BY <1>3, <1>4, <1>9 DEF TimersInit, ClockInv
<1>11. NotOverslept
  BY DEF TimersInit, NotOverslept
<1>12. QED
  BY <1>6, <1>7, <1>8, <1>10, <1>11 DEF TimersIInv

(* Arming a timer, to create it or when its callback returns.              *)
LEMMA Armed ==
  ASSUME TimersTypeOK, NEW d \in Delays, NEW i \in Ids,
         when' = [when EXCEPT ![i] = aeAddMillisecondsToNow(d)],
         asked' = [asked EXCEPT ![i] = now + d]
  PROVE  /\ when' \in [Ids -> Moment] /\ asked' \in [Ids -> Nat]
         /\ asked'[i] = Instant(when'[i])
         /\ \A j \in Ids \ {i} : when'[j] = when[j] /\ asked'[j] = asked[j]
<1>1. d \in Nat /\ now \in Nat /\ now + d \in Nat
  BY TimersAssumption DEF TimersTypeOK
<1>2. /\ aeAddMillisecondsToNow(d) \in Moment
      /\ Instant(aeAddMillisecondsToNow(d)) = now + d
  BY <1>1, AddedTime
<1>3. QED
  BY <1>1, <1>2 DEF TimersTypeOK

(* Dropping a timer leaves the others alone.                               *)
LEMMA Dropped ==
  ASSUME TimersTypeOK, NEW i \in Ids, Drop(i)
  PROVE  /\ live' \subseteq live
         /\ when' \in [Ids -> Moment] /\ asked' \in [Ids -> Nat]
         /\ \A j \in live' : when'[j] = when[j] /\ asked'[j] = asked[j]
<1>1. Unset \in Moment
  BY TimersAssumption DEF Unset, Moment
<1>2. QED
  BY <1>1 DEF Drop, TimersTypeOK

(* What the start of a pass does to the times.                             *)
LEMMA PassTimes ==
  ASSUME TimersTypeOK, StartPass
  PROVE  /\ when' \in [Ids -> Moment] /\ asked' \in [Ids -> Nat]
         /\ \A j \in live : \/ when'[j] = when[j] /\ asked'[j] = asked[j]
                            \/ asked'[j] = 0
         /\ lastTime <= Sec(now) => UNCHANGED <<when, asked>>
<1>1. CASE Sec(now) < lastTime
  <2>1. \A i \in Ids : [when[i] EXCEPT !.sec = 0] \in Moment
    BY DEF TimersTypeOK, Moment
  <2>2. ~ (lastTime <= Sec(now))
    BY <1>1, Parts DEF TimersTypeOK
  <2>3. QED
    BY <1>1, <2>1, <2>2 DEF StartPass, TimersTypeOK
<1>2. CASE ~ (Sec(now) < lastTime)
  BY <1>2 DEF StartPass, TimersTypeOK
<1>3. QED
  BY <1>1, <1>2

LEMMA TimersTypeStep ==
  ASSUME TimersTypeOK, WalkInv, [TimersNext]_timersVars
  PROVE  TimersTypeOK'
<1> USE IdsFacts
<1>1. CASE Tick
  BY <1>1 DEF Tick, listVars, TimersTypeOK, Forever
<1>2. CASE SetClockBack
  <2>1. now' \in Nat
    BY <1>2, TimersAssumption DEF SetClockBack, TimersTypeOK
  <2>2. skews' \in 0 .. MaxSkews
    BY <1>2, TimersAssumption DEF SetClockBack, TimersTypeOK
  <2>3. QED
    BY <1>2, <2>1, <2>2 DEF SetClockBack, listVars, TimersTypeOK
<1>3. CASE PrepareToSleep
  <2>1. left' \in Nat \union {Forever}
    <3>1. CASE live = {}
      BY <1>3, <3>1 DEF PrepareToSleep
    <3>2. CASE live # {}
      <4>1. when[Nearest] \in Moment /\ now \in Nat
        BY <3>2, NearestFacts DEF TimersTypeOK
      <4>2. QED
        BY <1>3, <3>2, <4>1, DistanceMeans DEF PrepareToSleep
    <3>3. QED
      BY <3>1, <3>2
  <2>2. QED
    BY <1>3, <2>1 DEF PrepareToSleep, listVars, TimersTypeOK
<1>4. CASE StartPass
  <2>1. lastTime' \in Nat
    BY <1>4, Parts DEF StartPass, TimersTypeOK
  <2>2. te' \in Ids \union {Nil}
    BY <1>4, FirstFacts DEF StartPass, TimersTypeOK
  <2>3. maxId' \in Ids \union {Nil}
    BY <1>4, TimersAssumption DEF StartPass, NewestId, TimersTypeOK, Ids, Nil
  <2>4. when' \in [Ids -> Moment] /\ asked' \in [Ids -> Nat]
    BY <1>4, PassTimes
  <2>5. QED
    BY <1>4, <2>1, <2>2, <2>3, <2>4 DEF StartPass, TimersTypeOK
<1>5. CASE StepOver
  <2>1. te' \in Ids \union {Nil}
    BY <1>5, FirstFacts DEF StepOver, NextOf, TimersTypeOK
  <2>2. QED
    BY <1>5, <2>1 DEF StepOver, listVars, TimersTypeOK
<1>6. CASE Fire \/ EndPass
  BY <1>6 DEF Fire, EndPass, listVars, TimersTypeOK
<1>7. ASSUME NEW d \in Delays, aeCreateTimeEvent(d) PROVE TimersTypeOK'
  <2>1. nextId \in Ids /\ nextId + 1 \in 0 .. MaxIds
    BY <1>7, TimersAssumption DEF aeCreateTimeEvent, TimersTypeOK, Ids
  <2>2. when' \in [Ids -> Moment] /\ asked' \in [Ids -> Nat]
    BY <1>7, <2>1, Armed DEF aeCreateTimeEvent
  <2>3. QED
    BY <1>7, <2>1, <2>2 DEF aeCreateTimeEvent, TimersTypeOK
<1>8. ASSUME NEW i \in Ids, aeDeleteTimeEvent(i) PROVE TimersTypeOK'
  <2>1. live' \subseteq live /\ when' \in [Ids -> Moment] /\ asked' \in [Ids -> Nat]
    BY <1>8, Dropped DEF aeDeleteTimeEvent
  <2>2. QED
    BY <1>8, <2>1 DEF aeDeleteTimeEvent, TimersTypeOK
<1>9. ASSUME NEW r \in Delays \union {AE_NOMORE}, Return(r) PROVE TimersTypeOK'
  <2>1. te \in Ids
    BY <1>9 DEF Return, WalkInv
  <2>2. live' \subseteq live /\ when' \in [Ids -> Moment] /\ asked' \in [Ids -> Nat]
    <3>1. CASE r = AE_NOMORE
      BY <1>9, <2>1, <3>1, Dropped DEF Return
    <3>2. CASE r # AE_NOMORE
      BY <1>9, <2>1, <3>2, Armed DEF Return
    <3>3. QED
      BY <3>1, <3>2
  <2>3. live' \in SUBSET Ids
    BY <2>2 DEF TimersTypeOK
  <2>4. te' \in Ids \union {Nil}
    BY <1>9, <2>3, FirstFacts DEF Return
  <2>5. QED
    BY <1>9, <2>2, <2>3, <2>4 DEF Return, TimersTypeOK
<1>10. CASE UNCHANGED timersVars
  BY <1>10 DEF timersVars, listVars, TimersTypeOK
<1>11. QED
  BY <1>1, <1>2, <1>3, <1>4, <1>5, <1>6, <1>7, <1>8, <1>9, <1>10
     DEF TimersNext, TimedOut, FileEvents, Callback, Loop

LEMMA WalkStep ==
  ASSUME TimersTypeOK, WalkInv, [TimersNext]_timersVars
  PROVE  WalkInv'
<1>0. nextId \in Nat /\ maxId \in Int /\ live \in SUBSET Ids /\ Ids \subseteq Nat
  BY IdsFacts DEF TimersTypeOK, Nil
<1>1. CASE Tick \/ SetClockBack \/ PrepareToSleep
  BY <1>1 DEF Tick, SetClockBack, PrepareToSleep, listVars, WalkInv
<1>2. CASE StartPass
  <2>1. te' \in live \union {Nil}
    BY <1>0, <1>2, FirstFacts DEF StartPass
  <2>2. QED
    BY <1>0, <1>2, <2>1 DEF StartPass, NewestId, WalkInv
<1>3. CASE StepOver
  <2>1. te' \in live \union {Nil}
    BY <1>0, <1>3, FirstFacts DEF StepOver, NextOf
  <2>2. QED
    BY <1>3, <2>1 DEF StepOver, listVars, WalkInv
<1>4. CASE Fire
  BY <1>0, <1>4 DEF Fire, listVars, WalkInv
<1>5. CASE EndPass
  BY <1>0, <1>5 DEF EndPass, listVars, WalkInv, Nil
<1>6. ASSUME NEW d \in Delays, aeCreateTimeEvent(d) PROVE WalkInv'
  <2>1. /\ stage = "callback" /\ UNCHANGED <<stage, te, maxId>>
        /\ live' = live \union {nextId} /\ born' = born \union {nextId} /\ nextId' = nextId + 1
    BY <1>6 DEF aeCreateTimeEvent
  <2>2. \A i \in born : i \in Int /\ i > maxId /\ i < nextId
    BY <1>0 DEF WalkInv, TimersTypeOK
  <2>3. \A i \in live : i \in Int /\ i < nextId
    BY <1>0 DEF WalkInv
  <2>4. QED
    BY <1>0, <2>1, <2>2, <2>3 DEF WalkInv
<1>7. ASSUME NEW i \in Ids, aeDeleteTimeEvent(i) PROVE WalkInv'
  BY <1>7, Dropped DEF aeDeleteTimeEvent, WalkInv
<1>8. ASSUME NEW r \in Delays \union {AE_NOMORE}, Return(r) PROVE WalkInv'
  <2>1. live' \subseteq live
    BY <1>8 DEF Return, Drop
  <2>2. te' \in live' \union {Nil}
    <3>1. live' \in SUBSET Ids
      BY <1>0, <2>1
    <3>2. QED
      BY <1>8, <3>1, FirstFacts DEF Return
  <2>3. QED
    BY <1>8, <2>1, <2>2 DEF Return, WalkInv
<1>9. CASE UNCHANGED timersVars
  BY <1>9 DEF timersVars, listVars, WalkInv
<1>10. QED
  BY <1>1, <1>2, <1>3, <1>4, <1>5, <1>6, <1>7, <1>8, <1>9
     DEF TimersNext, TimedOut, FileEvents, Callback, Loop

LEMMA TimesStep ==
  ASSUME TimersTypeOK, WalkInv, AskedInv, ClockInv, [TimersNext]_timersVars
  PROVE  AskedInv' /\ ClockInv'
<1>0. now \in Nat /\ lastTime \in Nat /\ live \in SUBSET Ids /\ skews \in Nat
  BY TimersAssumption DEF TimersTypeOK
\* Steps that keep the clock and leave the times of the timers alone.
<1>1. ASSUME live' \subseteq live, UNCHANGED <<now, skews, lastTime>>,
             \A j \in live' : when'[j] = when[j] /\ asked'[j] = asked[j]
      PROVE  AskedInv' /\ ClockInv'
  BY <1>1 DEF AskedInv, ClockInv
\* Steps that arm a timer.
<1>2. ASSUME NEW d \in Delays, NEW i \in Ids,
             when' = [when EXCEPT ![i] = aeAddMillisecondsToNow(d)],
             asked' = [asked EXCEPT ![i] = now + d],
             live' \subseteq live \union {i}, UNCHANGED <<now, skews, lastTime>>
      PROVE  AskedInv' /\ ClockInv'
  <2>1. /\ asked'[i] = Instant(when'[i])
        /\ \A j \in Ids \ {i} : when'[j] = when[j] /\ asked'[j] = asked[j]
    BY <1>2, Armed
  <2>2. \A j \in live' : j = i \/ (j \in live /\ j \in Ids \ {i})
    BY <1>0, <1>2
  <2>3. QED
    BY <1>2, <2>1, <2>2 DEF AskedInv, ClockInv
<1>3. CASE Tick
  <2>1. now' \in Nat /\ now <= now' /\ UNCHANGED <<skews, listVars, lastTime>>
    BY <1>0, <1>3 DEF Tick
  <2>2. Sec(now) \in Nat /\ Sec(now') \in Nat /\ Sec(now) <= Sec(now')
    BY <1>0, <2>1, SecMonotone, Parts
  <2>3. QED
    BY <1>0, <2>1, <2>2 DEF AskedInv, ClockInv, listVars
<1>4. CASE SetClockBack
  BY <1>0, <1>4 DEF SetClockBack, AskedInv, ClockInv, listVars
<1>5. CASE StartPass
  <2>1. /\ \A j \in live : \/ when'[j] = when[j] /\ asked'[j] = asked[j]
                           \/ asked'[j] = 0
        /\ lastTime <= Sec(now) => UNCHANGED <<when, asked>>
    BY <1>5, PassTimes
  <2>2. UNCHANGED <<now, skews, live>> /\ lastTime' = Sec(now) /\ Sec(now) \in Nat
    BY <1>0, <1>5, Parts DEF StartPass
  <2>3. QED
    BY <2>1, <2>2 DEF AskedInv, ClockInv
<1>6. CASE PrepareToSleep \/ StepOver \/ Fire \/ EndPass
  BY <1>1, <1>6 DEF PrepareToSleep, StepOver, Fire, EndPass, listVars
<1>7. ASSUME NEW d \in Delays, aeCreateTimeEvent(d) PROVE AskedInv' /\ ClockInv'
  <2>1. nextId \in Ids
    BY <1>7, TimersAssumption DEF aeCreateTimeEvent, TimersTypeOK, Ids
  <2>2. QED
    BY <1>2, <1>7, <2>1 DEF aeCreateTimeEvent
<1>8. ASSUME NEW i \in Ids, aeDeleteTimeEvent(i) PROVE AskedInv' /\ ClockInv'
  BY <1>1, <1>8, Dropped DEF aeDeleteTimeEvent
<1>9. ASSUME NEW r \in Delays \union {AE_NOMORE}, Return(r) PROVE AskedInv' /\ ClockInv'
  <2>1. te \in Ids /\ UNCHANGED <<now, skews, lastTime>>
    BY <1>9 DEF Return, WalkInv
  <2>2. CASE r = AE_NOMORE
    BY <1>1, <1>9, <2>1, <2>2, Dropped DEF Return
  <2>3. CASE r # AE_NOMORE
    BY <1>2, <1>9, <2>1, <2>3 DEF Return
  <2>4. QED
    BY <2>2, <2>3
<1>10. CASE UNCHANGED timersVars
  BY <1>1, <1>10 DEF timersVars, listVars
<1>11. QED
  BY <1>3, <1>4, <1>5, <1>6, <1>7, <1>8, <1>9, <1>10
     DEF TimersNext, TimedOut, FileEvents, Callback, Loop

(* The sleeping time is right when it is computed, and stays so while time *)
(* passes.                                                                 *)
LEMMA SleepStep ==
  ASSUME TimersTypeOK, ClockInv, NotOverslept, [TimersNext]_timersVars
  PROVE  NotOverslept'
<1>0. now \in Nat /\ skews \in Nat /\ left \in Nat \union {Forever} /\ live \in SUBSET Ids
      /\ asked \in [Ids -> Nat] /\ when \in [Ids -> Moment] /\ Second \in Nat \ {0}
  BY TimersAssumption DEF TimersTypeOK
<1>1. CASE Tick
  <2> SUFFICES ASSUME stage = "wait", skews = 0, live # {}
               PROVE  /\ left' # Forever
                      /\ \/ \A i \in live : now' + left' <= asked[i]
                         \/ left' < Second /\ \E i \in live : asked[i] < now'
    BY <1>1 DEF Tick, listVars, NotOverslept
  <2>1. left \in Nat
    BY <1>0 DEF NotOverslept
  <2>2. /\ left' = IF left > 0 THEN left - 1 ELSE left
        /\ now' = now \/ now' = now + 1
        /\ left = 0 => now' = now + 1
    BY <1>0, <1>1, <2>1 DEF Tick
  <2>3. left' \in Nat /\ left' <= left /\ now' \in Nat /\ now <= now'
    BY <1>0, <2>1, <2>2
  <2>n. now + left \in Nat /\ now' + left' \in Nat
    <3>1. now \in Nat
      BY <1>0
    <3>2. now + left \in Nat
      BY <2>1, <3>1
    <3>3. \A a, b \in Nat : a + b \in Nat
      OBVIOUS
    <3>4. now' + left' \in Nat
      BY <2>3, <3>3
    <3>5. QED
      BY <3>2, <3>4
  <2>4. left' # Forever
    BY <2>3 DEF Forever
  <2>5. CASE \A i \in live : now + left <= asked[i]
    <3>1. CASE left > 0
      <4>1. now' + left' <= now + left
        BY <1>0, <2>1, <2>2, <3>1
      <4>2. ASSUME NEW i \in live PROVE now' + left' <= asked[i]
        <5>1. asked[i] \in Nat /\ now + left <= asked[i]
          BY <1>0, <2>5
        <5>2. QED
          BY <2>n, <4>1, <5>1
      <4>3. QED
        BY <2>4, <4>2
    <3>2. CASE left = 0
      <4>1. now' = now + 1 /\ left' = 0
        BY <2>2, <3>2
      <4>2. ASSUME NEW i \in live PROVE asked[i] \in Nat /\ now <= asked[i]
        BY <1>0, <2>5, <3>2
      <4>3. CASE \A i \in live : asked[i] # now
        <5>1. ASSUME NEW i \in live PROVE now' + left' <= asked[i]
          BY <1>0, <4>1, <4>2, <4>3
        <5>2. QED
          BY <2>4, <5>1
      <4>4. CASE \E i \in live : asked[i] = now
        <5>1. \E i \in live : asked[i] < now'
          BY <1>0, <4>1, <4>4
        <5>2. left' < Second
          BY <1>0, <4>1
        <5>3. QED
          BY <2>4, <5>1, <5>2
      <4>5. QED
        BY <4>3, <4>4
    <3>3. QED
      BY <2>1, <3>1, <3>2
  <2>6. CASE left < Second /\ \E i \in live : asked[i] < now
    <3>1. left' < Second
      BY <1>0, <2>1, <2>3, <2>6
    <3>2. PICK i \in live : asked[i] < now
      BY <2>6
    <3>3. asked[i] \in Nat
      BY <1>0
    <3>4. asked[i] < now'
      BY <1>0, <2>3, <3>2, <3>3
    <3>5. QED
      BY <2>4, <3>1, <3>4
  <2>7. QED
    BY <2>5, <2>6 DEF NotOverslept
<1>2. CASE SetClockBack
  BY <1>0, <1>2 DEF SetClockBack, NotOverslept
<1>3. CASE PrepareToSleep
  <2> SUFFICES ASSUME skews = 0, live # {}
               PROVE  /\ left' # Forever
                      /\ \/ \A i \in live : now + left' <= asked[i]
                         \/ left' < Second /\ \E i \in live : asked[i] < now
    BY <1>3 DEF PrepareToSleep, listVars, NotOverslept
  <2> DEFINE n == Nearest
             t == Instant(when[n])
  <2>1. n \in live /\ \A j \in live : t <= Instant(when[j])
    BY NearestFacts
  <2>2. left' = Distance(when[n]) /\ when[n] \in Moment
    BY <1>0, <1>3, <2>1 DEF PrepareToSleep
  <2>3. /\ left' \in Nat /\ t \in Nat
        /\ t >= now => now + left' = t
        /\ t < now => left' < Second
    BY <1>0, <2>2, DistanceMeans, InstantNat
  <2>4. \A j \in live : asked[j] = Instant(when[j])
    BY DEF ClockInv
  <2>5. left' # Forever
    BY <2>3 DEF Forever
  <2> HIDE DEF n, t
  <2>6. CASE t >= now
    BY <2>1, <2>3, <2>4, <2>5, <2>6
  <2>7. CASE t < now
    BY <2>1, <2>3, <2>4, <2>5, <2>7 DEF t
  <2>8. QED
    BY <1>0, <2>3, <2>6, <2>7
<1>4. CASE StartPass \/ StepOver \/ Fire \/ EndPass
  BY <1>4 DEF StartPass, StepOver, Fire, EndPass, NotOverslept
<1>5. ASSUME NEW d, aeCreateTimeEvent(d) PROVE NotOverslept'
  BY <1>5 DEF aeCreateTimeEvent, NotOverslept
<1>6. ASSUME NEW i, aeDeleteTimeEvent(i) \/ Return(i) PROVE NotOverslept'
  BY <1>6 DEF aeDeleteTimeEvent, Return, NotOverslept
<1>7. CASE UNCHANGED timersVars
  BY <1>7 DEF timersVars, listVars, NotOverslept
<1>8. QED
  BY <1>1, <1>2, <1>3, <1>4, <1>5, <1>6, <1>7
     DEF TimersNext, TimedOut, FileEvents, Callback, Loop

LEMMA TimersNextInv == TimersIInv /\ [TimersNext]_timersVars => TimersIInv'
  BY TimersTypeStep, WalkStep, TimesStep, SleepStep DEF TimersIInv

(* The strengthening of the properties below holds in every state.         *)
THEOREM TimersInductive == TimersSpec => []TimersIInv
  BY TimersInitInv, TimersNextInv, PTL DEF TimersSpec

(* processTimeEvents touches no freed timer, whatever timers its callbacks *)
(* create and delete, and runs none that was created in the same pass.     *)
THEOREM CursorSafe == TimersSpec => []CursorInv
<1>1. TimersIInv => CursorInv
  <2> SUFFICES ASSUME TimersIInv PROVE CursorInv
    OBVIOUS
  <2>1. TimersTypeOK /\ WalkInv
    BY DEF TimersIInv
  <2>2. maxId \in Int /\ te \in Int /\ born \subseteq Int
    BY <2>1, IdsFacts DEF TimersTypeOK, Nil
  <2>3. stage = "callback" => te \notin born
    BY <2>1, <2>2 DEF WalkInv
  <2>4. QED
    BY <2>1, <2>3 DEF CursorInv, WalkInv
<1>2. QED
  BY <1>1, TimersInductive, PTL

(* With a clock that is never set back, the loop sleeps past no timer,     *)
(* but for less than a second when one is overdue before it goes to sleep. *)
THEOREM SleepBounded == TimersSpec => []NotOverslept
<1>1. TimersIInv => NotOverslept
  BY DEF TimersIInv
<1>2. QED
  BY <1>1, TimersInductive, PTL

(* No timer runs before the time it was asked for, unless all timers were  *)
(* made due because the clock was set back: the carry and the comparison   *)
(* by parts are right for every length of a second.                        *)
THEOREM NoTimerEarly == TimersSpec => NeverEarly
<1>1. TimersIInv /\ [TimersNext]_timersVars =>
        [stage = "pass" /\ stage' = "callback" => now >= asked[te]]_timersVars
  <2> SUFFICES ASSUME TimersIInv, [TimersNext]_timersVars, stage = "pass", stage' = "callback"
               PROVE  now >= asked[te]
    OBVIOUS
  <2>0. TimersTypeOK /\ WalkInv /\ AskedInv
    BY DEF TimersIInv
  <2>1. Fire
    BY DEF TimersNext, Tick, SetClockBack, FileEvents, TimedOut, StartPass, Callback, Loop,
       aeCreateTimeEvent, aeDeleteTimeEvent, PrepareToSleep, StepOver, EndPass, Return,
       timersVars, listVars
  <2>2. te \in live /\ Due(te)
    BY <2>0, <2>1 DEF Fire, WalkInv
  <2>3. now \in Nat /\ when[te] \in Moment /\ asked[te] \in {0, Instant(when[te])}
    BY <2>0, <2>2 DEF TimersTypeOK, AskedInv
  <2>4. now >= Instant(when[te])
    BY <2>2, <2>3, DueMeans
  <2>5. QED
    BY <2>3, <2>4
<1>2. QED
  BY <1>1, TimersInductive, PTL DEF TimersSpec, NeverEarly
================================================================================
