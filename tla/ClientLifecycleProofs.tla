------------------------- MODULE ClientLifecycleProofs -------------------------
(***************************************************************************)
(* Proofs about the life of a client, for any number of connections and    *)
(* descriptors, any limits, any commands and any behaviour of the peers.   *)
(***************************************************************************)
EXTENDS ClientLifecycle, QueueLemmas, TLAPS

USE LoopAssumption, ClientsAssumption

Flags == {CLOSE_ASAP, CLOSE_AFTER_REPLY, BLOCKED, UNBLOCKED}

LEMMA FdFacts ==
  /\ Fd \subseteq Nat /\ Slot \subseteq Nat /\ ClientFds \subseteq Fd
  /\ ListenFd \in Fd /\ ListenFd \in Slot /\ ListenFd \notin ClientFds
  /\ NoFd \notin ClientFds /\ NoFd \notin Slot
  /\ READABLE # WRITABLE
  BY DEF Fd, Slot, ListenFd, ClientFds, NoFd, READABLE, WRITABLE

LEMMA LiveElems == Live = Elems(clients) /\ Live' = Elems(clients')
  BY DEF Live, Range, Elems

--------------------------------------------------------------------------------
(* The parts of the inductive invariant.  Data that the callbacks share:   *)

TypesInv ==
  /\ clients \in Seq(Conns) /\ toClose \in Seq(Conns)
  /\ unblocked \in Seq(Conns) /\ backlog \in Seq(Conns)
  /\ pause \in {"off", "on", "over"} /\ resumed \in BOOLEAN
  /\ fdOf \in [Conns -> ClientFds \union {NoFd}]
  /\ flags \in [Conns -> SUBSET Flags]
  /\ query \in [Conns -> 0 .. MaxQuery]
  /\ out \in [Conns -> BOOLEAN]
  /\ net \in [Conns -> {"new", "queued", "open", "closed"}]
  /\ sent \in [Conns -> Nat] /\ inbox \in [Conns -> Nat]
  /\ left \in [Conns -> {"no", "fin", "rst"}]

TableOK ==
  /\ events \in [Slot -> Mask]
  /\ interest \in [Fd -> Mask]
  /\ maxfd \in -1 .. (SetSize - 1)
  /\ AgreementInv

\* What a client is watched for.
Wanted(c) == {READABLE} \union (IF out[c] THEN {WRITABLE} ELSE {})

WatchInv ==
  /\ TableOK
  /\ \A c \in Live : interest[fdOf[c]] = Wanted(c)
  /\ \A fd \in ClientFds : (\A c \in Live : fdOf[c] # fd) => interest[fd] = {}

ListInv ==
  /\ Distinct(clients)
  /\ \A c, d \in Live : fdOf[c] = fdOf[d] => c = d
  /\ \A c \in Conns : c \in Live <=> net[c] = "open"
  /\ \A c \in Conns : c \in Live <=> fdOf[c] # NoFd

\* A connection that is no client, or no longer one, has left nothing behind.
FreshInv ==
  \A c \in Conns \ Live : flags[c] = {} /\ query[c] = 0 /\ out[c] = FALSE

BacklogInv ==
  /\ Distinct(backlog)
  /\ \A c \in Elems(backlog) : net[c] = "queued"

CloseInv ==
  /\ Distinct(toClose)
  /\ \A c \in Conns : c \in Elems(toClose) <=> c \in Live /\ CLOSE_ASAP \in flags[c]

UnblockInv ==
  /\ \A c \in Live : UNBLOCKED \in flags[c] => c \in Elems(unblocked)
  /\ ~resumed => /\ Distinct(unblocked)
                 /\ \A c \in Elems(unblocked) : c \in Live /\ UNBLOCKED \in flags[c]

DataInv ==
  TypesInv /\ WatchInv /\ ListInv /\ FreshInv /\ BacklogInv /\ CloseInv /\ UnblockInv

(* Where the loop stands, and for which client.                            *)
ControlInv ==
  /\ fired \in [Fd -> Mask] /\ fired[ListenFd] \subseteq {READABLE}
  /\ phase \in {"before", "handle", "accept", "process", "kill", "close", "undefined"}
  /\ turn \in ClientFds \union {NoFd}
  /\ {runs, victim, current} \subseteq Conns \union {None}
  /\ back \in {"before", "handle"}
  /\ current = runs
  /\ runs # None => phase \in {"process", "kill"}
  /\ phase \in {"process", "kill"} => runs \in Live
  /\ phase = "kill" => victim \in Live \ {runs}

IInv == DataInv /\ ControlInv /\ StalledInv

(* The parts say what the invariants that are checked say.                 *)
LEMMA PartsSuffice == IInv => ClientsInv /\ QueuesInv /\ StalledInv
<1> SUFFICES ASSUME IInv PROVE ClientsInv /\ QueuesInv
  BY DEF IInv
<1>0. /\ TypesInv /\ WatchInv /\ ListInv /\ FreshInv /\ BacklogInv /\ CloseInv /\ UnblockInv
      /\ ControlInv /\ TableOK
  BY DEF IInv, DataInv, WatchInv
<1>1. TypeOK
  BY <1>0 DEF TypeOK, LoopTypeOK, TypesInv, TableOK, ControlInv, Flags
<1>2. ASSUME NEW i \in DOMAIN clients, NEW j \in DOMAIN clients,
             fdOf[clients[i]] = fdOf[clients[j]]
      PROVE  i = j
  <2>1. clients[i] \in Live /\ clients[j] \in Live
    BY LiveElems DEF Elems
  <2>2. clients[i] = clients[j]
    BY <1>0, <1>2, <2>1 DEF ListInv
  <2>3. QED
    BY <1>0, <2>2 DEF ListInv, Distinct
<1>3. ASSUME NEW fd \in ClientFds
      PROVE interest[fd] = UNION {{READABLE} \union (IF out[c] THEN {WRITABLE} ELSE {}) :
                                    c \in {k \in Live : fdOf[k] = fd}}
  <2>1. CASE \A c \in Live : fdOf[c] # fd
    BY <1>0, <2>1 DEF WatchInv
  <2>2. ASSUME NEW c \in Live, fdOf[c] = fd
        PROVE interest[fd] = UNION {{READABLE} \union (IF out[k] THEN {WRITABLE} ELSE {}) :
                                      k \in {k \in Live : fdOf[k] = fd}}
    <3>1. {k \in Live : fdOf[k] = fd} = {c}
      BY <1>0, <2>2 DEF ListInv
    <3>2. interest[fd] = Wanted(c)
      BY <1>0, <2>2 DEF WatchInv
    <3>3. QED
      BY <3>1, <3>2 DEF Wanted
  <2>3. QED
    BY <2>1, <2>2
<1>4. ClientsInv
  <2>1. AgreementInv
    BY <1>0 DEF TableOK
  <2>2. \A c \in Conns : c \in Live <=> net[c] = "open"
    BY <1>0 DEF ListInv
  <2>3. \A c \in Conns : c \in Live <=> fdOf[c] # NoFd
    BY <1>0 DEF ListInv
  <2>4. current = runs /\ (runs # None => runs \in Live /\ phase \in {"process", "kill"})
    BY <1>0 DEF ControlInv
  <2>5. QED
    BY <1>1, <1>2, <1>3, <2>1, <2>2, <2>3, <2>4 DEF ClientsInv
<1>5. QueuesInv
  <2>1. Range(toClose) = Elems(toClose) /\ Range(unblocked) = Elems(unblocked)
    BY DEF Range, Elems
  <2>2. QED
    BY <1>0, <2>1 DEF QueuesInv, CloseInv, UnblockInv, Distinct
<1>6. QED
  BY <1>4, <1>5

LEMMA InitInv == Init => IInv
<1> SUFFICES ASSUME Init PROVE IInv
  OBVIOUS
<1> USE FdFacts
<1>1. Live = {} /\ Elems(<<>>) = {} /\ Distinct(<<>>)
  BY DEF Init, Live, Range, Elems, Distinct
<1>2. TypesInv
  <2>1. /\ clients \in Seq(Conns) /\ toClose \in Seq(Conns)
        /\ unblocked \in Seq(Conns) /\ backlog \in Seq(Conns)
        /\ pause \in {"off", "on", "over"} /\ resumed \in BOOLEAN
    <3>1. /\ clients = <<>> /\ toClose = <<>> /\ unblocked = <<>> /\ backlog = <<>>
          /\ pause = "off" /\ resumed = FALSE
      BY DEF Init
    <3>2. <<>> \in Seq(Conns)
      OBVIOUS
    <3>3. QED
      BY <3>1, <3>2
  <2>2. /\ fdOf \in [Conns -> ClientFds \union {NoFd}]
        /\ flags \in [Conns -> SUBSET Flags]
        /\ query \in [Conns -> 0 .. MaxQuery]
        /\ out \in [Conns -> BOOLEAN]
    BY DEF Init
  <2>3. /\ net \in [Conns -> {"new", "queued", "open", "closed"}]
        /\ sent \in [Conns -> Nat] /\ inbox \in [Conns -> Nat]
        /\ left \in [Conns -> {"no", "fin", "rst"}]
    BY DEF Init
  <2>4. QED
    BY <2>1, <2>2, <2>3 DEF TypesInv
<1>3. TableOK
  BY DEF Init, LoopInit, TableOK, AgreementInv, Mask, ListenFd
<1>4. WatchInv
  BY <1>1, <1>3 DEF Init, LoopInit, WatchInv
<1>5. ListInv /\ FreshInv /\ BacklogInv /\ CloseInv /\ UnblockInv
  BY <1>1 DEF Init, ListInv, FreshInv, BacklogInv, CloseInv, UnblockInv
<1>6. ControlInv
  BY <1>1 DEF Init, LoopInit, ControlInv, Mask
<1>7. StalledInv
  BY <1>1 DEF StalledInv
<1>8. QED
  BY <1>2, <1>4, <1>5, <1>6, <1>7 DEF IInv, DataInv

--------------------------------------------------------------------------------
(* The operations of the event loop.                                       *)

LEMMA HighestBelowType ==
  ASSUME TableOK, NEW fd \in Slot
  PROVE  HighestBelow(fd) \in -1 .. (fd - 1)
<1> DEFINE U == {j \in -1 .. (fd - 1) : j = -1 \/ events[j] # {}}
<1>0. fd \in Nat
  BY FdFacts
<1>1. U \subseteq -1 .. fd /\ U # {}
  BY <1>0
<1>2. PICK m \in U : \A j \in U : j <= m
  BY <1>0, <1>1, Highest
<1>3. ASSUME NEW k \in (m + 1) .. (fd - 1) PROVE events[k] = {}
  <2>1. k \in -1 .. (fd - 1) /\ k > m /\ m \in Int
    BY <1>0
  <2>2. k \notin U
    BY <1>2, <2>1
  <2>3. QED
    BY <2>1, <2>2
<1>4. m \in -1 .. (fd - 1) /\ (m = -1 \/ events[m] # {})
      /\ \A k \in (m + 1) .. (fd - 1) : events[k] = {}
  BY <1>3
<1>5. QED
  BY <1>4 DEF HighestBelow

LEMMA CreateEvent ==
  ASSUME TableOK, NEW fd \in Fd, NEW mask \in Mask, aeCreateFileEvent(fd, mask)
  PROVE  /\ TableOK' /\ fd \in Slot
         /\ \A f \in Fd : interest'[f] = IF f = fd THEN interest[f] \union mask ELSE interest[f]
<1>1. /\ fd \in Slot /\ interest[fd] = events[fd]
      /\ events' = [events EXCEPT ![fd] = @ \union mask]
      /\ interest' = [interest EXCEPT ![fd] = events[fd] \union mask]
      /\ maxfd' = IF fd > maxfd THEN fd ELSE maxfd
  BY DEF aeCreateFileEvent, CanMonitor, TableOK, AgreementInv
<1>2. /\ events \in [Slot -> Mask] /\ interest \in [Fd -> Mask] /\ maxfd \in -1 .. (SetSize - 1)
      /\ \A f \in Fd : interest[f] = IF f \in Slot THEN events[f] ELSE {}
  BY DEF TableOK, AgreementInv
<1>3. events[fd] \union mask \in Mask
  BY <1>1, <1>2 DEF Mask
<1>4. events' \in [Slot -> Mask] /\ interest' \in [Fd -> Mask]
  BY <1>1, <1>2, <1>3
<1>5. maxfd' \in -1 .. (SetSize - 1)
  BY <1>1, <1>2 DEF Slot
<1>6. AgreementInv'
  BY <1>1, <1>2 DEF AgreementInv
<1>7. QED
  BY <1>1, <1>2, <1>4, <1>5, <1>6 DEF TableOK

LEMMA DeletedMaxfd ==
  ASSUME TableOK, NEW fd \in Slot, NEW S,
         maxfd' = IF fd = maxfd /\ events[fd] # {} /\ S = {} THEN HighestBelow(fd) ELSE maxfd
  PROVE  maxfd' \in -1 .. (SetSize - 1)
<1>1. HighestBelow(fd) \in -1 .. (fd - 1) /\ fd \in 0 .. (SetSize - 1)
  BY HighestBelowType DEF Slot
<1>2. maxfd \in -1 .. (SetSize - 1)
  BY DEF TableOK
<1>3. HighestBelow(fd) \in -1 .. (SetSize - 1)
  BY <1>1
<1>4. QED
  BY <1>2, <1>3

LEMMA DeleteEvent ==
  ASSUME TableOK, NEW fd \in Fd, fd \in Slot, NEW mask, aeDeleteFileEvent(fd, mask)
  PROVE  /\ TableOK'
         /\ \A f \in Fd : interest'[f] = IF f = fd THEN interest[f] \ mask ELSE interest[f]
<1>1. /\ interest[fd] = events[fd]
      /\ events' = [events EXCEPT ![fd] = @ \ mask]
      /\ interest' = [interest EXCEPT ![fd] = events'[fd]]
  BY DEF aeDeleteFileEvent, TableOK, AgreementInv
<1>2. /\ events \in [Slot -> Mask] /\ interest \in [Fd -> Mask]
      /\ \A f \in Fd : interest[f] = IF f \in Slot THEN events[f] ELSE {}
  BY DEF TableOK, AgreementInv
<1>3. events[fd] \ mask \in Mask /\ events'[fd] = events[fd] \ mask
  BY <1>1, <1>2 DEF Mask
<1>4. events' \in [Slot -> Mask] /\ interest' \in [Fd -> Mask]
  BY <1>1, <1>2, <1>3
<1>5. maxfd' \in -1 .. (SetSize - 1)
  BY DeletedMaxfd DEF aeDeleteFileEvent
<1>6. AgreementInv'
  BY <1>1, <1>2, <1>3 DEF AgreementInv
<1>7. QED
  BY <1>1, <1>2, <1>3, <1>4, <1>5, <1>6 DEF TableOK

LEMMA DeleteAndClose ==
  ASSUME TableOK, NEW fd \in Fd, fd \in Slot,
         aeDeleteFileEventAndClose(fd, {READABLE, WRITABLE})
  PROVE  /\ TableOK'
         /\ \A f \in Fd : interest'[f] = IF f = fd THEN {} ELSE interest[f]
<1>1. /\ events' = [events EXCEPT ![fd] = @ \ {READABLE, WRITABLE}]
      /\ interest' = [interest EXCEPT ![fd] = {}]
  BY DEF aeDeleteFileEventAndClose
<1>2. /\ events \in [Slot -> Mask] /\ interest \in [Fd -> Mask]
      /\ \A f \in Fd : interest[f] = IF f \in Slot THEN events[f] ELSE {}
  BY DEF TableOK, AgreementInv
<1>3. events'[fd] = {} /\ {} \in Mask
  BY <1>1, <1>2 DEF Mask
<1>4. events' \in [Slot -> Mask] /\ interest' \in [Fd -> Mask]
  BY <1>1, <1>2, <1>3 DEF Mask
<1>5. maxfd' \in -1 .. (SetSize - 1)
  BY DeletedMaxfd DEF aeDeleteFileEventAndClose
<1>6. AgreementInv'
  BY <1>1, <1>2, <1>3 DEF AgreementInv
<1>7. QED
  BY <1>1, <1>2, <1>4, <1>5, <1>6 DEF TableOK

(* A client has a descriptor in the table, and nothing else has it.        *)
LEMMA ClientFd ==
  ASSUME TypesInv, WatchInv, ListInv, NEW c \in Live
  PROVE  /\ c \in Conns
         /\ fdOf[c] \in ClientFds /\ fdOf[c] \in Fd /\ fdOf[c] \in Slot
<1>1. c \in Conns
  BY LiveElems DEF TypesInv, Elems
<1>2. fdOf[c] \in ClientFds /\ fdOf[c] \in Fd
  BY <1>1, FdFacts DEF TypesInv, ListInv
<1>3. interest[fdOf[c]] # {}
  BY DEF WatchInv, Wanted
<1>4. fdOf[c] \in Slot
  BY <1>2, <1>3 DEF WatchInv, TableOK, AgreementInv
<1>5. QED
  BY <1>1, <1>2, <1>4
--------------------------------------------------------------------------------
(* freeClient.                                                             *)

(* unblockClient leaves the client in the queue, and takes nobody out.     *)
LEMMA UnblockingFacts ==
  ASSUME TypesInv, UnblockInv, NEW c \in Live, c \in Conns
  PROVE  /\ Unblocking(c) \in Seq(Conns)
         /\ Elems(Unblocking(c)) = Elems(unblocked) \union {c}
         /\ ~resumed => Distinct(Unblocking(c))
<1>1. unblocked \in Seq(Conns)
  BY DEF TypesInv
<1>2. CASE UNBLOCKED \in flags[c]
  BY <1>1, <1>2 DEF Unblocking, UnblockInv
<1>3. CASE UNBLOCKED \notin flags[c]
  <2>1. Unblocking(c) = Append(unblocked, c)
    BY <1>3 DEF Unblocking
  <2>2. ~resumed => Distinct(unblocked) /\ c \notin Elems(unblocked)
    BY <1>3 DEF UnblockInv
  <2>3. /\ Append(unblocked, c) \in Seq(Conns)
        /\ Elems(Append(unblocked, c)) = Elems(unblocked) \union {c}
        /\ Distinct(unblocked) /\ c \notin Elems(unblocked) => Distinct(Append(unblocked, c))
    BY <1>1, AppendElems
  <2>4. QED
    BY <2>1, <2>2, <2>3
<1>4. QED
  BY <1>2, <1>3

(* The queue of unblocked clients loses the client that is freed, and      *)
(* nobody else.                                                            *)
LEMMA UnblockedWithoutFacts ==
  ASSUME TypesInv, UnblockInv, NEW c \in Live, c \in Conns
  PROVE  /\ UnblockedWithout(c) \in Seq(Conns)
         /\ Elems(UnblockedWithout(c)) \subseteq Elems(unblocked) \union {c}
         /\ Elems(unblocked) \ {c} \subseteq Elems(UnblockedWithout(c))
         /\ ~resumed => /\ Distinct(UnblockedWithout(c))
                        /\ c \notin Elems(UnblockedWithout(c))
<1> DEFINE q == IF BLOCKED \in flags[c] THEN Unblocking(c) ELSE unblocked
<1>1. unblocked \in Seq(Conns)
  BY DEF TypesInv
<1>2. /\ q \in Seq(Conns)
      /\ Elems(q) \subseteq Elems(unblocked) \union {c}
      /\ Elems(unblocked) \subseteq Elems(q)
      /\ ~resumed => Distinct(q)
  BY <1>1, UnblockingFacts DEF UnblockInv
<1> HIDE DEF q
<1>3. CASE flags[c] \intersect {BLOCKED, UNBLOCKED} # {}
  <2>1. UnblockedWithout(c) = RemoveFirst(q, c)
    BY <1>3 DEF UnblockedWithout, q
  <2>2. /\ RemoveFirst(q, c) \in Seq(Conns)
        /\ Elems(RemoveFirst(q, c)) \subseteq Elems(q)
        /\ Elems(q) \ {c} \subseteq Elems(RemoveFirst(q, c))
        /\ Distinct(q) => Distinct(RemoveFirst(q, c)) /\ c \notin Elems(RemoveFirst(q, c))
    BY <1>2, RemoveFirstFacts
  <2>3. QED
    BY <1>2, <2>1, <2>2
<1>4. CASE flags[c] \intersect {BLOCKED, UNBLOCKED} = {}
  <2>1. UnblockedWithout(c) = unblocked /\ UNBLOCKED \notin flags[c]
    BY <1>4 DEF UnblockedWithout
  <2>2. ~resumed => Distinct(unblocked) /\ c \notin Elems(unblocked)
    BY <2>1 DEF UnblockInv
  <2>3. QED
    BY <1>1, <2>1, <2>2
<1>5. QED
  BY <1>3, <1>4

(* Without the client in the queue of clients to close, what is left of    *)
(* the data is in order.  The client is found by one of its own callbacks, *)
(* by a command, or at the head of that queue.                             *)
LEMMA ReleaseKeeps ==
  ASSUME DataInv, StalledInv, NEW c \in Live, NEW cur, Release(c, cur), runs' = runs,
         toClose' \in Seq(Conns), Distinct(toClose'), Elems(toClose') = Elems(toClose) \ {c}
  PROVE  /\ DataInv' /\ StalledInv'
         /\ Live' = Live \ {c}
<1>0. /\ TypesInv /\ WatchInv /\ ListInv /\ FreshInv /\ BacklogInv /\ CloseInv /\ UnblockInv
      /\ TableOK
  BY DEF DataInv, WatchInv
<1>1. c \in Conns /\ fdOf[c] \in ClientFds /\ fdOf[c] \in Fd /\ fdOf[c] \in Slot
  BY <1>0, ClientFd
<1>2. /\ clients' \in Seq(Conns) /\ Distinct(clients') /\ Live' = Live \ {c}
  <2>1. clients' = RemoveFirst(clients, c) /\ clients \in Seq(Conns) /\ Distinct(clients)
    BY <1>0 DEF Release, TypesInv, ListInv
  <2>2. /\ RemoveFirst(clients, c) \in Seq(Conns) /\ Distinct(RemoveFirst(clients, c))
        /\ Elems(RemoveFirst(clients, c)) = Elems(clients) \ {c}
    BY <2>1, RemoveFirstFacts
  <2>3. QED
    BY <2>1, <2>2, LiveElems
<1>3. /\ unblocked' \in Seq(Conns)
      /\ Elems(unblocked') \subseteq Elems(unblocked) \union {c}
      /\ Elems(unblocked) \ {c} \subseteq Elems(unblocked')
      /\ ~resumed => Distinct(unblocked') /\ c \notin Elems(unblocked')
  BY <1>0, <1>1, UnblockedWithoutFacts DEF Release
<1>4. /\ net' = [net EXCEPT ![c] = "closed"]
      /\ sent' = [sent EXCEPT ![c] = 0]
      /\ inbox' = [inbox EXCEPT ![c] = 0]
      /\ left' = [left EXCEPT ![c] = "no"]
      /\ fdOf' = [fdOf EXCEPT ![c] = NoFd]
      /\ flags' = [flags EXCEPT ![c] = {}]
      /\ query' = [query EXCEPT ![c] = 0]
      /\ out' = [out EXCEPT ![c] = FALSE]
      /\ pause' = pause /\ resumed' = resumed /\ backlog' = backlog
  BY DEF Release, Closed, pauseVars
<1>5. /\ \A d \in Conns : net'[d] = IF d = c THEN "closed" ELSE net[d]
      /\ \A d \in Conns : fdOf'[d] = IF d = c THEN NoFd ELSE fdOf[d]
      /\ \A d \in Conns : flags'[d] = IF d = c THEN {} ELSE flags[d]
      /\ \A d \in Conns : query'[d] = IF d = c THEN 0 ELSE query[d]
      /\ \A d \in Conns : out'[d] = IF d = c THEN FALSE ELSE out[d]
  BY <1>0, <1>4 DEF TypesInv
<1>6. TypesInv'
  <2>1. /\ fdOf' \in [Conns -> ClientFds \union {NoFd}]
        /\ out' \in [Conns -> BOOLEAN]
    BY <1>0, <1>4 DEF TypesInv
  <2>4. flags' \in [Conns -> SUBSET Flags]
    <3>1. flags \in [Conns -> SUBSET Flags] /\ {} \in SUBSET Flags
      BY <1>0 DEF TypesInv
    <3>2. QED
      BY <1>4, <3>1
  <2>5. query' \in [Conns -> 0 .. MaxQuery]
    <3>1. query \in [Conns -> 0 .. MaxQuery] /\ 0 \in 0 .. MaxQuery
      BY <1>0 DEF TypesInv
    <3>2. QED
      BY <1>4, <3>1
  <2>2. /\ net' \in [Conns -> {"new", "queued", "open", "closed"}]
        /\ sent' \in [Conns -> Nat] /\ inbox' \in [Conns -> Nat]
        /\ left' \in [Conns -> {"no", "fin", "rst"}]
    BY <1>0, <1>4 DEF TypesInv
  <2>3. QED
    BY <1>0, <1>2, <1>3, <1>4, <2>1, <2>2, <2>4, <2>5 DEF TypesInv
<1>7. WatchInv'
  <2>1. TableOK' /\ \A f \in Fd : interest'[f] = IF f = fdOf[c] THEN {} ELSE interest[f]
    BY <1>0, <1>1, DeleteAndClose DEF Release, Unregister
  <2>2. ASSUME NEW d \in Live' PROVE interest'[fdOf'[d]] = Wanted(d)'
    <3>1. d \in Live /\ d # c /\ d \in Conns /\ fdOf[d] \in Fd
      BY <1>0, <1>2, ClientFd
    <3>2. fdOf'[d] = fdOf[d] /\ out'[d] = out[d] /\ fdOf[d] # fdOf[c]
      BY <1>0, <1>5, <3>1 DEF ListInv
    <3>3. interest[fdOf[d]] = Wanted(d)
      BY <1>0, <3>1 DEF WatchInv
    <3>4. QED
      BY <2>1, <3>1, <3>2, <3>3 DEF Wanted
  <2>3. ASSUME NEW fd \in ClientFds, \A d \in Live' : fdOf'[d] # fd PROVE interest'[fd] = {}
    <3>1. fd \in Fd
      BY FdFacts
    <3>2. CASE fd = fdOf[c]
      BY <2>1, <3>1, <3>2
    <3>3. CASE fd # fdOf[c]
      <4>1. ASSUME NEW d \in Live PROVE fdOf[d] # fd
        <5>1. d \in Conns
          BY <1>0, ClientFd
        <5>2. QED
          BY <1>2, <1>5, <2>3, <3>3, <5>1
      <4>2. interest[fd] = {}
        BY <1>0, <4>1 DEF WatchInv
      <4>3. QED
        BY <2>1, <3>1, <3>3, <4>2
    <3>4. QED
      BY <3>2, <3>3
  <2>4. QED
    BY <2>1, <2>2, <2>3 DEF WatchInv
<1>8. ListInv'
  <2>1. ASSUME NEW d \in Live', NEW e \in Live', fdOf'[d] = fdOf'[e] PROVE d = e
    <3>1. d \in Live /\ e \in Live /\ d # c /\ e # c /\ d \in Conns /\ e \in Conns
      BY <1>0, <1>2, ClientFd
    <3>2. QED
      BY <1>0, <1>5, <2>1, <3>1 DEF ListInv
  <2>2. ASSUME NEW d \in Conns
        PROVE  /\ d \in Live' <=> net'[d] = "open"
               /\ d \in Live' <=> fdOf'[d] # NoFd
    BY <1>0, <1>2, <1>5 DEF ListInv
  <2>3. QED
    BY <1>2, <2>1, <2>2 DEF ListInv
<1>9. FreshInv'
  BY <1>0, <1>2, <1>5 DEF FreshInv
<1>10. BacklogInv'
  <2>1. ASSUME NEW d \in Elems(backlog) PROVE net'[d] = "queued"
    <3>1. d \in Conns /\ net[d] = "queued"
      BY <1>0 DEF TypesInv, BacklogInv, Elems
    <3>2. d # c
      BY <1>0, <1>1, <3>1 DEF ListInv
    <3>3. QED
      BY <1>5, <3>1, <3>2
  <2>2. QED
    BY <1>0, <1>4, <2>1 DEF BacklogInv
<1>11. CloseInv'
  BY <1>0, <1>2, <1>5 DEF CloseInv
<1>12. UnblockInv'
  <2>1. ASSUME NEW d \in Live', UNBLOCKED \in flags'[d] PROVE d \in Elems(unblocked')
    <3>1. d \in Live /\ d # c /\ d \in Conns
      BY <1>0, <1>2, ClientFd
    <3>2. QED
      BY <1>0, <1>3, <1>5, <2>1, <3>1 DEF UnblockInv
  <2>2. ASSUME ~resumed', NEW d \in Elems(unblocked')
        PROVE  d \in Live' /\ UNBLOCKED \in flags'[d]
    <3>0. d \in Conns
      BY <1>3 DEF Elems
    <3>1. ~resumed /\ d \in Elems(unblocked) /\ d # c
      BY <1>3, <1>4, <2>2
    <3>2. d \in Live /\ UNBLOCKED \in flags[d]
      BY <1>0, <3>1 DEF UnblockInv
    <3>3. QED
      BY <1>2, <1>5, <3>0, <3>1, <3>2
  <2>3. QED
    BY <1>3, <1>4, <2>1, <2>2 DEF UnblockInv
<1>13. StalledInv'
  <2>1. ASSUME NEW d \in Live', query'[d] > 0, pause' = "off",
               flags'[d] \intersect {BLOCKED, CLOSE_AFTER_REPLY} = {}
        PROVE  d = runs' \/ d \in Range(unblocked')
    <3>1. d \in Live /\ d # c /\ d \in Conns
      BY <1>0, <1>2, ClientFd
    <3>2. d = runs \/ d \in Range(unblocked)
      BY <1>4, <1>5, <2>1, <3>1 DEF StalledInv
    <3>3. QED
      BY <1>3, <3>1, <3>2 DEF Range, Elems
  <2>2. QED
    BY <2>1 DEF StalledInv
<1>14. QED
  BY <1>2, <1>6, <1>7, <1>8, <1>9, <1>10, <1>11, <1>12, <1>13 DEF DataInv

(* freeClient takes a flagged client out of that queue itself.             *)
LEMMA FreeClientKeeps ==
  ASSUME DataInv, StalledInv, NEW c \in Live, NEW cur, freeClient(c, cur), runs' = runs
  PROVE  /\ DataInv' /\ StalledInv'
         /\ Live' = Live \ {c} /\ current' = CurrentWithout(c, cur)
<1>1. TypesInv /\ CloseInv /\ toClose \in Seq(Conns) /\ Distinct(toClose) /\ c \in Conns
  BY ClientFd DEF DataInv, TypesInv, CloseInv
<1>2. toClose' \in Seq(Conns) /\ Distinct(toClose') /\ Elems(toClose') = Elems(toClose) \ {c}
  <2>1. CASE CLOSE_ASAP \in flags[c]
    <3>1. toClose' = RemoveFirst(toClose, c)
      BY <2>1 DEF freeClient, ToCloseWithout
    <3>2. QED
      BY <1>1, <3>1, RemoveFirstFacts
  <2>2. CASE CLOSE_ASAP \notin flags[c]
    BY <1>1, <2>2 DEF freeClient, ToCloseWithout, CloseInv
  <2>3. QED
    BY <2>1, <2>2
<1>3. QED
  BY <1>2, ReleaseKeeps DEF freeClient, Release
--------------------------------------------------------------------------------
(* Steps that leave the list of clients, their descriptors and what they   *)
(* are watched for alone.                                                  *)
LEMMA SameClients ==
  ASSUME DataInv, UNCHANGED <<table, clients, fdOf, out, net, backlog>>
  PROVE  Live' = Live /\ WatchInv' /\ ListInv' /\ BacklogInv'
<1>0. WatchInv /\ ListInv /\ BacklogInv /\ TableOK
  BY DEF DataInv, WatchInv
<1>1. /\ events' = events /\ interest' = interest /\ maxfd' = maxfd
      /\ clients' = clients /\ fdOf' = fdOf /\ out' = out /\ net' = net /\ backlog' = backlog
  BY DEF table
<1>2. Live' = Live
  BY <1>1 DEF Live
<1>3. TableOK'
  BY <1>0, <1>1 DEF TableOK, AgreementInv
<1>4. WatchInv'
  BY <1>0, <1>1, <1>2, <1>3 DEF WatchInv, Wanted
<1>5. ListInv' /\ BacklogInv'
  BY <1>0, <1>1, <1>2 DEF ListInv, BacklogInv
<1>6. QED
  BY <1>2, <1>4, <1>5

(* Steps of the loop that touch nothing of the clients.                    *)
LEMMA QuietStep ==
  ASSUME DataInv, UNCHANGED <<table, queues, pauseVars, client, kernel>>
  PROVE  /\ DataInv' /\ Live' = Live
         /\ StalledInv /\ runs' = runs => StalledInv'
<1>1. /\ UNCHANGED <<table, clients, fdOf, out, net, backlog>>
      /\ toClose' = toClose /\ unblocked' = unblocked /\ pause' = pause /\ resumed' = resumed
      /\ flags' = flags /\ query' = query /\ sent' = sent /\ inbox' = inbox /\ left' = left
  BY DEF queues, pauseVars, client, kernel, peer
<1>2. Live' = Live /\ WatchInv' /\ ListInv' /\ BacklogInv'
  BY <1>1, SameClients
<1>3. TypesInv'
  BY <1>1 DEF DataInv, TypesInv
<1>4. FreshInv' /\ CloseInv' /\ UnblockInv'
  BY <1>1, <1>2 DEF DataInv, FreshInv, CloseInv, UnblockInv
<1>5. StalledInv /\ runs' = runs => StalledInv'
  BY <1>1, <1>2 DEF StalledInv
<1>6. QED
  BY <1>2, <1>3, <1>4, <1>5 DEF DataInv

(* Who is not looked at again waits for something, as long as no more      *)
(* commands arrive, nobody is unblocked or resumed, and the queue of       *)
(* unblocked clients loses nobody.                                         *)
LEMMA StillStalled ==
  ASSUME StalledInv, Live' \subseteq Live, pause' = pause \/ pause' = "on",
         Range(unblocked) \subseteq Range(unblocked'),
         \A c \in Live' : /\ c = runs => c = runs'
                          /\ query'[c] > 0 => query[c] > 0
                          /\ flags[c] \intersect {BLOCKED, CLOSE_AFTER_REPLY}
                               \subseteq flags'[c] \intersect {BLOCKED, CLOSE_AFTER_REPLY}
  PROVE  StalledInv'
<1>1. ASSUME NEW c \in Live', query'[c] > 0, pause' = "off",
             flags'[c] \intersect {BLOCKED, CLOSE_AFTER_REPLY} = {}
      PROVE  c = runs' \/ c \in Range(unblocked')
  <2>1. /\ c \in Live /\ query[c] > 0 /\ pause = "off"
        /\ flags[c] \intersect {BLOCKED, CLOSE_AFTER_REPLY} = {}
    BY <1>1
  <2>2. c = runs \/ c \in Range(unblocked)
    BY <2>1 DEF StalledInv
  <2>3. QED
    BY <2>2
<1>2. QED
  BY <1>1 DEF StalledInv

--------------------------------------------------------------------------------
(* Commands and replies.                                                   *)

LEMMA ExecuteFacts ==
  ASSUME TypesInv, runs \in Conns, Execute
  PROVE  /\ query' \in [Conns -> 0 .. MaxQuery]
         /\ \A c \in Conns : query'[c] <= query[c]
<1>1. query[runs] > 0 /\ query' = [query EXCEPT ![runs] = @ - 1]
  BY DEF Execute, MayExecute
<1>2. query \in [Conns -> 0 .. MaxQuery]
  BY DEF TypesInv
<1>3. \A c \in Conns : query[c] \in 0 .. MaxQuery
  BY <1>2
<1>4. query[runs] - 1 \in 0 .. MaxQuery
  BY <1>1, <1>3
<1>5. QED
  BY <1>1, <1>2, <1>3, <1>4

(* A reply makes the client wait for writing, and at most schedules it for *)
(* closing.                                                                *)
LEMMA AddReplyKeeps ==
  ASSUME DataInv, StalledInv, NEW c \in Live,
         NEW more \in SUBSET {CLOSE_AFTER_REPLY}, AddReply(c, more),
         UNCHANGED <<clients, unblocked, fdOf, resumed, kernel, runs>>,
         pause' = pause \/ pause' = "on",
         query' \in [Conns -> 0 .. MaxQuery], \A d \in Conns : query'[d] <= query[d]
  PROVE  DataInv' /\ StalledInv' /\ Live' = Live /\ fired' = fired
<1>0. /\ TypesInv /\ WatchInv /\ ListInv /\ FreshInv /\ BacklogInv /\ CloseInv /\ UnblockInv
      /\ TableOK
  BY DEF DataInv, WatchInv
<1>1. c \in Conns /\ fdOf[c] \in ClientFds /\ fdOf[c] \in Fd /\ fdOf[c] \in Slot
  BY <1>0, ClientFd
<1>2. /\ clients' = clients /\ unblocked' = unblocked /\ fdOf' = fdOf /\ resumed' = resumed
      /\ net' = net /\ backlog' = backlog /\ sent' = sent /\ inbox' = inbox /\ left' = left
      /\ Live' = Live
  BY DEF kernel, peer, Live
<1>3. /\ out' \in [Conns -> BOOLEAN]
      /\ \A d \in Conns : out'[d] = (d = c \/ out[d])
  BY <1>0, <1>1 DEF AddReply, TypesInv
<1>4. /\ TableOK'
      /\ fired' = fired
      /\ \A f \in Fd : interest'[f] = IF f = fdOf[c] THEN interest[f] \union {WRITABLE}
                                                    ELSE interest[f]
  <2>1. CASE out[c]
    <3>1. interest' = interest /\ events' = events /\ maxfd' = maxfd /\ fired' = fired
      BY <2>1 DEF AddReply, RegisterWrite, loopVars
    <3>2. TableOK'
      BY <1>0, <3>1 DEF TableOK, AgreementInv
    <3>3. WRITABLE \in interest[fdOf[c]]
      BY <1>0, <2>1 DEF WatchInv, Wanted
    <3>4. QED
      BY <3>1, <3>2, <3>3
  <2>2. CASE ~out[c]
    <3>1. aeCreateFileEvent(fdOf[c], {WRITABLE}) /\ fired' = fired
      BY <2>2 DEF AddReply, RegisterWrite
    <3>2. {WRITABLE} \in Mask
      BY DEF Mask
    <3>3. QED
      BY <1>0, <1>1, <3>1, <3>2, CreateEvent
  <2>3. QED
    BY <2>1, <2>2
<1>5. WatchInv'
  <2>1. ASSUME NEW d \in Live PROVE interest'[fdOf[d]] = Wanted(d)'
    <3>1. d \in Conns /\ fdOf[d] \in Fd /\ interest[fdOf[d]] = Wanted(d)
      BY <1>0, ClientFd DEF WatchInv
    <3>2. CASE d = c
      BY <1>3, <1>4, <3>1, <3>2 DEF Wanted
    <3>3. CASE d # c
      <4>1. fdOf[d] # fdOf[c]
        BY <1>0, <3>3 DEF ListInv
      <4>2. QED
        BY <1>3, <1>4, <3>1, <3>3, <4>1 DEF Wanted
    <3>4. QED
      BY <3>2, <3>3
  <2>2. ASSUME NEW fd \in ClientFds, \A d \in Live : fdOf[d] # fd PROVE interest'[fd] = {}
    <3>1. fd \in Fd /\ fd # fdOf[c] /\ interest[fd] = {}
      BY <1>0, <2>2, FdFacts DEF WatchInv
    <3>2. QED
      BY <1>4, <3>1
  <2>3. QED
    BY <1>2, <1>4, <2>1, <2>2 DEF WatchInv
<1>6. ListInv' /\ BacklogInv'
  BY <1>0, <1>2 DEF ListInv, BacklogInv
<1>7. /\ toClose' \in Seq(Conns)
      /\ flags' \in [Conns -> SUBSET Flags]
      /\ \A d \in Conns : d # c => flags'[d] = flags[d]
      /\ flags[c] \subseteq flags'[c]
      /\ UNBLOCKED \in flags'[c] => UNBLOCKED \in flags[c]
      /\ CloseInv'
  <2>0. flags \in [Conns -> SUBSET Flags] /\ toClose \in Seq(Conns)
    BY <1>0 DEF TypesInv
  <2>1. CASE flags' = [flags EXCEPT ![c] = @ \union more] /\ UNCHANGED toClose
    <3>1. flags[c] \union more \in SUBSET Flags
      BY <1>1, <2>0 DEF Flags
    <3>2. flags'[c] = flags[c] \union more /\ \A d \in Conns : d # c => flags'[d] = flags[d]
      BY <1>1, <2>0, <2>1
    <3>3. /\ CLOSE_ASAP \notin more /\ UNBLOCKED \notin more
      BY DEF CLOSE_ASAP, CLOSE_AFTER_REPLY, UNBLOCKED
    <3>4. CloseInv'
      BY <1>0, <1>2, <2>1, <3>2, <3>3 DEF CloseInv
    <3>5. QED
      BY <2>0, <2>1, <3>1, <3>2, <3>3, <3>4
  <2>2. CASE /\ flags' = [flags EXCEPT ![c] = @ \union more \union {CLOSE_ASAP}]
             /\ toClose' = Scheduled(c)
    <3>1. (flags[c] \union more) \union {CLOSE_ASAP} \in SUBSET Flags
      BY <1>1, <2>0 DEF Flags
    <3>2. /\ flags'[c] = (flags[c] \union more) \union {CLOSE_ASAP}
          /\ \A d \in Conns : d # c => flags'[d] = flags[d]
      BY <1>1, <2>0, <2>2
    <3>3. UNBLOCKED \notin more \union {CLOSE_ASAP}
      BY DEF CLOSE_ASAP, CLOSE_AFTER_REPLY, UNBLOCKED
    <3>4. toClose' \in Seq(Conns) /\ Distinct(toClose') /\ Elems(toClose') = Elems(toClose) \union {c}
      <4>1. CASE CLOSE_ASAP \in flags[c]
        <5>1. toClose' = toClose /\ c \in Elems(toClose)
          BY <1>0, <1>1, <2>2, <4>1 DEF Scheduled, CloseInv
        <5>2. QED
          BY <1>0, <2>0, <5>1 DEF CloseInv
      <4>2. CASE CLOSE_ASAP \notin flags[c]
        <5>1. toClose' = Append(toClose, c) /\ c \notin Elems(toClose)
          BY <1>0, <1>1, <2>2, <4>2 DEF Scheduled, CloseInv
        <5>2. Append(toClose, c) \in Seq(Conns)
          BY <1>1, <2>0
        <5>3. /\ Elems(Append(toClose, c)) = Elems(toClose) \union {c}
              /\ Distinct(toClose) /\ c \notin Elems(toClose) => Distinct(Append(toClose, c))
          BY <1>1, <2>0, AppendElems
        <5>4. QED
          BY <1>0, <5>1, <5>2, <5>3 DEF CloseInv
      <4>3. QED
        BY <4>1, <4>2
    <3>5. CloseInv'
      BY <1>0, <1>1, <1>2, <3>2, <3>4 DEF CloseInv
    <3>6. flags' \in [Conns -> SUBSET Flags]
      BY <2>0, <2>2, <3>1
    <3>7. QED
      BY <3>2, <3>3, <3>4, <3>5, <3>6
  <2>3. QED
    BY <2>1, <2>2 DEF AddReply
<1>8. TypesInv'
  BY <1>0, <1>2, <1>3, <1>7 DEF TypesInv
<1>9. FreshInv'
  <2>1. ASSUME NEW d \in Conns \ Live PROVE flags'[d] = {} /\ query'[d] = 0 /\ out'[d] = FALSE
    <3>1. d # c /\ flags[d] = {} /\ query[d] = 0 /\ out[d] = FALSE
      BY <1>0 DEF FreshInv
    <3>2. query'[d] \in 0 .. MaxQuery /\ query'[d] <= query[d]
      OBVIOUS
    <3>3. query'[d] = 0
      BY <3>1, <3>2
    <3>4. flags'[d] = {}
      BY <1>7, <3>1
    <3>5. out'[d] = FALSE
      BY <1>3, <3>1
    <3>6. QED
      BY <3>3, <3>4, <3>5
  <2>2. QED
    BY <1>2, <2>1 DEF FreshInv
<1>10. UnblockInv'
  <2>1. ASSUME NEW d \in Conns PROVE UNBLOCKED \in flags'[d] <=> UNBLOCKED \in flags[d]
    <3>1. CASE d = c
      BY <1>7, <3>1
    <3>2. CASE d # c
      BY <1>7, <3>2
    <3>3. QED
      BY <3>1, <3>2
  <2>2. Live \subseteq Conns /\ Elems(unblocked) \subseteq Conns
    <3>1. unblocked \in Seq(Conns)
      BY <1>0 DEF TypesInv
    <3>2. Elems(unblocked) \subseteq Conns
      BY <3>1 DEF Elems
    <3>3. Live \subseteq Conns
      BY <1>0, ClientFd
    <3>4. QED
      BY <3>2, <3>3
  <2>3. QED
    BY <1>0, <1>2, <2>1, <2>2 DEF UnblockInv
<1>11. StalledInv'
  <2>1. ASSUME NEW d \in Live
        PROVE  /\ query'[d] > 0 => query[d] > 0
               /\ flags[d] \subseteq flags'[d]
    <3>1. d \in Conns
      BY <1>0, ClientFd
    <3>2. query[d] \in 0 .. MaxQuery /\ query'[d] \in 0 .. MaxQuery /\ query'[d] <= query[d]
      BY <1>0, <3>1 DEF TypesInv
    <3>3. query'[d] > 0 => query[d] > 0
      BY <3>2
    <3>4. flags[d] \subseteq flags'[d]
      <4>1. CASE d = c
        BY <1>7, <4>1
      <4>2. CASE d # c
        BY <1>7, <3>1, <4>2
      <4>3. QED
        BY <4>1, <4>2
    <3>5. QED
      BY <3>3, <3>4
  <2>2. runs' = runs
    OBVIOUS
  <2>3. ASSUME NEW d \in Live'
        PROVE  /\ d = runs => d = runs'
               /\ query'[d] > 0 => query[d] > 0
               /\ flags[d] \intersect {BLOCKED, CLOSE_AFTER_REPLY}
                    \subseteq flags'[d] \intersect {BLOCKED, CLOSE_AFTER_REPLY}
    BY <1>2, <2>1, <2>2
  <2>4. Live' \subseteq Live /\ Range(unblocked) \subseteq Range(unblocked')
    BY <1>2
  <2>5. QED
    BY <2>3, <2>4, StillStalled
<1>12. QED
  BY <1>2, <1>4, <1>5, <1>6, <1>7, <1>8, <1>9, <1>10, <1>11 DEF DataInv
--------------------------------------------------------------------------------
(* The parts of the invariant at the start of a step.                      *)
LEMMA Parts ==
  IInv => /\ DataInv /\ ControlInv /\ StalledInv
          /\ TypesInv /\ WatchInv /\ ListInv /\ FreshInv /\ BacklogInv /\ CloseInv /\ UnblockInv
          /\ TableOK
  BY DEF IInv, DataInv, WatchInv

LEMMA UnblockedElems ==
  ASSUME TypesInv
  PROVE  Elems(unblocked) \subseteq Conns /\ Range(unblocked) = Elems(unblocked)
<1>1. unblocked \in Seq(Conns)
  BY DEF TypesInv
<1>2. QED
  BY <1>1 DEF Elems, Range

(* The peers.                                                              *)
LEMMA ConnectKeeps ==
  ASSUME IInv, NEW c \in Conns, Connect(c)
  PROVE  IInv'
<1> USE Parts
<1>1. /\ events' = events /\ interest' = interest /\ maxfd' = maxfd /\ fired' = fired
      /\ phase' = phase /\ turn' = turn /\ runs' = runs /\ back' = back /\ victim' = victim
      /\ clients' = clients /\ toClose' = toClose /\ unblocked' = unblocked
      /\ current' = current /\ pause' = pause /\ resumed' = resumed
      /\ fdOf' = fdOf /\ flags' = flags /\ query' = query /\ out' = out
      /\ sent' = sent /\ inbox' = inbox /\ left' = left
      /\ net[c] = "new" /\ net' = [net EXCEPT ![c] = "queued"]
      /\ backlog' = Append(backlog, c)
  BY DEF Connect, loopVars, control, queues, pauseVars, client, peer
<1>2. Live' = Live
  BY <1>1 DEF Live
<1>3. net' \in [Conns -> {"new", "queued", "open", "closed"}]
  BY <1>1 DEF TypesInv
<1>4. \A d \in Conns : net'[d] = IF d = c THEN "queued" ELSE net[d]
  BY <1>1 DEF TypesInv
<1>5. backlog \in Seq(Conns) /\ c \notin Elems(backlog)
  BY <1>1 DEF TypesInv, BacklogInv
<1>6. backlog' \in Seq(Conns)
  BY <1>1, <1>5
<1>7. Elems(backlog') = Elems(backlog) \union {c} /\ Distinct(backlog')
  BY <1>1, <1>5, AppendElems DEF BacklogInv
<1>8. TypesInv'
  BY <1>1, <1>3, <1>6 DEF TypesInv
<1>9. WatchInv'
  BY <1>1, <1>2 DEF WatchInv, TableOK, AgreementInv, Wanted
<1>10. ListInv'
  BY <1>1, <1>2, <1>4 DEF ListInv
<1>11. BacklogInv'
  <2>1. Elems(backlog) \subseteq Conns
    BY <1>5 DEF Elems
  <2>2. QED
    BY <1>4, <1>7, <2>1 DEF BacklogInv
<1>12. FreshInv' /\ CloseInv' /\ UnblockInv' /\ StalledInv'
  BY <1>1, <1>2 DEF FreshInv, CloseInv, UnblockInv, StalledInv
<1>13. ControlInv'
  BY <1>1, <1>2 DEF ControlInv
<1>14. QED
  BY <1>8, <1>9, <1>10, <1>11, <1>12, <1>13 DEF IInv, DataInv

LEMMA SendOrLeaveKeeps ==
  ASSUME IInv, NEW c \in Conns, Send(c) \/ Leave(c)
  PROVE  IInv'
<1> USE Parts
<1>1. /\ events' = events /\ interest' = interest /\ maxfd' = maxfd /\ fired' = fired
      /\ phase' = phase /\ turn' = turn /\ runs' = runs /\ back' = back /\ victim' = victim
      /\ clients' = clients /\ toClose' = toClose /\ unblocked' = unblocked
      /\ current' = current /\ pause' = pause /\ resumed' = resumed
      /\ fdOf' = fdOf /\ flags' = flags /\ query' = query /\ out' = out
      /\ net' = net /\ backlog' = backlog
  BY DEF Send, Leave, loopVars, control, queues, pauseVars, client
<1>2. /\ sent' \in [Conns -> Nat] /\ inbox' \in [Conns -> Nat]
      /\ left' \in [Conns -> {"no", "fin", "rst"}]
  <2>0. /\ sent \in [Conns -> Nat] /\ inbox \in [Conns -> Nat]
        /\ left \in [Conns -> {"no", "fin", "rst"}]
    BY DEF TypesInv
  <2>1. CASE Send(c)
    <3>1. /\ sent' = [sent EXCEPT ![c] = @ + 1] /\ inbox' = [inbox EXCEPT ![c] = @ + 1]
          /\ left' = left
      BY <2>1 DEF Send
    <3>2. QED
      BY <2>0, <3>1
  <2>2. CASE Leave(c)
    <3>1. PICK how \in Leaves[c] : left' = [left EXCEPT ![c] = how]
      BY <2>2 DEF Leave
    <3>2. how \in {"no", "fin", "rst"} /\ sent' = sent
      BY <2>2 DEF Leave
    <3>3. inbox' = [inbox EXCEPT ![c] = 0] \/ inbox' = inbox
      BY <2>2 DEF Leave
    <3>4. QED
      BY <2>0, <3>1, <3>2, <3>3
  <2>3. QED
    BY <2>1, <2>2
<1>3. Live' = Live /\ WatchInv' /\ ListInv' /\ BacklogInv'
  BY <1>1, SameClients DEF table
<1>4. TypesInv'
  BY <1>1, <1>2 DEF TypesInv
<1>5. FreshInv' /\ CloseInv' /\ UnblockInv' /\ StalledInv'
  BY <1>1, <1>3 DEF FreshInv, CloseInv, UnblockInv, StalledInv
<1>6. ControlInv'
  BY <1>1, <1>3 DEF ControlInv
<1>7. QED
  BY <1>3, <1>4, <1>5, <1>6 DEF IInv, DataInv

--------------------------------------------------------------------------------
(* The fired events.                                                       *)

LEMMA TakeFacts ==
  ASSUME ControlInv, NEW fd \in Fd, NEW kind, Take(fd, kind)
  PROVE  /\ phase = "handle" /\ runs = None /\ current = None /\ victim' = victim
         /\ fired' \in [Fd -> Mask] /\ fired'[ListenFd] \subseteq {READABLE}
         /\ turn' \in ClientFds \union {NoFd}
         /\ \A f \in Fd : fired'[f] \subseteq fired[f]
<1>1. /\ phase = "handle" /\ victim' = victim /\ kind \in fired[fd]
      /\ fired' = [fired EXCEPT ![fd] = @ \ {kind}]
      /\ turn' = IF fired'[fd] = {} THEN NoFd ELSE fd
  BY DEF Take
<1>2. fired \in [Fd -> Mask] /\ fired[ListenFd] \subseteq {READABLE}
  BY DEF ControlInv
<1>3. runs = None /\ current = None
  BY <1>1 DEF ControlInv
<1>4. \A f \in Fd : fired'[f] = IF f = fd THEN fired[f] \ {kind} ELSE fired[f]
  BY <1>1, <1>2
<1>5. fired' \in [Fd -> Mask]
  BY <1>1, <1>2 DEF Mask
<1>6. fired'[ListenFd] \subseteq {READABLE}
  BY <1>2, <1>4, FdFacts
<1>7. fd = ListenFd => fired'[fd] = {}
  BY <1>1, <1>2, <1>4
<1>8. turn' \in ClientFds \union {NoFd}
  BY <1>1, <1>7 DEF ClientFds
<1>9. QED
  BY <1>1, <1>3, <1>4, <1>5, <1>6, <1>8

(* After a callback that ends where it began.                              *)
LEMMA BackToHandle ==
  ASSUME ControlInv, NEW fd \in Fd, NEW kind, Take(fd, kind),
         UNCHANGED <<phase, runs, back>>, current' = None
  PROVE  ControlInv'
<1>1. /\ phase = "handle" /\ runs = None /\ victim' = victim
      /\ fired' \in [Fd -> Mask] /\ fired'[ListenFd] \subseteq {READABLE}
      /\ turn' \in ClientFds \union {NoFd}
  BY TakeFacts
<1>2. phase' = "handle" /\ runs' = None /\ back' = back /\ current' = None
  BY <1>1
<1>3. {runs', victim', current'} \subseteq Conns \union {None} /\ back' \in {"before", "handle"}
  BY <1>1, <1>2 DEF ControlInv
<1>4. QED
  BY <1>1, <1>2, <1>3 DEF ControlInv
--------------------------------------------------------------------------------
(* processInputBuffer.                                                     *)

LEMMA ProcessFacts ==
  ASSUME IInv, phase \in {"process", "kill"}
  PROVE  /\ runs \in Live /\ runs \in Conns /\ runs # None /\ current = runs
         /\ phase = "kill" => victim \in Live /\ victim # runs
<1>1. runs \in Live /\ current = runs /\ (phase = "kill" => victim \in Live /\ victim # runs)
  BY Parts DEF ControlInv
<1>2. runs \in Conns
  BY <1>1, Parts, ClientFd
<1>3. QED
  BY <1>1, <1>2

LEMMA PauseOverKeeps ==
  ASSUME IInv, PauseOver
  PROVE  IInv'
<1> USE Parts
<1>1. /\ UNCHANGED <<table, clients, fdOf, out, net, backlog>>
      /\ fired' = fired /\ phase' = phase /\ turn' = turn /\ runs' = runs /\ back' = back
      /\ victim' = victim /\ toClose' = toClose /\ current' = current
      /\ flags' = flags /\ query' = query /\ sent' = sent /\ inbox' = inbox /\ left' = left
      /\ pause' = "off" /\ resumed' = TRUE
      /\ unblocked' = unblocked \o clients
  BY DEF PauseOver, Resumed, loopVars, table, control, client, kernel, peer
<1>2. Live' = Live /\ WatchInv' /\ ListInv' /\ BacklogInv'
  BY <1>1, SameClients
<1>3. /\ unblocked' \in Seq(Conns)
      /\ Elems(unblocked') = Elems(unblocked) \union Elems(clients)
  <2>1. unblocked \in Seq(Conns) /\ clients \in Seq(Conns)
    BY DEF TypesInv
  <2>2. QED
    BY <1>1, <2>1, ConcatElems
<1>4. Live \subseteq Elems(unblocked')
  BY <1>3, LiveElems
<1>5. TypesInv'
  BY <1>1, <1>3 DEF TypesInv, table
<1>6. FreshInv' /\ CloseInv'
  BY <1>1, <1>2 DEF FreshInv, CloseInv
<1>7. UnblockInv'
  BY <1>1, <1>2, <1>4 DEF UnblockInv
<1>8. StalledInv'
  <2>1. Range(unblocked') = Elems(unblocked')
    BY DEF Range, Elems
  <2>2. QED
    BY <1>2, <1>4, <2>1 DEF StalledInv
<1>9. ControlInv'
  BY <1>1, <1>2 DEF ControlInv
<1>10. QED
  BY <1>2, <1>5, <1>6, <1>7, <1>8, <1>9 DEF IInv, DataInv

(* The client whose input was processed is not left with a command that    *)
(* could have been executed.                                               *)
LEMMA InputDoneKeeps ==
  ASSUME IInv, InputDone
  PROVE  IInv'
<1> USE Parts
<1>1. /\ phase = "process"
      /\ query[runs] = 0 \/ pause = "on" \/ (pause = "off" /\ ~MayExecute(runs))
      /\ phase' = back /\ runs' = None /\ current' = None /\ back' = "before"
      /\ UNCHANGED <<loopVars, turn, victim, queues, pauseVars, client, kernel>>
  BY DEF InputDone
<1>2. /\ UNCHANGED <<table, clients, fdOf, out, net, backlog>>
      /\ fired' = fired /\ turn' = turn /\ victim' = victim /\ toClose' = toClose
      /\ unblocked' = unblocked
      /\ flags' = flags /\ query' = query /\ sent' = sent /\ inbox' = inbox /\ left' = left
      /\ pause' = pause /\ resumed' = resumed
  BY <1>1 DEF loopVars, table, queues, pauseVars, client, kernel, peer
<1>3. Live' = Live /\ WatchInv' /\ ListInv' /\ BacklogInv'
  BY <1>2, SameClients
<1>4. TypesInv'
  BY <1>2 DEF TypesInv, table
<1>5. FreshInv' /\ CloseInv' /\ UnblockInv'
  BY <1>2, <1>3 DEF FreshInv, CloseInv, UnblockInv
<1>6. StalledInv'
  <2>1. ASSUME NEW c \in Live, query[c] > 0, pause = "off",
               flags[c] \intersect {BLOCKED, CLOSE_AFTER_REPLY} = {}
        PROVE  c \in Range(unblocked)
    <3>1. c # runs
      BY <1>1, <2>1 DEF MayExecute
    <3>2. QED
      BY <2>1, <3>1 DEF StalledInv
  <2>2. QED
    BY <1>2, <1>3, <2>1 DEF StalledInv
<1>7. ControlInv'
  <2>1. phase' \in {"before", "handle"} /\ None \in Conns \union {None}
    BY <1>1 DEF ControlInv
  <2>2. QED
    BY <1>1, <1>2, <2>1 DEF ControlInv
<1>8. QED
  BY <1>3, <1>4, <1>5, <1>6, <1>7 DEF IInv, DataInv

(* Commands that reply, to whomever, and then go on or free another client.*)
LEMMA ReplyKeeps ==
  ASSUME IInv, CommandReplies \/ ClientKill \/ ReplyAndClose \/ ClientPause
  PROVE  IInv'
<1> USE Parts
<1>1. Execute /\ phase = "process"
  BY DEF CommandReplies, ClientKill, ReplyAndClose, ClientPause, Execute
<1>2. runs \in Live /\ runs \in Conns
  BY <1>1, ProcessFacts
<1>3. query' \in [Conns -> 0 .. MaxQuery] /\ \A d \in Conns : query'[d] <= query[d]
  BY <1>1, <1>2, ExecuteFacts
<1>4. /\ UNCHANGED <<clients, unblocked, fdOf, resumed, kernel, runs>>
      /\ pause' = pause \/ pause' = "on"
      /\ turn' = turn /\ back' = back /\ current' = current
      /\ \/ phase' = phase /\ victim' = victim
         \/ phase' = "kill" /\ victim' \in Live \ {runs}
  BY DEF CommandReplies, ClientKill, ReplyAndClose, ClientPause, control, pauseVars, KilledAtOnce
<1>5. \E c \in Live, more \in SUBSET {CLOSE_AFTER_REPLY} : AddReply(c, more)
  <2>1. {} \in SUBSET {CLOSE_AFTER_REPLY} /\ {CLOSE_AFTER_REPLY} \in SUBSET {CLOSE_AFTER_REPLY}
    OBVIOUS
  <2>2. QED
    BY <1>2, <2>1 DEF CommandReplies, ClientKill, ReplyAndClose, ClientPause
<1>6. DataInv' /\ StalledInv' /\ Live' = Live /\ fired' = fired
  BY <1>3, <1>4, <1>5, AddReplyKeeps
<1>7. ControlInv'
  <2>1. victim' \in Conns \union {None}
    BY <1>4, ClientFd DEF ControlInv
  <2>2. phase' \in {"process", "kill"} /\ (phase' = "kill" => victim' \in Live \ {runs})
    BY <1>1, <1>4
  <2>3. QED
    BY <1>2, <1>4, <1>6, <2>1, <2>2 DEF ControlInv
<1>8. QED
  BY <1>6, <1>7 DEF IInv

LEMMA KillKeeps ==
  ASSUME IInv, Kill
  PROVE  IInv'
<1> USE Parts
<1>1. /\ phase = "kill" /\ freeClient(victim, current) /\ victim' = None /\ phase' = "process"
      /\ fired' = fired /\ turn' = turn /\ runs' = runs /\ back' = back
  BY DEF Kill
<1>2. /\ runs \in Live /\ runs \in Conns /\ current = runs
      /\ victim \in Live /\ victim # runs
  BY <1>1, ProcessFacts
<1>3. /\ DataInv' /\ StalledInv' /\ Live' = Live \ {victim}
      /\ current' = CurrentWithout(victim, current)
  BY <1>1, <1>2, FreeClientKeeps
<1>4. current' = runs
  BY <1>2, <1>3 DEF CurrentWithout
<1>5. ControlInv'
  BY <1>1, <1>2, <1>3, <1>4 DEF ControlInv
<1>6. QED
  BY <1>3, <1>5 DEF IInv

LEMMA CommandBlocksKeeps ==
  ASSUME IInv, CommandBlocks
  PROVE  IInv'
<1> USE Parts
<1>1. /\ Execute /\ phase = "process"
      /\ flags' = [flags EXCEPT ![runs] = @ \union {BLOCKED}]
      /\ UNCHANGED <<table, clients, fdOf, out, net, backlog>>
      /\ fired' = fired /\ phase' = phase /\ turn' = turn /\ runs' = runs /\ back' = back
      /\ victim' = victim /\ toClose' = toClose /\ current' = current /\ unblocked' = unblocked
      /\ sent' = sent /\ inbox' = inbox /\ left' = left
      /\ pause' = pause /\ resumed' = resumed
  BY DEF CommandBlocks, Execute, loopVars, table, control, queues, pauseVars, kernel, peer
<1>2. runs \in Live /\ runs \in Conns
  BY <1>1, ProcessFacts
<1>3. query' \in [Conns -> 0 .. MaxQuery] /\ \A d \in Conns : query'[d] <= query[d]
  BY <1>1, <1>2, ExecuteFacts
<1>4. Live' = Live /\ WatchInv' /\ ListInv' /\ BacklogInv'
  BY <1>1, SameClients
<1>5. /\ flags' \in [Conns -> SUBSET Flags]
      /\ \A d \in Conns : flags'[d] = IF d = runs THEN flags[d] \union {BLOCKED} ELSE flags[d]
  <2>1. flags \in [Conns -> SUBSET Flags] /\ flags[runs] \union {BLOCKED} \in SUBSET Flags
    BY <1>2 DEF TypesInv, Flags
  <2>2. QED
    BY <1>1, <2>1
<1>6. TypesInv'
  BY <1>1, <1>3, <1>5 DEF TypesInv, table
<1>7. BLOCKED # UNBLOCKED /\ BLOCKED # CLOSE_ASAP
  BY DEF BLOCKED, UNBLOCKED, CLOSE_ASAP
<1>8. \A d \in Conns : /\ UNBLOCKED \in flags'[d] <=> UNBLOCKED \in flags[d]
                       /\ CLOSE_ASAP \in flags'[d] <=> CLOSE_ASAP \in flags[d]
                       /\ flags[d] \subseteq flags'[d]
  BY <1>5, <1>7
<1>9. FreshInv'
  <2>1. ASSUME NEW d \in Conns \ Live PROVE flags'[d] = {} /\ query'[d] = 0
    <3>1. d # runs /\ flags[d] = {} /\ query[d] = 0
      BY <1>2 DEF FreshInv
    <3>2. query'[d] \in 0 .. MaxQuery /\ query'[d] <= query[d]
      BY <1>3
    <3>3. query'[d] = 0
      BY <3>1, <3>2
    <3>4. flags'[d] = {}
      BY <1>5, <3>1
    <3>5. QED
      BY <3>3, <3>4
  <2>2. QED
    BY <1>1, <1>4, <2>1 DEF FreshInv
<1>10. CloseInv'
  BY <1>1, <1>4, <1>8 DEF CloseInv
<1>11. UnblockInv'
  <2>1. Live \subseteq Conns /\ Elems(unblocked) \subseteq Conns
    BY ClientFd, UnblockedElems
  <2>2. QED
    BY <1>1, <1>4, <1>8, <2>1 DEF UnblockInv
<1>12. StalledInv'
  <2>1. ASSUME NEW d \in Live
        PROVE  /\ query'[d] > 0 => query[d] > 0
               /\ flags[d] \subseteq flags'[d]
    <3>1. d \in Conns
      BY ClientFd
    <3>2. query[d] \in 0 .. MaxQuery /\ query'[d] \in 0 .. MaxQuery /\ query'[d] <= query[d]
      BY <1>3, <3>1 DEF TypesInv
    <3>3. query'[d] > 0 => query[d] > 0
      BY <3>2
    <3>4. QED
      BY <1>8, <3>1, <3>3
  <2>2. Live' \subseteq Live /\ Range(unblocked) \subseteq Range(unblocked') /\ pause' = pause
    BY <1>1, <1>4
  <2>3. ASSUME NEW d \in Live'
        PROVE  /\ d = runs => d = runs'
               /\ query'[d] > 0 => query[d] > 0
               /\ flags[d] \intersect {BLOCKED, CLOSE_AFTER_REPLY}
                    \subseteq flags'[d] \intersect {BLOCKED, CLOSE_AFTER_REPLY}
    BY <1>1, <1>4, <2>1
  <2>4. QED
    BY <2>2, <2>3, StillStalled
<1>13. ControlInv'
  BY <1>1, <1>4 DEF ControlInv
<1>14. QED
  BY <1>4, <1>6, <1>9, <1>10, <1>11, <1>12, <1>13 DEF IInv, DataInv
(* A client that a command unblocks is in the queue before anything else   *)
(* happens.                                                                *)
LEMMA CommandUnblocksKeeps ==
  ASSUME IInv, CommandUnblocks
  PROVE  IInv'
<1> USE Parts
<1>1. /\ Execute /\ phase = "process"
      /\ UNCHANGED <<table, clients, fdOf, out, net, backlog>>
      /\ fired' = fired /\ phase' = phase /\ turn' = turn /\ runs' = runs /\ back' = back
      /\ victim' = victim /\ toClose' = toClose /\ current' = current
      /\ sent' = sent /\ inbox' = inbox /\ left' = left
      /\ pause' = pause /\ resumed' = resumed
  BY DEF CommandUnblocks, Execute, loopVars, table, control, pauseVars, kernel, peer
<1>2. PICK c \in Live : /\ BLOCKED \in flags[c]
                        /\ flags' = [flags EXCEPT ![c] = (@ \ {BLOCKED}) \union {UNBLOCKED}]
                        /\ unblocked' = Unblocking(c)
  BY DEF CommandUnblocks
<1>3. runs \in Live /\ runs \in Conns /\ c \in Conns
  BY <1>1, ProcessFacts, ClientFd
<1>4. query' \in [Conns -> 0 .. MaxQuery] /\ \A d \in Conns : query'[d] <= query[d]
  BY <1>1, <1>3, ExecuteFacts
<1>5. Live' = Live /\ WatchInv' /\ ListInv' /\ BacklogInv'
  BY <1>1, SameClients
<1>6. /\ flags' \in [Conns -> SUBSET Flags]
      /\ \A d \in Conns : d # c => flags'[d] = flags[d]
      /\ flags'[c] = (flags[c] \ {BLOCKED}) \union {UNBLOCKED}
  <2>1. /\ flags \in [Conns -> SUBSET Flags]
        /\ (flags[c] \ {BLOCKED}) \union {UNBLOCKED} \in SUBSET Flags
    BY <1>3 DEF TypesInv, Flags
  <2>2. QED
    BY <1>2, <1>3, <2>1
<1>7. /\ unblocked' \in Seq(Conns)
      /\ Elems(unblocked') = Elems(unblocked) \union {c}
      /\ ~resumed => Distinct(unblocked')
  BY <1>2, <1>3, UnblockingFacts
<1>8. TypesInv'
  BY <1>1, <1>4, <1>6, <1>7 DEF TypesInv, table
<1>9. FreshInv'
  <2>1. ASSUME NEW d \in Conns \ Live PROVE flags'[d] = {} /\ query'[d] = 0
    <3>1. d # c /\ flags[d] = {} /\ query[d] = 0
      BY <1>2 DEF FreshInv
    <3>2. query'[d] \in 0 .. MaxQuery /\ query'[d] <= query[d]
      BY <1>4
    <3>3. query'[d] = 0
      BY <3>1, <3>2
    <3>4. flags'[d] = {}
      BY <1>6, <3>1
    <3>5. QED
      BY <3>3, <3>4
  <2>2. QED
    BY <1>1, <1>5, <2>1 DEF FreshInv
<1>10. CloseInv'
  <2>1. CLOSE_ASAP # BLOCKED /\ CLOSE_ASAP # UNBLOCKED
    BY DEF CLOSE_ASAP, BLOCKED, UNBLOCKED
  <2>2. ASSUME NEW d \in Conns PROVE CLOSE_ASAP \in flags'[d] <=> CLOSE_ASAP \in flags[d]
    BY <1>6, <2>1
  <2>3. QED
    BY <1>1, <1>5, <2>2 DEF CloseInv
<1>11. UnblockInv'
  <2>1. Live \subseteq Conns /\ Elems(unblocked) \subseteq Conns
    BY ClientFd, UnblockedElems
  <2>2. ASSUME NEW d \in Live, UNBLOCKED \in flags'[d] PROVE d \in Elems(unblocked')
    BY <1>6, <1>7, <2>1, <2>2 DEF UnblockInv
  <2>3. ASSUME ~resumed, NEW d \in Elems(unblocked') PROVE d \in Live /\ UNBLOCKED \in flags'[d]
    BY <1>6, <1>7, <2>1, <2>3 DEF UnblockInv
  <2>4. QED
    BY <1>1, <1>5, <1>7, <2>2, <2>3 DEF UnblockInv
<1>12. StalledInv'
  <2>1. ASSUME NEW d \in Live, query'[d] > 0, pause = "off",
               flags'[d] \intersect {BLOCKED, CLOSE_AFTER_REPLY} = {}, d # c
        PROVE  d = runs \/ d \in Range(unblocked)
    <3>1. d \in Conns
      BY ClientFd
    <3>2. query[d] \in 0 .. MaxQuery /\ query'[d] \in 0 .. MaxQuery /\ query'[d] <= query[d]
      BY <1>4, <3>1 DEF TypesInv
    <3>3. query[d] > 0
      BY <2>1, <3>2
    <3>4. flags[d] \intersect {BLOCKED, CLOSE_AFTER_REPLY} = {}
      BY <1>6, <2>1, <3>1
    <3>5. QED
      BY <2>1, <3>3, <3>4 DEF StalledInv
  <2>2. Range(unblocked) = Elems(unblocked) /\ Range(unblocked') = Elems(unblocked')
    BY DEF Range, Elems
  <2>3. QED
    BY <1>1, <1>5, <1>7, <2>1, <2>2 DEF StalledInv
<1>13. ControlInv'
  BY <1>1, <1>5 DEF ControlInv
<1>14. QED
  BY <1>5, <1>8, <1>9, <1>10, <1>11, <1>12, <1>13 DEF IInv, DataInv

LEMMA ProcessInputBufferKeeps ==
  ASSUME IInv, processInputBuffer
  PROVE  IInv'
BY PauseOverKeeps, InputDoneKeeps, ReplyKeeps, KillKeeps, CommandBlocksKeeps,
   CommandUnblocksKeeps
   DEF processInputBuffer

--------------------------------------------------------------------------------
(* The loop, before it sleeps and around the callbacks.                    *)

LEMMA ProcessUnblockedKeeps ==
  ASSUME IInv, ProcessUnblocked
  PROVE  IInv'
<1> USE Parts
<1> DEFINE c == Head(unblocked)
<1>1. /\ phase = "before" /\ unblocked # <<>> /\ c \in Live
      /\ unblocked' = Tail(unblocked)
      /\ flags' = [flags EXCEPT ![c] = @ \ {UNBLOCKED}]
      /\ \/ query[c] > 0 /\ phase' = "process" /\ runs' = c /\ current' = c /\ back' = "before"
         \/ ~(query[c] > 0) /\ phase' = phase /\ runs' = runs /\ current' = current /\ back' = back
      /\ UNCHANGED <<table, clients, fdOf, out, net, backlog>>
      /\ fired' = fired /\ turn' = turn /\ victim' = victim /\ toClose' = toClose
      /\ query' = query /\ sent' = sent /\ inbox' = inbox /\ left' = left
      /\ pause' = pause /\ resumed' = resumed
  BY DEF ProcessUnblocked, StartProcessing, loopVars, table, pauseVars, kernel, peer
<1> HIDE DEF c
<1>2. /\ unblocked \in Seq(Conns) /\ unblocked' \in Seq(Conns)
      /\ Elems(unblocked') \subseteq Elems(unblocked)
      /\ Elems(unblocked) \ {c} \subseteq Elems(unblocked')
  BY <1>1, TailFacts DEF TypesInv, c
<1>3. c \in Conns
  BY <1>1, ClientFd
<1>4. ~resumed => Distinct(unblocked') /\ c \notin Elems(unblocked')
  BY <1>1, <1>2, TailElems DEF UnblockInv, c
<1>5. Live' = Live /\ WatchInv' /\ ListInv' /\ BacklogInv'
  BY <1>1, SameClients
<1>6. /\ flags' \in [Conns -> SUBSET Flags]
      /\ \A d \in Conns : flags'[d] = IF d = c THEN flags[d] \ {UNBLOCKED} ELSE flags[d]
  <2>1. flags \in [Conns -> SUBSET Flags] /\ flags[c] \ {UNBLOCKED} \in SUBSET Flags
    BY <1>3 DEF TypesInv
  <2>2. QED
    BY <1>1, <2>1
<1>7. TypesInv'
  BY <1>1, <1>2, <1>6 DEF TypesInv, table
<1>8. FreshInv'
  BY <1>1, <1>5, <1>6 DEF FreshInv
<1>9. CloseInv'
  <2>1. CLOSE_ASAP # UNBLOCKED
    BY DEF CLOSE_ASAP, UNBLOCKED
  <2>2. ASSUME NEW d \in Conns PROVE CLOSE_ASAP \in flags'[d] <=> CLOSE_ASAP \in flags[d]
    BY <1>6, <2>1
  <2>3. QED
    BY <1>1, <1>5, <2>2 DEF CloseInv
<1>10. UnblockInv'
  <2>1. Live \subseteq Conns /\ Elems(unblocked) \subseteq Conns
    BY ClientFd, UnblockedElems
  <2>2. ASSUME NEW d \in Live, UNBLOCKED \in flags'[d] PROVE d \in Elems(unblocked')
    BY <1>2, <1>6, <2>1, <2>2 DEF UnblockInv
  <2>3. ASSUME ~resumed, NEW d \in Elems(unblocked') PROVE d \in Live /\ UNBLOCKED \in flags'[d]
    BY <1>2, <1>4, <1>6, <2>1, <2>3 DEF UnblockInv
  <2>4. QED
    BY <1>1, <1>4, <1>5, <2>2, <2>3 DEF UnblockInv
<1>11. StalledInv'
  <2>1. runs = None
    BY <1>1 DEF ControlInv
  <2>2. ASSUME NEW d \in Live, query[d] > 0, pause = "off",
               flags'[d] \intersect {BLOCKED, CLOSE_AFTER_REPLY} = {}
        PROVE  d = runs' \/ d \in Range(unblocked')
    <3>1. CASE d = c
      BY <1>1, <2>2, <3>1
    <3>2. CASE d # c
      <4>1. d \in Conns /\ flags'[d] = flags[d]
        BY <1>6, <3>2, ClientFd
      <4>2. d \in Range(unblocked)
        BY <2>1, <2>2, <4>1 DEF StalledInv
      <4>3. QED
        BY <1>2, <3>2, <4>2 DEF Range, Elems
    <3>3. QED
      BY <3>1, <3>2
  <2>3. QED
    BY <1>1, <1>5, <2>2 DEF StalledInv
<1>12. ControlInv'
  <2>1. CASE query[c] > 0 /\ phase' = "process" /\ runs' = c /\ current' = c /\ back' = "before"
    BY <1>1, <1>3, <1>5, <2>1 DEF ControlInv
  <2>2. CASE phase' = phase /\ runs' = runs /\ current' = current /\ back' = back
    BY <1>1, <1>5, <2>2 DEF ControlInv
  <2>3. QED
    BY <1>1, <2>1, <2>2
<1>13. QED
  BY <1>5, <1>7, <1>8, <1>9, <1>10, <1>11, <1>12 DEF IInv, DataInv
LEMMA ReadyFacts ==
  ASSUME TableOK
  PROVE  /\ [fd \in Fd |-> Ready(fd)] \in [Fd -> Mask]
         /\ Ready(ListenFd) \subseteq {READABLE}
<1>1. ASSUME NEW fd \in Fd PROVE Ready(fd) \in Mask
  <2>1. interest[fd] \subseteq {READABLE, WRITABLE}
    BY DEF TableOK, Mask
  <2>2. Ready(fd) \subseteq {READABLE, WRITABLE}
    BY <2>1 DEF Ready
  <2>3. QED
    BY <2>2 DEF Mask
<1>2. Ready(ListenFd) \subseteq {READABLE}
  BY DEF Ready
<1>3. QED
  BY <1>1, <1>2

LEMMA PollKeeps ==
  ASSUME IInv, Poll
  PROVE  IInv'
<1> USE Parts
<1>1. /\ UNCHANGED <<table, queues, pauseVars, client, kernel>>
      /\ phase = "before" /\ phase' = "handle" /\ fired' = [fd \in Fd |-> Ready(fd)]
      /\ turn' = turn /\ runs' = runs /\ back' = back /\ victim' = victim /\ current' = current
  BY DEF Poll, world
<1>2. DataInv' /\ StalledInv'
  BY <1>1, QuietStep
<1>3. fired' \in [Fd -> Mask] /\ fired'[ListenFd] \subseteq {READABLE}
  BY <1>1, ReadyFacts, FdFacts
<1>4. ControlInv'
  BY <1>1, <1>3 DEF ControlInv
<1>5. QED
  BY <1>2, <1>4 DEF IInv

LEMMA PhaseOnlyKeeps ==
  ASSUME IInv, ProcessFreed \/ NotDue \/ CloseDone \/ AcceptEnds
  PROVE  IInv'
<1> USE Parts
<1>1. /\ UNCHANGED <<table, queues, pauseVars, client, kernel>>
      /\ phase \in {"before", "handle", "close", "accept"}
      /\ phase' \in {"before", "handle", "undefined"}
      /\ fired' = fired /\ turn' = turn /\ runs' = runs /\ back' = back /\ victim' = victim
      /\ current' = current
  BY DEF ProcessFreed, NotDue, LoopEnds, CloseDone, AcceptEnds, world, loopVars, table
<1>2. DataInv' /\ StalledInv'
  BY <1>1, QuietStep
<1>3. ControlInv'
  BY <1>1 DEF ControlInv
<1>4. QED
  BY <1>2, <1>3 DEF IInv

LEMMA DueKeeps ==
  ASSUME IInv, Due
  PROVE  IInv'
<1> USE Parts
<1>1. /\ UNCHANGED <<table, clients, fdOf, out, net, backlog>>
      /\ phase = "handle" /\ phase' = "close"
      /\ fired' = fired /\ turn' = turn /\ runs' = runs /\ back' = back /\ victim' = victim
      /\ toClose' = toClose /\ unblocked' = unblocked /\ current' = current
      /\ flags' = flags /\ query' = query /\ sent' = sent /\ inbox' = inbox /\ left' = left
      /\ resumed' = resumed
      /\ pause' \in IF pause = "on" THEN {"on", "over"} ELSE {pause}
  BY DEF Due, LoopEnds, loopVars, table, queues, client, kernel, peer
<1>2. Live' = Live /\ WatchInv' /\ ListInv' /\ BacklogInv'
  BY <1>1, SameClients
<1>3. pause' \in {"off", "on", "over"} /\ (pause' = "off" => pause = "off")
  BY <1>1 DEF TypesInv
<1>4. TypesInv'
  BY <1>1, <1>3 DEF TypesInv, table
<1>5. FreshInv' /\ CloseInv' /\ UnblockInv'
  BY <1>1, <1>2 DEF FreshInv, CloseInv, UnblockInv
<1>6. StalledInv'
  BY <1>1, <1>2, <1>3 DEF StalledInv
<1>7. ControlInv'
  BY <1>1, <1>2 DEF ControlInv
<1>8. QED
  BY <1>2, <1>4, <1>5, <1>6, <1>7 DEF IInv, DataInv

LEMMA CloseNextKeeps ==
  ASSUME IInv, CloseNext
  PROVE  IInv'
<1> USE Parts
<1> DEFINE c == Head(toClose)
<1>1. /\ phase = "close" /\ toClose # <<>> /\ Release(c, current) /\ toClose' = Tail(toClose)
      /\ phase' = phase /\ turn' = turn /\ runs' = runs /\ back' = back /\ victim' = victim
      /\ fired' = fired
  BY DEF CloseNext, control
<1>2. /\ toClose' \in Seq(Conns) /\ Distinct(toClose') /\ Elems(toClose') = Elems(toClose) \ {c}
      /\ c \in Elems(toClose) /\ c \in Conns
  BY <1>1, TailElems, TailFacts DEF TypesInv, CloseInv
<1>3. c \in Live
  BY <1>2 DEF CloseInv
<1> HIDE DEF c
<1>4. DataInv' /\ StalledInv'
  BY <1>1, <1>2, <1>3, ReleaseKeeps
<1>5. current = None /\ runs = None
  BY <1>1 DEF ControlInv
<1>6. current' = None
  BY <1>1, <1>5 DEF Release, CurrentWithout
<1>7. ControlInv'
  BY <1>1, <1>5, <1>6 DEF ControlInv
<1>8. QED
  BY <1>4, <1>7 DEF IInv

(* A callback that does nothing, or none that is called at all.            *)
LEMMA NothingDoneKeeps ==
  ASSUME IInv, NEW fd \in Fd, NEW kind, Take(fd, kind),
         UNCHANGED <<phase, runs, back, table, queues, pauseVars, client, kernel>>,
         current' = None
  PROVE  IInv'
<1> USE Parts
<1>1. DataInv' /\ StalledInv'
  BY QuietStep
<1>2. ControlInv'
  BY BackToHandle
<1>3. QED
  BY <1>1, <1>2 DEF IInv

LEMMA LoopKeeps ==
  ASSUME IInv, Loop
  PROVE  IInv'
<1> USE Parts
<1>1. CASE \E fd \in ClientFds, kind \in {READABLE, WRITABLE} : Skip(fd, kind)
  <2>1. PICK fd \in ClientFds, kind \in {READABLE, WRITABLE} : Skip(fd, kind)
    BY <1>1
  <2>2. Take(fd, kind) /\ UNCHANGED <<phase, runs, back, table, world>> /\ fd \in Fd
    BY <2>1, FdFacts DEF Skip
  <2>3. current' = None
    BY <2>2, TakeFacts DEF world
  <2>4. UNCHANGED <<phase, runs, back, table, queues, pauseVars, client, kernel>>
    BY <2>2 DEF world
  <2>5. QED
    BY <2>2, <2>3, <2>4, NothingDoneKeeps
<1>2. QED
  BY <1>1, ProcessUnblockedKeeps, PollKeeps, PhaseOnlyKeeps, DueKeeps, CloseNextKeeps DEF Loop

--------------------------------------------------------------------------------
(* acceptTcpHandler.                                                       *)

LEMMA AcceptBeginsKeeps ==
  ASSUME IInv, AcceptBegins
  PROVE  IInv'
<1> USE Parts
<1>1. /\ Take(ListenFd, READABLE) /\ phase' = "accept"
      /\ UNCHANGED <<runs, back, table, world>> /\ ListenFd \in Fd
  BY FdFacts DEF AcceptBegins
<1>2. /\ UNCHANGED <<table, queues, pauseVars, client, kernel>>
      /\ current' = current /\ runs' = runs /\ back' = back
  BY <1>1 DEF world
<1>3. DataInv' /\ StalledInv'
  BY <1>2, QuietStep
<1>4. /\ runs = None /\ current = None /\ victim' = victim
      /\ fired' \in [Fd -> Mask] /\ fired'[ListenFd] \subseteq {READABLE}
      /\ turn' \in ClientFds \union {NoFd}
  BY <1>1, TakeFacts
<1>5. ControlInv'
  BY <1>1, <1>2, <1>4 DEF ControlInv
<1>6. QED
  BY <1>3, <1>5 DEF IInv

LEMMA BacklogHead ==
  ASSUME IInv, backlog # <<>>
  PROVE  /\ Head(backlog) \in Conns /\ net[Head(backlog)] = "queued"
         /\ Head(backlog) \notin Live
         /\ Tail(backlog) \in Seq(Conns) /\ Distinct(Tail(backlog))
         /\ Elems(Tail(backlog)) = Elems(backlog) \ {Head(backlog)}
<1> USE Parts
<1>1. backlog \in Seq(Conns) /\ Distinct(backlog)
  BY DEF TypesInv, BacklogInv
<1>2. /\ Head(backlog) \in Conns /\ Tail(backlog) \in Seq(Conns)
      /\ Head(backlog) \in Elems(backlog) /\ Distinct(Tail(backlog))
      /\ Elems(Tail(backlog)) = Elems(backlog) \ {Head(backlog)}
  BY <1>1, TailElems, TailFacts
<1>3. net[Head(backlog)] = "queued"
  BY <1>2 DEF BacklogInv
<1>4. QED
  BY <1>2, <1>3 DEF ListInv

(* createClient: the lowest free descriptor is nobody else's.              *)
LEMMA AcceptKeeps ==
  ASSUME IInv, NEW fd \in ClientFds, Accept(fd)
  PROVE  IInv'
<1> USE Parts
<1> DEFINE c == Head(backlog)
<1>1. /\ phase = "accept" /\ LowestFree(fd) /\ aeCreateFileEvent(fd, {READABLE})
      /\ backlog # <<>> /\ backlog' = Tail(backlog)
      /\ net' = [net EXCEPT ![c] = "open"]
      /\ fdOf' = [fdOf EXCEPT ![c] = fd]
      /\ clients' = Append(clients, c)
      /\ fired' = fired /\ phase' = phase /\ turn' = turn /\ runs' = runs /\ back' = back
      /\ victim' = victim /\ toClose' = toClose /\ unblocked' = unblocked
      /\ current' = current /\ pause' = pause /\ resumed' = resumed
      /\ flags' = flags /\ query' = query /\ out' = out
      /\ sent' = sent /\ inbox' = inbox /\ left' = left
  BY DEF Accept, control, pauseVars, peer
<1>2. /\ c \in Conns /\ net[c] = "queued" /\ c \notin Live
      /\ backlog' \in Seq(Conns) /\ Distinct(backlog') /\ Elems(backlog') = Elems(backlog) \ {c}
  BY <1>1, BacklogHead
<1> HIDE DEF c
<1>3. /\ clients' \in Seq(Conns) /\ Distinct(clients') /\ Live' = Live \union {c}
  <2>1. clients \in Seq(Conns) /\ Distinct(clients) /\ c \notin Elems(clients)
    BY <1>2, LiveElems DEF TypesInv, ListInv
  <2>2. /\ Append(clients, c) \in Seq(Conns)
        /\ Elems(Append(clients, c)) = Elems(clients) \union {c}
        /\ Distinct(Append(clients, c))
    BY <1>2, <2>1, AppendElems
  <2>3. QED
    BY <1>1, <2>2, LiveElems
<1>4. fd \in Fd /\ fd # NoFd /\ \A d \in Live : fdOf[d] # fd
  BY <1>1, FdFacts DEF LowestFree
<1>5. /\ fdOf' \in [Conns -> ClientFds \union {NoFd}]
      /\ net' \in [Conns -> {"new", "queued", "open", "closed"}]
      /\ \A d \in Conns : fdOf'[d] = IF d = c THEN fd ELSE fdOf[d]
      /\ \A d \in Conns : net'[d] = IF d = c THEN "open" ELSE net[d]
  BY <1>1, <1>2 DEF TypesInv
<1>6. TypesInv'
  BY <1>1, <1>2, <1>3, <1>5 DEF TypesInv
<1>7. flags[c] = {} /\ query[c] = 0 /\ out[c] = FALSE
  BY <1>2 DEF FreshInv
<1>8. Live \subseteq Conns
  BY ClientFd
<1>9. WatchInv'
  <2>1. {READABLE} \in Mask
    BY DEF Mask
  <2>2. /\ TableOK'
        /\ \A f \in Fd : interest'[f] = IF f = fd THEN interest[f] \union {READABLE} ELSE interest[f]
    BY <1>1, <1>4, <2>1, CreateEvent
  <2>3. interest[fd] = {}
    BY <1>4 DEF WatchInv
  <2>4. ASSUME NEW d \in Live' PROVE interest'[fdOf'[d]] = Wanted(d)'
    <3>1. CASE d = c
      BY <1>1, <1>2, <1>4, <1>5, <1>7, <2>2, <2>3, <3>1 DEF Wanted
    <3>2. CASE d # c
      <4>1. d \in Live /\ d \in Conns /\ fdOf'[d] = fdOf[d] /\ fdOf[d] # fd /\ fdOf[d] \in Fd
        BY <1>3, <1>4, <1>5, <1>8, <3>2, ClientFd
      <4>2. interest'[fdOf[d]] = Wanted(d)
        BY <2>2, <4>1 DEF WatchInv
      <4>3. QED
        BY <1>1, <4>1, <4>2 DEF Wanted
    <3>3. QED
      BY <3>1, <3>2
  <2>5. ASSUME NEW f \in ClientFds, \A d \in Live' : fdOf'[d] # f PROVE interest'[f] = {}
    <3>1. f \in Fd /\ f # fd
      BY <1>2, <1>3, <1>5, <2>5, FdFacts
    <3>2. \A d \in Live : fdOf[d] # f
      BY <1>2, <1>3, <1>5, <1>8, <2>5
    <3>3. interest[f] = {}
      BY <3>2 DEF WatchInv
    <3>4. QED
      BY <2>2, <3>1, <3>3
  <2>6. QED
    BY <2>2, <2>4, <2>5 DEF WatchInv
<1>10. ListInv'
  <2>1. ASSUME NEW d \in Live', NEW e \in Live', fdOf'[d] = fdOf'[e] PROVE d = e
    <3>1. d \in Conns /\ e \in Conns /\ (d = c \/ d \in Live) /\ (e = c \/ e \in Live)
      BY <1>2, <1>3, <1>8
    <3>2. QED
      BY <1>4, <1>5, <2>1, <3>1 DEF ListInv
  <2>2. ASSUME NEW d \in Conns
        PROVE  /\ d \in Live' <=> net'[d] = "open"
               /\ d \in Live' <=> fdOf'[d] # NoFd
    BY <1>3, <1>4, <1>5 DEF ListInv
  <2>3. QED
    BY <1>3, <2>1, <2>2 DEF ListInv
<1>11. FreshInv'
  BY <1>1, <1>3 DEF FreshInv
<1>12. BacklogInv'
  <2>1. Elems(backlog) \subseteq Conns
    BY DEF TypesInv, Elems
  <2>2. QED
    BY <1>2, <1>5, <2>1 DEF BacklogInv
<1>13. CloseInv'
  BY <1>1, <1>3, <1>7 DEF CloseInv
<1>14. UnblockInv'
  BY <1>1, <1>3, <1>7 DEF UnblockInv
<1>15. StalledInv'
  BY <1>1, <1>3, <1>7, SMTT(30) DEF StalledInv
<1>16. ControlInv'
  BY <1>1, <1>3 DEF ControlInv
<1>17. QED
  BY <1>6, <1>9, <1>10, <1>11, <1>12, <1>13, <1>14, <1>15, <1>16 DEF IInv, DataInv

LEMMA AcceptRefusedKeeps ==
  ASSUME IInv, NEW fd \in ClientFds, AcceptRefused(fd)
  PROVE  IInv'
<1> USE Parts
<1> DEFINE c == Head(backlog)
<1>1. /\ phase = "accept" /\ phase' = "undefined" /\ backlog # <<>> /\ backlog' = Tail(backlog)
      /\ net' = [net EXCEPT ![c] = "closed"] /\ sent' = [sent EXCEPT ![c] = 0]
      /\ inbox' = [inbox EXCEPT ![c] = 0] /\ left' = [left EXCEPT ![c] = "no"]
      /\ events' = events /\ interest' = interest /\ maxfd' = maxfd /\ fired' = fired
      /\ turn' = turn /\ runs' = runs /\ back' = back /\ victim' = victim
      /\ clients' = clients /\ toClose' = toClose /\ unblocked' = unblocked
      /\ current' = current /\ pause' = pause /\ resumed' = resumed
      /\ fdOf' = fdOf /\ flags' = flags /\ query' = query /\ out' = out
  BY DEF AcceptRefused, Closed, loopVars, queues, pauseVars, client
<1>2. /\ c \in Conns /\ net[c] = "queued" /\ c \notin Live
      /\ backlog' \in Seq(Conns) /\ Distinct(backlog') /\ Elems(backlog') = Elems(backlog) \ {c}
  BY <1>1, BacklogHead
<1> HIDE DEF c
<1>3. Live' = Live
  BY <1>1 DEF Live
<1>4. /\ net' \in [Conns -> {"new", "queued", "open", "closed"}]
      /\ sent' \in [Conns -> Nat] /\ inbox' \in [Conns -> Nat]
      /\ left' \in [Conns -> {"no", "fin", "rst"}]
      /\ \A d \in Conns : net'[d] = IF d = c THEN "closed" ELSE net[d]
  BY <1>1, <1>2 DEF TypesInv
<1>5. TypesInv'
  BY <1>1, <1>2, <1>4 DEF TypesInv
<1>6. WatchInv'
  BY <1>1, <1>3 DEF WatchInv, TableOK, AgreementInv, Wanted
<1>7. ListInv'
  BY <1>1, <1>2, <1>3, <1>4 DEF ListInv
<1>8. BacklogInv'
  <2>1. Elems(backlog) \subseteq Conns
    BY DEF TypesInv, Elems
  <2>2. QED
    BY <1>2, <1>4, <2>1 DEF BacklogInv
<1>9. FreshInv' /\ CloseInv' /\ UnblockInv' /\ StalledInv'
  BY <1>1, <1>3 DEF FreshInv, CloseInv, UnblockInv, StalledInv
<1>10. ControlInv'
  BY <1>1, <1>3 DEF ControlInv
<1>11. QED
  BY <1>5, <1>6, <1>7, <1>8, <1>9, <1>10 DEF IInv, DataInv
LEMMA AcceptTcpHandlerKeeps ==
  ASSUME IInv, acceptTcpHandler
  PROVE  IInv'
BY AcceptBeginsKeeps, PhaseOnlyKeeps, AcceptKeeps, AcceptRefusedKeeps DEF acceptTcpHandler

--------------------------------------------------------------------------------
(* The callbacks of a client.                                              *)

LEMMA CallbackFacts ==
  ASSUME IInv, NEW c \in Live, NEW kind, Callback(c, kind)
  PROVE  /\ c \in Conns /\ fdOf[c] \in Fd /\ fdOf[c] \in Slot /\ Take(fdOf[c], kind)
         /\ phase = "handle" /\ runs = None /\ current = None
<1> USE Parts
<1>1. c \in Conns /\ fdOf[c] \in Fd /\ fdOf[c] \in Slot /\ Take(fdOf[c], kind)
  BY ClientFd DEF Callback
<1>2. QED
  BY <1>1, TakeFacts

(* A callback that ends by freeing its own client.                         *)
LEMMA OwnFreeKeeps ==
  ASSUME IInv, NEW c \in Live, NEW kind, Callback(c, kind),
         freeClient(c, c) \/ freeClient(c, current), UNCHANGED <<phase, runs, back>>
  PROVE  IInv'
<1> USE Parts
<1>1. /\ c \in Conns /\ fdOf[c] \in Fd /\ Take(fdOf[c], kind)
      /\ runs = None /\ current = None
  BY CallbackFacts
<1>2. PICK cur \in {c, current} : freeClient(c, cur)
  OBVIOUS
<1>3. DataInv' /\ StalledInv' /\ current' = CurrentWithout(c, cur)
  BY <1>2, FreeClientKeeps
<1>4. current' = None
  BY <1>1, <1>2, <1>3 DEF CurrentWithout
<1>5. ControlInv'
  BY <1>1, <1>4, BackToHandle
<1>6. QED
  BY <1>3, <1>5 DEF IInv

LEMMA ReadQueryKeeps ==
  ASSUME IInv, NEW c \in Live, ReadQuery(c)
  PROVE  IInv'
<1> USE Parts
<1>1. Callback(c, READABLE)
  BY DEF ReadQuery
<1>2. PICK n \in 1 .. inbox[c] : /\ Fits(c, n)
                                 /\ query' = [query EXCEPT ![c] = @ + n]
                                 /\ inbox' = [inbox EXCEPT ![c] = @ - n]
  BY DEF ReadQuery
<1>3. /\ phase' = "process" /\ runs' = c /\ current' = c /\ back' = "handle"
      /\ UNCHANGED <<table, clients, fdOf, out, net, backlog>>
      /\ toClose' = toClose /\ unblocked' = unblocked /\ flags' = flags
      /\ sent' = sent /\ left' = left /\ pause' = pause /\ resumed' = resumed
  BY DEF ReadQuery, StartProcessing, queues, pauseVars
<1>4. c \in Conns /\ Take(fdOf[c], READABLE) /\ fdOf[c] \in Fd
  BY <1>1, CallbackFacts
<1>5. /\ runs = None /\ victim' = victim
      /\ fired' \in [Fd -> Mask] /\ fired'[ListenFd] \subseteq {READABLE}
      /\ turn' \in ClientFds \union {NoFd}
  BY <1>4, TakeFacts
<1>6. Live' = Live /\ WatchInv' /\ ListInv' /\ BacklogInv'
  BY <1>3, SameClients
<1>7. /\ query' \in [Conns -> 0 .. MaxQuery] /\ inbox' \in [Conns -> Nat]
      /\ \A d \in Conns : d # c => query'[d] = query[d]
  <2>1. query \in [Conns -> 0 .. MaxQuery] /\ inbox \in [Conns -> Nat]
    BY DEF TypesInv
  <2>2. query[c] \in 0 .. MaxQuery /\ inbox[c] \in Nat
    BY <1>4, <2>1
  <2>3. query[c] + n \in 0 .. MaxQuery /\ inbox[c] - n \in Nat
    BY <1>2, <2>2 DEF Fits
  <2>4. QED
    BY <1>2, <1>4, <2>1, <2>3
<1>8. TypesInv'
  BY <1>3, <1>7 DEF TypesInv, table
<1>9. FreshInv'
  BY <1>3, <1>6, <1>7 DEF FreshInv
<1>10. CloseInv' /\ UnblockInv'
  BY <1>3, <1>6 DEF CloseInv, UnblockInv
<1>11. StalledInv'
  <2>1. ASSUME NEW d \in Live, query'[d] > 0, pause = "off", d # c,
               flags[d] \intersect {BLOCKED, CLOSE_AFTER_REPLY} = {}
        PROVE  d \in Range(unblocked)
    <3>1. d \in Conns /\ query[d] > 0
      BY <1>7, <2>1, ClientFd
    <3>2. d # None
      BY <3>1
    <3>3. QED
      BY <1>5, <2>1, <3>1, <3>2 DEF StalledInv
  <2>2. QED
    BY <1>3, <1>6, <2>1 DEF StalledInv
<1>12. ControlInv'
  BY <1>3, <1>4, <1>5, <1>6 DEF ControlInv
<1>13. QED
  BY <1>6, <1>8, <1>9, <1>10, <1>11, <1>12 DEF IInv, DataInv

LEMMA ReadQueryFromClientKeeps ==
  ASSUME IInv, NEW c \in Live, readQueryFromClient(c)
  PROVE  IInv'
<1>1. CASE ReadNothing(c)
  <2>1. Callback(c, READABLE) /\ current' = None
        /\ UNCHANGED <<phase, runs, back, table, queues, pauseVars, client, kernel>>
    BY <1>1 DEF ReadNothing
  <2>2. QED
    BY <2>1, CallbackFacts, NothingDoneKeeps
<1>2. CASE ReadEnd(c)
  BY <1>2, OwnFreeKeeps DEF ReadEnd
<1>3. CASE ReadTooMuch(c)
  BY <1>3, OwnFreeKeeps DEF ReadTooMuch
<1>4. CASE ReadQuery(c)
  BY <1>4, ReadQueryKeeps
<1>5. QED
  BY <1>1, <1>2, <1>3, <1>4 DEF readQueryFromClient

(* The write handler is removed with the last reply, and nothing else.     *)
LEMMA SendAllKeeps ==
  ASSUME IInv, NEW c \in Live, SendAll(c)
  PROVE  IInv'
<1> USE Parts
<1>1. /\ Callback(c, WRITABLE) /\ aeDeleteFileEvent(fdOf[c], {WRITABLE})
      /\ out' = [out EXCEPT ![c] = FALSE]
      /\ phase' = phase /\ runs' = runs /\ back' = back
      /\ clients' = clients /\ toClose' = toClose /\ unblocked' = unblocked
      /\ current' = current /\ pause' = pause /\ resumed' = resumed
      /\ fdOf' = fdOf /\ flags' = flags /\ query' = query
      /\ net' = net /\ backlog' = backlog /\ sent' = sent /\ inbox' = inbox /\ left' = left
  BY DEF SendAll, queues, pauseVars, kernel, peer
<1>2. /\ c \in Conns /\ fdOf[c] \in Fd /\ fdOf[c] \in Slot /\ Take(fdOf[c], WRITABLE)
      /\ current = None
  BY <1>1, CallbackFacts
<1>3. Live' = Live
  BY <1>1 DEF Live
<1>4. /\ out' \in [Conns -> BOOLEAN] /\ out'[c] = FALSE
      /\ \A d \in Conns : d # c => out'[d] = out[d]
  BY <1>1, <1>2 DEF TypesInv
<1>5. TypesInv'
  BY <1>1, <1>4 DEF TypesInv
<1>6. WatchInv'
  <2>1. /\ TableOK'
        /\ \A f \in Fd : interest'[f] = IF f = fdOf[c] THEN interest[f] \ {WRITABLE}
                                                      ELSE interest[f]
    BY <1>1, <1>2, DeleteEvent
  <2>2. ASSUME NEW d \in Live PROVE interest'[fdOf[d]] = Wanted(d)'
    <3>1. d \in Conns /\ fdOf[d] \in Fd /\ interest[fdOf[d]] = Wanted(d)
      BY ClientFd DEF WatchInv
    <3>2. CASE d = c
      BY <1>4, <2>1, <3>1, <3>2, FdFacts DEF Wanted
    <3>3. CASE d # c
      <4>1. fdOf[d] # fdOf[c]
        BY <3>3 DEF ListInv
      <4>2. interest'[fdOf[d]] = interest[fdOf[d]]
        BY <2>1, <3>1, <4>1
      <4>3. QED
        BY <1>4, <3>1, <3>3, <4>2 DEF Wanted
    <3>4. QED
      BY <3>2, <3>3
  <2>3. ASSUME NEW fd \in ClientFds, \A d \in Live : fdOf[d] # fd PROVE interest'[fd] = {}
    <3>1. fd \in Fd /\ fd # fdOf[c] /\ interest[fd] = {}
      BY <2>3, FdFacts DEF WatchInv
    <3>2. QED
      BY <2>1, <3>1
  <2>4. QED
    BY <1>1, <1>3, <2>1, <2>2, <2>3 DEF WatchInv
<1>7. ListInv' /\ BacklogInv' /\ CloseInv' /\ UnblockInv' /\ StalledInv'
  BY <1>1, <1>3 DEF ListInv, BacklogInv, CloseInv, UnblockInv, StalledInv
<1>8. FreshInv'
  BY <1>1, <1>3, <1>4 DEF FreshInv
<1>9. ControlInv'
  BY <1>1, <1>2, BackToHandle
<1>10. QED
  BY <1>5, <1>6, <1>7, <1>8, <1>9 DEF IInv, DataInv

LEMMA SendReplyToClientKeeps ==
  ASSUME IInv, NEW c \in Live, sendReplyToClient(c)
  PROVE  IInv'
<1>1. CASE SendSome(c)
  <2>1. Callback(c, WRITABLE) /\ current' = current
        /\ UNCHANGED <<phase, runs, back, table, queues, pauseVars, client, kernel>>
    BY <1>1 DEF SendSome, world
  <2>2. QED
    BY <2>1, CallbackFacts, NothingDoneKeeps
<1>2. CASE SendAll(c)
  BY <1>2, SendAllKeeps
<1>3. CASE SendLast(c)
  BY <1>3, OwnFreeKeeps DEF SendLast
<1>4. CASE SendFails(c)
  BY <1>4, OwnFreeKeeps DEF SendFails
<1>5. QED
  BY <1>1, <1>2, <1>3, <1>4 DEF sendReplyToClient

--------------------------------------------------------------------------------
LEMMA StepInv ==
  ASSUME IInv, [Next]_vars
  PROVE  IInv'
<1>1. CASE \E c \in Conns : Peer(c)
  BY <1>1, ConnectKeeps, SendOrLeaveKeeps DEF Peer
<1>2. CASE Server
  BY <1>2, LoopKeeps, AcceptTcpHandlerKeeps, ProcessInputBufferKeeps,
     ReadQueryFromClientKeeps, SendReplyToClientKeeps DEF Server
<1>3. CASE UNCHANGED vars
  <2>1. /\ UNCHANGED <<table, queues, pauseVars, client, kernel>>
        /\ fired' = fired /\ phase' = phase /\ turn' = turn /\ runs' = runs /\ back' = back
        /\ victim' = victim /\ current' = current
    BY <1>3 DEF vars, loopVars, table, control
  <2>2. DataInv' /\ StalledInv' /\ Live' = Live
    BY <2>1, Parts, QuietStep
  <2>3. ControlInv'
    BY <2>1, <2>2, Parts DEF ControlInv
  <2>4. QED
    BY <2>2, <2>3 DEF IInv
<1>4. QED
  BY <1>1, <1>2, <1>3 DEF Next

(* The inductive invariant: the data of the clients, of the event loop and *)
(* of the queues fit together, and the phase of the loop says for whom it  *)
(* works.                                                                  *)
THEOREM Inductive == Spec => []IInv
BY InitInv, StepInv, PTL DEF Spec

(* For every number of connections and descriptors and all limits: the     *)
(* list of clients, their descriptors and the event loop agree, and the    *)
(* client whose input processInputBuffer works on is not freed under it.   *)
THEOREM ClientsAgree == Spec => []ClientsInv
BY Inductive, PartsSuffice, PTL

(* What the assertions of freeClient expect of the queue of clients to     *)
(* close and the queue of unblocked clients always holds.                  *)
THEOREM QueuesAgree == Spec => []QueuesInv
BY Inductive, PartsSuffice, PTL

(* No client is left with a command that nothing will make the server look *)
(* at again.                                                               *)
THEOREM NobodyStalls == Spec => []StalledInv
BY Inductive, PartsSuffice, PTL
================================================================================
