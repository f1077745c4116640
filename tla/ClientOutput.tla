----------------------------- MODULE ClientOutput -----------------------------
(***************************************************************************)
(* The output side of a client of the middleware server (networking.c).    *)
(* Replies go to a static buffer until they no longer fit, and then to a   *)
(* list of string objects; the write handler of the event loop sends the   *)
(* buffer and then the list, as much at a time as the socket takes.  The   *)
(* length of a multi bulk reply may be filled in after its elements, and a *)
(* client whose list grows over a limit is scheduled for closing.          *)
(*                                                                         *)
(* One client with a connection of its own is described, whose write       *)
(* handler can be registered.  A reply is a sequence of units numbered in  *)
(* the order in which they were added, from 1 on again whenever everything *)
(* has been sent.                                                          *)
(***************************************************************************)
EXTENDS Integers, FiniteSets, Sequences, SequencesExt

CONSTANTS
  Chunk,        (* REDIS_REPLY_CHUNK_BYTES: size of the buffer, and of what *)
                (* is collected in one object of the list                   *)
  EmbMax,       (* REDIS_ENCODING_EMBSTR_SIZE_LIMIT                         *)
  Sizes,        (* lengths of the strings that are added                    *)
  Spares,       (* free space in sds strings that callers pass              *)
  SdsHeader,    (* sizeof(struct sdshdr)                                    *)
  ListItem,     (* sizeof(listNode) + sizeof(robj)                          *)
  HardLimit, SoftLimit, SoftSeconds,       (* client_obuf_limits            *)
  MaxPerEvent,  (* REDIS_MAX_WRITE_PER_EVENT                                *)
  MaxUnits,     (* bound: units added since everything was last sent        *)
  MaxNodes,     (* bound: length of the reply list                          *)
  MaxOpen,      (* bound: multi bulk replies begun and not finished         *)
  MaxNow        (* bound: server.unixtime stands still when it shows this   *)

ASSUME OutputAssumption ==
  /\ Chunk \in Nat \ {0} /\ EmbMax \in Nat
  /\ Sizes \subseteq Nat /\ Spares \subseteq Nat
  /\ SdsHeader \in Nat \ {0} /\ ListItem \in Nat \ {0}
  /\ HardLimit \in Nat \ {0} /\ SoftLimit \in Nat \ {0} /\ SoftSeconds \in Nat
  /\ {MaxPerEvent, MaxUnits, MaxNodes, MaxOpen, MaxNow} \subseteq Nat

VARIABLES
  phase,            (* "loop", "send" in sendReplyToClient, "freed"           *)
  buf,              (* buf up to bufpos                                       *)
  reply,            (* reply, the list of string objects                      *)
  replyBytes,       (* reply_bytes                                            *)
  sentlen,          (* how much of the buffer or of the first object is sent  *)
  writable,         (* the write handler is registered                        *)
  closeAfterReply,  (* REDIS_CLOSE_AFTER_REPLY                                *)
  closeAsap,        (* REDIS_CLOSE_ASAP                                       *)
  softTime,         (* obuf_soft_limit_reached_time                           *)
  now,              (* server.unixtime                                        *)
  total,            (* totwritten of the current sendReplyToClient            *)
  made,             (* history: units added since all was sent                *)
  wire              (* history: what the socket has taken since then          *)

flags == <<closeAfterReply, closeAsap>>
vars == <<phase, buf, reply, replyBytes, sentlen, writable, flags, softTime, now,
          total, made, wire>>

(* A string object: its text, the space its sds has for text, whether it   *)
(* is RAW and not EMBSTR, and whether others hold references to it.  A     *)
(* length that is still open has no text yet (ptr is NULL); "data" then    *)
(* holds the unit kept for it.                                             *)
RawObject(d, spare) ==
  [data |-> d, open |-> FALSE, raw |-> TRUE, cap |-> Len(d) + spare, shared |-> FALSE]
SharedObject(d, spare) == [RawObject(d, spare) EXCEPT !.shared = TRUE]
EmbObject(d) == [RawObject(d, 0) EXCEPT !.raw = FALSE]
OpenLength(u) == [RawObject(<<u>>, 0) EXCEPT !.open = TRUE]
createStringObject(d) == IF Len(d) <= EmbMax THEN EmbObject(d) ELSE RawObject(d, 0)

getStringObjectSdsUsedMemory(o) ==
  IF o.open THEN 0 ELSE IF o.raw THEN o.cap + SdsHeader ELSE Len(o.data)

\* sdscatlen: if the text does not fit, twice the space it needs is allocated.
Catenated(o, d) ==
  LET needed == Len(o.data) + Len(d) IN
  [o EXCEPT !.data = @ \o d, !.cap = IF needed <= @ THEN @ ELSE 2 * needed]

\* dupStringObject makes a copy of just the right size.
dupLastObjectIfNeeded(o) ==
  IF o.shared THEN [o EXCEPT !.shared = FALSE, !.cap = Len(o.data)] ELSE o

Pending == buf # <<>> \/ reply # <<>>
Open == {i \in DOMAIN reply : reply[i].open}
AtLoop == phase = "loop" /\ Open = {}

Init ==
  /\ phase = "loop"
  /\ buf = <<>> /\ reply = <<>> /\ replyBytes = 0 /\ sentlen = 0
  /\ writable = FALSE
  /\ closeAfterReply = FALSE /\ closeAsap = FALSE
  /\ softTime = 0 /\ now = 1
  /\ total = 0 /\ made = 0 /\ wire = <<>>

-------------------------------------------------------------------------------
(* The limits, applied to the list as the step leaves it.                  *)

getClientOutputBufferMemoryUsage == replyBytes + ListItem * Len(reply)

asyncCloseClientOnOutputBufferLimitReached ==
  LET usage == getClientOutputBufferMemoryUsage'
      soft == usage >= SoftLimit
      tooLong == soft /\ softTime # 0 /\ now - softTime > SoftSeconds
  IN IF replyBytes' = 0 \/ closeAsap
     THEN UNCHANGED <<closeAsap, softTime>>
     ELSE /\ closeAsap' = (usage >= HardLimit \/ tooLong)
          /\ softTime' = IF ~soft THEN 0 ELSE IF softTime = 0 THEN now ELSE softTime

-------------------------------------------------------------------------------
(* Adding replies.                                                         *)

NewUnits(n) == [i \in 1 .. n |-> made + i]

prepareClientToWrite == writable' = (writable \/ ~Pending)

\* Mutant: a string goes to the buffer although the list is in use.
FitsBufferAlone(d) == Len(d) <= Chunk - Len(buf)
FitsBuffer(d) == reply = <<>> /\ Len(d) <= Chunk - Len(buf)

Appendable(o, d) == ~o.open /\ o.raw /\ Len(o.data) + Len(d) <= Chunk

\* Mutant: the space of the shared object is taken off after it was copied.
AddToListLate(o) ==
  /\ IF reply # <<>> /\ Appendable(Last(reply), o.data)
     THEN LET tail == dupLastObjectIfNeeded(Last(reply))
              longer == Catenated(tail, o.data)
          IN /\ reply' = [reply EXCEPT ![Len(reply)] = longer]
             /\ replyBytes' = replyBytes - getStringObjectSdsUsedMemory(tail)
                                         + getStringObjectSdsUsedMemory(longer)
     ELSE /\ reply' = Append(reply, o)
          /\ replyBytes' = replyBytes + getStringObjectSdsUsedMemory(o)
  /\ asyncCloseClientOnOutputBufferLimitReached

\* The text is appended to the last object if that may grow, or o is added.
AddToList(o) ==
  /\ IF reply # <<>> /\ Appendable(Last(reply), o.data)
     THEN LET tail == Last(reply)
              longer == Catenated(dupLastObjectIfNeeded(tail), o.data)
          IN /\ reply' = [reply EXCEPT ![Len(reply)] = longer]
             /\ replyBytes' = replyBytes - getStringObjectSdsUsedMemory(tail)
                                         + getStringObjectSdsUsedMemory(longer)
     ELSE /\ reply' = Append(reply, o)
          /\ replyBytes' = replyBytes + getStringObjectSdsUsedMemory(o)
  /\ asyncCloseClientOnOutputBufferLimitReached

\* A string that is added to the buffer or, as o, to the list; a client that is
\* about to be closed gets nothing more.
Add(o) ==
  /\ phase = "loop"
  /\ made + Len(o.data) <= MaxUnits
  /\ Len(reply) < MaxNodes
  /\ prepareClientToWrite
  /\ IF closeAfterReply
     THEN UNCHANGED <<buf, reply, replyBytes, closeAsap, softTime, made>>
     ELSE /\ made' = made + Len(o.data)
          /\ IF FitsBuffer(o.data)
             THEN /\ buf' = buf \o o.data
                  /\ UNCHANGED <<reply, replyBytes, closeAsap, softTime>>
             ELSE AddToList(o) /\ UNCHANGED buf
  /\ UNCHANGED <<phase, sentlen, now, total, wire>>

\* An object that others hold too; an integer is added like a short string.
addReply(n, spare) ==
  /\ Add(SharedObject(NewUnits(n), spare))
  /\ UNCHANGED closeAfterReply

addReplySds(n, spare) ==
  /\ Add(RawObject(NewUnits(n), spare))
  /\ UNCHANGED closeAfterReply

addReplyString(n) ==
  /\ Add(createStringObject(NewUnits(n)))
  /\ UNCHANGED closeAfterReply

\* The parser or a command answers with an error or "OK" and sets the flag.
ReplyAndClose(n) ==
  /\ AtLoop
  /\ ~closeAfterReply
  /\ n > 0
  /\ Add(createStringObject(NewUnits(n)))
  /\ closeAfterReply' = TRUE

\* Called by commands, and none is begun once the flag is set.  The node is a
\* place in the list that is neither counted nor checked against the limits.
addDeferredMultiBulkLength ==
  /\ phase = "loop"
  /\ ~closeAfterReply
  /\ made < MaxUnits
  /\ Len(reply) < MaxNodes
  /\ Cardinality(Open) < MaxOpen
  /\ prepareClientToWrite
  /\ reply' = Append(reply, OpenLength(made + 1))
  /\ made' = made + 1
  /\ UNCHANGED <<phase, buf, replyBytes, sentlen, flags, softTime, now, total, wire>>

\* The length is written and joined with the object behind it, which is deleted.
setDeferredMultiBulkLength(i) ==
  LET len == Catenated(RawObject(<<>>, 0), reply[i].data)
      next == reply[i + 1]
      joined == Catenated(len, next.data)
  IN
  /\ phase = "loop"
  /\ i \in Open
  /\ IF i < Len(reply) /\ ~next.open
     THEN /\ reply' = RemoveAt([reply EXCEPT ![i] = joined], i + 1)
          /\ replyBytes' = replyBytes - getStringObjectSdsUsedMemory(next)
                                      + getStringObjectSdsUsedMemory(joined)
     ELSE /\ reply' = [reply EXCEPT ![i] = len]
          /\ replyBytes' = replyBytes + getStringObjectSdsUsedMemory(len)
  /\ asyncCloseClientOnOutputBufferLimitReached
  /\ UNCHANGED <<phase, buf, sentlen, writable, closeAfterReply, now, total, made, wire>>

-------------------------------------------------------------------------------
(* Freeing.                                                                *)

Freed ==
  /\ phase' = "freed"
  /\ buf' = <<>> /\ reply' = <<>> /\ replyBytes' = 0 /\ sentlen' = 0
  /\ writable' = FALSE
  /\ closeAfterReply' = FALSE /\ closeAsap' = FALSE
  /\ softTime' = 0
  /\ total' = 0 /\ made' = 0 /\ wire' = <<>>
  /\ UNCHANGED now

\* freeClientsInAsyncFreeQueue, called by the server's timer
FreeQueued ==
  /\ AtLoop
  /\ closeAsap
  /\ Freed

-------------------------------------------------------------------------------
(* sendReplyToClient, one step for each write.  Nothing else runs between. *)

StartSending ==
  /\ AtLoop
  /\ writable
  /\ phase' = "send"
  /\ total' = 0
  /\ UNCHANGED <<buf, reply, replyBytes, sentlen, writable, flags, softTime, now, made, wire>>

\* The socket takes the next k units of d.
Write(d, k) ==
  /\ wire' = wire \o SubSeq(d, sentlen + 1, sentlen + k)
  /\ total' = IF total + k > MaxPerEvent THEN MaxPerEvent + 1 ELSE total + k

WriteBuffer(k) ==
  /\ phase = "send"
  /\ buf # <<>>
  /\ k \in 1 .. Len(buf) - sentlen
  /\ Write(buf, k)
  /\ IF sentlen + k = Len(buf)
     THEN buf' = <<>> /\ sentlen' = 0
     ELSE sentlen' = sentlen + k /\ UNCHANGED buf
  /\ UNCHANGED <<phase, reply, replyBytes, writable, flags, softTime, now, made>>

WriteObject(k) ==
  /\ phase = "send"
  /\ buf = <<>> /\ reply # <<>>
  /\ k \in 1 .. Len(Head(reply).data) - sentlen
  /\ Write(Head(reply).data, k)
  /\ IF sentlen + k = Len(Head(reply).data)
     THEN /\ reply' = Tail(reply)
          /\ sentlen' = 0
          /\ replyBytes' = replyBytes - getStringObjectSdsUsedMemory(Head(reply))
     ELSE /\ sentlen' = sentlen + k
          /\ UNCHANGED <<reply, replyBytes>>
  /\ UNCHANGED <<phase, buf, writable, flags, softTime, now, made>>

SkipEmptyObject ==
  /\ phase = "send"
  /\ buf = <<>> /\ reply # <<>>
  /\ Head(reply).data = <<>>
  /\ reply' = Tail(reply)
  /\ replyBytes' = replyBytes - getStringObjectSdsUsedMemory(Head(reply))
  /\ UNCHANGED <<phase, buf, sentlen, writable, flags, softTime, now, total, made, wire>>

AtWrite == phase = "send" /\ (buf # <<>> \/ (reply # <<>> /\ Head(reply).data # <<>>))

\* Mutant: the write handler is removed on EAGAIN.
WouldBlockForever ==
  /\ AtWrite
  /\ phase' = "loop"
  /\ total' = 0
  /\ writable' = FALSE
  /\ UNCHANGED <<buf, reply, replyBytes, sentlen, flags, softTime, now, made, wire>>

\* EAGAIN
WouldBlock ==
  /\ AtWrite
  /\ phase' = "loop"
  /\ total' = 0
  /\ UNCHANGED <<buf, reply, replyBytes, sentlen, writable, flags, softTime, now, made, wire>>

\* Any other error, or the client is freed from the loop: by the read handler,
\* by a command of another client or by a timeout.
Disconnected ==
  /\ AtWrite \/ AtLoop
  /\ Freed

\* Enough was written in this event.  (Over maxmemory the handler goes on.)
PauseSending ==
  /\ phase = "send"
  /\ Pending
  /\ total > MaxPerEvent
  /\ phase' = "loop"
  /\ total' = 0
  /\ UNCHANGED <<buf, reply, replyBytes, sentlen, writable, flags, softTime, now, made, wire>>

AllSent ==
  /\ phase = "send"
  /\ ~Pending
  /\ IF closeAfterReply THEN Freed
     ELSE /\ phase' = "loop"
          /\ sentlen' = 0
          /\ writable' = FALSE
          /\ total' = 0 /\ made' = 0 /\ wire' = <<>>
          /\ UNCHANGED <<buf, reply, replyBytes, flags, softTime, now>>

\* updateCachedTime, from the server's timer
Tick ==
  /\ AtLoop
  /\ now < MaxNow
  /\ now' = now + 1
  /\ UNCHANGED <<phase, buf, reply, replyBytes, sentlen, writable, flags, softTime, total,
                 made, wire>>

-------------------------------------------------------------------------------
AddReplies ==
  \/ \E n \in Sizes, spare \in Spares : addReply(n, spare) \/ addReplySds(n, spare)
  \/ \E n \in Sizes : addReplyString(n) \/ ReplyAndClose(n)
  \/ addDeferredMultiBulkLength

FinishReplies == \E i \in 1 .. MaxNodes : setDeferredMultiBulkLength(i)

WriteSome == \E k \in 1 .. MaxUnits : WriteBuffer(k) \/ WriteObject(k)

sendReplyToClient ==
  \/ StartSending
  \/ WriteSome
  \/ SkipEmptyObject
  \/ WouldBlock
  \/ PauseSending
  \/ AllSent

Next ==
  \/ AddReplies
  \/ FinishReplies
  \/ sendReplyToClient
  \/ FreeQueued
  \/ Disconnected
  \/ Tick

Spec == Init /\ [][Next]_vars

(* The loop calls the handler of a writable socket and the handler comes   *)
(* to its end, commands finish the replies that they begin, and a client   *)
(* that reads makes room in its socket again and again.                    *)
Fairness ==
  /\ WF_vars(StartSending)
  /\ WF_vars(SkipEmptyObject \/ PauseSending \/ AllSent)
  /\ WF_vars(FinishReplies)
  /\ SF_vars(WriteSome)

FairSpec == Spec /\ Fairness

-------------------------------------------------------------------------------
StringObject ==
  [data : Seq(Nat), open : BOOLEAN, raw : BOOLEAN, cap : Nat, shared : BOOLEAN]

TypeOK ==
  /\ phase \in {"loop", "send", "freed"}
  /\ buf \in Seq(Nat) /\ Len(buf) <= Chunk
  /\ reply \in Seq(StringObject)
  /\ replyBytes \in Nat
  /\ sentlen \in Nat
  /\ writable \in BOOLEAN
  /\ closeAfterReply \in BOOLEAN /\ closeAsap \in BOOLEAN
  /\ softTime \in 0 .. now
  /\ now \in Nat \ {0}
  /\ total \in 0 .. (MaxPerEvent + 1)
  /\ made \in Nat
  /\ wire \in Seq(Nat)

Unsent ==
  LET waiting == buf \o FlattenSeq([i \in DOMAIN reply |-> reply[i].data])
  IN SubSeq(waiting, sentlen + 1, Len(waiting))

(* While anything is left to be sent, and while a client is waiting to be  *)
(* closed after its reply, the write handler is registered; and sentlen    *)
(* never reaches the end of what it points into, where write would return  *)
(* 0 for ever.                                                             *)
WriterReady ==
  /\ phase = "loop" => (Pending \/ closeAfterReply => writable)
  /\ buf # <<>> => sentlen < Len(buf)
  /\ buf = <<>> /\ sentlen > 0 => reply # <<>> /\ sentlen < Len(Head(reply).data)

(* Nothing is lost, sent twice or out of place: what the socket has taken, *)
(* followed by what is left in the buffer and the list, is everything that *)
(* was added in the order in which it was added, through partial writes,   *)
(* the change from buffer to list, growing objects and lengths filled in   *)
(* afterwards; and what is left has a handler to send it.                  *)
StreamInv ==
  /\ TypeOK
  /\ wire \o Unsent = [i \in 1 .. made |-> i]
  /\ WriterReady

(* reply_bytes is the memory of the texts in the list, although objects    *)
(* grow, are copied and are joined while it is kept up to date piecemeal:  *)
(* being unsigned it must never fall below what is taken off it.  Between  *)
(* commands, a client whose list has reached the hard limit is scheduled   *)
(* for closing, and for one that has reached the soft limit the clock is   *)
(* running, whichever of the functions that add replies brought it there - *)
(* unless the list takes no memory but that of its nodes.                  *)
LimitInv ==
  /\ replyBytes = FoldLeft(LAMBDA sum, o : sum + getStringObjectSdsUsedMemory(o), 0, reply)
  /\ AtLoop /\ replyBytes # 0 /\ ~closeAsap =>
       /\ getClientOutputBufferMemoryUsage < HardLimit
       /\ getClientOutputBufferMemoryUsage >= SoftLimit => softTime # 0

(* Everything that was added is sent in the end, or the client is freed;   *)
(* and a client that is to be closed after its reply is freed in the end.  *)
Delivered ==
  /\ \A u \in 1 .. MaxUnits : made >= u ~> Len(wire) >= u \/ phase = "freed"
  /\ closeAfterReply ~> phase = "freed"
===============================================================================
