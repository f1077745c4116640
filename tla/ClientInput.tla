------------------------------ MODULE ClientInput ------------------------------
(***************************************************************************)
(* The input side of a client of the middleware server (networking.c):     *)
(* readQueryFromClient appends what the socket has to the query buffer,    *)
(* however the network cut it, and processInputBuffer takes commands from  *)
(* its front, inline ones and multi bulk ones.  A command that has not     *)
(* arrived as a whole is taken up again with the next read.  While clients *)
(* are paused, or this one is blocked, the buffer grows and nothing is     *)
(* taken from it.                                                          *)
(*                                                                         *)
(* The query of a client is a sequence of items, of which the parser sees  *)
(* nothing but the bytes.                                                  *)
(***************************************************************************)
EXTENDS Protocol

CONSTANTS
  Queries,     (* the queries that are tried: sequences of items            *)
  IoBufLen,    (* REDIS_IOBUF_LEN                                           *)
  BigArg,      (* REDIS_MBULK_BIG_ARG                                       *)
  InlineMax,   (* REDIS_INLINE_MAX_SIZE                                     *)
  MaxQuery,    (* server.client_max_querybuf_len                            *)
  MaxArgs,     (* 1024*1024 in processMultibulkBuffer                       *)
  MaxBulk      (* 512*1024*1024 in processMultibulkBuffer                   *)

(* An item is a command with its arguments, a blank (no arguments), or     *)
(* malformed, and the bytes that stand for it.                             *)
IsItem(item) ==
  /\ item.kind \in {"command", "blank", "malformed"}
  /\ item.bytes \in Seq(STRING) \ {<<>>}
  /\ item.kind = "command" <=> item.args # <<>>

ASSUME InputAssumption ==
  /\ {IoBufLen, BigArg, InlineMax, MaxQuery, MaxArgs, MaxBulk} \subseteq Nat \ {0}
  /\ \A q \in Queries : q \in Seq(Range(q)) /\ \A i \in DOMAIN q : IsItem(q[i])

VARIABLES
  stage,         (* "idle", "input" in processInputBuffer, "bulks" in the loop   *)
                 (* of processMultibulkBuffer; "closed" after the end of the     *)
                 (* stream, "overrun" when the buffer was too long               *)
  held,          (* clients are paused or this one is blocked                    *)
  closing,       (* REDIS_CLOSE_AFTER_REPLY: "no", or why it was set             *)
  querybuf,      (* querybuf                                                     *)
  pos,           (* pos of processMultibulkBuffer                                *)
  reqtype,       (* reqtype: "none", "inline" or "multibulk"                     *)
  multibulklen,  (* multibulklen                                                 *)
  bulklen,       (* bulklen                                                      *)
  argv,          (* argv up to argc                                              *)
  query,         (* the query                                                    *)
  taken,         (* how many bytes of it were read                               *)
  executed,      (* history: the commands that were executed                     *)
  everHeld       (* history: it was held at some time                            *)

parser == <<reqtype, multibulklen, bulklen, argv>>
inputVars == <<stage, held, closing, querybuf, pos, parser, query, taken, executed, everHeld>>

Bytes(q) == FlattenSeq([i \in DOMAIN q |-> q[i].bytes])
Stream == Bytes(query)

InputInit ==
  /\ stage = "idle"
  /\ held = FALSE
  /\ closing = "no"
  /\ querybuf = <<>> /\ pos = 0
  /\ reqtype = "none" /\ multibulklen = 0 /\ bulklen = -1 /\ argv = <<>>
  /\ query \in Queries
  /\ taken = 0
  /\ executed = <<>>
  /\ everHeld = FALSE

--------------------------------------------------------------------------------
(* readQueryFromClient.                                                    *)

ReadingBigArg == reqtype = "multibulk" /\ multibulklen # 0 /\ bulklen >= BigArg
Remaining == bulklen + 2 - Len(querybuf)

ReadLen ==
  IF ReadingBigArg /\ Remaining < IoBufLen THEN Remaining ELSE IoBufLen

Read ==
  /\ stage = "idle"
  /\ \E n \in 1 .. ReadLen :
       /\ taken + n <= Len(Stream)
       /\ taken' = taken + n
       /\ querybuf' = querybuf \o SubSeq(Stream, taken + 1, taken + n)
  /\ stage' = IF Len(querybuf') > MaxQuery THEN "overrun" ELSE "input"
  /\ UNCHANGED <<held, closing, pos, parser, query, executed, everHeld>>

\* read returns 0: the peer has closed the connection, or 0 bytes were asked for.
ReadEnd ==
  /\ stage = "idle"
  /\ taken = Len(Stream) \/ ReadLen = 0
  /\ stage' = "closed"
  /\ UNCHANGED <<held, closing, querybuf, pos, parser, query, taken, executed, everHeld>>

--------------------------------------------------------------------------------
(* Pauses and blocking.                                                    *)

\* By another client's command, or the server itself.
Hold ==
  /\ stage = "idle"
  /\ ~held
  /\ held' = TRUE /\ everHeld' = TRUE
  /\ UNCHANGED <<stage, closing, querybuf, pos, parser, query, taken, executed>>

\* The client is taken from the queue of unblocked clients.
Resume ==
  /\ stage = "idle"
  /\ held
  /\ held' = FALSE
  /\ stage' = "input"
  /\ UNCHANGED <<closing, querybuf, pos, parser, query, taken, executed, everHeld>>

--------------------------------------------------------------------------------
(* Helpers of the parser.                                                  *)

\* sdsrange(querybuf, n, -1)
Without(n) == SubSeq(querybuf, n + 1, Len(querybuf))

ProtocolError(why, from) ==
  /\ closing' = why
  /\ querybuf' = Without(from)
  /\ stage' = "idle"
  /\ pos' = 0
  /\ UNCHANGED <<held, query, taken, executed, everHeld>>

\* Mutant: a part of the parser's state survives the command.
ResetKeepsArgs ==
  /\ reqtype' = "none" /\ multibulklen' = 0 /\ bulklen' = -1
  /\ UNCHANGED argv

resetClient ==
  reqtype' = "none" /\ multibulklen' = 0 /\ bulklen' = -1 /\ argv' = <<>>

\* processCommand, unless there are no arguments; a command may block its client,
\* or pause all of them.
Execute(args) ==
  /\ executed' = IF args = <<>> THEN executed ELSE Append(executed, args)
  /\ held' \in IF args = <<>> THEN {held} ELSE BOOLEAN
  /\ everHeld' = (everHeld \/ held')
  /\ resetClient

--------------------------------------------------------------------------------
(* processInputBuffer.                                                     *)

InputEnds ==
  /\ stage = "input"
  /\ querybuf = <<>> \/ held \/ closing # "no"
  /\ stage' = "idle"
  /\ UNCHANGED <<held, closing, querybuf, pos, parser, query, taken, executed, everHeld>>

RequestType ==
  IF reqtype # "none" THEN reqtype ELSE IF querybuf[1] = "*" THEN "multibulk" ELSE "inline"

Parses(type) ==
  /\ stage = "input"
  /\ querybuf # <<>> /\ ~held /\ closing = "no"
  /\ RequestType = type

WaitForMore(type) ==
  /\ reqtype' = type
  /\ stage' = "idle"
  /\ UNCHANGED <<held, closing, querybuf, pos, multibulklen, bulklen, argv, query, taken,
                 executed, everHeld>>

-----------------------------------------------------------------------------
(* processInlineBuffer.                                                    *)

\* Mutant: a carriage return ends up in the last argument.
LineLenWithCR(newline) == newline

LineLen(newline) == IF newline > 0 /\ querybuf[newline] = CR THEN newline - 1 ELSE newline

InlineIncomplete ==
  /\ Parses("inline")
  /\ Find(querybuf, LF, 0) = -1
  /\ IF Len(querybuf) > InlineMax
     THEN ProtocolError("big", 0) /\ reqtype' = "inline"
          /\ UNCHANGED <<multibulklen, bulklen, argv>>
     ELSE WaitForMore("inline")

Inline ==
  LET newline == Find(querybuf, LF, 0)
      line == SubSeq(querybuf, 1, LineLen(newline)) IN
  /\ Parses("inline")
  /\ newline # -1
  /\ IF Unbalanced(line)
     THEN ProtocolError("malformed", 0) /\ reqtype' = "inline"
          /\ UNCHANGED <<multibulklen, bulklen, argv>>
     ELSE /\ Execute(Words(line))
          /\ querybuf' = Without(LineLen(newline) + 2)
          /\ UNCHANGED <<stage, closing, pos, query, taken>>

-----------------------------------------------------------------------------
(* processMultibulkBuffer: the number of arguments, then each argument's   *)
(* length and the argument itself.                                         *)

\* Mutant: a line is taken for complete although the byte behind its carriage return lacks.
LineArrivedEarly(at) == at # -1 /\ at <= Len(querybuf) - 1

\* A line is there if its carriage return is, and one more byte.
LineArrived(at) == at # -1 /\ at <= Len(querybuf) - 2

CountIncomplete ==
  LET newline == Find(querybuf, CR, 0) IN
  /\ Parses("multibulk")
  /\ multibulklen = 0
  /\ ~LineArrived(newline)
  /\ IF newline = -1 /\ Len(querybuf) > InlineMax
     THEN ProtocolError("big", 0) /\ reqtype' = "multibulk"
          /\ UNCHANGED <<multibulklen, bulklen, argv>>
     ELSE WaitForMore("multibulk")

Count ==
  LET newline == Find(querybuf, CR, 0)
      number == SubSeq(querybuf, 2, newline) IN
  /\ Parses("multibulk")
  /\ multibulklen = 0
  /\ LineArrived(newline)
  /\ CASE IsNumber(number) /\ Number(number) \in 1 .. MaxArgs ->
            /\ reqtype' = "multibulk"
            /\ multibulklen' = Number(number)
            /\ pos' = newline + 2
            /\ stage' = "bulks"
            /\ UNCHANGED <<held, closing, querybuf, bulklen, argv, query, taken, executed,
                           everHeld>>
       [] IsNumber(number) /\ Number(number) <= 0 ->
            /\ Execute(<<>>)
            /\ querybuf' = Without(newline + 2)
            /\ UNCHANGED <<stage, closing, pos, query, taken>>
       [] OTHER ->
            /\ ProtocolError("malformed", 0)
            /\ reqtype' = "multibulk"
            /\ UNCHANGED <<multibulklen, bulklen, argv>>

\* The number of arguments is known from an earlier read.
TakeUp ==
  /\ Parses("multibulk")
  /\ multibulklen > 0
  /\ stage' = "bulks"
  /\ UNCHANGED <<held, closing, querybuf, pos, parser, query, taken, executed, everHeld>>

\* Mutant: what was parsed is left in the buffer.
UnparsedUntrimmed == querybuf

Unparsed == Without(pos)

LengthIncomplete ==
  LET newline == Find(querybuf, CR, pos) IN
  /\ stage = "bulks"
  /\ multibulklen > 0 /\ bulklen = -1
  /\ ~LineArrived(newline)
  /\ IF newline = -1 /\ Len(querybuf) > InlineMax
     THEN ProtocolError("big", 0)
     ELSE /\ querybuf' = Unparsed
          /\ pos' = 0
          /\ stage' = "idle"
          /\ UNCHANGED <<held, closing, query, taken, executed, everHeld>>
  /\ UNCHANGED parser

\* The query buffer is trimmed to where a large argument begins.
Length ==
  LET newline == Find(querybuf, CR, pos)
      number == SubSeq(querybuf, pos + 2, newline)
      start == newline + 2 IN
  /\ stage = "bulks"
  /\ multibulklen > 0 /\ bulklen = -1
  /\ LineArrived(newline)
  /\ IF querybuf[pos + 1] # "$" \/ ~IsNumber(number) \/ Number(number) \notin 0 .. MaxBulk
     THEN ProtocolError("malformed", pos) /\ UNCHANGED parser
     ELSE /\ bulklen' = Number(number)
          /\ IF Number(number) >= BigArg THEN querybuf' = Without(start) /\ pos' = 0
                                 ELSE pos' = start /\ UNCHANGED querybuf
          /\ UNCHANGED <<stage, held, closing, reqtype, multibulklen, argv, query, taken,
                         executed, everHeld>>

\* Mutant: more is waited for than the end of the line behind the argument.
ArgArrivedLate == Len(querybuf) - pos > bulklen + 2

ArgArrived == Len(querybuf) - pos >= bulklen + 2

ArgIncomplete ==
  /\ stage = "bulks"
  /\ bulklen # -1
  /\ ~ArgArrived
  /\ querybuf' = Unparsed
  /\ pos' = 0
  /\ stage' = "idle"
  /\ UNCHANGED <<held, closing, parser, query, taken, executed, everHeld>>

\* A large argument that is all there is in the buffer: the buffer becomes its object,
\* without the end of the line, and a new one is begun.
ArgFillsBuffer == pos = 0 /\ bulklen >= BigArg /\ Len(querybuf) = bulklen + 2

Arg ==
  /\ stage = "bulks"
  /\ bulklen # -1
  /\ ArgArrived
  /\ argv' = Append(argv, SubSeq(querybuf, pos + 1, pos + bulklen))
  /\ IF ArgFillsBuffer THEN querybuf' = <<>> /\ pos' = 0
     ELSE pos' = pos + bulklen + 2 /\ UNCHANGED querybuf
  /\ bulklen' = -1
  /\ multibulklen' = multibulklen - 1
  /\ UNCHANGED <<stage, held, closing, reqtype, query, taken, executed, everHeld>>

ArgsDone ==
  /\ stage = "bulks"
  /\ multibulklen = 0
  /\ Execute(argv)
  /\ querybuf' = Unparsed
  /\ pos' = 0
  /\ stage' = "input"
  /\ UNCHANGED <<closing, query, taken>>

--------------------------------------------------------------------------------
readQueryFromClient == Read \/ ReadEnd

processMultibulkBuffer ==
  \/ CountIncomplete
  \/ Count
  \/ TakeUp
  \/ LengthIncomplete
  \/ Length
  \/ ArgIncomplete
  \/ Arg
  \/ ArgsDone

processInputBuffer ==
  \/ InputEnds
  \/ InlineIncomplete
  \/ Inline
  \/ processMultibulkBuffer

InputNext == readQueryFromClient \/ processInputBuffer \/ Hold \/ Resume

InputSpec == InputInit /\ [][InputNext]_inputVars

(* The loop finishes what it began and comes back to reading again and     *)
(* again, the client sends all of the query, and every pause ends.         *)
InputFairSpec ==
  /\ InputSpec
  /\ WF_inputVars(processInputBuffer) /\ SF_inputVars(Read) /\ WF_inputVars(Resume)

--------------------------------------------------------------------------------
InputTypeOK ==
  /\ stage \in {"idle", "input", "bulks", "closed", "overrun"}
  /\ held \in BOOLEAN
  /\ closing \in {"no", "malformed", "big"}
  /\ query \in Queries
  /\ taken \in 0 .. Len(Stream)
  /\ querybuf \in Seq(STRING)
  /\ pos \in 0 .. Len(querybuf)
  /\ reqtype \in {"none", "inline", "multibulk"}
  /\ multibulklen \in 0 .. MaxArgs
  /\ bulklen \in -1 .. MaxBulk
  /\ argv \in Seq(Seq(STRING))
  /\ executed \in Seq(Seq(Seq(STRING)))
  /\ everHeld \in BOOLEAN

(* The bytes of the first n items of the query.                            *)
SizeOf(n) == Len(Bytes(SubSeq(query, 1, n)))
Arrived == {n \in 0 .. Len(query) : SizeOf(n) <= taken}
Commands(n) ==
  LET cs == SelectSeq(SubSeq(query, 1, n), LAMBDA item : item.kind = "command")
  IN [i \in DOMAIN cs |-> cs[i].args]
IsLongLine(item) ==
  Len(item.bytes) > InlineMax /\ \A i \in 1 .. InlineMax : item.bytes[i] # CR
Malformed == {n \in 1 .. Len(query) : query[n].kind = "malformed"}

(* However the query was cut into reads, and however long it was held: the *)
(* commands executed so far are the first ones that were sent, argument by *)
(* argument, and when the server waits for more data every command that    *)
(* has arrived as a whole is among them.                                   *)
CutInv ==
  /\ executed = Commands(Len(query)) \/ IsStrictPrefix(executed, Commands(Len(query)))
  /\ stage = "idle" /\ ~held /\ closing = "no" => executed = Commands(Max(Arrived))

(* A protocol error is found where there is one: never in the middle of    *)
(* well-formed commands, after all commands before it and before the ones  *)
(* behind it, and at the latest when the malformed item has arrived.  A    *)
(* query that was never held is not found too big, unless it has a line    *)
(* that is: reads and large arguments are small enough for that.           *)
ErrorInv ==
  /\ closing = "malformed" =>
       /\ Malformed # {}
       /\ taken > SizeOf(Min(Malformed) - 1)
       /\ executed = Commands(Min(Malformed))
  /\ stage = "idle" /\ ~held /\ closing = "no" => Malformed \intersect Arrived = {}
  /\ closing = "big" => everHeld \/ \E n \in DOMAIN query : IsLongLine(query[n])

(* While a large argument is read the buffer holds nothing but it, and     *)
(* never more than all of it: the length that read is called with is not   *)
(* negative.  And what the assertions of processMultibulkBuffer say when   *)
(* it begins anew, and when it goes on, is so.                             *)
AssertInv ==
  /\ InputTypeOK
  /\ stage = "idle" /\ ReadingBigArg => 0 <= Remaining /\ ReadLen >= 0
  /\ stage = "input" /\ reqtype = "multibulk" /\ multibulklen = 0 /\ closing = "no" =>
       argv = <<>> /\ bulklen = -1 /\ querybuf # <<>> /\ querybuf[1] = "*"
  /\ bulklen # -1 => multibulklen > 0

(* A query that is sent as a whole is executed as a whole, unless it was   *)
(* malformed, or grew too big while it was held.                           *)
Served ==
  <>(executed = Commands(Len(query)) \/ closing # "no" \/ stage \in {"closed", "overrun"})

(* The commands are those of the stream of bytes the client sent, however  *)
(* the network cut it and however long the client was held: what was read  *)
(* off the stream is what was taken from the socket, but for what is still *)
(* to be parsed.  It holds for every query, whatever its bytes mean.       *)
offset == taken - (Len(querybuf) - pos)
Requests ==
  INSTANCE RequestStream
    WITH Streams <- {Bytes(q) : q \in Queries}, stream <- Stream, missing <- multibulklen,
         failure <- closing
ImplementsRequests == Requests!StreamSpec

--------------------------------------------------------------------------------
(* The log message at networking.c:1682 says of a client that is freed     *)
(* when read returns 0 that it closed the connection.                      *)
ClosedByPeer == stage = "closed" => taken = Len(Stream)
================================================================================
