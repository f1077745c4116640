----------------------------- MODULE RequestStream -----------------------------
(***************************************************************************)
(* What the input side of a client promises: the commands that are         *)
(* executed are read off the stream of bytes the client sends, from its    *)
(* front, as if all of it were there at once.  Where the network cuts the  *)
(* stream, how long the client is held, and how much is buffered, does not *)
(* show, but for two things.  A line can be found too long; and what is    *)
(* skipped behind an inline command is a carriage return and a newline or, *)
(* when its line ends in a newline alone, that and the byte behind it, if  *)
(* it has arrived.                                                         *)
(***************************************************************************)
EXTENDS Protocol

CONSTANTS
  Streams,    (* the streams a client may send       *)
  InlineMax,  (* the length of a line that is borne  *)
  MaxArgs,    (* how many arguments a command has    *)
  MaxBulk     (* how long an argument is             *)

VARIABLES
  stream,     (* the stream                                            *)
  offset,     (* what was read off it                                  *)
  missing,    (* the arguments that the command read lacks             *)
  bulklen,    (* the length of the one that is next, -1 if not known   *)
  argv,       (* the arguments it has                                  *)
  executed,   (* the commands that were executed                       *)
  failure     (* "no", or why nothing more is read                     *)

streamVars == <<stream, offset, missing, bulklen, argv, executed, failure>>

StreamInit ==
  /\ stream \in Streams
  /\ offset = 0
  /\ missing = 0 /\ bulklen = -1 /\ argv = <<>>
  /\ executed = <<>>
  /\ failure = "no"

--------------------------------------------------------------------------------
Fails(why) ==
  /\ failure' = why
  /\ UNCHANGED <<stream, missing, bulklen, argv, executed>>

Executes(args) ==
  /\ executed' = IF args = <<>> THEN executed ELSE Append(executed, args)
  /\ missing' = 0 /\ bulklen' = -1 /\ argv' = <<>>
  /\ UNCHANGED <<stream, failure>>

\* A command begins, in one of the two forms.
Begins(multibulk) ==
  /\ failure = "no"
  /\ missing = 0 /\ argv = <<>>
  /\ offset < Len(stream)
  /\ (stream[offset + 1] = "*") = multibulk

InlineCommand ==
  LET newline == Find(stream, LF, offset)
      end == IF newline > offset /\ stream[newline] = CR THEN newline - 1 ELSE newline
      line == SubSeq(stream, offset + 1, end) IN
  /\ Begins(FALSE)
  /\ newline # -1
  /\ IF Unbalanced(line)
     THEN Fails("malformed") /\ UNCHANGED offset
     ELSE Executes(Words(line)) /\ offset' \in {newline + 1, end + 2}

\* A line ends in a carriage return and one more byte.
Ends(newline) == newline # -1 /\ newline + 2 <= Len(stream)

ArgCount ==
  LET newline == Find(stream, CR, offset)
      number == SubSeq(stream, offset + 2, newline) IN
  /\ Begins(TRUE)
  /\ Ends(newline)
  /\ CASE IsNumber(number) /\ Number(number) \in 1 .. MaxArgs ->
            /\ missing' = Number(number)
            /\ offset' = newline + 2
            /\ UNCHANGED <<stream, bulklen, argv, executed, failure>>
       [] IsNumber(number) /\ Number(number) <= 0 ->
            Executes(<<>>) /\ offset' = newline + 2
       [] OTHER ->
            Fails("malformed") /\ UNCHANGED offset

ArgLength ==
  LET newline == Find(stream, CR, offset)
      number == SubSeq(stream, offset + 2, newline) IN
  /\ failure = "no"
  /\ missing > 0 /\ bulklen = -1
  /\ Ends(newline)
  /\ IF stream[offset + 1] # "$" \/ ~IsNumber(number) \/ Number(number) \notin 0 .. MaxBulk
     THEN Fails("malformed") /\ UNCHANGED offset
     ELSE /\ bulklen' = Number(number)
          /\ offset' = newline + 2
          /\ UNCHANGED <<stream, missing, argv, executed, failure>>

Argument ==
  /\ failure = "no"
  /\ bulklen # -1
  /\ offset + bulklen + 2 <= Len(stream)
  /\ argv' = Append(argv, SubSeq(stream, offset + 1, offset + bulklen))
  /\ offset' = offset + bulklen + 2
  /\ bulklen' = -1
  /\ missing' = missing - 1
  /\ UNCHANGED <<stream, executed, failure>>

MultibulkCommand ==
  /\ failure = "no"
  /\ missing = 0 /\ argv # <<>>
  /\ Executes(argv)
  /\ UNCHANGED offset

\* A line is too long when more than InlineMax bytes are there without its end, counted from
\* where the line begins, if it is the first one of a command, or from somewhere before it:
\* what a command consists of up to there may still be in the buffer.  All of that is
\* put back.
LongLine(b, from) ==
  /\ from + InlineMax < Len(stream)
  /\ Find(stream, b, offset) \notin 0 .. (from + InlineMax)

TooBig ==
  \E from \in 0 .. offset :
    /\ failure = "no"
    /\ \/ Begins(FALSE) /\ from = offset /\ LongLine(LF, from)
       \/ Begins(TRUE) /\ from = offset /\ LongLine(CR, from)
       \/ missing > 0 /\ bulklen = -1 /\ LongLine(CR, from)
    /\ Fails("big")
    /\ offset' = from

StreamNext ==
  InlineCommand \/ ArgCount \/ ArgLength \/ Argument \/ MultibulkCommand \/ TooBig

StreamSpec == StreamInit /\ [][StreamNext]_streamVars
================================================================================
