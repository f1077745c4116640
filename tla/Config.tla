-------------------------------- MODULE Config --------------------------------
(***************************************************************************)
(* The configuration demo (main.c, config.c): the name of the file is made *)
(* absolute, the file is read piece by piece, split into lines, and each   *)
(* line may set a field of the server record or end the program.  Strings  *)
(* are those of Bytes, which Sds implements.  A directive or a word that   *)
(* is a value of one is its first letter here.                             *)
(***************************************************************************)
EXTENDS SdsFormat

CONSTANTS
  REDIS_CONFIGLINE_MAX,  (* what one call of fgets reads at most *)
  MAX_PORT,              (* 65535                                *)
  INT_RANGE,             (* an int counts modulo this            *)
  Runs                   (* bound: the runs of the program, each with its argument, the
                            current directory and the contents of the file *)

ConfigAssumption ==
  /\ {REDIS_CONFIGLINE_MAX, MAX_PORT, INT_RANGE} \subseteq Nat \ {0}
  /\ MAX_PORT < INT_RANGE \div 2

VARIABLES
  run,      (* the argument, current directory and file of this run        *)
  pc,
  path,     (* configfile                                                  *)
  unread,   (* what fgets has not read yet                                 *)
  config,   (* the string the file is collected in                         *)
  i,        (* the loop variable of loadServerConfigFromString             *)
  server,   (* struct redisServer                                          *)
  printed   (* the values printfRedisConfig prints                         *)
vars == <<run, pc, path, unread, config, i, server, printed>>

AOF_FSYNC_NO == 0
AOF_FSYNC_ALWAYS == 1
AOF_FSYNC_EVERYSEC == 2

Init ==
  /\ run \in Runs
  /\ pc = "start"
  /\ path = <<>>
  /\ unread = run.file
  /\ config = <<>>
  /\ i = 0
  /\ server = [maxidletime |-> 0, port |-> 0, aof_fsync |-> 0]
  /\ printed = <<>>

Exit == pc' = "exited" /\ UNCHANGED <<run, path, unread, config, i, server, printed>>

-------------------------------------------------------------------------------
WhiteSpace == {SPACE, TAB, CR, LF}
Up == <<DOT, DOT, SLASH>>

\* The last element of a directory that ends with a slash is cut off.
Parent(abspath) == LET slash == Max({k \in 0 .. Len(abspath) - 2 : At(abspath, k) = SLASH}) IN
  IF Len(abspath) > 1 THEN Ranged(abspath, 0, -(Len(abspath) - slash)) ELSE abspath

RECURSIVE Joined(_, _)
Joined(abspath, relpath) ==
  IF IsPrefix(Up, relpath) THEN Joined(Parent(abspath), Ranged(relpath, 3, -1))
  ELSE abspath \o relpath

AbsolutePath(filename, cwd) ==
  LET relpath == Trimmed(filename, WhiteSpace) IN
  IF At(relpath, 0) = SLASH THEN relpath
  ELSE Joined(IF cwd # <<>> /\ Last(cwd) # SLASH THEN Append(cwd, SLASH) ELSE cwd, relpath)

\* An absolute name is not looked up in the current directory, which may be gone.
getAbsolutePath ==
  /\ pc = "start"
  /\ \/ path' = AbsolutePath(run.arg, run.cwd)
        /\ pc' = "open"
        /\ UNCHANGED <<run, unread, config, i, server, printed>>
     \/ At(Trimmed(run.arg, WhiteSpace), 0) # SLASH /\ Exit

Open ==
  /\ pc = "open"
  /\ \/ pc' = "read" /\ UNCHANGED <<run, path, unread, config, i, server, printed>>
     \/ Exit

\* fgets stops after a line feed or REDIS_CONFIGLINE_MAX bytes.
PieceLength(text) ==
  LET ends == {k \in DOMAIN text : text[k] = LF} \union {REDIS_CONFIGLINE_MAX, Len(text)} IN
  Min(ends)
\* sdscat adds what fgets got, up to the first NUL.  Mutant: a piece of a line takes the
\* place of the one before.
ReadPieceAnew ==
  /\ pc = "read"
  /\ unread # <<>>
  /\ config' = (IF config = <<>> \/ Last(config) = LF THEN config ELSE <<>>)
                 \o CString(SubSeq(unread, 1, PieceLength(unread)))
  /\ unread' = SubSeq(unread, PieceLength(unread) + 1, Len(unread))
  /\ UNCHANGED <<run, pc, path, i, server, printed>>
ReadPiece ==
  /\ pc = "read"
  /\ unread # <<>>
  /\ config' = config \o CString(SubSeq(unread, 1, PieceLength(unread)))
  /\ unread' = SubSeq(unread, PieceLength(unread) + 1, Len(unread))
  /\ UNCHANGED <<run, pc, path, i, server, printed>>

EndOfFile ==
  /\ pc = "read"
  /\ unread = <<>>
  /\ pc' = "lines"
  /\ UNCHANGED <<run, path, unread, config, i, server, printed>>

-------------------------------------------------------------------------------
\* loadServerConfigFromString.
lines == sdssplitlen(config, <<LF>>).tokens
Line(k) == Trimmed(lines[k], WhiteSpace)
Skipped(k) == At(Line(k), 0) \in {HASH, NUL}
Arguments(k) == sdssplitargs(Line(k))
argv(k) == Arguments(k).argv
\* strcasecmp compares letters of either case, up to a NUL (which an escape in quotes
\* may have made).
Lower(text) == [k \in DOMAIN CString(text) |-> LowerCase(text[k])]

\* atoi: white space, a sign and digits; what does not fit into an int wraps round.
RECURSIVE Decimal(_)
Decimal(text) == IF text = <<>> \/ At(text, Len(text) - 1) \notin 48 .. 57 THEN 0
               ELSE 10 * Decimal(Front(text)) + (Last(text) - 48)
atoi(text) ==
  LET first == Min({k \in 0 .. Len(text) : ~isspace(At(text, k))})
      digits == IF At(text, first) \in {PLUS, MINUS} THEN first + 1 ELSE first
      end == Min({k \in digits .. Len(text) : At(text, k) \notin 48 .. 57})
      number == Decimal(SubSeq(text, digits + 1, end)) % INT_RANGE
      signed == IF At(text, first) = MINUS THEN (INT_RANGE - number) % INT_RANGE ELSE number
  IN IF signed >= INT_RANGE \div 2 THEN signed - INT_RANGE ELSE signed

\* "no", "always" and "everysec"; -1 for any other word.
Fsync(word) ==
  CASE Lower(word) = <<Letter("n")>> -> AOF_FSYNC_NO
    [] Lower(word) = <<Letter("a")>> -> AOF_FSYNC_ALWAYS
    [] Lower(word) = <<101>> -> AOF_FSYNC_EVERYSEC
    [] OTHER -> -1

Directive(k) == IF ~Arguments(k).null /\ Len(argv(k)) = 2 THEN Lower(argv(k)[1]) ELSE <<>>
SetsIdle(k) == Directive(k) = <<109>>       \* maxidletime
SetsPort(k) == Directive(k) = <<112>>       \* port
SetsFsync(k) == Directive(k) = <<102>>      \* appendfsync

NextLine(record) ==
  /\ i' = i + 1
  /\ server' = record
  /\ UNCHANGED <<run, pc, path, unread, config, printed>>
\* exit(1); the message gives the number of the line, which is i + 1.
Fails(record) ==
  /\ pc' = "failed"
  /\ server' = record
  /\ UNCHANGED <<run, path, unread, config, i, printed>>

AtLine == pc = "lines" /\ i < Len(lines)

\* Blank lines and comments, lines without an argument, directives nobody knows and
\* directives with another number of arguments.
SkipLine ==
  /\ AtLine
  /\ \/ Skipped(i + 1)
     \/ ~Arguments(i + 1).null /\ ~SetsIdle(i + 1) /\ ~SetsPort(i + 1) /\ ~SetsFsync(i + 1)
  /\ NextLine(server)

UnbalancedQuotes == AtLine /\ ~Skipped(i + 1) /\ Arguments(i + 1).null /\ Fails(server)

\* The value is stored before it is looked at.
SetIdle ==
  /\ AtLine /\ ~Skipped(i + 1) /\ SetsIdle(i + 1)
  /\ LET value == atoi(argv(i + 1)[2])
         record == [server EXCEPT !.maxidletime = value]
     IN IF value < 0 THEN Fails(record) ELSE NextLine(record)
SetPort ==
  /\ AtLine /\ ~Skipped(i + 1) /\ SetsPort(i + 1)
  /\ LET value == atoi(argv(i + 1)[2])
         record == [server EXCEPT !.port = value]
     IN IF value < 0 \/ value > MAX_PORT THEN Fails(record) ELSE NextLine(record)
SetFsync ==
  /\ AtLine /\ ~Skipped(i + 1) /\ SetsFsync(i + 1)
  /\ IF Fsync(argv(i + 1)[2]) = -1 THEN Fails(server)
     ELSE NextLine([server EXCEPT !.aof_fsync = Fsync(argv(i + 1)[2])])

\* The second label is followed by the first field.
printfRedisConfig ==
  /\ pc = "lines"
  /\ i = Len(lines)
  /\ printed' = [server EXCEPT !.port = server.maxidletime]
  /\ pc' = "printed"
  /\ UNCHANGED <<run, path, unread, config, i, server>>

Next ==
  \/ getAbsolutePath \/ Open \/ ReadPiece \/ EndOfFile
  \/ SkipLine \/ UnbalancedQuotes \/ SetIdle \/ SetPort \/ SetFsync \/ printfRedisConfig
Spec == Init /\ [][Next]_vars

-------------------------------------------------------------------------------
(* Properties. *)

\* What a path names: its elements, where an empty one and "." stand for nothing and
\* ".." takes back the one before.
Resolved(name) ==
  FoldLeft(LAMBDA dirs, e : IF e \in {<<>>, <<DOT>>} THEN dirs
                            ELSE IF e # <<DOT, DOT>> THEN Append(dirs, e)
                            ELSE IF dirs = <<>> THEN dirs ELSE Front(dirs),
           <<>>, sdssplitlen(name, <<SLASH>>).tokens)

\* The file that is opened is the one the argument names in the current directory, and
\* its name does not depend on that directory any more.
PathInv == pc \notin {"start", "exited"} =>
  LET arg == Trimmed(run.arg, WhiteSpace) IN
  /\ path[1] = SLASH
  /\ Resolved(path) = Resolved(IF At(arg, 0) = SLASH THEN arg ELSE run.cwd \o <<SLASH>> \o arg)

\* What a file means: each directive has the value of the last line that gives one, and
\* a line without a meaning ends the program.  (The text of the file is taken as a whole
\* here, whatever the pieces it was read in; a line feed also ends a quote.)
LinesOf(file) == [k \in 0 .. Cardinality({n \in DOMAIN file : file[n] = LF}) |->
  LET feeds == {n \in DOMAIN file : file[n] = LF}
      from == Max({0} \union {n \in feeds : Cardinality({m \in feeds : m <= n}) <= k})
      to == Min({Len(file) + 1} \union {n \in feeds : n > from})
      text == Trimmed(SubSeq(file, from + 1, to - 1), WhiteSpace)
  IN IF At(text, 0) = HASH THEN sdssplitargs(<<>>) ELSE sdssplitargs(text)]
Valid(name, word) ==
  CASE name = <<109>> -> atoi(word) >= 0
    [] name = <<112>> -> atoi(word) \in 0 .. MAX_PORT
    [] name = <<102>> -> Fsync(word) # -1
    [] OTHER -> TRUE
Given(name, value(_), otherwise) ==
  LET said == LinesOf(run.file)
      by == {k \in DOMAIN said : Len(said[k].argv) = 2 /\ Lower(said[k].argv[1]) = name}
  IN IF by = {} THEN otherwise ELSE value(said[Max(by)].argv[2])

\* No piece of a file without NUL bytes is lost.  The program prints a configuration only
\* if no line of the file is bad, and then every field is what the last line about it says;
\* else it stops at the first bad line.
LoadInv ==
  LET said == LinesOf(run.file)
      bad == {k \in DOMAIN said : 
                \/ said[k].null
                \/ Len(said[k].argv) = 2 /\ ~Valid(Lower(said[k].argv[1]), said[k].argv[2])}
  IN /\ pc = "read" /\ NUL \notin ToSet(run.file) => config \o unread = run.file
     /\ pc = "printed" =>
          /\ bad = {}
          /\ server = [maxidletime |-> Given(<<109>>, atoi, 0), port |-> Given(<<112>>, atoi, 0),
                       aof_fsync |-> Given(<<102>>, Fsync, 0)]
     /\ pc = "failed" => bad # {} /\ i = Min(bad)

\* The program reads the file it was told to, and takes from it what it says.
ConfigInv == PathInv /\ LoadInv

==============================================================================
