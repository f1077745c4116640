------------------------------ MODULE MCLibrary ------------------------------
(* What one thread does with the libraries, for TLC: lists (AdList), strings  *)
(* (Sds), and the program that reads a configuration with strings (Config).   *)
(* An instance is a behaviour of one of them; the variables of the others     *)
(* stand still: the string of one without strings is a freed one.             *)
EXTENDS AdList, SdsRoundTrip, TLC

VARIABLES part, run, pc, path, unread, config, line, server, printed
configVars == <<run, pc, path, unread, config, line, server, printed>>

Alphabet == {0, 10, 32, 34, 92, 97, 120, 171}
MCTexts == BoundedSeq(Alphabet, 3)
MCArgs == {<<>>, <<97>>, <<65, 0>>, <<97, 65>>}
MCNumbers == -2 .. 3
\* "%i%%", "%s%u" and "a%S", with their arguments and what they stand for.
MCFormats == {
  <<<<37, 105, 37, 37>>, 2 :> -9, <<45, 57, 37>>>>,
  <<<<37, 115, 37, 117>>, 2 :> <<97, 0, 97>> @@ 4 :> 7, <<97, 55>>>>,
  <<<<97, 37, 83>>, 3 :> <<0, 32>>, <<97, 0, 32>>>>}

\* "m" stands for maxidletime, "P" for port and "f" for appendfsync, in letters of either
\* case: values in and out of their ranges, white space, quotes, comments, and words with
\* a NUL from an escape ("m\x00x" and "n\x00").
Idle == <<109, 32>>
Port == <<80, 32>>
Fsyncs == <<102, 32>>
Lines == {
  <<>>, <<35, 32, 34>>, <<11>>, Idle \o <<53>>, <<32>> \o Port \o <<55, 13>>,
  Port \o <<49, 50>>, Idle \o <<45, 49>>, Fsyncs \o <<69>>, Fsyncs \o <<97>>, Fsyncs \o <<120>>,
  Port \o <<49, 32, 50>>, <<120, 32, 49>>, Port \o <<34, 56, 34>>,
  Port \o <<34, 56>>, Port \o <<51, 53>>,
  <<34, 109, 92, 120, 48, 48, 120, 34, 32, 54>>, Fsyncs \o <<34, 110, 92, 120, 48, 48, 34>>}
Files ==
  {a \o <<10>> \o b \o z : a \in Lines, b \in Lines, z \in {<<>>, <<10>>}}
    \union {Idle \o <<53, 10>> \o a \o <<10>> \o b \o <<10>> \o Fsyncs \o <<110>> :
              a \in Lines, b \in Lines}
Programs ==
  {[arg |-> <<47, 120>>, cwd |-> <<47>>, file |-> f] : f \in Files}
    \union {[arg |-> a, cwd |-> c, file |-> <<>>] :
              a \in BoundedSeq({46, 47, 120}, 6) \union {<<32, 46, 46, 47, 120, 10>>},
              c \in {<<47>>, <<47, 97>>, <<47, 97, 98, 47, 97>>}}

Cfg == INSTANCE Config WITH
  SLOTS <- 5, REDIS_CONFIGLINE_MAX <- 3, MAX_PORT <- 9, INT_RANGE <- 32, Runs <- Programs,
  i <- line
ASSUME MCAssumption == Cfg!ConfigAssumption

NoString == sh = sdsfree /\ call = <<"new", <<>>, 0, 0>>
NoConfig ==
  /\ run = NULL /\ pc = NULL /\ path = NULL /\ unread = NULL
  /\ config = NULL /\ line = NULL /\ server = NULL /\ printed = NULL

MCInit ==
  /\ Init
  /\ \/ part = "lists" /\ NoString /\ NoConfig
     \/ part = "strings" /\ SdsInit /\ NoConfig
     \/ part = "config" /\ NoString /\ Cfg!Init
MCNext ==
  /\ part' = part
  /\ \/ part = "lists" /\ Next /\ UNCHANGED <<sdsVars, configVars>>
     \/ part = "strings" /\ SdsNext /\ UNCHANGED <<vars, configVars>>
     \/ part = "config" /\ Cfg!Next /\ UNCHANGED <<vars, sdsVars>>
MCSpec == MCInit /\ [][MCNext]_<<part, vars, sdsVars, configVars>>

-------------------------------------------------------------------------------
\* Config!ConfigInv: the file that getAbsolutePath names is the one the argument names, and
\* what is loaded is what the file says, or its first bad line is named.
ConfigInv == part = "config" => Cfg!ConfigInv

Symmetry == Permutations(Node) \union Permutations(Value) \union Permutations(List)
==============================================================================
