----------------------------- MODULE MCClientInput -----------------------------
(* Queries of two items.  Arguments hold bytes that mean something to the  *)
(* protocol; one is as large as BigArg and one larger than InlineMax, one  *)
(* command of small arguments is longer than InlineMax, as is one inline   *)
(* line.  The last line of a query may end in a newline alone.             *)
EXTENDS ClientInput

Crlf == <<CR, LF>>
Decimal(n) == IF n < 10 THEN <<ToString(n)>> ELSE <<ToString(n \div 10), ToString(n % 10)>>
Bulk(arg) == <<"$">> \o Decimal(Len(arg)) \o Crlf \o arg \o Crlf
Multi(args) ==
  [kind |-> "command", args |-> args,
   bytes |-> <<"*", ToString(Len(args))>> \o Crlf
             \o FlattenSeq([i \in DOMAIN args |-> Bulk(args[i])])]
Blank(bytes) == [kind |-> "blank", args |-> <<>>, bytes |-> bytes]
Bad(bytes) == [kind |-> "malformed", args |-> <<>>, bytes |-> bytes]
Long == [i \in 1 .. 13 |-> "a"]

MCItems == {
  Multi(<< <<"a">>, <<>> >>),
  Multi(<< <<CR, LF, "$", "1", "*", "a">>, <<"b">> >>),
  Multi(<< <<"a", "b", "c">>, <<"$">>, <<"x">> >>),
  Multi(<< Long, <<"b">> >>),
  [kind |-> "command", args |-> << <<"a">>, <<"b", "*">> >>,
   bytes |-> <<"a", " ", "b", "*">> \o Crlf],
  [kind |-> "command", args |-> <<Long>>, bytes |-> Long \o Crlf],
  Blank(Crlf),
  Blank(<<"*", "0">> \o Crlf),
  Blank(<<"*", "-", "1">> \o Crlf),
  Bad(<<"a", "'">> \o Crlf),
  Bad(<<"*", "a">> \o Crlf),
  Bad(<<"*">> \o Long \o Crlf),
  Bad(<<"*", "1">> \o Crlf \o <<"a", "1">> \o Crlf),
  Bad(<<"*", "1">> \o Crlf \o <<"$", "-", "1">> \o Crlf)}

Bare == [kind |-> "command", args |-> << <<"b">> >>, bytes |-> <<"b", LF>>]

MCQueries == MCItems \X (MCItems \union {Bare})
================================================================================
