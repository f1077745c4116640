-------------------------------- MODULE SdsText --------------------------------
(***************************************************************************)
(* What sds.c makes of single bytes and of numbers: digits, and the way a  *)
(* byte is represented in quotes.  A string is the sequence of its bytes.  *)
(***************************************************************************)
EXTENDS Bytes

Letter(c) == CASE c = "a" -> 97 [] c = "b" -> 98 [] c = "n" -> 110 [] c = "r" -> 114
               [] c = "s" -> 115 [] c = "t" -> 116 [] c = "x" -> 120

\* The byte at offset i of a C string; what follows its end is its terminator.
At(text, i) == IF i < Len(text) THEN text[i + 1] ELSE NUL

isspace(b) == b \in 9 .. 13 \union {SPACE}
isprint(b) == b \in 32 .. 126

\* sdsll2str and sdsull2str make the digits from the last to the first and turn them round.
DigitsReversed[v \in Nat] ==
  <<48 + (v % 10)>> \o (IF v \div 10 = 0 THEN <<>> ELSE DigitsReversed[v \div 10])
sdsll2str(value) ==
  Reverse(DigitsReversed[IF value < 0 THEN -value ELSE value]
            \o (IF value < 0 THEN <<MINUS>> ELSE <<>>))

-------------------------------------------------------------------------------
HexDigit(n) == IF n < 10 THEN 48 + n ELSE 87 + n
is_hex_digit(b) == b \in 48 .. 57 \union 97 .. 102 \union 65 .. 70
hex_digit_to_int(b) ==
  CASE b \in 48 .. 57 -> b - 48 [] b \in 97 .. 102 -> b - 87 [] b \in 65 .. 70 -> b - 55 [] OTHER -> 0

\* The letters of the escapes that have one, in sdscatrepr and in sdssplitargs.
Escapes == [b \in {LF, CR, TAB, BEL, BS} |->
  CASE b = LF -> Letter("n") [] b = CR -> Letter("r") [] b = TAB -> Letter("t")
    [] b = BEL -> Letter("a") [] b = BS -> Letter("b")]

\* What sdscatrepr appends for one byte.  Mutant: a backslash as it is.
EscapedBarely(b) ==
  CASE b = DQUOTE -> <<BSLASH, b>>
    [] b \in DOMAIN Escapes -> <<BSLASH, Escapes[b]>>
    [] isprint(b) /\ b # DQUOTE -> <<b>>
    [] OTHER -> <<BSLASH, Letter("x"), HexDigit(b \div 16), HexDigit(b % 16)>>
Escaped(b) ==
  CASE b \in {BSLASH, DQUOTE} -> <<BSLASH, b>>
    [] b \in DOMAIN Escapes -> <<BSLASH, Escapes[b]>>
    [] isprint(b) /\ b \notin {BSLASH, DQUOTE} -> <<b>>
    [] OTHER -> <<BSLASH, Letter("x"), HexDigit(b \div 16), HexDigit(b % 16)>>

\* The byte an escape in double quotes stands for.
Unescaped(c) == IF \E b \in DOMAIN Escapes : Escapes[b] = c
                THEN CHOOSE b \in DOMAIN Escapes : Escapes[b] = c ELSE c
================================================================================
