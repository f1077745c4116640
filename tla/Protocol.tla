-------------------------------- MODULE Protocol -------------------------------
(***************************************************************************)
(* What the bytes of a query mean: lines, words and numbers, as string2ll  *)
(* and sdssplitargs of the middleware server read them.  A byte is a       *)
(* string of one character; offsets are counted from 0, as in the code.    *)
(***************************************************************************)
EXTENDS Integers, FiniteSets, SequencesExt

CR == "\r"
LF == "\n"
DigitValue == [d \in {"0", "1", "2", "3", "4", "5", "6", "7", "8", "9"} |->
  CASE d = "0" -> 0 [] d = "1" -> 1 [] d = "2" -> 2 [] d = "3" -> 3 [] d = "4" -> 4
    [] d = "5" -> 5 [] d = "6" -> 6 [] d = "7" -> 7 [] d = "8" -> 8 [] d = "9" -> 9]

\* The offset of the first byte b of s at or behind an offset, -1 if there is none.
Find(s, b, from) ==
  LET at == SelectInSubSeq(s, from + 1, Len(s), LAMBDA x : x = b) IN at - 1

\* string2ll of some bytes: no sign but a minus, no leading zeros.
Digits(s) == IF s # <<>> /\ s[1] = "-" THEN Tail(s) ELSE s

IsNumber(s) ==
  /\ Digits(s) # <<>>
  /\ Range(Digits(s)) \subseteq DOMAIN DigitValue
  /\ Digits(s)[1] = "0" => Len(s) = 1

Number(s) ==
  LET value == FoldLeft(LAMBDA v, d : 10 * v + DigitValue[d], 0, Digits(s))
  IN IF s[1] = "-" THEN -value ELSE value

\* sdssplitargs: words between blanks; quotes only as far as they are balanced.
Words(line) ==
  LET blank(i) == i \notin DOMAIN line \/ line[i] \in {" ", CR}
      begins == {i \in DOMAIN line : ~blank(i) /\ blank(i - 1)}
      begin(n) == CHOOSE i \in begins : Cardinality({j \in begins : j <= i}) = n
      end(i) == CHOOSE j \in i .. Len(line) : blank(j + 1) /\ \A k \in i .. j : ~blank(k)
  IN [n \in 1 .. Cardinality(begins) |-> SubSeq(line, begin(n), end(begin(n)))]

Unbalanced(line) == Len(SelectSeq(line, LAMBDA b : b = "'")) % 2 = 1
================================================================================
