--------------------------------- MODULE Bytes ---------------------------------
(***************************************************************************)
(* Sequences of bytes, and what the operations of a string library mean on *)
(* them.                                                                   *)
(***************************************************************************)
EXTENDS Integers, SequencesExt

NUL == 0
BEL == 7
BS == 8
TAB == 9
LF == 10
CR == 13
SPACE == 32
DQUOTE == 34
HASH == 35
PERCENT == 37
SQUOTE == 39
PLUS == 43
MINUS == 45
DOT == 46
SLASH == 47
BSLASH == 92

\* strlen stops at the first NUL; the terminator of a string of the library is not
\* part of it.
CString(text) == LET zeros == {i \in DOMAIN text : text[i] = NUL} IN
  IF zeros = {} THEN text ELSE SubSeq(text, 1, Min(zeros) - 1)

\* n as printf's %d prints it.
Digits[n \in Nat] == IF n < 10 THEN <<48 + n>> ELSE Append(Digits[n \div 10], 48 + (n % 10))
Printed(n) == IF n < 0 THEN <<45>> \o Digits[-n] ELSE Digits[n]

\* The bytes from the first to the last that are not in set.  NUL counts as a member
\* of every set (sds.c does not say so, but a set is a C string, and strchr finds its
\* terminator).
Trimmed(text, set) == LET kept == {i \in DOMAIN text : text[i] \notin set \union {NUL}} IN
  IF kept = {} THEN <<>> ELSE SubSeq(text, Min(kept), Max(kept))

\* Index i of a range counts from 0, or from the end if it is negative; an index before
\* the first byte is that of the first byte, for both ends.
Position(text, i) == IF i >= 0 THEN i + 1 ELSE Max({1, Len(text) + i + 1})
Ranged(text, i, j) ==
  SubSeq(text, Position(text, i), Min({Len(text), Position(text, j)}))

LowerCase(b) == IF b \in 65 .. 90 THEN b + 32 ELSE b
UpperCase(b) == IF b \in 97 .. 122 THEN b - 32 ELSE b
==============================================================================
