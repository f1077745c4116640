------------------------------- MODULE SdsFormat -------------------------------
(***************************************************************************)
(* The operations of sds.c that take strings apart and put them together,  *)
(* and do not depend on how a string is kept: the splitting of lines into  *)
(* arguments, splitting and joining.                                       *)
(***************************************************************************)
EXTENDS SdsText

CONSTANT
  SLOTS    (* the first size of the array sdssplitlen fills *)

\* sdssplitargs: NULL, or the arguments.  Token reads one at offset p of the line, Blanks
\* what lies before it; `current` is what has been read of it, and quote the quote it
\* is in, NUL for none.
Unbalanced == [null |-> TRUE, argv |-> <<>>]

RECURSIVE Blanks(_, _, _), Token(_, _, _, _, _)
Blanks(line, p, argv) ==
  CASE At(line, p) = NUL -> [null |-> FALSE, argv |-> argv]
    [] isspace(At(line, p)) -> Blanks(line, p + 1, argv)
    [] OTHER -> Token(line, p, NUL, <<>>, argv)
Token(line, p, quote, current, argv) ==
  LET c == At(line, p)
      d == At(line, p + 1)
      Take(b, n) == Token(line, p + n, quote, Append(current, b), argv)
      Done(n) == Blanks(line, p + n, Append(argv, current))
  IN CASE quote = DQUOTE /\ c = BSLASH /\ d = Letter("x")
            /\ is_hex_digit(At(line, p + 2)) /\ is_hex_digit(At(line, p + 3)) ->
            Take(hex_digit_to_int(At(line, p + 2)) * 16 + hex_digit_to_int(At(line, p + 3)), 4)
       [] quote = DQUOTE /\ c = BSLASH /\ d # NUL
            /\ ~(d = Letter("x") /\ is_hex_digit(At(line, p + 2)) /\ is_hex_digit(At(line, p + 3))) ->
            Take(Unescaped(d), 2)
       [] quote = SQUOTE /\ c = BSLASH /\ d = SQUOTE -> Take(SQUOTE, 2)
       [] quote # NUL /\ c = quote -> IF d # NUL /\ ~isspace(d) THEN Unbalanced ELSE Done(1)
       [] quote # NUL /\ c = NUL -> Unbalanced
       [] quote = NUL /\ c = NUL -> Done(0)
       [] quote = NUL /\ c \in {SPACE, LF, CR, TAB} -> Done(1)
       [] quote = NUL /\ c \in {DQUOTE, SQUOTE} -> Token(line, p + 1, c, current, argv)
       [] OTHER -> Take(c, 1)
sdssplitargs(line) == Blanks(line, 0, <<>>)

-------------------------------------------------------------------------------
\* The size of the array when the separator is looked for with n elements found: room
\* for the next one and the last one.
Grown(room, n) == IF room < n + 2 THEN 2 * room ELSE room

\* sdssplitlen from offset j on: `start` is where the current element begins, `tokens`
\* the elements so far and `room` the size of their array.
RECURSIVE SplitFrom(_, _, _, _, _, _)
SplitFrom(text, sep, j, start, tokens, room) ==
  IF j >= Len(text) - (Len(sep) - 1)
  THEN [tokens |-> Append(tokens, SubSeq(text, start + 1, Len(text))), slots |-> room]
  ELSE LET slots == Grown(room, Len(tokens)) IN
       IF SubSeq(text, j + 1, j + Len(sep)) = sep
       THEN SplitFrom(text, sep, j + Len(sep), j + Len(sep),
                      Append(tokens, SubSeq(text, start + 1, j)), slots)
       ELSE SplitFrom(text, sep, j + 1, start, tokens, slots)
sdssplitlen(text, sep) ==
  IF text = <<>> THEN [tokens |-> <<>>, slots |-> SLOTS]
  ELSE SplitFrom(text, sep, 0, 0, <<>>, SLOTS)

sdsjoin(argv, sep) ==
  FoldLeftDomain(LAMBDA join, j : join \o CString(argv[j])
                                   \o (IF j # Len(argv) THEN CString(sep) ELSE <<>>),
                 <<>>, argv)
==============================================================================
