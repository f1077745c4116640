------------------------------ MODULE SdsRoundTrip -----------------------------
(***************************************************************************)
(* The string library once more, with the functions that put strings       *)
(* together and take them apart.                                           *)
(***************************************************************************)
EXTENDS Sds, SdsFormat

\* Single characters go through sdscatprintf with "\\%c", "%c" or "\\x%02x".
sdscatrepr(h, text) ==
  LET Put(r, b) == IF b \in DOMAIN Escapes THEN sdscatlen(r, Escaped(b))
                   ELSE sdscatprintf(r, Len(Escaped(b)) + 2, Escaped(b))
  IN sdscatlen(FoldLeft(Put, sdscatlen(h, <<DQUOTE>>), text), <<DQUOTE>>)

\* What is put together can be taken apart.  sds.c:1245: what sdscatrepr makes of any
\* bytes, sdssplitargs takes for one argument, those bytes, also behind other arguments.
\* Splitting at a separator and joining with it gives a string back in which neither it
\* nor the separator has a NUL (sds.c:1424: what is joined are C strings); whatever the
\* bytes, no element contains the separator, and the array has room for each of them.
RoundTripInv ==
  LET repr == Content(sdscatrepr(sdsnewlen(<<Letter("a"), SPACE>>), Content(sh))) IN
  /\ sdssplitargs(repr) = [null |-> FALSE, argv |-> <<<<Letter("a")>>, Content(sh)>>]
  /\ \A sep \in Args \ {<<>>} :
       LET split == sdssplitlen(Content(sh), sep) IN
       /\ NUL \notin ToSet(Content(sh)) \union ToSet(sep) =>
            sdsjoin(split.tokens, sep) = Content(sh)
       /\ \A k \in DOMAIN split.tokens : Len(sdssplitlen(split.tokens[k], sep).tokens) <= 1
       /\ Len(split.tokens) <= split.slots
================================================================================
