------------------------------ MODULE ByteString ------------------------------
(***************************************************************************)
(* What a caller of the string library (sds) may rely on: a string is a    *)
(* sequence of bytes of any value, and each call changes it into the       *)
(* sequence described here, however the bytes are kept.                    *)
(***************************************************************************)
EXTENDS Bytes

VARIABLES
  bytes,   (* the string                                                     *)
  call     (* the last call: its name, a text and two numbers, as it needs them *)

After(c, text) ==
  CASE c[1] = "new" -> c[2]
    [] c[1] = "cat" -> text \o c[2]
    [] c[1] = "catstring" -> text \o CString(c[2])
    [] c[1] = "copy" -> c[2]
    [] c[1] = "catnumber" -> text \o Printed(c[3])
    [] c[1] = "same" -> text
    [] c[1] = "clear" -> <<>>
    [] c[1] = "cut" -> CString([text EXCEPT ![c[3]] = NUL])
    [] c[1] = "growzero" -> text \o [i \in 1 .. c[3] - Len(text) |-> NUL]
    [] c[1] = "shorten" -> SubSeq(text, 1, Len(text) - c[3])
    [] c[1] = "trim" -> Trimmed(text, ToSet(c[2]))
    [] c[1] = "range" -> Ranged(text, c[3], c[4])
    [] c[1] = "lower" -> [i \in DOMAIN text |-> LowerCase(text[i])]
    [] c[1] = "upper" -> [i \in DOMAIN text |-> UpperCase(text[i])]
    [] c[1] = "map" -> [i \in DOMAIN text |-> IF text[i] = c[3] THEN c[4] ELSE text[i]]

StringInit == call[1] = "new" /\ bytes = call[2]
StringNext == bytes' = After(call', bytes)
StringSpec == StringInit /\ [][StringNext]_<<bytes, call>>
==============================================================================
