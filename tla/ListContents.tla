----------------------------- MODULE ListContents -----------------------------
(***************************************************************************)
(* What the linked list promises its callers: a list is a sequence of      *)
(* values that grows at both ends or at any place, loses any one element,  *)
(* turns its last element into the first, and can be copied or dropped.    *)
(***************************************************************************)
EXTENDS Naturals, Sequences, SequencesExt

CONSTANTS
  List,     (* the lists a program may create      *)
  Value,    (* what their elements hold            *)
  Absent    (* the contents of a list that is none *)

VARIABLE contents

Longer(s) == {InsertAt(s, i, v) : i \in 1 .. Len(s) + 1, v \in Value}
Shorter(s) == {RemoveAt(s, i) : i \in DOMAIN s}
Turned(s) == IF s = <<>> THEN {s} ELSE {<<Last(s)>> \o Front(s)}

\* What one call may make of list l: a new list is empty or a copy of another.
Successors(before, l) ==
  IF before[l] = Absent
  THEN {<<>>} \union {before[k] : k \in List}
  ELSE Longer(before[l]) \union Shorter(before[l]) \union Turned(before[l]) \union {Absent}

ContentsInit == contents = [l \in List |-> Absent]

\* A call changes one list and no other.
Changes(before, after) ==
  \E l \in List :
    /\ \A k \in List \ {l} : after[k] = before[k]
    /\ after[l] \in Successors(before, l)
ContentsNext == \E before \in {contents}, after \in {contents'} : Changes(before, after)

ContentsSpec == ContentsInit /\ [][ContentsNext]_contents
==============================================================================
