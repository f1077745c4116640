--------------------------- MODULE MCClientLifecycle ---------------------------
(* Three connections, two descriptors' worth of clients.                   *)
EXTENDS ClientLifecycle

CONSTANTS c1, c2, c3     \* connections

MCConns == {c1, c2, c3}
MCMaxSend == c1 :> 2 @@ c2 :> 1 @@ c3 :> 0
MCLeaves == c1 :> {} @@ c2 :> {"fin", "rst"} @@ c3 :> {}
================================================================================
