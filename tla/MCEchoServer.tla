----------------------------- MODULE MCEchoServer -----------------------------
(* Three connections, of which a table of three slots can hold two; one    *)
(* client sends more than a unit, one sends one, and one sends nothing.    *)
EXTENDS EchoServer, TLC

CONSTANTS c1, c2, c3     \* connections

MCConns == {c1, c2, c3}
MCMaxSend == c1 :> 2 @@ c2 :> 1 @@ c3 :> 0
===============================================================================
