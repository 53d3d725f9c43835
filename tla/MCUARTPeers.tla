---------------------------- MODULE MCUARTPeers -----------------------------
(* Two ends; in the larger instance both of them reset their stream. *)
EXTENDS UARTPeers
CONSTANTS A, B
ThreeWords == [e \in End |-> IF e = A THEN 3 ELSE 0]
BothReset  == [e \in End |-> 1]
OneWord    == [e \in End |-> IF e = A THEN 0 ELSE 1]
OneResets  == [e \in End |-> IF e = A THEN 1 ELSE 0]
=============================================================================
