-------------------------- MODULE MCKDReliableLink --------------------------
(* Instances of KDReliableLink: packets of two flits, and of one. *)
EXTENDS KDReliableLink
TwoFlits == <<2, 2, 2>>
OneFlit  == <<1, 1, 1>>
=============================================================================
