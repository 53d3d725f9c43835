----------------------- MODULE MCKDGlobalTransactions -----------------------
(* Instances of KDGlobalTransactions: one transaction of another source. *)
EXTENDS KDGlobalTransactions
OneOther == {[source |-> "other", id |-> 0]}
=============================================================================
