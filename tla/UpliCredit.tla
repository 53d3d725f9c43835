----------------------------- MODULE UpliCredit -----------------------------
(***************************************************************************)
(* Accounts, beats and credit returns of one UPLI channel (upli_credit.py).*)
(* A port has one account per virtual channel and one shared pool; the     *)
(* accounts of a port are numbered as the code numbers its storage, with   *)
(* the pool after the virtual channels.                                    *)
(***************************************************************************)
EXTENDS Naturals, FiniteSets

CONSTANTS
    Ports,      \* the enabled ports of the station
    NumVCs,     \* virtual channels of a port (4)
    MaxBatch,   \* credits one return can carry (4, encoded 0..3)
    Capacity,   \* receiver storage: [Ports -> [Accounts -> Nat]]
    Channel     \* the UPLI channel this instance carries

ASSUME CreditAssumption ==
    /\ NumVCs \in Nat \ {0}
    /\ MaxBatch \in Nat \ {0}
    /\ Capacity \in [Ports -> [0 .. NumVCs -> Nat]]
    /\ Channel \in {"req", "orig_data", "rd_rsp", "wr_rsp"}

VCs      == 0 .. (NumVCs - 1)
Pool     == NumVCs
Accounts == 0 .. NumVCs

\* A beat names its VC also when it uses the pool.
Beat == [port : Ports, vc : VCs, pool : BOOLEAN]
AccountOf(b) == IF b.pool THEN Pool ELSE b.vc

CreditReturn == [port : Ports, vc : VCs, pool : BOOLEAN, count : 1 .. MaxBatch]

\* Returns for request and data channels travel from Completer to Originator.
ReturnConnected(s) ==
    IF Channel \in {"req", "orig_data"}
    THEN s.comp_req /\ s.orig_ack ELSE s.orig_req /\ s.comp_ack

\* How many credits a set of returns brings to an account.
Credited(returns, port, account) ==
    LET mine == {r \in returns : r.port = port /\ AccountOf(r) = account}
    IN  IF mine = {} THEN 0 ELSE (CHOOSE r \in mine : TRUE).count
=============================================================================
