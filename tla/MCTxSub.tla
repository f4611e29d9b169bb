------------------------------ MODULE MCTxSub ------------------------------
(* Instances of TxSub for TLC: one transaction submitted twice, or a transaction and
   its successor on the same account. *)
EXTENDS TxSub

CONSTANTS r1, r2, t1, t2, a1

MCSubmissions == {[r \in Reqs |-> t1], [r \in Reqs |-> IF r = r1 THEN t1 ELSE t2]}
MCAcctOf == [t \in Txs |-> a1]
MCSeqOf == [t \in Txs |-> IF t = t1 THEN 1 ELSE 2]
=============================================================================
