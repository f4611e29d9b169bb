----------------------------- MODULE OfferBook -----------------------------
(***************************************************************************)
(* What an order book graph promises: a map from offer ids to offers as of *)
(* a ledger, changed by whole batches.  In a batch the last word on an     *)
(* offer counts.                                                           *)
(***************************************************************************)
EXTENDS Naturals

CONSTANTS
    Ids,        \* offer ids
    Entry,      \* offers; e.id is an offer's id
    None,       \* no offer
    MaxLedger

VARIABLES
    offers,     \* offers[i]: the offer, or None
    ledger,     \* 0: the book is empty and accurate for no ledger
    pending     \* pending[i]: {} or the set of the offer (or None) to become current

Nothing == [i \in Ids |-> {}]

Init == offers = [i \in Ids |-> None] /\ ledger = 0 /\ pending = Nothing

Queue(i, e) ==
    /\ pending' = [pending EXCEPT ![i] = {e}]
    /\ UNCHANGED <<offers, ledger>>

Discard == pending' = Nothing /\ UNCHANGED <<offers, ledger>>

Apply(l) ==
    /\ ledger = 0 \/ l > ledger
    /\ offers' = [i \in Ids |-> IF pending[i] = {} THEN offers[i] ELSE CHOOSE e \in pending[i] : TRUE]
    /\ ledger' = l
    /\ pending' = Nothing

Clear ==
    /\ offers' = [i \in Ids |-> None] /\ ledger' = 0 /\ pending' = Nothing

Next ==
    \/ \E e \in Entry : Queue(e.id, e)
    \/ \E i \in Ids : Queue(i, None)
    \/ \E l \in 0..MaxLedger : Apply(l)
    \/ Discard \/ Clear

Spec == Init /\ [][Next]_<<offers, ledger, pending>>
=============================================================================
