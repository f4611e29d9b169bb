------------------------------ MODULE Durable ------------------------------
(***************************************************************************)
(* What ingestion promises of the database its readers see, whatever the   *)
(* processes of the cluster do in between: the abstract specification that *)
(* Ingestion implements.  The committed values change in five ways only.   *)
(***************************************************************************)
EXTENDS Integers

CONSTANTS MaxLedger, Versions

VARIABLES lastIngested, ingestVersion, history

durableVars == <<lastIngested, ingestVersion, history>>

Rows == {l \in 1..MaxLedger : history[l] # "none"}

Written(f, t, kind) == [l \in 1..MaxLedger |-> IF l \in f..t THEN kind ELSE history[l]]

DurableInit ==
    /\ lastIngested \in 0..MaxLedger
    /\ ingestVersion \in Versions \cup {0}
    /\ history \in [1..MaxLedger -> {"none", "live", "reingested"}]

(* The state is given up, to be built again. *)
Reset ==
    /\ lastIngested' = 0
    /\ UNCHANGED <<ingestVersion, history>>

(* A state is built where there is none of that version. *)
Build(l, v) ==
    /\ lastIngested = 0 \/ ingestVersion # v
    /\ lastIngested' = l
    /\ ingestVersion' = v
    /\ UNCHANGED history

(* The next ledger enters state and history together, directly on top of the
   history there is. *)
Ingest ==
    /\ lastIngested > 0
    /\ \A r \in Rows : r <= lastIngested
    /\ Rows # {} => lastIngested \in Rows
    /\ lastIngested' = lastIngested + 1
    /\ history' = Written(lastIngested + 1, lastIngested + 1, "live")
    /\ UNCHANGED ingestVersion

(* History alone is caught up, directly on top of the history there is. *)
CatchUp(f, t) ==
    /\ f > 1 => f - 1 \in Rows
    /\ \A r \in Rows : r < f
    /\ history' = Written(f, t, "live")
    /\ UNCHANGED <<lastIngested, ingestVersion>>

(* Ledgers below the top of history are written again. *)
Reingest(f, t) ==
    /\ \E r \in Rows : t <= r
    /\ history' = Written(f, t, "reingested")
    /\ UNCHANGED <<lastIngested, ingestVersion>>

DurableNext ==
    \/ Reset
    \/ \E l \in 1..MaxLedger, v \in Versions : Build(l, v)
    \/ Ingest
    \/ \E f, t \in 1..MaxLedger : CatchUp(f, t) \/ Reingest(f, t)

DurableSpec == DurableInit /\ [][DurableNext]_durableVars
=============================================================================
