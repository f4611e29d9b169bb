---------------------------- MODULE MCIngestion ----------------------------
(* Instances of Ingestion for TLC. *)
EXTENDS Ingestion

CONSTANTS n1, n2, n3

ProcsOne == {n1}
ProcsTwo == {n1, n2}
ProcsThree == {n1, n2, n3}

SameVersion == [p \in Procs |-> 1]
RollingUpgrade == [p \in Procs |-> IF p = n1 THEN 1 ELSE 2]

(* Every process ingests. *)
AllRun == [p \in Procs |-> {start}]

(* n1 ingests; the other processes ingest or are commands run beside it. *)
WithCommands == [p \in Procs |->
    IF p = n1 THEN {start}
    ELSE {start, buildGenesis, reingestHistoryRange(3, 4, FALSE), reingestHistoryRange(1, 4, TRUE),
          reingestHistoryRange(4, 3, FALSE), reingestHistoryRange(1, 1, TRUE)}]
=============================================================================
