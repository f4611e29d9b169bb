-------------------------- MODULE OrderBookStream --------------------------
(***************************************************************************)
(* OrderBookStream (services/aurora/internal/ingest/orderbook.go) keeps an *)
(* in-memory order book graph in step with the offers table, while         *)
(* OffersProcessor writes that table ledger by ledger, compacts the rows   *)
(* of removed offers, and state rebuilds replace it.                       *)
(*                                                                         *)
(* Update reads in a repeatable-read transaction.  The model splits it at  *)
(* the queries: the status, the offers, the verification.  The graph is    *)
(* the map from offers to amounts that OrderBookGraph is shown to be.      *)
(***************************************************************************)
EXTENDS Integers, Sequences

CONSTANTS
    Offers,                 \* offer ids; an id is never used again
    Amounts,                \* amounts an offer may have
    offerCompactionWindow,  \* 100 in the code
    MaxLedger,              \* bound on ledgers
    MaxBuilds,              \* bound on state builds, the first one included
    MaxFaults               \* bound on failed queries and invalid states

ASSUME StreamAssumption ==
    /\ Amounts \subseteq Nat \ {0}
    /\ offerCompactionWindow \in Nat \ {0}
    /\ MaxLedger \in Nat \ {0} /\ MaxBuilds \in Nat /\ MaxFaults \in Nat

VARIABLES
    net,            \* net[l][o]: amount of o in ledger l and the ledger that set it
    (* The Aurora database. *)
    rows,           \* the offers table
    lastIngested,   \* exp_ingest_last_ledger
    lastHistory,    \* latest row of history_ledgers
    compaction,     \* offer_compaction_sequence
    stateInvalid,   \* exp_state_invalid
    builds,         \* state builds so far
    builtAt,        \* the ledger of the last one (history variable)
    (* The stream. *)
    graph,          \* offers in the graph, 0 for none
    graphLedger,    \* OrderBookGraph.lastLedger
    lastLedger,     \* OrderBookStream.lastLedger
    pc,             \* where Update is
    snap,           \* what its transaction sees
    rebuilt,        \* a rebuild since the stream last began anew (history variable)
    faults

dbVars == <<net, rows, lastIngested, lastHistory, compaction, stateInvalid, builds, builtAt>>
streamVars == <<graph, graphLedger, lastLedger, pc, snap, rebuilt>>
vars == <<dbVars, streamVars, faults>>

Entry == [amount : Amounts \cup {0}, modified : 0..MaxLedger]
Row == [present : BOOLEAN, deleted : BOOLEAN, amount : Amounts \cup {0}, modified : 0..MaxLedger]
NoRow == [present |-> FALSE, deleted |-> FALSE, amount |-> 0, modified |-> 0]

Tables == [ledger : 0..MaxLedger, rows : [Offers -> Row]]
EmptyTable == [o \in Offers |-> NoRow]
EmptyGraph == [o \in Offers |-> 0]

(* Types; the compaction ledger in particular is never computed below zero. *)
TypeOK ==
    /\ net \in Seq([Offers -> Entry]) /\ Len(net) <= MaxLedger
    /\ rows \in [Offers -> Row]
    /\ {lastIngested, lastHistory, compaction, builtAt, graphLedger, lastLedger} \subseteq 0..MaxLedger
    /\ stateInvalid \in BOOLEAN
    /\ builds \in 0..MaxBuilds
    /\ graph \in [Offers -> Amounts \cup {0}]
    /\ pc \in {"idle", "load", "apply", "verify"}
    /\ snap \in Tables
    /\ rebuilt \in BOOLEAN
    /\ faults \in 0..MaxFaults

Init ==
    /\ net = << [o \in Offers |-> [amount |-> 0, modified |-> 0]] >>
    /\ rows = EmptyTable
    /\ lastIngested = 0 /\ lastHistory = 0 /\ compaction = 0
    /\ stateInvalid = FALSE
    /\ builds = 0 /\ builtAt = 0
    /\ graph = EmptyGraph
    /\ graphLedger = 0 /\ lastLedger = 0
    /\ pc = "idle"
    /\ snap = [ledger |-> 0, rows |-> EmptyTable]
    /\ rebuilt = FALSE
    /\ faults = 0

-----------------------------------------------------------------------------
(* The network and ingestion.                                              *)

Latest == Len(net)

(* One more ledger: nothing, or the creation, update or removal of one offer. *)
NextLedger ==
    LET seq == Latest + 1
        Set(o, a) == [net[Latest] EXCEPT ![o] = [amount |-> a, modified |-> seq]]
    IN {net[Latest]}
       \cup {Set(o, a) : o \in {x \in Offers : net[Latest][x].modified = 0}, a \in Amounts}
       \cup {Set(o, a) : o \in {x \in Offers : net[Latest][x].amount # 0}, a \in Amounts \cup {0}}

(* Mutant of CompactOffers: every removed row is forgotten. *)
CompactOffersAll(table, cutOff) ==
    [o \in Offers |-> IF table[o].deleted THEN NoRow ELSE table[o]]

(* CompactOffers: rows removed at or before the cut-off are forgotten. *)
CompactOffers(table, cutOff) ==
    [o \in Offers |-> IF table[o].deleted /\ table[o].modified <= cutOff THEN NoRow ELSE table[o]]

(* OffersProcessor.flushCache on the changes of ledger seq. *)
FlushCache(table, offers, seq) ==
    [o \in Offers |->
        IF offers[o].modified # seq THEN table[o]
        ELSE IF offers[o].amount = 0
        THEN [table[o] EXCEPT !.deleted = TRUE, !.modified = seq]
        ELSE [present |-> TRUE, deleted |-> FALSE, amount |-> offers[o].amount, modified |-> seq]]

(* Mutant of OffersCommit: compaction from the first ledger on. *)
OffersCommitUnguarded(table, seq) ==
    /\ rows' = CompactOffers(table, seq - offerCompactionWindow)
    /\ compaction' = seq - offerCompactionWindow

(* OffersProcessor.Commit: the table and the compaction sequence. *)
OffersCommit(table, seq) ==
    IF seq > offerCompactionWindow
    THEN /\ rows' = CompactOffers(table, seq - offerCompactionWindow)
         /\ compaction' = seq - offerCompactionWindow
    ELSE rows' = table /\ UNCHANGED compaction

(* A ledger is closed and ingested live (resumeState). *)
IngestLedger ==
    /\ lastIngested > 0 /\ lastIngested = Latest /\ Latest < MaxLedger
    /\ lastHistory \in {0, lastIngested}
    /\ \E offers \in NextLedger :
          /\ net' = Append(net, offers)
          /\ OffersCommit(FlushCache(rows, offers, Latest + 1), Latest + 1)
    /\ lastIngested' = Latest + 1 /\ lastHistory' = Latest + 1
    /\ UNCHANGED <<stateInvalid, builds, builtAt, streamVars, faults>>

(* A new version catches history up first (historyRangeState). *)
CatchUp ==
    /\ builds > 0 /\ builds < MaxBuilds /\ Latest < MaxLedger
    /\ \E offers \in NextLedger : net' = Append(net, offers)
    /\ lastHistory' = Latest + 1
    /\ UNCHANGED <<rows, lastIngested, compaction, stateInvalid, builds, builtAt, streamVars, faults>>

(* buildState: TRUNCATE and the offers of the archive, then the processor's
   Commit.  TRUNCATE is not MVCC-safe: a transaction that took its snapshot before
   finds the table empty. *)
Build ==
    /\ builds < MaxBuilds
    /\ builds = 0 \/ lastHistory = Latest
    /\ OffersCommit([o \in Offers |->
          IF net[Latest][o].amount = 0 THEN NoRow
          ELSE [present |-> TRUE, deleted |-> FALSE, amount |-> net[Latest][o].amount,
                modified |-> net[Latest][o].modified]], Latest)
    /\ lastIngested' = Latest
    /\ stateInvalid' = FALSE
    /\ builds' = builds + 1 /\ builtAt' = Latest
    /\ snap' = [snap EXCEPT !.rows = EmptyTable]
    /\ rebuilt' = TRUE
    /\ UNCHANGED <<net, lastHistory, graph, graphLedger, lastLedger, pc, faults>>

(* markStateInvalid. *)
MarkStateInvalid ==
    /\ faults < MaxFaults /\ lastIngested > 0 /\ ~stateInvalid
    /\ stateInvalid' = TRUE
    /\ faults' = faults + 1
    /\ UNCHANGED <<net, rows, lastIngested, lastHistory, compaction, builds, builtAt, streamVars>>

-----------------------------------------------------------------------------
(* OrderBookStream.Update                                                  *)

(* HistoryConsistentWithState of getIngestionStatus. *)
HistoryConsistentWithState == lastHistory \in {0, lastIngested}

GetAllOffers(table) == [o \in Offers |-> IF table[o].present /\ ~table[o].deleted
                                         THEN table[o].amount ELSE 0]

(* GetUpdatedOffers after a ledger, applied to the graph. *)
ApplyUpdates(table, newerThan) ==
    [o \in Offers |-> IF table[o].present /\ table[o].modified > newerThan
                      THEN (IF table[o].deleted THEN 0 ELSE table[o].amount)
                      ELSE graph[o]]

(* Mutant of MustReset: no comparison with the compaction ledger. *)
MustResetIgnoringCompaction ==
    \/ lastLedger = 0
    \/ stateInvalid
    \/ ~HistoryConsistentWithState
    \/ lastIngested < lastLedger

MustReset ==
    \/ lastLedger = 0
    \/ stateInvalid
    \/ ~HistoryConsistentWithState
    \/ lastIngested < lastLedger
    \/ lastLedger > 0 /\ lastLedger < compaction

(* The transaction begins and reads the status; a reset clears the graph at once. *)
UpdateBegin ==
    /\ pc = "idle"
    /\ snap' = [ledger |-> lastIngested, rows |-> rows]
    /\ \/ /\ MustReset
          /\ graph' = EmptyGraph /\ graphLedger' = 0 /\ lastLedger' = 0
          /\ pc' = IF stateInvalid \/ ~HistoryConsistentWithState THEN "idle" ELSE "load"
          /\ rebuilt' = FALSE
       \/ /\ ~MustReset
          /\ pc' = IF lastIngested = lastLedger THEN "verify" ELSE "apply"
          /\ UNCHANGED <<graph, graphLedger, lastLedger, rebuilt>>
    /\ UNCHANGED <<dbVars, faults>>

(* OrderBookGraph.Apply under its lock: readers see the whole batch or nothing. *)
Apply(offers) ==
    IF graphLedger > 0 /\ snap.ledger <= graphLedger   \* errUnexpectedLedger
    THEN pc' = "idle" /\ UNCHANGED <<graph, graphLedger, lastLedger>>
    ELSE /\ graph' = offers
         /\ graphLedger' = snap.ledger /\ lastLedger' = snap.ledger
         /\ pc' = IF pc = "load" THEN "idle" ELSE "verify"

UpdateLoad ==
    /\ pc = "load"
    /\ Apply(GetAllOffers(snap.rows))
    /\ UNCHANGED <<dbVars, snap, rebuilt, faults>>

UpdateApply ==
    /\ pc = "apply"
    /\ Apply(ApplyUpdates(snap.rows, lastLedger))
    /\ UNCHANGED <<dbVars, snap, rebuilt, faults>>

(* The query fails; the deferred Discard drops the batch. *)
UpdateError ==
    /\ pc \in {"load", "apply"} /\ faults < MaxFaults
    /\ pc' = "idle" /\ faults' = faults + 1
    /\ UNCHANGED <<dbVars, graph, graphLedger, lastLedger, snap, rebuilt>>

(* Mutant of VerifyAllOffers: a mismatch is only logged. *)
VerifyAllOffersLogged ==
    /\ pc = "verify"
    /\ pc' = "idle"
    /\ UNCHANGED <<dbVars, graph, graphLedger, lastLedger, snap, rebuilt, faults>>

(* verifyAllOffers, about once an hour: a mismatch makes the next Update reset. *)
VerifyAllOffers ==
    /\ pc = "verify"
    /\ lastLedger' = IF lastLedger > 0 /\ graph # GetAllOffers(snap.rows) THEN 0 ELSE lastLedger
    /\ pc' = "idle"
    /\ UNCHANGED <<dbVars, graph, graphLedger, snap, rebuilt, faults>>

VerificationNotDue ==
    /\ pc = "verify"
    /\ pc' = "idle"
    /\ UNCHANGED <<dbVars, graph, graphLedger, lastLedger, snap, rebuilt, faults>>

-----------------------------------------------------------------------------
Update == UpdateBegin \/ UpdateLoad \/ UpdateApply

Next ==
    \/ IngestLedger \/ CatchUp \/ Build \/ MarkStateInvalid
    \/ Update \/ UpdateError \/ VerifyAllOffers \/ VerificationNotDue

Spec == Init /\ [][Next]_vars

(* The ticker of Run calls Update for ever; a verification becomes due again and
   again (strong fairness: an Update may not reach it, or find it not due). *)
FairSpec == Spec /\ WF_vars(Update) /\ WF_vars(VerificationNotDue) /\ SF_vars(VerifyAllOffers)

-----------------------------------------------------------------------------
(* Properties.                                                             *)

OffersOf(l) == [o \in Offers |-> net[l][o].amount]

Accurate == graph = IF graphLedger = 0 THEN EmptyGraph ELSE OffersOf(graphLedger)

(* Path finding and order book requests see exactly the offers of the ledger the
   graph reports, or an empty graph that reports none: "the in memory order book
   graph should be consistent with the Aurora DB".  Nothing but a state rebuild
   since the stream last began anew can make it differ. *)
GraphIsLedger == rebuilt \/ Accurate

(* The offers table never loses a removal that a stream between the compaction
   ledger, or the build, and the last ingested ledger still has to learn of: applying
   the rows newer than l to the offers of l gives the offers of the last one. *)
TableHoldsUpdates ==
    lastIngested > 0 =>
        \A l \in builtAt..lastIngested : l >= compaction =>
            \A o \in Offers :
                (IF rows[o].present /\ rows[o].modified > l
                 THEN (IF rows[o].deleted THEN 0 ELSE rows[o].amount)
                 ELSE net[l][o].amount) = net[lastIngested][o].amount

(* However the stream missed a rebuild, it ends with the offers of the database,
   or cleared while the state is not usable. *)
StreamHeals ==
    <>[](IF stateInvalid \/ ~HistoryConsistentWithState
         THEN graphLedger = 0 /\ graph = EmptyGraph
         ELSE graphLedger = lastIngested /\ Accurate)
=============================================================================
