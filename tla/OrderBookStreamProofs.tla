----------------------- MODULE OrderBookStreamProofs -----------------------
(***************************************************************************)
(* Proofs about OrderBookStream for any number of offers, ledgers, state   *)
(* builds and faults, and any compaction window.                           *)
(***************************************************************************)
EXTENDS OrderBookStream, TLAPS

(* An offer is what it was when it was last modified, and has no amount before it
   exists. *)
NetInv ==
    /\ Len(net) >= 1
    /\ \A l \in 1..Len(net) : \A o \in Offers :
          net[l][o].modified <= l /\ (net[l][o].modified = 0 => net[l][o].amount = 0)
    /\ \A l, m \in 1..Len(net) : \A o \in Offers :
          l <= m /\ net[m][o].modified <= l => net[l][o] = net[m][o]

(* The ledgers the database speaks of, and how far compaction stays behind. *)
LedgersInv ==
    /\ lastIngested <= Len(net) /\ builtAt <= lastIngested /\ (lastIngested > 0 => builtAt > 0)
    /\ compaction = 0 \/ compaction + offerCompactionWindow <= lastIngested

(* Row of an offer and entry of the last ingested ledger: the row of an offer that is
   there is never missing, and a removal is missing only if the build came after it or
   compaction took it. *)
Fits(row, entry) ==
    /\ row.present => /\ row.modified = entry.modified
                      /\ row.deleted <=> entry.amount = 0
                      /\ ~row.deleted => row.amount = entry.amount
    /\ ~row.present => entry.amount = 0 /\ (entry.modified <= builtAt \/ entry.modified <= compaction)

RowInv ==
    /\ lastIngested = 0 => rows = EmptyTable
    /\ lastIngested > 0 => \A o \in Offers : Fits(rows[o], net[lastIngested][o])

(* The amount of an offer after GetUpdatedOffers from ledger l on. *)
Updated(row, l, amount) ==
    IF row.present /\ row.modified > l THEN (IF row.deleted THEN 0 ELSE row.amount) ELSE amount

(* What Update is about to apply, unless the state was rebuilt meanwhile. *)
SnapInv ==
    /\ pc \in {"load", "apply"} /\ snap.ledger > 0 => builtAt <= snap.ledger
    /\ pc = "load" =>
          GetAllOffers(snap.rows) = IF snap.ledger = 0 THEN EmptyGraph ELSE OffersOf(snap.ledger)
    /\ pc = "apply" =>
          /\ lastLedger > 0 /\ snap.ledger > 0
          /\ \A o \in Offers : Updated(snap.rows[o], lastLedger, net[lastLedger][o].amount)
                               = net[snap.ledger][o].amount

StreamInv ==
    /\ snap.ledger <= Len(net) /\ graphLedger <= Len(net)
    /\ lastLedger \in {0, graphLedger}
    /\ ~rebuilt => Accurate /\ (lastLedger > 0 => builtAt <= lastLedger) /\ SnapInv

(* The inductive invariant. *)
IInv == TypeOK /\ NetInv /\ LedgersInv /\ RowInv /\ StreamInv

-----------------------------------------------------------------------------
(* Types.                                                                  *)

LEMMA NetTypes ==
    ASSUME TypeOK
    PROVE  /\ Len(net) \in Nat /\ DOMAIN net = 1..Len(net)
           /\ \A l \in 1..Len(net) : net[l] \in [Offers -> Entry]
           /\ \A l \in 1..Len(net) : \A o \in Offers :
                 net[l][o] \in Entry /\ net[l][o].amount \in Amounts \cup {0} /\ net[l][o].modified \in Nat
  <1>1. net \in Seq([Offers -> Entry])
    BY DEF TypeOK
  <1>2. Len(net) \in Nat /\ DOMAIN net = 1..Len(net) /\ \A l \in 1..Len(net) : net[l] \in [Offers -> Entry]
    BY <1>1
  <1>3. \A e \in Entry : e.amount \in Amounts \cup {0} /\ e.modified \in Nat
    BY StreamAssumption DEF Entry
  <1> QED BY <1>2, <1>3

LEMMA LedgerTypes ==
    ASSUME TypeOK
    PROVE  /\ lastIngested \in Nat /\ lastHistory \in Nat /\ compaction \in Nat /\ builtAt \in Nat
           /\ graphLedger \in Nat /\ lastLedger \in Nat /\ snap.ledger \in Nat
           /\ offerCompactionWindow \in Nat \ {0} /\ MaxLedger \in Nat
           /\ \A o \in Offers : rows[o] \in Row /\ rows[o].modified \in Nat
  <1>1. \A r \in Row : r.modified \in Nat
    BY StreamAssumption DEF Row
  <1>2. \A o \in Offers : rows[o] \in Row
    BY DEF TypeOK
  <1> QED BY <1>1, <1>2, StreamAssumption DEF TypeOK, Tables

-----------------------------------------------------------------------------
(* What the database invariants say of reads.                              *)

(* All the offers of the table are the offers of the last ingested ledger. *)
LEMMA AllOffersAreLedger ==
    ASSUME TypeOK, LedgersInv, RowInv
    PROVE  GetAllOffers(rows) = IF lastIngested = 0 THEN EmptyGraph ELSE OffersOf(lastIngested)
  <1>1. CASE lastIngested = 0
    BY <1>1 DEF RowInv, EmptyTable, NoRow, GetAllOffers, EmptyGraph
  <1>2. CASE lastIngested # 0
    <2>1. lastIngested > 0
      BY <1>2, LedgerTypes
    <2>2. \A o \in Offers : (IF rows[o].present /\ ~rows[o].deleted THEN rows[o].amount ELSE 0)
                            = net[lastIngested][o].amount
      BY <2>1, LedgerTypes DEF RowInv, Fits, Row
    <2> QED BY <1>2, <2>2 DEF GetAllOffers, OffersOf
  <1> QED BY <1>1, <1>2

(* The rows newer than a ledger that is neither before the build nor behind compaction
   are all that changed since. *)
LEMMA UpdatesAreComplete ==
    ASSUME TypeOK, NetInv, LedgersInv, RowInv, lastIngested > 0,
           NEW l \in builtAt..lastIngested, l >= compaction, NEW o \in Offers
    PROVE  Updated(rows[o], l, net[l][o].amount) = net[lastIngested][o].amount
  <1>1. /\ l \in 1..Len(net) /\ lastIngested \in 1..Len(net) /\ l <= lastIngested
        /\ builtAt <= l /\ compaction <= l /\ builtAt \in Nat /\ compaction \in Nat /\ l \in Nat
    BY LedgerTypes, NetTypes DEF LedgersInv
  <1>2. Fits(rows[o], net[lastIngested][o])
    BY DEF RowInv
  <1>3. net[lastIngested][o].modified \in Nat
    BY <1>1, NetTypes
  <1>4. net[lastIngested][o].modified <= l => net[l][o] = net[lastIngested][o]
    BY <1>1 DEF NetInv
  <1>5. rows[o].present \in BOOLEAN /\ rows[o].deleted \in BOOLEAN
    BY LedgerTypes DEF Row
  <1>6. CASE rows[o].present /\ rows[o].modified > l
    BY <1>2, <1>5, <1>6 DEF Fits, Updated
  <1>7. CASE rows[o].present /\ ~(rows[o].modified > l)
    BY <1>1, <1>2, <1>3, <1>4, <1>7 DEF Fits, Updated
  <1>8. CASE ~rows[o].present
    BY <1>1, <1>2, <1>3, <1>4, <1>8 DEF Fits, Updated
  <1> QED BY <1>5, <1>6, <1>7, <1>8

LEMMA TableHolds == IInv => TableHoldsUpdates
  <1> SUFFICES ASSUME IInv, lastIngested > 0, NEW l \in builtAt..lastIngested, l >= compaction,
                      NEW o \in Offers
               PROVE  (IF rows[o].present /\ rows[o].modified > l
                       THEN (IF rows[o].deleted THEN 0 ELSE rows[o].amount)
                       ELSE net[l][o].amount) = net[lastIngested][o].amount
    BY DEF TableHoldsUpdates
  <1> QED BY UpdatesAreComplete DEF IInv, Updated

-----------------------------------------------------------------------------
(* A new ledger.                                                           *)

(* What a ledger may change. *)
LEMMA NextLedgerFacts ==
    ASSUME IInv, NEW offers \in NextLedger, Len(net) < MaxLedger
    PROVE  /\ offers \in [Offers -> Entry]
           /\ \A o \in Offers :
                 \/ offers[o] = net[Len(net)][o]
                 \/ /\ offers[o].modified = Len(net) + 1
                    /\ offers[o].amount = 0 => net[Len(net)][o].amount # 0
  <1> DEFINE L == Len(net)
             Set(o, a) == [net[L] EXCEPT ![o] = [amount |-> a, modified |-> L + 1]]
  <1>1. L \in Nat /\ L \in 1..Len(net) /\ net[L] \in [Offers -> Entry]
    BY NetTypes DEF IInv, NetInv
  <1>2. L + 1 \in 0..MaxLedger
    BY <1>1, StreamAssumption
  <1>3. CASE offers = net[L]
    BY <1>1, <1>3
  <1>4. CASE \E o \in Offers, a \in Amounts \cup {0} :
               offers = Set(o, a) /\ (a = 0 => net[L][o].amount # 0)
    <2>1. PICK o \in Offers, a \in Amounts \cup {0} :
               offers = Set(o, a) /\ (a = 0 => net[L][o].amount # 0)
      BY <1>4
    <2>2. [amount |-> a, modified |-> L + 1] \in Entry
      BY <1>2 DEF Entry
    <2>3. offers \in [Offers -> Entry]
      BY <1>1, <2>1, <2>2
    <2>4. \A x \in Offers : offers[x] = IF x = o THEN [amount |-> a, modified |-> L + 1] ELSE net[L][x]
      BY <1>1, <2>1
    <2> QED BY <2>1, <2>3, <2>4
  <1>5. 0 \notin Amounts
    BY StreamAssumption
  <1> QED BY <1>3, <1>4, <1>5 DEF NextLedger, Latest

(* The ledgers before it stay as they are. *)
LEMMA AppendKeeps ==
    ASSUME IInv, NEW offers \in NextLedger, Len(net) < MaxLedger, net' = Append(net, offers)
    PROVE  /\ net' \in Seq([Offers -> Entry]) /\ Len(net') = Len(net) + 1 /\ Len(net') <= MaxLedger
           /\ \A l \in 1..Len(net) : net'[l] = net[l]
           /\ net'[Len(net) + 1] = offers
           /\ NetInv'
  <1>1. offers \in [Offers -> Entry] /\ net \in Seq([Offers -> Entry]) /\ Len(net) \in Nat
    BY NextLedgerFacts, NetTypes DEF IInv, TypeOK
  <1>2. /\ net' \in Seq([Offers -> Entry]) /\ Len(net') = Len(net) + 1
        /\ \A l \in 1..Len(net) : net'[l] = net[l]
        /\ net'[Len(net) + 1] = offers
    BY <1>1
  <1>3. Len(net') <= MaxLedger
    BY <1>1, <1>2, StreamAssumption
  <1>4. \A o \in Offers : \/ offers[o] = net[Len(net)][o]
                          \/ offers[o].modified = Len(net) + 1
    BY NextLedgerFacts
  <1>5. Len(net) >= 1 /\ Len(net) \in 1..Len(net)
    BY <1>1 DEF IInv, NetInv
  <1>6. ASSUME NEW l \in 1..Len(net'), NEW o \in Offers
        PROVE  net'[l][o].modified <= l /\ (net'[l][o].modified = 0 => net'[l][o].amount = 0)
    <2>1. CASE l \in 1..Len(net)
      BY <1>2, <2>1 DEF IInv, NetInv
    <2>2. CASE l = Len(net) + 1
      <3>1. net[Len(net)][o].modified \in Nat /\ net[Len(net)][o].modified <= Len(net)
            /\ (net[Len(net)][o].modified = 0 => net[Len(net)][o].amount = 0)
        BY <1>5, NetTypes DEF IInv, NetInv
      <3> QED BY <1>1, <1>2, <1>4, <2>2, <3>1
    <2> QED BY <1>1, <1>2, <2>1, <2>2
  <1>7. ASSUME NEW l \in 1..Len(net'), NEW m \in 1..Len(net'), NEW o \in Offers,
               l <= m, net'[m][o].modified <= l
        PROVE  net'[l][o] = net'[m][o]
    <2>1. CASE m \in 1..Len(net)
      <3>1. l \in 1..Len(net)
        BY <1>1, <1>2, <1>7, <2>1
      <3> QED BY <1>2, <1>7, <2>1, <3>1 DEF IInv, NetInv
    <2>2. CASE m = Len(net) + 1 /\ l = Len(net) + 1
      BY <2>2
    <2>3. CASE m = Len(net) + 1 /\ l \in 1..Len(net)
      <3>1. offers[o] = net[Len(net)][o]
        BY <1>1, <1>2, <1>4, <1>7, <2>3
      <3>2. net[l][o] = net[Len(net)][o]
        BY <1>1, <1>2, <1>5, <1>7, <2>3, <3>1 DEF IInv, NetInv
      <3> QED BY <1>2, <2>3, <3>1, <3>2
    <2> QED BY <1>1, <1>2, <2>1, <2>2, <2>3
  <1>8. NetInv'
    BY <1>1, <1>2, <1>6, <1>7 DEF NetInv
  <1> QED BY <1>2, <1>3, <1>8

(* A step that only adds ledgers to net leaves the stream as it was. *)
LEMMA StreamKept ==
    ASSUME IInv, UNCHANGED <<streamVars, builtAt>>, Len(net') \in Nat, Len(net) <= Len(net'),
           \A l \in 1..Len(net) : net'[l] = net[l]
    PROVE  StreamInv'
  <1> USE DEF IInv
  <1>1. UNCHANGED <<graph, graphLedger, lastLedger, pc, snap, rebuilt, builtAt>>
    BY DEF streamVars
  <1>2. Len(net) \in Nat /\ snap.ledger \in Nat /\ graphLedger \in Nat /\ lastLedger \in Nat
    BY NetTypes, LedgerTypes
  <1>3. /\ snap.ledger # 0 => snap.ledger \in 1..Len(net)
        /\ graphLedger # 0 => graphLedger \in 1..Len(net)
        /\ lastLedger > 0 => lastLedger \in 1..Len(net)
    BY <1>2 DEF StreamInv
  <1>4. \A l \in 1..Len(net) : OffersOf(l)' = OffersOf(l)
    BY DEF OffersOf
  <1>5. Accurate => Accurate'
    BY <1>1, <1>3, <1>4 DEF Accurate, EmptyGraph
  <1>6. SnapInv => SnapInv'
    <2>1. ASSUME SnapInv, pc = "load"
          PROVE  GetAllOffers(snap.rows)' = IF snap'.ledger = 0 THEN EmptyGraph ELSE OffersOf(snap.ledger)'
      <3>1. GetAllOffers(snap.rows)' = GetAllOffers(snap.rows)
        BY <1>1 DEF GetAllOffers
      <3>2. CASE snap.ledger = 0
        BY <1>1, <2>1, <3>1, <3>2 DEF SnapInv
      <3>3. CASE snap.ledger # 0
        <4>1. OffersOf(snap.ledger)' = OffersOf(snap.ledger)
          BY <1>1, <1>3, <3>3 DEF OffersOf
        <4> QED BY <1>1, <2>1, <3>1, <3>3, <4>1 DEF SnapInv
      <3> QED BY <3>2, <3>3
    <2>2. ASSUME SnapInv, pc = "apply", NEW o \in Offers
          PROVE  Updated(snap'.rows[o], lastLedger', net'[lastLedger'][o].amount)
                 = net'[snap'.ledger][o].amount
      <3>1. lastLedger \in 1..Len(net) /\ snap.ledger \in 1..Len(net)
        BY <1>2, <1>3, <2>2 DEF SnapInv
      <3>2. net'[lastLedger'] = net[lastLedger] /\ net'[snap'.ledger] = net[snap.ledger]
        BY <1>1, <3>1
      <3> QED BY <1>1, <2>2, <3>2 DEF SnapInv
    <2>3. ASSUME SnapInv PROVE SnapInv'
      <3>1. pc' \in {"load", "apply"} /\ snap'.ledger > 0 => builtAt' <= snap'.ledger
        BY <1>1, <2>3 DEF SnapInv
      <3>2. pc' = "apply" => lastLedger' > 0 /\ snap'.ledger > 0
        BY <1>1, <2>3 DEF SnapInv
      <3> QED BY <1>1, <2>1, <2>2, <2>3, <3>1, <3>2 DEF SnapInv, EmptyGraph
    <2> QED BY <2>3
  <1>7. snap'.ledger <= Len(net') /\ graphLedger' <= Len(net') /\ lastLedger' \in {0, graphLedger'}
    BY <1>1, <1>2 DEF StreamInv
  <1>8. (lastLedger > 0 => builtAt <= lastLedger)' <=> (lastLedger > 0 => builtAt <= lastLedger)
    BY <1>1
  <1> QED BY <1>1, <1>5, <1>6, <1>7, <1>8 DEF StreamInv

-----------------------------------------------------------------------------
(* The database.                                                           *)

(* OffersProcessor.Commit forgets removed rows only, up to the compaction ledger it
   records, which never goes back. *)
LEMMA CommitFacts ==
    ASSUME TypeOK, LedgersInv, NEW table \in [Offers -> Row], NEW seq \in 1..MaxLedger,
           lastIngested <= seq, OffersCommit(table, seq)
    PROVE  /\ rows' \in [Offers -> Row] /\ compaction' \in 0..MaxLedger
           /\ compaction <= compaction'
           /\ compaction' = 0 \/ compaction' + offerCompactionWindow <= seq
           /\ \A o \in Offers :
                 \/ rows'[o] = table[o]
                 \/ rows'[o] = NoRow /\ table[o].deleted /\ table[o].modified <= compaction'
  <1>1. /\ compaction \in Nat /\ lastIngested \in Nat /\ seq \in Nat /\ MaxLedger \in Nat
        /\ offerCompactionWindow \in Nat \ {0} /\ compaction \in 0..MaxLedger
    BY LedgerTypes DEF TypeOK
  <1>2. NoRow \in Row
    BY StreamAssumption DEF NoRow, Row
  <1>3. CASE seq > offerCompactionWindow
    <2>1. compaction' = seq - offerCompactionWindow
      BY <1>3 DEF OffersCommit
    <2>2. rows' = [o \in Offers |-> IF table[o].deleted /\ table[o].modified <= compaction'
                                    THEN NoRow ELSE table[o]]
      BY <1>3, <2>1 DEF OffersCommit, CompactOffers
    <2>3. rows' \in [Offers -> Row]
      BY <1>2, <2>2
    <2>4. /\ compaction' \in 0..MaxLedger /\ compaction <= compaction'
          /\ compaction' + offerCompactionWindow <= seq
      BY <1>1, <1>3, <2>1 DEF LedgersInv
    <2> QED BY <2>2, <2>3, <2>4
  <1>4. CASE ~(seq > offerCompactionWindow)
    BY <1>1, <1>4 DEF OffersCommit, LedgersInv
  <1> QED BY <1>3, <1>4

LEMMA IngestStep ==
    ASSUME IInv, IngestLedger
    PROVE  IInv'
  <1> USE DEF IInv
  <1> DEFINE L == Len(net)
  <1>1. PICK offers \in NextLedger :
          net' = Append(net, offers) /\ OffersCommit(FlushCache(rows, offers, L + 1), L + 1)
    BY DEF IngestLedger, Latest
  <1>2. /\ lastIngested > 0 /\ lastIngested = L /\ L < MaxLedger
        /\ lastIngested' = L + 1 /\ lastHistory' = L + 1
        /\ UNCHANGED <<stateInvalid, builds, builtAt, streamVars, faults>>
    BY DEF IngestLedger, Latest
  <1>3. L \in Nat /\ L \in 1..Len(net) /\ L + 1 \in 1..MaxLedger /\ MaxLedger \in Nat
    BY <1>2, NetTypes, LedgerTypes
  <1>4. /\ net' \in Seq([Offers -> Entry]) /\ Len(net') = L + 1 /\ Len(net') <= MaxLedger
        /\ \A l \in 1..L : net'[l] = net[l]
        /\ net'[L + 1] = offers
        /\ NetInv'
    BY <1>1, <1>2, AppendKeeps
  <1>5. /\ offers \in [Offers -> Entry]
        /\ \A o \in Offers :
              \/ offers[o] = net[L][o]
              \/ offers[o].modified = L + 1 /\ (offers[o].amount = 0 => net[L][o].amount # 0)
    BY <1>2, NextLedgerFacts
  <1> DEFINE table == FlushCache(rows, offers, L + 1)
  <1>6. \A o \in Offers : table[o] =
          IF offers[o].modified # L + 1 THEN rows[o]
          ELSE IF offers[o].amount = 0
          THEN [rows[o] EXCEPT !.deleted = TRUE, !.modified = L + 1]
          ELSE [present |-> TRUE, deleted |-> FALSE, amount |-> offers[o].amount, modified |-> L + 1]
    BY DEF FlushCache
  <1>7. \A o \in Offers : offers[o] \in Entry /\ offers[o].amount \in Amounts \cup {0}
    BY <1>5 DEF Entry
  <1>8. table \in [Offers -> Row]
    <2>1. ASSUME NEW o \in Offers PROVE table[o] \in Row
      <3>1. rows[o] \in Row /\ L + 1 \in 0..MaxLedger
        BY <1>3, LedgerTypes
      <3> HIDE DEF table
      <3>2. CASE offers[o].modified # L + 1
        BY <1>6, <3>1, <3>2
      <3>3. CASE offers[o].modified = L + 1 /\ offers[o].amount = 0
        <4>1. table[o] = [rows[o] EXCEPT !.deleted = TRUE, !.modified = L + 1]
          BY <1>6, <3>3
        <4> QED BY <3>1, <4>1 DEF Row
      <3>4. CASE offers[o].modified = L + 1 /\ offers[o].amount # 0
        <4>1. table[o] = [present |-> TRUE, deleted |-> FALSE, amount |-> offers[o].amount, modified |-> L + 1]
          BY <1>6, <3>4
        <4> QED BY <1>7, <3>1, <4>1 DEF Row
      <3> QED BY <3>2, <3>3, <3>4
    <2>2. table = [o \in Offers |-> table[o]]
      BY DEF FlushCache
    <2> QED BY <2>1, <2>2
  <1> HIDE DEF table
  <1>9. /\ rows' \in [Offers -> Row] /\ compaction' \in 0..MaxLedger
        /\ compaction <= compaction'
        /\ compaction' = 0 \/ compaction' + offerCompactionWindow <= L + 1
        /\ \A o \in Offers :
              \/ rows'[o] = table[o]
              \/ rows'[o] = NoRow /\ table[o].deleted /\ table[o].modified <= compaction'
    <2>1. lastIngested <= L + 1 /\ OffersCommit(table, L + 1)
      BY <1>1, <1>2, <1>3 DEF table
    <2> QED BY <1>3, <1>8, <2>1, CommitFacts
  <1>10. UNCHANGED <<graph, graphLedger, lastLedger, pc, snap, rebuilt>>
    BY <1>2 DEF streamVars
  <1>11. TypeOK'
    <2>1. {lastIngested', lastHistory', compaction', builtAt', graphLedger', lastLedger'} \subseteq 0..MaxLedger
      BY <1>2, <1>3, <1>9, <1>10 DEF TypeOK
    <2> QED BY <1>2, <1>4, <1>9, <1>10, <2>1 DEF TypeOK
  <1>12. LedgersInv'
    BY <1>2, <1>3, <1>4, <1>9, LedgerTypes DEF LedgersInv
  <1>13. RowInv'
    <2> SUFFICES ASSUME NEW o \in Offers
                 PROVE  Fits(rows[o], net[lastIngested][o])'
      BY <1>2, <1>3 DEF RowInv
    <2>1. net'[lastIngested'][o] = offers[o]
      BY <1>2, <1>4
    <2>2. Fits(rows[o], net[L][o]) /\ rows[o].present \in BOOLEAN /\ rows[o].deleted \in BOOLEAN
      BY <1>2, LedgerTypes DEF RowInv, Row
    <2>3. /\ net[L][o].modified \in Nat /\ net[L][o].modified <= L
          /\ builtAt \in Nat /\ compaction \in Nat /\ compaction' \in Nat
      BY <1>3, <1>9, NetTypes, LedgerTypes DEF NetInv
    <2>4. /\ table[o].present =>
               /\ table[o].modified = offers[o].modified
               /\ table[o].deleted <=> offers[o].amount = 0
               /\ ~table[o].deleted => table[o].amount = offers[o].amount
          /\ ~table[o].present =>
               offers[o].amount = 0 /\ (offers[o].modified <= builtAt \/ offers[o].modified <= compaction')
      <3>1. CASE offers[o].modified # L + 1
        <4>1. offers[o] = net[L][o] /\ table[o] = rows[o]
          BY <1>5, <1>6, <3>1
        <4> QED BY <1>9, <2>2, <2>3, <4>1 DEF Fits
      <3>2. CASE offers[o].modified = L + 1 /\ offers[o].amount = 0
        <4>1. net[L][o].amount # 0
          BY <1>3, <1>5, <2>3, <3>2
        <4>2. rows[o].present /\ rows[o] \in Row
          BY <2>2, <4>1, LedgerTypes DEF Fits
        <4>3. table[o] = [rows[o] EXCEPT !.deleted = TRUE, !.modified = L + 1]
          BY <1>6, <3>2
        <4>4. table[o].present /\ table[o].deleted /\ table[o].modified = L + 1
          BY <4>2, <4>3 DEF Row
        <4> QED BY <3>2, <4>4
      <3>3. CASE offers[o].modified = L + 1 /\ offers[o].amount # 0
        <4>1. table[o] = [present |-> TRUE, deleted |-> FALSE, amount |-> offers[o].amount, modified |-> L + 1]
          BY <1>6, <3>3
        <4> QED BY <3>3, <4>1
      <3> QED BY <3>1, <3>2, <3>3
    <2>5. CASE rows'[o] = table[o]
      BY <1>2, <2>1, <2>4, <2>5 DEF Fits
    <2>6. CASE rows'[o] = NoRow /\ table[o].deleted /\ table[o].modified <= compaction'
      <3>1. table[o].present \in BOOLEAN /\ table[o] \in Row
        BY <1>8 DEF Row
      <3>2. offers[o].amount = 0 /\ (offers[o].modified <= builtAt \/ offers[o].modified <= compaction')
        BY <2>4, <2>6, <3>1
      <3> QED BY <1>2, <2>1, <2>6, <3>2 DEF Fits, NoRow
    <2> QED BY <1>9, <2>5, <2>6
  <1>14. StreamInv'
    BY <1>2, <1>3, <1>4, StreamKept
  <1> QED BY <1>4, <1>11, <1>12, <1>13, <1>14

LEMMA CatchUpStep ==
    ASSUME IInv, CatchUp
    PROVE  IInv'
  <1> USE DEF IInv
  <1>1. PICK offers \in NextLedger : net' = Append(net, offers)
    BY DEF CatchUp
  <1>2. /\ Len(net) < MaxLedger /\ lastHistory' = Len(net) + 1
        /\ UNCHANGED <<rows, lastIngested, compaction, stateInvalid, builds, builtAt, streamVars, faults>>
    BY DEF CatchUp, Latest
  <1>3. Len(net) \in Nat /\ Len(net) + 1 \in 0..MaxLedger /\ lastIngested \in Nat
    BY <1>2, NetTypes, LedgerTypes
  <1>4. /\ net' \in Seq([Offers -> Entry]) /\ Len(net') = Len(net) + 1 /\ Len(net') <= MaxLedger
        /\ \A l \in 1..Len(net) : net'[l] = net[l]
        /\ NetInv'
    BY <1>1, <1>2, AppendKeeps
  <1>5. TypeOK'
    BY <1>2, <1>3, <1>4 DEF TypeOK, streamVars
  <1>6. LedgersInv'
    BY <1>2, <1>3, <1>4 DEF LedgersInv
  <1>7. RowInv'
    <2>1. lastIngested > 0 => net'[lastIngested] = net[lastIngested]
      BY <1>3, <1>4 DEF LedgersInv
    <2> QED BY <1>2, <2>1 DEF RowInv, Fits, EmptyTable
  <1>8. StreamInv'
    BY <1>2, <1>3, <1>4, StreamKept
  <1> QED BY <1>4, <1>5, <1>6, <1>7, <1>8

(* A build leaves the rows of the offers that are there; the stream is not asked. *)
LEMMA BuildStep ==
    ASSUME IInv, Build
    PROVE  IInv'
  <1> USE DEF IInv
  <1> DEFINE L == Len(net)
             table == [o \in Offers |->
                         IF net[L][o].amount = 0 THEN NoRow
                         ELSE [present |-> TRUE, deleted |-> FALSE, amount |-> net[L][o].amount,
                               modified |-> net[L][o].modified]]
  <1>1. /\ OffersCommit(table, L) /\ builds < MaxBuilds
        /\ lastIngested' = L /\ stateInvalid' = FALSE
        /\ builds' = builds + 1 /\ builtAt' = L
        /\ snap' = [snap EXCEPT !.rows = EmptyTable]
        /\ rebuilt' = TRUE
        /\ UNCHANGED <<net, lastHistory, graph, graphLedger, lastLedger, pc, faults>>
    BY DEF Build, Latest
  <1>2. L \in Nat /\ L \in 1..Len(net) /\ L \in 1..MaxLedger /\ L >= 1
    BY NetTypes, LedgerTypes DEF NetInv, TypeOK
  <1>3. NoRow \in Row
    BY StreamAssumption DEF NoRow, Row
  <1>4. \A o \in Offers : net[L][o] \in Entry
    BY <1>2, NetTypes
  <1>5. table \in [Offers -> Row]
    BY <1>3, <1>4 DEF Row, Entry
  <1>6. \A o \in Offers : table[o] = IF net[L][o].amount = 0 THEN NoRow
                         ELSE [present |-> TRUE, deleted |-> FALSE, amount |-> net[L][o].amount,
                               modified |-> net[L][o].modified]
    OBVIOUS
  <1> HIDE DEF table
  <1>7. /\ rows' \in [Offers -> Row] /\ compaction' \in 0..MaxLedger
        /\ compaction' = 0 \/ compaction' + offerCompactionWindow <= L
        /\ \A o \in Offers :
              \/ rows'[o] = table[o]
              \/ rows'[o] = NoRow /\ table[o].deleted /\ table[o].modified <= compaction'
    BY <1>1, <1>2, <1>5, CommitFacts DEF LedgersInv
  <1>8. TypeOK'
    <2>1. EmptyTable \in [Offers -> Row]
      BY <1>3 DEF EmptyTable
    <2>2. snap' \in Tables
      BY <1>1, <2>1 DEF TypeOK, Tables
    <2>3. builds' \in 0..MaxBuilds
      BY <1>1, StreamAssumption DEF TypeOK
    <2>4. {lastIngested', lastHistory', compaction', builtAt', graphLedger', lastLedger'} \subseteq 0..MaxLedger
      BY <1>1, <1>2, <1>7 DEF TypeOK
    <2> QED BY <1>1, <1>7, <2>2, <2>3, <2>4 DEF TypeOK
  <1>9. NetInv'
    BY <1>1 DEF NetInv
  <1>10. LedgersInv'
    BY <1>1, <1>2, <1>7 DEF LedgersInv
  <1>11. RowInv'
    <2> SUFFICES ASSUME NEW o \in Offers PROVE Fits(rows[o], net[lastIngested][o])'
      BY <1>1, <1>2 DEF RowInv
    <2>1. net[L][o].modified <= L /\ net'[lastIngested'][o] = net[L][o]
      BY <1>1, <1>2 DEF NetInv
    <2>2. CASE net[L][o].amount = 0
      <3>1. table[o] = NoRow
        BY <1>6, <2>2
      <3>2. rows'[o] = NoRow
        BY <1>7, <3>1
      <3>3. ~rows'[o].present
        BY <3>2 DEF NoRow
      <3> QED BY <1>1, <2>1, <2>2, <3>3 DEF Fits
    <2>3. CASE net[L][o].amount # 0
      <3>1. table[o] = [present |-> TRUE, deleted |-> FALSE, amount |-> net[L][o].amount,
                        modified |-> net[L][o].modified]
        BY <1>6, <2>3
      <3>2. ~table[o].deleted
        BY <3>1
      <3>3. rows'[o] = [present |-> TRUE, deleted |-> FALSE, amount |-> net[L][o].amount,
                        modified |-> net[L][o].modified]
        BY <1>7, <3>1, <3>2
      <3> QED BY <1>1, <2>1, <2>3, <3>3 DEF Fits
    <2> QED BY <2>2, <2>3
  <1>12. StreamInv'
    <2>1. snap'.ledger = snap.ledger
      BY <1>1 DEF TypeOK, Tables
    <2> QED BY <1>1, <2>1 DEF StreamInv
  <1> QED BY <1>8, <1>9, <1>10, <1>11, <1>12

LEMMA MarkStep ==
    ASSUME IInv, MarkStateInvalid
    PROVE  IInv'
  <1> USE DEF IInv
  <1>1. /\ UNCHANGED <<net, rows, lastIngested, lastHistory, compaction, builds, builtAt, streamVars>>
        /\ stateInvalid' = TRUE /\ faults' \in 0..MaxFaults
    BY StreamAssumption DEF MarkStateInvalid, TypeOK
  <1>2. TypeOK'
    BY <1>1 DEF TypeOK, streamVars
  <1>3. NetInv' /\ LedgersInv' /\ RowInv'
    BY <1>1 DEF NetInv, LedgersInv, RowInv, Fits, EmptyTable
  <1>4. StreamInv'
    BY <1>1, NetTypes, StreamKept
  <1> QED BY <1>2, <1>3, <1>4

-----------------------------------------------------------------------------
(* The stream.                                                             *)

LEMMA DatabaseKept ==
    ASSUME IInv, UNCHANGED dbVars
    PROVE  NetInv' /\ LedgersInv' /\ RowInv'
  BY DEF IInv, dbVars, NetInv, LedgersInv, RowInv, Fits, EmptyTable

(* Steps of Update that leave the database alone, given what they do to the stream. *)
LEMMA TypeKept ==
    ASSUME TypeOK, UNCHANGED dbVars,
           graph' \in [Offers -> Amounts \cup {0}],
           graphLedger' \in 0..MaxLedger, lastLedger' \in 0..MaxLedger,
           pc' \in {"idle", "load", "apply", "verify"}, snap' \in Tables, rebuilt' \in BOOLEAN,
           faults' \in 0..MaxFaults
    PROVE  TypeOK'
  <1>1. {lastIngested', lastHistory', compaction', builtAt', graphLedger', lastLedger'} \subseteq 0..MaxLedger
    BY DEF TypeOK, dbVars
  <1> QED BY <1>1 DEF TypeOK, dbVars

(* The snapshot is of the last ingested ledger, and of rows that lead there from the
   ledger of the graph unless the stream begins anew. *)
LEMMA BeginStep ==
    ASSUME IInv, UpdateBegin
    PROVE  IInv'
  <1> USE DEF IInv
  <1>1. UNCHANGED <<dbVars, faults>> /\ snap' = [ledger |-> lastIngested, rows |-> rows]
    BY DEF UpdateBegin
  <1>2. UNCHANGED <<net, rows, lastIngested, builtAt>>
    BY <1>1 DEF dbVars
  <1>3. snap'.ledger = lastIngested /\ snap'.rows = rows /\ snap' \in Tables
    BY <1>1 DEF TypeOK, Tables
  <1>4. NetInv' /\ LedgersInv' /\ RowInv'
    BY <1>1, DatabaseKept
  <1>5. /\ lastIngested \in Nat /\ lastLedger \in Nat /\ graphLedger \in Nat /\ compaction \in Nat
        /\ builtAt \in Nat /\ Len(net) \in Nat
    BY LedgerTypes, NetTypes
  <1>6. CASE MustReset
    <2>1. /\ graph' = EmptyGraph /\ graphLedger' = 0 /\ lastLedger' = 0 /\ rebuilt' = FALSE
          /\ pc' \in {"idle", "load"}
      BY <1>6 DEF UpdateBegin
    <2>2. TypeOK'
      <3>1. graph' \in [Offers -> Amounts \cup {0}]
        BY <2>1 DEF EmptyGraph
      <3>2. graphLedger' \in 0..MaxLedger /\ lastLedger' \in 0..MaxLedger
        BY <2>1, StreamAssumption
      <3>3. rebuilt' \in BOOLEAN /\ pc' \in {"idle", "load", "apply", "verify"}
        BY <2>1
      <3>4. UNCHANGED <<net, rows, lastIngested, lastHistory, compaction, stateInvalid, builds, builtAt, faults>>
        BY <1>1 DEF dbVars
      <3> QED BY <1>3, <3>1, <3>2, <3>3, <3>4 DEF TypeOK
    <2>3. Accurate'
      BY <2>1 DEF Accurate, EmptyGraph
    <2>4. SnapInv'
      <3>1. GetAllOffers(rows) = IF lastIngested = 0 THEN EmptyGraph ELSE OffersOf(lastIngested)
        BY AllOffersAreLedger
      <3>2. GetAllOffers(snap'.rows) = GetAllOffers(rows)
        BY <1>3
      <3>3. OffersOf(snap.ledger)' = OffersOf(lastIngested)
        BY <1>2, <1>3 DEF OffersOf
      <3>4. GetAllOffers(snap.rows)' =
              IF snap'.ledger = 0 THEN EmptyGraph ELSE OffersOf(snap.ledger)'
        BY <1>3, <3>1, <3>2, <3>3 DEF GetAllOffers
      <3>5. snap'.ledger > 0 => builtAt' <= snap'.ledger
        BY <1>2, <1>3 DEF LedgersInv
      <3> QED BY <2>1, <3>4, <3>5 DEF SnapInv, EmptyGraph
    <2>5. StreamInv'
      <3>1. snap'.ledger <= Len(net') /\ graphLedger' <= Len(net') /\ ~(lastLedger' > 0)
        BY <1>2, <1>3, <1>5, <2>1 DEF LedgersInv
      <3> QED BY <2>1, <2>3, <2>4, <3>1 DEF StreamInv
    <2> QED BY <1>4, <2>2, <2>5
  <1>7. CASE ~MustReset
    <2>1. /\ UNCHANGED <<graph, graphLedger, lastLedger, rebuilt>> /\ pc' \in {"verify", "apply"}
          /\ lastLedger > 0 /\ lastLedger <= lastIngested /\ compaction <= lastLedger
      BY <1>5, <1>7 DEF UpdateBegin, MustReset
    <2>2. TypeOK'
      BY <1>1, <1>3, <2>1, TypeKept DEF TypeOK
    <2>3. Accurate => Accurate'
      BY <1>2, <2>1 DEF Accurate, OffersOf, EmptyGraph
    <2>4. ASSUME ~rebuilt PROVE SnapInv'
      <3>1. lastLedger \in builtAt..lastIngested
        BY <1>5, <2>1, <2>4 DEF StreamInv
      <3>2. \A o \in Offers : Updated(rows[o], lastLedger, net[lastLedger][o].amount)
                              = net[lastIngested][o].amount
        BY <1>5, <2>1, <3>1, UpdatesAreComplete
      <3>3. \A o \in Offers : Updated(snap'.rows[o], lastLedger', net'[lastLedger'][o].amount)
                              = net'[snap'.ledger][o].amount
        BY <1>2, <1>3, <2>1, <3>2
      <3>4. snap'.ledger > 0 /\ builtAt' <= snap'.ledger /\ lastLedger' > 0
        BY <1>2, <1>3, <1>5, <2>1 DEF LedgersInv
      <3> QED BY <2>1, <3>3, <3>4 DEF SnapInv
    <2>5. StreamInv'
      <3>1. snap'.ledger <= Len(net') /\ graphLedger' <= Len(net') /\ lastLedger' \in {0, graphLedger'}
        BY <1>2, <1>3, <2>1 DEF LedgersInv, StreamInv
      <3>2. ~rebuilt' => Accurate' /\ (lastLedger' > 0 => builtAt' <= lastLedger') /\ SnapInv'
        BY <1>2, <2>1, <2>3, <2>4 DEF StreamInv
      <3> QED BY <3>1, <3>2 DEF StreamInv
    <2> QED BY <1>4, <2>2, <2>5
  <1> QED BY <1>6, <1>7

(* The batch makes the graph the offers of the snapshot's ledger. *)
LEMMA ApplyStep ==
    ASSUME IInv, UpdateLoad \/ UpdateApply
    PROVE  IInv'
  <1> USE DEF IInv
  <1> DEFINE batch == IF pc = "load" THEN GetAllOffers(snap.rows) ELSE ApplyUpdates(snap.rows, lastLedger)
  <1>1. /\ UNCHANGED <<dbVars, snap, rebuilt, faults>> /\ pc \in {"load", "apply"} /\ Apply(batch)
    BY DEF UpdateLoad, UpdateApply
  <1>2. UNCHANGED <<net, builtAt>>
    BY <1>1 DEF dbVars
  <1>3. NetInv' /\ LedgersInv' /\ RowInv'
    BY <1>1, DatabaseKept
  <1>4. batch \in [Offers -> Amounts \cup {0}]
    <2>1. snap.rows \in [Offers -> Row] /\ graph \in [Offers -> Amounts \cup {0}]
      BY DEF TypeOK, Tables
    <2>2. \A o \in Offers : snap.rows[o].amount \in Amounts \cup {0}
      BY <2>1 DEF Row
    <2>3. GetAllOffers(snap.rows) \in [Offers -> Amounts \cup {0}]
      BY <2>2 DEF GetAllOffers
    <2>4. ApplyUpdates(snap.rows, lastLedger) \in [Offers -> Amounts \cup {0}]
      BY <2>1, <2>2 DEF ApplyUpdates
    <2> QED BY <2>3, <2>4
  <1>5. ASSUME ~rebuilt
        PROVE  batch = IF snap.ledger = 0 THEN EmptyGraph ELSE OffersOf(snap.ledger)
    <2>1. SnapInv /\ Accurate /\ lastLedger \in {0, graphLedger}
      BY <1>5 DEF StreamInv
    <2>2. CASE pc = "load"
      BY <2>1, <2>2 DEF SnapInv
    <2>3. CASE pc = "apply"
      <3>1. lastLedger > 0 /\ lastLedger = graphLedger /\ snap.ledger # 0 /\ graphLedger # 0
        BY <2>1, <2>3, LedgerTypes DEF SnapInv
      <3>2. \A o \in Offers : graph[o] = net[lastLedger][o].amount
        BY <2>1, <3>1 DEF Accurate, OffersOf
      <3>3. \A o \in Offers : Updated(snap.rows[o], lastLedger, graph[o]) = net[snap.ledger][o].amount
        BY <2>1, <2>3, <3>2 DEF SnapInv
      <3>4. ApplyUpdates(snap.rows, lastLedger) = OffersOf(snap.ledger)
        BY <3>3 DEF ApplyUpdates, OffersOf, Updated
      <3> QED BY <2>3, <3>1, <3>4
    <2> QED BY <1>1, <2>2, <2>3
  <1> HIDE DEF batch
  <1>6. CASE pc' = "idle" /\ UNCHANGED <<graph, graphLedger, lastLedger>>
    <2>1. TypeOK'
      BY <1>1, <1>6, TypeKept DEF TypeOK
    <2>2. Accurate => Accurate'
      BY <1>2, <1>6 DEF Accurate, OffersOf, EmptyGraph
    <2>3. SnapInv'
      BY <1>6 DEF SnapInv
    <2>4. StreamInv'
      BY <1>1, <1>2, <1>6, <2>2, <2>3 DEF StreamInv
    <2> QED BY <1>3, <2>1, <2>4
  <1>7. CASE /\ graph' = batch /\ graphLedger' = snap.ledger /\ lastLedger' = snap.ledger
             /\ pc' = IF pc = "load" THEN "idle" ELSE "verify"
    <2>1. TypeOK'
      BY <1>1, <1>4, <1>7, TypeKept DEF TypeOK, Tables
    <2>2. ~rebuilt => Accurate'
      BY <1>2, <1>5, <1>7 DEF Accurate, OffersOf, EmptyGraph
    <2>3. SnapInv'
      BY <1>7 DEF SnapInv
    <2>4. ~rebuilt /\ snap.ledger > 0 => builtAt <= snap.ledger
      BY <1>1 DEF StreamInv, SnapInv
    <2>5. snap'.ledger <= Len(net') /\ graphLedger' <= Len(net') /\ lastLedger' \in {0, graphLedger'}
      BY <1>1, <1>2, <1>7 DEF StreamInv
    <2>6. ~rebuilt' => Accurate' /\ (lastLedger' > 0 => builtAt' <= lastLedger') /\ SnapInv'
      BY <1>1, <1>2, <1>7, <2>2, <2>3, <2>4
    <2>7. StreamInv'
      BY <2>5, <2>6 DEF StreamInv
    <2> QED BY <1>3, <2>1, <2>7
  <1> QED BY <1>1, <1>6, <1>7 DEF Apply

(* Update ends: with an error, or with a verification that may forget the ledger. *)
LEMMA EndStep ==
    ASSUME IInv, UpdateError \/ VerifyAllOffers \/ VerificationNotDue
    PROVE  IInv'
  <1> USE DEF IInv
  <1>1. /\ UNCHANGED <<dbVars, graph, graphLedger, snap, rebuilt>> /\ pc' = "idle"
        /\ lastLedger' \in {0, lastLedger} /\ faults' \in 0..MaxFaults
    BY StreamAssumption DEF UpdateError, VerifyAllOffers, VerificationNotDue, TypeOK
  <1>2. UNCHANGED <<net, builtAt>>
    BY <1>1 DEF dbVars
  <1>3. NetInv' /\ LedgersInv' /\ RowInv'
    BY <1>1, DatabaseKept
  <1>4. TypeOK'
    <2>1. /\ graph' \in [Offers -> Amounts \cup {0}] /\ graphLedger' \in 0..MaxLedger
          /\ snap' \in Tables /\ rebuilt' \in BOOLEAN
      BY <1>1 DEF TypeOK
    <2>2. lastLedger \in 0..MaxLedger /\ 0 \in 0..MaxLedger
      BY StreamAssumption DEF TypeOK
    <2>3. lastLedger' \in 0..MaxLedger /\ pc' \in {"idle", "load", "apply", "verify"}
      BY <1>1, <2>2
    <2> QED BY <1>1, <2>1, <2>3, TypeKept
  <1>5. Accurate => Accurate'
    BY <1>1, <1>2 DEF Accurate, OffersOf, EmptyGraph
  <1>6. SnapInv'
    BY <1>1 DEF SnapInv
  <1>7. StreamInv'
    BY <1>1, <1>2, <1>5, <1>6 DEF StreamInv
  <1> QED BY <1>3, <1>4, <1>7

-----------------------------------------------------------------------------
LEMMA InitInv == Init => IInv
  <1> SUFFICES ASSUME Init PROVE IInv
    OBVIOUS
  <1> DEFINE first == [o \in Offers |-> [amount |-> 0, modified |-> 0]]
  <1>1. first \in [Offers -> Entry]
    BY StreamAssumption DEF Entry
  <1>2. net = <<first>> /\ Len(net) = 1 /\ net[1] = first /\ net \in Seq([Offers -> Entry])
    BY <1>1 DEF Init
  <1>3. EmptyTable \in [Offers -> Row] /\ EmptyGraph \in [Offers -> Amounts \cup {0}]
    BY StreamAssumption DEF EmptyTable, NoRow, Row, EmptyGraph
  <1>4. IInv
    <2>1. Len(net) <= MaxLedger
      BY <1>2, StreamAssumption DEF Init
    <2>2. TypeOK
      <3>1. snap = [ledger |-> 0, rows |-> EmptyTable] /\ rows = EmptyTable /\ graph = EmptyGraph
        BY DEF Init
      <3>2. snap \in Tables
        BY <1>3, <3>1, StreamAssumption DEF Tables
      <3>3. {lastIngested, lastHistory, compaction, builtAt, graphLedger, lastLedger} \subseteq 0..MaxLedger
        BY StreamAssumption DEF Init
      <3>4. builds \in 0..MaxBuilds /\ faults \in 0..MaxFaults
        BY StreamAssumption DEF Init
      <3>5. stateInvalid \in BOOLEAN /\ rebuilt \in BOOLEAN /\ pc \in {"idle", "load", "apply", "verify"}
        BY DEF Init
      <3> QED BY <1>2, <1>3, <2>1, <3>1, <3>2, <3>3, <3>4, <3>5 DEF TypeOK
    <2>3. NetInv
      BY <1>2 DEF NetInv
    <2>4. LedgersInv /\ RowInv
      BY <1>2 DEF Init, LedgersInv, RowInv
    <2>5. StreamInv
      BY <1>2 DEF Init, StreamInv, Accurate, SnapInv
    <2> QED BY <2>2, <2>3, <2>4, <2>5 DEF IInv
  <1> QED BY <1>4

LEMMA NextInv == IInv /\ [Next]_vars => IInv'
  <1> SUFFICES ASSUME IInv, [Next]_vars PROVE IInv'
    OBVIOUS
  <1>1. CASE UNCHANGED vars
    <2>1. UNCHANGED <<dbVars, graph, graphLedger, lastLedger, pc, snap, rebuilt, faults>>
      BY <1>1 DEF vars, streamVars
    <2>2. TypeOK'
      BY <2>1, TypeKept DEF IInv, TypeOK
    <2>3. UNCHANGED <<streamVars, builtAt, net>>
      BY <2>1 DEF streamVars, dbVars
    <2>4. StreamInv'
      BY <2>3, NetTypes, StreamKept DEF IInv
    <2> QED BY <2>1, <2>2, <2>4, DatabaseKept DEF IInv
  <1> QED BY <1>1, IngestStep, CatchUpStep, BuildStep, MarkStep, BeginStep, ApplyStep, EndStep
      DEF Next, Update

LEMMA Invariance == Spec => []IInv
  BY InitInv, NextInv, PTL DEF Spec

(* Types of the database and the stream; the compaction ledger is never computed below
   zero, for any compaction window. *)
THEOREM TypeCorrect == Spec => []TypeOK
  <1>1. IInv => TypeOK
    BY DEF IInv
  <1> QED BY Invariance, <1>1, PTL

(* Compaction never takes a removal that a stream at or after the compaction ledger and
   the last build still has to learn of, for any window and any history of offers. *)
THEOREM TableHoldsAllUpdates == Spec => []TableHoldsUpdates
  BY Invariance, TableHolds, PTL

(* The graph is exactly the offers of the ledger it reports, unless the state was rebuilt
   since the stream last began anew, however ledgers, compaction, failed queries and
   verifications come between the steps of Update. *)
THEOREM GraphIsAccurate == Spec => []GraphIsLedger
  <1>1. IInv => GraphIsLedger
    BY DEF IInv, StreamInv, GraphIsLedger
  <1> QED BY Invariance, <1>1, PTL
=============================================================================
