--------------------------- MODULE OrderBookGraph ---------------------------
(***************************************************************************)
(* The in-memory order book (exp/orderbook: graph.go, edges.go, batch.go): *)
(* two indexes of the offers, by the asset they sell and by the asset they *)
(* buy, each a map of maps of price-sorted lists, and the trading pair of  *)
(* every offer, which removals depend on.  Keys without offers are deleted *)
(* from the maps.  Apply and Clear hold the write lock.                    *)
(***************************************************************************)
EXTENDS Integers, SequencesExt

CONSTANTS
    Ids,        \* offer ids
    Assets,
    Entry,      \* offers: [id, seller, selling, buying, amount, price : [n, d]]
    None,       \* no offer
    MaxLedger,  \* bound on ledgers
    MaxBatch    \* bound on the operations of a batch

ASSUME GraphAssumption ==
    /\ MaxLedger \in Nat /\ MaxBatch \in Nat /\ None \notin Entry
    /\ \A e \in Entry : e.id \in Ids /\ {e.selling, e.buying} \subseteq Assets /\ e.amount \in Nat
                        /\ e.price.n \in Nat \ {0} /\ e.price.d \in Nat \ {0}

VARIABLES
    graph,      \* edgesForSellingAsset, edgesForBuyingAsset, tradingPairForOffer
    lastLedger,
    operations, \* the queued operations of batchedUpdates
    committed,  \* apply was called on the batch
    panicked    \* apply met an offer that is not where the pair says

vars == <<graph, lastLedger, operations, committed, panicked>>

NoKeys == [k \in {} |-> {}]
EmptyGraph == [selling |-> NoKeys, buying |-> NoKeys, pairs |-> NoKeys]

AddOp(e) == [id |-> e.id, offer |-> e]
RemoveOp(i) == [id |-> i, offer |-> None]
Op == {AddOp(e) : e \in Entry} \cup {RemoveOp(i) : i \in Ids}

Init ==
    /\ graph = EmptyGraph /\ lastLedger = 0
    /\ operations = <<>> /\ committed = FALSE /\ panicked = FALSE

-----------------------------------------------------------------------------
(* Prices, edge sets.                                                      *)

Cheaper(p, q) == p.n * q.d < q.n * p.d
Equal(p, q) == p.n * q.d = q.n * p.d

Get(map, key, default) == IF key \in DOMAIN map THEN map[key] ELSE default
Put(map, key, value) == [k \in DOMAIN map \cup {key} |-> IF k = key THEN value ELSE map[k]]
Delete(map, key) == [k \in DOMAIN map \ {key} |-> map[k]]

(* edgeSet.add: behind every offer that is not dearer. *)
EdgeAdd(edges, key, e) ==
    LET offers == Get(edges, key, <<>>)
        i == SelectInSeq(offers, LAMBDA o : Cheaper(e.price, o.price))
    IN Put(edges, key, InsertAt(offers, IF i = 0 THEN Len(offers) + 1 ELSE i, e))

HasOffer(edges, key, id) == \E o \in ToSet(Get(edges, key, <<>>)) : o.id = id

(* edgeSet.remove of an offer that is there: the key goes with its last offer. *)
EdgeRemove(edges, key, id) ==
    LET rest == RemoveFirstMatch(edges[key], LAMBDA o : o.id = id)
    IN IF rest = <<>> THEN Delete(edges, key) ELSE Put(edges, key, rest)

(* One index of OrderBookGraph.remove. *)
IndexRemove(index, asset, other, id) ==
    LET edges == EdgeRemove(index[asset], other, id)
    IN IF DOMAIN edges = {} THEN Delete(index, asset) ELSE Put(index, asset, edges)

IndexAdd(index, asset, other, e) ==
    Put(index, asset, EdgeAdd(Get(index, asset, NoKeys), other, e))

-----------------------------------------------------------------------------
(* OrderBookGraph.add, remove and the loop of apply, on [g, panicked].     *)

(* remove: errOfferNotPresent if an index does not have the offer. *)
GraphRemove(st, id) ==
    LET pair == st.g.pairs[id]
        present == /\ HasOffer(Get(st.g.selling, pair.selling, NoKeys), pair.buying, id)
                   /\ HasOffer(Get(st.g.buying, pair.buying, NoKeys), pair.selling, id)
    IN IF ~present THEN [st EXCEPT !.panicked = TRUE]
       ELSE [st EXCEPT !.g = [selling |-> IndexRemove(@.selling, pair.selling, pair.buying, id),
                              buying |-> IndexRemove(@.buying, pair.buying, pair.selling, id),
                              pairs |-> Delete(@.pairs, id)]]

GraphInsert(st, e) ==
    [st EXCEPT !.g = [selling |-> IndexAdd(@.selling, e.selling, e.buying, e),
                      buying |-> IndexAdd(@.buying, e.buying, e.selling, e),
                      pairs |-> Put(@.pairs, e.id, [selling |-> e.selling, buying |-> e.buying])]]

(* Mutant of GraphAdd: an update does not remove the old offer. *)
GraphAddOnly(st, e) == GraphInsert(st, e)

(* add: an update removes the old offer, whatever pair it traded. *)
GraphAdd(st, e) == GraphInsert(IF e.id \in DOMAIN st.g.pairs THEN GraphRemove(st, e.id) ELSE st, e)

(* One operation; the removal of an unknown offer is skipped. *)
Execute(st, op) ==
    IF st.panicked THEN st
    ELSE IF op.offer # None THEN GraphAdd(st, op.offer)
    ELSE IF op.id \in DOMAIN st.g.pairs THEN GraphRemove(st, op.id)
    ELSE st

-----------------------------------------------------------------------------
(* The interface, as OrderBookStream uses it: a refused batch is discarded
   before anything else is queued.                                         *)

Queue(op) ==
    /\ ~committed /\ ~panicked /\ Len(operations) < MaxBatch
    /\ operations' = Append(operations, op)
    /\ UNCHANGED <<graph, lastLedger, committed, panicked>>

AddOffer == \E e \in Entry : Queue(AddOp(e))
RemoveOffer == \E i \in Ids : Queue(RemoveOp(i))

Discard ==
    /\ ~panicked
    /\ operations' = <<>> /\ committed' = FALSE
    /\ UNCHANGED <<graph, lastLedger, panicked>>

(* Mutant of Apply: a refused batch was applied. *)
ApplyBeforeCheck(ledger) ==
    LET done == FoldLeft(Execute, [g |-> graph, panicked |-> FALSE], operations)
    IN /\ ~committed /\ ~panicked
       /\ graph' = done.g /\ panicked' = done.panicked
       /\ lastLedger' = IF lastLedger > 0 /\ ledger <= lastLedger THEN lastLedger ELSE ledger
       /\ operations' = <<>> /\ UNCHANGED committed

(* Apply: refused unless the ledger is newer (errUnexpectedLedger); else the whole
   batch in order, and a new batch. *)
Apply(ledger) ==
    /\ ~committed /\ ~panicked
    /\ \/ /\ lastLedger > 0 /\ ledger <= lastLedger
          /\ committed' = TRUE
          /\ UNCHANGED <<graph, lastLedger, operations, panicked>>
       \/ /\ lastLedger = 0 \/ ledger > lastLedger
          /\ LET done == FoldLeft(Execute, [g |-> graph, panicked |-> FALSE], operations)
             IN graph' = done.g /\ panicked' = done.panicked
          /\ lastLedger' = ledger
          /\ operations' = <<>> /\ UNCHANGED committed

Clear ==
    /\ ~panicked
    /\ graph' = EmptyGraph /\ lastLedger' = 0
    /\ operations' = <<>> /\ committed' = FALSE
    /\ UNCHANGED panicked

Next == AddOffer \/ RemoveOffer \/ Discard \/ Clear \/ \E l \in 0..MaxLedger : Apply(l)

Spec == Init /\ [][Next]_vars

-----------------------------------------------------------------------------
(* The queries.                                                            *)

(* Offers: everything in the selling index. *)
Offers(index) ==
    UNION {UNION {ToSet(index[s][b]) : b \in DOMAIN index[s]} : s \in DOMAIN index}

IsEmpty == DOMAIN graph.selling = {}

(* Mutant of FindOffers: levels are told apart by their representation. *)
FindOffersRaw(selling, buying, maxPriceLevels) ==
    LET offers == Get(Get(graph.selling, selling, NoKeys), buying, <<>>)
        levels(i) == Cardinality({offers[j].price : j \in 1..i})
    IN SelectSeq(offers, LAMBDA o : \E i \in DOMAIN offers :
                             offers[i] = o /\ levels(i) <= maxPriceLevels)

(* findOffers: the offers of a pair, cut where the price levels are used up; a level
   ends where a price differs in value from the one before. *)
FindOffers(selling, buying, maxPriceLevels) ==
    LET offers == Get(Get(graph.selling, selling, NoKeys), buying, <<>>)
        starts == {i \in DOMAIN offers : i = 1 \/ ~Equal(offers[i - 1].price, offers[i].price)}
        cut == {i \in DOMAIN offers : Cardinality({j \in starts : j <= i}) > maxPriceLevels}
    IN SubSeq(offers, 1, Len(offers) - Cardinality(cut))

-----------------------------------------------------------------------------
(* Properties.                                                             *)

(* The book as a map: the offer with an id in the selling index. *)
OfferMap == [i \in Ids |-> IF \E e \in Offers(graph.selling) : e.id = i
                           THEN CHOOSE e \in Offers(graph.selling) : e.id = i ELSE None]
PendingMap == [i \in Ids |->
    LET n == SelectLastInSeq(operations, LAMBDA op : op.id = i)
    IN IF n = 0 THEN {} ELSE {operations[n].offer}]

Book == INSTANCE OfferBook
            WITH offers <- OfferMap, ledger <- lastLedger, pending <- PendingMap

(* Through every batch, whatever pairs offers move between, the indexes are the
   map from ids to offers that OrderBookStream takes the graph for. *)
BookSpec == Book!Spec

Places(index) ==
    UNION {UNION {{<<a, b, i>> : i \in DOMAIN index[a][b]} : b \in DOMAIN index[a]} : a \in DOMAIN index}

(* apply panics when the pair of an offer and the indexes disagree: they never do.
   Each index holds every offer of the pairs once, in the list of its own assets, and
   a key that lost its last offer is gone: IsEmpty looks at the outer keys and path
   finding at the inner ones. *)
IndexesAgree ==
    /\ ~panicked
    /\ IsEmpty <=> DOMAIN graph.pairs = {}
    /\ \A index \in {graph.selling, graph.buying} :
          /\ {e.id : e \in Offers(index)} = DOMAIN graph.pairs
          /\ Cardinality(Places(index)) = Cardinality(DOMAIN graph.pairs)
          /\ \A a \in DOMAIN index : DOMAIN index[a] # {}
          /\ \A a \in DOMAIN index : \A b \in DOMAIN index[a] : index[a][b] # <<>>
    /\ \A s \in DOMAIN graph.selling : \A b \in DOMAIN graph.selling[s] :
          \A e \in ToSet(graph.selling[s][b]) :
              /\ e.selling = s /\ e.buying = b
              /\ e \in ToSet(graph.buying[b][s])

(* Asks and bids are exactly the offers of the best price levels, cheapest first,
   equal values of a price being one level however they are written. *)
AsksAreBest ==
    \A s, b \in Assets : \A n \in 0..2 :
        LET found == FindOffers(s, b, n)
            ofPair == {e \in Offers(graph.selling) : e.selling = s /\ e.buying = b}
            level(e) == {x \in ofPair : Equal(x.price, e.price)}
            better(e) == {level(x) : x \in {y \in ofPair : Cheaper(y.price, e.price)}}
        IN /\ \A i \in 1..Len(found) - 1 : ~Cheaper(found[i + 1].price, found[i].price)
           /\ ToSet(found) = {e \in ofPair : Cardinality(better(e)) < n}
           /\ Len(found) = Cardinality(ToSet(found))
=============================================================================
