---------------------------- MODULE PathFinding ----------------------------
(***************************************************************************)
(* Payment paths over the graph of OrderBookGraph: the depth-first         *)
(* searches of exp/orderbook (dfs.go, FindPaths and FindFixedPaths of      *)
(* graph.go).  A search holds the read lock, so it is a query of one       *)
(* state.  Conversions of amounts detect overflow, additions wrap.         *)
(***************************************************************************)
EXTENDS Price

CONSTANTS
    Queries,    \* searches
    NoOne       \* no account is ignored

Wrap(x) == ((x + 2^(Width - 1)) % 2^Width) - 2^(Width - 1)
NoPath == -1            \* "-1, nil": the edge is skipped
SoldTooMuch == -2^Width \* errSoldTooMuch: the whole search fails
Undecided == 2^Width    \* the loop over the offers goes on

-----------------------------------------------------------------------------
(* dfs.go: one edge of the graph.                                          *)

(* The loops over the offers of an edge stop at the first verdict. *)
Running(left, total) == [left |-> left, total |-> total, verdict |-> Undecided]
Verdict(st, v) == [st EXCEPT !.verdict = v]
After(st, left, total) ==
    IF left = 0 THEN Verdict(st, total)
    ELSE IF left < 0 THEN Verdict(st, SoldTooMuch)
    ELSE Running(left, total)
EdgeAmount(st) == IF st.verdict = Undecided THEN NoPath ELSE st.verdict

(* consumeOffersForSellingAsset: what amount of the sold asset costs. *)
ConsumeForSelling(offers, ignore, amount) ==
    LET step(st, o) ==
            LET c == ConvertToBuyingUnits(o.amount, st.left, o.price.n, o.price.d)
            IN IF st.verdict # Undecided \/ o.seller = ignore THEN st
               ELSE IF c = <<>> THEN Verdict(st, NoPath)
               ELSE After(st, st.left - c[2], Wrap(st.total + c[1]))
    IN EdgeAmount(FoldLeft(step, Running(amount, 0), offers))

(* consumeOffersForBuyingAsset: what amount of the bought asset fetches. *)
ConsumeForBuying(offers, amount) ==
    LET step(st, o) ==
            LET sold == MulFractionRoundDown(st.left, o.price.d, o.price.n)
                c == ConvertToBuyingUnits(o.amount, o.amount, o.price.n, o.price.d)
            IN IF st.verdict # Undecided THEN st
               ELSE IF sold = 0 THEN Verdict(st, NoPath)
               ELSE IF sold # Overflow /\ sold <= o.amount THEN Verdict(st, Wrap(st.total + sold))
               ELSE IF c = <<>> THEN Verdict(st, NoPath)
               ELSE After(st, st.left - c[1], Wrap(st.total + c[2]))
    IN EdgeAmount(FoldLeft(step, Running(amount, 0), offers))

(* The searches walk from the destination over the asset sold ("send", FindPaths) or
   from the source over the asset bought ("fixed", FindFixedPaths). *)
EdgesOf(q, a) == Get(IF q.kind = "send" THEN graph.selling ELSE graph.buying, a, NoKeys)
Edge(q, a, b) == Get(EdgesOf(q, a), b, <<>>)
ConsumeOffers(q, a, b, amount) ==
    IF q.kind = "send" THEN ConsumeForSelling(Edge(q, a, b), q.ignore, amount)
                       ELSE ConsumeForBuying(Edge(q, a, b), amount)

(* Mutant of IsTerminalNode: the balance of the source is not looked at. *)
IsTerminalNodeUnchecked(q, a, amount) == a \in DOMAIN q.targets

IsTerminalNode(q, a, amount) ==
    /\ a \in DOMAIN q.targets
    /\ q.kind = "send" /\ q.validate => q.targets[a] >= amount

(* dfs: all paths that do not repeat an asset, each with its amount. *)
RECURSIVE Dfs(_, _, _, _)
Dfs(q, visited, a, amount) ==
    IF amount = SoldTooMuch THEN {<<<<>>, SoldTooMuch>>}
    ELSE IF amount <= 0 \/ a \in ToSet(visited) \/ Len(visited) > q.maxPathLength THEN {}
    ELSE LET list == Append(visited, a)
         IN (IF IsTerminalNode(q, a, amount) THEN {<<list, amount>>} ELSE {})
            \cup UNION {Dfs(q, list, b, ConsumeOffers(q, a, b, amount)) : b \in DOMAIN EdgesOf(q, a)}

-----------------------------------------------------------------------------
(* graph.go: sorting, filtering, answering.                                *)

End(p) == Last(p[1])

(* compareSourceAsset and compareDestinationAsset within one asset. *)
Before(q, p, r) ==
    \/ IF q.kind = "send" THEN p[2] < r[2] ELSE p[2] > r[2]
    \/ p[2] = r[2] /\ Len(p[1]) < Len(r[1])

(* sortAndFilterPaths: of each asset the first maxPathsPerAsset; sort.Slice may
   leave equal paths in any order. *)
SortAndFilterPaths(q, paths) ==
    {kept \in SUBSET paths :
        /\ \A a \in Assets : Cardinality({p \in kept : End(p) = a})
                             = Min({q.maxPathsPerAsset, Cardinality({p \in paths : End(p) = a})})
        /\ \A p \in paths \ kept, r \in kept : End(p) = End(r) => ~Before(q, p, r)}

Search(q) == Dfs(q, <<>>, q.from, q.amount)

(* FindPaths and FindFixedPaths: the answers a search may give. *)
FindPaths(q) == SortAndFilterPaths(q, Search(q))

-----------------------------------------------------------------------------
(* The reference: every simple path, with unbounded integers.              *)

SimplePaths(q) ==
    {s \in UNION {[1..k -> Assets] : k \in 1..q.maxPathLength + 1} :
        /\ s[1] = q.from /\ Last(s) \in DOMAIN q.targets
        /\ \A i, j \in DOMAIN s : s[i] = s[j] => i = j}

CeilDiv(x, d) == (x + d - 1) \div d
ExactBound(o) ==
    IF o.price.n > o.price.d THEN o.amount
    ELSE CeilDiv(((o.amount * o.price.n) \div o.price.d) * o.price.d, o.price.n)

(* What amount of the asset sold by the offers costs. *)
ExactCost(offers, ignore, amount) ==
    LET step(st, o) ==
            LET s == IF o.seller = ignore THEN 0 ELSE Min({ExactBound(o), st.left})
            IN [left |-> st.left - s, total |-> st.total + CeilDiv(s * o.price.n, o.price.d)]
        end == FoldLeft(step, [left |-> amount, total |-> 0], offers)
    IN IF end.left > 0 THEN 0 ELSE end.total

(* What amount of the asset bought by the offers fetches: whole offers, then a part;
   nothing when a part would fetch nothing. *)
ExactYield(offers, amount) ==
    LET whole(o) == CeilDiv(ExactBound(o) * o.price.n, o.price.d)
        step(st, o) ==
            LET part == (st.left * o.price.d) \div o.price.n
            IN IF st.end THEN st
               ELSE IF part = 0 THEN [st EXCEPT !.end = TRUE, !.total = 0]
               ELSE IF part <= o.amount THEN [left |-> 0, total |-> st.total + part, end |-> TRUE]
               ELSE [left |-> st.left - whole(o), total |-> st.total + ExactBound(o),
                     end |-> st.left = whole(o)]
        out == FoldLeft(step, [left |-> amount, total |-> 0, end |-> FALSE], offers)
    IN IF out.end THEN out.total ELSE 0

(* The amount a path ends with; 0 when it cannot be paid, or not in an amount. *)
ExactAmount(q, s) ==
    LET step(amount, i) ==
            IF amount = 0 \/ amount > MaxInt THEN 0
            ELSE IF q.kind = "send" THEN ExactCost(Edge(q, s[i], s[i + 1]), q.ignore, amount)
            ELSE ExactYield(Edge(q, s[i], s[i + 1]), amount)
    IN FoldLeft(step, q.amount, [i \in 1..Len(s) - 1 |-> i])

Reference(q) ==
    {<<s, ExactAmount(q, s)>> : s \in {x \in SimplePaths(q) :
        /\ ExactAmount(q, x) \in 1..MaxInt
        /\ q.kind = "send" /\ q.validate => q.targets[Last(x)] >= ExactAmount(q, x)}}

-----------------------------------------------------------------------------
(* Properties.                                                             *)

(* Between batches a search answers with the best paths there are, up to
   maxPathsPerAsset for each asset, and with their exact amounts: nothing cheaper,
   shorter or better is missed by the depth-first search over the index it uses, no
   path that cannot be paid is offered, and no edge sells more than was asked for,
   which would make the search fail (errSoldTooMuch). *)
PathsAreBest ==
    operations = <<>> => \A q \in Queries :
        /\ \A p \in Search(q) : p[2] # SoldTooMuch
        /\ \A answer \in FindPaths(q) :
              /\ answer \subseteq Reference(q)
              /\ \A r \in Reference(q) \ answer :
                    /\ Cardinality({p \in answer : End(p) = End(r)}) = q.maxPathsPerAsset
                    /\ \A p \in answer : End(p) = End(r) => ~Before(q, r, p)

-----------------------------------------------------------------------------
(* What the code says of itself and does not keep; the README has the case.     *)

(* "skip paths which would result in overflow errors": no path is offered at an
   amount that is not what it costs. *)
NoWrappedAmount ==
    \A q \in Queries : \A p \in UNION FindPaths(q) : p[2] = ExactAmount(q, p[1])
=============================================================================
