------------------------------- MODULE Price -------------------------------
(***************************************************************************)
(* The conversion of amounts at the price of an offer (price/main.go), and *)
(* what it promises the owners of the offers in the book and the payer.    *)
(* Amounts are signed integers of Width bits (64 in the code); a           *)
(* conversion detects overflow.                                            *)
(***************************************************************************)
EXTENDS OrderBookGraph

CONSTANT Width  \* bits of an amount

ASSUME WidthAssumption == Width \in Nat \ {0, 1}

MaxInt == 2^(Width - 1) - 1
Overflow == -1          \* ErrOverflow; no conversion has a negative result

MulFractionRoundDown(x, n, d) ==
    LET q == (x * n) \div d IN IF q > MaxInt THEN Overflow ELSE q

MulFractionRoundUp(x, n, d) ==
    LET q == (x * n + d - 1) \div d IN IF q > MaxInt THEN Overflow ELSE q

(* What an offer sells at most: not the remainder that is worth less than a unit. *)
OfferSellingBound(amount, n, d) ==
    IF n > d THEN amount
    ELSE LET bought == MulFractionRoundDown(amount, n, d)
         IN IF bought = Overflow THEN Overflow ELSE MulFractionRoundUp(bought, d, n)

(* Mutant of ConvertToBuyingUnits: the price is rounded in favour of the payer. *)
ConvertToBuyingUnitsDown(amount, needed, n, d) ==
    LET bound == OfferSellingBound(amount, n, d)
        selling == Min({bound, needed})
    IN IF bound = Overflow THEN <<>> ELSE <<MulFractionRoundDown(selling, n, d), selling>>

(* ConvertToBuyingUnits: <<units bought, units sold>>, <<>> for an overflow. *)
ConvertToBuyingUnits(amount, needed, n, d) ==
    LET bound == OfferSellingBound(amount, n, d)
        selling == Min({bound, needed})
        buying == MulFractionRoundUp(selling, n, d)
    IN IF bound = Overflow \/ buying = Overflow THEN <<>> ELSE <<buying, selling>>

-----------------------------------------------------------------------------
(* Properties.                                                             *)

(* The conversion is fair: an offer's owner is never paid under the price and the
   payer never more than a unit above it, and an offer is left unfinished only by a
   remainder that is worth nothing. *)
ConversionFair ==
    operations = <<>> => \A o \in Offers(graph.selling) : \A needed \in 1..MaxInt :
        LET n == o.price.n
            d == o.price.d
            c == ConvertToBuyingUnits(o.amount, needed, n, d)
        IN c # <<>> =>
              /\ c[2] <= o.amount /\ c[2] <= needed
              /\ c[1] * d >= c[2] * n /\ (c[1] - 1) * d < c[2] * n
              /\ c[2] < needed => (o.amount - c[2]) * n < d
=============================================================================
