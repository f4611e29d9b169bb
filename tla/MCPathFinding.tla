--------------------------- MODULE MCPathFinding ---------------------------
(* Instances of PathFinding for TLC: books that trade D for A directly and over B and
   C, at prices of which two are equal in value, with offers that move to another
   pair, and searches in both directions. *)
EXTENDS PathFinding

CONSTANTS A, B, C, D, s1, s2

Offer(i, s, pair, a, n, d) ==
    [id |-> i, seller |-> s, selling |-> pair[1], buying |-> pair[2], amount |-> a,
     price |-> [n |-> n, d |-> d]]

MCEntry ==
    {Offer(1, s1, <<D, A>>, 2, 1, 1), Offer(1, s1, <<D, A>>, 5, 2, 4), Offer(1, s1, <<D, B>>, 4, 3, 2),
     Offer(2, s2, <<D, A>>, 3, 1, 2), Offer(2, s2, <<D, B>>, 3, 2, 1), Offer(2, s2, <<A, B>>, 5, 1, 3),
     Offer(3, s1, <<B, A>>, 5, 1, 2), Offer(3, s1, <<B, C>>, 3, 7, 1),
     Offer(4, s2, <<C, A>>, 5, 2, 3), Offer(4, s2, <<B, A>>, 4, 3, 1)}

(* A payment of amount D from the balances of A and C, and one of amount A into D and C. *)
Send(amount, ignore, balance, max) ==
    [kind |-> "send", from |-> D, amount |-> amount, ignore |-> ignore, validate |-> balance > 0,
     targets |-> [x \in {A, C} |-> balance], maxPathLength |-> max, maxPathsPerAsset |-> 1]
Fixed(amount, max) ==
    [kind |-> "fixed", from |-> A, amount |-> amount, ignore |-> NoOne, validate |-> FALSE,
     targets |-> [x \in {D, C} |-> 0], maxPathLength |-> max, maxPathsPerAsset |-> 2]

MCQueries == {Send(amount, NoOne, 0, 3) : amount \in {1, 2, 4}}
             \cup {Send(3, s1, 0, 3), Send(3, NoOne, 4, 3), Send(2, NoOne, 0, 2)}
             \cup {Fixed(amount, 3) : amount \in {1, 2, 5, 11}} \cup {Fixed(4, 2)}
=============================================================================
