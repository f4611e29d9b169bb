------------------------- MODULE MCOrderBookStream -------------------------
(* Instances of OrderBookStream for TLC. *)
EXTENDS OrderBookStream

CONSTANTS o1, o2
=============================================================================
