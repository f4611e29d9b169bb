--------------------------- MODULE MCCaptiveCore ---------------------------
(* Small instances of CaptiveCore. *)
EXTENDS CaptiveCore

Bounded(a, b) == [from |-> a, to |-> b]
Unbounded(a) == [from |-> a, to |-> 0]

(* Ranges inside, across and beyond the latest checkpoint. *)
MCRanges == {Bounded(2, 3), Bounded(3, 5), Unbounded(2), Unbounded(4), Bounded(5, 6)}
=============================================================================
