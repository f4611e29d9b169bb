-------------------------- MODULE MCRemoteCaptive --------------------------
(* Small instances of RemoteCaptive. *)
EXTENDS RemoteCaptive, TLC

CONSTANTS w1, w2

(* Two bounded ranges, one in the other, and an unbounded one over both. *)
MCRanges == {[from |-> 2, to |-> 4], [from |-> 3, to |-> 4], [from |-> 3, to |-> 0]}
=============================================================================
