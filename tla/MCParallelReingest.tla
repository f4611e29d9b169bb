------------------------- MODULE MCParallelReingest -------------------------
(* Instances of ParallelReingest for TLC. *)
EXTENDS ParallelReingest

CONSTANTS w1, w2, w3

(* Ranges that are cut into two to four batches, with and without a remainder, and
   the degenerate ones; a suggestion too large for the workers, and none. *)
Ranges4 == {[from |-> f, to |-> t, size |-> s] :
              f \in {1, 3}, t \in {3, 6, 8, 9}, s \in {0, 2, 5}}
=============================================================================
