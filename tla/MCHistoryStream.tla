--------------------------- MODULE MCHistoryStream --------------------------
(* A client from the start of history or from `now`; pages of two records. *)
EXTENDS HistoryStream

MCNow == -1
MCStarts == {0, MCNow}
=============================================================================
