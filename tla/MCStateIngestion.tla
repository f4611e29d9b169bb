-------------------------- MODULE MCStateIngestion --------------------------
(* One account, two trust lines of one asset, three ledgers in the archive. *)
EXTENDS StateIngestion

TrustLine(auth, balance) == [auth |-> auth, balance |-> balance]

\* What core writes after the build, and what the archive holds.
MCValues == {TrustLine(TRUE, 1), TrustLine(FALSE, 1)}
MCPast == <<TrustLine(TRUE, 2), TrustLine(FALSE, 1), TrustLine(TRUE, 2)>>

MCMaxChanges == <<2, 1>>
=============================================================================
