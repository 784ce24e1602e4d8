--------------------------- MODULE MCWithdrawals ---------------------------
(* Values of the constants of Withdrawals that a configuration cannot write. *)
EXTENDS Withdrawals

CONSTANTS r1, r2

\* The first request asks for two units, the others for one.
MCAmount == [r \in Requests |-> IF r = r1 THEN 2 ELSE 1]
=============================================================================
