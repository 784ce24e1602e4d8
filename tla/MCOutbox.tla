------------------------------ MODULE MCOutbox ------------------------------
(* The instance of Outbox for TLC: a close and a deposit of one account.    *)
EXTENDS Outbox

CONSTANTS l1, m1, m2

OneLogin == [m \in Moves |-> l1]
CloseAndAdjust == [m \in Moves |-> IF m = m1 THEN "close" ELSE "adjust"]
=============================================================================
