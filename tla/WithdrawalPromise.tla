-------------------------- MODULE WithdrawalPromise -------------------------
(***************************************************************************)
(* What the CRM and the trading platform together promise about a request  *)
(* to withdraw from a trading account (the module comment of               *)
(* trading_withdraw.py): the funds are held before the request exists; the *)
(* hold is given back or spent, once; the money leaves the account at most *)
(* once, for a request that is still open; an approved request was paid; a *)
(* rejected one was not, and holds nothing.                                *)
(*                                                                         *)
(* Legacy requests were made before reservations existed.  For these only  *)
(* what is stated without a hold is promised.                              *)
(***************************************************************************)
EXTENDS Naturals

CONSTANTS Requests, Legacy

VARIABLES tx,      \* the request in the CRM
          hold,    \* its reservation on the platform
          debits   \* how often it was paid

vars == <<tx, hold, debits>>

Init ==
  /\ tx = [r \in Requests |-> IF r \in Legacy THEN "PENDING" ELSE "NONE"]
  /\ hold = [r \in Requests |-> "NONE"]
  /\ debits = [r \in Requests |-> 0]

Hold(r) ==
  /\ hold[r] = "NONE" /\ hold' = [hold EXCEPT ![r] = "RESERVED"]
  /\ UNCHANGED <<tx, debits>>

Release(r) ==
  /\ hold[r] = "RESERVED" /\ hold' = [hold EXCEPT ![r] = "RELEASED"]
  /\ UNCHANGED <<tx, debits>>

Submit(r) ==
  /\ tx[r] = "NONE" /\ hold[r] = "RESERVED"
  /\ tx' = [tx EXCEPT ![r] = "PENDING"]
  /\ UNCHANGED <<hold, debits>>

\* The attempts of customers that end without a request, some at once when the CRM stops.
Abandon ==
  /\ \E gone \in SUBSET {r \in Requests : tx[r] = "NONE"} :
       tx' = [r \in Requests |-> IF r \in gone THEN "GONE" ELSE tx[r]]
  /\ UNCHANGED <<hold, debits>>

Pay(r) ==
  /\ debits[r] = 0
  /\ debits' = [debits EXCEPT ![r] = 1]
  /\ \/ tx[r] = "PENDING" /\ hold[r] = "RESERVED"
     \/ r \in Legacy /\ hold[r] # "RELEASED"
  /\ hold' = IF hold[r] = "RESERVED" THEN [hold EXCEPT ![r] = "FINALIZED"] ELSE hold
  /\ UNCHANGED tx

Approve(r) ==
  /\ tx[r] = "PENDING" /\ debits[r] = 1
  /\ tx' = [tx EXCEPT ![r] = "APPROVED"]
  /\ UNCHANGED <<hold, debits>>

Reject(r) ==
  /\ tx[r] = "PENDING"
  /\ r \in Legacy \/ (hold[r] = "RELEASED" /\ debits[r] = 0)
  /\ tx' = [tx EXCEPT ![r] = "REJECTED"]
  /\ UNCHANGED <<hold, debits>>

Next ==
  \/ Abandon
  \/ \E r \in Requests :
       Hold(r) \/ Release(r) \/ Submit(r) \/ Pay(r) \/ Approve(r) \/ Reject(r)

Spec == Init /\ [][Next]_vars
=============================================================================
