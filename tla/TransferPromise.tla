--------------------------- MODULE TransferPromise --------------------------
(***************************************************************************)
(* What is promised of an internal transfer (the comments in               *)
(* internal_transfer_execution.py): its money moves as a whole, in the     *)
(* step that approves it, or not at all.                                   *)
(*                                                                         *)
(* The transfers that have gone astray are the named exceptions: of these  *)
(* nothing is promised.                                                    *)
(***************************************************************************)
CONSTANT Transfers

VARIABLES status,  \* the request: NONE, ASKED, PENDING, APPROVED or REJECTED
          moved,   \* what of its money has moved: "nothing", "half" or "whole"
          astray   \* the transfers of which nothing is promised any more

vars == <<status, moved, astray>>

Init ==
  /\ status = [t \in Transfers |-> "NONE"]
  /\ moved = [t \in Transfers |-> "nothing"]
  /\ astray = {}

Ask(t) ==
  /\ status[t] = "NONE"
  /\ status' \in {[status EXCEPT ![t] = "ASKED"], [status EXCEPT ![t] = "PENDING"]}
  /\ UNCHANGED <<moved, astray>>

Approve(t) ==
  /\ status[t] \in {"ASKED", "PENDING"} /\ moved[t] = "nothing"
  /\ status' = [status EXCEPT ![t] = "APPROVED"]
  /\ moved' = [moved EXCEPT ![t] = "whole"]
  /\ UNCHANGED astray

Reject(t) ==
  /\ status[t] \in {"PENDING", "REJECTED"} /\ moved[t] = "nothing"
  /\ status' = [status EXCEPT ![t] = "REJECTED"]
  /\ UNCHANGED <<moved, astray>>

\* Some transfers go astray, and what has gone astray may change.
GoAstray ==
  /\ astray \subseteq astray' /\ astray' \subseteq Transfers
  /\ DOMAIN status' = Transfers /\ DOMAIN moved' = Transfers
  /\ \A t \in Transfers \ astray' : status'[t] = status[t] /\ moved'[t] = moved[t]

Next == GoAstray \/ \E t \in Transfers : Ask(t) \/ Approve(t) \/ Reject(t)

Spec == Init /\ [][Next]_vars

\* Whatever happens to others, a transfer that has not gone astray has moved as a whole if it is
\* approved, and not at all otherwise.
WholeOrNothing ==
  \A t \in Transfers \ astray :
    moved[t] = IF status[t] = "APPROVED" THEN "whole" ELSE "nothing"
=============================================================================
