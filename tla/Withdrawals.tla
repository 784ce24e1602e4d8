----------------------------- MODULE Withdrawals ----------------------------
(***************************************************************************)
(* Withdrawals from a trading account, from the client's request to the    *)
(* payout: the CRM's handlers (_create_trading_withdraw in                 *)
(* treasury_service.py, approve and reject in trading_withdraw.py, the     *)
(* command reserve_pending_trading_withdrawals) and the calls they make to *)
(* the gateway, over one account of AccountFunds.                          *)
(*                                                                         *)
(* A call is an HTTP request with a timeout.  The handler waits for the    *)
(* answer, and takes every exception alike: the gateway may have done the  *)
(* work and the answer be lost, or never have been reached, or do the work *)
(* later (`late`).  A handler keeps its row of the CRM's table locked and  *)
(* writes its status in the transaction that ends with it.                 *)
(***************************************************************************)
EXTENDS AccountFunds, FiniteSets, FiniteSetsExt

CONSTANTS Legacy,     \* the requests that were PENDING before reservations existed
          MaxTimeouts,\* bound: calls whose caller gives up while they are on their way
          MaxSweeps   \* bound: runs of reserve_pending_trading_withdrawals

ASSUME RequestAssumption ==
  /\ IsFiniteSet(Requests) /\ Legacy \subseteq Requests
  /\ MaxTimeouts \in Nat /\ MaxSweeps \in Nat

VARIABLES tx,      \* Transaction.status; "NONE" not asked for yet, "GONE" asked for and not saved
          does,    \* what a handler of the CRM is doing for request r
          reply,   \* the answer to its call: "waiting", "lost" (an exception), or the gateway's
          late,    \* calls whose caller has given up and that the gateway may still serve
          timeouts,\* such calls so far
          listed,  \* the requests the command has read and not come to yet
          sweeps   \* runs of the command so far

crmVars == <<tx, does, reply, late, timeouts, listed, sweeps>>
vars == <<fundVars, crmVars>>

Calls == {"reserve", "release", "pay"}
Doing == {"idle", "create", "undo", "approve", "reject"}
Replies == {"waiting", "lost", "ok", "refused"} \cup HoldStates
Statuses == {"NONE", "GONE", "PENDING", "APPROVED", "REJECTED"}

\* The call each handler makes.
CallOf == [create |-> "reserve", undo |-> "release", approve |-> "pay", reject |-> "release"]

Init ==
  /\ FundsInit
  /\ tx = [r \in Requests |-> IF r \in Legacy THEN "PENDING" ELSE "NONE"]
  /\ does = [r \in Requests |-> "idle"]
  /\ reply = [r \in Requests |-> "waiting"]
  /\ late = [r \in Requests |-> [c \in Calls |-> 0]]
  /\ timeouts = 0 /\ listed = {} /\ sweeps = 0

-----------------------------------------------------------------------------
(* The gateway serves a call                                               *)

Served(call, r) ==
  CASE call = "reserve" -> ReserveWithdrawal(r)
    [] call = "release" -> ReleaseWithdrawal(r)
    [] call = "pay" -> Payout(r)

Answer(call, r) ==
  CASE call = "reserve" -> ReserveReply(r)
    [] call = "release" -> ReleaseReply(r)
    [] call = "pay" -> PayoutReply(r)

Waiting(r) == does[r] # "idle" /\ reply[r] = "waiting"

Serve(r) ==
  /\ Waiting(r)
  /\ Served(CallOf[does[r]], r)
  /\ reply' = [reply EXCEPT ![r] = Answer(CallOf[does[r]], r)]
  /\ UNCHANGED <<tx, does, late, timeouts, listed, sweeps>>

ServeLate(r, call) ==
  /\ late[r][call] > 0
  /\ Served(call, r)
  /\ late' = [late EXCEPT ![r][call] = @ - 1]
  /\ UNCHANGED <<tx, does, reply, timeouts, listed, sweeps>>

\* The answer is lost, or the gateway was not reached.
LoseReply(r) ==
  /\ does[r] # "idle" /\ reply[r] # "lost"
  /\ reply' = [reply EXCEPT ![r] = "lost"]
  /\ UNCHANGED <<fundVars, tx, does, late, timeouts, listed, sweeps>>

\* Once more a caller has given up a call that is still on its way.
GivesUp(r, call) ==
  /\ timeouts < MaxTimeouts /\ timeouts' = timeouts + 1
  /\ late' = [late EXCEPT ![r][call] = @ + 1]

TimeOut(r) ==
  /\ Waiting(r)
  /\ GivesUp(r, CallOf[does[r]])
  /\ reply' = [reply EXCEPT ![r] = "lost"]
  /\ UNCHANGED <<fundVars, tx, does, listed, sweeps>>

-----------------------------------------------------------------------------
(* The CRM                                                                 *)

\* The handler of r takes up `job` and makes its call.
Takes(r, job) ==
  /\ does' = [does EXCEPT ![r] = job]
  /\ reply' = [reply EXCEPT ![r] = "waiting"]

\* The handler of r is over.
Ends(r) ==
  /\ does' = [does EXCEPT ![r] = "idle"]
  /\ reply' = [reply EXCEPT ![r] = "waiting"]

\* A creation and an approval hold the row of the trading account, so they exclude each other.
AccountRowFree == \A r \in Requests : does[r] \notin {"create", "approve"}

Create(r) ==
  /\ tx[r] = "NONE" /\ does[r] = "idle" /\ AccountRowFree
  /\ Takes(r, "create")
  /\ UNCHANGED <<fundVars, tx, late, timeouts, listed, sweeps>>

\* Mutant: an answer that never came is taken for a reservation.
CreateTrusting(r) ==
  /\ does[r] = "create" /\ reply[r] # "waiting"
  /\ \/ /\ reply[r] \in {"ok", "lost"}
        /\ tx' = [tx EXCEPT ![r] = "PENDING"]
        /\ Ends(r)
     \/ Takes(r, "undo") /\ UNCHANGED tx
  /\ UNCHANGED <<fundVars, late, timeouts, listed, sweeps>>

\* The request is saved only with the reservation made; otherwise, and when the database refuses
\* the request after all, the reservation is given back (_release_quietly).
CreateEnd(r) ==
  /\ does[r] = "create" /\ reply[r] # "waiting"
  /\ \/ /\ reply[r] = "ok"
        /\ tx' = [tx EXCEPT ![r] = "PENDING"]
        /\ Ends(r)
     \/ Takes(r, "undo") /\ UNCHANGED tx
  /\ UNCHANGED <<fundVars, late, timeouts, listed, sweeps>>

\* A release that failed is logged, and nothing else is done about it.
UndoEnd(r) ==
  /\ does[r] = "undo" /\ reply[r] # "waiting"
  /\ tx' = [tx EXCEPT ![r] = "GONE"]
  /\ Ends(r)
  /\ UNCHANGED <<fundVars, late, timeouts, listed, sweeps>>

Approve(r) ==
  /\ tx[r] = "PENDING" /\ does[r] = "idle" /\ AccountRowFree
  /\ Takes(r, "approve")
  /\ UNCHANGED <<fundVars, tx, late, timeouts, listed, sweeps>>

\* A refusal or an exception leaves the request PENDING, and so does a status that cannot be saved.
ApproveEnd(r) ==
  /\ does[r] = "approve" /\ reply[r] # "waiting"
  /\ tx' \in {tx} \cup IF reply[r] = "ok" THEN {[tx EXCEPT ![r] = "APPROVED"]} ELSE {}
  /\ Ends(r)
  /\ UNCHANGED <<fundVars, late, timeouts, listed, sweeps>>

Reject(r) ==
  /\ tx[r] = "PENDING" /\ does[r] = "idle"
  /\ Takes(r, "reject")
  /\ UNCHANGED <<fundVars, tx, late, timeouts, listed, sweeps>>

\* Only an engine that could not be reached, or a payout already made, keeps the request PENDING.
RejectEnd(r) ==
  /\ does[r] = "reject" /\ reply[r] # "waiting"
  /\ tx' \in {tx} \cup IF reply[r] \notin {"lost", "FINALIZED"}
                       THEN {[tx EXCEPT ![r] = "REJECTED"]} ELSE {}
  /\ Ends(r)
  /\ UNCHANGED <<fundVars, late, timeouts, listed, sweeps>>

\* The CRM stops, and its open transactions are rolled back.  A call it had made and that is served
\* after the stop is one that had timed out before it.
Crash ==
  /\ \E r \in Requests : does[r] # "idle"
  /\ tx' = [r \in Requests |-> IF does[r] \in {"create", "undo"} THEN "GONE" ELSE tx[r]]
  /\ does' = [r \in Requests |-> "idle"]
  /\ reply' = [r \in Requests |-> "waiting"]
  /\ listed' = {}
  /\ UNCHANGED <<fundVars, late, timeouts, sweeps>>

-----------------------------------------------------------------------------
(* reserve_pending_trading_withdrawals --apply                             *)

\* The command reads the PENDING requests once, without locking them.
SweepList ==
  /\ sweeps < MaxSweeps /\ listed = {}
  /\ sweeps' = sweeps + 1
  /\ listed' = {r \in Requests : tx[r] = "PENDING"}
  /\ UNCHANGED <<fundVars, tx, does, reply, late, timeouts>>

\* It reserves for one of them, whatever has become of the request; what it prints of the answer
\* changes nothing, so an answer that is lost is no different.
SweepReserve(r) ==
  /\ r \in listed /\ listed' = listed \ {r}
  /\ ReserveWithdrawal(r)
  /\ UNCHANGED <<tx, does, reply, late, timeouts, sweeps>>

\* The live balance cannot be read, or what it leaves does not cover the request, or the call is
\* not served in time.
SweepSkip(r) ==
  /\ r \in listed /\ listed' = listed \ {r}
  /\ GivesUp(r, "reserve") \/ UNCHANGED <<late, timeouts>>
  /\ UNCHANGED <<fundVars, tx, does, reply, sweeps>>

-----------------------------------------------------------------------------
Handler(r) ==
  \/ Create(r) \/ CreateEnd(r) \/ UndoEnd(r)
  \/ Approve(r) \/ ApproveEnd(r)
  \/ Reject(r) \/ RejectEnd(r)

Call(r) == Serve(r) \/ LoseReply(r) \/ TimeOut(r) \/ \E call \in Calls : ServeLate(r, call)

Sweep == SweepList \/ \E r \in Requests : SweepReserve(r) \/ SweepSkip(r)

Next ==
  \/ \E r \in Requests : Handler(r) \/ Call(r)
  \/ Crash
  \/ Sweep
  \/ (Market \/ Money) /\ UNCHANGED crmVars

Spec == Init /\ [][Next]_vars

-----------------------------------------------------------------------------
(* Properties                                                              *)

\* Every variable keeps its type: the total held never falls below zero, and a late call is never
\* served more often than it was made.
TypeOK ==
  /\ FundsTypeOK
  /\ tx \in [Requests -> Statuses]
  /\ does \in [Requests -> Doing]
  /\ reply \in [Requests -> Replies]
  /\ late \in [Requests -> [Calls -> 0 .. MaxTimeouts]]
  /\ timeouts \in 0 .. MaxTimeouts
  /\ listed \subseteq Requests
  /\ sweeps \in 0 .. MaxSweeps

\* reservedWithdraw is the sum of the RESERVED rows, through payouts, rejections, undone requests,
\* repeated and late calls (the consistency query of DEPLOY-WITHDRAW-RESERVE.md).
ReservedIsSum ==
  reserved = MapThenSumSet(LAMBDA r : Amount[r], {r \in Requests : hold[r] = "RESERVED"})

Promise == INSTANCE WithdrawalPromise

\* The handlers, the calls that are lost, late or repeated and the command implement the promise:
\* the funds are held before a request exists, it is paid at most once and only while it is open,
\* an approved request was paid, and a rejected one was not and holds nothing.
KeepsPromise == Promise!Spec

\* A position is opened only with what the holds leave of the free margin: its margin and its
\* commission leave everything that is reserved covered.  The exception is what nobody checks, the
\* value that the new position has at once at the opposite quote: by as much as the floating result
\* falls with the open, the free margin may end below the holds.  Of the cash it is not so at all:
\* while credit or floating profit carry the margin, a commission can be paid from what is reserved.
OpenKeepsHolds ==
  [][margin' > margin => FreeMargin' + (floating - floating') >= reserved']_vars

\* A payout, a transfer or a debit by an administrator leaves the cash and the free margin of the
\* account above what is held for the requests that remain.
DebitKeepsHolds ==
  [][balance' < balance /\ margin' = margin => Withdrawable' >= reserved']_vars

\* A request that holds its amount can be paid as long as the market has not eaten into what is
\* held: however many requests hold funds, none is refused for the sake of another.
PaidWhenCovered ==
  \A r \in Requests :
    hold[r] = "RESERVED" /\ Withdrawable >= reserved => PayoutReply(r) = "ok"
=============================================================================
