-------------------------- MODULE WithdrawalsProofs -------------------------
(***************************************************************************)
(* Theorems about Withdrawals, for any requests, amounts, charges and      *)
(* bounds: the types, what an open and a debit leave of the holds, that    *)
(* the workflow implements WithdrawalPromise, that the total held is the   *)
(* sum of the holds, and that what is held is paid.                        *)
(***************************************************************************)
EXTENDS Withdrawals, SumProofs, TLAPS

-----------------------------------------------------------------------------
(* The operations on the row of the account                                 *)

USE AmountAssumption, AccountAssumption, RequestAssumption

LEMMA AvailableIsCovered ==
  ASSUME FundsTypeOK, NEW others \in Int, NEW a \in Int, a > 0, a <= AvailableBeside(others)
  PROVE  /\ a <= balance - NotNegative(others)
         /\ a <= FreeMargin - NotNegative(others)
         /\ NotNegative(others) >= 0 /\ NotNegative(others) >= others
BY DEF FundsTypeOK, Balances, Floats, AvailableBeside, Withdrawable, Lesser, NotNegative, FreeMargin

LEMMA FundsInitType == FundsInit => FundsTypeOK
BY DEF FundsInit, FundsTypeOK, Balances, Floats, HoldStates

\* What the gateway does with a reservation, as far as the workflow can tell.
LEMMA ReserveEffect ==
  ASSUME FundsTypeOK, NEW r \in Requests, ReserveWithdrawal(r)
  PROVE  /\ FundsTypeOK'
         /\ debits' = debits
         /\ \/ hold' = hold
            \/ hold[r] = "NONE" /\ hold' = [hold EXCEPT ![r] = "RESERVED"]
         /\ ReserveReply(r) \in {"ok", "refused"}
         /\ ReserveReply(r) = "ok" => hold'[r] # "NONE"
         /\ balance' = balance
<1>1. reserved + Amount[r] \in Nat
  BY DEF FundsTypeOK
<1> QED
  BY <1>1 DEF ReserveWithdrawal, FundsTypeOK, ReserveReply, HoldStates

LEMMA ReleaseEffect ==
  ASSUME FundsTypeOK, NEW r \in Requests, ReleaseWithdrawal(r)
  PROVE  /\ FundsTypeOK'
         /\ debits' = debits
         /\ \/ hold' = hold
            \/ hold[r] = "RESERVED" /\ hold' = [hold EXCEPT ![r] = "RELEASED"]
         /\ ReleaseReply(r) = hold'[r]
         /\ ReleaseReply(r) \in {"NONE", "RELEASED", "FINALIZED"}
         /\ balance' = balance
<1>1. NotNegative(reserved - Amount[r]) \in Nat
  BY DEF FundsTypeOK, NotNegative
<1> QED
  BY <1>1 DEF ReleaseWithdrawal, FundsTypeOK, ReleaseReply, HoldStates

LEMMA PayoutEffect ==
  ASSUME FundsTypeOK, NEW r \in Requests, Payout(r)
  PROVE  /\ FundsTypeOK'
         /\ \/ hold' = hold /\ debits' = debits
            \/ /\ debits[r] = 0 /\ hold[r] # "RELEASED"
               /\ debits' = [debits EXCEPT ![r] = 1]
               /\ hold' = IF hold[r] = "RESERVED" THEN [hold EXCEPT ![r] = "FINALIZED"] ELSE hold
         /\ PayoutReply(r) \in {"ok", "refused"}
         /\ PayoutReply(r) = "ok" => debits'[r] > 0
<1>0. /\ debits[r] \in Nat /\ reserved \in Nat /\ Amount[r] \in Nat \ {0}
      /\ balance \in Balances /\ hold \in [Requests -> HoldStates]
  BY DEF FundsTypeOK
<1>1. CASE PayoutPays(r)
  <2> DEFINE own == IF hold[r] = "RESERVED" THEN Amount[r] ELSE 0
  <2>1. reserved - own \in Int /\ Amount[r] \in Int /\ Amount[r] > 0
    BY <1>0
  <2>2. Amount[r] <= AvailableBeside(reserved - own)
    BY <1>1 DEF PayoutPays
  <2>3. Amount[r] <= balance - NotNegative(reserved - own) /\ NotNegative(reserved - own) >= 0
    BY <2>1, <2>2, AvailableIsCovered
  <2>4. NotNegative(reserved - own) \in Int /\ NotNegative(reserved - Amount[r]) \in Nat
    BY <2>1, <1>0 DEF NotNegative
  <2>5. balance - Amount[r] \in Balances
    BY <2>3, <2>4, <1>0 DEF Balances
  <2>6. debits[r] = 0 /\ hold[r] # "RELEASED"
    BY <1>1 DEF PayoutPays
  <2>7. debits' = [debits EXCEPT ![r] = 1] /\ balance' = balance - Amount[r]
    BY <1>1, <2>6 DEF Payout
  <2>8. hold' = IF hold[r] = "RESERVED" THEN [hold EXCEPT ![r] = "FINALIZED"] ELSE hold
    BY <1>1 DEF Payout
  <2>9. reserved' \in Nat
    BY <1>1, <2>4, <1>0 DEF Payout
  <2>10. hold' \in [Requests -> HoldStates]
    BY <2>8, <1>0 DEF HoldStates
  <2>11. debits' \in [Requests -> Nat]
    BY <2>7 DEF FundsTypeOK
  <2>12. credit' = credit /\ margin' = margin /\ floating' = floating
    BY DEF Payout
  <2>13. FundsTypeOK'
    BY <2>5, <2>7, <2>9, <2>10, <2>11, <2>12 DEF FundsTypeOK
  <2>14. debits'[r] > 0
    BY <2>7 DEF FundsTypeOK
  <2> QED
    BY <2>6, <2>7, <2>8, <2>13, <2>14 DEF PayoutReply
<1>2. CASE ~PayoutPays(r)
  BY <1>0, <1>2 DEF Payout, PayoutReply, FundsTypeOK
<1> QED
  BY <1>1, <1>2

\* Opens, price moves, closes, other debits, deposits and bonuses leave the requests alone.
LEMMA TradingEffect ==
  ASSUME FundsTypeOK, Market \/ Money
  PROVE  FundsTypeOK' /\ hold' = hold /\ debits' = debits
<1>1. ASSUME NEW m \in 1 .. MaxMargin, NEW charge \in Charges, OpenPosition(m, charge)
      PROVE  FundsTypeOK' /\ hold' = hold /\ debits' = debits
  BY <1>1 DEF OpenPosition, FundsTypeOK
<1>2. CASE PricesMove
  BY <1>2 DEF PricesMove, FundsTypeOK
<1>3. ASSUME NEW freed \in 1 .. MaxMargin, NEW result \in Floats, NEW stopOut \in BOOLEAN,
             ClosePosition(freed, result, stopOut)
      PROVE  FundsTypeOK' /\ hold' = hold /\ debits' = debits
  <2>1. 0 \in Floats /\ margin' \in 0 .. MaxMargin
    BY <1>3 DEF ClosePosition, FundsTypeOK, Floats
  <2>2. floating' \in Floats /\ balance' \in Balances
    BY <1>3, <2>1 DEF ClosePosition
  <2> QED
    BY <1>3, <2>1, <2>2 DEF ClosePosition, FundsTypeOK
<1>4. ASSUME NEW a \in 1 .. MaxBalance, OtherDebit(a)
      PROVE  FundsTypeOK' /\ hold' = hold /\ debits' = debits
  <2>1. a \in Int /\ a > 0 /\ reserved \in Int /\ a <= AvailableBeside(reserved)
    BY <1>4 DEF OtherDebit, FundsTypeOK
  <2>2. a <= balance - NotNegative(reserved) /\ NotNegative(reserved) >= 0
    BY <2>1, AvailableIsCovered
  <2>3. NotNegative(reserved) \in Int
    BY <2>1 DEF NotNegative
  <2>4. balance' \in Balances
    BY <1>4, <2>1, <2>2, <2>3 DEF OtherDebit, FundsTypeOK, Balances
  <2> QED
    BY <1>4, <2>4 DEF OtherDebit, FundsTypeOK
<1>5. ASSUME NEW a \in 1 .. MaxBalance, Deposit(a)
      PROVE  FundsTypeOK' /\ hold' = hold /\ debits' = debits
  BY <1>5 DEF Deposit, FundsTypeOK
<1>6. ASSUME NEW a \in 1 .. MaxCredit, Bonus(a)
      PROVE  FundsTypeOK' /\ hold' = hold /\ debits' = debits
  BY <1>6 DEF Bonus, FundsTypeOK
<1> QED
  BY <1>1, <1>2, <1>3, <1>4, <1>5, <1>6 DEF Market, Money

-----------------------------------------------------------------------------
(* Types                                                                    *)

\* A call is late only if a caller has given it up.
TypeInv == TypeOK /\ \A r \in Requests, c \in Calls : late[r][c] <= timeouts

LEMMA InitType == Init => TypeInv
<1> SUFFICES ASSUME Init PROVE TypeInv
  OBVIOUS
<1>1. FundsTypeOK
  BY FundsInitType DEF Init
<1>2. late \in [Requests -> [Calls -> 0 .. MaxTimeouts]]
  BY DEF Init
<1> QED
  BY <1>1, <1>2 DEF Init, TypeInv, TypeOK, Statuses, Doing, Replies

\* A call that is served, in time or late, leaves the account's row with its types and tells the
\* caller one of the replies.
LEMMA ServedType ==
  ASSUME FundsTypeOK, NEW call \in Calls, NEW r \in Requests, Served(call, r)
  PROVE  FundsTypeOK' /\ Answer(call, r) \in Replies
<1>1. CASE call = "reserve"
  BY <1>1, ReserveEffect DEF Served, Answer, Replies
<1>2. CASE call = "release"
  BY <1>2, ReleaseEffect DEF Served, Answer, Replies, HoldStates
<1>3. CASE call = "pay"
  BY <1>3, PayoutEffect DEF Served, Answer, Replies
<1> QED
  BY <1>1, <1>2, <1>3 DEF Calls

LEMMA CallOfType ==
  ASSUME NEW job \in Doing, job # "idle"
  PROVE  CallOf[job] \in Calls
BY DEF Doing, CallOf, Calls

LEMMA GivesUpType ==
  ASSUME TypeInv, NEW r \in Requests, NEW call \in Calls, GivesUp(r, call)
  PROVE  /\ timeouts' \in 0 .. MaxTimeouts
         /\ late' \in [Requests -> [Calls -> 0 .. MaxTimeouts]]
         /\ \A s \in Requests, c \in Calls : late'[s][c] <= timeouts'
<1>1. late \in [Requests -> [Calls -> 0 .. MaxTimeouts]] /\ timeouts \in 0 .. MaxTimeouts
  BY DEF TypeInv, TypeOK
<1>2. late[r][call] + 1 \in 0 .. MaxTimeouts
  BY <1>1 DEF TypeInv, GivesUp
<1> DEFINE row == [late[r] EXCEPT ![call] = @ + 1]
<1>3. row \in [Calls -> 0 .. MaxTimeouts] /\ late' = [late EXCEPT ![r] = row]
  BY <1>1, <1>2 DEF GivesUp
<1>4. timeouts' = timeouts + 1
  BY DEF GivesUp
<1>5. \A s \in Requests, c \in Calls : late'[s][c] <= timeouts'
  BY <1>1, <1>3, <1>4 DEF TypeInv
<1> QED
  BY <1>1, <1>3, <1>4, <1>5 DEF GivesUp

LEMMA CallType ==
  ASSUME TypeInv, NEW r \in Requests, Call(r)
  PROVE  TypeInv'
<1> USE DEF TypeInv, TypeOK
<1>1. CASE Serve(r)
  <2>1. does[r] \in Doing /\ does[r] # "idle"
    BY <1>1 DEF Serve, Waiting
  <2>2. FundsTypeOK' /\ Answer(CallOf[does[r]], r) \in Replies
    BY <1>1, <2>1, CallOfType, ServedType DEF Serve
  <2> QED
    BY <1>1, <2>2 DEF Serve
<1>2. ASSUME NEW call \in Calls, ServeLate(r, call)
      PROVE  TypeInv'
  <2>1. FundsTypeOK'
    BY <1>2, ServedType DEF ServeLate
  <2>2. late[r][call] - 1 \in 0 .. MaxTimeouts
    BY <1>2 DEF ServeLate
  <2> DEFINE row == [late[r] EXCEPT ![call] = @ - 1]
  <2>3. row \in [Calls -> 0 .. MaxTimeouts] /\ late' = [late EXCEPT ![r] = row]
    BY <1>2, <2>2 DEF ServeLate
  <2>4. \A s \in Requests, c \in Calls : late'[s][c] <= late[s][c]
    BY <2>3
  <2>5. \A s \in Requests, c \in Calls : late'[s][c] <= timeouts
    BY <2>3, <2>4
  <2> QED
    BY <1>2, <2>1, <2>3, <2>5 DEF ServeLate
<1>3. CASE LoseReply(r)
  BY <1>3 DEF LoseReply, Replies, fundVars, FundsTypeOK
<1>4. CASE TimeOut(r)
  <2>1. CallOf[does[r]] \in Calls
    BY <1>4, CallOfType DEF TimeOut, Waiting
  <2>2. /\ timeouts' \in 0 .. MaxTimeouts
        /\ late' \in [Requests -> [Calls -> 0 .. MaxTimeouts]]
        /\ \A s \in Requests, c \in Calls : late'[s][c] <= timeouts'
    BY <1>4, <2>1, GivesUpType DEF TimeOut
  <2> QED
    BY <1>4, <2>2 DEF TimeOut, Replies, fundVars, FundsTypeOK
<1> QED
  BY <1>1, <1>2, <1>3, <1>4 DEF Call

LEMMA HandlerType ==
  ASSUME TypeInv, NEW r \in Requests, Handler(r)
  PROVE  TypeInv'
<1> USE DEF TypeInv, TypeOK
<1>0. FundsTypeOK' /\ UNCHANGED <<late, timeouts, listed, sweeps>>
  BY DEF Handler, Create, CreateEnd, UndoEnd, Approve, ApproveEnd, Reject, RejectEnd,
         fundVars, FundsTypeOK
<1>3. PICK job \in Doing : Takes(r, job)
  BY DEF Handler, Create, CreateEnd, UndoEnd, Approve, ApproveEnd, Reject, RejectEnd,
         Takes, Ends, Doing
<1>1. /\ does' \in [Requests -> Doing]
      /\ reply' \in [Requests -> Replies]
  BY <1>3 DEF Takes, Replies
<1>2. tx' \in [Requests -> Statuses]
  BY DEF Handler, Create, CreateEnd, UndoEnd, Approve, ApproveEnd, Reject, RejectEnd, Statuses
<1> QED
  BY <1>0, <1>1, <1>2

LEMMA CrashType ==
  ASSUME TypeInv, Crash
  PROVE  TypeInv'
BY DEF TypeInv, TypeOK, Crash, Statuses, Doing, Replies, fundVars, FundsTypeOK

LEMMA SweepType ==
  ASSUME TypeInv, Sweep
  PROVE  TypeInv'
<1> USE DEF TypeInv, TypeOK
<1>1. CASE SweepList
  BY <1>1 DEF SweepList, fundVars, FundsTypeOK
<1>2. ASSUME NEW r \in Requests, SweepReserve(r)
      PROVE  TypeInv'
  <2>1. FundsTypeOK'
    BY <1>2, ReserveEffect DEF SweepReserve
  <2> QED
    BY <1>2, <2>1 DEF SweepReserve
<1>3. ASSUME NEW r \in Requests, SweepSkip(r)
      PROVE  TypeInv'
  <2>1. /\ timeouts' \in 0 .. MaxTimeouts
        /\ late' \in [Requests -> [Calls -> 0 .. MaxTimeouts]]
        /\ \A s \in Requests, c \in Calls : late'[s][c] <= timeouts'
    BY <1>3, GivesUpType DEF SweepSkip, Calls
  <2> QED
    BY <1>3, <2>1 DEF SweepSkip, fundVars, FundsTypeOK
<1> QED
  BY <1>1, <1>2, <1>3 DEF Sweep

LEMMA StepType == TypeInv /\ [Next]_vars => TypeInv'
<1> SUFFICES ASSUME TypeInv, [Next]_vars PROVE TypeInv'
  OBVIOUS
<1>1. ASSUME NEW r \in Requests, Handler(r) \/ Call(r) PROVE TypeInv'
  BY <1>1, HandlerType, CallType
<1>2. CASE Crash
  BY <1>2, CrashType
<1>3. CASE Sweep
  BY <1>3, SweepType
<1>4. CASE (Market \/ Money) /\ UNCHANGED crmVars
  BY <1>4, TradingEffect DEF TypeInv, TypeOK, crmVars
<1>5. CASE UNCHANGED vars
  BY <1>5 DEF TypeInv, TypeOK, vars, fundVars, crmVars, FundsTypeOK
<1> QED
  BY <1>1, <1>2, <1>3, <1>4, <1>5 DEF Next

\* Every variable keeps its type: the balance stays within its bounds whatever is paid or debited,
\* and the total held never falls below zero.
THEOREM TypeCorrect == Spec => []TypeOK
<1>1. TypeInv => TypeOK
  BY DEF TypeInv
<1> QED
  BY <1>1, InitType, StepType, PTL DEF Spec

-----------------------------------------------------------------------------
(* What is held stays covered                                               *)

LEMMA OpenCovers ==
  ASSUME FundsTypeOK, NEW m \in 1 .. MaxMargin, NEW charge \in Charges, OpenPosition(m, charge)
  PROVE  FreeMargin' + (floating - floating') >= reserved'
<1>1. charge \in Int /\ NotNegative(charge) \in Int /\ NotNegative(charge) >= charge
  BY DEF NotNegative
<1>2. NotNegative(reserved) = reserved /\ reserved' = reserved
  BY DEF OpenPosition, FundsTypeOK, NotNegative
<1>3. FreeMargin - reserved >= m + NotNegative(charge)
  BY <1>2 DEF OpenPosition, OpenFunds
<1>4. FreeMargin' + (floating - floating') = FreeMargin - m - charge
  <2>1. margin' = margin + m /\ balance' = balance - charge /\ credit' = credit
    BY DEF OpenPosition
  <2>2. /\ margin \in Int /\ balance \in Int /\ credit \in Int
        /\ floating \in Int /\ floating' \in Int
    BY DEF OpenPosition, FundsTypeOK, Balances, Floats
  <2>3. FreeMargin' = (balance - charge) + credit + (floating' - (margin + m))
    BY <2>1 DEF FreeMargin
  <2>4. FreeMargin = balance + credit + (floating - margin)
    BY DEF FreeMargin
  <2>5. m \in Int /\ charge \in Int
    BY <1>1
  <2>6. \A f \in Int :
          ((balance - charge) + credit + (f - (margin + m))) + (floating - f)
            = ((balance + credit + (floating - margin)) - m) - charge
    BY <2>2, <2>5
  <2>7. ((balance - charge) + credit + (floating' - (margin + m))) + (floating - floating')
          = ((balance + credit + (floating - margin)) - m) - charge
    BY <2>2, <2>6, Zenon
  <2> QED
    BY <2>3, <2>4, <2>7
<1>5. FreeMargin \in Int /\ reserved \in Int
  BY DEF FreeMargin, FundsTypeOK, Balances, Floats
<1> QED
  BY <1>1, <1>2, <1>3, <1>4, <1>5

\* A step that raises the margin is an open.
LEMMA OnlyOpensLock ==
  ASSUME TypeInv, [Next]_vars, margin' > margin
  PROVE  \E m \in 1 .. MaxMargin, charge \in Charges : OpenPosition(m, charge)
<1>0. margin \in Nat /\ (margin' = margin => ~(margin' > margin))
  BY DEF TypeInv, TypeOK, FundsTypeOK
<1>1. ASSUME NEW r \in Requests, NEW call \in Calls, Served(call, r) PROVE margin' = margin
  BY <1>1 DEF Served, Calls, ReserveWithdrawal, ReleaseWithdrawal, Payout
<1>2. ASSUME NEW r \in Requests, Handler(r) \/ Call(r) PROVE margin' = margin
  <2>1. CASE Handler(r)
    BY <2>1 DEF Handler, Create, CreateEnd, UndoEnd, Approve, ApproveEnd, Reject, RejectEnd, fundVars
  <2>2. CASE Serve(r)
    BY <2>2, <1>1, CallOfType DEF Serve, Waiting, TypeInv, TypeOK
  <2>3. CASE LoseReply(r) \/ TimeOut(r)
    BY <2>3 DEF LoseReply, TimeOut, fundVars
  <2>4. ASSUME NEW call \in Calls, ServeLate(r, call) PROVE margin' = margin
    BY <2>4, <1>1 DEF ServeLate
  <2> QED
    BY <1>2, <2>1, <2>2, <2>3, <2>4 DEF Call
<1>3. CASE Crash \/ Sweep \/ UNCHANGED vars
  BY <1>0, <1>3 DEF Crash, Sweep, SweepList, SweepReserve, SweepSkip, ReserveWithdrawal, vars, fundVars
<1>4. CASE Market \/ Money
  <2>1. CASE Money
    BY <1>0, <2>1 DEF Money, OtherDebit, Deposit, Bonus
  <2>2. CASE PricesMove
    BY <1>0, <2>2 DEF PricesMove
  <2>3. ASSUME NEW freed \in 1 .. MaxMargin, NEW result \in Floats, NEW stopOut \in BOOLEAN,
               ClosePosition(freed, result, stopOut)
        PROVE  FALSE
    BY <1>0, <2>3 DEF ClosePosition
  <2> QED
    BY <1>4, <2>1, <2>2, <2>3 DEF Market, PricesMove
<1> QED
  BY <1>0, <1>2, <1>3, <1>4 DEF Next

\* The margin and the commission of an open leave what is reserved covered, for any positions,
\* charges and requests; only what the floating result loses with the open comes on top.
THEOREM OpensCover == Spec => OpenKeepsHolds
<1>1. TypeInv /\ [Next]_vars =>
        [margin' > margin => FreeMargin' + (floating - floating') >= reserved']_vars
  BY OnlyOpensLock, OpenCovers DEF TypeInv, TypeOK
<1> QED
  BY <1>1, InitType, StepType, PTL DEF Spec, OpenKeepsHolds

LEMMA PayoutCovers ==
  ASSUME FundsTypeOK, NEW r \in Requests, Payout(r), balance' < balance
  PROVE  Withdrawable' >= reserved'
<1>0. /\ balance \in Int /\ FreeMargin \in Int /\ reserved \in Nat /\ Amount[r] \in Nat \ {0}
  BY DEF FundsTypeOK, Balances, Floats, FreeMargin
<1>1. PayoutPays(r)
  BY <1>0 DEF Payout
<1> DEFINE own == IF hold[r] = "RESERVED" THEN Amount[r] ELSE 0
<1>2. Amount[r] <= AvailableBeside(reserved - own) /\ own \in Int
  BY <1>0, <1>1 DEF PayoutPays
<1>3. /\ Amount[r] <= balance - NotNegative(reserved - own)
      /\ Amount[r] <= FreeMargin - NotNegative(reserved - own)
  BY <1>0, <1>2, AvailableIsCovered
<1>4. reserved' = NotNegative(reserved - own) /\ balance' = balance - Amount[r]
  BY <1>0, <1>1 DEF Payout, NotNegative
<1>5. FreeMargin' = FreeMargin - Amount[r]
  BY <1>0, <1>4 DEF Payout, FreeMargin, FundsTypeOK, Balances, Floats
<1>6. reserved' \in Int
  BY <1>0, <1>2, <1>4 DEF NotNegative
<1> QED
  BY <1>0, <1>3, <1>4, <1>5, <1>6 DEF Withdrawable, Lesser

LEMMA OtherDebitCovers ==
  ASSUME FundsTypeOK, NEW a \in 1 .. MaxBalance, OtherDebit(a)
  PROVE  Withdrawable' >= reserved'
<1>0. /\ balance \in Int /\ FreeMargin \in Int /\ reserved \in Nat /\ a \in Int /\ a > 0
  BY DEF FundsTypeOK, Balances, Floats, FreeMargin
<1>1. a <= AvailableBeside(reserved)
  BY DEF OtherDebit
<1>2. a <= balance - NotNegative(reserved) /\ a <= FreeMargin - NotNegative(reserved)
  BY <1>0, <1>1, AvailableIsCovered
<1>3. NotNegative(reserved) = reserved /\ reserved' = reserved /\ balance' = balance - a
  BY <1>0 DEF OtherDebit, NotNegative
<1>4. FreeMargin' = FreeMargin - a
  BY <1>0 DEF OtherDebit, FreeMargin, FundsTypeOK, Balances, Floats
<1> QED
  BY <1>0, <1>2, <1>3, <1>4 DEF Withdrawable, Lesser

\* A payout or another debit leaves the cash and the free margin above what is still held.
THEOREM DebitsCover == Spec => DebitKeepsHolds
<1> DEFINE Goal == balance' < balance /\ margin' = margin => Withdrawable' >= reserved'
<1>1. ASSUME TypeInv, Next, balance' < balance, margin' = margin
      PROVE  Withdrawable' >= reserved'
  <2>0. FundsTypeOK /\ balance \in Int /\ margin \in Int
    BY <1>1 DEF TypeInv, TypeOK, FundsTypeOK, Balances
  <2>1. ASSUME NEW r \in Requests, NEW call \in Calls, Served(call, r)
        PROVE  Withdrawable' >= reserved'
    <3>1. CASE call = "reserve"
      <4>1. balance' = balance
        BY <2>1, <3>1 DEF Served, ReserveWithdrawal
      <4> QED
        BY <1>1, <2>0, <4>1
    <3>3. CASE call = "release"
      <4>1. balance' = balance
        BY <2>1, <3>3 DEF Served, ReleaseWithdrawal
      <4> QED
        BY <1>1, <2>0, <4>1
    <3>2. CASE call = "pay"
      <4>1. Payout(r)
        BY <2>1, <3>2 DEF Served
      <4> QED
        BY <1>1, <2>0, <4>1, PayoutCovers
    <3> QED
      BY <3>1, <3>2, <3>3 DEF Calls
  <2>2. ASSUME NEW r \in Requests, Handler(r) \/ Call(r)
        PROVE  Withdrawable' >= reserved'
    <3>1. CASE Handler(r) \/ LoseReply(r) \/ TimeOut(r)
      BY <1>1, <2>0, <3>1
         DEF Handler, Create, CreateEnd, UndoEnd, Approve, ApproveEnd, Reject, RejectEnd,
             LoseReply, TimeOut, fundVars
    <3>2. CASE Serve(r)
      BY <1>1, <2>1, <3>2, CallOfType DEF Serve, Waiting, TypeInv, TypeOK
    <3>3. ASSUME NEW call \in Calls, ServeLate(r, call)
          PROVE  Withdrawable' >= reserved'
      BY <2>1, <3>3 DEF ServeLate
    <3> QED
      BY <2>2, <3>1, <3>2, <3>3 DEF Call
  <2>3. CASE Crash \/ Sweep
    BY <1>1, <2>0, <2>3 DEF Crash, Sweep, SweepList, SweepReserve, SweepSkip, ReserveWithdrawal, fundVars
  <2>4. CASE Money
    BY <1>1, <2>0, <2>4, OtherDebitCovers DEF Money, Deposit, Bonus
  <2>5. CASE Market
    BY <1>1, <2>0, <2>5 DEF Market, OpenPosition, PricesMove, ClosePosition
  <2> QED
    BY <1>1, <2>2, <2>3, <2>4, <2>5 DEF Next
<1>2. TypeInv /\ [Next]_vars => [Goal]_vars
  BY <1>1
<1> QED
  BY <1>2, InitType, StepType, PTL DEF Spec, DebitKeepsHolds

-----------------------------------------------------------------------------
(* What is true of every request between the steps                          *)

Asked == {"PENDING", "APPROVED", "REJECTED"}

\* A handler works on the request it was started for: the request is PENDING for as long as an
\* administrator's handler has its row, and not saved yet while it is created.
HandlerHasRow(r) ==
  /\ does[r] \in {"create", "undo"} => tx[r] = "NONE"
  /\ does[r] \in {"approve", "reject"} => tx[r] = "PENDING"

\* Nobody pays for a request that was not saved, and nobody releases it before its undo.
NotSavedYet(r) ==
  tx[r] = "NONE" =>
    /\ r \notin listed
    /\ does[r] # "undo" => late[r]["release"] = 0 /\ hold[r] \in {"NONE", "RESERVED"}

PayoutsAreOfRequests(r) == late[r]["pay"] > 0 => tx[r] \in Asked

HeldFirst(r) == r \notin Legacy /\ tx[r] \in Asked => hold[r] # "NONE"

PaidOnce(r) ==
  /\ debits[r] \in {0, 1}
  /\ hold[r] = "FINALIZED" => debits[r] = 1
  /\ r \notin Legacy /\ debits[r] = 1 => hold[r] = "FINALIZED"

EndsRight(r) ==
  /\ tx[r] = "APPROVED" => debits[r] = 1
  /\ r \notin Legacy /\ tx[r] = "REJECTED" => hold[r] = "RELEASED"

\* What an answer in a handler's hands still says of the account.
AnswersHold(r) ==
  /\ does[r] = "create" /\ reply[r] = "ok" => hold[r] = "RESERVED"
  /\ does[r] = "approve" /\ reply[r] = "ok" => debits[r] = 1
  /\ does[r] = "reject" =>
       /\ reply[r] \in {"waiting", "lost", "NONE", "RELEASED", "FINALIZED"}
       /\ reply[r] = "RELEASED" => hold[r] = "RELEASED"
       /\ reply[r] = "NONE" => r \in Legacy

RequestInv(r) ==
  /\ HandlerHasRow(r) /\ NotSavedYet(r) /\ PayoutsAreOfRequests(r) /\ HeldFirst(r)
  /\ PaidOnce(r) /\ EndsRight(r) /\ AnswersHold(r)

Inv == TypeInv /\ \A r \in Requests : RequestInv(r)

LEMMA InitInv == Init => Inv
<1> SUFFICES ASSUME Init, NEW r \in Requests PROVE RequestInv(r)
  BY InitType DEF Inv
<1> QED
  BY DEF Init, FundsInit, RequestInv, HandlerHasRow, NotSavedYet, PayoutsAreOfRequests, HeldFirst,
         PaidOnce, EndsRight, AnswersHold, Asked, Calls

\* A request none of whose own facts change keeps its invariant.
LEMMA Untouched ==
  ASSUME NEW r, RequestInv(r),
         tx'[r] = tx[r], does'[r] = does[r], reply'[r] = reply[r], late'[r] = late[r],
         hold'[r] = hold[r], debits'[r] = debits[r], r \in listed' => r \in listed
  PROVE  RequestInv(r)'
BY DEF RequestInv, HandlerHasRow, NotSavedYet, PayoutsAreOfRequests, HeldFirst, PaidOnce,
       EndsRight, AnswersHold

\* What a call changes of a reservation and of the payouts is a step of the promise.
Reserved(r) ==
  /\ hold[r] = "NONE" /\ hold' = [hold EXCEPT ![r] = "RESERVED"] /\ debits' = debits

Released(r) ==
  /\ hold[r] = "RESERVED" /\ hold' = [hold EXCEPT ![r] = "RELEASED"] /\ debits' = debits

Paid(r) ==
  /\ debits[r] = 0 /\ debits' = [debits EXCEPT ![r] = 1]
  /\ \/ hold[r] = "RESERVED" /\ hold' = [hold EXCEPT ![r] = "FINALIZED"]
     \/ hold[r] \in {"NONE", "FINALIZED"} /\ hold' = hold

Nothing == hold' = hold /\ debits' = debits

LEMMA ServedEffect ==
  ASSUME FundsTypeOK, NEW call \in Calls, NEW r \in Requests, Served(call, r)
  PROVE  /\ call = "reserve" =>
              /\ Reserved(r) \/ Nothing
              /\ Answer(call, r) \in {"ok", "refused"}
              /\ Answer(call, r) = "ok" => hold'[r] # "NONE"
         /\ call = "release" =>
              /\ Released(r) \/ Nothing
              /\ Answer(call, r) = hold'[r]
              /\ Answer(call, r) \in {"NONE", "RELEASED", "FINALIZED"}
         /\ call = "pay" =>
              /\ Paid(r) \/ Nothing
              /\ Answer(call, r) \in {"ok", "refused"}
              /\ Answer(call, r) = "ok" => debits'[r] > 0
<1>1. CASE call = "reserve"
  <2>1. ReserveWithdrawal(r) /\ Answer(call, r) = ReserveReply(r)
    BY <1>1 DEF Served, Answer
  <2> QED
    BY <1>1, <2>1, ReserveEffect DEF Reserved, Nothing
<1>2. CASE call = "release"
  <2>1. ReleaseWithdrawal(r) /\ Answer(call, r) = ReleaseReply(r)
    BY <1>2 DEF Served, Answer
  <2> QED
    BY <1>2, <2>1, ReleaseEffect DEF Released, Nothing
<1>3. CASE call = "pay"
  <2>1. Payout(r) /\ Answer(call, r) = PayoutReply(r)
    BY <1>3 DEF Served, Answer
  <2>2. hold[r] \in HoldStates
    BY DEF FundsTypeOK
  <2> QED
    BY <1>3, <2>1, <2>2, PayoutEffect DEF Paid, Nothing, HoldStates
<1> QED
  BY <1>1, <1>2, <1>3 DEF Calls

-----------------------------------------------------------------------------
(* Every step keeps it                                                      *)

\* The steps of the promise that the calls of r may be.  A request that is not saved yet is released
\* only by its undo, and only a request that was saved is paid.
MayBe(r) ==
  \/ Reserved(r)
  \/ Released(r) /\ (tx[r] = "NONE" => does[r] = "undo")
  \/ Paid(r) /\ tx[r] \in Asked
  \/ Nothing

LEMMA GatewayKeeps ==
  ASSUME TypeInv, NEW r \in Requests, RequestInv(r), MayBe(r), tx' = tx, does' = does,
         late'[r]["release"] \in Nat, late'[r]["release"] <= late[r]["release"],
         late'[r]["pay"] \in Nat, late'[r]["pay"] <= late[r]["pay"], listed' \subseteq listed
  PROVE  /\ HandlerHasRow(r)' /\ NotSavedYet(r)' /\ PayoutsAreOfRequests(r)' /\ HeldFirst(r)'
         /\ PaidOnce(r)' /\ EndsRight(r)'
         /\ reply'[r] = reply[r] => AnswersHold(r)'
<1> USE DEF RequestInv, MayBe
<1>0. /\ hold \in [Requests -> HoldStates] /\ debits \in [Requests -> Nat]
      /\ late[r]["release"] \in Nat /\ late[r]["pay"] \in Nat
  BY DEF TypeInv, TypeOK, FundsTypeOK, Calls
<1>1. HandlerHasRow(r)'
  BY DEF HandlerHasRow
<1>2. NotSavedYet(r)'
  BY <1>0 DEF NotSavedYet, Reserved, Released, Paid, Nothing, Asked
<1>3. PayoutsAreOfRequests(r)'
  BY <1>0 DEF PayoutsAreOfRequests
<1>4. HeldFirst(r)'
  BY <1>0 DEF HeldFirst, Reserved, Released, Paid, Nothing
<1>5. PaidOnce(r)'
  BY <1>0 DEF PaidOnce, HeldFirst, Reserved, Released, Paid, Nothing
<1>6. EndsRight(r)'
  BY <1>0 DEF EndsRight, Reserved, Released, Paid, Nothing
<1>7. reply'[r] = reply[r] => AnswersHold(r)'
  BY <1>0 DEF AnswersHold, HandlerHasRow, PaidOnce, Reserved, Released, Paid, Nothing, Asked
<1> QED
  BY <1>1, <1>2, <1>3, <1>4, <1>5, <1>6, <1>7

LEMMA MayBeLeavesOthers ==
  ASSUME TypeInv, NEW r \in Requests, MayBe(r), NEW s \in Requests, s # r
  PROVE  hold'[s] = hold[s] /\ debits'[s] = debits[s]
BY DEF MayBe, Reserved, Released, Paid, Nothing, TypeInv, TypeOK, FundsTypeOK

LEMMA ServeMayBe ==
  ASSUME Inv, NEW r \in Requests, Serve(r)
  PROVE  MayBe(r)
<1>1. /\ FundsTypeOK /\ RequestInv(r) /\ does[r] \in Doing /\ does[r] # "idle"
      /\ Served(CallOf[does[r]], r) /\ CallOf[does[r]] \in Calls
  BY CallOfType DEF Inv, TypeInv, TypeOK, Serve, Waiting
<1>2. CASE does[r] = "create"
  BY <1>1, <1>2, ServedEffect DEF CallOf, MayBe
<1>3. CASE does[r] \in {"undo", "reject"}
  BY <1>1, <1>3, ServedEffect DEF CallOf, MayBe, RequestInv, HandlerHasRow
<1>4. CASE does[r] = "approve"
  BY <1>1, <1>4, ServedEffect DEF CallOf, MayBe, RequestInv, HandlerHasRow, Asked
<1> QED
  BY <1>1, <1>2, <1>3, <1>4 DEF Doing

LEMMA ServeLateMayBe ==
  ASSUME Inv, NEW r \in Requests, NEW call \in Calls, ServeLate(r, call)
  PROVE  MayBe(r)
<1>1. FundsTypeOK /\ RequestInv(r) /\ Served(call, r) /\ late[r][call] > 0
  BY DEF Inv, TypeInv, TypeOK, ServeLate
<1>2. CASE call = "reserve"
  BY <1>1, <1>2, ServedEffect DEF MayBe
<1>3. CASE call = "release"
  BY <1>1, <1>3, ServedEffect DEF MayBe, RequestInv, NotSavedYet
<1>4. CASE call = "pay"
  BY <1>1, <1>4, ServedEffect DEF MayBe, RequestInv, PayoutsAreOfRequests
<1> QED
  BY <1>2, <1>3, <1>4 DEF Calls

LEMMA SweepReserveMayBe ==
  ASSUME Inv, NEW r \in Requests, SweepReserve(r)
  PROVE  MayBe(r)
BY ReserveEffect DEF Inv, TypeInv, TypeOK, SweepReserve, MayBe, Reserved, Nothing

LEMMA CallInv ==
  ASSUME Inv, NEW r \in Requests, Call(r), NEW s \in Requests
  PROVE  RequestInv(s)'
<1> USE DEF Inv
<1>0. late \in [Requests -> [Calls -> Nat]] /\ reply \in [Requests -> Replies] /\ RequestInv(s)
  BY DEF TypeInv, TypeOK
<1>1. CASE Serve(r)
  <2>0. MayBe(r) /\ tx' = tx /\ does' = does /\ late' = late /\ listed' = listed
    BY <1>1, ServeMayBe DEF Serve
  <2>1. CASE s # r
    <3>1. reply'[s] = reply[s]
      BY <1>0, <1>1, <2>1 DEF Serve
    <3> QED
      BY <1>0, <2>0, <2>1, <3>1, MayBeLeavesOthers, Untouched
  <2>2. CASE s = r
    <3>1. /\ HandlerHasRow(r)' /\ NotSavedYet(r)' /\ PayoutsAreOfRequests(r)' /\ HeldFirst(r)'
          /\ PaidOnce(r)' /\ EndsRight(r)'
      <4>1. late[r]["release"] \in Nat /\ late[r]["pay"] \in Nat
        BY <1>0 DEF Calls
      <4> QED
        BY <1>0, <2>0, <2>2, <4>1, GatewayKeeps
    <3>2. AnswersHold(r)'
      <4>1. reply'[r] = Answer(CallOf[does[r]], r)
        BY <1>0, <1>1 DEF Serve
      <4>2. FundsTypeOK /\ does[r] \in Doing /\ does[r] # "idle" /\ Served(CallOf[does[r]], r)
        BY <1>1 DEF TypeInv, TypeOK, Serve, Waiting
      <4>3. CASE does[r] = "create"
        <5>1. reply'[r] = "ok" => hold'[r] # "NONE"
          BY <4>1, <4>2, <4>3, ServedEffect DEF CallOf, Calls
        <5> QED
          BY <2>0, <3>1, <4>3, <5>1 DEF AnswersHold, NotSavedYet, HandlerHasRow
      <4>4. CASE does[r] = "approve"
        <5>1. reply'[r] = "ok" => debits'[r] > 0
          BY <4>1, <4>2, <4>4, ServedEffect DEF CallOf, Calls
        <5> QED
          BY <2>0, <3>1, <4>4, <5>1 DEF AnswersHold, PaidOnce
      <4>5. CASE does[r] = "reject"
        <5>1. reply'[r] = hold'[r] /\ reply'[r] \in {"NONE", "RELEASED", "FINALIZED"}
          BY <4>1, <4>2, <4>5, ServedEffect DEF CallOf, Calls
        <5>2. reply'[r] = "NONE" => r \in Legacy
          BY <2>0, <3>1, <4>5, <5>1 DEF HeldFirst, HandlerHasRow, Asked
        <5> QED
          BY <2>0, <4>5, <5>1, <5>2 DEF AnswersHold
      <4>6. CASE does[r] = "undo"
        BY <2>0, <4>6 DEF AnswersHold
      <4> QED
        BY <4>2, <4>3, <4>4, <4>5, <4>6 DEF Doing
    <3> QED
      BY <2>2, <3>1, <3>2 DEF RequestInv
  <2> QED
    BY <2>1, <2>2
<1>2. ASSUME NEW call \in Calls, ServeLate(r, call)
      PROVE  RequestInv(s)'
  <2>0. MayBe(r) /\ tx' = tx /\ does' = does /\ reply' = reply /\ listed' = listed
    BY <1>2, ServeLateMayBe DEF ServeLate
  <2>1. CASE s # r
    <3>1. late'[s] = late[s]
      BY <1>0, <1>2, <2>1 DEF ServeLate
    <3> QED
      BY <1>0, <2>0, <2>1, <3>1, MayBeLeavesOthers, Untouched
  <2>2. CASE s = r
    <3>1. \A c \in Calls : late'[r][c] = IF c = call THEN late[r][c] - 1 ELSE late[r][c]
      BY <1>0, <1>2 DEF ServeLate
    <3>2. \A c \in Calls : late'[r][c] \in Nat /\ late'[r][c] <= late[r][c]
      BY <1>0, <1>2, <3>1 DEF ServeLate
    <3>3. /\ late'[r]["release"] \in Nat /\ late'[r]["release"] <= late[r]["release"]
          /\ late'[r]["pay"] \in Nat /\ late'[r]["pay"] <= late[r]["pay"]
      BY <3>2 DEF Calls
    <3> QED
      BY <1>0, <2>0, <2>2, <3>3, GatewayKeeps DEF RequestInv
  <2> QED
    BY <2>1, <2>2
<1>3. CASE LoseReply(r)
  <2>1. CASE s = r
    BY <1>0, <1>3, <2>1 DEF LoseReply, fundVars, RequestInv, HandlerHasRow, NotSavedYet,
       PayoutsAreOfRequests, HeldFirst, PaidOnce, EndsRight, AnswersHold
  <2>2. CASE s # r
    BY <1>0, <1>3, <2>2, Untouched DEF LoseReply, fundVars
  <2> QED
    BY <2>1, <2>2
<1>4. CASE TimeOut(r)
  <2>0. /\ tx' = tx /\ does' = does /\ listed' = listed /\ hold' = hold /\ debits' = debits
        /\ does[r] \in Doing /\ does[r] # "idle"
    BY <1>4 DEF TimeOut, Waiting, fundVars, TypeInv, TypeOK
  <2>1. CASE s = r
    <3>1. \A c \in Calls : late'[r][c] = IF c = CallOf[does[r]] THEN late[r][c] + 1 ELSE late[r][c]
      BY <1>0, <1>4 DEF TimeOut, GivesUp
    <3>2. reply'[r] = "lost"
      BY <1>0, <1>4 DEF TimeOut
    <3>3. late'[r]["pay"] = IF does[r] = "approve" THEN late[r]["pay"] + 1 ELSE late[r]["pay"]
      BY <2>0, <3>1 DEF Calls, CallOf, Doing
    <3>4. does[r] \notin {"undo", "reject"} => late'[r]["release"] = late[r]["release"]
      BY <2>0, <3>1 DEF Calls, CallOf, Doing
    <3> QED
      BY <1>0, <2>0, <2>1, <3>2, <3>3, <3>4
         DEF RequestInv, HandlerHasRow, NotSavedYet,
             PayoutsAreOfRequests, HeldFirst, PaidOnce, EndsRight, AnswersHold, Asked
  <2>2. CASE s # r
    <3>1. late'[s] = late[s] /\ reply'[s] = reply[s]
      BY <1>0, <1>4, <2>2 DEF TimeOut, GivesUp
    <3> QED
      BY <1>0, <2>0, <2>2, <3>1, Untouched
  <2> QED
    BY <2>1, <2>2
<1> QED
  BY <1>1, <1>2, <1>3, <1>4 DEF Call

LEMMA HandlerInv ==
  ASSUME Inv, NEW r \in Requests, Handler(r), NEW s \in Requests
  PROVE  RequestInv(s)'
<1> USE DEF Inv
<1>0. /\ tx \in [Requests -> Statuses] /\ does \in [Requests -> Doing]
      /\ reply \in [Requests -> Replies] /\ RequestInv(s)
      /\ hold \in [Requests -> HoldStates] /\ debits \in [Requests -> Nat]
      /\ \A q \in Requests : late[q]["release"] \in Nat /\ late[q]["pay"] \in Nat
  BY DEF TypeInv, TypeOK, FundsTypeOK, Calls
<1>1. hold' = hold /\ debits' = debits /\ late' = late /\ listed' = listed
  BY DEF Handler, Create, CreateEnd, UndoEnd, Approve, ApproveEnd, Reject, RejectEnd, fundVars
<1>2. CASE s # r
  <2>1. tx'[s] = tx[s] /\ does'[s] = does[s] /\ reply'[s] = reply[s]
    BY <1>0, <1>2 DEF Handler, Create, CreateEnd, UndoEnd, Approve, ApproveEnd, Reject, RejectEnd,
                      Takes, Ends
  <2> QED
    BY <1>0, <1>1, <2>1, Untouched
<1>3. CASE s = r
  <2> USE DEF RequestInv, HandlerHasRow, NotSavedYet, PayoutsAreOfRequests, HeldFirst, PaidOnce,
              EndsRight, AnswersHold, Asked
  <2>1. CASE Create(r)
    BY <1>0, <1>1, <1>3, <2>1 DEF Create, Takes
  <2>2. CASE CreateEnd(r)
    <3>1. CASE reply[r] = "ok" /\ tx' = [tx EXCEPT ![r] = "PENDING"] /\ Ends(r)
      BY <1>0, <1>1, <1>3, <2>2, <3>1 DEF CreateEnd, Ends
    <3>2. CASE Takes(r, "undo") /\ UNCHANGED tx
      BY <1>0, <1>1, <1>3, <2>2, <3>2 DEF CreateEnd, Takes
    <3> QED
      BY <2>2, <3>1, <3>2 DEF CreateEnd
  <2>3. CASE UndoEnd(r)
    BY <1>0, <1>1, <1>3, <2>3 DEF UndoEnd, Ends
  <2>4. CASE Approve(r)
    BY <1>0, <1>1, <1>3, <2>4 DEF Approve, Takes
  <2>5. CASE ApproveEnd(r)
    BY <1>0, <1>1, <1>3, <2>5 DEF ApproveEnd, Ends
  <2>6. CASE Reject(r)
    BY <1>0, <1>1, <1>3, <2>6 DEF Reject, Takes
  <2>7. CASE RejectEnd(r)
    BY <1>0, <1>1, <1>3, <2>7 DEF RejectEnd, Ends
  <2> QED
    BY <2>1, <2>2, <2>3, <2>4, <2>5, <2>6, <2>7 DEF Handler
<1> QED
  BY <1>2, <1>3

LEMMA CrashInv ==
  ASSUME Inv, Crash, NEW s \in Requests
  PROVE  RequestInv(s)'
<1>1. /\ hold' = hold /\ debits' = debits /\ late' = late /\ listed' = {}
      /\ does'[s] = "idle" /\ reply'[s] = "waiting"
      /\ tx'[s] = IF does[s] \in {"create", "undo"} THEN "GONE" ELSE tx[s]
  BY DEF Crash, fundVars
<1>2. does[s] \in Doing /\ late[s]["pay"] \in Nat /\ RequestInv(s)
  BY DEF Inv, TypeInv, TypeOK, Calls
<1> QED
  BY <1>1, <1>2 DEF RequestInv, HandlerHasRow, NotSavedYet, PayoutsAreOfRequests, HeldFirst,
       PaidOnce, EndsRight, AnswersHold, Asked, Doing

LEMMA SweepInv ==
  ASSUME Inv, Sweep, NEW s \in Requests
  PROVE  RequestInv(s)'
<1> USE DEF Inv
<1>0. late \in [Requests -> [Calls -> Nat]] /\ RequestInv(s) /\ does \in [Requests -> Doing]
  BY DEF TypeInv, TypeOK
<1>1. CASE SweepList
  <2>1. s \in listed' => tx[s] = "PENDING"
    BY <1>1 DEF SweepList
  <2> QED
    BY <1>0, <1>1, <2>1
       DEF SweepList, fundVars, RequestInv, HandlerHasRow, NotSavedYet, PayoutsAreOfRequests,
           HeldFirst, PaidOnce, EndsRight, AnswersHold, Asked
<1>2. ASSUME NEW r \in Requests, SweepReserve(r)
      PROVE  RequestInv(s)'
  <2>0. /\ MayBe(r) /\ tx' = tx /\ does' = does /\ reply' = reply /\ late' = late
        /\ listed' \subseteq listed
    BY <1>2, SweepReserveMayBe DEF SweepReserve
  <2>1. CASE s # r
    BY <1>0, <2>0, <2>1, MayBeLeavesOthers, Untouched
  <2>2. CASE s = r
    <3>1. late[r]["release"] \in Nat /\ late[r]["pay"] \in Nat
      BY <1>0 DEF Calls
    <3> QED
      BY <1>0, <2>0, <2>2, <3>1, GatewayKeeps DEF RequestInv
  <2> QED
    BY <2>1, <2>2
<1>3. ASSUME NEW r \in Requests, SweepSkip(r)
      PROVE  RequestInv(s)'
  <2>1. /\ hold' = hold /\ debits' = debits /\ tx' = tx /\ does' = does /\ reply' = reply
        /\ listed' \subseteq listed
    BY <1>3 DEF SweepSkip, fundVars
  <2>2. late'[s]["release"] = late[s]["release"] /\ late'[s]["pay"] = late[s]["pay"]
    <3>1. CASE GivesUp(r, "reserve")
      <4> DEFINE row == [late[r] EXCEPT !["reserve"] = @ + 1]
      <4>1. late' = [late EXCEPT ![r] = row]
        BY <1>0, <3>1 DEF GivesUp
      <4>2. row["release"] = late[r]["release"] /\ row["pay"] = late[r]["pay"]
        BY <1>0 DEF Calls
      <4> QED
        BY <1>0, <4>1, <4>2
    <3> QED
      BY <1>3, <3>1 DEF SweepSkip
  <2> QED
    BY <1>0, <2>1, <2>2
       DEF RequestInv, HandlerHasRow, NotSavedYet, PayoutsAreOfRequests, HeldFirst, PaidOnce,
           EndsRight, AnswersHold
<1> QED
  BY <1>1, <1>2, <1>3 DEF Sweep

LEMMA StepInv == Inv /\ [Next]_vars => Inv'
<1> SUFFICES ASSUME Inv, [Next]_vars, NEW s \in Requests PROVE RequestInv(s)'
  BY StepType DEF Inv
<1>0. FundsTypeOK /\ RequestInv(s)
  BY DEF Inv, TypeInv, TypeOK
<1>1. ASSUME NEW r \in Requests, Handler(r) \/ Call(r) PROVE RequestInv(s)'
  BY <1>1, HandlerInv, CallInv
<1>2. CASE Crash
  BY <1>2, CrashInv
<1>3. CASE Sweep
  BY <1>3, SweepInv
<1>4. CASE (Market \/ Money) /\ UNCHANGED crmVars
  BY <1>0, <1>4, TradingEffect, Untouched DEF crmVars
<1>5. CASE UNCHANGED vars
  BY <1>0, <1>5, Untouched DEF vars, fundVars, crmVars
<1> QED
  BY <1>1, <1>2, <1>3, <1>4, <1>5 DEF Next

\* What RequestInv says holds in every state the workflow reaches.
THEOREM RequestsKeptRight == Spec => []Inv
BY InitInv, StepInv, PTL DEF Spec

-----------------------------------------------------------------------------
(* The workflow implements the promise                                      *)

LEMMA PromiseInit == Init => Promise!Init
BY DEF Init, FundsInit, Promise!Init

LEMMA CallIsPromised ==
  ASSUME TypeInv, NEW r \in Requests, RequestInv(r), MayBe(r), tx' = tx
  PROVE  [Promise!Next]_(Promise!vars)
<1>0. tx[r] \in Statuses /\ hold[r] \in HoldStates /\ hold \in [Requests -> HoldStates]
  BY DEF TypeInv, TypeOK, FundsTypeOK
<1>1. CASE Reserved(r)
  <2>1. Promise!Hold(r)
    BY <1>1 DEF Reserved, Promise!Hold
  <2> QED
    BY <2>1 DEF Promise!Next
<1>2. CASE Released(r)
  <2>1. Promise!Release(r)
    BY <1>2 DEF Released, Promise!Release
  <2> QED
    BY <2>1 DEF Promise!Next
<1>3. CASE Paid(r) /\ tx[r] \in Asked
  <2>1. debits[r] = 0 /\ debits' = [debits EXCEPT ![r] = 1]
    BY <1>3 DEF Paid
  <2>2. hold' = IF hold[r] = "RESERVED" THEN [hold EXCEPT ![r] = "FINALIZED"] ELSE hold
    BY <1>3 DEF Paid
  <2>3. hold[r] # "RELEASED"
    BY <1>3 DEF Paid
  <2>4. r \notin Legacy => tx[r] = "PENDING" /\ hold[r] = "RESERVED"
    BY <1>0, <1>3, <2>1, <2>3 DEF RequestInv, HeldFirst, PaidOnce, EndsRight, Asked, HoldStates
  <2>5. Promise!Pay(r)
    BY <2>1, <2>2, <2>3, <2>4 DEF Promise!Pay
  <2> QED
    BY <2>5 DEF Promise!Next
<1>4. CASE Nothing
  BY <1>4 DEF Nothing, Promise!vars
<1> QED
  BY <1>1, <1>2, <1>3, <1>4 DEF MayBe

\* A handler's last step is the step of the promise that its answer allows.
LEMMA HandlerIsPromised ==
  ASSUME Inv, NEW r \in Requests, Handler(r)
  PROVE  [Promise!Next]_(Promise!vars)
<1>0. /\ RequestInv(r) /\ tx \in [Requests -> Statuses] /\ reply[r] \in Replies
      /\ hold' = hold /\ debits' = debits
  BY DEF Inv, TypeInv, TypeOK, Handler, Create, CreateEnd, UndoEnd, Approve, ApproveEnd, Reject,
         RejectEnd, fundVars
<1>1. CASE tx' = tx
  BY <1>0, <1>1 DEF Promise!vars
<1>2. CASE CreateEnd(r) /\ tx' # tx
  <2>1. does[r] = "create" /\ reply[r] = "ok" /\ tx' = [tx EXCEPT ![r] = "PENDING"]
    BY <1>2 DEF CreateEnd
  <2>2. Promise!Submit(r)
    BY <1>0, <2>1 DEF RequestInv, HandlerHasRow, AnswersHold, Promise!Submit
  <2> QED
    BY <2>2 DEF Promise!Next
<1>3. CASE UndoEnd(r)
  <2>1. tx[r] = "NONE" /\ tx' = [tx EXCEPT ![r] = "GONE"]
    BY <1>0, <1>3 DEF UndoEnd, RequestInv, HandlerHasRow
  <2>2. tx' = [q \in Requests |-> IF q \in {r} THEN "GONE" ELSE tx[q]]
    BY <1>0, <2>1
  <2>3. {r} \in SUBSET {q \in Requests : tx[q] = "NONE"}
    BY <2>1
  <2>4. Promise!Abandon
    BY <1>0, <2>2, <2>3 DEF Promise!Abandon
  <2> QED
    BY <2>4 DEF Promise!Next
<1>4. CASE ApproveEnd(r) /\ tx' # tx
  <2>1. does[r] = "approve" /\ reply[r] = "ok" /\ tx' = [tx EXCEPT ![r] = "APPROVED"]
    BY <1>4 DEF ApproveEnd
  <2>2. Promise!Approve(r)
    BY <1>0, <2>1 DEF RequestInv, HandlerHasRow, AnswersHold, Promise!Approve
  <2> QED
    BY <2>2 DEF Promise!Next
<1>5. CASE RejectEnd(r) /\ tx' # tx
  <2>1. /\ does[r] = "reject" /\ reply[r] \notin {"waiting", "lost", "FINALIZED"}
        /\ tx' = [tx EXCEPT ![r] = "REJECTED"]
    BY <1>5 DEF RejectEnd
  <2>2. tx[r] = "PENDING" /\ (r \in Legacy \/ hold[r] = "RELEASED")
    BY <1>0, <2>1 DEF RequestInv, HandlerHasRow, AnswersHold
  <2>3. r \in Legacy \/ debits[r] = 0
    BY <1>0, <2>2 DEF RequestInv, PaidOnce
  <2>4. Promise!Reject(r)
    BY <1>0, <2>1, <2>2, <2>3 DEF Promise!Reject
  <2> QED
    BY <2>4 DEF Promise!Next
<1> QED
  BY <1>1, <1>2, <1>3, <1>4, <1>5 DEF Handler, Create, Approve, Reject

LEMMA CrashIsPromised ==
  ASSUME Inv, Crash
  PROVE  Promise!Next
<1> DEFINE gone == {r \in Requests : does[r] \in {"create", "undo"}}
<1>1. tx' = [r \in Requests |-> IF r \in gone THEN "GONE" ELSE tx[r]]
  BY DEF Crash
<1>2. gone \in SUBSET {r \in Requests : tx[r] = "NONE"}
  BY DEF Inv, RequestInv, HandlerHasRow
<1>3. hold' = hold /\ debits' = debits
  BY DEF Crash, fundVars
<1>4. Promise!Abandon
  BY <1>1, <1>2, <1>3 DEF Promise!Abandon
<1> QED
  BY <1>4 DEF Promise!Next

LEMMA PromiseStep == Inv /\ [Next]_vars => [Promise!Next]_(Promise!vars)
<1> SUFFICES ASSUME Inv, [Next]_vars PROVE [Promise!Next]_(Promise!vars)
  OBVIOUS
<1>0. TypeInv /\ FundsTypeOK /\ \A r \in Requests : RequestInv(r)
  BY DEF Inv, TypeInv, TypeOK
<1>1. ASSUME NEW r \in Requests, Handler(r)
      PROVE  [Promise!Next]_(Promise!vars)
  BY <1>1, HandlerIsPromised
<1>2. ASSUME NEW r \in Requests, Serve(r)
      PROVE  [Promise!Next]_(Promise!vars)
  BY <1>0, <1>2, ServeMayBe, CallIsPromised DEF Serve
<1>3. ASSUME NEW r \in Requests, NEW call \in Calls, ServeLate(r, call)
      PROVE  [Promise!Next]_(Promise!vars)
  BY <1>0, <1>3, ServeLateMayBe, CallIsPromised DEF ServeLate
<1>4. ASSUME NEW r \in Requests, SweepReserve(r)
      PROVE  [Promise!Next]_(Promise!vars)
  BY <1>0, <1>4, SweepReserveMayBe, CallIsPromised DEF SweepReserve
<1>5. ASSUME NEW r \in Requests, LoseReply(r) \/ TimeOut(r) \/ SweepSkip(r)
      PROVE  [Promise!Next]_(Promise!vars)
  BY <1>5 DEF LoseReply, TimeOut, SweepSkip, fundVars, Promise!vars
<1>6. CASE Crash
  BY <1>6, CrashIsPromised
<1>7. CASE SweepList
  BY <1>7 DEF SweepList, fundVars, Promise!vars
<1>8. CASE (Market \/ Money) /\ UNCHANGED crmVars
  BY <1>0, <1>8, TradingEffect DEF crmVars, Promise!vars
<1>9. CASE UNCHANGED vars
  BY <1>9 DEF vars, fundVars, crmVars, Promise!vars
<1> QED
  BY <1>1, <1>2, <1>3, <1>4, <1>5, <1>6, <1>7, <1>8, <1>9 DEF Next, Call, Sweep

\* The handlers of the CRM, their calls lost, late or repeated, its crashes and the command that
\* reserves for old requests implement the promise, for any number of requests and of calls.
THEOREM ImplementsPromise == Spec => KeepsPromise
BY InitInv, StepInv, PromiseInit, PromiseStep, PTL DEF Spec, KeepsPromise, Promise!Spec

-----------------------------------------------------------------------------
(* The total held is the sum of the holds                                   *)

Held == {r \in Requests : hold[r] = "RESERVED"}

LEMMA HeldIsSummed ==
  /\ ReservedIsSum <=> reserved = SumOver(Amount, Held)
  /\ ReservedIsSum' <=> reserved' = SumOver(Amount, Held')
BY DEF ReservedIsSum, Held, SumOver, MapThenSumSet, MapThenFoldSet

\* A request that holds its amount is a part of the total; its amount comes off, or is added, alone.
LEMMA HoldsPart ==
  ASSUME NEW hs \in SUBSET Requests, NEW r \in Requests
  PROVE  /\ SumOver(Amount, hs) \in Nat
         /\ r \in hs => /\ SumOver(Amount, hs \ {r}) = SumOver(Amount, hs) - Amount[r]
                        /\ Amount[r] <= SumOver(Amount, hs)
         /\ r \notin hs => SumOver(Amount, hs \cup {r}) = SumOver(Amount, hs) + Amount[r]
<1>1. IsFiniteSet(hs) /\ IsFiniteSet(hs \ {r})
  BY FS_Subset
<1>2. \A q \in Requests : Amount[q] \in Nat /\ Amount[q] \in Int
  OBVIOUS
<1>3. SumOver(Amount, hs) \in Nat /\ SumOver(Amount, hs \ {r}) \in Nat
  BY <1>1, <1>2, SumIsNat
<1>4. CASE r \in hs
  <2>1. SumOver(Amount, hs \ {r}) = SumOver(Amount, hs) - Amount[r]
    BY <1>1, <1>2, <1>4, SumLeft
  <2> QED
    BY <1>2, <1>3, <1>4, <2>1
<1>5. CASE r \notin hs
  BY <1>1, <1>2, <1>3, <1>5, SumMore
<1> QED
  BY <1>4, <1>5

LEMMA ReserveKeepsSum ==
  ASSUME FundsTypeOK, ReservedIsSum, NEW r \in Requests, ReserveWithdrawal(r)
  PROVE  ReservedIsSum'
<1>1. reserved = SumOver(Amount, Held) /\ Held \in SUBSET Requests
  BY HeldIsSummed DEF Held
<1>2. CASE UNCHANGED <<hold, reserved>>
  BY <1>1, <1>2, HeldIsSummed DEF Held
<1>3. CASE /\ hold[r] = "NONE" /\ hold' = [hold EXCEPT ![r] = "RESERVED"]
           /\ reserved' = reserved + Amount[r]
  <2>1. r \notin Held /\ Held' = Held \cup {r}
    BY <1>3 DEF Held, FundsTypeOK
  <2>2. reserved' = SumOver(Amount, Held')
    BY <1>1, <1>3, <2>1, HoldsPart
  <2> QED
    BY <2>2, HeldIsSummed
<1> QED
  BY <1>2, <1>3 DEF ReserveWithdrawal

\* A release, and a payout of what is held, take the amount off the total.
LEMMA HoldEndsKeepsSum ==
  ASSUME FundsTypeOK, ReservedIsSum, NEW r \in Requests, NEW end \in {"RELEASED", "FINALIZED"},
         hold[r] = "RESERVED", hold' = [hold EXCEPT ![r] = end],
         reserved' = NotNegative(reserved - Amount[r])
  PROVE  ReservedIsSum'
<1>1. reserved = SumOver(Amount, Held) /\ Held \in SUBSET Requests
  BY HeldIsSummed DEF Held
<1>2. r \in Held /\ Held' = Held \ {r}
  BY DEF Held, FundsTypeOK
<1>3. /\ SumOver(Amount, Held \ {r}) = SumOver(Amount, Held) - Amount[r]
      /\ Amount[r] <= SumOver(Amount, Held) /\ SumOver(Amount, Held) \in Nat
  BY <1>1, <1>2, HoldsPart
<1>4. reserved' = SumOver(Amount, Held')
  BY <1>1, <1>2, <1>3 DEF NotNegative
<1> QED
  BY <1>4, HeldIsSummed

LEMMA SameHoldsKeepSum ==
  ASSUME ReservedIsSum, UNCHANGED <<hold, reserved>>
  PROVE  ReservedIsSum'
BY HeldIsSummed DEF Held

LEMMA ServedKeepsSum ==
  ASSUME FundsTypeOK, ReservedIsSum, NEW call \in Calls, NEW r \in Requests, Served(call, r)
  PROVE  ReservedIsSum'
<1>1. CASE call = "reserve"
  BY <1>1, ReserveKeepsSum DEF Served
<1>2. CASE call = "release"
  BY <1>2, HoldEndsKeepsSum, SameHoldsKeepSum DEF Served, ReleaseWithdrawal
<1>3. CASE call = "pay"
  BY <1>3, HoldEndsKeepsSum, SameHoldsKeepSum DEF Served, Payout
<1> QED
  BY <1>1, <1>2, <1>3 DEF Calls

LEMMA SumStays == TypeInv /\ ReservedIsSum /\ [Next]_vars => ReservedIsSum'
<1> SUFFICES ASSUME TypeInv, ReservedIsSum, [Next]_vars PROVE ReservedIsSum'
  OBVIOUS
<1>0. FundsTypeOK /\ does \in [Requests -> Doing]
  BY DEF TypeInv, TypeOK
<1>1. ASSUME NEW r \in Requests, Handler(r) PROVE ReservedIsSum'
  BY <1>1, SameHoldsKeepSum DEF Handler, Create, CreateEnd, UndoEnd, Approve, ApproveEnd, Reject,
     RejectEnd, fundVars
<1>2. ASSUME NEW r \in Requests, Serve(r) PROVE ReservedIsSum'
  <2>1. CallOf[does[r]] \in Calls
    BY <1>0, <1>2, CallOfType DEF Serve, Waiting
  <2> QED
    BY <1>0, <1>2, <2>1, ServedKeepsSum DEF Serve
<1>3. ASSUME NEW r \in Requests, NEW call \in Calls, ServeLate(r, call) PROVE ReservedIsSum'
  BY <1>0, <1>3, ServedKeepsSum DEF ServeLate
<1>4. ASSUME NEW r \in Requests, LoseReply(r) \/ TimeOut(r) \/ SweepSkip(r) PROVE ReservedIsSum'
  BY <1>4, SameHoldsKeepSum DEF LoseReply, TimeOut, SweepSkip, fundVars
<1>5. ASSUME NEW r \in Requests, SweepReserve(r) PROVE ReservedIsSum'
  BY <1>0, <1>5, ReserveKeepsSum DEF SweepReserve
<1>6. CASE Crash \/ SweepList \/ UNCHANGED vars
  BY <1>6, SameHoldsKeepSum DEF Crash, SweepList, vars, fundVars
<1>7. CASE Market
  BY <1>7, SameHoldsKeepSum DEF Market, OpenPosition, PricesMove, ClosePosition
<1>8. CASE Money
  BY <1>8, SameHoldsKeepSum DEF Money, OtherDebit, Deposit, Bonus
<1> QED
  BY <1>1, <1>2, <1>3, <1>4, <1>5, <1>6, <1>7, <1>8 DEF Next, Call, Sweep

LEMMA SumAtStart == Init => ReservedIsSum
<1> SUFFICES ASSUME Init PROVE ReservedIsSum
  OBVIOUS
<1>1. Held = {} /\ reserved = 0
  BY DEF Init, FundsInit, Held
<1> QED
  BY <1>1, SumOfNone, HeldIsSummed

\* reservedWithdraw is the sum of the RESERVED rows, for any requests and amounts: no release,
\* payout, undone request, repeated or late call leaves the column and the rows apart.  The clamp
\* at zero in releaseWithdrawal and adjust never hides a difference.
THEOREM HoldsAddUp == Spec => []ReservedIsSum
BY InitType, StepType, SumAtStart, SumStays, PTL DEF Spec

\* What a request holds is a part of the total, so a payout that looks at the funds beside the
\* other holds is covered whenever the holds as a whole are.
LEMMA CoveredIsPaid == TypeInv /\ ReservedIsSum => PaidWhenCovered
<1> SUFFICES ASSUME TypeInv, ReservedIsSum, NEW r \in Requests,
                    hold[r] = "RESERVED", Withdrawable >= reserved
             PROVE  PayoutReply(r) = "ok"
  BY DEF PaidWhenCovered
<1>1. FundsTypeOK
  BY DEF TypeInv, TypeOK
<1>2. Amount[r] <= reserved /\ Amount[r] \in Nat /\ reserved \in Nat
  <2>1. reserved = SumOver(Amount, Held) /\ Held \in SUBSET Requests /\ r \in Held
    BY HeldIsSummed DEF Held
  <2> QED
    BY <1>1, <2>1, HoldsPart DEF FundsTypeOK
<1>3. NotNegative(reserved - Amount[r]) = reserved - Amount[r]
  BY <1>2 DEF NotNegative
<1>4. Withdrawable \in Int
  BY <1>1 DEF Withdrawable, Lesser, FreeMargin, FundsTypeOK, Balances, Floats
<1>5. Amount[r] <= AvailableBeside(reserved - Amount[r])
  BY <1>2, <1>3, <1>4 DEF AvailableBeside, NotNegative
<1>6. debits[r] \in Nat
  BY <1>1 DEF FundsTypeOK
<1> QED
  BY <1>5, <1>6 DEF PayoutReply, PayoutPays

\* A request that holds its amount is paid whenever the market has left as much as is held in all:
\* however many requests hold funds, none is refused for the sake of another.
THEOREM HeldIsPaid == Spec => []PaidWhenCovered
BY InitType, StepType, SumAtStart, SumStays, CoveredIsPaid, PTL DEF Spec
=============================================================================
